--------------------------- MODULE DatasetLoader ---------------------------
(***************************************************************************)
(* load_dataset (modules/marketdata/loader.py): the start-up of the tick   *)
(* replayer fills the price and the news tables from files, in chunks that *)
(* are committed one by one, and skips on the next start what it finds     *)
(* there.  Bonds have no files: their series is generated on the minutes   *)
(* of the first equity that has any.                                       *)
(*                                                                         *)
(* A row of price_ticks is known by its instrument and its time, which is  *)
(* the primary key; news_items is one more table, whose rows stand for the *)
(* files they come from.                                                   *)
(***************************************************************************)
EXTENDS Integers, SequencesExt

CONSTANTS
    Equities,    \* DATASET_INSTRUMENTS, in their order
    Bonds,       \* BOND_INSTRUMENTS, in their order
    Others,      \* instruments of another era
    News,        \* the news table
    Historical,  \* times of the files of each equity
    Live,
    Backfill,    \* days generated for each bond before LIVE_START
    NewsFiles,
    LiveStart,   \* LIVE_START
    Chunk,       \* _CHUNK
    Existing,    \* what the tables may hold before the first start
    MaxFaults    \* bound: commits that fail and restarts

Universe    == ToSet(Equities) \cup ToSet(Bonds)
Instruments == Universe \cup Others
Tables      == Instruments \cup {News}
Times       == Nat

ASSUME UniverseAssumption ==
    /\ ToSet(Equities) \cap ToSet(Bonds) = {} /\ Universe \cap Others = {}
    /\ News \notin Instruments
    /\ Equities \in Seq(ToSet(Equities)) /\ IsInjective(Equities)
    /\ Bonds \in Seq(ToSet(Bonds)) /\ IsInjective(Bonds)
ASSUME FileAssumption ==
    /\ {Historical, Live} \subseteq [ToSet(Equities) -> SUBSET Times]
    /\ Backfill \subseteq {t \in 0..LiveStart : t < LiveStart} /\ NewsFiles \subseteq Times
    /\ \A i \in ToSet(Equities) : \A t \in Live[i] : t >= LiveStart
    /\ \A i \in ToSet(Equities) : IsFiniteSet(Historical[i]) /\ IsFiniteSet(Live[i])
    /\ IsFiniteSet(NewsFiles)
ASSUME LoaderAssumption ==
    /\ Chunk \in Nat \ {0} /\ {LiveStart, MaxFaults} \subseteq Nat
    /\ Existing \subseteq [Tables -> SUBSET Times]
    /\ \A tables \in Existing : \A table \in Tables : IsFiniteSet(tables[table])

VARIABLES
    stored,    \* what each table holds
    tradable,  \* instruments that may be traded
    loader,    \* where load_dataset is
    faults

loaderVars == <<stored, tradable, loader, faults>>

Loading(at, have, rest) == [at |-> at, have |-> have, rest |-> rest]

LoaderInit ==
    /\ stored \in Existing
    /\ tradable = Instruments
    /\ loader = Loading("start", {}, <<>>)
    /\ faults = 0

-----------------------------------------------------------------------------
(* What is to be inserted: chunks of rows, each with its table. *)

\* How many of S come before t, and S by its time.
Before(t, S) == Cardinality({u \in S : u < t})
InOrder(S)   == [k \in 1..Cardinality(S) |-> CHOOSE t \in S : Before(t, S) = k - 1]

\* _insert_chunked
Chunks(table, rows) ==
    [k \in 1..(Cardinality(rows) + Chunk - 1) \div Chunk |->
        [into |-> table, rows |-> {t \in rows : Before(t, rows) \div Chunk = k - 1}]]

\* Before LIVE_START the daily rows count, from then on the minute bars.
Files == [i \in ToSet(Equities) |->
            Chunks(i, {t \in Historical[i] : t < LiveStart}) \o Chunks(i, Live[i])]

Plan(order, have, rows) ==
    FlattenSeq([k \in DOMAIN order |-> IF order[k] \in have THEN <<>> ELSE rows[order[k]]])

\* _reference_minute_timestamps
Minutes(i) == {t \in stored[i] : t >= LiveStart}
ReferenceMinutes ==
    LET any == {k \in DOMAIN Equities : Minutes(Equities[k]) # {}} IN
    IF any = {} THEN {} ELSE Minutes(Equities[Min(any)])

\* generate_bond_series
Series == [i \in ToSet(Bonds) |-> Chunks(i, Backfill \cup ReferenceMinutes)]

\* _parse_news_file
NewsFile(k) == [into |-> News, rows |-> {k}]

\* ensure_dataset_instruments: the universe is upserted, the others retired.
EnsureInstruments == tradable' = Universe

-----------------------------------------------------------------------------
(* load_dataset. *)

HaveNothing == {}                       \* mutant: loads all again
HaveIfAny   == IF \E i \in Instruments : stored[i] # {} THEN Instruments ELSE {}
                                        \* mutant: of any of them
HaveTicks   == {i \in Instruments : stored[i] # {}}

BeginLoad ==
    /\ loader.at = "start"
    /\ loader' = Loading("ticks", HaveTicks, Plan(Equities, HaveTicks, Files))
    /\ UNCHANGED <<stored, tradable, faults>>

\* The first commit is also that of the instruments.
CommitChunk ==
    /\ loader.rest # <<>>
    /\ LET chunk == Head(loader.rest) IN
       stored' = [stored EXCEPT ![chunk.into] = @ \cup chunk.rows]
    /\ EnsureInstruments
    /\ loader' = [loader EXCEPT !.rest = Tail(@)]
    /\ UNCHANGED faults

\* The bonds that had no ticks when the load began.
PlanBonds ==
    /\ loader.at = "ticks" /\ loader.rest = <<>>
    /\ loader' = Loading("bonds", loader.have, Plan(Bonds, loader.have, Series))
    /\ UNCHANGED <<stored, tradable, faults>>

\* One commit for each file, if the table is empty.
PlanNews ==
    /\ loader.at = "bonds" /\ loader.rest = <<>>
    /\ LET files == InOrder(NewsFiles) IN
       loader' = Loading("news", {}, IF stored[News] # {} THEN <<>>
                    ELSE [k \in DOMAIN files |-> NewsFile(files[k])])
    /\ UNCHANGED <<stored, tradable, faults>>

EndLoad ==
    /\ loader.at = "news" /\ loader.rest = <<>>
    /\ EnsureInstruments
    /\ loader' = Loading("loaded", {}, <<>>)
    /\ UNCHANGED <<stored, faults>>

\* A commit fails: the exception ends the replayer, and with it every worker.
LoadFault ==
    /\ loader.at \notin {"loaded", "dead"}
    /\ faults < MaxFaults
    /\ faults' = faults + 1
    /\ loader' = Loading("dead", {}, <<>>)
    /\ UNCHANGED <<stored, tradable>>

Load == BeginLoad \/ CommitChunk \/ PlanBonds \/ PlanNews \/ EndLoad

-----------------------------------------------------------------------------
LoaderTypeOK ==
    /\ \A table \in Tables : \A t \in stored[table] : t \in Times
    /\ DOMAIN stored = Tables
    /\ tradable \in {Universe, Instruments}
    /\ loader.at \in {"start", "ticks", "bonds", "news", "loaded", "dead"}
    /\ loader.have \subseteq Instruments
    /\ \A k \in DOMAIN loader.rest : loader.rest[k].into \in Tables
    /\ faults \in 0..MaxFaults

\* What is still to be inserted is not there: no start of the process, however
\* the one before it ended, inserts a row twice.  The primary key would refuse
\* it, and the exception end every worker of the process at every start.
RowsAreInsertedOnce ==
    \A k \in DOMAIN loader.rest : loader.rest[k].rows \cap stored[loader.rest[k].into] = {}

\* Each table of the universe holds what its files or its series have.
Complete ==
    /\ \A i \in ToSet(Equities) :
          stored[i] = {t \in Historical[i] : t < LiveStart} \cup Live[i]
    /\ \A i \in ToSet(Bonds) : stored[i] = Backfill \cup ReferenceMinutes
    /\ stored[News] = NewsFiles

\* A first start that nothing interrupts loads everything, whatever the tables
\* hold of instruments of another era (loader.py:283, the "No price data for
\* AAPL" regression), and the bonds are in lockstep with the tape.
UninterruptedLoadIsComplete == loader.at = "loaded" /\ faults = 0 => Complete
=============================================================================
