--------------------------- MODULE SessionsProofs ---------------------------
(***************************************************************************)
(* What sign-in, sessions and the audit trail guarantee for every number   *)
(* of users, sessions, requests and both lifetimes: the invariant is built *)
(* in layers, each of which uses the ones before it.                       *)
(***************************************************************************)
EXTENDS Sessions, FiniteSetTheorems, WellFoundedInduction, TLAPS

-----------------------------------------------------------------------------
(* The types, with what a request holds at each of its steps. *)

Serving   == {"get", "drop", "put", "user", "delete"}
Appending == {"last", "flush", "commit"}

\* given are the tokens clients have, in the store k.
Held(r, given, k) ==
    /\ r.pc \in Serving => r.token \in given
    /\ r.pc = "put" => k = "redis" /\ r.copy \in Session
    /\ r.pc = "create" => r.op = "login" /\ r.user \in Users
    /\ r.pc \in Appending => r.op \in {"login", "failure", "export"}
    /\ r.pc \in Appending /\ r.op = "login" => r.token \in Tokens

WorkOK == \A h \in Handlers : Held(handlers[h], known, kind)

Typed == TypeOK /\ WorkOK

\* A handler that goes on alone: only what it holds now is to be checked.
LEMMA OneHandler ==
  ASSUME Typed, NEW h \in Handlers, NEW r \in Handler, Held(r, known', kind'),
         handlers' = [handlers EXCEPT ![h] = r],
         UNCHANGED kind, known \subseteq known'
  PROVE  handlers' \in [Handlers -> Handler] /\ WorkOK'
<1>1. handlers' \in [Handlers -> Handler]
  BY DEF Typed, TypeOK
<1>2. \A g \in Handlers : handlers'[g] = IF g = h THEN r ELSE handlers[g]
  BY DEF Typed, TypeOK
<1>3. \A g \in Handlers \ {h} : Held(handlers'[g], known', kind')
  BY <1>2 DEF Typed, WorkOK, Held
<1>4. Held(handlers'[h], known', kind')
  BY <1>2 DEF Held
<1> QED
  BY <1>1, <1>3, <1>4 DEF WorkOK

\* A free handler holds nothing.
LEMMA FreeTypes == /\ Free \in Handler
                   /\ Free.pc = "idle" /\ Free.op = "call" /\ Free.token = Nothing
                   /\ Free.copy = Nothing
  BY DEF Free, Handler, Ops, NoHash

\* A request that answers leaves nothing behind.
LEMMA Answered ==
  ASSUME Typed, NEW h \in Handlers, Answer(h), UNCHANGED kind, known \subseteq known'
  PROVE  handlers' \in [Handlers -> Handler] /\ WorkOK'
<1>1. Held(Free, known', kind')
  BY FreeTypes DEF Held, Serving, Appending
<1> QED
  BY <1>1, FreeTypes, OneHandler DEF Answer

\* The types hold at the start.
LEMMA InitTyped == Init => Typed
<1> SUFFICES ASSUME Init PROVE Typed
  OBVIOUS
<1>1. handlers \in [Handlers -> Handler] /\ WorkOK
  BY FreeTypes DEF Init, WorkOK, Held, Serving, Appending
<1>2. /\ life \in [Tokens -> 0..Absolute] /\ rest \in [Tokens -> 0..Idle + 1]
      /\ appends \in 0..MaxAppends /\ exports \in Nat /\ flushed \in Nat
  BY TtlAssumption, AppendAssumption DEF Init, NoHash
<1>3. /\ kind \in Kinds /\ active \subseteq Users /\ known \subseteq Tokens
      /\ sessions \in [Tokens -> Session \cup {Nothing}]
      /\ trail \subseteq [seq : Nat, prev : Nat, about : Subjects]
      /\ ended \in [Tokens -> {"no", "clean", "raced"}] /\ overlapped \in BOOLEAN
  BY DEF Init
<1> QED
  BY <1>1, <1>2, <1>3 DEF Typed, TypeOK

-----------------------------------------------------------------------------
(* The greatest of finitely many numbers, through what is missing to n. *)

\* The greatest of some numbers is one of them.
LEMMA Greatest ==
  ASSUME NEW n \in Nat, NEW S \in SUBSET (0..n), S # {}
  PROVE  Max(S) \in S /\ \A y \in S : y <= Max(S)
<1>0. \A s \in S : s \in Nat /\ s <= n /\ n - s \in Nat
  <2> TAKE s \in S
  <2>1. s \in 0..n
    OBVIOUS
  <2> QED
    BY <2>1
<1> DEFINE T == {n - s : s \in S}
<1>1. T \subseteq Nat /\ T # {}
  <2>1. PICK s \in S : TRUE
    OBVIOUS
  <2>2. n - s \in T
    BY <2>1
  <2>3. T \subseteq Nat
    BY <1>0
  <2> QED
    BY <2>2, <2>3
<1>2. PICK m \in T : \A y \in T : ~(<<y, m>> \in OpToRel(<, Nat))
  BY <1>1, WFMin, NatLessThanWellFounded
<1>3. \A y \in T : m <= y
  <2> SUFFICES ASSUME NEW y \in T, ~(m <= y) PROVE FALSE
    OBVIOUS
  <2>1. y < m /\ y \in Nat /\ m \in Nat
    BY <1>1
  <2>2. <<y, m>> \in OpToRel(<, Nat)
    BY <2>1 DEF OpToRel
  <2> QED
    BY <1>2, <2>2
<1>4. PICK x \in S : m = n - x
  OBVIOUS
<1>5. \A y \in S : x >= y
  BY <1>0, <1>3, <1>4
<1> QED
  BY <1>0, <1>5 DEF Max

-----------------------------------------------------------------------------
(* The types, step by step. *)

\* Sessions that are made, touched and aged are sessions.
LEMMA SessionTypes ==
  /\ \A u \in Users : NewSession(u) \in Session
  /\ \A s \in Session : /\ Touched(s) \in Session /\ Aged(s) \in Session
                        /\ [s EXCEPT !.ttl = Idle] \in Session
                        /\ [Aged(s) EXCEPT !.ttl = Down(@)] \in Session
                        /\ s.user \in Users
<1>1. /\ 0 \in 0..Idle + 1 /\ Absolute \in 0..Absolute /\ Idle \in 0..Idle
  BY TtlAssumption
<1>2. /\ \A n \in 0..Idle + 1 : Capped(n + 1, Idle + 1) \in 0..Idle + 1
      /\ \A n \in 0..Absolute : Down(n) \in 0..Absolute
      /\ \A n \in 0..Idle : Down(n) \in 0..Idle
  BY TtlAssumption DEF Capped, Down
<1>3. \A u \in Users : NewSession(u) \in Session
  BY <1>1 DEF NewSession, Session
<1>4. ASSUME NEW s \in Session
      PROVE  /\ Touched(s) \in Session /\ Aged(s) \in Session
             /\ [s EXCEPT !.ttl = Idle] \in Session
             /\ [Aged(s) EXCEPT !.ttl = Down(@)] \in Session
             /\ s.user \in Users
  BY <1>1, <1>2 DEF Touched, Aged, Session
<1> QED
  BY <1>3, <1>4

\* What a request may have read of the store.
LEMMA StoreTypes ==
  ASSUME Typed, NEW t \in Tokens, NEW s \in Session \cup {Nothing}, Set(t, s)
  PROVE  sessions' \in [Tokens -> Session \cup {Nothing}]
  BY DEF Typed, TypeOK, Set

\* A request that begins keeps the types,
LEMMA RequestTyped ==
  ASSUME Typed, NEW h \in Handlers, NEW t \in Tokens, NEW op \in Ops, Request(h, t, op)
  PROVE  Typed'
<1> DEFINE r == [Free EXCEPT !.pc = "get", !.op = op, !.token = t]
<1>1. r \in Handler /\ r.pc = "get" /\ r.token = t
  BY FreeTypes DEF Handler
<1>2. Held(r, known', kind')
  BY <1>1 DEF Request, Held, Serving, Appending
<1>3. handlers' \in [Handlers -> Handler] /\ WorkOK'
  BY <1>1, <1>2, OneHandler DEF Request, Begin, store
<1>4. appends' \in 0..MaxAppends
  BY AppendAssumption DEF Request, Typed, TypeOK
<1> QED
  BY <1>3, <1>4 DEF Request, Typed, TypeOK, store, audit, history

\* as do a sign-in,
LEMMA LoginTyped ==
  ASSUME Typed, NEW h \in Handlers, NEW u \in Users, Login(h, u)
  PROVE  Typed'
<1> DEFINE a == [Free EXCEPT !.pc = "create", !.op = "login", !.user = u]
           b == [Free EXCEPT !.pc = "last", !.op = "failure"]
           r == IF u \in active THEN a ELSE b
<1>1. /\ a \in Handler /\ a.pc = "create" /\ a.user = u
      /\ a.op = "login" /\ b \in Handler /\ b.pc = "last" /\ b.op = "failure"
  BY FreeTypes DEF Handler
<1>2. r \in Handler /\ Held(r, known', kind')
  BY <1>1 DEF Held, Serving, Appending
<1>3. handlers' \in [Handlers -> Handler] /\ WorkOK'
  BY <1>2, OneHandler DEF Login, Begin, store
<1>4. appends' \in 0..MaxAppends
  BY AppendAssumption DEF Login, Typed, TypeOK
<1> QED
  BY <1>3, <1>4 DEF Login, Typed, TypeOK, store, audit, history

\* its session,
LEMMA CreateTyped ==
  ASSUME Typed, NEW h \in Handlers, Create(h)
  PROVE  Typed'
<1> DEFINE t == CHOOSE u \in Tokens : Fresh(u)
           r == [handlers[h] EXCEPT !.pc = "last", !.token = t, !.user = Nothing]
<1>1. /\ t \in Tokens /\ handlers[h] \in Handler
      /\ handlers[h].user \in Users /\ handlers[h].op = "login"
  BY DEF Create, Typed, TypeOK, WorkOK, Held, At
<1>2. r \in Handler /\ r.pc = "last" /\ r.token \in Tokens /\ r.op = "login"
  BY <1>1 DEF Handler
<1>3. Held(r, known', kind')
  BY <1>2 DEF Held, Serving, Appending
<1>4. handlers' \in [Handlers -> Handler] /\ WorkOK'
  <2>1. handlers' = [handlers EXCEPT ![h] = r] /\ UNCHANGED <<kind, known>>
    BY DEF Create, client
  <2> QED
    BY <1>2, <1>3, <2>1, OneHandler
<1>5. sessions' \in [Tokens -> Session \cup {Nothing}]
  BY <1>1, SessionTypes, StoreTypes DEF Create
<1> QED
  BY <1>4, <1>5 DEF Create, Typed, TypeOK, audit, client, history

\* The ways a request goes on after it has found its session.
LEMMA FoundTypes ==
  ASSUME Typed, NEW h \in Handlers, NEW pc, NEW copy, Found(h, pc, copy),
         At(h, "get"), sessions[handlers[h].token] # Nothing,
         \/ pc = "user" /\ copy = Nothing
         \/ pc = "put" /\ copy \in Session /\ kind = "redis"
  PROVE  /\ handlers' \in [Handlers -> Handler] /\ WorkOK'
         /\ rest' \in [Tokens -> 0..Idle + 1]
<1> DEFINE t == handlers[h].token
           r == [handlers[h] EXCEPT !.pc = pc, !.copy = copy, !.user = sessions[t].user]
<1>1. /\ t \in Tokens /\ t \in known /\ handlers[h] \in Handler
      /\ sessions[t].user \in Users
  BY SessionTypes DEF Typed, TypeOK, WorkOK, Held, At, Serving
<1>2. r \in Handler /\ r.pc = pc /\ r.token = t /\ r.copy = copy
  BY <1>1 DEF Handler
<1>3. Held(r, known', kind')
  BY <1>1, <1>2 DEF Held, Serving, Appending, Found, client
<1>4. handlers' \in [Handlers -> Handler] /\ WorkOK'
  <2>1. handlers' = [handlers EXCEPT ![h] = r] /\ UNCHANGED <<kind, known>>
    BY DEF Found, client
  <2> QED
    BY <1>2, <1>3, <2>1, OneHandler
<1>5. rest' \in [Tokens -> 0..Idle + 1]
  <2>1. 0 \in 0..Idle + 1
    BY TtlAssumption
  <2> QED
    BY <2>1 DEF Found, Typed, TypeOK
<1> QED
  BY <1>4, <1>5

\* the reads of either store,
LEMMA GetTyped ==
  ASSUME Typed, NEW h \in Handlers, Refused(h) \/ MemoryGet(h) \/ RedisGet(h)
  PROVE  Typed'
<1> DEFINE t == handlers[h].token
           s == sessions[t]
<1>1. /\ At(h, "get") /\ t \in Tokens /\ t \in known /\ handlers[h] \in Handler
      /\ s # Nothing => s \in Session
  BY DEF Refused, MemoryGet, RedisGet, Typed, TypeOK, WorkOK, Held, At, Serving
<1>2. CASE Refused(h)
  <2>1. handlers' \in [Handlers -> Handler] /\ WorkOK'
    BY <1>2, Answered DEF Refused, store, client
  <2> QED
    BY <1>2, <2>1 DEF Refused, Typed, TypeOK, store, audit, client, history
<1>3. CASE MemoryGet(h) /\ Expired(s)
  <2>1. handlers' \in [Handlers -> Handler] /\ WorkOK'
    BY <1>3, Answered DEF MemoryGet, Found, client
  <2>2. sessions' \in [Tokens -> Session \cup {Nothing}]
    BY <1>1, <1>3, StoreTypes DEF MemoryGet
  <2> QED
    BY <1>3, <2>1, <2>2 DEF MemoryGet, Typed, TypeOK, audit, client, history
<1>4. CASE MemoryGet(h) /\ ~Expired(s)
  <2>1. Found(h, "user", Nothing) /\ Set(t, Touched(s)) /\ s \in Session
    BY <1>1, <1>4 DEF MemoryGet
  <2>2. handlers' \in [Handlers -> Handler] /\ WorkOK' /\ rest' \in [Tokens -> 0..Idle + 1]
    BY <1>1, <1>4, <2>1, FoundTypes DEF MemoryGet
  <2>3. sessions' \in [Tokens -> Session \cup {Nothing}]
    BY <1>1, <2>1, SessionTypes, StoreTypes
  <2> QED
    BY <2>1, <2>2, <2>3 DEF Found, Typed, TypeOK, audit, client, history
<1>5. CASE RedisGet(h) /\ Expired(s)
  <2> DEFINE r == [handlers[h] EXCEPT !.pc = "drop"]
  <2>1. r \in Handler /\ r.pc = "drop" /\ r.token = t
    BY <1>1 DEF Handler
  <2>2. handlers' = [handlers EXCEPT ![h] = r] /\ UNCHANGED <<store, active, audit, client, history>>
    BY <1>5 DEF RedisGet, Goto
  <2>3. Held(r, known', kind')
    BY <1>1, <2>1, <2>2 DEF Held, Serving, Appending, client
  <2>4. handlers' \in [Handlers -> Handler] /\ WorkOK'
    BY <2>1, <2>2, <2>3, OneHandler DEF store, client
  <2> QED
    BY <2>2, <2>4 DEF Typed, TypeOK, store, audit, client, history
<1>6. CASE RedisGet(h) /\ ~Expired(s)
  <2>1. /\ Found(h, "put", Touched(s)) /\ UNCHANGED sessions /\ s \in Session
        /\ Touched(s) \in Session /\ kind = "redis"
    BY <1>1, <1>6, SessionTypes DEF RedisGet
  <2>2. handlers' \in [Handlers -> Handler] /\ WorkOK' /\ rest' \in [Tokens -> 0..Idle + 1]
    BY <1>1, <1>6, <2>1, FoundTypes DEF RedisGet
  <2> QED
    BY <2>1, <2>2 DEF Found, Typed, TypeOK, audit, client, history
<1> QED
  BY <1>2, <1>3, <1>4, <1>5, <1>6

\* a session that is dropped,
LEMMA DropTyped ==
  ASSUME Typed, NEW h \in Handlers, RedisDrop(h) \/ Logout(h)
  PROVE  Typed'
<1> DEFINE t == handlers[h].token
<1>1. t \in Tokens /\ Set(t, Nothing) /\ Answer(h) /\ UNCHANGED <<kind, known>>
  BY DEF RedisDrop, Logout, Typed, TypeOK, WorkOK, Held, At, Serving, client
<1>2. handlers' \in [Handlers -> Handler] /\ WorkOK'
  BY <1>1, Answered
<1>3. sessions' \in [Tokens -> Session \cup {Nothing}]
  BY <1>1, StoreTypes
<1>4. ended' \in [Tokens -> {"no", "clean", "raced"}]
  BY DEF RedisDrop, Logout, history, Typed, TypeOK
<1> QED
  BY <1>2, <1>3, <1>4 DEF RedisDrop, Logout, Typed, TypeOK, audit, client, history

\* one that is written back,
LEMMA PutTyped ==
  ASSUME Typed, NEW h \in Handlers, RedisPut(h)
  PROVE  Typed'
<1> DEFINE t == handlers[h].token
           s == [handlers[h].copy EXCEPT !.ttl = Idle]
           r == [handlers[h] EXCEPT !.pc = "user", !.copy = Nothing]
<1>1. /\ t \in Tokens /\ t \in known /\ handlers[h] \in Handler
      /\ handlers[h].copy \in Session
  BY DEF RedisPut, Put, Typed, TypeOK, WorkOK, Held, At, Serving
<1>2. s \in Session /\ Set(t, s)
  BY <1>1, SessionTypes DEF RedisPut, Put
<1>3. r \in Handler /\ r.pc = "user" /\ r.token = t
  BY <1>1 DEF Handler
<1>4. handlers' = [handlers EXCEPT ![h] = r] /\ UNCHANGED <<kind, known>>
  BY DEF RedisPut, Put, client
<1>5. Held(r, known', kind')
  BY <1>1, <1>3, <1>4 DEF Held, Serving, Appending
<1>6. handlers' \in [Handlers -> Handler] /\ WorkOK'
  BY <1>3, <1>4, <1>5, OneHandler
<1>7. sessions' \in [Tokens -> Session \cup {Nothing}]
  BY <1>1, <1>2, StoreTypes
<1> QED
  BY <1>6, <1>7 DEF RedisPut, Put, Typed, TypeOK, audit, client, history

\* and the check of the user.
LEMMA UserTyped ==
  ASSUME Typed, NEW h \in Handlers, CheckUser(h)
  PROVE  Typed'
<1>m. PICK n \in 0..Cardinality(trail) :
          handlers' = [handlers EXCEPT ![h] = Endpoint(handlers[h], n)]
  BY DEF CheckUser
<1> DEFINE r == handlers[h]
           a == [Free EXCEPT !.pc = "delete", !.op = r.op, !.token = r.token]
           b == [Free EXCEPT !.pc = "last", !.op = r.op]
<1>1. r.token \in Tokens /\ r.token \in known /\ r \in Handler
  BY DEF CheckUser, Typed, TypeOK, WorkOK, Held, At, Serving
<1>2. /\ a \in Handler /\ a.pc = "delete" /\ a.token = r.token
      /\ b \in Handler /\ b.pc = "last" /\ b.op = r.op
  BY <1>1, FreeTypes DEF Handler
<1>3. \/ Endpoint(r, n) = a
      \/ Endpoint(r, n) = b /\ r.op = "export"
      \/ Endpoint(r, n) = Free
  BY DEF Endpoint
<1>4. Endpoint(r, n) \in Handler /\ Held(Endpoint(r, n), known, kind)
  BY <1>1, <1>2, <1>3, FreeTypes DEF Held, Serving, Appending
<1>5. handlers' = [handlers EXCEPT ![h] = Endpoint(r, n)] /\ UNCHANGED <<kind, known>>
  BY <1>m DEF CheckUser, store, client
<1>6. handlers' \in [Handlers -> Handler] /\ WorkOK'
  BY <1>4, <1>5, OneHandler
<1> QED
  BY <1>6 DEF CheckUser, Typed, TypeOK, store, audit, client, history

-----------------------------------------------------------------------------
(* The end of the trail. *)

\* All the numbers of the trail have been given.
Numbered == \A e \in trail : e.seq \in 1..flushed

\* The last event is one of the trail, unless the trail is empty.
LEMMA LastTypes ==
  ASSUME NEW T, NEW n \in Nat, \A e \in T : e.seq \in 1..n
  PROVE  /\ LastHash(T) \in 0..n
         /\ LastHash(T) = NoHash \/ \E d \in T : d.seq = LastHash(T)
         /\ \A d \in T : d.seq <= LastHash(T)
<1> DEFINE S == {NoHash} \cup {e.seq : e \in T}
<1>1. S \in SUBSET (0..n) /\ S # {}
  BY DEF NoHash
<1>2. Max(S) \in S /\ \A y \in S : y <= Max(S)
  BY <1>1, Greatest
<1> QED
  BY <1>1, <1>2 DEF LastHash

\* The three steps of an append keep the types:
LEMMA ReadLastTyped ==
  ASSUME Typed, Numbered, NEW h \in Handlers, ReadLast(h)
  PROVE  Typed'
<1> DEFINE r == [handlers[h] EXCEPT !.pc = "flush", !.prev = LastHash(trail)]
<1>1. LastHash(trail) \in Nat /\ handlers[h] \in Handler
  BY LastTypes DEF Numbered, Typed, TypeOK
<1>2. r \in Handler /\ r.pc = "flush" /\ r.op = handlers[h].op /\ r.token = handlers[h].token
  BY <1>1 DEF Handler
<1>3. handlers' = [handlers EXCEPT ![h] = r] /\ UNCHANGED <<kind, known>>
  BY DEF ReadLast, ReadHash, store, client
<1>4. Held(r, known', kind')
  BY <1>2 DEF ReadLast, ReadHash, At, Typed, WorkOK, Held, Serving, Appending
<1>5. handlers' \in [Handlers -> Handler] /\ WorkOK'
  BY <1>2, <1>3, <1>4, OneHandler
<1>6. overlapped' \in BOOLEAN
  BY DEF ReadLast, ReadHash
<1> QED
  BY <1>5, <1>6 DEF ReadLast, ReadHash, Typed, TypeOK, store, client, history

\* the number is given,
LEMMA FlushTyped ==
  ASSUME Typed, NEW h \in Handlers, Flush(h)
  PROVE  Typed'
<1> DEFINE r == [handlers[h] EXCEPT !.pc = "commit", !.seq = flushed + 1]
<1>1. flushed + 1 \in Nat /\ handlers[h] \in Handler
  BY DEF Typed, TypeOK
<1>2. r \in Handler /\ r.pc = "commit" /\ r.op = handlers[h].op /\ r.token = handlers[h].token
  BY <1>1 DEF Handler
<1>3. handlers' = [handlers EXCEPT ![h] = r] /\ UNCHANGED <<kind, known>>
  BY DEF Flush, store, client
<1>4. Held(r, known', kind')
  BY <1>2 DEF Flush, At, Typed, WorkOK, Held, Serving, Appending
<1>5. handlers' \in [Handlers -> Handler] /\ WorkOK'
  BY <1>2, <1>3, <1>4, OneHandler
<1> QED
  BY <1>1, <1>5 DEF Flush, Typed, TypeOK, store, client, history

\* and committed.
LEMMA CommitTyped ==
  ASSUME Typed, NEW h \in Handlers, Commit(h)
  PROVE  Typed'
<1> DEFINE r == handlers[h]
           e == Event(r.seq, r.prev, IF r.op = "login" THEN r.token ELSE r.op)
<1>1. /\ r \in Handler /\ r.op \in {"login", "failure", "export"}
      /\ r.op = "login" => r.token \in Tokens
  BY DEF Commit, At, Typed, TypeOK, WorkOK, Held, Appending
<1>2. e \in [seq : Nat, prev : Nat, about : Subjects]
  BY <1>1 DEF Event, Handler, Subjects
<1>3. trail' \subseteq [seq : Nat, prev : Nat, about : Subjects]
  BY <1>2 DEF Commit, Typed, TypeOK
<1>4. known \subseteq known' /\ known' \subseteq Tokens /\ exports' \in Nat
  BY <1>1 DEF Commit, Typed, TypeOK
<1>5. handlers' \in [Handlers -> Handler] /\ WorkOK'
  BY <1>4, Answered DEF Commit, store
<1> QED
  BY <1>3, <1>4, <1>5 DEF Commit, Typed, TypeOK, store, history

-----------------------------------------------------------------------------
(* Time, the process, and every step together. *)

\* Time goes on with sessions in their lifetimes.
LEMMA TickTyped ==
  ASSUME Typed, Tick
  PROVE  Typed'
<1>1. ASSUME NEW t \in Tokens
      PROVE  (IF sessions[t] = Nothing THEN Nothing ELSE Later(sessions[t]))
                \in Session \cup {Nothing}
  BY SessionTypes DEF Later, Typed, TypeOK
<1>2. sessions' \in [Tokens -> Session \cup {Nothing}]
  BY <1>1 DEF Tick
<1>3. ASSUME NEW h \in Handlers
      PROVE  handlers'[h] \in Handler /\ Held(handlers'[h], known', kind')
  <2>1. /\ handlers[h] \in Handler /\ Held(handlers[h], known, kind)
        /\ handlers[h].copy \in Session \cup {Nothing} /\ UNCHANGED <<known, kind>>
    BY DEF Typed, TypeOK, WorkOK, Handler, Tick, client
  <2>2. CASE handlers[h].copy = Nothing
    BY <2>1, <2>2 DEF Tick
  <2>3. CASE handlers[h].copy # Nothing
    <3> DEFINE r == [handlers[h] EXCEPT !.copy = Aged(@)]
    <3>1. handlers'[h] = r /\ Aged(handlers[h].copy) \in Session
      BY <2>1, <2>3, SessionTypes DEF Tick
    <3>2. /\ r \in Handler /\ r.pc = handlers[h].pc /\ r.op = handlers[h].op
          /\ r.token = handlers[h].token /\ r.user = handlers[h].user
          /\ r.copy = Aged(handlers[h].copy)
      BY <2>1, <3>1 DEF Handler
    <3> QED
      BY <2>1, <3>1, <3>2 DEF Held
  <2> QED
    BY <2>2, <2>3
<1>4. handlers' \in [Handlers -> Handler] /\ WorkOK'
  <2>1. handlers' = [h \in Handlers |-> handlers'[h]]
    BY DEF Tick
  <2> QED
    BY <1>3, <2>1 DEF WorkOK
<1>5. /\ \A n \in 0..Absolute : Capped(n + 1, Absolute) \in 0..Absolute
      /\ \A n \in 0..Idle + 1 : Capped(n + 1, Idle + 1) \in 0..Idle + 1
      /\ 0 \in 0..Absolute /\ 0 \in 0..Idle + 1
  BY TtlAssumption DEF Capped
<1>6. life' \in [Tokens -> 0..Absolute] /\ rest' \in [Tokens -> 0..Idle + 1]
  BY <1>5 DEF Tick, Typed, TypeOK
<1> QED
  BY <1>2, <1>4, <1>6 DEF Tick, Typed, TypeOK, audit, client

\* Failures and restarts keep the types.
LEMMA ProcessTyped ==
  ASSUME Typed, \/ \E h \in Handlers : Fault(h)
                \/ \E u \in Users : Deactivate(u)
                \/ Restart
                \/ UNCHANGED vars
  PROVE  Typed'
<1>1. CASE \E h \in Handlers : Fault(h)
  <2> PICK h \in Handlers : Fault(h)
    BY <1>1
  <2>1. handlers' \in [Handlers -> Handler] /\ WorkOK'
    BY Answered DEF Fault, store, client
  <2> QED
    BY <2>1 DEF Fault, Typed, TypeOK, store, audit, client, history
<1>2. CASE \E u \in Users : Deactivate(u)
  BY <1>2 DEF Deactivate, Typed, TypeOK, WorkOK, store, audit, client, history
<1>3. CASE Restart
  <2>1. handlers' \in [Handlers -> Handler] /\ WorkOK'
    BY <1>3, FreeTypes DEF Restart, WorkOK, Held, Serving, Appending
  <2>2. sessions' \in [Tokens -> Session \cup {Nothing}]
    BY <1>3 DEF Restart, Typed, TypeOK
  <2> QED
    BY <1>3, <2>1, <2>2 DEF Restart, Typed, TypeOK, audit, client, history
<1>4. CASE UNCHANGED vars
  BY <1>4 DEF vars, Typed, TypeOK, WorkOK, store, audit, client, history
<1> QED
  BY <1>1, <1>2, <1>3, <1>4

\* Every step keeps them.
LEMMA StepTyped == Typed /\ Numbered /\ [Next]_vars => Typed'
<1> SUFFICES ASSUME Typed, Numbered, [Next]_vars PROVE Typed'
  OBVIOUS
<1>1. CASE Tick
  BY <1>1, TickTyped
<1>2. CASE \/ \E h \in Handlers : Fault(h)
           \/ \E u \in Users : Deactivate(u)
           \/ Restart
           \/ UNCHANGED vars
  BY <1>2, ProcessTyped
<1>3. ASSUME NEW h \in Handlers, Serve(h)
      PROVE  Typed' \/ Fault(h)
  BY <1>3, LoginTyped, CreateTyped, RequestTyped, GetTyped, DropTyped, PutTyped, UserTyped,
     ReadLastTyped, FlushTyped, CommitTyped DEF Serve
<1> QED
  BY <1>1, <1>2, <1>3 DEF Next

-----------------------------------------------------------------------------
(* The trail. *)

Writing == {"flush", "commit"}

\* A number that was given and is not committed yet is no other's.
Given ==
    /\ Numbered
    /\ \A h \in Handlers : At(h, "commit") =>
          /\ handlers[h].seq \in 1..flushed
          /\ \A e \in trail : e.seq # handlers[h].seq
          /\ \A g \in Handlers \ {h} : At(g, "commit") => handlers[g].seq # handlers[h].seq

\* What a writer is chained to is committed, and older than the writer.
Linked ==
    /\ LinksLeadBack(trail)
    /\ \A h \in Handlers : handlers[h].pc \in Writing =>
          LET r == handlers[h] IN
          /\ r.prev = NoHash \/ \E d \in trail : d.seq = r.prev
          /\ r.prev <= flushed
          /\ At(h, "commit") => r.prev < r.seq

\* As long as no two appends overlapped a writer is alone and at the end.
Chained ==
    ~overlapped =>
        /\ IsChain(trail)
        /\ \A h \in Handlers : handlers[h].pc \in Writing =>
              /\ handlers[h].prev = LastHash(trail)
              /\ At(h, "commit") => \A e \in trail : e.seq < handlers[h].seq
              /\ \A g \in Handlers : handlers[g].pc \in Writing => g = h

Recorded == IsFiniteSet(trail) /\ AnswersAreAudited

Trail == Given /\ Linked /\ Chained /\ Recorded

\* A step that begins no writing and ends none but by giving it up.
LEMMA TrailUntouched ==
  ASSUME Trail, UNCHANGED audit, UNCHANGED <<known, exports>>,
         \A g \in Handlers : handlers'[g].pc \in Writing =>
            /\ handlers'[g].pc = handlers[g].pc
            /\ handlers'[g].prev = handlers[g].prev
            /\ handlers'[g].seq = handlers[g].seq
  PROVE  Trail'
<1>1. Given'
  BY DEF Trail, Given, Numbered, audit, At, Writing
<1>2. Linked'
  BY DEF Trail, Linked, audit, At, Writing
<1>3. Chained'
  BY DEF Trail, Chained, audit, At, Writing
<1>4. Recorded'
  BY DEF Trail, Recorded, AnswersAreAudited, audit
<1> QED
  BY <1>1, <1>2, <1>3, <1>4 DEF Trail

\* The trail is empty at the start.
LEMMA InitTrail == Init => Trail
<1> SUFFICES ASSUME Init PROVE Trail
  OBVIOUS
<1>1. \A h \in Handlers : handlers[h].pc = "idle"
  BY FreeTypes DEF Init
<1>2. Given /\ Linked /\ Chained
  BY <1>1 DEF Init, Given, Numbered, Linked, LinksLeadBack, Chained, IsChain, At, Writing
<1>3. Recorded
  <2>1. IsFiniteSet(trail) /\ About(trail, "export") = {}
    BY FS_EmptySet DEF Init, About
  <2> QED
    BY <2>1, FS_EmptySet DEF Init, Recorded, AnswersAreAudited
<1> QED
  BY <1>2, <1>3 DEF Trail

\* A handler that goes on to something else than writing.
LEMMA OneQuiet ==
  ASSUME Typed, Trail, NEW h \in Handlers, NEW r, r.pc \notin Writing,
         handlers' = [handlers EXCEPT ![h] = r],
         UNCHANGED audit, UNCHANGED <<known, exports>>
  PROVE  Trail'
<1>1. \A g \in Handlers : handlers'[g].pc \in Writing => handlers'[g] = handlers[g]
  BY DEF Typed, TypeOK
<1> QED
  BY <1>1, TrailUntouched

\* Steps that are no append leave it alone.
LEMMA QuietTrail ==
  ASSUME Typed, Trail, NEW h \in Handlers,
         \/ \E u \in Users : Login(h, u)
         \/ \E t \in Tokens, op \in Ops : Request(h, t, op)
         \/ Create(h) \/ Refused(h) \/ MemoryGet(h) \/ RedisGet(h) \/ RedisDrop(h)
         \/ RedisPut(h) \/ CheckUser(h) \/ Logout(h) \/ Fault(h)
  PROVE  Trail'
<1>1. handlers[h] \in Handler /\ UNCHANGED audit /\ UNCHANGED <<known, exports>>
  BY DEF Typed, TypeOK, Login, Request, Create, Refused, MemoryGet, RedisGet, RedisDrop, RedisPut,
     Put, CheckUser, Logout, Fault, Found, client
<1>2. CASE \E u \in Users : Login(h, u)
  <2> PICK u \in Users : Login(h, u)
    BY <1>2
  <2> DEFINE r == IF u \in active THEN [Free EXCEPT !.pc = "create", !.op = "login", !.user = u]
                  ELSE [Free EXCEPT !.pc = "last", !.op = "failure"]
  <2>1. r.pc \notin Writing
    BY FreeTypes DEF Free, Writing
  <2>2. handlers' = [handlers EXCEPT ![h] = r]
    BY DEF Login, Begin
  <2> QED
    BY <1>1, <2>1, <2>2, OneQuiet
<1>3. CASE \E t \in Tokens, op \in Ops : Request(h, t, op)
  <2> PICK t \in Tokens, op \in Ops : Request(h, t, op)
    BY <1>3
  <2> DEFINE r == [Free EXCEPT !.pc = "get", !.op = op, !.token = t]
  <2>1. r.pc \notin Writing
    BY DEF Free, Writing
  <2>2. handlers' = [handlers EXCEPT ![h] = r]
    BY DEF Request, Begin
  <2> QED
    BY <1>1, <2>1, <2>2, OneQuiet
<1>4. CASE Create(h)
  <2> DEFINE t == CHOOSE u \in Tokens : Fresh(u)
             r == [handlers[h] EXCEPT !.pc = "last", !.token = t, !.user = Nothing]
  <2>1. r.pc \notin Writing
    BY <1>1 DEF Handler, Writing
  <2>2. handlers' = [handlers EXCEPT ![h] = r]
    BY <1>4 DEF Create
  <2> QED
    BY <1>1, <2>1, <2>2, OneQuiet
<1>5. CASE Answer(h)
  <2>1. Free.pc \notin Writing
    BY FreeTypes DEF Writing
  <2> QED
    BY <1>1, <1>5, <2>1, OneQuiet DEF Answer
<1>6. CASE MemoryGet(h) /\ ~Answer(h)
  <2> DEFINE r == [handlers[h] EXCEPT !.pc = "user", !.copy = Nothing,
                                      !.user = sessions[handlers[h].token].user]
  <2>1. r.pc \notin Writing
    BY <1>1 DEF Handler, Writing
  <2>2. handlers' = [handlers EXCEPT ![h] = r]
    BY <1>6 DEF MemoryGet, Found
  <2> QED
    BY <1>1, <2>1, <2>2, OneQuiet
<1>7. CASE RedisGet(h)
  <2> DEFINE s == sessions[handlers[h].token]
             r == [handlers[h] EXCEPT !.pc = "put", !.copy = Touched(s), !.user = s.user]
             d == [handlers[h] EXCEPT !.pc = "drop"]
  <2>1. r.pc \notin Writing /\ d.pc \notin Writing
    BY <1>1 DEF Handler, Writing
  <2>2. handlers' = [handlers EXCEPT ![h] = r] \/ handlers' = [handlers EXCEPT ![h] = d]
    BY <1>7 DEF RedisGet, Found, Goto
  <2> QED
    BY <1>1, <2>1, <2>2, OneQuiet
<1>8. CASE RedisPut(h)
  <2> DEFINE r == [handlers[h] EXCEPT !.pc = "user", !.copy = Nothing]
  <2>1. r.pc \notin Writing
    BY <1>1 DEF Handler, Writing
  <2>2. handlers' = [handlers EXCEPT ![h] = r]
    BY <1>8 DEF RedisPut, Put
  <2> QED
    BY <1>1, <2>1, <2>2, OneQuiet
<1>9. CASE CheckUser(h)
  <2>1. PICK n \in 0..Cardinality(trail) :
            handlers' = [handlers EXCEPT ![h] = Endpoint(handlers[h], n)]
    BY <1>9 DEF CheckUser
  <2>2. Endpoint(handlers[h], n).pc \notin Writing
    BY FreeTypes DEF Endpoint, Free, Writing
  <2> QED
    BY <1>1, <2>1, <2>2, OneQuiet
<1> QED
  BY <1>2, <1>3, <1>4, <1>5, <1>6, <1>7, <1>8, <1>9 DEF Refused, RedisDrop, Logout, Fault

\* Who reads the last event is at the end of the trail until another append
\* begins,
LEMMA ReadLastTrail ==
  ASSUME Typed, Trail, NEW h \in Handlers, ReadLast(h)
  PROVE  Trail'
<1> DEFINE r == [handlers[h] EXCEPT !.pc = "flush", !.prev = LastHash(trail)]
<1>1. /\ handlers[h] \in Handler /\ handlers[h].pc = "last" /\ flushed \in Nat
      /\ UNCHANGED <<trail, flushed, known, exports>>
  BY DEF ReadLast, ReadHash, At, Typed, TypeOK, client
<1>2. r.pc = "flush" /\ r.prev = LastHash(trail)
  BY <1>1 DEF Handler
<1>3. \A g \in Handlers : handlers'[g] = IF g = h THEN r ELSE handlers[g]
  BY DEF ReadLast, ReadHash, Typed, TypeOK
<1> HIDE DEF r
<1>4. /\ LastHash(trail) <= flushed
      /\ LastHash(trail) = NoHash \/ \E d \in trail : d.seq = LastHash(trail)
  BY <1>1, LastTypes DEF Trail, Given, Numbered
<1>5. Given'
  BY <1>1, <1>2, <1>3 DEF Trail, Given, Numbered, At
<1>6. Linked'
  BY <1>1, <1>2, <1>3, <1>4 DEF Trail, Linked, At, Writing
<1>7. Chained'
  <2> SUFFICES ASSUME ~overlapped' PROVE Chained'
    BY DEF Chained
  <2>1. ~overlapped /\ \A g \in Handlers : handlers[g].pc \notin Writing
    BY DEF ReadLast, ReadHash, Writing
  <2> QED
    BY <1>1, <1>2, <1>3, <2>1 DEF Trail, Chained, At, Writing
<1>8. Recorded'
  BY <1>1 DEF Trail, Recorded, AnswersAreAudited
<1> QED
  BY <1>5, <1>6, <1>7, <1>8 DEF Trail

\* gets a number nobody has,
LEMMA FlushTrail ==
  ASSUME Typed, Trail, NEW h \in Handlers, Flush(h)
  PROVE  Trail'
<1> DEFINE r == [handlers[h] EXCEPT !.pc = "commit", !.seq = flushed + 1]
<1>1. /\ handlers[h] \in Handler /\ handlers[h].pc = "flush" /\ flushed \in Nat
      /\ flushed' = flushed + 1 /\ UNCHANGED <<trail, overlapped, known, exports>>
  BY DEF Flush, At, Typed, TypeOK, client
<1>2. r.pc = "commit" /\ r.prev = handlers[h].prev /\ r.seq = flushed + 1 /\ r.prev \in Nat
  BY <1>1 DEF Handler
<1>3. \A g \in Handlers : handlers'[g] = IF g = h THEN r ELSE handlers[g]
  BY <1>1 DEF Flush, Typed, TypeOK
<1> HIDE DEF r
<1>4. \A e \in trail : e.seq \in 1..flushed
  BY DEF Trail, Given, Numbered
<1>5. \A g \in Handlers : handlers[g] \in Handler /\ handlers[g].prev \in Nat
  BY DEF Typed, TypeOK, Handler
<1>6. Given'
  BY <1>1, <1>2, <1>3, <1>4 DEF Trail, Given, Numbered, At
<1>7. Linked'
  BY <1>1, <1>2, <1>3, <1>5 DEF Trail, Linked, At, Writing
<1>8. Chained'
  BY <1>1, <1>2, <1>3, <1>4 DEF Trail, Chained, At, Writing
<1>9. Recorded'
  BY <1>1 DEF Trail, Recorded, AnswersAreAudited
<1> QED
  BY <1>6, <1>7, <1>8, <1>9 DEF Trail

\* and commits it.
LEMMA CommitTrail ==
  ASSUME Typed, Trail, NEW h \in Handlers, Commit(h)
  PROVE  Trail'
<1> DEFINE r == handlers[h]
           e == Event(r.seq, r.prev, IF r.op = "login" THEN r.token ELSE r.op)
<1>1. /\ r \in Handler /\ r.pc = "commit" /\ flushed \in Nat
      /\ trail' = trail \cup {e} /\ UNCHANGED <<flushed, overlapped>>
      /\ e.seq = r.seq /\ e.prev = r.prev /\ e.prev \in Nat
      /\ e.about = IF r.op = "login" THEN r.token ELSE r.op
  BY DEF Commit, At, Typed, TypeOK, Event, Handler
<1>2. \A g \in Handlers : handlers'[g] = IF g = h THEN Free ELSE handlers[g]
  BY DEF Commit, Answer, Typed, TypeOK
<1>3. e.seq \in 1..flushed /\ e \notin trail
  BY <1>1 DEF Trail, Given, At
<1>4. Given'
  BY <1>1, <1>2, <1>3, FreeTypes DEF Trail, Given, Numbered, At
<1>5. Linked'
  <2>1. e.prev = NoHash \/ \E d \in trail : d.seq = e.prev /\ d.seq < e.seq
    BY <1>1 DEF Trail, Linked, At, Writing
  <2>2. LinksLeadBack(trail')
    BY <1>1, <2>1 DEF Trail, Linked, LinksLeadBack
  <2>3. \A g \in Handlers : handlers'[g].pc \in Writing =>
          /\ handlers'[g] = handlers[g]
          /\ handlers[g].prev = NoHash \/ \E d \in trail' : d.seq = handlers[g].prev
    BY <1>1, <1>2, FreeTypes DEF Trail, Linked, Writing
  <2> QED
    BY <1>1, <2>2, <2>3 DEF Trail, Linked, At
<1>6. Chained'
  <2> SUFFICES ASSUME ~overlapped PROVE Chained'
    BY <1>1 DEF Chained
  <2>1. /\ IsChain(trail) /\ e.prev = LastHash(trail)
        /\ \A d \in trail : d.seq < e.seq
        /\ \A g \in Handlers : handlers[g].pc \in Writing => g = h
    BY <1>1 DEF Trail, Chained, At, Writing
  <2>2. \A d \in trail : d.seq \in Nat
    BY DEF Trail, Given, Numbered
  <2>3. {d \in trail' : d.seq < e.seq} = trail
    BY <1>1, <1>3, <2>1, <2>2
  <2>4. ASSUME NEW c \in trail
        PROVE  {d \in trail' : d.seq < c.seq} = {d \in trail : d.seq < c.seq}
    BY <1>1, <1>3, <2>1, <2>2
  <2>5. IsChain(trail')
    BY <1>1, <2>1, <2>3, <2>4 DEF IsChain
  <2>6. \A g \in Handlers : handlers'[g].pc \notin Writing
    BY <1>2, <2>1, FreeTypes DEF Writing
  <2> QED
    BY <2>5, <2>6 DEF Chained
<1>7. Recorded'
  <2>1. IsFiniteSet(trail) /\ IsFiniteSet(trail')
    BY <1>1, FS_AddElement DEF Trail, Recorded
  <2>2. \A t \in known' : About(trail', t) # {}
    <3> TAKE t \in known'
    <3>1. CASE t \in known
      BY <1>1, <3>1 DEF Trail, Recorded, AnswersAreAudited, About
    <3>2. CASE r.op = "login" /\ t = r.token
      BY <1>1, <3>2 DEF About
    <3> QED
      BY <3>1, <3>2 DEF Commit
  <2>3. exports' <= Cardinality(About(trail', "export"))
    <3> DEFINE A == About(trail, "export")
               B == About(trail', "export")
    <3>1. IsFiniteSet(A) /\ IsFiniteSet(B)
      BY <2>1, FS_Subset DEF About
    <3>2. exports <= Cardinality(A) /\ exports \in Nat
      BY DEF Trail, Recorded, AnswersAreAudited, Typed, TypeOK
    <3>3. CASE r.op = "export"
      <4>1. B = A \cup {e} /\ e \notin A
        BY <1>1, <1>3, <3>3 DEF About
      <4>2. Cardinality(B) = Cardinality(A) + 1 /\ Cardinality(A) \in Nat
        BY <3>1, <4>1, FS_AddElement, FS_CardinalityType
      <4>3. exports' = exports + 1
        BY <3>3 DEF Commit
      <4> QED
        BY <3>2, <4>2, <4>3
    <3>4. CASE r.op # "export"
      <4>1. A \in SUBSET B
        BY <1>1 DEF About
      <4>2. Cardinality(A) <= Cardinality(B)
        BY <3>1, <4>1, FS_Subset
      <4>3. Cardinality(A) \in Nat /\ Cardinality(B) \in Nat
        BY <3>1, FS_CardinalityType
      <4>4. exports' = exports
        BY <3>2, <3>4 DEF Commit
      <4> QED
        BY <3>2, <4>2, <4>3, <4>4
    <3> QED
      BY <3>3, <3>4
  <2> QED
    BY <2>1, <2>2, <2>3 DEF Recorded, AnswersAreAudited
<1> QED
  BY <1>4, <1>5, <1>6, <1>7 DEF Trail

\* Every step keeps the trail.
LEMMA StepTrail == Typed /\ Trail /\ [Next]_vars => Trail'
<1> SUFFICES ASSUME Typed, Trail, [Next]_vars PROVE Trail'
  OBVIOUS
<1>1. ASSUME NEW h \in Handlers, Serve(h) PROVE Trail'
  BY <1>1, QuietTrail, ReadLastTrail, FlushTrail, CommitTrail DEF Serve
<1>2. CASE Tick
  <2>1. ASSUME NEW g \in Handlers
        PROVE  /\ handlers'[g].pc = handlers[g].pc /\ handlers'[g].prev = handlers[g].prev
               /\ handlers'[g].seq = handlers[g].seq
    <3>1. handlers[g] \in Handler
      BY DEF Typed, TypeOK
    <3> QED
      BY <1>2, <3>1 DEF Tick, Handler
  <2> QED
    BY <1>2, <2>1, TrailUntouched DEF Tick, client
<1>3. CASE Restart
  <2>1. \A g \in Handlers : handlers'[g].pc \notin Writing
    BY <1>3, FreeTypes DEF Restart, Writing
  <2> QED
    BY <1>3, <2>1, TrailUntouched DEF Restart, client
<1>4. CASE \E u \in Users : Deactivate(u)
  BY <1>4, TrailUntouched DEF Deactivate, client
<1>5. CASE UNCHANGED vars
  BY <1>5, TrailUntouched DEF vars, client
<1> QED
  BY <1>1, <1>2, <1>3, <1>4, <1>5 DEF Next

-----------------------------------------------------------------------------
(* The lives of sessions. *)

\* A session, or what a request will write back, is within both lifetimes.
Fits(s, age, unused) == s.left + age <= Absolute /\ unused <= s.seen

Young ==
    /\ \A t \in Tokens : /\ life[t] = 0 => rest[t] = 0
                         /\ sessions[t] # Nothing => Fits(sessions[t], life[t], rest[t])
    /\ \A h \in Handlers : At(h, "put") =>
          LET t == handlers[h].token IN Fits(handlers[h].copy, life[t], rest[t])

\* What was signed out cleanly is not stored, and nobody will store it.
Gone ==
    /\ \A t \in Tokens : ended[t] # "no" => t \in known
    /\ \A t \in Tokens : ended[t] = "clean" =>
          /\ sessions[t] = Nothing
          /\ \A h \in Handlers : At(h, "put") => handlers[h].token # t

Lives == Young /\ Gone

\* Within one tick the store gets nothing but what fits and was not signed out.
LEMMA LivesKept ==
  ASSUME Typed, Lives, UNCHANGED <<life, ended>>, known \subseteq known',
         \A t \in Tokens : rest'[t] = rest[t] \/ rest'[t] = 0,
         \A t \in Tokens : \/ sessions'[t] = Nothing \/ sessions'[t] = sessions[t]
                           \/ /\ ended[t] # "clean" /\ sessions'[t] \in Session
                              /\ Fits(sessions'[t], life[t], rest'[t]),
         \A g \in Handlers : handlers'[g].pc = "put" =>
            \/ handlers'[g] = handlers[g]
            \/ LET t == handlers'[g].token IN
               /\ ended[t] # "clean" /\ Fits(handlers'[g].copy, life[t], rest'[t])
  PROVE  Lives'
<1>1. \A t \in Tokens : rest[t] \in Nat /\ rest'[t] \in Nat /\ rest'[t] <= rest[t]
  BY TtlAssumption DEF Typed, TypeOK
<1>2. /\ \A t \in Tokens : sessions[t] # Nothing => sessions[t].seen \in Nat
      /\ \A h \in Handlers : handlers[h].pc = "put" =>
            handlers[h].copy.seen \in Nat /\ handlers[h].token \in Tokens
  BY TtlAssumption DEF Typed, TypeOK, Session, WorkOK, Held, Serving
<1>3. ASSUME NEW t \in Tokens
      PROVE  /\ life'[t] = 0 => rest'[t] = 0
             /\ sessions'[t] # Nothing => Fits(sessions'[t], life'[t], rest'[t])
  BY <1>1, <1>2 DEF Lives, Young, Fits
<1>4. ASSUME NEW h \in Handlers, handlers'[h].pc = "put"
      PROVE  Fits(handlers'[h].copy, life'[handlers'[h].token], rest'[handlers'[h].token])
  BY <1>1, <1>2, <1>4 DEF Lives, Young, Fits, At
<1>5. Young'
  BY <1>3, <1>4 DEF Young, At
<1>6. Gone'
  BY DEF Lives, Gone, At
<1> QED
  BY <1>5, <1>6 DEF Lives

\* At the start there is no session.
LEMMA InitLives == Init => Lives
<1> SUFFICES ASSUME Init PROVE Lives
  OBVIOUS
<1> QED
  BY FreeTypes DEF Init, Lives, Young, Gone, At

\* A handler that goes on without the store.
LEMMA OneLives ==
  ASSUME Typed, Lives, NEW h \in Handlers, NEW r, r.pc # "put",
         handlers' = [handlers EXCEPT ![h] = r],
         UNCHANGED <<sessions, life, rest, ended>>, known \subseteq known'
  PROVE  Lives'
<1>1. \A g \in Handlers : handlers'[g].pc = "put" => handlers'[g] = handlers[g]
  BY DEF Typed, TypeOK
<1> QED
  BY <1>1, LivesKept

\* Steps that touch no session keep their ages.
LEMMA QuietLives ==
  ASSUME Typed, Lives, NEW h \in Handlers,
         \/ \E u \in Users : Login(h, u)
         \/ \E t \in Tokens, op \in Ops : Request(h, t, op)
         \/ Refused(h) \/ CheckUser(h) \/ ReadLast(h) \/ Flush(h) \/ Commit(h) \/ Fault(h)
  PROVE  Lives'
<1>1. /\ handlers[h] \in Handler /\ UNCHANGED <<sessions, life, rest, ended>>
      /\ known \subseteq known'
  BY DEF Typed, TypeOK, Login, Request, Refused, CheckUser, ReadLast, ReadHash, Flush, Commit,
     Fault, store, client, history
<1>2. CASE \E u \in Users : Login(h, u)
  <2> PICK u \in Users : Login(h, u)
    BY <1>2
  <2> DEFINE r == IF u \in active THEN [Free EXCEPT !.pc = "create", !.op = "login", !.user = u]
                  ELSE [Free EXCEPT !.pc = "last", !.op = "failure"]
  <2>1. r.pc # "put" /\ handlers' = [handlers EXCEPT ![h] = r]
    BY DEF Free, Login, Begin
  <2> QED
    BY <1>1, <2>1, OneLives
<1>3. CASE \E t \in Tokens, op \in Ops : Request(h, t, op)
  <2> PICK t \in Tokens, op \in Ops : Request(h, t, op)
    BY <1>3
  <2> DEFINE r == [Free EXCEPT !.pc = "get", !.op = op, !.token = t]
  <2>1. r.pc # "put" /\ handlers' = [handlers EXCEPT ![h] = r]
    BY DEF Free, Request, Begin
  <2> QED
    BY <1>1, <2>1, OneLives
<1>4. CASE Answer(h)
  BY <1>1, <1>4, FreeTypes, OneLives DEF Answer
<1>5. CASE CheckUser(h)
  <2>1. PICK n \in 0..Cardinality(trail) :
            handlers' = [handlers EXCEPT ![h] = Endpoint(handlers[h], n)]
    BY <1>5 DEF CheckUser
  <2>2. Endpoint(handlers[h], n).pc # "put"
    BY FreeTypes DEF Endpoint, Free
  <2> QED
    BY <1>1, <2>1, <2>2, OneLives
<1>6. CASE ReadLast(h)
  <2> DEFINE r == [handlers[h] EXCEPT !.pc = "flush", !.prev = LastHash(trail)]
  <2>1. r.pc # "put" /\ handlers' = [handlers EXCEPT ![h] = r]
    BY <1>1, <1>6 DEF Handler, ReadLast, ReadHash
  <2> QED
    BY <1>1, <2>1, OneLives
<1>7. CASE Flush(h)
  <2> DEFINE r == [handlers[h] EXCEPT !.pc = "commit", !.seq = flushed']
  <2>1. r.pc # "put" /\ handlers' = [handlers EXCEPT ![h] = r]
    BY <1>1, <1>7 DEF Handler, Flush
  <2> QED
    BY <1>1, <2>1, OneLives
<1> QED
  BY <1>2, <1>3, <1>4, <1>5, <1>6, <1>7 DEF Refused, Commit, Fault

\* A new session is young.
LEMMA CreateLives ==
  ASSUME Typed, Lives, NEW h \in Handlers, Create(h)
  PROVE  Lives'
<1> DEFINE t == CHOOSE u \in Tokens : Fresh(u)
           s == NewSession(handlers[h].user)
           r == [handlers[h] EXCEPT !.pc = "last", !.token = t, !.user = Nothing]
<1>1. t \in Tokens /\ Fresh(t) /\ handlers[h] \in Handler /\ handlers[h].user \in Users
  BY DEF Create, Typed, TypeOK, WorkOK, Held, At
<1>2. ended[t] = "no" /\ life[t] = 0 /\ rest[t] = 0
  BY <1>1 DEF Fresh, Lives, Young, Gone
<1>3. s \in Session /\ Fits(s, 0, 0)
  BY <1>1, SessionTypes, TtlAssumption DEF NewSession, Fits
<1>4. \A u \in Tokens : sessions'[u] = IF u = t THEN s ELSE sessions[u]
  BY DEF Create, Set, Typed, TypeOK
<1>5. \A g \in Handlers : handlers'[g].pc = "put" => handlers'[g] = handlers[g]
  <2>1. r.pc # "put" /\ handlers' = [handlers EXCEPT ![h] = r]
    BY <1>1 DEF Handler, Create
  <2> QED
    BY <2>1 DEF Typed, TypeOK
<1>6. UNCHANGED <<life, rest, ended, known>>
  BY DEF Create, client, history
<1> QED
  BY <1>2, <1>3, <1>4, <1>5, <1>6, LivesKept

\* What a request finds alive fits, and was not signed out.
LEMMA FoundLives ==
  ASSUME Typed, Lives, NEW h \in Handlers, NEW t \in Tokens, t = handlers[h].token,
         sessions[t] # Nothing
  PROVE  /\ Touched(sessions[t]) \in Session /\ ended[t] # "clean"
         /\ Fits(Touched(sessions[t]), life[t], 0)
<1>1. sessions[t] \in Session /\ Touched(sessions[t]) \in Session
  BY SessionTypes DEF Typed, TypeOK
<1>2. Touched(sessions[t]).seen = 0 /\ Touched(sessions[t]).left = sessions[t].left
  BY <1>1 DEF Touched, Session
<1> QED
  BY <1>1, <1>2 DEF Lives, Young, Gone, Fits

\* What is read is as old as what is stored,
LEMMA GetLives ==
  ASSUME Typed, Lives, NEW h \in Handlers, MemoryGet(h) \/ RedisGet(h)
  PROVE  Lives'
<1> DEFINE t == handlers[h].token
           s == sessions[t]
<1>1. /\ t \in Tokens /\ handlers[h] \in Handler /\ s # Nothing
      /\ UNCHANGED <<life, ended, known>>
  BY DEF MemoryGet, RedisGet, Found, Typed, TypeOK, WorkOK, Held, At, Serving, client, history
<1>2. /\ Touched(s) \in Session /\ ended[t] # "clean"
      /\ Fits(Touched(s), life[t], 0)
  BY <1>1, FoundLives
<1>3. CASE MemoryGet(h) /\ Expired(s)
  <2>1. \A u \in Tokens : sessions'[u] = Nothing \/ sessions'[u] = sessions[u]
    BY <1>3 DEF MemoryGet, Set, Typed, TypeOK
  <2>2. \A g \in Handlers : handlers'[g].pc = "put" => handlers'[g] = handlers[g]
    BY <1>3, FreeTypes DEF MemoryGet, Answer, Typed, TypeOK
  <2>3. UNCHANGED rest
    BY <1>3 DEF MemoryGet, history
  <2> QED
    BY <1>1, <2>1, <2>2, <2>3, LivesKept
<1>4. CASE MemoryGet(h) /\ ~Expired(s)
  <2> DEFINE r == [handlers[h] EXCEPT !.pc = "user", !.copy = Nothing, !.user = s.user]
  <2>1. r.pc # "put" /\ handlers' = [handlers EXCEPT ![h] = r]
    BY <1>1, <1>4 DEF Handler, MemoryGet, Found
  <2>2. \A g \in Handlers : handlers'[g].pc = "put" => handlers'[g] = handlers[g]
    BY <2>1 DEF Typed, TypeOK
  <2>3. /\ \A u \in Tokens : sessions'[u] = IF u = t THEN Touched(s) ELSE sessions[u]
        /\ \A u \in Tokens : rest'[u] = IF u = t THEN 0 ELSE rest[u]
    BY <1>4 DEF MemoryGet, Found, Set, Typed, TypeOK
  <2> QED
    BY <1>1, <1>2, <2>2, <2>3, LivesKept
<1>5. CASE RedisGet(h) /\ Expired(s)
  <2> DEFINE r == [handlers[h] EXCEPT !.pc = "drop"]
  <2>1. r.pc # "put" /\ handlers' = [handlers EXCEPT ![h] = r]
    BY <1>1, <1>5 DEF Handler, RedisGet, Goto
  <2>2. UNCHANGED <<sessions, rest>>
    BY <1>5 DEF RedisGet, store, history
  <2> QED
    BY <1>1, <2>1, <2>2, OneLives
<1>6. CASE RedisGet(h) /\ ~Expired(s)
  <2> DEFINE r == [handlers[h] EXCEPT !.pc = "put", !.copy = Touched(s), !.user = s.user]
  <2>1. /\ r.token = t /\ r.copy = Touched(s)
        /\ handlers' = [handlers EXCEPT ![h] = r]
    BY <1>1, <1>6 DEF Handler, RedisGet, Found
  <2>2. /\ UNCHANGED sessions
        /\ \A u \in Tokens : rest'[u] = IF u = t THEN 0 ELSE rest[u]
    BY <1>6 DEF RedisGet, Found, Typed, TypeOK
  <2> HIDE DEF r
  <2>3. \A g \in Handlers : \/ handlers'[g] = handlers[g]
                            \/ /\ handlers'[g].token = t
                               /\ handlers'[g].copy = Touched(s)
    BY <2>1 DEF Typed, TypeOK
  <2>4. rest'[t] = 0
    BY <1>1, <2>2
  <2>5. \A g \in Handlers : handlers'[g].pc = "put" =>
            \/ handlers'[g] = handlers[g]
            \/ LET u == handlers'[g].token IN
               /\ ended[u] # "clean" /\ Fits(handlers'[g].copy, life[u], rest'[u])
    BY <1>2, <2>3, <2>4
  <2> QED
    BY <1>1, <2>2, <2>5, LivesKept
<1> QED
  BY <1>3, <1>4, <1>5, <1>6

\* and is written back no younger than the history says.
LEMMA PutLives ==
  ASSUME Typed, Lives, NEW h \in Handlers, RedisPut(h)
  PROVE  Lives'
<1> DEFINE t == handlers[h].token
           c == handlers[h].copy
           s == [c EXCEPT !.ttl = Idle]
           r == [handlers[h] EXCEPT !.pc = "user", !.copy = Nothing]
<1>1. /\ t \in Tokens /\ handlers[h] \in Handler /\ c \in Session /\ At(h, "put")
      /\ UNCHANGED <<life, rest, ended, known>>
  BY DEF RedisPut, Put, Typed, TypeOK, WorkOK, Held, At, Serving, client, history
<1>2. s \in Session /\ s.left = c.left /\ s.seen = c.seen
  BY <1>1, SessionTypes DEF Session
<1>3. ended[t] # "clean" /\ Fits(s, life[t], rest[t])
  BY <1>1, <1>2 DEF Lives, Young, Gone, Fits
<1>4. \A u \in Tokens : sessions'[u] = IF u = t THEN s ELSE sessions[u]
  BY DEF RedisPut, Put, Set, Typed, TypeOK
<1>5. \A g \in Handlers : handlers'[g].pc = "put" => handlers'[g] = handlers[g]
  <2>1. r.pc # "put" /\ handlers' = [handlers EXCEPT ![h] = r]
    BY <1>1 DEF Handler, RedisPut, Put
  <2> QED
    BY <2>1 DEF Typed, TypeOK
<1> QED
  BY <1>1, <1>2, <1>3, <1>4, <1>5, LivesKept

\* What is dropped needs no age.
LEMMA DropLives ==
  ASSUME Typed, Lives, Restart \/ \E h \in Handlers : RedisDrop(h)
  PROVE  Lives'
<1>1. \A u \in Tokens : sessions'[u] = Nothing \/ sessions'[u] = sessions[u]
  BY DEF RedisDrop, Restart, Set, Typed, TypeOK
<1>2. \A g \in Handlers : handlers'[g].pc = "put" => handlers'[g] = handlers[g]
  BY FreeTypes DEF RedisDrop, Restart, Answer, Typed, TypeOK
<1>3. UNCHANGED <<life, rest, ended, known>>
  BY DEF RedisDrop, Restart, client, history
<1> QED
  BY <1>1, <1>2, <1>3, LivesKept

\* Nobody else has read the session when its sign-out is clean.
LEMMA LogoutLives ==
  ASSUME Typed, Lives, NEW h \in Handlers, Logout(h)
  PROVE  Lives'
<1> DEFINE t == handlers[h].token
<1>1. /\ t \in Tokens /\ t \in known /\ UNCHANGED <<life, rest, known>>
      /\ sessions' = [sessions EXCEPT ![t] = Nothing]
      /\ ended' = [ended EXCEPT ![t] = IF Rival(h, t) THEN "raced" ELSE "clean"]
  BY DEF Logout, Set, Typed, TypeOK, WorkOK, Held, At, Serving, client
<1>2. \A g \in Handlers : handlers'[g].pc = "put" => g # h /\ handlers'[g] = handlers[g]
  BY FreeTypes DEF Logout, Answer, Typed, TypeOK
<1>3. /\ \A u \in Tokens : sessions'[u] = IF u = t THEN Nothing ELSE sessions[u]
      /\ \A u \in Tokens : u # t => ended'[u] = ended[u]
      /\ ended'[t] = IF Rival(h, t) THEN "raced" ELSE "clean"
  BY <1>1 DEF Typed, TypeOK
<1>4. Young'
  BY <1>1, <1>2, <1>3 DEF Lives, Young, At
<1>5. ASSUME ended'[t] = "clean", NEW g \in Handlers, At(g, "put")'
      PROVE  handlers'[g].token # t
  <2>1. g # h /\ handlers[g].pc = "put" /\ handlers'[g] = handlers[g] /\ ~Rival(h, t)
    BY <1>2, <1>3, <1>5 DEF At
  <2>2. kind = "redis"
    BY <2>1 DEF Typed, WorkOK, Held
  <2> QED
    BY <2>1, <2>2 DEF Rival, At
<1>6. Gone'
  BY <1>1, <1>2, <1>3, <1>5 DEF Lives, Gone, At
<1> QED
  BY <1>4, <1>6 DEF Lives

\* What ages together still fits.
LEMMA Ageing ==
  ASSUME NEW s \in Session, NEW a \in 0..Absolute, NEW u \in 0..Idle + 1, Fits(s, a, u)
  PROVE  /\ Fits(Aged(s), Capped(a + 1, Absolute), Capped(u + 1, Idle + 1))
         /\ Fits([Aged(s) EXCEPT !.ttl = Down(@)],
                 Capped(a + 1, Absolute), Capped(u + 1, Idle + 1))
<1>1. s.left \in 0..Absolute /\ s.seen \in 0..Idle + 1
  BY DEF Session
<1>2. /\ Aged(s).left = Down(s.left) /\ Aged(s).seen = Capped(s.seen + 1, Idle + 1)
      /\ Aged(s) \in Session
  BY SessionTypes DEF Aged, Session
<1>3. Down(s.left) + Capped(a + 1, Absolute) <= Absolute
  BY <1>1, TtlAssumption DEF Fits, Down, Capped
<1>4. Capped(u + 1, Idle + 1) <= Capped(s.seen + 1, Idle + 1)
  BY <1>1, TtlAssumption DEF Fits, Capped
<1>5. /\ [Aged(s) EXCEPT !.ttl = Down(@)].left = Aged(s).left
      /\ [Aged(s) EXCEPT !.ttl = Down(@)].seen = Aged(s).seen
  BY <1>2 DEF Session
<1> QED
  BY <1>2, <1>3, <1>4, <1>5 DEF Fits

\* Time goes on for sessions and history together.
LEMMA TickLives ==
  ASSUME Typed, Lives, Tick
  PROVE  Lives'
<1>1. /\ \A t \in Tokens : /\ life[t] \in 0..Absolute /\ rest[t] \in 0..Idle + 1
                           /\ sessions[t] # Nothing => sessions[t] \in Session
      /\ \A t \in Tokens : /\ life'[t] = IF Fresh(t) THEN 0 ELSE Capped(life[t] + 1, Absolute)
                           /\ rest'[t] = IF Fresh(t) THEN 0 ELSE Capped(rest[t] + 1, Idle + 1)
                           /\ sessions'[t] = IF sessions[t] = Nothing THEN Nothing
                                             ELSE Later(sessions[t])
      /\ UNCHANGED <<ended, known>>
  BY DEF Tick, Typed, TypeOK, client
<1>2. ASSUME NEW t \in Tokens, sessions'[t] # Nothing
      PROVE  Fits(sessions'[t], life'[t], rest'[t])
  <2>1. /\ sessions[t] \in Session /\ ~Fresh(t)
        /\ Fits(sessions[t], life[t], rest[t]) /\ sessions'[t] = Later(sessions[t])
    BY <1>1, <1>2 DEF Fresh, Lives, Young
  <2> QED
    BY <1>1, <1>2, <2>1, Ageing DEF Later
<1>3. \A t \in Tokens : life'[t] = 0 => rest'[t] = 0
  BY <1>1, TtlAssumption DEF Capped
<1>4. ASSUME NEW h \in Handlers, handlers'[h].pc = "put"
      PROVE  /\ handlers[h].pc = "put" /\ handlers'[h].token = handlers[h].token
             /\ Fits(handlers'[h].copy, life'[handlers[h].token], rest'[handlers[h].token])
  <2> DEFINE r == [handlers[h] EXCEPT !.copy = Aged(@)]
             t == handlers[h].token
  <2>1. /\ handlers[h] \in Handler
        /\ handlers'[h] = IF handlers[h].copy = Nothing THEN handlers[h] ELSE r
    BY DEF Tick, Typed, TypeOK
  <2>2. r.pc = handlers[h].pc /\ r.token = t /\ r.copy = Aged(handlers[h].copy)
    BY <2>1 DEF Handler
  <2>3. handlers[h].pc = "put" /\ handlers'[h].token = t
    BY <1>4, <2>1, <2>2
  <2>4. handlers[h].copy \in Session /\ t \in Tokens /\ ~Fresh(t)
    BY <2>3 DEF Typed, TypeOK, WorkOK, Held, Serving, Fresh
  <2>5. handlers'[h].copy = Aged(handlers[h].copy)
    BY <2>1, <2>2, <2>4, NothingAssumption
  <2>6. Fits(handlers[h].copy, life[t], rest[t])
    BY <2>3 DEF Lives, Young, At
  <2> QED
    BY <1>1, <2>3, <2>4, <2>5, <2>6, Ageing
<1>5. Young'
  BY <1>2, <1>3, <1>4 DEF Young, At
<1>6. Gone'
  BY <1>1, <1>4 DEF Lives, Gone, At
<1> QED
  BY <1>5, <1>6 DEF Lives

\* Every step keeps sessions within what the history says.
LEMMA StepLives == Typed /\ Lives /\ [Next]_vars => Lives'
<1> SUFFICES ASSUME Typed, Lives, [Next]_vars PROVE Lives'
  OBVIOUS
<1>1. ASSUME NEW h \in Handlers, Serve(h) PROVE Lives'
  BY <1>1, QuietLives, CreateLives, GetLives, PutLives, DropLives, LogoutLives DEF Serve
<1>2. CASE Tick
  BY <1>2, TickLives
<1>3. CASE Restart
  BY <1>3, DropLives
<1>4. CASE (\E u \in Users : Deactivate(u)) \/ UNCHANGED vars
  <2>1. UNCHANGED <<sessions, handlers, known, life, rest, ended>>
    BY <1>4 DEF Deactivate, vars, store, client, history
  <2> QED
    BY <2>1, LivesKept
<1> QED
  BY <1>1, <1>2, <1>3, <1>4 DEF Next

-----------------------------------------------------------------------------
(* Theorems. *)

IInv == Typed /\ Trail /\ Lives

\* So the invariant holds.
LEMMA InvHolds == Spec => []IInv
<1>1. Init => IInv
  BY InitTyped, InitTrail, InitLives DEF IInv
<1>2. IInv /\ [Next]_vars => IInv'
  BY StepTyped, StepTrail, StepLives DEF IInv, Trail, Given
<1> QED
  BY <1>1, <1>2, PTL DEF Spec

\* The tables, the store and what every request holds keep their types, within
\* the two lifetimes (get_session_store).
THEOREM TypeCorrect == Spec => []TypeOK
<1>1. IInv => TypeOK
  BY DEF IInv, Typed
<1> QED
  BY <1>1, InvHolds, PTL

\* A session that was signed out with no write of it under way is gone for
\* good, in both stores (logout, delete).
THEOREM SignedOut == Spec => []LoggedOutStaysOut
<1>1. IInv => LoggedOutStaysOut
  BY DEF IInv, Lives, Gone, LoggedOutStaysOut
<1> QED
  BY <1>1, InvHolds, PTL

\* Whoever has a token or an export has a record of it in the trail (dev_login,
\* export_audit_events).
THEOREM Audited == Spec => []AnswersAreAudited
<1>1. IInv => AnswersAreAudited
  BY DEF IInv, Trail, Recorded
<1> QED
  BY <1>1, InvHolds, PTL

\* The trail leads back to its beginning, and is a chain as long as no two
\* appends were under way together (write_audit).
THEOREM TrailKept == Spec => []TrailHolds
<1>1. IInv => TrailHolds
  BY DEF IInv, Trail, Linked, Chained, TrailHolds
<1> QED
  BY <1>1, InvHolds, PTL

\* The step of a request that is let in: it has found its session alive.
LEMMA LetIn ==
  ASSUME Typed, [Next]_vars, NEW h \in Handlers, At(h, "get"),
         handlers'[h].pc \in {"put", "user"}
  PROVE  /\ sessions[handlers[h].token] # Nothing
         /\ ~Expired(sessions[handlers[h].token])
<1>1. handlers[h] \in Handler /\ handlers[h].pc = "get" /\ handlers'[h] # handlers[h]
  BY DEF Typed, TypeOK, At
<1>2. ASSUME NEW g \in Handlers, Serve(g), g # h PROVE FALSE
  <2>1. handlers'[h] = handlers[h]
    BY <1>2 DEF Serve, Login, Request, Begin, Create, Refused, MemoryGet, RedisGet, RedisDrop,
       RedisPut, Put, Found, Goto, Answer, CheckUser, Logout, ReadLast, ReadHash, Flush, Commit,
       Fault, Typed, TypeOK
  <2> QED
    BY <1>1, <2>1
<1>3. ~Answer(h)
  BY FreeTypes DEF Answer, Typed, TypeOK
<1>4. CASE Serve(h)
  <2>1. MemoryGet(h) \/ RedisGet(h)
    BY <1>1, <1>3, <1>4 DEF Serve, Login, Request, Begin, Create, Refused, RedisDrop,
       RedisPut, Put, CheckUser, Logout, ReadLast, ReadHash, Flush, Commit, Fault, At
  <2>2. ~Goto(h, "drop")
    <3> DEFINE r == [handlers[h] EXCEPT !.pc = "drop"]
    <3>1. r.pc = "drop"
      BY <1>1 DEF Handler
    <3> QED
      BY <3>1 DEF Goto, Typed, TypeOK
  <2> QED
    BY <1>3, <2>1, <2>2 DEF MemoryGet, RedisGet
<1>5. CASE Tick
  <2>1. handlers'[h].pc = "get"
    BY <1>1, <1>5 DEF Tick, Handler
  <2> QED
    BY <2>1
<1>6. CASE Restart
  BY <1>6, FreeTypes DEF Restart
<1>7. CASE (\E u \in Users : Deactivate(u)) \/ UNCHANGED vars
  BY <1>1, <1>7 DEF Deactivate, vars
<1> QED
  BY <1>2, <1>4, <1>5, <1>6, <1>7 DEF Next

\* However requests write sessions back, late or out of order, one is let in
\* only within both lifetimes of its session (get, _expired).
THEOREM OnlyLiveServe == Spec => OnlyLiveSessionsServe
<1>1. ASSUME IInv, [Next]_vars
      PROVE  [\A h \in Handlers : At(h, "get") /\ handlers'[h].pc \in {"put", "user"}
               => LET t == handlers[h].token IN life[t] < Absolute /\ rest[t] <= Idle]_vars
  <2> SUFFICES ASSUME NEW h \in Handlers, At(h, "get"), handlers'[h].pc \in {"put", "user"}
               PROVE  life[handlers[h].token] < Absolute /\ rest[handlers[h].token] <= Idle
    OBVIOUS
  <2> DEFINE t == handlers[h].token
  <2>1. sessions[t] # Nothing /\ ~Expired(sessions[t])
    BY <1>1, LetIn DEF IInv
  <2>2. /\ t \in Tokens /\ sessions[t] \in Session
        /\ life[t] \in 0..Absolute /\ rest[t] \in 0..Idle + 1
    BY <1>1, <2>1 DEF IInv, Typed, TypeOK, WorkOK, Held, At, Serving
  <2>3. /\ sessions[t].left \in 0..Absolute /\ sessions[t].seen \in 0..Idle + 1
        /\ sessions[t].left # 0 /\ ~(sessions[t].seen > Idle)
    BY <2>1, <2>2 DEF Session, Expired
  <2>4. sessions[t].left + life[t] <= Absolute /\ rest[t] <= sessions[t].seen
    BY <1>1, <2>1, <2>2 DEF IInv, Lives, Young, Fits
  <2> QED
    BY <2>2, <2>3, <2>4, TtlAssumption
<1> QED
  BY <1>1, InvHolds, PTL DEF Spec, OnlyLiveSessionsServe
=============================================================================
