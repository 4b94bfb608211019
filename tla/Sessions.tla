------------------------------ MODULE Sessions ------------------------------
(***************************************************************************)
(* Sign-in, sessions and sign-out (modules/auth, the two session stores of *)
(* core/security) and the audit trail they append to.  A handler is one    *)
(* request; it loses control at each of its awaits.  The Redis store       *)
(* reads a session and later writes it back; the store in memory does both *)
(* at once.  Ages count ticks, so that time goes on without a bound.       *)
(***************************************************************************)
EXTENDS AuditTrail

CONSTANTS
    Users,
    Tokens,        \* bound: sessions that are ever created
    Handlers,      \* requests under way at a time
    Idle,          \* ACCESS_TOKEN_TTL_IDLE_SECONDS
    Absolute,      \* ACCESS_TOKEN_TTL_ABSOLUTE_SECONDS
    ExportCap,     \* EXPORT_ROW_CAP
    MaxAppends,    \* bound: requests that append to the trail
    Nothing

ASSUME TtlAssumption == Idle \in Nat \ {0} /\ Absolute \in Nat /\ Idle <= Absolute
ASSUME AppendAssumption == MaxAppends \in Nat

\* A session of the store, in ticks: the age of last_seen, what is left of
\* absolute_expiry, and what Redis has left of EX.
Session == [user : Users, seen : 0..Idle + 1, left : 0..Absolute, ttl : 0..Idle]
ASSUME NothingAssumption == Nothing \notin Session

Kinds    == {"memory", "redis"}
Subjects == Tokens \cup {"failure", "export"}
Capped(n, cap) == IF n > cap THEN cap ELSE n
Down(n) == IF n = 0 THEN 0 ELSE n - 1

VARIABLES
    kind,        \* SESSION_STORE
    sessions,    \* the store: a session or Nothing, for each token
    active,      \* users with status ACTIVE
    handlers,    \* control state of each request
    trail,       \* committed audit events
    flushed,     \* the last number given to an audit event
    known,       \* tokens given to a client
    exports,     \* exports given to a client
    appends,     \* requests so far that append (bound)
    life,        \* ticks since the session was created (history)
    rest,        \* ticks since a request last found it (history)
    ended,       \* how the sign-out of a session ended (history)
    overlapped   \* two appends have been under way together (history)

store   == <<kind, sessions>>
audit   == <<trail, flushed, overlapped>>
client  == <<known, exports, appends>>
history == <<life, rest, ended>>
vars    == <<store, active, handlers, audit, client, history>>

Free == [pc |-> "idle", op |-> "call", token |-> Nothing, user |-> Nothing,
         copy |-> Nothing, prev |-> NoHash, seq |-> NoHash]

Init ==
    /\ kind \in Kinds
    /\ sessions = [t \in Tokens |-> Nothing]
    /\ active = Users
    /\ handlers = [h \in Handlers |-> Free]
    /\ trail = {} /\ flushed = NoHash /\ overlapped = FALSE
    /\ known = {} /\ exports = 0 /\ appends = 0
    /\ life = [t \in Tokens |-> 0] /\ rest = [t \in Tokens |-> 0]
    /\ ended = [t \in Tokens |-> "no"]

At(h, pc)     == handlers[h].pc = pc
Goto(h, pc)   == handlers' = [handlers EXCEPT ![h].pc = pc]
Answer(h)     == handlers' = [handlers EXCEPT ![h] = Free]
Begin(h, r)   == At(h, "idle") /\ handlers' = [handlers EXCEPT ![h] = r]

-----------------------------------------------------------------------------
(* The stores.                                                             *)

\* Mutant: the two lifetimes swapped.
NewSessionSwapped(u) == [user |-> u, seen |-> 0, left |-> Idle, ttl |-> Absolute]
NewSession(u) == [user |-> u, seen |-> 0, left |-> Absolute, ttl |-> Idle]
Expired(s)    == s.left = 0 \/ s.seen > Idle
Touched(s)    == [s EXCEPT !.seen = 0]

Set(t, s)    == sessions' = [sessions EXCEPT ![t] = s]
Fresh(t)     == /\ sessions[t] = Nothing /\ life[t] = 0 /\ t \notin known
                /\ \A h \in Handlers : handlers[h].token # t

Refused(h) ==
    /\ At(h, "get") /\ sessions[handlers[h].token] = Nothing
    /\ Answer(h)
    /\ UNCHANGED <<store, active, audit, client, history>>

\* A request that finds the session alive; life and rest are read before it.
Found(h, pc, copy) ==
    LET t == handlers[h].token IN
    /\ handlers' = [handlers EXCEPT ![h].pc = pc, ![h].copy = copy,
                                    ![h].user = sessions[t].user]
    /\ rest' = [rest EXCEPT ![t] = 0]
    /\ UNCHANGED <<kind, active, audit, client, life, ended>>

\* Mutant: the store in memory, too, reads and later writes back.
MemoryGetCopies(h) ==
    LET s == sessions[handlers[h].token] IN
    /\ kind = "memory" /\ At(h, "get") /\ s # Nothing /\ ~Expired(s)
    /\ Found(h, "put", Touched(s)) /\ UNCHANGED sessions

\* InMemorySessionStore.get
MemoryGet(h) ==
    LET t == handlers[h].token  s == sessions[t] IN
    /\ kind = "memory" /\ At(h, "get") /\ s # Nothing
    /\ \/ Expired(s) /\ Set(t, Nothing) /\ Answer(h)
          /\ UNCHANGED <<kind, active, audit, client, history>>
       \/ ~Expired(s) /\ Set(t, Touched(s)) /\ Found(h, "user", Nothing)

\* RedisSessionStore.get, up to its second call of Redis
RedisGet(h) ==
    LET t == handlers[h].token  s == sessions[t] IN
    /\ kind = "redis" /\ At(h, "get") /\ s # Nothing
    /\ \/ Expired(s) /\ Goto(h, "drop")
          /\ UNCHANGED <<store, active, audit, client, history>>
       \/ ~Expired(s) /\ Found(h, "put", Touched(s)) /\ UNCHANGED sessions

RedisDrop(h) ==
    /\ At(h, "drop")
    /\ Set(handlers[h].token, Nothing)
    /\ Answer(h)
    /\ UNCHANGED <<kind, active, audit, client, history>>

Put(h, s) ==
    /\ At(h, "put")
    /\ Set(handlers[h].token, s)
    /\ handlers' = [handlers EXCEPT ![h].pc = "user", ![h].copy = Nothing]
    /\ UNCHANGED <<kind, active, audit, client, history>>

\* Mutants: absolute_expiry slides as well; SET without EX.
RedisPutRenewed(h) == Put(h, [handlers[h].copy EXCEPT !.ttl = Idle, !.left = Absolute])
RedisPutForever(h) == Put(h, [handlers[h].copy EXCEPT !.ttl = 0])

RedisPut(h) == Put(h, [handlers[h].copy EXCEPT !.ttl = Idle])

-----------------------------------------------------------------------------
(* Requests with a token: get_current_user, then the endpoint.  A call     *)
(* does nothing more; a sign-out deletes the session; an export appends.   *)

Ops == {"call", "logout", "export"}

Request(h, t, op) ==
    /\ t \in known
    /\ op = "export" => appends < MaxAppends
    /\ appends' = appends + IF op = "export" THEN 1 ELSE 0
    /\ Begin(h, [Free EXCEPT !.pc = "get", !.op = op, !.token = t])
    /\ UNCHANGED <<store, active, audit, known, exports, history>>

\* What the request goes on with: the endpoint, for a user who is still active;
\* an export only if the events its filter matches are not too many.
Endpoint(r, matched) ==
    CASE r.user \in active /\ r.op = "logout" -> [Free EXCEPT !.pc = "delete", !.op = r.op,
                                                             !.token = r.token]
      [] r.user \in active /\ r.op = "export" /\ matched <= ExportCap
           -> [Free EXCEPT !.pc = "last", !.op = r.op]
      [] OTHER -> Free

CheckUser(h) ==
    /\ At(h, "user")
    /\ \E matched \in 0..Cardinality(trail) :
           handlers' = [handlers EXCEPT ![h] = Endpoint(@, matched)]
    /\ UNCHANGED <<store, active, audit, client, history>>

\* Another request that has read the session from Redis and will write it.
Rival(h, t) == \E g \in Handlers \ {h} : kind = "redis" /\ At(g, "put")
                                         /\ handlers[g].token = t

Logout(h) ==
    LET t == handlers[h].token IN
    /\ At(h, "delete")
    /\ Set(t, Nothing)
    /\ ended' = [ended EXCEPT ![t] = IF Rival(h, t) THEN "raced" ELSE "clean"]
    /\ Answer(h)
    /\ UNCHANGED <<kind, active, audit, client, life, rest>>

-----------------------------------------------------------------------------
(* Sign-in, and the audit event that ends a sign-in and an export.         *)

\* A user who is unknown or not active is told so once that is recorded.
Login(h, u) ==
    /\ appends < MaxAppends
    /\ appends' = appends + 1
    /\ Begin(h, IF u \in active THEN [Free EXCEPT !.pc = "create", !.op = "login", !.user = u]
                ELSE [Free EXCEPT !.pc = "last", !.op = "failure"])
    /\ UNCHANGED <<store, active, audit, known, exports, history>>

\* Mutant: the token is given before its event is written.
CreateAnswers(h) ==
    /\ At(h, "create")
    /\ \E t \in Tokens : /\ Fresh(t) /\ Set(t, NewSession(handlers[h].user))
                        /\ known' = known \cup {t}
                        /\ handlers' = [handlers EXCEPT ![h].pc = "last", ![h].token = t]
    /\ UNCHANGED <<kind, active, audit, exports, appends, history>>

\* Which of the tokens nobody has seen yet does not matter.
Create(h) ==
    LET t == CHOOSE u \in Tokens : Fresh(u) IN
    /\ At(h, "create")
    /\ \E u \in Tokens : Fresh(u)
    /\ Set(t, NewSession(handlers[h].user))
    /\ handlers' = [handlers EXCEPT ![h].pc = "last", ![h].token = t,
                                    ![h].user = Nothing]
    /\ UNCHANGED <<kind, active, audit, client, history>>

ReadHash(h, hash) ==
    /\ At(h, "last")
    /\ handlers' = [handlers EXCEPT ![h].pc = "flush", ![h].prev = hash]
    /\ overlapped' = (overlapped \/ \E g \in Handlers : handlers[g].pc \in {"flush", "commit"})
    /\ UNCHANGED <<store, active, trail, flushed, client, history>>

\* Mutant: the process remembers the last hash it flushed.
ReadLastFlushed(h) == ReadHash(h, flushed)

ReadLast(h) == ReadHash(h, LastHash(trail))

Flush(h) ==
    /\ At(h, "flush")
    /\ flushed' = flushed + 1
    /\ handlers' = [handlers EXCEPT ![h].pc = "commit", ![h].seq = flushed']
    /\ UNCHANGED <<store, active, trail, overlapped, client, history>>

Commit(h) ==
    LET r == handlers[h] IN
    /\ At(h, "commit")
    /\ trail' = trail \cup {Event(r.seq, r.prev, IF r.op = "login" THEN r.token ELSE r.op)}
    /\ known' = known \cup IF r.op = "login" THEN {r.token} ELSE {}
    /\ exports' = exports + IF r.op = "export" THEN 1 ELSE 0
    /\ Answer(h)
    /\ UNCHANGED <<store, active, flushed, overlapped, appends, history>>

\* Redis or the database fails: the request ends with an error, and what it
\* has not committed is rolled back.
Fault(h) == /\ ~At(h, "idle")
            /\ Answer(h)
            /\ UNCHANGED <<store, active, audit, client, history>>

-----------------------------------------------------------------------------
(* Time, the users' table and the process. *)

Aged(s)    == [s EXCEPT !.seen = Capped(@ + 1, Idle + 1), !.left = Down(@)]
Evicted(s) == kind = "redis" /\ s.ttl = 1
Later(s)   == IF Evicted(s) THEN Nothing
              ELSE IF kind = "redis" THEN [Aged(s) EXCEPT !.ttl = Down(@)] ELSE Aged(s)

Tick ==
    /\ sessions' = [t \in Tokens |-> IF sessions[t] = Nothing THEN Nothing
                                     ELSE Later(sessions[t])]
    /\ handlers' = [h \in Handlers |->
                       IF handlers[h].copy = Nothing THEN handlers[h]
                       ELSE [handlers[h] EXCEPT !.copy = Aged(@)]]
    /\ life' = [t \in Tokens |-> IF Fresh(t) THEN 0 ELSE Capped(life[t] + 1, Absolute)]
    /\ rest' = [t \in Tokens |-> IF Fresh(t) THEN 0 ELSE Capped(rest[t] + 1, Idle + 1)]
    /\ UNCHANGED <<kind, active, audit, client, ended>>

Deactivate(u) == /\ u \in active
                 /\ active' = active \ {u}
                 /\ UNCHANGED <<store, handlers, audit, client, history>>

\* A new process has no requests under way; the store in memory is lost.
Restart ==
    /\ handlers' = [h \in Handlers |-> Free]
    /\ sessions' = IF kind = "memory" THEN [t \in Tokens |-> Nothing] ELSE sessions
    /\ UNCHANGED <<kind, active, audit, client, history>>

Serve(h) ==
    \/ \E u \in Users : Login(h, u)
    \/ Create(h)
    \/ \E t \in Tokens, op \in Ops : Request(h, t, op)
    \/ Refused(h) \/ MemoryGet(h) \/ RedisGet(h) \/ RedisDrop(h) \/ RedisPut(h)
    \/ CheckUser(h) \/ Logout(h)
    \/ ReadLast(h) \/ Flush(h) \/ Commit(h)
    \/ Fault(h)

Next == \/ Tick
        \/ Restart
        \/ \E h \in Handlers : Serve(h)
        \/ \E u \in Users : Deactivate(u)

Spec     == Init /\ [][Next]_vars
FairSpec == Spec /\ WF_vars(Tick)

-----------------------------------------------------------------------------
(* Properties. *)

Handler == [pc : {"idle", "get", "drop", "put", "user", "delete", "create", "last",
                  "flush", "commit"},
            op : Ops \cup {"login", "failure"},
            token : Tokens \cup {Nothing}, user : Users \cup {Nothing},
            copy : Session \cup {Nothing}, prev : Nat, seq : Nat]

\* Shape of the state: within the two lifetimes of get_session_store, whose
\* arguments have no names at the call.
TypeOK ==
    /\ kind \in Kinds /\ active \subseteq Users
    /\ sessions \in [Tokens -> Session \cup {Nothing}]
    /\ handlers \in [Handlers -> Handler]
    /\ trail \subseteq [seq : Nat, prev : Nat, about : Subjects] /\ flushed \in Nat
    /\ known \subseteq Tokens /\ exports \in Nat /\ appends \in 0..MaxAppends
    /\ life \in [Tokens -> 0..Absolute] /\ rest \in [Tokens -> 0..Idle + 1]
    /\ ended \in [Tokens -> {"no", "clean", "raced"}] /\ overlapped \in BOOLEAN

\* However requests read sessions and write them back, late or out of order,
\* one is let in only within the absolute lifetime of the session and within
\* the idle time of an earlier use (get, _expired).
OnlyLiveSessionsServe ==
    [][\A h \in Handlers : At(h, "get") /\ handlers'[h].pc \in {"put", "user"}
         => LET t == handlers[h].token IN life[t] < Absolute /\ rest[t] <= Idle]_vars

\* A session that was signed out does not come back, unless the store is Redis
\* and another request had read it and was about to write it back (logout).
LoggedOutStaysOut == \A t \in Tokens : ended[t] = "clean" => sessions[t] = Nothing

\* Redis forgets every session, one that came back after its sign-out and one
\* whose owner never uses it included; in memory it becomes useless (EX, _expired).
EverySessionEnds ==
    \A t \in Tokens : sessions[t] # Nothing
        ~> sessions[t] = Nothing \/ (kind = "memory" /\ Expired(sessions[t]))

\* Whoever has a token or an export has a record of it in the trail, whatever
\* fails before the answer (dev_login, export_audit_events).
AnswersAreAudited ==
    /\ \A t \in known : About(trail, t) # {}
    /\ exports <= Cardinality(About(trail, "export"))

\* The trail leads back to its beginning whatever is rolled back and in
\* whatever order events are numbered and committed; and it is a chain as long
\* as no two appends were under way together (write_audit).
TrailHolds == LinksLeadBack(trail) /\ (overlapped \/ IsChain(trail))
=============================================================================
