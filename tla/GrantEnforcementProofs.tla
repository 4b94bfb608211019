----------------------- MODULE GrantEnforcementProofs -----------------------
(***************************************************************************)
(* What the enforcement of grants guarantees for every number of users,    *)
(* roles, grants and handlers and every length of the cache's life: how    *)
(* old the authority of a request can be, that a credential needs a live   *)
(* grant, that a check-in rotates, and that an emergency is reviewed.      *)
(***************************************************************************)
EXTENDS GrantEnforcement, SequenceTheorems, TLAPS

-----------------------------------------------------------------------------
(* The types. *)

WorkRecord == [at    : {"free", "filling", "permitted", "dirty", "reading", "holding"},
               op    : {"approve", "update_role", "review", "checkout", "checkin", Nothing},
               user  : Optional(Users), since : Nat, seen : SUBSET Permissions,
               on    : Users \cup RoleEdits \cup Nat \cup {Nothing}]

Entry      == [until : Nat, permissions : SUBSET Permissions]
Activation == [grant : Nat, verdict : {"PENDING", "JUSTIFIED", "ESCALATED"}]
Lease      == [grant : Nat, since : Nat, returned : BOOLEAN]

\* Who the handler is for, while that matters.
HasUser(w) == w.at \in {"filling", "permitted"} \/ w.op = "checkout" => w.user \in Users

TablesTyped ==
    /\ now \in 0..MaxTime /\ requests \in 0..MaxRequests
    /\ grant \in Seq(Grant) /\ holds \in [Roles -> SUBSET Permissions]
    /\ activation \in Seq(Activation)
    /\ \A a \in DOMAIN activation : activation[a].grant \in DOMAIN grant
    /\ verdicts \subseteq (DOMAIN activation) \X {"JUSTIFIED", "ESCALATED"}
    /\ checkout \in Seq(Lease)
    /\ \A c \in DOMAIN checkout : /\ checkout[c].grant \in DOMAIN grant
                                  /\ checkout[c].since \in 0..MaxTime
    /\ rotated \subseteq DOMAIN checkout

CacheTyped ==
    /\ cache \in [Users -> Optional(Entry)]
    /\ \A u \in Users : cache[u] # Nothing => cache[u].until \in 0..MaxTime + TTL

HandlersTyped ==
    /\ handler \in [Handlers -> WorkRecord]
    /\ \A h \in Handlers : WorkOK(handler[h]) /\ HasUser(handler[h])

SweepTyped == /\ sweep \in [due : SUBSET Nat, drop : Optional(Users)]
              /\ sweep.due \subseteq DOMAIN grant

Typed == TablesTyped /\ CacheTyped /\ HandlersTyped /\ SweepTyped

\* An element of a sequence over S is in S.
LEMMA ElementOf ==
  ASSUME NEW S, NEW s \in Seq(S), NEW i \in DOMAIN s
  PROVE  s[i] \in S /\ i \in Nat
<1>1. s \in [1..Len(s) -> S] /\ Len(s) \in Nat
  BY LenProperties
<1> QED
  BY <1>1

\* A sequence whose elements are in T is one over T.
LEMMA SeqOf ==
  ASSUME NEW S, NEW T, NEW s \in Seq(S), \A i \in DOMAIN s : s[i] \in T
  PROVE  s \in Seq(T)
<1>1. s \in [1..Len(s) -> S] /\ Len(s) \in Nat
  BY LenProperties
<1>2. s \in [1..Len(s) -> T]
  BY <1>1
<1> QED
  BY <1>1, <1>2, SeqDef

\* The invariant has the types in it.
LEMMA TypedIsTypeOK == Typed => TypeOK
<1> SUFFICES ASSUME Typed PROVE TypeOK
  OBVIOUS
<1>1. activation \in Seq([grant : DOMAIN grant, verdict : {"PENDING", "JUSTIFIED", "ESCALATED"}])
  <2>1. \A a \in DOMAIN activation :
           activation[a] \in [grant : DOMAIN grant, verdict : {"PENDING", "JUSTIFIED", "ESCALATED"}]
    <3> TAKE a \in DOMAIN activation
    <3>1. activation[a] \in Activation /\ activation[a].grant \in DOMAIN grant
      BY ElementOf DEF Typed, TablesTyped
    <3> QED
      BY <3>1 DEF Activation
  <2> QED
    BY <2>1, SeqOf DEF Typed, TablesTyped
<1>2. checkout \in Seq([grant : DOMAIN grant, since : 0..MaxTime, returned : BOOLEAN])
  <2>1. \A c \in DOMAIN checkout :
           checkout[c] \in [grant : DOMAIN grant, since : 0..MaxTime, returned : BOOLEAN]
    <3> TAKE c \in DOMAIN checkout
    <3>1. /\ checkout[c] \in Lease /\ checkout[c].grant \in DOMAIN grant
          /\ checkout[c].since \in 0..MaxTime
      BY ElementOf DEF Typed, TablesTyped
    <3> QED
      BY <3>1 DEF Lease
  <2> QED
    BY <2>1, SeqOf DEF Typed, TablesTyped
<1>3. \A u \in Users : cache[u] # Nothing =>
          cache[u] \in [until : 0..MaxTime + TTL, permissions : SUBSET Permissions]
  BY DEF Typed, CacheTyped, Optional, Entry
<1>4. sweep.due \subseteq DOMAIN grant /\ sweep.drop \in Optional(Users)
  BY DEF Typed, SweepTyped
<1> QED
  BY <1>1, <1>2, <1>3, <1>4 DEF Typed, TablesTyped, HandlersTyped, TypeOK

\* Tables only grow, and what a grant is for stays.
Grows ==
    /\ DOMAIN grant \subseteq DOMAIN grant'
    /\ \A g \in DOMAIN grant : /\ grant'[g].user = grant[g].user
                               /\ grant'[g].role = grant[g].role
                               /\ grant'[g].emergency = grant[g].emergency
    /\ DOMAIN activation \subseteq DOMAIN activation'
    /\ DOMAIN checkout \subseteq DOMAIN checkout'

\* One handler goes on, the others see no more than tables that grow.
LEMMA OneHandler ==
  ASSUME Typed, Grows, NEW h \in Handlers,
         handler' = [handler EXCEPT ![h] = handler'[h]],
         handler'[h] \in WorkRecord, WorkOK(handler[h])', HasUser(handler'[h])
  PROVE  HandlersTyped'
<1>1. handler' \in [Handlers -> WorkRecord]
  BY DEF Typed, HandlersTyped
<1>2. ASSUME NEW g \in Handlers, g # h
      PROVE  WorkOK(handler[g])' /\ HasUser(handler'[g])
  <2>1. handler'[g] = handler[g] /\ WorkOK(handler[g]) /\ HasUser(handler[g])
    BY <1>2 DEF Typed, HandlersTyped
  <2> QED
    BY <2>1 DEF WorkOK, ObjectOK, Grows
<1> QED
  BY <1>1, <1>2 DEF HandlersTyped, HasUser

\* Tables that stay the same have grown.
LEMMA SameGrows == UNCHANGED <<grant, activation, checkout>> => Grows
  BY DEF Grows

\* A free handler holds nothing.
LEMMA FreeTypes == /\ Free \in WorkRecord /\ Free.at = "free" /\ Free.op = Nothing
                   /\ Free.seen = {} /\ Free.user = Nothing /\ Free.since = 0 /\ Free.on = Nothing
  BY DEF Free, Work, WorkRecord, Optional

\* A handler that ends is free, and the others keep their types.
LEMMA Finished ==
  ASSUME Typed, Grows, NEW h \in Handlers, Finish(h)
  PROVE  HandlersTyped'
<1>1. handler'[h] = Free /\ handler' = [handler EXCEPT ![h] = handler'[h]]
  BY DEF Finish, Typed, HandlersTyped
<1>2. WorkOK(handler[h])' /\ HasUser(handler'[h])
  BY <1>1, FreeTypes, NothingAssumption, TimeAssumption DEF WorkOK, ObjectOK, HasUser, Optional, Operations, Requires
<1> QED
  BY <1>1, <1>2, FreeTypes, OneHandler

\* What a handler keeps when it goes on with an object.
LEMMA Gone ==
  ASSUME Typed, Grows, NEW h \in Handlers, NEW at, NEW op, NEW on, Goes(h, at, op, on),
         \/ at = "dirty" /\ op \in {Nothing, "approve"} /\ on \in Users
         \/ at = "reading" /\ op = "update_role" /\ on \in RoleEdits
         \/ at = "reading" /\ op = "review" /\ on \in DOMAIN activation /\ on \in Nat
  PROVE  HandlersTyped'
<1>1. /\ handler'[h] = Work(at, op, Nothing, 0, {}, on)
      /\ handler' = [handler EXCEPT ![h] = handler'[h]]
  BY DEF Goes, Typed, HandlersTyped
<1>2. /\ handler'[h].at = at /\ handler'[h].op = op /\ handler'[h].user = Nothing
      /\ handler'[h].since = 0 /\ handler'[h].seen = {} /\ handler'[h].on = on
      /\ handler'[h] \in WorkRecord
  BY <1>1 DEF Work, WorkRecord, Optional
<1>3. Nothing \notin {"approve", "update_role", "review", "checkout", "checkin"}
  BY NothingAssumption DEF Operations, Requires
<1>4. WorkOK(handler[h])' /\ HasUser(handler'[h])
  BY <1>2, <1>3, TimeAssumption DEF WorkOK, ObjectOK, HasUser, Optional, Grows
<1> QED
  BY <1>1, <1>2, <1>4, OneHandler

\* The types hold at the start.
LEMMA InitTyped == Init => Typed
<1> SUFFICES ASSUME Init PROVE Typed
  OBVIOUS
<1>1. TablesTyped
  BY GrantAssumption, RoleAssumption, TimeAssumption, BoundAssumption DEF Init, TablesTyped
<1>2. CacheTyped /\ SweepTyped
  BY DEF Init, CacheTyped, SweepTyped, Optional, Idle
<1>3. HandlersTyped
  BY FreeTypes, NothingAssumption, TimeAssumption
  DEF Init, HandlersTyped, WorkOK, ObjectOK, HasUser, Optional, Operations, Requires
<1> QED
  BY <1>1, <1>2, <1>3 DEF Typed

-----------------------------------------------------------------------------
(* The types, step by step. *)

\* What nobody but the steps of its own part changes.
LEMMA KeptTables ==
  ASSUME Typed, UNCHANGED <<now, tables, rotated>>, requests' \in 0..MaxRequests
  PROVE  TablesTyped' /\ Grows
  BY DEF Typed, TablesTyped, tables, Grows

\* What is in the cache and what the sweep has read stay typed while tables
\* grow.
LEMMA KeptRest ==
  ASSUME Typed, Grows
  PROVE  /\ UNCHANGED cache => CacheTyped'
         /\ UNCHANGED sweep => SweepTyped'
  BY DEF Typed, CacheTyped, SweepTyped, Grows

\* So does the cache when entries are dropped.
LEMMA DroppedTyped ==
  ASSUME Typed, NEW S, cache' = Without(S)
  PROVE  CacheTyped'
  BY DEF Typed, CacheTyped, Without, Optional

\* The set a request reads is of permissions.
LEMMA EffectiveTypes ==
  ASSUME Typed, NEW u
  PROVE  Effective(u) \in SUBSET Permissions /\ HeldRoles(u) \in SUBSET Roles
<1>1. \A g \in DOMAIN grant : grant[g].role \in Roles
  <2> TAKE g \in DOMAIN grant
  <2>1. grant[g] \in Grant
    BY ElementOf DEF Typed, TablesTyped
  <2> QED
    BY <2>1 DEF Grant
<1>2. HeldRoles(u) \in SUBSET Roles
  BY <1>1 DEF HeldRoles
<1>3. \A r \in Roles : holds[r] \in SUBSET Permissions
  BY DEF Typed, TablesTyped
<1> QED
  BY <1>2, <1>3 DEF Effective

\* A request that is judged, from the cache or by the query, keeps the types,
LEMMA PermitTyped ==
  ASSUME Typed, NEW h \in Handlers, \E u \in Users : Hit(h, u) \/ Fill(h, u)
  PROVE  Typed'
<1> PICK u \in Users : Hit(h, u) \/ Fill(h, u)
  OBVIOUS
<1> DEFINE s == IF Hit(h, u) THEN cache[u].permissions ELSE Effective(u)
           a == IF Hit(h, u) THEN "permitted" ELSE "filling"
<1>1. /\ handler'[h] = Work(a, Nothing, u, now, s, Nothing)
      /\ handler' = [handler EXCEPT ![h] = handler'[h]]
      /\ UNCHANGED <<now, tables, cache, sweep, rotated>> /\ requests' \in 0..MaxRequests
  BY BoundAssumption DEF Hit, Fill, Arrives, Typed, HandlersTyped, TablesTyped
<1>2. s \in SUBSET Permissions
  BY EffectiveTypes DEF Hit, Cached, Typed, CacheTyped, Optional, Entry
<1>3. TablesTyped' /\ Grows
  BY <1>1, KeptTables
<1>4. now \in 0..MaxTime /\ now \in Nat
  BY TimeAssumption DEF Typed, TablesTyped
<1>5. /\ handler'[h] \in WorkRecord /\ handler'[h].at = a /\ handler'[h].op = Nothing
      /\ handler'[h].user = u /\ handler'[h].since = now /\ handler'[h].seen = s
      /\ handler'[h].on = Nothing
  BY <1>1, <1>2, <1>4 DEF Work, WorkRecord, Optional
<1>6. WorkOK(handler[h])' /\ HasUser(handler'[h])
  BY <1>2, <1>4, <1>5, NothingAssumption
  DEF WorkOK, ObjectOK, HasUser, Optional, Operations, Requires
<1>7. HandlersTyped'
  BY <1>1, <1>3, <1>5, <1>6, OneHandler
<1> QED
  BY <1>1, <1>3, <1>7, KeptRest DEF Typed

\* and so does one that stores its set.
LEMMA StoreTyped ==
  ASSUME Typed, NEW h \in Handlers, Store(h)
  PROVE  Typed'
<1> DEFINE w == handler[h]
           e == [until |-> w.since + TTL, permissions |-> w.seen]
<1>1. /\ w \in WorkRecord /\ w.at = "filling" /\ w.user \in Users /\ WorkOK(w)
      /\ w.since \in 0..MaxTime
  BY DEF Store, Typed, HandlersTyped, HasUser, WorkOK
<1>2. /\ handler' = [handler EXCEPT ![h] = handler'[h]]
      /\ handler'[h] = [w EXCEPT !.at = "permitted"]
      /\ UNCHANGED <<now, tables, rotated, requests, sweep>>
  BY DEF Store, Typed, HandlersTyped
<1>3. TablesTyped' /\ Grows
  BY <1>2, KeptTables DEF Typed, TablesTyped
<1>4. /\ handler'[h] \in WorkRecord /\ handler'[h].at = "permitted" /\ handler'[h].op = w.op
      /\ handler'[h].user = w.user /\ handler'[h].since = w.since
      /\ handler'[h].seen = w.seen /\ handler'[h].on = w.on
  BY <1>1, <1>2 DEF WorkRecord
<1>5. WorkOK(handler[h])' /\ HasUser(handler'[h])
  BY <1>1, <1>4, NothingAssumption
  DEF WorkOK, ObjectOK, HasUser, Operations, Requires
<1>6. e \in Entry /\ e.until \in 0..MaxTime + TTL
  BY <1>1, TimeAssumption DEF Entry, WorkRecord
<1>7. CacheTyped'
  <2>1. \A u \in Users : cache'[u] = IF u = w.user THEN e ELSE cache[u]
    BY <1>1 DEF Store, Typed, CacheTyped
  <2>2. cache' \in [Users -> Optional(Entry)]
    BY <1>1, <1>6 DEF Store, Typed, CacheTyped, Optional
  <2> HIDE DEF e
  <2> QED
    BY <1>6, <2>1, <2>2 DEF Typed, CacheTyped
<1>8. HandlersTyped'
  BY <1>2, <1>3, <1>4, <1>5, OneHandler
<1> QED
  BY <1>2, <1>3, <1>7, <1>8, KeptRest DEF Typed

\* The new grant of a user, and a change of one that keeps its user.
LEMMA NewGrantTypes ==
  ASSUME Typed, NEW n \in Grant
  PROVE  /\ Append(grant, n) \in Seq(Grant)
         /\ DOMAIN Append(grant, n) = DOMAIN grant \cup {Len(grant) + 1}
         /\ Len(grant) + 1 \in Nat \ DOMAIN grant
         /\ Append(grant, n)[Len(grant) + 1] = n
         /\ \A g \in DOMAIN grant : Append(grant, n)[g] = grant[g]
<1>1. grant \in Seq(Grant)
  BY DEF Typed, TablesTyped
<1>2. /\ Append(grant, n) \in Seq(Grant) /\ Len(Append(grant, n)) = Len(grant) + 1
      /\ \A i \in 1..Len(grant) : Append(grant, n)[i] = grant[i]
      /\ Append(grant, n)[Len(grant) + 1] = n
  BY <1>1, AppendProperties
<1>3. /\ Len(grant) \in Nat /\ DOMAIN grant = 1..Len(grant)
      /\ DOMAIN Append(grant, n) = 1..Len(grant) + 1
  BY <1>1, <1>2, LenProperties
<1> QED
  BY <1>2, <1>3

\* A grant that changes keeps its user and its role.
LEMMA ChangedGrantTypes ==
  ASSUME Typed, NEW g \in DOMAIN grant, NEW n \in Grant,
         n.user = grant[g].user, n.role = grant[g].role, n.emergency = grant[g].emergency
  PROVE  /\ [grant EXCEPT ![g] = n] \in Seq(Grant)
         /\ DOMAIN [grant EXCEPT ![g] = n] = DOMAIN grant
         /\ \A k \in DOMAIN grant : /\ [grant EXCEPT ![g] = n][k].user = grant[k].user
                                    /\ [grant EXCEPT ![g] = n][k].role = grant[k].role
                                    /\ [grant EXCEPT ![g] = n][k].emergency = grant[k].emergency
<1>1. grant \in Seq(Grant)
  BY DEF Typed, TablesTyped
<1>2. [grant EXCEPT ![g] = n] \in Seq(Grant)
  BY <1>1, ExceptSeq, LenProperties
<1> QED
  BY <1>2

\* A step that writes grants and nothing else.
LEMMA GrantsTyped ==
  ASSUME Typed, grant' \in Seq(Grant), DOMAIN grant \subseteq DOMAIN grant',
         UNCHANGED <<now, holds, activation, verdicts, checkout, rotated, requests>>
  PROVE  TablesTyped'
  BY DEF Typed, TablesTyped

\* The three grants a handler writes: a new one, a longer one, a revoked one.
LEMMA GrantStep ==
  ASSUME Typed, NEW h \in Handlers, ApproveCommit(h) \/ ExtendCommit(h) \/ RevokeCommit(h)
  PROVE  /\ grant' \in Seq(Grant) /\ Grows
         /\ \E u \in Users, op \in {Nothing, "approve"} : Goes(h, "dirty", op, u)
<1>1. UNCHANGED <<activation, checkout>>
  BY DEF ApproveCommit, ExtendCommit, RevokeCommit
<1>2. CASE ApproveCommit(h)
  <2>1. PICK a \in Approvals : /\ grant' = NewGrant(a.user, a.role, a.hours, FALSE)
                              /\ Goes(h, "dirty", "approve", a.user)
    BY <1>2 DEF ApproveCommit
  <2>2. a.user \in Users /\ a.role \in Roles /\ a.hours \in Nat
    BY ApprovalAssumption
  <2> DEFINE n == [user |-> a.user, role |-> a.role, start |-> now, end |-> now + a.hours,
                   emergency |-> FALSE, status |-> "ACTIVE"]
  <2>3. n \in Grant /\ grant' = Append(grant, n)
    BY <2>1, <2>2, TimeAssumption DEF Grant, NewGrant, Typed, TablesTyped
  <2> HIDE DEF n
  <2>4. /\ grant' \in Seq(Grant) /\ DOMAIN grant \subseteq DOMAIN grant'
        /\ \A g \in DOMAIN grant : grant'[g] = grant[g]
    BY <2>3, NewGrantTypes
  <2> QED
    BY <1>1, <2>1, <2>2, <2>4 DEF Grows
<1>3. CASE ExtendCommit(h)
  <2>1. PICK g \in DOMAIN grant, a \in Approvals :
           LET longer == grant[g].end + a.hours
               cap    == grant[g].start + ExtensionCap
           IN  /\ a.user = grant[g].user
               /\ grant' = [grant EXCEPT ![g].end = IF longer < cap THEN longer ELSE cap]
               /\ Goes(h, "dirty", "approve", a.user)
    BY <1>3 DEF ExtendCommit
  <2> DEFINE longer == grant[g].end + a.hours
             cap    == grant[g].start + ExtensionCap
             n      == [grant[g] EXCEPT !.end = IF longer < cap THEN longer ELSE cap]
  <2>2. grant[g] \in Grant /\ a.user \in Users /\ a.hours \in Nat /\ ExtensionCap \in Nat
    BY ElementOf, ApprovalAssumption, TimeAssumption DEF Typed, TablesTyped
  <2>3. longer \in Int /\ cap \in Int
    BY <2>2 DEF Grant
  <2>4. /\ n \in Grant /\ n.user = grant[g].user /\ n.role = grant[g].role
        /\ n.emergency = grant[g].emergency
    BY <2>2, <2>3 DEF Grant
  <2>5. grant' = [grant EXCEPT ![g] = n] /\ Goes(h, "dirty", "approve", a.user)
    BY <2>1
  <2> HIDE DEF n
  <2> QED
    BY <1>1, <2>2, <2>4, <2>5, ChangedGrantTypes DEF Grows
<1>4. CASE RevokeCommit(h)
  <2>1. PICK g \in DOMAIN grant : /\ grant' = [grant EXCEPT ![g].status = "REVOKED"]
                                 /\ Goes(h, "dirty", Nothing, grant[g].user)
    BY <1>4 DEF RevokeCommit
  <2> DEFINE n == [grant[g] EXCEPT !.status = "REVOKED"]
  <2>2. grant[g] \in Grant
    BY ElementOf DEF Typed, TablesTyped
  <2>3. /\ n \in Grant /\ n.user = grant[g].user /\ n.role = grant[g].role
        /\ n.emergency = grant[g].emergency /\ grant[g].user \in Users
    BY <2>2 DEF Grant
  <2>4. grant' = [grant EXCEPT ![g] = n]
    BY <2>1
  <2> HIDE DEF n
  <2> QED
    BY <1>1, <2>1, <2>2, <2>3, <2>4, ChangedGrantTypes DEF Grows
<1> QED
  BY <1>2, <1>3, <1>4

\* The commits on grants keep the types,
LEMMA GrantTyped ==
  ASSUME Typed, NEW h \in Handlers, ApproveCommit(h) \/ ExtendCommit(h) \/ RevokeCommit(h)
  PROVE  Typed' /\ Grows
<1>1. /\ UNCHANGED <<now, holds, activation, verdicts, checkout, rotated, requests>>
      /\ UNCHANGED <<cache, sweep>>
  BY DEF ApproveCommit, ExtendCommit, RevokeCommit
<1>2. grant' \in Seq(Grant) /\ Grows
  BY GrantStep
<1>3. TablesTyped'
  BY <1>1, <1>2, GrantsTyped DEF Grows
<1>4. PICK u \in Users, op \in {Nothing, "approve"} : Goes(h, "dirty", op, u)
  BY GrantStep
<1>5. HandlersTyped'
  BY <1>2, <1>4, Gone
<1> QED
  BY <1>1, <1>2, <1>3, <1>5, KeptRest DEF Typed

\* as do the invalidations after them,
LEMMA InvalidateTyped ==
  ASSUME Typed, NEW h \in Handlers, Invalidate(h) \/ UpdateRoleInvalidate(h)
  PROVE  Typed'
<1>1. UNCHANGED <<now, tables, sweep, rotated, requests>>
  BY DEF Invalidate, UpdateRoleInvalidate
<1>2. TablesTyped' /\ Grows
  BY <1>1, KeptTables DEF Typed, TablesTyped
<1>3. CacheTyped'
  BY DroppedTyped DEF Invalidate, UpdateRoleInvalidate
<1>4. HandlersTyped'
  <2>1. CASE Invalidate(h)
    BY <1>2, <2>1, Finished DEF Invalidate
  <2>2. CASE UpdateRoleInvalidate(h)
    BY <1>2, <2>2, Gone DEF UpdateRoleInvalidate
  <2> QED
    BY <2>1, <2>2
<1> QED
  BY <1>1, <1>2, <1>3, <1>4, KeptRest DEF Typed

\* What a handler works on is there.
LEMMA ObjectTypes ==
  ASSUME Typed, NEW h \in Handlers
  PROVE  /\ handler[h].op = "update_role" => handler[h].on \in RoleEdits
         /\ handler[h].op = "review" => handler[h].on \in DOMAIN activation
         /\ handler[h].op = "checkout" => handler[h].on \in DOMAIN grant
         /\ handler[h].op = "checkin" => handler[h].on \in DOMAIN checkout
         /\ handler[h].at = "dirty" => handler[h].on \in Users
         /\ handler[h] \in WorkRecord /\ handler[h].since \in 0..MaxTime
         /\ handler[h].at \in {"filling", "permitted"} => handler[h].user \in Users
         /\ handler[h].op = "checkout" => handler[h].user \in Users
  BY DEF Typed, HandlersTyped, WorkOK, ObjectOK, HasUser

\* the change of a role,
LEMMA UpdateRoleTyped ==
  ASSUME Typed, NEW h \in Handlers, UpdateRoleCommit(h)
  PROVE  Typed'
<1>1. handler[h].on \in Roles \X SUBSET Permissions
  BY ObjectTypes, RoleAssumption DEF UpdateRoleCommit, Doing
<1>2. /\ holds' \in [Roles -> SUBSET Permissions]
      /\ UNCHANGED <<now, grant, activation, verdicts, checkout, cache, sweep, rotated, requests>>
  BY <1>1 DEF UpdateRoleCommit, Typed, TablesTyped
<1>3. TablesTyped' /\ Grows
  BY <1>2, SameGrows DEF Typed, TablesTyped
<1>4. HandlersTyped'
  BY <1>3, Finished DEF UpdateRoleCommit
<1> QED
  BY <1>2, <1>3, <1>4, KeptRest DEF Typed

\* an activation,
LEMMA ActivateTyped ==
  ASSUME Typed, NEW h \in Handlers, ActivateCommit(h)
  PROVE  Typed' /\ Grows
<1>1. PICK role \in Roles :
         /\ grant' = NewGrant(handler[h].user, role, EmergencyHours, TRUE)
         /\ activation' = Append(activation, [grant |-> Len(grant) + 1, verdict |-> "PENDING"])
         /\ Goes(h, "dirty", Nothing, handler[h].user)
  BY DEF ActivateCommit
<1>2. handler[h].user \in Users /\ EmergencyHours \in Nat
  BY ObjectTypes, TimeAssumption DEF ActivateCommit, Permitted
<1> DEFINE e == [user |-> handler[h].user, role |-> role, start |-> now,
                 end |-> now + EmergencyHours, emergency |-> TRUE, status |-> "ACTIVE"]
<1>0. e \in Grant /\ grant' = Append(grant, e)
  BY <1>1, <1>2, TimeAssumption DEF Grant, NewGrant, Typed, TablesTyped
<1> HIDE DEF e
<1>3. /\ grant' \in Seq(Grant) /\ DOMAIN grant' = DOMAIN grant \cup {Len(grant) + 1}
      /\ Len(grant) + 1 \in Nat /\ \A g \in DOMAIN grant : grant'[g] = grant[g]
  BY <1>0, NewGrantTypes
<1> DEFINE n == [grant |-> Len(grant) + 1, verdict |-> "PENDING"]
<1>4. n \in Activation /\ n.grant = Len(grant) + 1
  BY <1>3 DEF Activation
<1>5. activation' = Append(activation, n)
  BY <1>1
<1> HIDE DEF n
<1>6. /\ activation' \in Seq(Activation) /\ Len(activation') = Len(activation) + 1
      /\ \A i \in 1..Len(activation) : activation'[i] = activation[i]
      /\ activation'[Len(activation) + 1] = n
  BY <1>4, <1>5, AppendProperties DEF Typed, TablesTyped
<1>7. /\ DOMAIN activation = 1..Len(activation) /\ Len(activation) \in Nat
      /\ DOMAIN activation' = 1..Len(activation) + 1
  BY <1>6, LenProperties DEF Typed, TablesTyped
<1>8. \A a \in DOMAIN activation' : activation'[a].grant \in DOMAIN grant'
  BY <1>3, <1>4, <1>6, <1>7 DEF Typed, TablesTyped
<1>9. UNCHANGED <<now, holds, verdicts, checkout, cache, sweep, rotated, requests>>
  BY DEF ActivateCommit
<1>10. Grows
  BY <1>3, <1>7, <1>9 DEF Grows
<1>11. TablesTyped'
  BY <1>3, <1>6, <1>7, <1>8, <1>9 DEF Typed, TablesTyped
<1>12. HandlersTyped'
  BY <1>1, <1>2, <1>10, Gone
<1> QED
  BY <1>9, <1>10, <1>11, <1>12, KeptRest DEF Typed

\* its review,
LEMMA ReviewTyped ==
  ASSUME Typed, NEW h \in Handlers,
         ActivateDenied(h) \/ (\E a \in DOMAIN activation : ReviewRead(h, a)) \/ ReviewCommit(h)
  PROVE  Typed' /\ Grows
<1>1. CASE ActivateDenied(h)
  <2>1. TablesTyped' /\ Grows
    BY <1>1, KeptTables DEF ActivateDenied, Typed, TablesTyped
  <2> QED
    BY <1>1, <2>1, Finished, KeptRest DEF ActivateDenied, Typed
<1>2. CASE \E a \in DOMAIN activation : ReviewRead(h, a)
  <2> PICK a \in DOMAIN activation : ReviewRead(h, a)
    BY <1>2
  <2>1. TablesTyped' /\ Grows
    BY KeptTables DEF ReviewRead, Typed, TablesTyped
  <2>2. a \in Nat
    BY ElementOf DEF Typed, TablesTyped
  <2> QED
    BY <2>1, <2>2, Gone, KeptRest DEF ReviewRead, Typed
<1>3. CASE ReviewCommit(h)
  <2> DEFINE a == handler[h].on
  <2>1. PICK v \in {"JUSTIFIED", "ESCALATED"} :
           /\ activation' = [activation EXCEPT ![a].verdict = v]
           /\ verdicts' = verdicts \cup {<<a, v>>}
    BY <1>3 DEF ReviewCommit
  <2>2. a \in DOMAIN activation /\ activation[a] \in Activation
    BY <1>3, ObjectTypes, ElementOf DEF ReviewCommit, Doing, Typed, TablesTyped
  <2> DEFINE n == [activation[a] EXCEPT !.verdict = v]
  <2>3. n \in Activation /\ n.grant = activation[a].grant
    BY <2>2 DEF Activation
  <2>4. activation' = [activation EXCEPT ![a] = n]
    BY <2>1
  <2> HIDE DEF n
  <2>5. activation' \in Seq(Activation) /\ DOMAIN activation' = DOMAIN activation
    BY <2>2, <2>3, <2>4, ExceptSeq, LenProperties DEF Typed, TablesTyped
  <2>6. \A k \in DOMAIN activation : activation'[k].grant = activation[k].grant
    BY <2>2, <2>3, <2>4
  <2>7. UNCHANGED <<now, grant, holds, checkout, cache, sweep, rotated, requests>>
    BY <1>3 DEF ReviewCommit
  <2>8. TablesTyped' /\ Grows
    BY <2>1, <2>2, <2>5, <2>6, <2>7 DEF Typed, TablesTyped, Grows
  <2> QED
    BY <1>3, <2>7, <2>8, Finished, KeptRest DEF ReviewCommit, Typed
<1> QED
  BY <1>1, <1>2, <1>3

\* A handler that holds a credential, or one that was given back.
LEMMA Holding ==
  ASSUME Typed, Grows, NEW h \in Handlers, NEW w \in WorkRecord,
         handler' = [handler EXCEPT ![h] = w], w.at = "holding", w.since \in 0..MaxTime,
         \/ w.op = "checkout" /\ w.on \in DOMAIN grant /\ w.user \in Users
         \/ w.op = "checkin" /\ w.on \in DOMAIN checkout
  PROVE  HandlersTyped'
<1>1. handler'[h] = w /\ handler' = [handler EXCEPT ![h] = handler'[h]]
  BY DEF Typed, HandlersTyped
<1>2. Nothing \notin {"approve", "update_role", "review", "checkout", "checkin"}
  BY NothingAssumption DEF Operations, Requires
<1>3. w.user \in Optional(Users) /\ w.seen \in SUBSET Permissions
  BY DEF WorkRecord
<1>4. WorkOK(handler[h])' /\ HasUser(handler'[h])
  BY <1>1, <1>2, <1>3 DEF WorkOK, ObjectOK, HasUser, Grows
<1> QED
  BY <1>1, <1>4, OneHandler

\* a credential that is retrieved,
LEMMA CheckoutRetrieveTyped ==
  ASSUME Typed, NEW h \in Handlers, CheckoutRetrieve(h)
  PROVE  Typed'
<1>1. PICK g \in DOMAIN grant : Takes(h, g)
  BY DEF CheckoutRetrieve
<1> DEFINE w == Work("holding", "checkout", handler[h].user, handler[h].since, {}, g)
<1>2. handler[h].user \in Users /\ handler[h].since \in 0..MaxTime /\ g \in Nat
  BY ObjectTypes, ElementOf DEF CheckoutRetrieve, Permitted, Typed, TablesTyped
<1>3. /\ w \in WorkRecord /\ w.at = "holding" /\ w.op = "checkout" /\ w.on = g
      /\ w.user = handler[h].user /\ w.since = handler[h].since
  BY <1>2, TimeAssumption DEF Work, WorkRecord, Optional
<1>4. handler' = [handler EXCEPT ![h] = w]
  BY <1>1 DEF Takes
<1> HIDE DEF w
<1>5. TablesTyped' /\ Grows
  BY KeptTables DEF CheckoutRetrieve, Typed, TablesTyped
<1>6. HandlersTyped'
  BY <1>2, <1>3, <1>4, <1>5, Holding
<1> QED
  BY <1>5, <1>6, KeptRest DEF CheckoutRetrieve, Typed

\* its row,
LEMMA CheckoutCommitTyped ==
  ASSUME Typed, NEW h \in Handlers, CheckoutCommit(h)
  PROVE  Typed' /\ Grows
<1> DEFINE n == [grant |-> handler[h].on, since |-> handler[h].since, returned |-> FALSE]
<1>1. handler[h].on \in DOMAIN grant /\ handler[h].since \in 0..MaxTime
  BY ObjectTypes DEF CheckoutCommit, Doing
<1>2. handler[h].on \in Nat /\ handler[h].since \in Nat
  <2>1. grant \in Seq(Grant)
    BY DEF Typed, TablesTyped
  <2>2. handler[h].on \in Nat
    BY <1>1, <2>1, ElementOf
  <2> QED
    BY <1>1, <2>2, TimeAssumption
<1>3. n \in Lease /\ n.grant = handler[h].on /\ n.since = handler[h].since
  BY <1>2 DEF Lease
<1>4. checkout' = Append(checkout, n)
  BY DEF CheckoutCommit
<1> HIDE DEF n
<1>5. /\ checkout' \in Seq(Lease) /\ Len(checkout') = Len(checkout) + 1
      /\ \A i \in 1..Len(checkout) : checkout'[i] = checkout[i]
      /\ checkout'[Len(checkout) + 1] = n
  BY <1>3, <1>4, AppendProperties DEF Typed, TablesTyped
<1>6. /\ DOMAIN checkout = 1..Len(checkout) /\ Len(checkout) \in Nat
      /\ DOMAIN checkout' = 1..Len(checkout) + 1
  BY <1>5, LenProperties DEF Typed, TablesTyped
<1>7. UNCHANGED <<now, grant, holds, activation, verdicts, cache, sweep, rotated, requests>>
  BY DEF CheckoutCommit
<1>8. Grows
  BY <1>6, <1>7 DEF Grows
<1>9. \A c \in DOMAIN checkout' : /\ checkout'[c].grant \in DOMAIN grant
                                 /\ checkout'[c].since \in 0..MaxTime
  <2> TAKE c \in DOMAIN checkout'
  <2>1. CASE c \in DOMAIN checkout
    <3>1. checkout'[c] = checkout[c]
      BY <1>5, <1>6, <2>1
    <3> QED
      BY <2>1, <3>1 DEF Typed, TablesTyped
  <2>2. CASE c = Len(checkout) + 1
    BY <1>1, <1>3, <1>5, <2>2
  <2> QED
    BY <1>6, <2>1, <2>2
<1>10. TablesTyped'
  BY <1>5, <1>6, <1>7, <1>9 DEF Typed, TablesTyped
<1>11. HandlersTyped'
  BY <1>8, Finished DEF CheckoutCommit
<1> QED
  BY <1>7, <1>8, <1>10, <1>11, KeptRest DEF Typed

\* its return,
LEMMA CheckinTyped ==
  ASSUME Typed, NEW h \in Handlers,
         (\E c \in DOMAIN checkout : CheckinRotate(h, c)) \/ CheckinCommit(h)
  PROVE  Typed' /\ Grows
<1>1. CASE \E c \in DOMAIN checkout : CheckinRotate(h, c)
  <2> PICK c \in DOMAIN checkout : CheckinRotate(h, c)
    BY <1>1
  <2> DEFINE w == Work("holding", "checkin", Nothing, 0, {}, c)
  <2>1. c \in Nat
    BY ElementOf DEF Typed, TablesTyped
  <2>2. /\ w \in WorkRecord /\ w.at = "holding" /\ w.op = "checkin" /\ w.on = c
        /\ w.since = 0
    BY <2>1 DEF Work, WorkRecord, Optional
  <2>3. handler' = [handler EXCEPT ![h] = w]
    BY DEF CheckinRotate
  <2> HIDE DEF w
  <2>4. /\ UNCHANGED <<now, tables, cache, sweep>> /\ rotated' = rotated \cup {c}
        /\ requests' \in 0..MaxRequests
    BY BoundAssumption DEF CheckinRotate, Arrives, Typed, TablesTyped
  <2>5. TablesTyped' /\ Grows
    BY <2>4 DEF Typed, TablesTyped, tables, Grows
  <2>6. HandlersTyped'
    <3>1. 0 \in 0..MaxTime
      BY TimeAssumption
    <3> QED
      BY <2>2, <2>3, <2>5, <3>1, Holding
  <2> QED
    BY <2>4, <2>5, <2>6, KeptRest DEF Typed
<1>2. CASE CheckinCommit(h)
  <2> DEFINE c == handler[h].on
             n == [checkout[c] EXCEPT !.returned = TRUE]
  <2>1. c \in DOMAIN checkout
    BY <1>2, ObjectTypes DEF CheckinCommit, Doing
  <2>2. checkout[c] \in Lease
    BY <2>1, ElementOf DEF Typed, TablesTyped
  <2>3. n \in Lease /\ n.grant = checkout[c].grant /\ n.since = checkout[c].since
    BY <2>2 DEF Lease
  <2>4. checkout' = [checkout EXCEPT ![c] = n]
    BY <1>2 DEF CheckinCommit
  <2> HIDE DEF n
  <2>5. checkout' \in Seq(Lease) /\ DOMAIN checkout' = DOMAIN checkout
    BY <2>1, <2>3, <2>4, ExceptSeq, LenProperties DEF Typed, TablesTyped
  <2>6. \A k \in DOMAIN checkout : /\ checkout'[k].grant = checkout[k].grant
                                  /\ checkout'[k].since = checkout[k].since
    BY <2>1, <2>3, <2>4
  <2>7. UNCHANGED <<now, grant, holds, activation, verdicts, cache, sweep, rotated, requests>>
    BY <1>2 DEF CheckinCommit
  <2>8. TablesTyped' /\ Grows
    BY <2>5, <2>6, <2>7 DEF Typed, TablesTyped, Grows
  <2> QED
    BY <1>2, <2>7, <2>8, Finished, KeptRest DEF CheckinCommit, Typed
<1> QED
  BY <1>1, <1>2

\* a handler that fails,
LEMMA AbandonTyped ==
  ASSUME Typed, NEW h \in Handlers, Abandon(h)
  PROVE  Typed'
<1>1. TablesTyped' /\ Grows
  BY KeptTables DEF Abandon, Typed, TablesTyped
<1> QED
  BY <1>1, Finished, KeptRest DEF Abandon, Typed

\* What a sweep and the other handlers see of each other.
LEMMA SameHandlers == Typed /\ Grows /\ UNCHANGED handler => HandlersTyped'
<1> SUFFICES ASSUME Typed, Grows, UNCHANGED handler PROVE HandlersTyped'
  OBVIOUS
<1>1. ASSUME NEW g \in Handlers
      PROVE  WorkOK(handler[g])' /\ HasUser(handler'[g])
  <2>1. handler'[g] = handler[g] /\ WorkOK(handler[g]) /\ HasUser(handler[g])
    BY DEF Typed, HandlersTyped
  <2> QED
    BY <2>1 DEF WorkOK, ObjectOK, Grows
<1> QED
  BY <1>1 DEF Typed, HandlersTyped, HasUser

\* the sweep,
LEMMA SweepTypes ==
  ASSUME Typed, SweepRead \/ SweepCommit \/ SweepInvalidate \/ SweepFault
  PROVE  Typed' /\ Grows
<1>1. CASE SweepRead \/ SweepFault
  <2>1. TablesTyped' /\ Grows /\ UNCHANGED <<cache, handler>>
    BY <1>1, KeptTables DEF SweepRead, SweepFault, Typed, TablesTyped
  <2>2. Due \subseteq DOMAIN grant /\ DOMAIN grant \subseteq Nat
    BY ElementOf DEF Due, Typed, TablesTyped
  <2>3. SweepTyped'
    BY <1>1, <2>1, <2>2 DEF SweepRead, SweepFault, SweepTyped, Idle, Optional, Grows
  <2> QED
    BY <2>1, <2>3, SameHandlers, KeptRest DEF Typed
<1>2. CASE SweepCommit
  <2>1. PICK g \in sweep.due : /\ grant' = [grant EXCEPT ![g].status = "EXPIRED"]
                              /\ sweep' = [due |-> sweep.due \ {g}, drop |-> grant[g].user]
    BY <1>2 DEF SweepCommit
  <2> DEFINE n == [grant[g] EXCEPT !.status = "EXPIRED"]
  <2>2. g \in DOMAIN grant
    BY DEF Typed, SweepTyped
  <2>3. grant[g] \in Grant
    BY <2>2, ElementOf DEF Typed, TablesTyped
  <2>4. /\ n \in Grant /\ n.user = grant[g].user /\ n.role = grant[g].role
        /\ n.emergency = grant[g].emergency /\ grant[g].user \in Users
    BY <2>3 DEF Grant
  <2>5. grant' = [grant EXCEPT ![g] = n]
    BY <2>1
  <2> HIDE DEF n
  <2>6. UNCHANGED <<now, holds, activation, verdicts, checkout, cache, handler, rotated, requests>>
    BY <1>2 DEF SweepCommit
  <2>7. grant' \in Seq(Grant) /\ DOMAIN grant' = DOMAIN grant /\ Grows
    BY <2>2, <2>4, <2>5, <2>6, ChangedGrantTypes DEF Grows
  <2>8. TablesTyped'
    BY <2>6, <2>7, GrantsTyped
  <2>9. SweepTyped'
    BY <2>1, <2>4, <2>7 DEF Typed, SweepTyped, Optional
  <2> QED
    BY <2>6, <2>7, <2>8, <2>9, SameHandlers, KeptRest DEF Typed
<1>3. CASE SweepInvalidate
  <2>1. TablesTyped' /\ Grows /\ UNCHANGED handler
    BY <1>3, KeptTables DEF SweepInvalidate, Typed, TablesTyped
  <2>2. SweepTyped'
    BY <1>3, <2>1 DEF SweepInvalidate, Typed, SweepTyped, Optional, Grows
  <2>3. CacheTyped'
    BY <1>3, DroppedTyped DEF SweepInvalidate
  <2> QED
    BY <2>1, <2>2, <2>3, SameHandlers DEF Typed
<1> QED
  BY <1>1, <1>2, <1>3

\* the clock and the restart.
LEMMA TickTyped ==
  ASSUME Typed, Tick \/ Restart \/ UNCHANGED vars
  PROVE  Typed'
<1>1. CASE Tick
  <2>1. TablesTyped' /\ Grows /\ UNCHANGED <<cache, handler, sweep>>
    BY <1>1, TimeAssumption DEF Tick, Typed, TablesTyped, tables, Grows
  <2> QED
    BY <2>1, SameHandlers, KeptRest DEF Typed
<1>2. CASE Restart
  <2>1. TablesTyped' /\ Grows
    BY <1>2, KeptTables DEF Restart, Typed, TablesTyped
  <2>2. CacheTyped' /\ SweepTyped'
    BY <1>2 DEF Restart, CacheTyped, SweepTyped, Idle, Optional
  <2>3. HandlersTyped'
    BY <1>2, FreeTypes, NothingAssumption, TimeAssumption
    DEF Restart, HandlersTyped, WorkOK, ObjectOK, HasUser, Optional, Operations, Requires
  <2> QED
    BY <2>1, <2>2, <2>3 DEF Typed
<1>3. CASE UNCHANGED vars
  <2>1. TablesTyped' /\ Grows /\ UNCHANGED <<cache, handler, sweep>>
    BY <1>3, KeptTables DEF vars, Typed, TablesTyped
  <2> QED
    BY <2>1, SameHandlers, KeptRest DEF Typed
<1> QED
  BY <1>1, <1>2, <1>3

\* Every step keeps the types,
LEMMA StepTyped == Typed /\ [Next]_vars => Typed'
<1> SUFFICES ASSUME Typed, [Next]_vars PROVE Typed'
  OBVIOUS
<1>1. ASSUME NEW h \in Handlers,
             Authorize(h) \/ ChangeAccess(h) \/ BreakGlass(h) \/ Privileged(h) \/ Abandon(h)
      PROVE  Typed'
  <2>1. CASE Authorize(h)
    BY <2>1, PermitTyped, StoreTyped DEF Authorize
  <2>2. CASE ChangeAccess(h)
    BY <2>2, GrantTyped, InvalidateTyped, UpdateRoleTyped DEF ChangeAccess
  <2>3. CASE BreakGlass(h)
    BY <2>3, ActivateTyped, ReviewTyped DEF BreakGlass
  <2>4. CASE Privileged(h)
    BY <2>4, CheckoutRetrieveTyped, CheckoutCommitTyped, CheckinTyped DEF Privileged
  <2> QED
    BY <1>1, <2>1, <2>2, <2>3, <2>4, AbandonTyped
<1> QED
  BY <1>1, SweepTypes, TickTyped DEF Next, Step, Sweep

\* and takes no row from a table.
LEMMA StepGrows == Typed /\ [Next]_vars => Grows
<1> SUFFICES ASSUME Typed, [Next]_vars PROVE Grows
  OBVIOUS
<1>1. ASSUME NEW h \in Handlers,
             Authorize(h) \/ ChangeAccess(h) \/ BreakGlass(h) \/ Privileged(h) \/ Abandon(h)
      PROVE  Grows
  <2>1. CASE Authorize(h) \/ Abandon(h)
    BY <2>1, SameGrows DEF Authorize, Hit, Fill, Store, Abandon, tables
  <2>2. CASE ChangeAccess(h)
    BY <2>2, GrantTyped, SameGrows
    DEF ChangeAccess, Invalidate, UpdateRoleInvalidate, UpdateRoleCommit, tables
  <2>3. CASE BreakGlass(h)
    BY <2>3, ActivateTyped, ReviewTyped DEF BreakGlass
  <2>4. CASE Privileged(h)
    BY <2>4, CheckoutCommitTyped, CheckinTyped, SameGrows
    DEF Privileged, CheckoutRetrieve, tables
  <2> QED
    BY <1>1, <2>1, <2>2, <2>3, <2>4
<1>2. CASE Tick \/ Restart \/ UNCHANGED vars
  BY <1>2, SameGrows DEF Tick, Restart, vars, tables
<1> QED
  BY <1>1, <1>2, SweepTypes DEF Next, Step, Sweep

-----------------------------------------------------------------------------
(* What the history remembers. *)

Things == Roles \cup Permissions

\* What a user has, the history has seen now.
Remembered ==
    /\ lastHeld \in [Users -> [Things -> Int]]
    /\ \A u \in Users, p \in Things : lastHeld[u][p] <= now
    /\ \A u \in Users, p \in Things : p \in Powers(u) => lastHeld[u][p] = now

Later == \A u \in Users, p \in Things : lastHeld'[u][p] >= lastHeld[u][p]

\* At the start the history is what is held.
LEMMA InitRemembered == Init => Remembered
<1> SUFFICES ASSUME Init PROVE Remembered
  OBVIOUS
<1>1. \A u \in Users, p \in Things : lastHeld[u][p] = IF p \in Powers(u) THEN 0 ELSE -1
  BY DEF Init, Things
<1>2. lastHeld \in [Users -> [Things -> Int]] /\ now = 0
  BY DEF Init, Things
<1> QED
  BY <1>1, <1>2 DEF Remembered

\* The clock goes on by one or stands.
LEMMA StepTime == Typed /\ [Next]_vars => now' \in {now, now + 1}
  BY DEF Next, Step, Authorize, ChangeAccess, BreakGlass, Privileged, Sweep, vars, tables,
     Hit, Fill, Store, ApproveCommit, ExtendCommit, RevokeCommit, Invalidate, UpdateRoleInvalidate,
     UpdateRoleCommit, ActivateCommit, ActivateDenied, ReviewRead, ReviewCommit, CheckoutRetrieve,
     CheckoutCommit, CheckinRotate, CheckinCommit, SweepRead, SweepCommit, SweepInvalidate,
     SweepFault, Tick, Abandon, Restart

\* The history goes on, and never back.
LEMMA StepRemembered == Typed /\ Remembered /\ [Next]_vars => Remembered' /\ Later
<1> SUFFICES ASSUME Typed, Remembered, [Next]_vars PROVE Remembered' /\ Later
  OBVIOUS
<1>1. now \in Nat /\ now' \in Nat /\ now <= now'
  BY StepTime, TimeAssumption DEF Typed, TablesTyped
<1>2. CASE UNCHANGED <<now, grant, holds, lastHeld>>
  <2>1. \A u \in Users : Powers(u)' = Powers(u)
    BY <1>2 DEF Powers, HeldRoles, Effective, InWindow
  <2> QED
    BY <1>1, <1>2, <2>1 DEF Remembered, Later
<1>3. CASE lastHeld' = [u \in Users |-> [p \in Things |->
                           IF p \in Powers(u)' THEN now' ELSE lastHeld[u][p]]]
  <2>1. \A u \in Users, p \in Things :
           lastHeld'[u][p] = IF p \in Powers(u)' THEN now' ELSE lastHeld[u][p]
    BY <1>3
  <2>2. lastHeld' \in [Users -> [Things -> Int]]
    BY <1>1, <1>3 DEF Remembered
  <2>3. Remembered'
    BY <1>1, <2>1, <2>2 DEF Remembered
  <2>4. Later
    BY <1>1, <2>1 DEF Remembered, Later
  <2> QED
    BY <2>3, <2>4
<1>4. CASE UNCHANGED vars
  BY <1>2, <1>4 DEF vars, tables
<1> QED
  BY <1>2, <1>3, <1>4 DEF Next, Remember, Things

-----------------------------------------------------------------------------
(* How old the authority is. *)

\* What a handler has read was held when it came, or, from the cache, less than
\* TTL before; and who takes a credential is the administrator.
HandlerRecent(w) ==
    /\ w.since <= now
    /\ w.at = "filling" => \A p \in w.seen : lastHeld[w.user][p] >= w.since
    /\ w.at = "permitted" => \A p \in w.seen : lastHeld[w.user][p] + TTL > w.since
    /\ w.op = "checkout" => /\ lastHeld[w.user][CheckoutRole] >= w.since
                            /\ grant[w.on].user = w.user

\* An entry ends TTL after its reader began, so TTL after it was right.
EntryRecent(u) ==
    cache[u] # Nothing => \A p \in cache[u].permissions : lastHeld[u][p] + TTL >= cache[u].until

LeaseRecent(c) == lastHeld[grant[checkout[c].grant].user][CheckoutRole] >= checkout[c].since

Recent ==
    /\ \A h \in Handlers : HandlerRecent(handler[h])
    /\ \A u \in Users : EntryRecent(u)
    /\ \A c \in DOMAIN checkout : LeaseRecent(c)

\* What stays does not grow older than it was.
LEMMA RecentKept ==
  ASSUME Typed, Grows, Remembered, Remembered', Later, Recent, now' \in Int, now' >= now,
         \A g \in Handlers : handler'[g] = handler[g] \/ HandlerRecent(handler[g])',
         \A u \in Users : \/ cache'[u] = Nothing \/ cache'[u] = cache[u] \/ EntryRecent(u)',
         \A c \in DOMAIN checkout' :
            \/ /\ c \in DOMAIN checkout /\ checkout'[c].grant = checkout[c].grant
               /\ checkout'[c].since = checkout[c].since
            \/ LeaseRecent(c)'
  PROVE  Recent'
<1>1. /\ TTL \in Nat /\ CheckoutRole \in Things /\ now \in Int /\ now' \in Int
      /\ \A u \in Users, p \in Things : lastHeld[u][p] \in Int /\ lastHeld'[u][p] \in Int
  <2>1. TTL \in Nat /\ CheckoutRole \in Things
    BY TimeAssumption, RoleAssumption DEF Things
  <2>2. now \in Int
    BY DEF Typed, TablesTyped
  <2>3. \A u \in Users, p \in Things : lastHeld[u][p] \in Int
    BY DEF Remembered
  <2>4. \A u \in Users, p \in Things : lastHeld'[u][p] \in Int
    BY DEF Remembered
  <2> QED
    BY <2>1, <2>2, <2>3, <2>4
<1>2. ASSUME NEW g \in Handlers, handler'[g] = handler[g]
      PROVE  HandlerRecent(handler[g])'
  <2> DEFINE w == handler[g]
  <2>1. HandlerRecent(w) /\ w.since \in Int
    BY TimeAssumption, ObjectTypes DEF Recent
  <2>2. w.seen \in SUBSET Things
    BY ObjectTypes DEF WorkRecord, Things
  <2>3. /\ w.at \in {"filling", "permitted"} \/ w.op = "checkout" => w.user \in Users
        /\ w.op = "checkout" => w.on \in DOMAIN grant
    BY ObjectTypes
  <2>4. w.op = "checkout" => grant'[w.on].user = grant[w.on].user
    BY <2>3 DEF Grows
  <2> QED
    BY <1>1, <1>2, <2>1, <2>2, <2>3, <2>4 DEF HandlerRecent, Later
<1>3. ASSUME NEW u \in Users, cache'[u] = cache[u]
      PROVE  EntryRecent(u)'
  <2> SUFFICES ASSUME cache[u] # Nothing, NEW p \in cache[u].permissions
               PROVE  lastHeld'[u][p] + TTL >= cache[u].until
    BY <1>3 DEF EntryRecent
  <2>1. p \in Things /\ cache[u].until \in Int
    BY DEF Typed, CacheTyped, Optional, Entry, Things
  <2>2. lastHeld[u][p] + TTL >= cache[u].until
    BY DEF Recent, EntryRecent
  <2> QED
    BY <1>1, <2>1, <2>2 DEF Later
<1>4. ASSUME NEW c \in DOMAIN checkout, checkout'[c].grant = checkout[c].grant,
             checkout'[c].since = checkout[c].since
      PROVE  LeaseRecent(c)'
  <2> DEFINE g == checkout[c].grant
  <2>1. g \in DOMAIN grant /\ checkout[c].since \in Int
    BY TimeAssumption DEF Typed, TablesTyped
  <2>2. grant[g].user \in Users /\ grant'[g].user = grant[g].user
    <3>1. grant[g] \in Grant
      BY <2>1, ElementOf DEF Typed, TablesTyped
    <3> QED
      BY <2>1, <3>1 DEF Grant, Grows
  <2>3. lastHeld[grant[g].user][CheckoutRole] >= checkout[c].since
    BY DEF Recent, LeaseRecent
  <2> QED
    BY <1>1, <1>4, <2>1, <2>2, <2>3 DEF Later, LeaseRecent
<1>5. \A u \in Users : cache'[u] = Nothing => EntryRecent(u)'
  BY DEF EntryRecent
<1> QED
  BY <1>2, <1>3, <1>4, <1>5 DEF Recent

\* A handler that serves no user yet, or no longer, holds no authority.
LEMMA QuietRecent ==
  ASSUME Typed, Typed', NEW h \in Handlers, NEW w, handler' = [handler EXCEPT ![h] = w],
         w.since = 0, w.at \notin {"filling", "permitted"}, w.op # "checkout"
  PROVE  \A g \in Handlers : handler'[g] = handler[g] \/ HandlerRecent(handler[g])'
<1>1. handler'[h] = w /\ \A g \in Handlers : g # h => handler'[g] = handler[g]
  BY DEF Typed, HandlersTyped
<1>2. now' >= 0
  BY TimeAssumption DEF Typed, TablesTyped
<1>3. HandlerRecent(handler[h])'
  BY <1>1, <1>2 DEF HandlerRecent
<1> QED
  BY <1>1, <1>3

\* None is no operation.
LEMMA NothingIsNoCheckout == Nothing # "checkout"
  BY NothingAssumption DEF Operations, Requires

\* A handler that ends has no authority left to be recent.
LEMMA FinishRecent ==
  ASSUME Typed, Typed', NEW h \in Handlers, Finish(h)
  PROVE  \A g \in Handlers : handler'[g] = handler[g] \/ HandlerRecent(handler[g])'
<1>1. Free.since = 0 /\ Free.at \notin {"filling", "permitted"} /\ Free.op # "checkout"
  BY FreeTypes, NothingIsNoCheckout
<1>2. handler' = [handler EXCEPT ![h] = Free]
  BY DEF Finish
<1> QED
  BY <1>1, <1>2, QuietRecent

\* Nor has one that goes on to a step at which it is not judged.
LEMMA GoesRecent ==
  ASSUME Typed, Typed', NEW h \in Handlers, NEW at, NEW op, NEW on, Goes(h, at, op, on),
         at \notin {"filling", "permitted"}, op # "checkout"
  PROVE  \A g \in Handlers : handler'[g] = handler[g] \/ HandlerRecent(handler[g])'
<1> DEFINE w == Work(at, op, Nothing, 0, {}, on)
<1>1. w.since = 0 /\ w.at = at /\ w.op = op
  BY DEF Work
<1>2. handler' = [handler EXCEPT ![h] = w]
  BY DEF Goes
<1> HIDE DEF w
<1> QED
  BY <1>1, <1>2, QuietRecent

\* A step that changes neither time nor tables leaves the history as it is.
LEMMA SameHistory == Remember /\ UNCHANGED <<now, tables>> => UNCHANGED <<grant, lastHeld>>
  BY DEF Remember, tables

\* An authority from the cache is as recent as its entry,
LEMMA HitRecent ==
  ASSUME Typed, Typed', Remembered, Recent, Remember,
         NEW h \in Handlers, NEW u \in Users, Hit(h, u)
  PROVE  \A g \in Handlers : handler'[g] = handler[g] \/ HandlerRecent(handler[g])'
<1> DEFINE w == Work("permitted", Nothing, u, now, cache[u].permissions, Nothing)
<1>1. /\ w.since = now /\ w.at = "permitted" /\ w.op = Nothing /\ w.user = u
      /\ w.seen = cache[u].permissions
  BY DEF Work
<1>2. handler' = [handler EXCEPT ![h] = w] /\ UNCHANGED <<now, lastHeld>>
  BY SameHistory DEF Hit
<1> HIDE DEF w
<1>3. handler'[h] = w /\ \A g \in Handlers : g # h => handler'[g] = handler[g]
  BY <1>2 DEF Typed, HandlersTyped
<1>4. \A p \in w.seen : lastHeld[w.user][p] + TTL > w.since
  <2> TAKE p \in w.seen
  <2>1. cache[u] # Nothing /\ cache[u].until > now /\ p \in cache[u].permissions
    BY <1>1 DEF Hit, Cached
  <2>2. lastHeld[u][p] + TTL >= cache[u].until
    BY <2>1 DEF Recent, EntryRecent
  <2>3. cache[u].until \in Int /\ p \in Things
    BY <2>1 DEF Typed, CacheTyped, Optional, Entry, Things
  <2>4. lastHeld[u][p] \in Int /\ TTL \in Int /\ now \in Int
    BY <2>3, TimeAssumption DEF Remembered, Typed, TablesTyped
  <2> QED
    BY <1>1, <2>1, <2>2, <2>3, <2>4
<1>5. now \in Int
  BY DEF Typed, TablesTyped
<1>6. HandlerRecent(handler[h])'
  BY <1>1, <1>2, <1>3, <1>4, <1>5, NothingIsNoCheckout DEF HandlerRecent
<1> QED
  BY <1>3, <1>6

\* one from the query is of now,
LEMMA FillRecent ==
  ASSUME Typed, Typed', Remembered, Recent, Remember,
         NEW h \in Handlers, NEW u \in Users, Fill(h, u)
  PROVE  \A g \in Handlers : handler'[g] = handler[g] \/ HandlerRecent(handler[g])'
<1> DEFINE w == Work("filling", Nothing, u, now, Effective(u), Nothing)
<1>1. /\ w.since = now /\ w.at = "filling" /\ w.op = Nothing /\ w.user = u
      /\ w.seen = Effective(u)
  BY DEF Work
<1>2. handler' = [handler EXCEPT ![h] = w] /\ UNCHANGED <<now, lastHeld>>
  BY SameHistory DEF Fill
<1> HIDE DEF w
<1>3. handler'[h] = w /\ \A g \in Handlers : g # h => handler'[g] = handler[g]
  BY <1>2 DEF Typed, HandlersTyped
<1>4. \A p \in w.seen : lastHeld[w.user][p] = now
  BY <1>1, EffectiveTypes DEF Remembered, Powers, Things
<1>5. now \in Int
  BY DEF Typed, TablesTyped
<1>6. HandlerRecent(handler[h])'
  BY <1>1, <1>2, <1>3, <1>4, <1>5, NothingIsNoCheckout DEF HandlerRecent
<1> QED
  BY <1>3, <1>6

\* and the entry made of it dates from before the query.
LEMMA StoreRecent ==
  ASSUME Typed, Typed', Remembered, Recent, Remember, NEW h \in Handlers, Store(h)
  PROVE  /\ \A g \in Handlers : handler'[g] = handler[g] \/ HandlerRecent(handler[g])'
         /\ \A u \in Users : \/ cache'[u] = Nothing \/ cache'[u] = cache[u] \/ EntryRecent(u)'
<1> DEFINE w == handler[h]
           e == [until |-> w.since + TTL, permissions |-> w.seen]
<1>1. /\ w \in WorkRecord /\ w.at = "filling" /\ w.user \in Users /\ w.op # "checkout"
  BY ObjectTypes, NothingIsNoCheckout DEF Store, Typed, HandlersTyped, WorkOK, ObjectOK
<1>2. /\ handler'[h] = [w EXCEPT !.at = "permitted"] /\ UNCHANGED <<now, lastHeld>>
      /\ \A g \in Handlers : g # h => handler'[g] = handler[g]
  BY SameHistory DEF Store, Typed, HandlersTyped
<1>3. /\ handler'[h].at = "permitted" /\ handler'[h].op = w.op
      /\ handler'[h].user = w.user /\ handler'[h].since = w.since /\ handler'[h].seen = w.seen
  BY <1>1, <1>2 DEF WorkRecord
<1>4. \A p \in w.seen : /\ lastHeld[w.user][p] >= w.since /\ lastHeld[w.user][p] \in Int
  <2> TAKE p \in w.seen
  <2>1. p \in Things
    BY <1>1 DEF WorkRecord, Things
  <2> QED
    BY <1>1, <2>1 DEF Recent, HandlerRecent, Remembered
<1>5. w.since \in Nat /\ w.since <= now /\ TTL \in Nat \ {0}
  BY <1>1, TimeAssumption DEF Recent, HandlerRecent, WorkRecord
<1>6. HandlerRecent(handler[h])'
  BY <1>1, <1>2, <1>3, <1>4, <1>5 DEF HandlerRecent
<1>7. \A u \in Users : cache'[u] = IF u = w.user THEN e ELSE cache[u]
  BY DEF Store, Typed, CacheTyped
<1>8. e.until = w.since + TTL /\ e.permissions = w.seen
  OBVIOUS
<1> HIDE DEF e
<1>9. \A u \in Users : u = w.user => EntryRecent(u)'
  BY <1>1, <1>2, <1>4, <1>5, <1>7, <1>8 DEF EntryRecent
<1>10. \A u \in Users : \/ cache'[u] = cache[u] \/ EntryRecent(u)'
  BY <1>7, <1>9
<1> QED
  BY <1>2, <1>6, <1>10

\* active_grant_for_role has just seen the grant.
LEMMA RetrieveRecent ==
  ASSUME Typed, Typed', Remembered, Recent, Remember, NEW h \in Handlers, CheckoutRetrieve(h)
  PROVE  \A g \in Handlers : handler'[g] = handler[g] \/ HandlerRecent(handler[g])'
<1>1. PICK k \in DOMAIN grant : /\ grant[k].user = handler[h].user
                               /\ grant[k].role = CheckoutRole
                               /\ InWindow(k) /\ Takes(h, k)
  BY DEF CheckoutRetrieve
<1> DEFINE w == Work("holding", "checkout", handler[h].user, handler[h].since, {}, k)
<1>2. /\ w.since = handler[h].since /\ w.at = "holding" /\ w.op = "checkout"
      /\ w.user = handler[h].user /\ w.on = k
  BY DEF Work
<1>3. handler' = [handler EXCEPT ![h] = w]
  BY <1>1 DEF Takes
<1>4. UNCHANGED <<now, grant, lastHeld>>
  BY SameHistory DEF CheckoutRetrieve, tables
<1> HIDE DEF w
<1>5. handler'[h] = w /\ \A g \in Handlers : g # h => handler'[g] = handler[g]
  BY <1>3 DEF Typed, HandlersTyped
<1>6. /\ handler[h].user \in Users /\ handler[h].since \in 0..MaxTime /\ handler[h].since <= now
  BY ObjectTypes DEF CheckoutRetrieve, Permitted, Recent, HandlerRecent
<1>7. CheckoutRole \in Powers(handler[h].user)
  BY <1>1 DEF Powers, HeldRoles
<1>8. lastHeld[handler[h].user][CheckoutRole] = now
  BY <1>6, <1>7, RoleAssumption DEF Remembered, Things
<1>9. HandlerRecent(handler[h])'
  BY <1>1, <1>2, <1>4, <1>5, <1>6, <1>8 DEF HandlerRecent
<1> QED
  BY <1>5, <1>9

\* No step gives a handler an authority that is too old,
LEMMA HandlersRecent ==
  ASSUME Typed, Typed', Remembered, Recent, [Next]_vars
  PROVE  \A g \in Handlers : handler'[g] = handler[g] \/ HandlerRecent(handler[g])'
<1> DEFINE Goal == \A g \in Handlers : handler'[g] = handler[g] \/ HandlerRecent(handler[g])'
<1>1. ASSUME Next, NEW h \in Handlers,
             Authorize(h) \/ ChangeAccess(h) \/ BreakGlass(h) \/ Privileged(h) \/ Abandon(h)
      PROVE  Goal
  <2>1. Remember
    BY <1>1 DEF Next
  <2>2. CASE Authorize(h)
    BY <2>1, <2>2, HitRecent, FillRecent, StoreRecent DEF Authorize
  <2>3. CASE \/ Invalidate(h) \/ UpdateRoleCommit(h) \/ ActivateDenied(h) \/ ReviewCommit(h)
             \/ CheckoutCommit(h) \/ CheckinCommit(h) \/ Abandon(h)
    BY <2>3, FinishRecent
    DEF Invalidate, UpdateRoleCommit, ActivateDenied, ReviewCommit, CheckoutCommit,
        CheckinCommit, Abandon
  <2>4. CASE \/ ApproveCommit(h) \/ ExtendCommit(h) \/ RevokeCommit(h) \/ UpdateRoleInvalidate(h)
             \/ ActivateCommit(h) \/ \E a \in DOMAIN activation : ReviewRead(h, a)
    <3>1. CASE ApproveCommit(h) \/ ExtendCommit(h) \/ RevokeCommit(h)
      <4> PICK u \in Users, op \in {Nothing, "approve"} : Goes(h, "dirty", op, u)
        BY <3>1, GrantStep
      <4> QED
        BY GoesRecent, NothingIsNoCheckout
    <3>2. CASE UpdateRoleInvalidate(h)
      BY <3>2, GoesRecent DEF UpdateRoleInvalidate
    <3>3. CASE ActivateCommit(h)
      BY <3>3, GoesRecent, NothingIsNoCheckout DEF ActivateCommit
    <3>4. CASE \E a \in DOMAIN activation : ReviewRead(h, a)
      BY <3>4, GoesRecent DEF ReviewRead
    <3> QED
      BY <2>4, <3>1, <3>2, <3>3, <3>4
  <2>5. CASE \E c \in DOMAIN checkout : CheckinRotate(h, c)
    <3> PICK c \in DOMAIN checkout : CheckinRotate(h, c)
      BY <2>5
    <3> DEFINE w == Work("holding", "checkin", Nothing, 0, {}, c)
    <3>1. w.since = 0 /\ w.at = "holding" /\ w.op = "checkin"
      BY DEF Work
    <3>2. handler' = [handler EXCEPT ![h] = w]
      BY DEF CheckinRotate
    <3> HIDE DEF w
    <3> QED
      BY <3>1, <3>2, QuietRecent
  <2>6. CASE CheckoutRetrieve(h)
    BY <2>1, <2>6, RetrieveRecent
  <2> QED
    BY <1>1, <2>2, <2>3, <2>4, <2>5, <2>6 DEF ChangeAccess, BreakGlass, Privileged
<1>2. CASE Restart
  <2>1. \A g \in Handlers : handler'[g] = Free
    BY <1>2 DEF Restart
  <2>2. now' >= 0
    BY TimeAssumption DEF Typed, TablesTyped
  <2>3. \A g \in Handlers : HandlerRecent(handler[g])'
    BY <2>1, <2>2, FreeTypes, NothingIsNoCheckout DEF HandlerRecent
  <2> QED
    BY <2>3
<1>3. CASE \/ SweepRead \/ SweepCommit \/ SweepInvalidate \/ SweepFault \/ Tick
           \/ UNCHANGED vars
  BY <1>3 DEF SweepRead, SweepCommit, SweepInvalidate, SweepFault, Tick, vars
<1> QED
  BY <1>1, <1>2, <1>3 DEF Next, Step, Sweep

\* Of all steps only Store writes the cache; others make it forget.
LEMMA EntriesRecent ==
  ASSUME Typed, Typed', Remembered, Recent, [Next]_vars
  PROVE  \A u \in Users : \/ cache'[u] = Nothing \/ cache'[u] = cache[u] \/ EntryRecent(u)'
<1> DEFINE Goal == \A u \in Users : \/ cache'[u] = Nothing \/ cache'[u] = cache[u] \/ EntryRecent(u)'
<1>1. ASSUME NEW S, cache' = Without(S)
      PROVE  Goal
  BY <1>1 DEF Without
<1>2. ASSUME Next, NEW h \in Handlers,
             Authorize(h) \/ ChangeAccess(h) \/ BreakGlass(h) \/ Privileged(h) \/ Abandon(h)
      PROVE  Goal
  <2>1. CASE Store(h)
    BY <1>2, <2>1, StoreRecent DEF Next
  <2>2. CASE Invalidate(h) \/ UpdateRoleInvalidate(h)
    BY <1>1, <2>2 DEF Invalidate, UpdateRoleInvalidate
  <2>3. CASE UNCHANGED cache
    BY <2>3
  <2>4. Store(h) \/ Invalidate(h) \/ UpdateRoleInvalidate(h) \/ UNCHANGED cache
    BY <1>2 DEF Authorize, ChangeAccess, BreakGlass, Privileged, Hit, Fill, ApproveCommit,
       ExtendCommit, RevokeCommit, UpdateRoleCommit, ActivateCommit, ActivateDenied, ReviewRead,
       ReviewCommit, CheckoutRetrieve, CheckoutCommit, CheckinRotate, CheckinCommit, Abandon
  <2> QED
    BY <2>1, <2>2, <2>3, <2>4
<1>3. CASE SweepInvalidate
  BY <1>1, <1>3 DEF SweepInvalidate
<1>4. CASE Restart
  BY <1>4 DEF Restart
<1>5. CASE SweepRead \/ SweepCommit \/ SweepFault \/ Tick \/ UNCHANGED vars
  BY <1>5 DEF SweepRead, SweepCommit, SweepFault, Tick, vars
<1> QED
  BY <1>2, <1>3, <1>4, <1>5 DEF Next, Step, Sweep

\* A lease takes its grant and its start from the handler.
LEMMA LeasesRecent ==
  ASSUME Typed, Typed', Remembered, Recent, [Next]_vars
  PROVE  \A c \in DOMAIN checkout' :
            \/ /\ c \in DOMAIN checkout /\ checkout'[c].grant = checkout[c].grant
               /\ checkout'[c].since = checkout[c].since
            \/ LeaseRecent(c)'
<1> DEFINE Goal == \A c \in DOMAIN checkout' :
                      \/ /\ c \in DOMAIN checkout /\ checkout'[c].grant = checkout[c].grant
                         /\ checkout'[c].since = checkout[c].since
                      \/ LeaseRecent(c)'
<1>1. ASSUME Next, NEW h \in Handlers, CheckoutCommit(h)
      PROVE  Goal
  <2> DEFINE n == [grant |-> handler[h].on, since |-> handler[h].since, returned |-> FALSE]
  <2>1. handler[h].op = "checkout"
    BY <1>1 DEF CheckoutCommit, Doing
  <2>2. UNCHANGED <<now, grant, holds>> /\ Remember
    BY <1>1 DEF CheckoutCommit, Next
  <2>3. UNCHANGED <<grant, lastHeld>>
    BY <2>2 DEF Remember
  <2>4. checkout' = Append(checkout, n) /\ n.grant = handler[h].on /\ n.since = handler[h].since
    BY <1>1 DEF CheckoutCommit
  <2> HIDE DEF n
  <2>5. /\ handler[h].op = "checkout" /\ handler[h].on \in DOMAIN grant
        /\ handler[h].user \in Users
    BY <2>1, ObjectTypes
  <2>6. /\ lastHeld[handler[h].user][CheckoutRole] >= handler[h].since
        /\ grant[handler[h].on].user = handler[h].user
    BY <2>5 DEF Recent, HandlerRecent
  <2>7. checkout \in Seq(Lease)
    BY DEF Typed, TablesTyped
  <2>8. /\ Len(checkout) \in Nat /\ DOMAIN checkout = 1..Len(checkout)
        /\ DOMAIN checkout' = 1..Len(checkout) + 1
        /\ \A c \in 1..Len(checkout) : checkout'[c] = checkout[c]
        /\ checkout'[Len(checkout) + 1] = n
    BY <2>4, <2>7
  <2>9. \A c \in DOMAIN checkout' : checkout'[c] = n => LeaseRecent(c)'
    BY <2>3, <2>4, <2>6 DEF LeaseRecent
  <2>10. \A c \in DOMAIN checkout' : c \in DOMAIN checkout \/ c = Len(checkout) + 1
    BY <2>8
  <2> QED
    BY <2>8, <2>9, <2>10
<1>2. ASSUME NEW h \in Handlers, CheckinCommit(h)
      PROVE  Goal
  <2> DEFINE c == handler[h].on
             n == [checkout[c] EXCEPT !.returned = TRUE]
  <2>1. c \in DOMAIN checkout
    BY <1>2, ObjectTypes DEF CheckinCommit, Doing
  <2>2. checkout[c] \in Lease
    BY <2>1, ElementOf DEF Typed, TablesTyped
  <2>3. n.grant = checkout[c].grant /\ n.since = checkout[c].since
    BY <2>2 DEF Lease
  <2>4. checkout' = [checkout EXCEPT ![c] = n]
    BY <1>2 DEF CheckinCommit
  <2> HIDE DEF n
  <2> QED
    BY <2>1, <2>3, <2>4
<1>3. CASE UNCHANGED checkout
  BY <1>3
<1>4. UNCHANGED checkout \/ \E h \in Handlers : CheckoutCommit(h) \/ CheckinCommit(h)
  BY DEF Next, Step, Authorize, ChangeAccess, BreakGlass, Privileged, Sweep, vars, tables,
     Hit, Fill, Store, ApproveCommit, ExtendCommit, RevokeCommit, Invalidate, UpdateRoleInvalidate,
     UpdateRoleCommit, ActivateCommit, ActivateDenied, ReviewRead, ReviewCommit, CheckoutRetrieve,
     CheckinRotate, SweepRead, SweepCommit, SweepInvalidate, SweepFault, Tick, Abandon, Restart
<1>5. CASE Next
  BY <1>1, <1>2, <1>3, <1>4, <1>5
<1>6. CASE UNCHANGED vars
  BY <1>3, <1>6 DEF vars, tables
<1> QED
  BY <1>5, <1>6

\* there is none at the start,
LEMMA InitRecent == Init => Recent
<1> SUFFICES ASSUME Init PROVE Recent
  OBVIOUS
<1>1. now = 0 /\ \A h \in Handlers : handler[h] = Free
  BY DEF Init
<1>2. \A h \in Handlers : HandlerRecent(handler[h])
  BY <1>1, FreeTypes, NothingIsNoCheckout DEF HandlerRecent
<1>3. \A u \in Users : EntryRecent(u)
  BY DEF Init, EntryRecent
<1>4. DOMAIN checkout = {}
  BY DEF Init
<1> QED
  BY <1>2, <1>3, <1>4 DEF Recent

\* so authorities stay recent.
LEMMA StepRecent ==
  ASSUME Typed, Remembered, Recent, [Next]_vars
  PROVE  Typed' /\ Remembered' /\ Recent'
<1>1. Typed' /\ Grows /\ Remembered' /\ Later
  BY StepTyped, StepGrows, StepRemembered
<1>2. now \in Nat /\ now' \in Nat /\ now' >= now
  BY StepTime, TimeAssumption DEF Typed, TablesTyped
<1>3. now' \in Int
  BY <1>2
<1> QED
  BY <1>1, <1>2, <1>3, HandlersRecent, EntriesRecent, LeasesRecent, RecentKept

-----------------------------------------------------------------------------
(* Check-in: the vault first, the row after. *)

\* Who is about to close a checkout has had its credential rotated.
Rotating == \A h \in Handlers : handler[h].op = "checkin" => handler[h].on \in rotated

\* A checkout is closed only by who has rotated its credential.
LEMMA RotationStep ==
  ASSUME Typed, Typed', [Next]_vars, Rotating, ReturnedIsRotated
  PROVE  Rotating' /\ ReturnedIsRotated'
<1> DEFINE Goal == Rotating' /\ ReturnedIsRotated'
<1>0. Nothing # "checkin"
  BY NothingAssumption
<1>1. ASSUME rotated \subseteq rotated', UNCHANGED checkout, NEW h \in Handlers, NEW w,
             handler' = [handler EXCEPT ![h] = w], w.op = "checkin" => w.on \in rotated'
      PROVE  Goal
  <2>1. \A g \in Handlers : handler'[g] = IF g = h THEN w ELSE handler[g]
    BY <1>1 DEF Typed, HandlersTyped
  <2> QED
    BY <1>1, <2>1 DEF Rotating, ReturnedIsRotated
<1>2. ASSUME NEW h \in Handlers, Finish(h), UNCHANGED <<checkout, rotated>>
      PROVE  Goal
  BY <1>0, <1>1, <1>2, FreeTypes DEF Finish
<1>3. ASSUME NEW h \in Handlers, NEW at, NEW op, NEW on, Goes(h, at, op, on), op # "checkin",
             UNCHANGED <<checkout, rotated>>
      PROVE  Goal
  <2> DEFINE w == Work(at, op, Nothing, 0, {}, on)
  <2>1. w.op = op /\ handler' = [handler EXCEPT ![h] = w]
    BY <1>3 DEF Work, Goes
  <2> HIDE DEF w
  <2> QED
    BY <1>1, <1>3, <2>1
<1>4. ASSUME NEW h \in Handlers, Authorize(h)
      PROVE  Goal
  <2>1. CASE \E u \in Users : Hit(h, u) \/ Fill(h, u)
    <3> PICK u \in Users : Hit(h, u) \/ Fill(h, u)
      BY <2>1
    <3> DEFINE w == IF Hit(h, u)
                    THEN Work("permitted", Nothing, u, now, cache[u].permissions, Nothing)
                    ELSE Work("filling", Nothing, u, now, Effective(u), Nothing)
    <3>1. w.op = Nothing
      BY DEF Work
    <3>2. handler' = [handler EXCEPT ![h] = w] /\ UNCHANGED <<checkout, rotated>>
      BY DEF Hit, Fill, tables
    <3> HIDE DEF w
    <3> QED
      BY <1>0, <1>1, <3>1, <3>2
  <2>2. CASE Store(h)
    <3> DEFINE w == [handler[h] EXCEPT !.at = "permitted"]
    <3>1. handler[h] \in WorkRecord
      BY ObjectTypes
    <3>2. w.op = handler[h].op /\ w.on = handler[h].on
      BY <3>1 DEF WorkRecord
    <3>3. handler' = [handler EXCEPT ![h] = w] /\ UNCHANGED <<checkout, rotated>>
      BY <2>2 DEF Store, tables
    <3> HIDE DEF w
    <3> QED
      BY <1>1, <3>2, <3>3 DEF Rotating
  <2> QED
    BY <1>4, <2>1, <2>2 DEF Authorize
<1>5. ASSUME NEW h \in Handlers, ChangeAccess(h)
      PROVE  Goal
  <2>1. CASE ApproveCommit(h) \/ ExtendCommit(h) \/ RevokeCommit(h)
    <3>1. UNCHANGED <<checkout, rotated>>
      BY <2>1 DEF ApproveCommit, ExtendCommit, RevokeCommit
    <3>2. PICK u \in Users, op \in {Nothing, "approve"} : Goes(h, "dirty", op, u)
      BY <2>1, GrantStep
    <3> QED
      BY <1>0, <1>3, <3>1, <3>2
  <2>2. CASE UpdateRoleInvalidate(h)
    BY <1>3, <2>2 DEF UpdateRoleInvalidate, tables
  <2>3. CASE Invalidate(h) \/ UpdateRoleCommit(h)
    BY <1>2, <2>3 DEF Invalidate, UpdateRoleCommit, tables
  <2> QED
    BY <1>5, <2>1, <2>2, <2>3 DEF ChangeAccess
<1>6. ASSUME NEW h \in Handlers, BreakGlass(h)
      PROVE  Goal
  <2>1. CASE ActivateCommit(h)
    BY <1>0, <1>3, <2>1 DEF ActivateCommit
  <2>2. CASE \E a \in DOMAIN activation : ReviewRead(h, a)
    BY <1>3, <2>2 DEF ReviewRead, tables
  <2>3. CASE ActivateDenied(h) \/ ReviewCommit(h)
    BY <1>2, <2>3 DEF ActivateDenied, ReviewCommit, tables
  <2> QED
    BY <1>6, <2>1, <2>2, <2>3 DEF BreakGlass
<1>7. ASSUME NEW h \in Handlers, CheckoutRetrieve(h)
      PROVE  Goal
  <2> PICK k \in DOMAIN grant : Takes(h, k)
    BY <1>7 DEF CheckoutRetrieve
  <2> DEFINE w == Work("holding", "checkout", handler[h].user, handler[h].since, {}, k)
  <2>1. w.op = "checkout"
    BY DEF Work
  <2>2. handler' = [handler EXCEPT ![h] = w] /\ UNCHANGED <<checkout, rotated>>
    BY <1>7 DEF CheckoutRetrieve, Takes, tables
  <2> HIDE DEF w
  <2> QED
    BY <1>1, <2>1, <2>2
<1>8. ASSUME NEW h \in Handlers, CheckoutCommit(h)
      PROVE  Goal
  <2> DEFINE n == [grant |-> handler[h].on, since |-> handler[h].since, returned |-> FALSE]
  <2>1. checkout' = Append(checkout, n) /\ ~n.returned /\ UNCHANGED rotated
    BY <1>8 DEF CheckoutCommit
  <2> HIDE DEF n
  <2>2. checkout \in Seq(Lease)
    BY DEF Typed, TablesTyped
  <2>3. /\ Len(checkout) \in Nat /\ DOMAIN checkout = 1..Len(checkout)
        /\ DOMAIN checkout' = 1..Len(checkout) + 1
        /\ \A c \in 1..Len(checkout) : checkout'[c] = checkout[c]
        /\ checkout'[Len(checkout) + 1] = n
    BY <2>1, <2>2
  <2>4. \A c \in DOMAIN checkout' : c \in DOMAIN checkout \/ c = Len(checkout) + 1
    BY <2>3
  <2>5. ReturnedIsRotated'
    BY <2>1, <2>3, <2>4 DEF ReturnedIsRotated
  <2>6. \A g \in Handlers : handler'[g] = handler[g] \/ handler'[g] = Free
    BY <1>8 DEF CheckoutCommit, Finish, Typed, HandlersTyped
  <2>7. Rotating'
    BY <1>0, <2>1, <2>6, FreeTypes DEF Rotating
  <2> QED
    BY <2>5, <2>7
<1>9. ASSUME NEW h \in Handlers, NEW c \in DOMAIN checkout, CheckinRotate(h, c)
      PROVE  Goal
  <2> DEFINE w == Work("holding", "checkin", Nothing, 0, {}, c)
  <2>1. w.on = c
    BY DEF Work
  <2>2. handler' = [handler EXCEPT ![h] = w] /\ UNCHANGED checkout /\ rotated' = rotated \cup {c}
    BY <1>9 DEF CheckinRotate, tables
  <2> HIDE DEF w
  <2> QED
    BY <1>1, <2>1, <2>2
<1>10. ASSUME NEW h \in Handlers, CheckinCommit(h)
       PROVE  Goal
  <2> DEFINE c == handler[h].on
             n == [checkout[c] EXCEPT !.returned = TRUE]
  <2>1. c \in DOMAIN checkout /\ c \in rotated
    BY <1>10, ObjectTypes DEF CheckinCommit, Doing, Rotating
  <2>2. checkout' = [checkout EXCEPT ![c] = n] /\ UNCHANGED rotated
    BY <1>10 DEF CheckinCommit
  <2> HIDE DEF n
  <2>3. ReturnedIsRotated'
    BY <2>1, <2>2 DEF ReturnedIsRotated
  <2>4. \A g \in Handlers : handler'[g] = handler[g] \/ handler'[g] = Free
    BY <1>10 DEF CheckinCommit, Finish, Typed, HandlersTyped
  <2>5. Rotating'
    BY <1>0, <2>2, <2>4, FreeTypes DEF Rotating
  <2> QED
    BY <2>3, <2>5
<1>11. ASSUME NEW h \in Handlers, Abandon(h)
       PROVE  Goal
  BY <1>2, <1>11 DEF Abandon, tables
<1>12. CASE Restart
  BY <1>0, <1>12, FreeTypes DEF Restart, tables, Rotating, ReturnedIsRotated
<1>13. CASE \/ SweepRead \/ SweepCommit \/ SweepInvalidate \/ SweepFault \/ Tick
            \/ UNCHANGED vars
  <2>1. UNCHANGED <<handler, checkout, rotated>>
    BY <1>13 DEF SweepRead, SweepCommit, SweepInvalidate, SweepFault, Tick, vars, tables
  <2> QED
    BY <2>1 DEF Rotating, ReturnedIsRotated
<1> QED
  BY <1>4, <1>5, <1>6, <1>7, <1>8, <1>9, <1>10, <1>11, <1>12, <1>13
  DEF Next, Step, Sweep, Privileged

-----------------------------------------------------------------------------
(* Break-glass: the grant and its review item are one commit. *)

\* An activation keeps its grant; a verdict is given with its audit event.
Reviews ==
    \A a \in DOMAIN activation :
        /\ activation'[a].grant = activation[a].grant
        /\ \/ activation'[a].verdict = activation[a].verdict
           \/ <<a, activation'[a].verdict>> \in verdicts'

\* Emergency grants keep their review items when new ones come with one.
LEMMA EmergencyKept ==
  ASSUME EmergencyIsReviewed, Grows, Reviews, verdicts \subseteq verdicts',
         \A g \in DOMAIN grant' \ DOMAIN grant :
            grant'[g].emergency => \E a \in DOMAIN activation' : activation'[a].grant = g,
         \A a \in DOMAIN activation' \ DOMAIN activation : activation'[a].verdict = "PENDING"
  PROVE  EmergencyIsReviewed'
<1>1. ASSUME NEW g \in DOMAIN grant', grant'[g].emergency
      PROVE  \E a \in DOMAIN activation' : activation'[a].grant = g
  <2>1. CASE g \in DOMAIN grant
    <3>1. grant[g].emergency
      BY <1>1, <2>1 DEF Grows
    <3>2. PICK a \in DOMAIN activation : activation[a].grant = g
      BY <2>1, <3>1 DEF EmergencyIsReviewed
    <3> QED
      BY <3>2 DEF Grows, Reviews
  <2> QED
    BY <1>1, <2>1
<1>2. ASSUME NEW a \in DOMAIN activation', activation'[a].verdict # "PENDING"
      PROVE  <<a, activation'[a].verdict>> \in verdicts'
  <2>1. a \in DOMAIN activation
    BY <1>2
  <2> QED
    BY <1>2, <2>1 DEF Reviews, EmergencyIsReviewed
<1> QED
  BY <1>1, <1>2 DEF EmergencyIsReviewed

\* A step that makes no emergency grant and writes no verdict keeps them too.
LEMMA SameReviews ==
  ASSUME EmergencyIsReviewed, Grows, UNCHANGED <<activation, verdicts>>,
         \A g \in DOMAIN grant' \ DOMAIN grant : ~grant'[g].emergency
  PROVE  EmergencyIsReviewed'
<1>1. Reviews
  BY DEF Reviews
<1> QED
  BY <1>1, EmergencyKept

\* An ordinary approval makes no emergency grant.
LEMMA ApproveIsNoEmergency ==
  ASSUME Typed, NEW h \in Handlers, ApproveCommit(h) \/ ExtendCommit(h) \/ RevokeCommit(h)
  PROVE  \A g \in DOMAIN grant' \ DOMAIN grant : ~grant'[g].emergency
<1>1. CASE ApproveCommit(h)
  <2>1. PICK a \in Approvals : grant' = NewGrant(a.user, a.role, a.hours, FALSE)
    BY <1>1 DEF ApproveCommit
  <2>2. a.user \in Users /\ a.role \in Roles /\ a.hours \in Nat
    BY ApprovalAssumption
  <2> DEFINE n == [user |-> a.user, role |-> a.role, start |-> now, end |-> now + a.hours,
                   emergency |-> FALSE, status |-> "ACTIVE"]
  <2>3. n \in Grant /\ grant' = Append(grant, n) /\ ~n.emergency
    BY <2>1, <2>2, TimeAssumption DEF Grant, NewGrant, Typed, TablesTyped
  <2> HIDE DEF n
  <2> QED
    BY <2>3, NewGrantTypes
<1>2. CASE ExtendCommit(h) \/ RevokeCommit(h)
  <2>1. DOMAIN grant' = DOMAIN grant
    BY <1>2 DEF ExtendCommit, RevokeCommit
  <2> QED
    BY <2>1
<1> QED
  BY <1>1, <1>2

\* An activation makes the grant and its review item in one commit,
LEMMA ActivateReviewed ==
  ASSUME Typed, EmergencyIsReviewed, NEW h \in Handlers, ActivateCommit(h)
  PROVE  EmergencyIsReviewed'
<1>1. PICK role \in Roles :
         /\ grant' = NewGrant(handler[h].user, role, EmergencyHours, TRUE)
         /\ activation' = Append(activation, [grant |-> Len(grant) + 1, verdict |-> "PENDING"])
  BY DEF ActivateCommit
<1>2. handler[h].user \in Users /\ EmergencyHours \in Nat
  BY ObjectTypes, TimeAssumption DEF ActivateCommit, Permitted
<1> DEFINE e == [user |-> handler[h].user, role |-> role, start |-> now,
                 end |-> now + EmergencyHours, emergency |-> TRUE, status |-> "ACTIVE"]
           n == [grant |-> Len(grant) + 1, verdict |-> "PENDING"]
<1>3. e \in Grant /\ grant' = Append(grant, e)
  BY <1>1, <1>2, TimeAssumption DEF Grant, NewGrant, Typed, TablesTyped
<1>4. n.grant = Len(grant) + 1 /\ n.verdict = "PENDING" /\ activation' = Append(activation, n)
  BY <1>1
<1> HIDE DEF e, n
<1>5. DOMAIN grant' = DOMAIN grant \cup {Len(grant) + 1}
  BY <1>3, NewGrantTypes
<1>6. activation \in Seq(Activation)
  BY DEF Typed, TablesTyped
<1>7. /\ Len(activation) \in Nat /\ DOMAIN activation = 1..Len(activation)
      /\ DOMAIN activation' = 1..Len(activation) + 1
      /\ \A a \in 1..Len(activation) : activation'[a] = activation[a]
      /\ activation'[Len(activation) + 1] = n
  BY <1>4, <1>6
<1>8. Len(activation) + 1 \in DOMAIN activation'
  BY <1>7
<1>9. \A a \in DOMAIN activation' : a \in DOMAIN activation \/ a = Len(activation) + 1
  BY <1>7
<1>10. Grows
  BY ActivateTyped
<1>11. Reviews
  BY <1>7 DEF Reviews
<1>12. UNCHANGED verdicts
  BY DEF ActivateCommit
<1>13. \A g \in DOMAIN grant' \ DOMAIN grant : \E a \in DOMAIN activation' : activation'[a].grant = g
  BY <1>4, <1>5, <1>7, <1>8
<1>14. \A a \in DOMAIN activation' \ DOMAIN activation : activation'[a].verdict = "PENDING"
  BY <1>4, <1>7, <1>9
<1> QED
  BY <1>10, <1>11, <1>12, <1>13, <1>14, EmergencyKept

\* and a verdict is written with its audit event.
LEMMA ReviewReviewed ==
  ASSUME Typed, EmergencyIsReviewed, NEW h \in Handlers, ReviewCommit(h)
  PROVE  EmergencyIsReviewed'
<1> DEFINE o == handler[h].on
<1>1. PICK v \in {"JUSTIFIED", "ESCALATED"} :
         /\ activation' = [activation EXCEPT ![o].verdict = v]
         /\ verdicts' = verdicts \cup {<<o, v>>}
  BY DEF ReviewCommit
<1>2. o \in DOMAIN activation
  BY ObjectTypes DEF ReviewCommit, Doing
<1>3. activation[o] \in Activation
  BY <1>2, ElementOf DEF Typed, TablesTyped
<1> DEFINE n == [activation[o] EXCEPT !.verdict = v]
<1>4. n.grant = activation[o].grant /\ n.verdict = v /\ activation' = [activation EXCEPT ![o] = n]
  BY <1>1, <1>3 DEF Activation
<1> HIDE DEF n
<1>5. DOMAIN activation' = DOMAIN activation
  BY <1>4
<1>6. \A a \in DOMAIN activation : activation'[a] = IF a = o THEN n ELSE activation[a]
  BY <1>4
<1>7. Reviews
  BY <1>1, <1>4, <1>6 DEF Reviews
<1>8. Grows /\ UNCHANGED grant
  BY ReviewTyped DEF ReviewCommit
<1> QED
  BY <1>1, <1>5, <1>7, <1>8, EmergencyKept

\* At the start there is nothing to review and nothing checked out.
LEMMA InitReviewed == Init => EmergencyIsReviewed /\ Rotating /\ ReturnedIsRotated
<1> SUFFICES ASSUME Init PROVE EmergencyIsReviewed /\ Rotating /\ ReturnedIsRotated
  OBVIOUS
<1>1. DOMAIN activation = {} /\ DOMAIN checkout = {} /\ grant = InitialGrants
  BY DEF Init
<1>2. \A h \in Handlers : handler[h].op # "checkin"
  BY FreeTypes, NothingAssumption DEF Init
<1> QED
  BY <1>1, <1>2, GrantAssumption DEF EmergencyIsReviewed, Rotating, ReturnedIsRotated

\* Every step keeps emergency grants reviewed.
LEMMA ReviewedStep ==
  ASSUME Typed, Grows, EmergencyIsReviewed, [Next]_vars
  PROVE  EmergencyIsReviewed'
<1>1. ASSUME NEW h \in Handlers, ApproveCommit(h) \/ ExtendCommit(h) \/ RevokeCommit(h)
      PROVE  EmergencyIsReviewed'
  <2>1. UNCHANGED <<activation, verdicts>>
    BY <1>1 DEF ApproveCommit, ExtendCommit, RevokeCommit
  <2> QED
    BY <1>1, <2>1, ApproveIsNoEmergency, SameReviews
<1>2. ASSUME UNCHANGED <<activation, verdicts>>, DOMAIN grant' = DOMAIN grant
      PROVE  EmergencyIsReviewed'
  BY <1>2, SameReviews
<1>3. CASE UNCHANGED tables \/ (UNCHANGED <<grant, activation, verdicts>>)
  BY <1>2, <1>3 DEF tables
<1>4. ASSUME NEW h \in Handlers, Authorize(h) \/ Abandon(h)
      PROVE  EmergencyIsReviewed'
  BY <1>3, <1>4 DEF Authorize, Hit, Fill, Store, Abandon
<1>5. ASSUME NEW h \in Handlers, ChangeAccess(h)
      PROVE  EmergencyIsReviewed'
  BY <1>1, <1>3, <1>5 DEF ChangeAccess, Invalidate, UpdateRoleInvalidate, UpdateRoleCommit
<1>6. ASSUME NEW h \in Handlers, BreakGlass(h)
      PROVE  EmergencyIsReviewed'
  BY <1>3, <1>6, ActivateReviewed, ReviewReviewed DEF BreakGlass, ActivateDenied, ReviewRead
<1>7. ASSUME NEW h \in Handlers, Privileged(h)
      PROVE  EmergencyIsReviewed'
  BY <1>3, <1>7 DEF Privileged, CheckoutRetrieve, CheckoutCommit, CheckinCommit, CheckinRotate
<1>8. CASE SweepCommit
  BY <1>2, <1>8 DEF SweepCommit
<1>9. CASE \/ SweepRead \/ SweepInvalidate \/ SweepFault \/ Tick \/ Restart \/ UNCHANGED vars
  BY <1>3, <1>9 DEF SweepRead, SweepInvalidate, SweepFault, Tick, Restart, vars
<1> QED
  BY <1>4, <1>5, <1>6, <1>7, <1>8, <1>9 DEF Next, Step, Sweep

-----------------------------------------------------------------------------
(* The specification. *)

IInv == Typed /\ Remembered /\ Recent /\ Rotating /\ ReturnedIsRotated /\ EmergencyIsReviewed

\* So the invariant holds.
LEMMA Inductive == Spec => []IInv
<1>1. Init => IInv
  BY InitTyped, InitRemembered, InitRecent, InitReviewed DEF IInv
<1>2. IInv /\ [Next]_vars => IInv'
  <2> SUFFICES ASSUME IInv, [Next]_vars PROVE IInv'
    OBVIOUS
  <2>1. Typed' /\ Remembered' /\ Recent'
    BY StepRecent DEF IInv
  <2>2. Rotating' /\ ReturnedIsRotated'
    BY <2>1, RotationStep DEF IInv
  <2>3. EmergencyIsReviewed'
    BY StepGrows, ReviewedStep DEF IInv
  <2> QED
    BY <2>1, <2>2, <2>3 DEF IInv
<1> QED
  BY <1>1, <1>2, PTL DEF Spec

\* Whatever handlers, sweep and restarts interleave, every row a handler, an
\* activation, a checkout or the sweep refers to exists (modules/access,
\* modules/pam, core/security.py).
THEOREM TypeCorrect == Spec => []TypeOK
<1>1. IInv => TypeOK
  BY TypedIsTypeOK DEF IInv
<1> QED
  BY <1>1, Inductive, PTL

\* The authority require_permission grants was held less than TTL before the
\* request came: what the cache keeps is as old as the moment its reader began,
\* for every number of users, handlers and grants and every TTL
\* (get_effective_permissions and its cache, core/security.py).
THEOREM AuthorityRecent == Spec => []AuthorityIsRecent
<1>1. IInv => AuthorityIsRecent
  BY DEF IInv, Recent, HandlerRecent, AuthorityIsRecent
<1> QED
  BY <1>1, Inductive, PTL

\* A credential leaves the vault, and a checkout is recorded, only for a user
\* who held the administrator role while the request was served
\* (create_checkout, modules/pam).
THEOREM CheckoutIsLive == Spec => []CheckoutNeedsLiveGrant
<1>1. IInv => CheckoutNeedsLiveGrant
  BY DEF IInv, Recent, HandlerRecent, LeaseRecent, CheckoutNeedsLiveGrant, Doing
<1> QED
  BY <1>1, Inductive, PTL

\* A closed checkout had its credential rotated, wherever the process stops and
\* however check-ins race (checkin, modules/pam).
THEOREM ClosedIsRotated == Spec => []ReturnedIsRotated
<1>1. IInv => ReturnedIsRotated
  BY DEF IInv
<1> QED
  BY <1>1, Inductive, PTL

\* No emergency grant without its review item, no verdict without its audit
\* event (activate and record_verdict, modules/breakglass).
THEOREM EmergencyReviewed == Spec => []EmergencyIsReviewed
<1>1. IInv => EmergencyIsReviewed
  BY DEF IInv
<1> QED
  BY <1>1, Inductive, PTL
=============================================================================
