-------------------------- MODULE GrantEnforcement --------------------------
(***************************************************************************)
(* What a grant allows, and for how long: the permission resolver and its  *)
(* cache (core/security.py), the operations that change grants and roles   *)
(* and must make the cache forget (modules/access), break-glass, privileged *)
(* credential checkout (modules/pam), and the sweep of expired grants.     *)
(*                                                                         *)
(* A request first passes require_permission: it takes the cached set of   *)
(* its user or reads a new one, which it stores after the query.  Between  *)
(* any two awaits of a handler every other handler and the sweep may run.  *)
(* How a request for access comes to be approved is in AccessRequests;     *)
(* here its final approval is one operation.  Time is counted in units of  *)
(* which TTL is the life of a cached set.                                  *)
(***************************************************************************)
EXTENDS Integers, Sequences

CONSTANTS
    Users, Handlers, Roles, Permissions,
    InitialGrants,       \* grants in the database at the start
    InitialPermissions,  \* role_permissions at the start
    RoleEdits,           \* role and new permission set of PATCH /roles
    Approvals,           \* user, role and hours of what may be approved
    Eligible,            \* break_glass_eligibility: <<user, role>>
    CheckoutRole,        \* CHECKOUT_GRANT_ROLE
    TTL,                 \* PERMISSION_CACHE_TTL_SECONDS
    EmergencyHours,      \* BREAK_GLASS_DURATION_HOURS
    ExtensionCap,        \* EXTENSION_CAP_HOURS
    Nothing,             \* None
    MaxTime, MaxRequests    \* bounds

\* The permission the route of each operation declares.
Requires == [approve     |-> "APPROVE_ACCESS",
             revoke      |-> "GRANT_REVOKE",
             update_role |-> "ROLE_MANAGE",
             activate    |-> "BREAKGLASS_ELIGIBLE",
             review      |-> "BREAKGLASS_REVIEW",
             checkout    |-> "PAM_CHECKOUT"]

Optional(S) == S \cup {Nothing}

Grant == [user : Users, role : Roles, start : Nat, end : Int, emergency : BOOLEAN,
          status : {"ACTIVE", "EXPIRED", "REVOKED"}]

Operations == DOMAIN Requires

ASSUME OperationAssumption == \A op \in Operations : Requires[op] \in Permissions
ASSUME GrantAssumption     == /\ InitialGrants \in Seq(Grant)
                              /\ \A g \in DOMAIN InitialGrants : ~InitialGrants[g].emergency
ASSUME RoleAssumption      == /\ InitialPermissions \in [Roles -> SUBSET Permissions]
                              /\ RoleEdits \subseteq Roles \X SUBSET Permissions
                              /\ CheckoutRole \in Roles
                              /\ Roles \cap Permissions = {}
ASSUME ApprovalAssumption  == /\ Approvals \subseteq [user : Users, role : Roles, hours : Nat]
                              /\ Eligible \subseteq Users \X Roles
ASSUME TimeAssumption      == /\ TTL \in Nat \ {0}
                              /\ {EmergencyHours, ExtensionCap, MaxTime} \subseteq Nat
ASSUME BoundAssumption     == MaxRequests \in Nat
ASSUME NothingAssumption   == /\ Nothing \notin Users \cup Operations \cup {"checkin"}
                              /\ Nothing \notin [until : Nat, permissions : SUBSET Permissions]

VARIABLES
    now,
    grant,        \* access_grants
    holds,        \* role_permissions
    cache,        \* _permission_cache, of this process
    handler,      \* what each request handler has read
    sweep,        \* the running sweep: grants to expire, user to invalidate
    activation,   \* break_glass_activations
    verdicts,     \* BREAK_GLASS_REVIEWED audit rows
    checkout,     \* credential_checkouts
    rotated,      \* checkouts whose credential the vault has rotated
    requests,     \* how many requests have come
    lastHeld      \* history: when a user last had a role or permission

tables == <<grant, holds, activation, verdicts, checkout>>
vars   == <<now, tables, cache, handler, sweep, rotated, requests, lastHeld>>

Work(at, op, u, since, seen, on) ==
    [at |-> at, op |-> op, user |-> u, since |-> since, seen |-> seen, on |-> on]
Free == Work("free", Nothing, Nothing, 0, {}, Nothing)
Idle == [due |-> {}, drop |-> Nothing]

-----------------------------------------------------------------------------
(* What a user holds. *)

InWindow(g) == grant[g].status = "ACTIVE" /\ grant[g].start <= now /\ now <= grant[g].end

HeldRoles(u) == {grant[g].role : g \in {k \in DOMAIN grant : InWindow(k) /\ grant[k].user = u}}

\* get_effective_permissions
Effective(u) == UNION {holds[r] : r \in HeldRoles(u)}

Powers(u) == HeldRoles(u) \cup Effective(u)

\* The holders a change of a role invalidates: their window does not matter.
GranteesOf(r) == {grant[g].user : g \in {k \in DOMAIN grant :
                                            grant[k].role = r /\ grant[k].status = "ACTIVE"}}

Without(users) == [u \in Users |-> IF u \in users THEN Nothing ELSE cache[u]]

Init ==
    /\ now = 0
    /\ grant = InitialGrants
    /\ holds = InitialPermissions
    /\ cache = [u \in Users |-> Nothing]
    /\ handler = [h \in Handlers |-> Free]
    /\ sweep = Idle
    /\ activation = <<>>
    /\ verdicts = {}
    /\ checkout = <<>>
    /\ rotated = {}
    /\ requests = 0
    /\ lastHeld = [u \in Users |-> [p \in Roles \cup Permissions |->
                      IF p \in Powers(u) THEN 0 ELSE -1]]

-----------------------------------------------------------------------------
(* require_permission. *)

Cached(u) == cache[u] # Nothing /\ cache[u].until > now

Arrives(h) ==
    /\ handler[h] = Free
    /\ requests < MaxRequests
    /\ requests' = requests + 1

\* A cached set is used as it is.
Hit(h, u) ==
    /\ Arrives(h)
    /\ Cached(u)
    /\ handler' = [handler EXCEPT ![h] =
                      Work("permitted", Nothing, u, now, cache[u].permissions, Nothing)]
    /\ UNCHANGED <<now, tables, cache, sweep, rotated>>

Fill(h, u) ==
    /\ Arrives(h)
    /\ ~Cached(u)
    /\ handler' = [handler EXCEPT ![h] =
                      Work("filling", Nothing, u, now, Effective(u), Nothing)]
    /\ UNCHANGED <<now, tables, cache, sweep, rotated>>

\* The entry lives from the moment before the query.
StoreFromNow(h) ==                      \* mutant: it lives from when it is stored
    /\ handler[h].at = "filling"
    /\ cache' = [cache EXCEPT ![handler[h].user] =
                    [until |-> now + TTL, permissions |-> handler[h].seen]]
    /\ handler' = [handler EXCEPT ![h].at = "permitted"]
    /\ UNCHANGED <<now, tables, sweep, rotated, requests>>
Store(h) ==
    /\ handler[h].at = "filling"
    /\ cache' = [cache EXCEPT ![handler[h].user] =
                    [until |-> handler[h].since + TTL, permissions |-> handler[h].seen]]
    /\ handler' = [handler EXCEPT ![h].at = "permitted"]
    /\ UNCHANGED <<now, tables, sweep, rotated, requests>>

\* The request may have been for any operation whose permission is in the set.
Permitted(h, op) == handler[h].at = "permitted" /\ Requires[op] \in handler[h].seen
Doing(h, at, op) == handler[h].at = at /\ handler[h].op = op

\* A handler keeps what it still needs.
Goes(h, at, op, on) == handler' = [handler EXCEPT ![h] = Work(at, op, Nothing, 0, {}, on)]
Finish(h)       == handler' = [handler EXCEPT ![h] = Free]

-----------------------------------------------------------------------------
(* Grants and roles.  What changes a grant commits first and invalidates   *)
(* the cache of the grantee after; a change of a role does it the other    *)
(* way round.                                                              *)

NewGrant(u, role, hours, emergency) ==
    Append(grant, [user |-> u, role |-> role, start |-> now, end |-> now + hours,
                   emergency |-> emergency, status |-> "ACTIVE"])

\* The final approval of a request (apply_decision).
ApproveCommit(h) ==
    /\ Permitted(h, "approve")
    /\ \E a \in Approvals : /\ grant' = NewGrant(a.user, a.role, a.hours, FALSE)
                            /\ Goes(h, "dirty", "approve", a.user)
    /\ UNCHANGED <<now, holds, activation, verdicts, checkout, cache, sweep, rotated, requests>>

\* The final approval of an extension: the new end counts from the old one
\* and is cut at ExtensionCap after the start.
ExtendCommit(h) ==
    /\ Permitted(h, "approve")
    /\ \E g \in DOMAIN grant, a \in Approvals :
          LET longer == grant[g].end + a.hours
              cap    == grant[g].start + ExtensionCap
          IN  /\ grant[g].status = "ACTIVE"
              /\ a.user = grant[g].user /\ a.role = grant[g].role
              /\ grant' = [grant EXCEPT ![g].end = IF longer < cap THEN longer ELSE cap]
              /\ Goes(h, "dirty", "approve", a.user)
    /\ UNCHANGED <<now, holds, activation, verdicts, checkout, cache, sweep, rotated, requests>>

RevokeCommit(h) ==
    /\ Permitted(h, "revoke")
    /\ \E g \in DOMAIN grant :
          /\ grant[g].status = "ACTIVE"
          /\ grant' = [grant EXCEPT ![g].status = "REVOKED"]
          /\ Goes(h, "dirty", Nothing, grant[g].user)
    /\ UNCHANGED <<now, holds, activation, verdicts, checkout, cache, sweep, rotated, requests>>

\* invalidate_permissions, in the step of the handler after its commit.
Invalidate(h) ==
    /\ handler[h].at = "dirty"
    /\ cache' = Without({handler[h].on})
    /\ Finish(h)
    /\ UNCHANGED <<now, tables, sweep, rotated, requests>>

UpdateRoleInvalidate(h) ==
    /\ Permitted(h, "update_role")
    /\ \E edit \in RoleEdits : /\ cache' = Without(GranteesOf(edit[1]))
                               /\ Goes(h, "reading", "update_role", edit)
    /\ UNCHANGED <<now, tables, sweep, rotated, requests>>

UpdateRoleCommit(h) ==
    /\ Doing(h, "reading", "update_role")
    /\ holds' = [holds EXCEPT ![handler[h].on[1]] = handler[h].on[2]]
    /\ Finish(h)
    /\ UNCHANGED <<now, grant, activation, verdicts, checkout, cache, sweep, rotated, requests>>

-----------------------------------------------------------------------------
(* Break-glass. *)

\* The grant, its activation and the audit event are one commit.
ActivateBeforeFlush(h) ==               \* mutant: the grant has no id yet
    /\ Permitted(h, "activate")
    /\ \E role \in Roles :
          /\ <<handler[h].user, role>> \in Eligible
          /\ grant' = NewGrant(handler[h].user, role, EmergencyHours, TRUE)
          /\ activation' = Append(activation, [grant |-> Nothing, verdict |-> "PENDING"])
          /\ Goes(h, "dirty", Nothing, handler[h].user)
    /\ UNCHANGED <<now, holds, verdicts, checkout, cache, sweep, rotated, requests>>
ActivateCommit(h) ==
    /\ Permitted(h, "activate")
    /\ \E role \in Roles :
          /\ <<handler[h].user, role>> \in Eligible
          /\ grant' = NewGrant(handler[h].user, role, EmergencyHours, TRUE)
          /\ activation' = Append(activation, [grant |-> Len(grant) + 1, verdict |-> "PENDING"])
    /\ Goes(h, "dirty", Nothing, handler[h].user)
    /\ UNCHANGED <<now, holds, verdicts, checkout, cache, sweep, rotated, requests>>

\* 403 with an audit event of high severity.
ActivateDenied(h) ==
    /\ Permitted(h, "activate")
    /\ \E role \in Roles : <<handler[h].user, role>> \notin Eligible
    /\ Finish(h)
    /\ UNCHANGED <<now, tables, cache, sweep, rotated, requests>>

ReviewRead(h, a) ==
    /\ Permitted(h, "review")
    /\ activation[a].verdict = "PENDING"
    /\ Goes(h, "reading", "review", a)
    /\ UNCHANGED <<now, tables, cache, sweep, rotated, requests>>

ReviewUnaudited(h) ==                   \* mutant: the audit event is flushed, not committed
    /\ Doing(h, "reading", "review")
    /\ \E v \in {"JUSTIFIED", "ESCALATED"} :
          activation' = [activation EXCEPT ![handler[h].on].verdict = v]
    /\ Finish(h)
    /\ UNCHANGED <<now, grant, holds, verdicts, checkout, cache, sweep, rotated, requests>>
ReviewCommit(h) ==
    /\ Doing(h, "reading", "review")
    /\ \E v \in {"JUSTIFIED", "ESCALATED"} :
          /\ activation' = [activation EXCEPT ![handler[h].on].verdict = v]
          /\ verdicts' = verdicts \cup {<<handler[h].on, v>>}
    /\ Finish(h)
    /\ UNCHANGED <<now, grant, holds, checkout, cache, sweep, rotated, requests>>

-----------------------------------------------------------------------------
(* Privileged credentials.  The vault may refuse any call: the failure is  *)
(* audited and nothing else is written.                                    *)

Takes(h, g) ==
    handler' = [handler EXCEPT ![h] = Work("holding", "checkout", @.user, @.since, {}, g)]

CheckoutOnCache(h) ==                   \* mutant: the permission is enough
    /\ Permitted(h, "checkout")
    /\ \E g \in DOMAIN grant : /\ grant[g].user = handler[h].user
                               /\ grant[g].role = CheckoutRole
                               /\ Takes(h, g)
    /\ UNCHANGED <<now, tables, cache, sweep, rotated, requests>>
\* active_grant_for_role asks the database, whatever the cache says; then the
\* credential leaves the vault.
CheckoutRetrieve(h) ==
    /\ Permitted(h, "checkout")
    /\ \E g \in DOMAIN grant : /\ grant[g].user = handler[h].user
                               /\ grant[g].role = CheckoutRole
                               /\ InWindow(g)
                               /\ Takes(h, g)
    /\ UNCHANGED <<now, tables, cache, sweep, rotated, requests>>

CheckoutCommit(h) ==
    /\ Doing(h, "holding", "checkout")
    /\ checkout' = Append(checkout, [grant |-> handler[h].on, since |-> handler[h].since,
                                     returned |-> FALSE])
    /\ Finish(h)
    /\ UNCHANGED <<now, grant, holds, activation, verdicts, cache, sweep, rotated, requests>>

CheckinUnrotated(h, c) ==               \* mutant: a vault that is down is not noticed
    /\ Arrives(h)
    /\ ~checkout[c].returned
    /\ rotated' \in {rotated, rotated \cup {c}}
    /\ handler' = [handler EXCEPT ![h] =
                      Work("holding", "checkin", Nothing, 0, {}, c)]
    /\ UNCHANGED <<now, tables, cache, sweep>>
\* Check-in asks for a session and for nothing else; the vault takes the
\* credential back and rotates it.
CheckinRotate(h, c) ==
    /\ Arrives(h)
    /\ ~checkout[c].returned
    /\ rotated' = rotated \cup {c}
    /\ handler' = [handler EXCEPT ![h] =
                      Work("holding", "checkin", Nothing, 0, {}, c)]
    /\ UNCHANGED <<now, tables, cache, sweep>>

CheckinCommit(h) ==
    /\ Doing(h, "holding", "checkin")
    /\ checkout' = [checkout EXCEPT ![handler[h].on].returned = TRUE]
    /\ Finish(h)
    /\ UNCHANGED <<now, grant, holds, activation, verdicts, cache, sweep, rotated, requests>>

-----------------------------------------------------------------------------
(* jit_expiry: grants are read once, expired one by one, each with a commit *)
(* and an invalidation after it.                                           *)

DueLater == {g \in DOMAIN grant : grant[g].status = "ACTIVE" /\ grant[g].end < now}   \* mutant
Due      == {g \in DOMAIN grant : grant[g].status = "ACTIVE" /\ grant[g].end <= now}

SweepRead ==
    /\ sweep = Idle
    /\ Due # {}
    /\ sweep' = [due |-> Due, drop |-> Nothing]
    /\ UNCHANGED <<now, tables, cache, handler, rotated, requests>>

SweepCommit ==
    /\ sweep.drop = Nothing
    /\ \E g \in sweep.due :
          /\ grant' = [grant EXCEPT ![g].status = "EXPIRED"]
          /\ sweep' = [due |-> sweep.due \ {g}, drop |-> grant[g].user]
    /\ UNCHANGED <<now, holds, activation, verdicts, checkout, cache, handler, rotated, requests>>

SweepInvalidate ==
    /\ sweep.drop # Nothing
    /\ cache' = Without({sweep.drop})
    /\ sweep' = [sweep EXCEPT !.drop = Nothing]
    /\ UNCHANGED <<now, tables, handler, rotated, requests>>

\* A sweep that fails is given up, in time for another one.
SweepFault ==
    /\ sweep.due # {} /\ sweep.drop = Nothing
    /\ now < MaxTime
    /\ sweep' = Idle
    /\ UNCHANGED <<now, tables, cache, handler, rotated, requests>>

-----------------------------------------------------------------------------
Tick ==
    /\ now < MaxTime
    /\ now' = now + 1
    /\ UNCHANGED <<tables, cache, handler, sweep, rotated, requests>>

\* A handler fails or is refused: a permission it has not (403, audited), an
\* object that is gone, a vault that is down (503, audited), a database that
\* is.  An approval writes a second audit event between its commit and the
\* invalidation and may fail there too; the others have nothing in between.
Abandon(h) ==
    /\ handler[h].at # "free"
    /\ handler[h].at = "dirty" => handler[h].op = "approve"
    /\ Finish(h)
    /\ UNCHANGED <<now, tables, cache, sweep, rotated, requests>>

\* The process starts again, in time for its sweeps to go on: the cache is
\* empty and nothing is in flight.
Restart ==
    /\ now < MaxTime
    /\ cache' = [u \in Users |-> Nothing]
    /\ handler' = [h \in Handlers |-> Free]
    /\ sweep' = Idle
    /\ UNCHANGED <<now, tables, rotated, requests>>

Authorize(h) ==
    \/ \E u \in Users : Hit(h, u) \/ Fill(h, u)
    \/ Store(h)

ChangeAccess(h) ==
    \/ ApproveCommit(h) \/ ExtendCommit(h) \/ RevokeCommit(h) \/ Invalidate(h)
    \/ UpdateRoleInvalidate(h) \/ UpdateRoleCommit(h)

BreakGlass(h) ==
    \/ ActivateCommit(h) \/ ActivateDenied(h) \/ ReviewCommit(h)
    \/ \E a \in DOMAIN activation : ReviewRead(h, a)

Privileged(h) ==
    \/ CheckoutRetrieve(h) \/ CheckoutCommit(h) \/ CheckinCommit(h)
    \/ \E c \in DOMAIN checkout : CheckinRotate(h, c)

Sweep == SweepRead \/ SweepCommit \/ SweepInvalidate

Step ==
    \/ \E h \in Handlers : \/ Authorize(h) \/ ChangeAccess(h)
                           \/ BreakGlass(h) \/ Privileged(h) \/ Abandon(h)
    \/ Sweep \/ SweepFault \/ Tick \/ Restart

\* History: what is held in the state a step reaches is held now.
Remember ==
    IF UNCHANGED <<now, grant, holds>> THEN UNCHANGED lastHeld
    ELSE lastHeld' = [u \in Users |-> LET held == Powers(u)' IN
                         [p \in Roles \cup Permissions |->
                             IF p \in held THEN now' ELSE lastHeld[u][p]]]

Next == Step /\ Remember

Spec     == Init /\ [][Next]_vars
\* Time passes; the sweep is a loop that sleeps, catches every exception and
\* starts again.
FairSpec == Spec /\ WF_now(Tick) /\ WF_sweep(Sweep)

-----------------------------------------------------------------------------
(* Correctness. *)

\* What a handler works on once it has read it.
ObjectOK(w) ==
    /\ w.at = "dirty"       => w.op \in {Nothing, "approve"} /\ w.on \in Users
    /\ w.op = "checkout"    => w.at = "holding" /\ w.on \in DOMAIN grant
    /\ w.op = "checkin"     => w.at = "holding" /\ w.on \in DOMAIN checkout
    /\ w.op = "update_role" => w.at = "reading" /\ w.on \in RoleEdits
    /\ w.op = "review"      => w.at = "reading" /\ w.on \in DOMAIN activation
    /\ w.op = Nothing       => w.at \in {"free", "filling", "permitted", "dirty"}
    /\ w.at \in {"free", "filling", "permitted"} => w.op = Nothing /\ w.on = Nothing

WorkOK(w) ==
    /\ w.user \in Optional(Users)
    /\ w.since \in 0..MaxTime
    /\ w.seen \in SUBSET Permissions
    /\ ObjectOK(w)

\* Every variable has its type, and references lead to rows.
TypeOK ==
    /\ now \in 0..MaxTime
    /\ grant \in Seq(Grant)
    /\ holds \in [Roles -> SUBSET Permissions]
    /\ \A u \in Users : cache[u] # Nothing =>
          cache[u] \in [until : 0..MaxTime + TTL, permissions : SUBSET Permissions]
    /\ \A h \in Handlers : WorkOK(handler[h])
    /\ sweep.due \subseteq DOMAIN grant /\ sweep.drop \in Optional(Users)
    /\ activation \in Seq([grant : DOMAIN grant, verdict : {"PENDING", "JUSTIFIED", "ESCALATED"}])
    /\ verdicts \subseteq (DOMAIN activation) \X {"JUSTIFIED", "ESCALATED"}
    /\ checkout \in Seq([grant : DOMAIN grant, since : 0..MaxTime, returned : BOOLEAN])
    /\ rotated \subseteq DOMAIN checkout
    /\ requests \in 0..MaxRequests

\* A request that passes require_permission has its permission from a grant in
\* its window and a role that gives it, less than TTL before the request came,
\* whatever fills, invalidations, revocations and changes of roles race
\* (FR-IAM-005, docs/design/09:15, :60): what is cached is never older than the
\* moment its reader began.
AuthorityIsRecent ==
    \A h \in Handlers : handler[h].at = "permitted" =>
        \A p \in handler[h].seen : lastHeld[handler[h].user][p] + TTL > handler[h].since

\* No credential leaves the vault, nor is a checkout recorded, unless the user
\* held the administrator role while the request was served: the cached
\* permission is not enough (docs/design/11:29, create_checkout).
CheckoutNeedsLiveGrant ==
    /\ \A h \in Handlers :
          Doing(h, "holding", "checkout") =>
              lastHeld[handler[h].user][CheckoutRole] >= handler[h].since
    /\ \A c \in DOMAIN checkout :
          lastHeld[grant[checkout[c].grant].user][CheckoutRole] >= checkout[c].since

\* A checkout that is closed had its credential rotated, also when the vault
\* or the process fails between the two, or two check-ins race.
ReturnedIsRotated == \A c \in DOMAIN checkout : checkout[c].returned => c \in rotated

\* Every emergency grant has its review item from the start, and the verdict a
\* reviewed item shows is in the audit trail, whichever of two racing
\* reviewers wrote last (docs/design/12:23, record_verdict).
EmergencyIsReviewed ==
    /\ \A g \in DOMAIN grant :
          grant[g].emergency => \E a \in DOMAIN activation : activation[a].grant = g
    /\ \A a \in DOMAIN activation :
          activation[a].verdict # "PENDING" => <<a, activation[a].verdict>> \in verdicts

\* A grant past its end does not stay ACTIVE: it is expired, revoked or given
\* a later end, also when the process stops in the middle of a sweep
\* (sweep_expired_grants, docs/design/10:20).
Ended(g) == grant[g].status = "ACTIVE" /\ grant[g].end <= now
EndedIsSwept == []<>(\A g \in DOMAIN grant : ~Ended(g))
=============================================================================
