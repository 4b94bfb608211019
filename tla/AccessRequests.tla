--------------------------- MODULE AccessRequests ---------------------------
(***************************************************************************)
(* Access requests, their approval chain and the grants that come of it    *)
(* (modules/access/routes.py and service.py): submission, extension,       *)
(* withdrawal, decisions, revocation and the sweep of expired grants.      *)
(*                                                                         *)
(* No handler locks or versions what it reads.  A decision is three steps: *)
(* the checks of the route, the length of the approval chain, and the      *)
(* commit; the other handlers are a read and a commit.  Two approvers of   *)
(* one level, two tabs of one approver, a withdrawal, a revocation and the *)
(* sweeper may all be between their read and their write.                  *)
(*                                                                         *)
(* The time a grant has left is abstracted to whether its end has passed.  *)
(***************************************************************************)
EXTENDS Naturals, Sequences

CONSTANTS
    Users,
    Requests,        \* rows access_requests may get
    Handlers,        \* concurrent request handlers
    Asks,            \* requester, beneficiary and role of a request
    InitialGrants,   \* the grants the database is seeded with
    Nothing,         \* None
    MaxEnds          \* bound: grants that lapse or are to be revoked

Roles      == {"Trader", "Client", "Operations Analyst", "Risk & Compliance", "Approver",
               "System Administrator", "Security Administrator", "Auditor"}
Privileged == {"System Administrator", "Security Administrator"}
Approving  == {"Approver", "Security Administrator"}   \* hold APPROVE_ACCESS

\* SOD_RULES, the matrix of conflicting roles.
Blocked == {{"Operations Analyst", "Security Administrator"}}
Flagged == {{"Trader", "Operations Analyst"}, {"Trader", "Security Administrator"}}

\* The role whose holders decide at each level.
LevelRole == [l \in 1..3 |-> IF l = 1 THEN "Approver" ELSE "Security Administrator"]

Optional(S) == S \cup {Nothing}

Ask   == [requester : Users, beneficiary : Optional(Users), role : Roles]
Grant == [user : Users, role : Roles, request : Optional(Requests),
          status : {"ACTIVE", "EXPIRED", "REVOKED"}]

\* batch tells the rows apart that two approvals of one level leave.
Step  == [request : Requests, level : 1..3, approver : Users, batch : Nat \ {0}]

ASSUME NothingAssumption == Nothing \notin Users \cup Requests \cup Nat \cup Step
ASSUME AskAssumption     == Asks \subseteq Ask
ASSUME GrantAssumption   == /\ InitialGrants \in Seq(Grant)
                            /\ \A g \in DOMAIN InitialGrants :
                                   InitialGrants[g].request = Nothing

ASSUME BoundAssumption   == MaxEnds \in Nat

VARIABLES
    request,   \* access_requests: ask, status, the grant it is to extend, and
               \* how often rows were inserted for it
    step,      \* approval_steps: the decision of each row
    grant,     \* access_grants
    lapsed,    \* the grants whose end_at has passed
    decided,   \* ACCESS_REQUEST_DECIDED audit rows
    handler,   \* what each request handler has read
    sweep,     \* the grants the running sweep has yet to expire
    ends

tables == <<request, step, grant, lapsed, decided>>
vars   == <<request, step, grant, lapsed, decided, handler, sweep, ends>>

Open == {"SUBMITTED"}     \* nothing sets PENDING_INFO

Row == [ask : Ask, status : {"NONE", "SUBMITTED", "APPROVED", "REJECTED", "WITHDRAWN"},
        extends : Optional(Nat \ {0}), batches : Nat]

Doing(op, r, s, g, n) == [op |-> op, request |-> r, step |-> s, grant |-> g, levels |-> n]
Free == Doing("free", Nothing, Nothing, Nothing, Nothing)

HandlerShape(ops, r, s, g, n) == [op : ops, request : r, step : s, grant : g, levels : n]

Handler ==
         {Free}
    \cup HandlerShape({"submit"}, Requests, {Nothing}, Optional(DOMAIN grant), {Nothing})
    \cup HandlerShape({"withdraw"}, Requests, {Nothing}, {Nothing}, {Nothing})
    \cup HandlerShape({"revoke"}, {Nothing}, {Nothing}, DOMAIN grant, {Nothing})
    \cup HandlerShape({"decide"}, {Nothing}, DOMAIN step, {Nothing}, {Nothing})
    \cup HandlerShape({"assessed"}, {Nothing}, DOMAIN step, {Nothing}, {2, 3})

Init ==
    /\ request \in [Requests -> [ask : Asks, status : {"NONE"}, extends : {Nothing},
                                 batches : {0}]]
    /\ step = [s \in {} |-> Nothing]
    /\ grant = InitialGrants
    /\ lapsed = {}
    /\ decided = {}
    /\ handler = [h \in Handlers |-> Free]
    /\ sweep = {}
    /\ ends = 0

-----------------------------------------------------------------------------
(* Who holds what, and what a request needs. *)

InWindow(g) == grant[g].status = "ACTIVE" /\ g \notin lapsed

Held(u) == {grant[g].role : g \in {k \in DOMAIN grant : InWindow(k) /\ grant[k].user = u}}

Holders(role) == {u \in Users : role \in Held(u)}

Conflicts(u, role, rules) == \E other \in Held(u) \ {role} : {other, role} \in rules

IsFlagged(u, role) == ~Conflicts(u, role, Blocked) /\ Conflicts(u, role, Flagged)

LevelsOfStandardRole(role, flagged) == IF flagged THEN 3 ELSE 2        \* mutant
Levels(role, flagged) == IF role \in Privileged \/ flagged THEN 3 ELSE 2

\* require_permission: an ACTIVE grant, in its window or seen in it within the
\* last minute (the permission cache).
Permitted(u, roles) ==
    \E g \in DOMAIN grant : /\ grant[g].user = u
                            /\ grant[g].role \in roles
                            /\ grant[g].status = "ACTIVE"

Requester(r)   == request[r].ask.requester
Beneficiary(r) == IF request[r].ask.beneficiary = Nothing
                  THEN Requester(r) ELSE request[r].ask.beneficiary

\* The rows a level begins with, one for each holder of its role.
NewSteps(r, level) ==
    {[request |-> r, level |-> level, approver |-> u,
      batch |-> request[r].batches + 1] : u \in Holders(LevelRole[level])}

Assigned(old, new) ==
    [s \in DOMAIN old \cup new |-> IF s \in new THEN "PENDING" ELSE old[s]]

-----------------------------------------------------------------------------
(* Submission, extension and withdrawal. *)

OpenDuplicate(r) ==
    \E other \in Requests : /\ request[other].status \in Open
                            /\ request[other].ask = request[r].ask

\* A row nobody has inserted, or is about to.
Fresh(r) ==
    /\ request[r].status = "NONE"
    /\ \A h \in Handlers : handler[h].request # r

\* POST /access-requests up to the INSERT.  A justification may begin as one
\* of extend_grant does, and the approval then takes the request for an
\* extension of the grant g it names, whoever holds it in whatever role; one
\* that names no grant ends as for a grant that is gone (ExtensionConflict).
SubmitRead(h, r, g) ==
    /\ handler[h] = Free
    /\ Fresh(r)
    /\ ~OpenDuplicate(r)
    /\ ~Conflicts(Requester(r), request[r].ask.role, Blocked)
    /\ handler' = [handler EXCEPT ![h] = Doing("submit", r, Nothing, g, Nothing)]
    /\ UNCHANGED <<tables, sweep, ends>>

\* POST /grants/{id}/extend likewise: a request for the role already held.
ExtendRead(h, r, g) ==
    /\ handler[h] = Free
    /\ Fresh(r)
    /\ grant[g].status = "ACTIVE"
    /\ request[r].ask = [requester |-> grant[g].user, beneficiary |-> Nothing,
                         role |-> grant[g].role]
    /\ ~OpenDuplicate(r)
    /\ ~Conflicts(Requester(r), request[r].ask.role, Blocked)
    /\ handler' = [handler EXCEPT ![h] = Doing("submit", r, Nothing, g, Nothing)]
    /\ UNCHANGED <<tables, sweep, ends>>

SubmitWrite(h) ==
    LET r == handler[h].request IN
    /\ handler[h].op = "submit"
    /\ request' = [request EXCEPT ![r].status = "SUBMITTED",
                                  ![r].extends = handler[h].grant,
                                  ![r].batches = @ + 1]
    /\ step' = Assigned(step, NewSteps(r, 1))
    /\ handler' = [handler EXCEPT ![h] = Free]
    /\ UNCHANGED <<grant, lapsed, decided, sweep, ends>>

WithdrawRead(h, r) ==
    /\ handler[h] = Free
    /\ request[r].status \in Open
    /\ handler' = [handler EXCEPT ![h] = Doing("withdraw", r, Nothing, Nothing, Nothing)]
    /\ UNCHANGED <<tables, sweep, ends>>

WithdrawWrite(h) ==
    /\ handler[h].op = "withdraw"
    /\ request' = [request EXCEPT ![handler[h].request].status = "WITHDRAWN"]
    /\ handler' = [handler EXCEPT ![h] = Free]
    /\ UNCHANGED <<step, grant, lapsed, decided, sweep, ends>>

-----------------------------------------------------------------------------
(* Decisions. *)

AtCurrentLevel(s) ==
    \A other \in DOMAIN step : other.request = s.request => other.level <= s.level

DecideRead(h, s) ==
    /\ handler[h] = Free
    /\ Permitted(s.approver, Approving)
    /\ s.approver # Requester(s.request)
    /\ step[s] = "PENDING"
    /\ request[s.request].status \in Open
    /\ AtCurrentLevel(s)
    /\ handler' = [handler EXCEPT ![h] = Doing("decide", Nothing, s, Nothing, Nothing)]
    /\ UNCHANGED <<tables, sweep, ends>>

\* The first query of apply_decision flushes the UPDATE of the step, which
\* waits for a decision of the same row that has not been committed.
RowFree(s) == \A k \in Handlers : handler[k].op = "assessed" => handler[k].step # s

\* sod_effect is evaluated again, for the requester, on what is held by now.
Assess(h) ==
    LET r == handler[h].step.request IN
    /\ handler[h].op = "decide"
    /\ RowFree(handler[h].step)
    /\ handler' = [handler EXCEPT
          ![h].op = "assessed",
          ![h].levels = Levels(request[r].ask.role,
                               IsFlagged(Requester(r), request[r].ask.role))]
    /\ UNCHANGED <<tables, sweep, ends>>

\* What every decision writes: the row of the step and its audit event.
RecordApproval(h, decision) ==          \* mutant: a rejection is not audited
    /\ decided' = IF decision = "APPROVED"
                  THEN decided \cup {<<handler[h].step.request, handler[h].step.level,
                                      handler[h].step.approver, decision>>}
                  ELSE decided
    /\ handler' = [handler EXCEPT ![h] = Free]
Record(h, decision) ==
    LET s == handler[h].step IN
    /\ decided' = decided \cup {<<s.request, s.level, s.approver, decision>>}
    /\ handler' = [handler EXCEPT ![h] = Free]

Decided(h, decision) == [step EXCEPT ![handler[h].step] = decision]

\* A rejection needs no chain, and ends the request at any level.
Reject(h) ==
    /\ handler[h].op = "decide"
    /\ RowFree(handler[h].step)
    /\ Record(h, "REJECTED")
    /\ step' = Decided(h, "REJECTED")
    /\ request' = [request EXCEPT ![handler[h].step.request].status = "REJECTED"]
    /\ UNCHANGED <<grant, lapsed, sweep, ends>>

ApproveLevel(h) ==
    LET s == handler[h].step IN
    /\ handler[h].op = "assessed"
    /\ s.level < handler[h].levels
    /\ Record(h, "APPROVED")
    /\ step' = Assigned(Decided(h, "APPROVED"), NewSteps(s.request, s.level + 1))
    /\ request' = [request EXCEPT ![s.request].batches = @ + 1]
    /\ UNCHANGED <<grant, lapsed, sweep, ends>>

Final(h) == handler[h].op = "assessed" /\ handler[h].step.level >= handler[h].levels

Close(h) ==
    /\ Record(h, "APPROVED")
    /\ step' = Decided(h, "APPROVED")
    /\ request' = [request EXCEPT ![handler[h].step.request].status = "APPROVED"]

ApproveUngranted(h) ==                  \* mutant: the grant is left for later
    /\ Final(h)
    /\ request[handler[h].step.request].extends = Nothing
    /\ Close(h)
    /\ UNCHANGED <<grant, lapsed, sweep, ends>>

GrantOfLevel(h) ==                      \* mutant: the level's row for the request's
    LET r == handler[h].step.request IN
    /\ Final(h)
    /\ request[r].extends = Nothing
    /\ Close(h)
    /\ grant' = Append(grant, [user |-> Beneficiary(r), role |-> request[r].ask.role,
                               request |-> handler[h].step, status |-> "ACTIVE"])
    /\ UNCHANGED <<lapsed, sweep, ends>>

\* The last approval: the request is closed and the grant made in one commit.
ApproveGrant(h) ==
    LET r == handler[h].step.request IN
    /\ Final(h)
    /\ request[r].extends = Nothing
    /\ Close(h)
    /\ grant' = Append(grant, [user |-> Beneficiary(r), role |-> request[r].ask.role,
                               request |-> r, status |-> "ACTIVE"])
    /\ UNCHANGED <<lapsed, sweep, ends>>

\* An extension moves the end of the grant, to a time that may be past: the
\* new end counts from the old one, and is cut at twice the standard cap.
ApproveExtension(h) ==
    LET g == request[handler[h].step.request].extends IN
    /\ Final(h)
    /\ g # Nothing
    /\ grant[g].status = "ACTIVE"
    /\ Close(h)
    /\ lapsed' \in {lapsed \cup {g}, lapsed \ {g}}
    /\ UNCHANGED <<grant, sweep, ends>>

\* The grant is gone: 409 (404 if there never was one), and the decision is
\* rolled back.
ExtensionConflict(h) ==
    LET g == request[handler[h].step.request].extends IN
    /\ Final(h)
    /\ g # Nothing
    /\ grant[g].status # "ACTIVE"
    /\ handler' = [handler EXCEPT ![h] = Free]
    /\ UNCHANGED <<tables, sweep, ends>>

-----------------------------------------------------------------------------
(* The life of a grant. *)

Lapse(g) ==
    /\ g \notin lapsed
    /\ grant[g].status = "ACTIVE"
    /\ ends < MaxEnds
    /\ ends' = ends + 1
    /\ lapsed' = lapsed \cup {g}
    /\ UNCHANGED <<request, step, grant, decided, handler, sweep>>

RevokeRead(h, g) ==
    /\ handler[h] = Free
    /\ \E u \in Users : Permitted(u, {"Security Administrator"})
    /\ grant[g].status = "ACTIVE"
    /\ handler' = [handler EXCEPT ![h] = Doing("revoke", Nothing, Nothing, g, Nothing)]
    /\ ends < MaxEnds
    /\ ends' = ends + 1
    /\ UNCHANGED <<tables, sweep>>

SetStatus(g, s) == grant' = [grant EXCEPT ![g].status = s]

RevokeWrite(h) ==
    /\ handler[h].op = "revoke"
    /\ SetStatus(handler[h].grant, "REVOKED")
    /\ handler' = [handler EXCEPT ![h] = Free]
    /\ UNCHANGED <<request, step, lapsed, decided, sweep, ends>>

Due == {g \in DOMAIN grant : grant[g].status = "ACTIVE" /\ g \in lapsed}

SweepRead ==
    /\ sweep = {}
    /\ Due # {}
    /\ sweep' = Due
    /\ UNCHANGED <<tables, handler, ends>>

\* Every grant is committed on its own, with its audit event.
SweepWrite ==
    /\ \E g \in sweep : SetStatus(g, "EXPIRED") /\ sweep' = sweep \ {g}
    /\ UNCHANGED <<request, step, lapsed, decided, handler, ends>>

SweepFault ==
    /\ sweep # {}
    /\ sweep' = {}
    /\ UNCHANGED <<tables, handler, ends>>

-----------------------------------------------------------------------------
\* A handler fails before its commit.  A process that stops is no more than
\* this for every handler, and SweepFault: nothing here lives in memory.
Abandon(h) ==
    /\ handler[h] # Free
    /\ handler' = [handler EXCEPT ![h] = Free]
    /\ UNCHANGED <<tables, sweep, ends>>

Client(h) ==
    \/ \E r \in Requests, g \in Optional(DOMAIN grant) : SubmitRead(h, r, g)
    \/ \E r \in Requests : WithdrawRead(h, r)
    \/ \E r \in Requests, g \in DOMAIN grant : ExtendRead(h, r, g)
    \/ SubmitWrite(h) \/ WithdrawWrite(h)

Approver(h) ==
    \/ \E s \in DOMAIN step : DecideRead(h, s)
    \/ Assess(h)
    \/ Reject(h) \/ ApproveLevel(h) \/ ApproveGrant(h)
    \/ ApproveExtension(h) \/ ExtensionConflict(h)

Administrator(h) == RevokeWrite(h) \/ \E g \in DOMAIN grant : RevokeRead(h, g)

Next ==
    \/ \E h \in Handlers : Client(h) \/ Approver(h) \/ Administrator(h) \/ Abandon(h)
    \/ \E g \in DOMAIN grant : Lapse(g)
    \/ SweepRead \/ SweepWrite \/ SweepFault

Spec == Init /\ [][Next]_vars

-----------------------------------------------------------------------------
(* Correctness. *)

\* Every variable has its type; a handler works on rows that exist.
TypeOK ==
    /\ request \in [Requests -> Row]
    /\ \A r \in Requests : request[r].extends \in Optional(DOMAIN grant)
    /\ DOMAIN step \subseteq Step
    /\ step \in [DOMAIN step -> {"PENDING", "APPROVED", "REJECTED"}]
    /\ grant \in Seq(Grant)
    /\ lapsed \subseteq DOMAIN grant
    /\ decided \subseteq Requests \X (1..3) \X Users \X {"APPROVED", "REJECTED"}
    /\ handler \in [Handlers -> Handler]
    /\ sweep \subseteq DOMAIN grant
    /\ ends \in 0..MaxEnds

LevelsOwed(role) == IF role \in Privileged THEN 3 ELSE 2

ApprovedAt(r, l) == \E u \in Users : <<r, l, u, "APPROVED">> \in decided

\* Nobody gets a role by a request that the audit trail does not show approved
\* at every level of its chain, the security officer's for a privileged role,
\* whatever approvals, withdrawals and role changes race (apply_decision).
GrantsAreSignedOff ==
    \A g \in DOMAIN grant :
        LET r == grant[g].request IN
        r # Nothing => \A l \in 1..LevelsOwed(grant[g].role) : ApprovedAt(r, l)

\* The last approval makes the grant in its own commit: an APPROVED request
\* that is no extension has one, for its beneficiary and its role, also when
\* the process stops at the wrong moment (docs/design/08, Components).
ApprovedIsGranted ==
    \A r \in Requests :
        request[r].status = "APPROVED" /\ request[r].extends = Nothing =>
            \E g \in DOMAIN grant : /\ grant[g].request = r
                                    /\ grant[g].user = Beneficiary(r)
                                    /\ grant[g].role = request[r].ask.role

\* A closed request shows in the audit trail how it was closed, the extension
\* of a grant included: approved at every level, or rejected at one.
OutcomesAreAudited ==
    \A r \in Requests :
        /\ request[r].status = "APPROVED" =>
              \A l \in 1..LevelsOwed(request[r].ask.role) : ApprovedAt(r, l)
        /\ request[r].status = "REJECTED" =>
              \E l \in 1..3, u \in Users : <<r, l, u, "REJECTED">> \in decided

\* docs/design/09:61: a BLOCKED conflict prevents assignment.  False without
\* any race: the rule is consulted when a request is made and not when it is
\* granted, so two requests made before either is granted both go through.
BlockedPairsAreNeverHeld ==
    \A u \in Users : \A pair \in Blocked : ~ pair \subseteq Held(u)
=============================================================================
