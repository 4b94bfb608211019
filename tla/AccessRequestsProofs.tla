------------------------ MODULE AccessRequestsProofs ------------------------
(***************************************************************************)
(* What AccessRequests guarantees for every number of users, requests and  *)
(* concurrent handlers: types, that no grant comes about without the       *)
(* approvals of its chain in the audit trail, and that the last approval   *)
(* leaves a grant.                                                         *)
(***************************************************************************)
EXTENDS AccessRequests, SequenceTheorems, TLAPS

-----------------------------------------------------------------------------
(* Types. *)

\* The types hold at the start.
LEMMA InitTypes == Init => TypeOK
<1> SUFFICES ASSUME Init PROVE TypeOK
  OBVIOUS
<1>1. DOMAIN step = {}
  BY DEF Init
<1>2. request \in [Requests -> Row] /\ \A r \in Requests : request[r].extends = Nothing
  BY AskAssumption DEF Init, Row, Optional
<1>3. handler \in [Handlers -> Handler]
  BY DEF Init, Handler
<1> QED
  BY <1>1, <1>2, <1>3, GrantAssumption, BoundAssumption
  DEF Init, TypeOK, Optional

\* What a handler has read, by what it is doing.
LEMMA HandlerHolds ==
  ASSUME TypeOK, NEW h \in Handlers
  PROVE  LET d == handler[h] IN
         /\ d.op \in {"submit", "withdraw"} => d.request \in Requests
         /\ d.op = "submit" => d.grant \in Optional(DOMAIN grant)
         /\ d.op = "revoke" => d.grant \in DOMAIN grant
         /\ d.op \in {"decide", "assessed"} =>
                /\ d.step \in DOMAIN step
                /\ d.step \in Step
                /\ d.step.request \in Requests
                /\ d.step.level \in 1..3
                /\ d.step.approver \in Users
         /\ d.op = "assessed" => d.levels \in {2, 3}
<1>1. handler[h] \in Handler
  BY DEF TypeOK
<1>2. \A s \in DOMAIN step : /\ s \in Step /\ s.request \in Requests
                             /\ s.level \in 1..3 /\ s.approver \in Users
  BY DEF TypeOK, Step
<1> QED
  BY <1>1, <1>2 DEF Handler, HandlerShape, Free, Doing

\* What a handler holds stays well typed while rows are added.
LEMMA HandlerGrows ==
  ASSUME DOMAIN grant \subseteq DOMAIN grant', DOMAIN step \subseteq DOMAIN step'
  PROVE  Handler \subseteq Handler'
  BY DEF Handler, HandlerShape, Free, Doing, Optional

\* A handler that ends is free, and the others keep their types while the
\* tables grow.
LEMMA FreedHandler ==
  ASSUME handler \in [Handlers -> Handler], NEW h \in Handlers,
         DOMAIN grant \subseteq DOMAIN grant', DOMAIN step \subseteq DOMAIN step',
         handler' = [handler EXCEPT ![h] = Free]
  PROVE  handler' \in [Handlers -> Handler']
<1>1. Handler \subseteq Handler'
  BY HandlerGrows
<1>2. Free \in Handler'
  BY DEF Handler, Free, Doing
<1> QED
  BY <1>1, <1>2

\* A handler that reads leaves every table as it is.
LEMMA ReadTypes ==
  ASSUME TypeOK, NEW h \in Handlers, NEW d \in Handler,
         handler' = [handler EXCEPT ![h] = d],
         UNCHANGED <<request, step, grant, lapsed, decided, sweep>>,
         ends' \in 0..MaxEnds
  PROVE  TypeOK'
<1>1. handler' \in [Handlers -> Handler]
  BY DEF TypeOK
<1>2. Handler' = Handler
  BY DEF Handler, HandlerShape, Free, Doing, Optional
<1> QED
  BY <1>1, <1>2 DEF TypeOK

\* What is set of a request row leaves it one.
LEMMA RowTypes ==
  ASSUME NEW q \in Row, NEW e \in Optional(Nat \ {0}),
         NEW s \in {"SUBMITTED", "APPROVED", "REJECTED", "WITHDRAWN"}
  PROVE  /\ [q EXCEPT !.status = s] \in Row
         /\ [q EXCEPT !.status = s, !.extends = e, !.batches = @ + 1] \in Row
         /\ [q EXCEPT !.batches = @ + 1] \in Row
<1>1. q.batches + 1 \in Nat
  BY DEF Row
<1>2. \A x \in Row : [x EXCEPT !.status = s] \in Row
  BY DEF Row
<1>3. \A x \in Row : [x EXCEPT !.extends = e] \in Row
  BY DEF Row
<1>4. \A x \in Row, n \in Nat : [x EXCEPT !.batches = n] \in Row
  BY DEF Row
<1> DEFINE opened == [[q EXCEPT !.status = s] EXCEPT !.extends = e]
<1>5. opened \in Row
  BY <1>2, <1>3
<1>6. [opened EXCEPT !.batches = q.batches + 1] \in Row
  BY <1>1, <1>4, <1>5
<1> QED
  BY <1>1, <1>2, <1>4, <1>6

\* The rows inserted for a level are of that request and level.
LEMMA NewStepsTypes ==
  ASSUME TypeOK, NEW r \in Requests, NEW l \in 1..3
  PROVE  \A s \in NewSteps(r, l) : s \in Step /\ s.request = r /\ s.level = l
<1>1. request[r].batches + 1 \in Nat \ {0}
  BY DEF TypeOK, Row
<1> QED
  BY <1>1 DEF NewSteps, Holders, Step

\* Rows are added to the steps and none is removed.
LEMMA AssignedTypes ==
  ASSUME NEW old, NEW new, NEW D,
         old \in [D -> {"PENDING", "APPROVED", "REJECTED"}], D \subseteq Step,
         new \subseteq Step
  PROVE  /\ DOMAIN Assigned(old, new) = D \cup new
         /\ DOMAIN Assigned(old, new) \subseteq Step
         /\ Assigned(old, new) \in
               [DOMAIN Assigned(old, new) -> {"PENDING", "APPROVED", "REJECTED"}]
  BY DEF Assigned

\* The steps that only read, or give up, keep the types.
LEMMA ReadStepTypes ==
  ASSUME TypeOK, NEW h \in Handlers,
         \/ \E r \in Requests, g \in Optional(DOMAIN grant) : SubmitRead(h, r, g)
         \/ \E r \in Requests : WithdrawRead(h, r)
         \/ \E r \in Requests, g \in DOMAIN grant : ExtendRead(h, r, g)
         \/ \E s \in DOMAIN step : DecideRead(h, s)
         \/ \E g \in DOMAIN grant : RevokeRead(h, g)
         \/ Assess(h) \/ ExtensionConflict(h) \/ Abandon(h)
  PROVE  TypeOK'
<1> USE DEF tables
<1>e. ends \in 0..MaxEnds /\ ends \in Nat /\ MaxEnds \in Nat
  BY BoundAssumption DEF TypeOK
<1>f. Free \in Handler
  BY DEF Handler, Free, Doing
<1>1. ASSUME NEW r \in Requests, NEW g \in Optional(DOMAIN grant), SubmitRead(h, r, g)
      PROVE  TypeOK'
  <2>1. Doing("submit", r, Nothing, g, Nothing) \in Handler
    BY DEF Doing, Handler, HandlerShape
  <2> QED
    BY <1>1, <1>e, <2>1, ReadTypes DEF SubmitRead
<1>2. ASSUME NEW r \in Requests, WithdrawRead(h, r) PROVE TypeOK'
  <2>1. Doing("withdraw", r, Nothing, Nothing, Nothing) \in Handler
    BY DEF Doing, Handler, HandlerShape
  <2> QED
    BY <1>2, <1>e, <2>1, ReadTypes DEF WithdrawRead
<1>3. ASSUME NEW r \in Requests, NEW g \in DOMAIN grant, ExtendRead(h, r, g) PROVE TypeOK'
  <2>1. Doing("submit", r, Nothing, g, Nothing) \in Handler
    BY DEF Doing, Handler, HandlerShape, Optional
  <2> QED
    BY <1>3, <1>e, <2>1, ReadTypes DEF ExtendRead
<1>4. ASSUME NEW s \in DOMAIN step, DecideRead(h, s) PROVE TypeOK'
  <2>1. Doing("decide", Nothing, s, Nothing, Nothing) \in Handler
    BY DEF Doing, Handler, HandlerShape
  <2> QED
    BY <1>4, <1>e, <2>1, ReadTypes DEF DecideRead
<1>5. ASSUME NEW g \in DOMAIN grant, RevokeRead(h, g) PROVE TypeOK'
  <2>1. Doing("revoke", Nothing, Nothing, g, Nothing) \in Handler
    BY DEF Doing, Handler, HandlerShape
  <2>2. ends' \in 0..MaxEnds
    <3>1. ends < MaxEnds /\ ends' = ends + 1
      BY <1>5 DEF RevokeRead
    <3> QED
      BY <1>e, <3>1
  <2> QED
    BY <1>5, <2>1, <2>2, ReadTypes DEF RevokeRead
<1>6. ASSUME Assess(h) PROVE TypeOK'
  <2> DEFINE n == Levels(request[handler[h].step.request].ask.role,
                         IsFlagged(Requester(handler[h].step.request),
                                   request[handler[h].step.request].ask.role))
             d == [handler[h] EXCEPT !.op = "assessed", !.levels = n]
  <2>1. n \in {2, 3}
    BY DEF Levels
  <2> HIDE DEF n
  <2>2. handler[h] \in HandlerShape({"decide"}, {Nothing}, DOMAIN step, {Nothing}, {Nothing})
    BY <1>6 DEF Assess, TypeOK, Handler, HandlerShape, Free, Doing
  <2>3. d \in Handler
    BY <2>1, <2>2 DEF Handler, HandlerShape
  <2>4. handler' = [handler EXCEPT ![h] = d]
    BY <1>6 DEF Assess, n, TypeOK
  <2> QED
    BY <1>6, <1>e, <2>3, <2>4, ReadTypes DEF Assess
<1>7. ASSUME ExtensionConflict(h) PROVE TypeOK'
  BY <1>7, <1>e, <1>f, ReadTypes DEF ExtensionConflict
<1>8. ASSUME Abandon(h) PROVE TypeOK'
  BY <1>8, <1>e, <1>f, ReadTypes DEF Abandon
<1> QED
  BY <1>1, <1>2, <1>3, <1>4, <1>5, <1>6, <1>7, <1>8

\* A commit of tables by a handler, one action at a time.
LEMMA SubmitTypes ==
  ASSUME TypeOK, NEW h \in Handlers, SubmitWrite(h)
  PROVE  TypeOK'
<1> DEFINE r == handler[h].request
<1>1. r \in Requests /\ handler[h].grant \in Optional(DOMAIN grant)
  BY HandlerHolds DEF SubmitWrite
<1>2. step' = Assigned(step, NewSteps(r, 1))
  BY DEF SubmitWrite
<1>3. NewSteps(r, 1) \subseteq Step
  BY <1>1, NewStepsTypes
<1>4. /\ DOMAIN step' = DOMAIN step \cup NewSteps(r, 1)
      /\ DOMAIN step' \subseteq Step
      /\ step' \in [DOMAIN step' -> {"PENDING", "APPROVED", "REJECTED"}]
  <2>1. DOMAIN step \subseteq Step /\ step \in [DOMAIN step -> {"PENDING", "APPROVED", "REJECTED"}]
    BY DEF TypeOK
  <2> HIDE DEF r
  <2> QED
    BY <1>2, <1>3, <2>1, AssignedTypes
<1>5. grant \in Seq(Grant) /\ DOMAIN grant \subseteq Nat \ {0}
  BY DEF TypeOK
<1>6. request' \in [Requests -> Row]
  <2>1. request[r] \in Row
    BY <1>1 DEF TypeOK
  <2>2. [request[r] EXCEPT !.status = "SUBMITTED", !.extends = handler[h].grant,
                           !.batches = @ + 1] \in Row
    <3>1. handler[h].grant \in Optional(Nat \ {0})
      BY <1>1, <1>5 DEF Optional
    <3> HIDE DEF r
    <3> QED
      BY <2>1, <3>1, RowTypes
  <2>3. request \in [Requests -> Row]
    BY DEF TypeOK
  <2>4. request' = [request EXCEPT ![r] =
            [request[r] EXCEPT !.status = "SUBMITTED", !.extends = handler[h].grant,
                               !.batches = @ + 1]]
    BY <1>1, <2>3 DEF SubmitWrite
  <2> QED
    BY <1>1, <2>2, <2>3, <2>4
<1>7. \A q \in Requests : request'[q].extends \in Optional(DOMAIN grant)
  BY <1>1 DEF SubmitWrite, TypeOK, Row
<1>8. handler' \in [Handlers -> Handler']
  BY <1>4, FreedHandler DEF SubmitWrite, TypeOK
<1> QED
  BY <1>4, <1>6, <1>7, <1>8 DEF SubmitWrite, TypeOK, Optional

\* A status of a request, and nothing else of it, is set.
LEMMA StatusTypes ==
  ASSUME TypeOK, NEW r \in Requests,
         NEW s \in {"APPROVED", "REJECTED", "WITHDRAWN"},
         request' = [request EXCEPT ![r].status = s], DOMAIN grant \subseteq DOMAIN grant'
  PROVE  /\ request' \in [Requests -> Row]
         /\ \A q \in Requests : request'[q].extends \in Optional(DOMAIN grant)'
<1>1. request \in [Requests -> Row]
  BY DEF TypeOK
<1>2. [request[r] EXCEPT !.status = s] \in Row
  BY <1>1, RowTypes DEF Optional
<1>3. request' = [request EXCEPT ![r] = [request[r] EXCEPT !.status = s]]
  OBVIOUS
<1>4. \A q \in Requests : request'[q].extends = request[q].extends
  BY <1>1 DEF Row
<1> QED
  BY <1>1, <1>2, <1>3, <1>4 DEF TypeOK, Optional

\* So does a withdrawal,
LEMMA WithdrawTypes ==
  ASSUME TypeOK, NEW h \in Handlers, WithdrawWrite(h)
  PROVE  TypeOK'
<1>1. handler[h].request \in Requests
  BY HandlerHolds DEF WithdrawWrite
<1>2. handler' \in [Handlers -> Handler']
  BY FreedHandler DEF WithdrawWrite, TypeOK
<1>3. /\ request' \in [Requests -> Row]
      /\ \A q \in Requests : request'[q].extends \in Optional(DOMAIN grant)'
  BY <1>1, StatusTypes DEF WithdrawWrite
<1> QED
  BY <1>2, <1>3 DEF WithdrawWrite, TypeOK

\* What a decision writes beside the request and the grants.
LEMMA RecordTypes ==
  ASSUME TypeOK, NEW h \in Handlers, handler[h].op \in {"decide", "assessed"},
         NEW d \in {"APPROVED", "REJECTED"}, Record(h, d)
  PROVE  /\ decided' \subseteq Requests \X (1..3) \X Users \X {"APPROVED", "REJECTED"}
         /\ handler' = [handler EXCEPT ![h] = Free]
         /\ DOMAIN Decided(h, d) = DOMAIN step
         /\ Decided(h, d) \in [DOMAIN step -> {"PENDING", "APPROVED", "REJECTED"}]
  BY HandlerHolds DEF Record, Decided, TypeOK

\* a rejection,
LEMMA RejectTypes ==
  ASSUME TypeOK, NEW h \in Handlers, Reject(h)
  PROVE  TypeOK'
<1>1. handler[h].step.request \in Requests
  BY HandlerHolds DEF Reject
<1>2. /\ decided' \subseteq Requests \X (1..3) \X Users \X {"APPROVED", "REJECTED"}
      /\ handler' = [handler EXCEPT ![h] = Free]
      /\ DOMAIN step' = DOMAIN step
      /\ step' \in [DOMAIN step -> {"PENDING", "APPROVED", "REJECTED"}]
  BY RecordTypes DEF Reject
<1>3. handler' \in [Handlers -> Handler']
  BY <1>2, FreedHandler DEF Reject, TypeOK
<1>4. /\ request' \in [Requests -> Row]
      /\ \A q \in Requests : request'[q].extends \in Optional(DOMAIN grant)'
  BY <1>1, StatusTypes DEF Reject
<1> QED
  BY <1>2, <1>3, <1>4 DEF Reject, TypeOK

\* an approval that opens the next level,
LEMMA ApproveLevelTypes ==
  ASSUME TypeOK, NEW h \in Handlers, ApproveLevel(h)
  PROVE  TypeOK'
<1> DEFINE s == handler[h].step
           old == Decided(h, "APPROVED")
           new == NewSteps(s.request, s.level + 1)
<1>1. s.request \in Requests /\ s.level \in 1..3 /\ handler[h].levels \in {2, 3}
  BY HandlerHolds DEF ApproveLevel
<1>2. s.level + 1 \in 1..3
  BY <1>1 DEF ApproveLevel
<1>3. /\ decided' \subseteq Requests \X (1..3) \X Users \X {"APPROVED", "REJECTED"}
      /\ handler' = [handler EXCEPT ![h] = Free]
      /\ old \in [DOMAIN step -> {"PENDING", "APPROVED", "REJECTED"}]
  BY RecordTypes DEF ApproveLevel
<1>4. new \subseteq Step
  BY <1>1, <1>2, NewStepsTypes
<1>5. step' = Assigned(old, new) /\ DOMAIN step \subseteq Step
  BY DEF ApproveLevel, TypeOK
<1> HIDE DEF old, new
<1>6. /\ DOMAIN step' = DOMAIN step \cup new
      /\ DOMAIN step' \subseteq Step
      /\ step' \in [DOMAIN step' -> {"PENDING", "APPROVED", "REJECTED"}]
  BY <1>3, <1>4, <1>5, AssignedTypes
<1>7. handler' \in [Handlers -> Handler']
  BY <1>3, <1>6, FreedHandler DEF ApproveLevel, TypeOK
<1>8. /\ request' \in [Requests -> Row]
      /\ \A q \in Requests : request'[q].extends \in Optional(DOMAIN grant)'
  <2>1. request \in [Requests -> Row]
    BY DEF TypeOK
  <2>2. [request[s.request] EXCEPT !.batches = @ + 1] \in Row
    BY <1>1, <2>1, RowTypes DEF Optional
  <2>3. request' = [request EXCEPT ![s.request] =
                       [request[s.request] EXCEPT !.batches = @ + 1]]
    BY DEF ApproveLevel
  <2>4. \A q \in Requests : request'[q].extends = request[q].extends
    BY <1>1, <2>1, <2>3 DEF Row
  <2> QED
    BY <1>1, <2>1, <2>2, <2>3, <2>4 DEF TypeOK, ApproveLevel, Optional
<1> QED
  BY <1>3, <1>6, <1>7, <1>8 DEF ApproveLevel, TypeOK

\* The last approval, whatever becomes of the grants.
LEMMA CloseTypes ==
  ASSUME TypeOK, NEW h \in Handlers, Final(h), Close(h),
         DOMAIN grant \subseteq DOMAIN grant'
  PROVE  /\ request' \in [Requests -> Row]
         /\ \A q \in Requests : request'[q].extends \in Optional(DOMAIN grant)'
         /\ DOMAIN step' = DOMAIN step
         /\ step' \in [DOMAIN step -> {"PENDING", "APPROVED", "REJECTED"}]
         /\ decided' \subseteq Requests \X (1..3) \X Users \X {"APPROVED", "REJECTED"}
         /\ handler' \in [Handlers -> Handler']
<1>1. handler[h].step.request \in Requests
  BY HandlerHolds DEF Final
<1>2. /\ decided' \subseteq Requests \X (1..3) \X Users \X {"APPROVED", "REJECTED"}
      /\ handler' = [handler EXCEPT ![h] = Free]
      /\ DOMAIN step' = DOMAIN step
      /\ step' \in [DOMAIN step -> {"PENDING", "APPROVED", "REJECTED"}]
  BY RecordTypes DEF Close, Final
<1>3. handler' \in [Handlers -> Handler']
  BY <1>2, FreedHandler DEF TypeOK
<1>4. /\ request' \in [Requests -> Row]
      /\ \A q \in Requests : request'[q].extends \in Optional(DOMAIN grant)'
  BY <1>1, StatusTypes DEF Close
<1> QED
  BY <1>2, <1>3, <1>4

\* one that makes the grant,
LEMMA ApproveGrantTypes ==
  ASSUME TypeOK, NEW h \in Handlers, ApproveGrant(h)
  PROVE  TypeOK'
<1> DEFINE r == handler[h].step.request
           g == [user |-> Beneficiary(r), role |-> request[r].ask.role,
                 request |-> r, status |-> "ACTIVE"]
<1>1. r \in Requests
  BY HandlerHolds DEF ApproveGrant, Final
<1>2. g \in Grant
  BY <1>1 DEF TypeOK, Row, Ask, Grant, Beneficiary, Requester, Optional
<1>3. grant' = Append(grant, g) /\ grant \in Seq(Grant)
  BY DEF ApproveGrant, TypeOK
<1> HIDE DEF g
<1>4. grant' \in Seq(Grant) /\ DOMAIN grant \subseteq DOMAIN grant'
  BY <1>2, <1>3, AppendProperties
<1>5. Final(h) /\ Close(h)
  BY DEF ApproveGrant
<1> QED
  BY <1>4, <1>5, CloseTypes DEF ApproveGrant, TypeOK

\* one that moves the end of a grant,
LEMMA ApproveExtensionTypes ==
  ASSUME TypeOK, NEW h \in Handlers, ApproveExtension(h)
  PROVE  TypeOK'
<1>1. Final(h) /\ Close(h) /\ grant' = grant
  BY DEF ApproveExtension
<1>2. request[handler[h].step.request].extends \in DOMAIN grant
  BY HandlerHolds DEF ApproveExtension, Final, TypeOK, Optional
<1>3. lapsed' \subseteq DOMAIN grant'
  BY <1>1, <1>2 DEF ApproveExtension, TypeOK
<1> QED
  BY <1>1, <1>3, CloseTypes DEF ApproveExtension, TypeOK

\* A status of a grant, and nothing else of the table, is set.
LEMMA SetStatusTypes ==
  ASSUME TypeOK, NEW g \in DOMAIN grant, NEW s \in {"EXPIRED", "REVOKED"},
         SetStatus(g, s)
  PROVE  grant' \in Seq(Grant) /\ DOMAIN grant' = DOMAIN grant
<1>1. grant \in Seq(Grant) /\ g \in 1..Len(grant)
  BY DEF TypeOK
<1>2. [grant[g] EXCEPT !.status = s] \in Grant
  <2>1. grant[g] \in Grant
    BY <1>1
  <2> QED
    BY <2>1 DEF Grant
<1>3. grant' = [grant EXCEPT ![g] = [grant[g] EXCEPT !.status = s]]
  BY DEF SetStatus
<1> QED
  BY <1>1, <1>2, <1>3, ExceptSeq

\* The steps that only touch the life of a grant, and the sweeper's.
LEMMA GrantLifeTypes ==
  ASSUME TypeOK,
         \/ \E h \in Handlers : RevokeWrite(h)
         \/ \E g \in DOMAIN grant : Lapse(g)
         \/ SweepRead \/ SweepWrite \/ SweepFault
  PROVE  TypeOK'
<1> USE DEF tables
<1>1. ASSUME NEW h \in Handlers, RevokeWrite(h) PROVE TypeOK'
  <2>1. grant' \in Seq(Grant) /\ DOMAIN grant' = DOMAIN grant
    BY <1>1, HandlerHolds, SetStatusTypes DEF RevokeWrite
  <2>2. handler' \in [Handlers -> Handler']
    BY <1>1, <2>1, FreedHandler DEF RevokeWrite, TypeOK
  <2> QED
    BY <1>1, <2>1, <2>2 DEF RevokeWrite, TypeOK, Optional
<1>2. ASSUME NEW g \in DOMAIN grant, Lapse(g) PROVE TypeOK'
  <2>1. ends < MaxEnds /\ ends' = ends + 1
    BY <1>2 DEF Lapse
  <2>2. ends' \in 0..MaxEnds
    BY <2>1, BoundAssumption DEF TypeOK
  <2>3. Handler' = Handler
    BY <1>2 DEF Lapse, Handler, HandlerShape, Free, Doing, Optional
  <2> QED
    BY <1>2, <2>2, <2>3 DEF Lapse, TypeOK
<1>3. ASSUME SweepRead \/ SweepFault PROVE TypeOK'
  <2>1. Handler' = Handler
    BY <1>3 DEF SweepRead, SweepFault, Handler, HandlerShape, Free, Doing, Optional
  <2> QED
    BY <1>3, <2>1 DEF SweepRead, SweepFault, Due, TypeOK
<1>4. ASSUME SweepWrite PROVE TypeOK'
  <2>1. PICK g \in sweep : SetStatus(g, "EXPIRED") /\ sweep' = sweep \ {g}
    BY <1>4 DEF SweepWrite
  <2>2. grant' \in Seq(Grant) /\ DOMAIN grant' = DOMAIN grant
    BY <2>1, SetStatusTypes DEF TypeOK
  <2>3. Handler' = Handler
    BY <1>4, <2>2 DEF SweepWrite, Handler, HandlerShape, Free, Doing, Optional
  <2> QED
    BY <1>4, <2>1, <2>2, <2>3 DEF SweepWrite, TypeOK
<1> QED
  BY <1>1, <1>2, <1>3, <1>4

\* and every other step.
LEMMA NextTypes ==
  ASSUME TypeOK, [Next]_vars
  PROVE  TypeOK'
<1>1. ASSUME NEW h \in Handlers, Client(h) PROVE TypeOK'
  BY <1>1, ReadStepTypes, SubmitTypes, WithdrawTypes DEF Client
<1>2. ASSUME NEW h \in Handlers, Approver(h) PROVE TypeOK'
  BY <1>2, ReadStepTypes, RejectTypes, ApproveLevelTypes, ApproveGrantTypes,
     ApproveExtensionTypes DEF Approver
<1>3. ASSUME NEW h \in Handlers, Administrator(h) PROVE TypeOK'
  BY <1>3, ReadStepTypes, GrantLifeTypes DEF Administrator
<1>4. ASSUME NEW h \in Handlers, Abandon(h) PROVE TypeOK'
  BY <1>4, ReadStepTypes
<1>5. CASE UNCHANGED vars
  <2>1. Handler' = Handler
    BY <1>5 DEF vars, Handler, HandlerShape, Free, Doing, Optional
  <2> QED
    BY <1>5, <2>1 DEF vars, TypeOK
<1> QED
  BY <1>1, <1>2, <1>3, <1>4, <1>5, GrantLifeTypes DEF Next

\* Every variable has its type: whatever handlers and the sweeper interleave,
\* none of them works on a row that does not exist.
THEOREM TypeCorrect == Spec => []TypeOK
<1>1. Init => TypeOK
  BY InitTypes
<1>2. TypeOK /\ [Next]_vars => TypeOK'
  BY NextTypes
<1> QED
  BY <1>1, <1>2, PTL DEF Spec

-----------------------------------------------------------------------------
(* The approvals of a chain, and what comes of the last one. *)

\* A row of a level is made once every level below it is approved.
StepsClimb ==
    \A s \in DOMAIN step : \A l \in 1..3 :
        l < s.level => ApprovedAt(s.request, l)

\* What Assess found is at least what the role alone asks for.
AssessedWell ==
    \A h \in Handlers :
        handler[h].op = "assessed" =>
            handler[h].levels >= LevelsOwed(request[handler[h].step.request].ask.role)

IInv == TypeOK /\ StepsClimb /\ AssessedWell
               /\ GrantsAreSignedOff /\ ApprovedIsGranted /\ OutcomesAreAudited

\* The invariant holds at the start.
LEMMA InitIInv == Init => IInv
<1> SUFFICES ASSUME Init PROVE IInv
  OBVIOUS
<1>1. TypeOK
  BY InitTypes
<1>2. StepsClimb /\ AssessedWell
  BY DEF Init, StepsClimb, AssessedWell, Free, Doing
<1>3. GrantsAreSignedOff
  BY GrantAssumption DEF Init, GrantsAreSignedOff
<1>4. ApprovedIsGranted /\ OutcomesAreAudited
  BY DEF Init, ApprovedIsGranted, OutcomesAreAudited
<1> QED
  BY <1>1, <1>2, <1>3, <1>4 DEF IInv

\* What no step undoes: the audit trail, what a request asks for, and whom,
\* what and by which request a grant gives.
Kept ==
    /\ decided \subseteq decided'
    /\ \A r \in Requests : request'[r].ask = request[r].ask
    /\ \A g \in DOMAIN grant : /\ g \in DOMAIN grant'
                               /\ grant'[g].user = grant[g].user
                               /\ grant'[g].role = grant[g].role
                               /\ grant'[g].request = grant[g].request

\* An approval stays in the trail.
LEMMA KeptApproval ==
  ASSUME Kept, NEW r, NEW l, ApprovedAt(r, l)
  PROVE  ApprovedAt(r, l)'
  BY DEF Kept, ApprovedAt

\* An assessed handler keeps a chain that is long enough.
LEMMA KeptAssessment ==
  ASSUME TypeOK, AssessedWell, Kept,
         \A h \in Handlers : handler'[h] = handler[h] \/ handler'[h].op # "assessed"
  PROVE  AssessedWell'
<1> SUFFICES ASSUME NEW h \in Handlers, handler'[h].op = "assessed"
             PROVE  handler'[h].levels >=
                        LevelsOwed(request'[handler'[h].step.request].ask.role)
  BY DEF AssessedWell
<1>1. handler'[h] = handler[h]
  OBVIOUS
<1>2. handler[h].step.request \in Requests
  BY <1>1, HandlerHolds
<1>3. request'[handler[h].step.request].ask = request[handler[h].step.request].ask
  BY <1>2 DEF Kept
<1> QED
  BY <1>1, <1>3 DEF AssessedWell

\* Steps that add no rows and change no status of a request, whatever they do
\* to the windows and statuses of grants.
LEMMA QuietIInv ==
  ASSUME IInv, TypeOK', Kept, AssessedWell', step' = step, request' = request,
         DOMAIN grant' = DOMAIN grant
  PROVE  IInv'
<1> USE DEF IInv
<1>1. StepsClimb'
  BY KeptApproval DEF StepsClimb
<1>2. GrantsAreSignedOff'
  <2> SUFFICES ASSUME NEW g \in DOMAIN grant, grant[g].request # Nothing,
                      NEW l \in 1..LevelsOwed(grant[g].role)
               PROVE  \E u \in Users : <<grant[g].request, l, u, "APPROVED">> \in decided'
    BY DEF GrantsAreSignedOff, Kept, ApprovedAt
  <2> QED
    BY DEF GrantsAreSignedOff, Kept, ApprovedAt
<1>3. ApprovedIsGranted'
  BY DEF ApprovedIsGranted, Kept, Beneficiary, Requester
<1>4. OutcomesAreAudited'
  <2>1. \A r \in Requests : request[r].status = "APPROVED" =>
            \A l \in 1..LevelsOwed(request[r].ask.role) : ApprovedAt(r, l)'
    BY KeptApproval DEF OutcomesAreAudited
  <2>2. \A r \in Requests : request[r].status = "REJECTED" =>
            \E l \in 1..3, u \in Users : <<r, l, u, "REJECTED">> \in decided'
    BY DEF OutcomesAreAudited, Kept
  <2> QED
    BY <2>1, <2>2 DEF OutcomesAreAudited
<1> QED
  BY <1>1, <1>2, <1>3, <1>4

\* The steps that only read, or give up, keep the invariant.
LEMMA ReadIInv ==
  ASSUME IInv, TypeOK', NEW h \in Handlers,
         \/ \E r \in Requests, g \in Optional(DOMAIN grant) : SubmitRead(h, r, g)
         \/ \E r \in Requests : WithdrawRead(h, r)
         \/ \E r \in Requests, g \in DOMAIN grant : ExtendRead(h, r, g)
         \/ \E s \in DOMAIN step : DecideRead(h, s)
         \/ \E g \in DOMAIN grant : RevokeRead(h, g)
         \/ ExtensionConflict(h) \/ Abandon(h)
  PROVE  IInv'
<1>1. UNCHANGED tables
  BY DEF SubmitRead, WithdrawRead, ExtendRead, DecideRead, RevokeRead,
         ExtensionConflict, Abandon
<1>2. Kept
  BY <1>1 DEF Kept, tables
<1>3. handler \in [Handlers -> Handler]
  BY DEF IInv, TypeOK
<1>4. \E d : d.op # "assessed" /\ handler' = [handler EXCEPT ![h] = d]
  BY DEF SubmitRead, WithdrawRead, ExtendRead, DecideRead, RevokeRead,
         ExtensionConflict, Abandon, Free, Doing
<1>5. AssessedWell'
  BY <1>2, <1>3, <1>4, KeptAssessment DEF IInv
<1> QED
  BY <1>1, <1>2, <1>5, QuietIInv DEF tables

\* The second evaluation of the matrix finds a chain that is long enough.
LEMMA AssessIInv ==
  ASSUME IInv, TypeOK', NEW h \in Handlers, Assess(h)
  PROVE  IInv'
<1> DEFINE role == request[handler[h].step.request].ask.role
           n == Levels(role, IsFlagged(Requester(handler[h].step.request), role))
<1>1. UNCHANGED tables
  BY DEF Assess
<1>2. Kept
  BY <1>1 DEF Kept, tables
<1>3. handler[h].step.request \in Requests
  BY HandlerHolds DEF IInv, Assess
<1>4. handler \in [Handlers -> Handler]
  BY DEF IInv, TypeOK
<1>5. n >= LevelsOwed(role)
  BY DEF Levels, LevelsOwed
<1>6. handler' = [handler EXCEPT ![h].op = "assessed", ![h].levels = n]
  BY DEF Assess
<1> HIDE DEF n
<1>7. handler[h] \in HandlerShape({"decide"}, {Nothing}, DOMAIN step, {Nothing}, {Nothing})
  BY <1>4 DEF Assess, Handler, HandlerShape, Free, Doing
<1>8. handler'[h].levels = n /\ handler'[h].step = handler[h].step
  BY <1>4, <1>6, <1>7 DEF HandlerShape
<1>9. AssessedWell'
  <2> SUFFICES ASSUME NEW k \in Handlers, handler'[k].op = "assessed"
               PROVE  handler'[k].levels >=
                          LevelsOwed(request'[handler'[k].step.request].ask.role)
    BY DEF AssessedWell
  <2>1. CASE k = h
    BY <2>1, <1>1, <1>5, <1>8 DEF tables
  <2>2. CASE k # h
    <3>1. handler'[k] = handler[k]
      BY <2>2, <1>4, <1>6
    <3> QED
      BY <3>1, <1>1 DEF IInv, AssessedWell, tables
  <2> QED
    BY <2>1, <2>2
<1> QED
  BY <1>1, <1>2, <1>9, QuietIInv DEF tables

\* What ends a grant leaves the requests and their trail alone.
LEMMA GrantLifeIInv ==
  ASSUME IInv, TypeOK',
         \/ \E h \in Handlers : RevokeWrite(h)
         \/ \E g \in DOMAIN grant : Lapse(g)
         \/ SweepRead \/ SweepWrite \/ SweepFault
  PROVE  IInv'
<1> USE DEF tables
<1>1. UNCHANGED <<request, step, decided>>
  BY DEF RevokeWrite, Lapse, SweepRead, SweepWrite, SweepFault
<1>2. \/ grant' = grant
      \/ \E g \in DOMAIN grant, s \in {"EXPIRED", "REVOKED"} : SetStatus(g, s)
  BY HandlerHolds DEF IInv, TypeOK, RevokeWrite, Lapse, SweepRead, SweepWrite, SweepFault
<1>3. \A g \in DOMAIN grant : grant[g] \in Grant
  BY DEF IInv, TypeOK
<1>4. Kept /\ DOMAIN grant' = DOMAIN grant
  <2>1. CASE grant' = grant
    BY <1>1, <2>1 DEF Kept
  <2>2. ASSUME NEW g \in DOMAIN grant, NEW s \in {"EXPIRED", "REVOKED"}, SetStatus(g, s)
        PROVE  Kept /\ DOMAIN grant' = DOMAIN grant
    BY <1>1, <1>3, <2>2 DEF Kept, SetStatus, Grant
  <2> QED
    BY <1>2, <2>1, <2>2
<1>5. \A h \in Handlers : handler'[h] = handler[h] \/ handler'[h].op # "assessed"
  <2>1. handler \in [Handlers -> Handler]
    BY DEF IInv, TypeOK
  <2>2. \/ handler' = handler
        \/ \E h \in Handlers : handler' = [handler EXCEPT ![h] = Free]
    BY DEF RevokeWrite, Lapse, SweepRead, SweepWrite, SweepFault
  <2> QED
    BY <2>1, <2>2 DEF Free, Doing
<1>6. AssessedWell'
  BY <1>4, <1>5, KeptAssessment DEF IInv
<1> QED
  BY <1>1, <1>4, <1>6, QuietIInv

\* A handler that has written is free, and no other has changed.
LEMMA FreedAssessment ==
  ASSUME IInv, Kept, NEW h \in Handlers, handler' = [handler EXCEPT ![h] = Free]
  PROVE  AssessedWell'
<1>1. \A k \in Handlers : handler'[k] = handler[k] \/ handler'[k].op # "assessed"
  BY DEF IInv, TypeOK, Free, Doing
<1> QED
  BY <1>1, KeptAssessment DEF IInv

\* Steps that grant nothing keep what is said of grants.
LEMMA KeptGrants ==
  ASSUME GrantsAreSignedOff, Kept, grant' = grant
  PROVE  GrantsAreSignedOff'
<1> SUFFICES ASSUME NEW g \in DOMAIN grant, grant[g].request # Nothing,
                    NEW l \in 1..LevelsOwed(grant[g].role)
             PROVE  \E u \in Users : <<grant[g].request, l, u, "APPROVED">> \in decided'
  BY DEF GrantsAreSignedOff, ApprovedAt
<1> QED
  BY DEF GrantsAreSignedOff, Kept, ApprovedAt

\* A request whose row is not written, and what is known of how it closed.
Accounted(r) ==
    /\ request[r].status = "APPROVED" =>
          \A l \in 1..LevelsOwed(request[r].ask.role) : ApprovedAt(r, l)
    /\ request[r].status = "REJECTED" =>
          \E l \in 1..3, u \in Users : <<r, l, u, "REJECTED">> \in decided

Provided(r) ==
    request[r].status = "APPROVED" /\ request[r].extends = Nothing =>
        \E g \in DOMAIN grant : /\ grant[g].request = r
                                /\ grant[g].user = Beneficiary(r)
                                /\ grant[g].role = request[r].ask.role

\* A request whose status stays is accounted and provided for as before.
LEMMA KeptRequest ==
  ASSUME IInv, Kept, NEW r \in Requests,
         request'[r].status = request[r].status, request'[r].extends = request[r].extends
  PROVE  Accounted(r)' /\ Provided(r)'
<1>1. request'[r].ask = request[r].ask
  BY DEF Kept
<1>2. request[r].status = "APPROVED" =>
          \A l \in 1..LevelsOwed(request[r].ask.role) : ApprovedAt(r, l)'
  BY KeptApproval DEF IInv, OutcomesAreAudited
<1>3. request[r].status = "REJECTED" =>
          \E l \in 1..3, u \in Users : <<r, l, u, "REJECTED">> \in decided'
  BY DEF IInv, OutcomesAreAudited, Kept
<1>4. Accounted(r)'
  BY <1>1, <1>2, <1>3 DEF Accounted
<1>5. Provided(r)'
  <2> SUFFICES ASSUME request[r].status = "APPROVED", request[r].extends = Nothing
               PROVE  \E g \in DOMAIN grant' : /\ grant'[g].request = r
                                               /\ grant'[g].user = Beneficiary(r)'
                                               /\ grant'[g].role = request'[r].ask.role
    BY DEF Provided
  <2>1. PICK g \in DOMAIN grant : /\ grant[g].request = r
                                 /\ grant[g].user = Beneficiary(r)
                                 /\ grant[g].role = request[r].ask.role
    BY DEF IInv, ApprovedIsGranted
  <2>2. Beneficiary(r)' = Beneficiary(r)
    BY <1>1 DEF Beneficiary, Requester
  <2> QED
    BY <1>1, <2>1, <2>2 DEF Kept
<1> QED
  BY <1>4, <1>5

\* A submission starts at a level below which there is nothing to approve.
LEMMA SubmitIInv ==
  ASSUME IInv, TypeOK', NEW h \in Handlers, SubmitWrite(h)
  PROVE  IInv'
<1> DEFINE r == handler[h].request
<1>1. r \in Requests
  BY HandlerHolds DEF IInv, SubmitWrite
<1>2. request \in [Requests -> Row]
  BY DEF IInv, TypeOK
<1>3. Kept
  BY <1>1, <1>2 DEF SubmitWrite, Kept, Row
<1>4. AssessedWell'
  BY <1>3, FreedAssessment DEF SubmitWrite
<1>5. StepsClimb'
  <2>1. DOMAIN step' = DOMAIN step \cup NewSteps(r, 1)
    BY DEF SubmitWrite, Assigned
  <2>2. \A s \in NewSteps(r, 1) : s.level = 1
    BY <1>1, NewStepsTypes DEF IInv
  <2> QED
    BY <2>1, <2>2, KeptApproval, <1>3 DEF IInv, StepsClimb
<1>6. GrantsAreSignedOff'
  BY <1>3, KeptGrants DEF IInv, SubmitWrite
<1>7. ASSUME NEW q \in Requests PROVE Accounted(q)' /\ Provided(q)'
  <2>1. CASE q = r
    <3>1. request'[q].status = "SUBMITTED"
      BY <1>1, <1>2, <2>1 DEF SubmitWrite, Row
    <3> QED
      BY <3>1 DEF Accounted, Provided
  <2>2. CASE q # r
    <3>1. request'[q] = request[q]
      BY <1>2, <2>2 DEF SubmitWrite
    <3> QED
      BY <1>3, <3>1, KeptRequest
  <2> QED
    BY <2>1, <2>2
<1>8. OutcomesAreAudited' /\ ApprovedIsGranted'
  BY <1>7 DEF Accounted, Provided, OutcomesAreAudited, ApprovedIsGranted
<1> QED
  BY <1>4, <1>5, <1>6, <1>8 DEF IInv

\* A withdrawal asks for no approval,
LEMMA WithdrawIInv ==
  ASSUME IInv, TypeOK', NEW h \in Handlers, WithdrawWrite(h)
  PROVE  IInv'
<1> DEFINE r == handler[h].request
<1>1. r \in Requests /\ request \in [Requests -> Row]
  BY HandlerHolds DEF IInv, TypeOK, WithdrawWrite
<1>2. Kept
  BY <1>1 DEF WithdrawWrite, Kept, Row
<1>3. AssessedWell'
  BY <1>2, FreedAssessment DEF WithdrawWrite
<1>4. StepsClimb'
  BY <1>2, KeptApproval DEF WithdrawWrite, IInv, StepsClimb
<1>5. GrantsAreSignedOff'
  BY <1>2, KeptGrants DEF IInv, WithdrawWrite
<1>6. ASSUME NEW q \in Requests PROVE Accounted(q)' /\ Provided(q)'
  <2>1. CASE q = r
    <3>1. request'[q].status = "WITHDRAWN"
      BY <1>1, <2>1 DEF WithdrawWrite, Row
    <3> QED
      BY <3>1 DEF Accounted, Provided
  <2>2. CASE q # r
    <3>1. request'[q] = request[q]
      BY <1>1, <2>2 DEF WithdrawWrite
    <3> QED
      BY <1>2, <3>1, KeptRequest
  <2> QED
    BY <2>1, <2>2
<1>7. OutcomesAreAudited' /\ ApprovedIsGranted'
  BY <1>6 DEF Accounted, Provided, OutcomesAreAudited, ApprovedIsGranted
<1> QED
  BY <1>3, <1>4, <1>5, <1>7 DEF IInv

\* What a decision adds to the audit trail, and that it loses nothing.
LEMMA RecordKeeps ==
  ASSUME NEW h, NEW d, Record(h, d)
  PROVE  /\ decided \subseteq decided'
         /\ <<handler[h].step.request, handler[h].step.level,
              handler[h].step.approver, d>> \in decided'
         /\ handler' = [handler EXCEPT ![h] = Free]
  BY DEF Record

\* a rejection writes its own event,
LEMMA RejectIInv ==
  ASSUME IInv, TypeOK', NEW h \in Handlers, Reject(h)
  PROVE  IInv'
<1> DEFINE s == handler[h].step
           r == s.request
<1>1. r \in Requests /\ s.level \in 1..3 /\ s.approver \in Users
  BY HandlerHolds DEF IInv, Reject
<1>2. request \in [Requests -> Row]
  BY DEF IInv, TypeOK
<1>3. /\ decided \subseteq decided'
      /\ <<r, s.level, s.approver, "REJECTED">> \in decided'
      /\ handler' = [handler EXCEPT ![h] = Free]
  BY RecordKeeps DEF Reject
<1>4. Kept
  BY <1>1, <1>2, <1>3 DEF Reject, Kept, Row
<1>5. AssessedWell'
  BY <1>3, <1>4, FreedAssessment
<1>6. StepsClimb'
  <2>1. DOMAIN step' = DOMAIN step
    BY DEF Reject, Decided
  <2> QED
    BY <1>4, <2>1, KeptApproval DEF IInv, StepsClimb
<1>7. GrantsAreSignedOff'
  BY <1>4, KeptGrants DEF IInv, Reject
<1>8. ASSUME NEW q \in Requests PROVE Accounted(q)' /\ Provided(q)'
  <2>1. CASE q = r
    <3>1. request'[q].status = "REJECTED"
      BY <1>1, <1>2, <2>1 DEF Reject, Row
    <3> QED
      BY <1>1, <1>3, <2>1, <3>1 DEF Accounted, Provided
  <2>2. CASE q # r
    <3>1. request'[q] = request[q]
      BY <1>2, <2>2 DEF Reject
    <3> QED
      BY <1>4, <3>1, KeptRequest
  <2> QED
    BY <2>1, <2>2
<1>9. OutcomesAreAudited' /\ ApprovedIsGranted'
  BY <1>8 DEF Accounted, Provided, OutcomesAreAudited, ApprovedIsGranted
<1> QED
  BY <1>5, <1>6, <1>7, <1>9 DEF IInv

\* an approval opens a level only after it is in the trail itself,
LEMMA ApproveLevelIInv ==
  ASSUME IInv, TypeOK', NEW h \in Handlers, ApproveLevel(h)
  PROVE  IInv'
<1> DEFINE s == handler[h].step
           r == s.request
           new == NewSteps(r, s.level + 1)
<1>1. /\ s \in DOMAIN step /\ r \in Requests /\ s.level \in 1..3
      /\ s.approver \in Users /\ handler[h].levels \in {2, 3}
  BY HandlerHolds DEF IInv, ApproveLevel
<1>2. request \in [Requests -> Row]
  BY DEF IInv, TypeOK
<1>3. /\ decided \subseteq decided'
      /\ <<r, s.level, s.approver, "APPROVED">> \in decided'
      /\ handler' = [handler EXCEPT ![h] = Free]
  BY RecordKeeps DEF ApproveLevel
<1>4. Kept
  BY <1>1, <1>2, <1>3 DEF ApproveLevel, Kept, Row
<1>5. AssessedWell'
  BY <1>3, <1>4, FreedAssessment
<1>6. \A l \in 1..3 : l <= s.level => \E u \in Users : <<r, l, u, "APPROVED">> \in decided'
  <2> SUFFICES ASSUME NEW l \in 1..3, l <= s.level PROVE \E u \in Users : <<r, l, u, "APPROVED">> \in decided'
    OBVIOUS
  <2>1. CASE l = s.level
    BY <1>1, <1>3, <2>1
  <2>2. CASE l < s.level
    <3>1. ApprovedAt(r, l)
      BY <1>1, <2>2 DEF IInv, StepsClimb
    <3> QED
      BY <1>3, <3>1 DEF ApprovedAt
  <2> QED
    BY <1>1, <2>1, <2>2
<1>7. StepsClimb'
  <2>1. DOMAIN step' = DOMAIN step \cup new
    BY DEF ApproveLevel, Assigned, Decided
  <2>2. s.level + 1 \in 1..3
    BY <1>1 DEF ApproveLevel
  <2>3. \A n \in new : n.request = r /\ n.level = s.level + 1
    BY <1>1, <2>2, NewStepsTypes DEF IInv
  <2> HIDE DEF new
  <2> SUFFICES ASSUME NEW n \in DOMAIN step', NEW l \in 1..3, l < n.level
               PROVE  ApprovedAt(n.request, l)'
    BY DEF StepsClimb
  <2>4. CASE n \in new
    BY <1>1, <1>6, <2>3, <2>4 DEF ApprovedAt
  <2>5. CASE n \in DOMAIN step
    BY <1>4, <2>5, KeptApproval DEF IInv, StepsClimb
  <2> QED
    BY <2>1, <2>4, <2>5
<1>8. GrantsAreSignedOff'
  BY <1>4, KeptGrants DEF IInv, ApproveLevel
<1>9. ASSUME NEW q \in Requests PROVE Accounted(q)' /\ Provided(q)'
  <2>1. /\ request'[q].status = request[q].status
        /\ request'[q].extends = request[q].extends
    BY <1>1, <1>2 DEF ApproveLevel, Row
  <2> QED
    BY <1>4, <2>1, KeptRequest
<1>10. OutcomesAreAudited' /\ ApprovedIsGranted'
  BY <1>9 DEF Accounted, Provided, OutcomesAreAudited, ApprovedIsGranted
<1> QED
  BY <1>5, <1>7, <1>8, <1>10 DEF IInv

\* The last approval completes the chain of its request.
LEMMA ChainComplete ==
  ASSUME IInv, NEW h \in Handlers, Final(h), Close(h),
         NEW l \in 1..LevelsOwed(request[handler[h].step.request].ask.role)
  PROVE  \E u \in Users : <<handler[h].step.request, l, u, "APPROVED">> \in decided'
<1> DEFINE s == handler[h].step
           role == request[s.request].ask.role
<1>1. /\ s \in DOMAIN step /\ s.level \in 1..3 /\ s.approver \in Users
      /\ handler[h].levels \in {2, 3}
  BY HandlerHolds DEF IInv, Final
<1>2. LevelsOwed(role) \in {2, 3}
  BY DEF LevelsOwed
<1>3. handler[h].levels >= LevelsOwed(role) /\ s.level >= handler[h].levels
  BY DEF IInv, AssessedWell, Final
<1>4. l \in 1..3 /\ l <= s.level
  BY <1>1, <1>2, <1>3
<1>5. /\ decided \subseteq decided'
      /\ <<s.request, s.level, s.approver, "APPROVED">> \in decided'
  BY RecordKeeps DEF Close
<1>6. CASE l = s.level
  BY <1>1, <1>5, <1>6
<1>7. CASE l < s.level
  <2>1. ApprovedAt(s.request, l)
    BY <1>1, <1>4, <1>7 DEF IInv, StepsClimb
  <2> QED
    BY <1>5, <2>1 DEF ApprovedAt
<1> QED
  BY <1>1, <1>4, <1>6, <1>7

\* What the last approval does to all but the grants and their status.
LEMMA CloseIInv ==
  ASSUME IInv, TypeOK', NEW h \in Handlers, Final(h), Close(h), Kept
  PROVE  /\ AssessedWell' /\ StepsClimb' /\ OutcomesAreAudited'
         /\ \A q \in Requests \ {handler[h].step.request} : Provided(q)'
<1> DEFINE r == handler[h].step.request
<1>1. r \in Requests
  BY HandlerHolds DEF IInv, Final
<1>2. request \in [Requests -> Row]
  BY DEF IInv, TypeOK
<1>3. AssessedWell'
  BY RecordKeeps, FreedAssessment DEF Close
<1>4. StepsClimb'
  <2>1. DOMAIN step' = DOMAIN step
    BY DEF Close, Decided
  <2> QED
    BY <2>1, KeptApproval DEF IInv, StepsClimb
<1>5. \A q \in Requests \ {r} : Accounted(q)' /\ Provided(q)'
  <2> SUFFICES ASSUME NEW q \in Requests, q # r PROVE Accounted(q)' /\ Provided(q)'
    OBVIOUS
  <2>1. request'[q] = request[q]
    BY <1>2 DEF Close
  <2> QED
    BY <2>1, KeptRequest
<1>6. ASSUME NEW q \in Requests, q = r PROVE Accounted(q)'
  <2>1. request'[q].status = "APPROVED" /\ request'[q].ask = request[q].ask
    BY <1>1, <1>2, <1>6 DEF Close, Row
  <2>2. \A l \in 1..LevelsOwed(request[q].ask.role) : ApprovedAt(q, l)'
    BY <1>6, ChainComplete DEF ApprovedAt
  <2> QED
    BY <2>1, <2>2 DEF Accounted
<1>7. OutcomesAreAudited'
  BY <1>5, <1>6 DEF Accounted, OutcomesAreAudited
<1> QED
  BY <1>3, <1>4, <1>5, <1>7

\* the last one makes the grant with the approvals of every level behind it,
LEMMA ApproveGrantIInv ==
  ASSUME IInv, TypeOK', NEW h \in Handlers, ApproveGrant(h)
  PROVE  IInv'
<1> DEFINE n == Len(grant) + 1
<1>1. PICK r \in Requests : r = handler[h].step.request
  BY HandlerHolds DEF IInv, ApproveGrant, Final
<1> DEFINE g == [user |-> Beneficiary(r), role |-> request[r].ask.role,
                 request |-> r, status |-> "ACTIVE"]
<1>2. request \in [Requests -> Row] /\ grant \in Seq(Grant)
  BY DEF IInv, TypeOK
<1>3. Final(h) /\ Close(h) /\ grant' = Append(grant, g)
  BY <1>1 DEF ApproveGrant
<1>4. g \in Grant
  BY <1>1, <1>2 DEF Row, Ask, Grant, Beneficiary, Requester, Optional
<1> HIDE DEF g
<1>5. /\ DOMAIN grant' = DOMAIN grant \cup {n} /\ n \notin DOMAIN grant
      /\ grant'[n] = g
      /\ \A k \in DOMAIN grant : grant'[k] = grant[k]
  BY <1>2, <1>3, <1>4, AppendProperties
<1>6. decided \subseteq decided' /\ \A q \in Requests : request'[q].ask = request[q].ask
  BY <1>1, <1>2, <1>3, RecordKeeps DEF Close, Row
<1>7. Kept
  BY <1>5, <1>6 DEF Kept
<1>8. /\ AssessedWell' /\ StepsClimb' /\ OutcomesAreAudited'
      /\ \A q \in Requests \ {r} : Provided(q)'
  BY <1>1, <1>3, <1>7, CloseIInv
<1>9. g.request = r /\ g.role = request[r].ask.role /\ g.user = Beneficiary(r)
  BY DEF g
<1>10. GrantsAreSignedOff'
  <2> SUFFICES ASSUME NEW k \in DOMAIN grant', grant'[k].request # Nothing,
                      NEW l \in 1..LevelsOwed(grant'[k].role)
               PROVE  \E u \in Users : <<grant'[k].request, l, u, "APPROVED">> \in decided'
    BY DEF GrantsAreSignedOff, ApprovedAt
  <2>1. CASE k = n
    BY <1>1, <1>3, <1>5, <1>9, <2>1, ChainComplete
  <2>2. CASE k \in DOMAIN grant
    BY <1>5, <1>6, <2>2 DEF IInv, GrantsAreSignedOff, ApprovedAt
  <2> QED
    BY <1>5, <2>1, <2>2
<1>11. Provided(r)'
  <2>1. Beneficiary(r)' = Beneficiary(r)
    BY <1>6 DEF Beneficiary, Requester
  <2> QED
    BY <1>5, <1>6, <1>9, <2>1 DEF Provided
<1>12. ApprovedIsGranted'
  BY <1>8, <1>11 DEF Provided, ApprovedIsGranted
<1> QED
  BY <1>8, <1>10, <1>12 DEF IInv

\* and that of an extension makes none.
LEMMA ApproveExtensionIInv ==
  ASSUME IInv, TypeOK', NEW h \in Handlers, ApproveExtension(h)
  PROVE  IInv'
<1>1. PICK r \in Requests : r = handler[h].step.request
  BY HandlerHolds DEF IInv, ApproveExtension, Final
<1>2. request \in [Requests -> Row]
  BY DEF IInv, TypeOK
<1>3. Final(h) /\ Close(h) /\ grant' = grant /\ request[r].extends # Nothing
  BY <1>1 DEF ApproveExtension
<1>4. Kept
  BY <1>1, <1>2, <1>3, RecordKeeps DEF Kept, Close, Row
<1>5. /\ AssessedWell' /\ StepsClimb' /\ OutcomesAreAudited'
      /\ \A q \in Requests \ {r} : Provided(q)'
  BY <1>1, <1>3, <1>4, CloseIInv
<1>6. GrantsAreSignedOff'
  BY <1>3, <1>4, KeptGrants DEF IInv
<1>7. Provided(r)'
  BY <1>1, <1>2, <1>3 DEF Close, Provided, Row
<1>8. ApprovedIsGranted'
  BY <1>5, <1>7 DEF Provided, ApprovedIsGranted
<1> QED
  BY <1>5, <1>6, <1>8 DEF IInv

\* Every step keeps the invariant.
LEMMA NextIInv ==
  ASSUME IInv, [Next]_vars
  PROVE  IInv'
<1>1. TypeOK'
  BY NextTypes DEF IInv
<1>2. ASSUME NEW h \in Handlers, Client(h) PROVE IInv'
  BY <1>1, <1>2, ReadIInv, SubmitIInv, WithdrawIInv DEF Client
<1>3. ASSUME NEW h \in Handlers, Approver(h) PROVE IInv'
  BY <1>1, <1>3, ReadIInv, AssessIInv, RejectIInv, ApproveLevelIInv, ApproveGrantIInv,
     ApproveExtensionIInv DEF Approver
<1>4. ASSUME NEW h \in Handlers, Administrator(h) PROVE IInv'
  BY <1>1, <1>4, ReadIInv, GrantLifeIInv DEF Administrator
<1>5. ASSUME NEW h \in Handlers, Abandon(h) PROVE IInv'
  BY <1>1, <1>5, ReadIInv
<1>6. CASE UNCHANGED vars
  <2>1. Kept /\ UNCHANGED <<request, step, grant, handler>>
    BY <1>6 DEF vars, Kept
  <2>2. AssessedWell'
    BY <2>1, KeptAssessment DEF IInv
  <2> QED
    BY <1>1, <2>1, <2>2, QuietIInv
<1> QED
  BY <1>1, <1>2, <1>3, <1>4, <1>5, <1>6, GrantLifeIInv DEF Next

\* So it holds.
LEMMA Invariance == Spec => []IInv
<1>1. Init => IInv
  BY InitIInv
<1>2. IInv /\ [Next]_vars => IInv'
  BY NextIInv
<1> QED
  BY <1>1, <1>2, PTL DEF Spec

\* However many approvers, tabs, withdrawals and revocations race, every role
\* given by a request has in the audit trail the approvals of its chain.
THEOREM SignedOff == Spec => []GrantsAreSignedOff
<1>1. IInv => GrantsAreSignedOff
  BY DEF IInv
<1> QED
  BY <1>1, Invariance, PTL

\* The approval that closes a request and the grant it promises are never
\* seen apart, also by a handler that fails.
THEOREM Granted == Spec => []ApprovedIsGranted
<1>1. IInv => ApprovedIsGranted
  BY DEF IInv
<1> QED
  BY <1>1, Invariance, PTL

\* An approved or rejected request is so by what the audit trail shows.
THEOREM Audited == Spec => []OutcomesAreAudited
<1>1. IInv => OutcomesAreAudited
  BY DEF IInv
<1> QED
  BY <1>1, Invariance, PTL
=============================================================================
