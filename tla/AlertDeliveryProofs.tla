------------------------ MODULE AlertDeliveryProofs ------------------------
(***************************************************************************)
(* What price alerts and their delivery guarantee for every number of      *)
(* rules, events, users, prices and failures: a rule fires at most once,   *)
(* and nobody is told of an alert that is not in the audit trail.          *)
(***************************************************************************)
EXTENDS AlertDelivery, SetLemmas, SequenceTheorems

-----------------------------------------------------------------------------
(* The invariant. *)

\* An alert takes its rule out of ACTIVE, and only a rule without an alert is
\* in the hands of the evaluator when it is about to write.
AlertedIsClosed ==
    \A r \in Rules : /\ alerts[r] \in {0, 1}
                     /\ alerts[r] = 1 => rule[r].status \in {"TRIGGERED", "DISABLED"}

WritesAreFirst ==
    evaluator.at = "write" =>
        \A r \in evaluator.live : alerts[r] = 0 /\ rule[r].status # "NONE"

\* An event of a rule is posted with its alert, and only what is posted is
\* queued, shown, mailed or lost.
PostedIsAudited == \A r \in Rules : outbox[r] # "none" => alerts[r] = 1

QueuedIsPosted == \A i \in DOMAIN stream : outbox[stream[i]] # "none"

Untold(e) == inbox[e] = [unread |-> 0, read |-> 0] /\ outcome[e] = {}

ToldIsPosted == \A e \in Events : outbox[e] = "none" => Untold(e)

DeliveryTypes == /\ stream \in Seq(Events)
                 /\ DOMAIN inbox = Events /\ DOMAIN outcome = Events

Firing    == AlertTypeOK /\ AlertedIsClosed /\ WritesAreFirst
Telling   == DeliveryTypes /\ QueuedIsPosted /\ ToldIsPosted
IInv      == Firing /\ PostedIsAudited /\ Telling

-----------------------------------------------------------------------------
(* Endpoints and ticks. *)

\* The invariant holds at the start.
LEMMA InitInv == DeliveryInit => IInv
<1> SUFFICES ASSUME DeliveryInit PROVE IInv
  OBVIOUS
<1>1. AlertTypeOK
  <2>1. rule \in [Rules -> [status : {"NONE", "ACTIVE", "TRIGGERED", "DISABLED"}, terms : Terms]]
    BY DEF DeliveryInit, Init
  <2>2. ticks \in Seq(Prices) /\ Len(ticks) <= MaxQueue /\ faults \in 0..MaxFaults
    BY AlertBoundAssumption DEF DeliveryInit, Init
  <2>3. evaluator \in [at : {"idle", "load", "fire", "write"}, price : Optional(Prices),
                       prev : Optional(Prices), rules : SUBSET Rules, live : SUBSET Rules]
    BY DEF DeliveryInit, Init, Idle, Work, Optional
  <2> QED
    BY <2>1, <2>2, <2>3 DEF DeliveryInit, Init, AlertTypeOK, Optional
<1>2. AlertedIsClosed /\ WritesAreFirst /\ PostedIsAudited
  BY RuleAssumption DEF DeliveryInit, Init, AlertedIsClosed, WritesAreFirst, PostedIsAudited, Idle, Work
<1>3. Telling
  BY DEF DeliveryInit, N!Init, Telling, DeliveryTypes, QueuedIsPosted, ToldIsPosted, Untold
<1> QED
  BY <1>1, <1>2, <1>3 DEF IInv, Firing

\* A new rule has no alert.
LEMMA CreateKeeps ==
  ASSUME IInv, NEW r \in Rules, CreateAlert(r)
  PROVE  Firing'
<1>1. AlertTypeOK'
  BY DEF IInv, Firing, AlertTypeOK, CreateAlert
<1>2. AlertedIsClosed' /\ WritesAreFirst'
  BY DEF IInv, Firing, AlertTypeOK, AlertedIsClosed, WritesAreFirst, CreateAlert
<1> QED
  BY <1>1, <1>2 DEF Firing

\* Disabling a rule makes no alert and never an ACTIVE rule.
LEMMA DisableKeeps ==
  ASSUME IInv, NEW r \in Rules, DisableRead(r) \/ DisableCommit(r) \/ Invalidate(r)
  PROVE  Firing'
<1>1. CASE DisableRead(r)
  BY <1>1 DEF IInv, Firing, AlertTypeOK, AlertedIsClosed, WritesAreFirst, DisableRead
<1>2. CASE DisableCommit(r)
  <2>1. AlertTypeOK'
    BY <1>2 DEF IInv, Firing, AlertTypeOK, DisableCommit
  <2>2. AlertedIsClosed' /\ WritesAreFirst'
    BY <1>2 DEF IInv, Firing, AlertTypeOK, AlertedIsClosed, WritesAreFirst, DisableCommit
  <2> QED
    BY <2>1, <2>2 DEF Firing
<1>3. CASE Invalidate(r)
  BY <1>3 DEF IInv, Firing, AlertTypeOK, AlertedIsClosed, WritesAreFirst, Invalidate
<1> QED
  BY <1>1, <1>2, <1>3

\* A tick waits for the evaluator.
LEMMA TickKeeps ==
  ASSUME IInv, NEW p \in Prices, Tick(p)
  PROVE  Firing'
<1>1. ticks' \in Seq(Prices) /\ Len(ticks') <= MaxQueue
  BY AppendProperties, AlertBoundAssumption DEF IInv, Firing, AlertTypeOK, Tick
<1> QED
  BY <1>1 DEF IInv, Firing, AlertTypeOK, AlertedIsClosed, WritesAreFirst, Tick

-----------------------------------------------------------------------------
(* The evaluator. *)

\* What handle_tick goes on with after it has its rules.
LEMMA EvaluateTypes ==
  ASSUME NEW S \in SUBSET Rules, NEW p, NEW q, Evaluate(S, p, q)
  PROVE  /\ evaluator' \in [at : {"idle", "load", "fire", "write"}, price : Optional(Prices),
                            prev : Optional(Prices), rules : SUBSET Rules, live : SUBSET Rules]
         /\ evaluator'.at # "write"
  BY DEF Evaluate, Due, Work, Idle, Optional

\* The next tick is a price.
LEMMA NextTickTypes ==
  ASSUME AlertTypeOK, NextTick
  PROVE  /\ ticks' \in Seq(Prices) /\ Len(ticks') <= MaxQueue
         /\ last' \in Prices /\ Head(ticks) \in Prices
  BY HeadTailProperties, AlertBoundAssumption DEF AlertTypeOK, NextTick

\* A tick on the cache chooses among rules it has still to read.
LEMMA TickOnCacheKeeps ==
  ASSUME IInv, TickOnCache
  PROVE  Firing'
<1>1. AlertTypeOK /\ cache \in SUBSET Rules /\ NextTick
  BY DEF IInv, Firing, AlertTypeOK, TickOnCache
<1>2. /\ evaluator' \in [at : {"idle", "load", "fire", "write"}, price : Optional(Prices),
                         prev : Optional(Prices), rules : SUBSET Rules, live : SUBSET Rules]
      /\ evaluator'.at # "write"
  BY <1>1, EvaluateTypes DEF TickOnCache
<1>3. ticks' \in Seq(Prices) /\ Len(ticks') <= MaxQueue /\ last' \in Prices
  BY <1>1, NextTickTypes
<1> QED
  BY <1>1, <1>2, <1>3
  DEF IInv, Firing, AlertTypeOK, AlertedIsClosed, WritesAreFirst, TickOnCache, Optional

\* A reload reads the rules,
LEMMA TickReloadKeeps ==
  ASSUME IInv, TickReload
  PROVE  Firing'
<1>1. AlertTypeOK /\ NextTick
  BY DEF IInv, Firing, TickReload
<1>2. /\ ticks' \in Seq(Prices) /\ Len(ticks') <= MaxQueue
      /\ last' \in Prices /\ Head(ticks) \in Prices
  BY <1>1, NextTickTypes
<1>3. /\ evaluator' \in [at : {"idle", "load", "fire", "write"}, price : Optional(Prices),
                         prev : Optional(Prices), rules : SUBSET Rules, live : SUBSET Rules]
      /\ evaluator'.at # "write"
  BY <1>1, <1>2 DEF TickReload, Work, Active, Optional, AlertTypeOK
<1> QED
  BY <1>1, <1>2, <1>3
  DEF IInv, Firing, AlertTypeOK, AlertedIsClosed, WritesAreFirst, TickReload, Optional

\* and stores what it has read.
LEMMA StoreKeeps ==
  ASSUME IInv, Store
  PROVE  Firing'
<1>1. AlertTypeOK /\ evaluator.rules \in SUBSET Rules
  BY DEF IInv, Firing, AlertTypeOK
<1>2. /\ evaluator' \in [at : {"idle", "load", "fire", "write"}, price : Optional(Prices),
                         prev : Optional(Prices), rules : SUBSET Rules, live : SUBSET Rules]
      /\ evaluator'.at # "write"
  BY <1>1, EvaluateTypes DEF Store
<1> QED
  BY <1>1, <1>2 DEF IInv, Firing, AlertTypeOK, AlertedIsClosed, WritesAreFirst, Store

\* What is read ACTIVE has no alert.
LEMMA FireReadKeeps ==
  ASSUME IInv, FireRead
  PROVE  Firing'
<1>1. AlertTypeOK'
  BY DEF IInv, Firing, AlertTypeOK, FireRead
<1>2. \A r \in evaluator'.live : r \in Rules /\ rule[r].status = "ACTIVE"
  BY DEF IInv, Firing, AlertTypeOK, FireRead, Active
<1>3. \A r \in evaluator'.live : alerts[r] = 0
  BY <1>2 DEF IInv, Firing, AlertedIsClosed
<1> QED
  BY <1>1, <1>2, <1>3 DEF IInv, Firing, AlertedIsClosed, WritesAreFirst, FireRead

\* Posting keeps the types of the outbox.
LEMMA PostedTypes ==
  ASSUME NEW S, outbox \in [Events -> {"none", "new", "published"}]
  PROVE  Posted(S) \in [Events -> {"none", "new", "published"}]
  BY DEF Posted

\* A firing makes the alert, the event and the status in one commit.
LEMMA FireCommitKeeps ==
  ASSUME IInv, FireCommit
  PROVE  Firing' /\ PostedIsAudited'
<1>1. /\ AlertTypeOK /\ evaluator.live \in SUBSET Rules
      /\ \A r \in evaluator.live : alerts[r] = 0
  BY DEF IInv, Firing, AlertTypeOK, WritesAreFirst, FireCommit
<1>2. \A r \in Rules :
         /\ r \in evaluator.live => alerts'[r] = 1 /\ rule'[r].status = "TRIGGERED"
         /\ r \notin evaluator.live => alerts'[r] = alerts[r] /\ rule'[r] = rule[r]
  BY <1>1 DEF FireCommit, AlertTypeOK
<1>3. AlertTypeOK'
  <2>1. rule' \in [Rules -> [status : {"NONE", "ACTIVE", "TRIGGERED", "DISABLED"}, terms : Terms]]
    BY <1>1 DEF FireCommit, AlertTypeOK
  <2>2. alerts' \in [Rules -> Nat]
    BY <1>1 DEF FireCommit, AlertTypeOK
  <2>3. outbox' \in [Events -> {"none", "new", "published"}]
    BY <1>1, PostedTypes DEF FireCommit, AlertTypeOK
  <2>4. evaluator' \in [at : {"idle", "load", "fire", "write"}, price : Optional(Prices),
                        prev : Optional(Prices), rules : SUBSET Rules, live : SUBSET Rules]
    BY DEF FireCommit, Idle, Work, Optional
  <2> QED
    BY <1>1, <2>1, <2>2, <2>3, <2>4 DEF FireCommit, AlertTypeOK
<1>4. AlertedIsClosed'
  BY <1>2 DEF IInv, Firing, AlertedIsClosed
<1>5. WritesAreFirst'
  BY DEF FireCommit, WritesAreFirst, Idle, Work
<1>6. PostedIsAudited'
  BY <1>2, RuleAssumption DEF FireCommit, Posted, PostedIsAudited, IInv
<1> QED
  BY <1>3, <1>4, <1>5, <1>6 DEF Firing

\* A failure of the evaluator makes nothing.
LEMMA EvaluatorFaultKeeps ==
  ASSUME IInv, EvaluatorFault
  PROVE  Firing'
<1>1. AlertTypeOK'
  BY AlertBoundAssumption DEF IInv, Firing, AlertTypeOK, EvaluatorFault, Idle, Work, Optional
<1> QED
  BY <1>1 DEF IInv, Firing, AlertedIsClosed, WritesAreFirst, EvaluatorFault, Idle, Work

-----------------------------------------------------------------------------
(* Every step of the alerts, with the outbox they share. *)

\* No step of the alerts breaks what is known of firings.
LEMMA AlertStepFires ==
  ASSUME IInv, AlertStep
  PROVE  Firing' /\ PostedIsAudited'
<1>1. CASE FireCommit
  BY <1>1, FireCommitKeeps
<1>2. CASE \E r \in Rules : CreateAlert(r)
  <2> PICK r \in Rules : CreateAlert(r)
    BY <1>2
  <2>1. Firing'
    BY CreateKeeps
  <2> QED
    BY <2>1 DEF IInv, PostedIsAudited, CreateAlert
<1>3. CASE \E r \in Rules : DisableRead(r) \/ DisableCommit(r) \/ Invalidate(r)
  <2> PICK r \in Rules : DisableRead(r) \/ DisableCommit(r) \/ Invalidate(r)
    BY <1>3
  <2>1. Firing'
    BY DisableKeeps
  <2>2. UNCHANGED <<alerts, outbox>>
    BY DEF DisableRead, DisableCommit, Invalidate
  <2> QED
    BY <2>1, <2>2 DEF IInv, PostedIsAudited
<1>4. CASE \E p \in Prices : Tick(p)
  <2> PICK p \in Prices : Tick(p)
    BY <1>4
  <2>1. Firing'
    BY TickKeeps
  <2> QED
    BY <2>1 DEF IInv, PostedIsAudited, Tick
<1>5. CASE Age
  BY <1>5 DEF Age, IInv, Firing, AlertTypeOK, AlertedIsClosed, WritesAreFirst, PostedIsAudited
<1>6. CASE TickOnCache
  BY <1>6, TickOnCacheKeeps DEF TickOnCache, IInv, PostedIsAudited
<1>7. CASE TickReload
  BY <1>7, TickReloadKeeps DEF TickReload, IInv, PostedIsAudited
<1>8. CASE Store
  BY <1>8, StoreKeeps DEF Store, IInv, PostedIsAudited
<1>9. CASE FireRead
  BY <1>9, FireReadKeeps DEF FireRead, IInv, PostedIsAudited
<1>10. CASE EvaluatorFault
  BY <1>10, EvaluatorFaultKeeps DEF EvaluatorFault, IInv, PostedIsAudited
<1> QED
  BY <1>1, <1>2, <1>3, <1>4, <1>5, <1>6, <1>7, <1>8, <1>9, <1>10 DEF AlertStep, Evaluator

\* What is posted stays posted, and nothing is posted without a step of the
\* outbox: the delivery keeps what it knows of events.
LEMMA PostingTells ==
  ASSUME Telling, UNCHANGED <<stream, inbox, outcome>>,
         \A e \in Events : outbox[e] # "none" => outbox'[e] # "none"
  PROVE  Telling'
<1>1. DeliveryTypes' /\ \A i \in DOMAIN stream : stream[i] \in Events
  BY DEF Telling, DeliveryTypes
<1>2. QueuedIsPosted'
  BY <1>1 DEF Telling, QueuedIsPosted
<1>3. ToldIsPosted'
  BY DEF Telling, ToldIsPosted, Untold
<1> QED
  BY <1>1, <1>2, <1>3 DEF Telling

\* No step of the alerts takes an event back.
LEMMA OutboxGrows ==
  ASSUME IInv, AlertStep
  PROVE  \A e \in Events : outbox[e] # "none" => outbox'[e] # "none"
<1>1. CASE FireCommit
  BY <1>1 DEF FireCommit, Posted
<1>2. CASE UNCHANGED outbox
  BY <1>2
<1> QED
  BY <1>1, <1>2 DEF AlertStep, CreateAlert, DisableRead, DisableCommit, Invalidate, Tick, Age,
     Evaluator, TickOnCache, TickReload, Store, FireRead, EvaluatorFault

\* So each of them keeps the invariant.
LEMMA AlertStepKeeps ==
  ASSUME IInv, AlertStep, Alone
  PROVE  IInv'
<1>1. Telling'
  BY OutboxGrows, PostingTells DEF Alone, deliveryVars, IInv
<1> QED
  BY <1>1, AlertStepFires DEF IInv

-----------------------------------------------------------------------------
(* The relay, the delivery and the endpoints of notifications. *)

\* None of them touches the alerts.
LEMMA DeliveryLeavesAlerts ==
  ASSUME IInv, UNCHANGED alertVars, faults' \in 0..MaxFaults,
         outbox' \in [Events -> {"none", "new", "published"}],
         \A r \in Rules : outbox'[r] # "none" => outbox[r] # "none"
  PROVE  Firing' /\ PostedIsAudited'
<1>1. Firing'
  BY DEF IInv, Firing, alertVars, AlertTypeOK, AlertedIsClosed, WritesAreFirst
<1>2. PostedIsAudited'
  BY DEF IInv, alertVars, PostedIsAudited
<1> QED
  BY <1>1, <1>2

\* The relay queues only what is posted.
LEMMA RelayKeeps ==
  ASSUME IInv, UNCHANGED alertVars, NEW e \in Events, N!Relay(e) \/ N!RelayUnmarked(e)
  PROVE  IInv'
<1>1. /\ outbox \in [Events -> {"none", "new", "published"}] /\ faults \in 0..MaxFaults
      /\ outbox[e] = "new" /\ stream \in Seq(Events) /\ Telling
  BY DEF IInv, Firing, AlertTypeOK, Telling, DeliveryTypes, N!Relay, N!RelayUnmarked
<1>2. /\ outbox' \in [Events -> {"none", "new", "published"}]
      /\ \A d \in Events : outbox'[d] = "none" <=> outbox[d] = "none"
      /\ faults' \in 0..MaxFaults
  BY <1>1, AlertBoundAssumption DEF N!Relay, N!RelayUnmarked
<1>3. stream' = Append(stream, e) /\ UNCHANGED <<inbox, outcome>>
  BY DEF N!Relay, N!RelayUnmarked
<1>4. stream' \in Seq(Events) /\ \A i \in DOMAIN stream' : stream'[i] = e \/ (i \in DOMAIN stream /\ stream'[i] = stream[i])
  BY <1>1, <1>3, AppendProperties
<1>5. \A i \in DOMAIN stream : stream[i] \in Events
  BY <1>1
<1>6. QueuedIsPosted'
  BY <1>1, <1>2, <1>4, <1>5 DEF Telling, QueuedIsPosted
<1>7. Telling'
  BY <1>1, <1>2, <1>3, <1>4, <1>6 DEF Telling, DeliveryTypes, ToldIsPosted, Untold
<1>8. Firing' /\ PostedIsAudited'
  BY <1>2, DeliveryLeavesAlerts, RuleAssumption
<1> QED
  BY <1>7, <1>8 DEF IInv

\* An event that is taken from the queue is posted.
LEMMA TakingKeeps ==
  ASSUME IInv, UNCHANGED alertVars, N!Deliver \/ N!DeliverFault
  PROVE  IInv'
<1>1. /\ outbox \in [Events -> {"none", "new", "published"}] /\ faults \in 0..MaxFaults
      /\ stream \in Seq(Events) /\ stream # <<>> /\ Telling
      /\ DOMAIN inbox = Events /\ DOMAIN outcome = Events
  BY DEF IInv, Firing, AlertTypeOK, Telling, DeliveryTypes, N!Deliver, N!DeliverFault
<1> DEFINE h == Head(stream)
<1>2. h \in Events /\ outbox[h] # "none"
  BY <1>1, HeadTailProperties DEF Telling, QueuedIsPosted
<1>3. /\ UNCHANGED outbox /\ faults' \in 0..MaxFaults /\ stream' = Tail(stream)
  BY <1>1, AlertBoundAssumption DEF N!Deliver, N!DeliverFault
<1>4. /\ DOMAIN inbox' = Events /\ DOMAIN outcome' = Events
      /\ \A e \in Events \ {h} : inbox'[e] = inbox[e] /\ outcome'[e] = outcome[e]
  BY <1>1 DEF N!Deliver, N!DeliverFault
<1>5. stream' \in Seq(Events) /\ \A i \in DOMAIN stream' : i + 1 \in DOMAIN stream /\ stream'[i] = stream[i + 1]
  BY <1>1, <1>3, HeadTailProperties
<1>6. QueuedIsPosted'
  BY <1>1, <1>3, <1>5 DEF Telling, QueuedIsPosted
<1>7. ToldIsPosted'
  BY <1>1, <1>2, <1>3, <1>4 DEF Telling, ToldIsPosted, Untold
<1>8. Firing' /\ PostedIsAudited'
  BY <1>1, <1>3, DeliveryLeavesAlerts
<1> QED
  BY <1>4, <1>5, <1>6, <1>7, <1>8 DEF IInv, Telling, DeliveryTypes

\* Nothing is there to be read of an event nobody was told of.
LEMMA MarkReadKeeps ==
  ASSUME IInv, UNCHANGED alertVars, NEW e \in Events, N!MarkRead(e)
  PROVE  IInv'
<1>1. /\ outbox \in [Events -> {"none", "new", "published"}] /\ faults \in 0..MaxFaults
      /\ Telling /\ DOMAIN inbox = Events
  BY DEF IInv, Firing, AlertTypeOK, Telling, DeliveryTypes
<1>2. /\ UNCHANGED <<outbox, faults, stream, outcome>> /\ DOMAIN inbox' = Events
      /\ \A d \in Events \ {e} : inbox'[d] = inbox[d]
      /\ inbox[e].unread > 0
  BY <1>1 DEF N!MarkRead
<1>3. outbox[e] # "none"
  BY <1>1, <1>2 DEF Telling, ToldIsPosted, Untold
<1>4. Telling'
  BY <1>1, <1>2, <1>3 DEF Telling, DeliveryTypes, QueuedIsPosted, ToldIsPosted, Untold
<1>5. Firing' /\ PostedIsAudited'
  BY <1>1, <1>2, DeliveryLeavesAlerts
<1> QED
  BY <1>4, <1>5 DEF IInv

\* Preferences are no part of it.
LEMMA PatchKeeps ==
  ASSUME IInv, UNCHANGED alertVars, NEW u \in Users, NEW p \in Patches, N!PatchPreferences(u, p)
  PROVE  IInv'
<1>1. UNCHANGED <<outbox, faults, stream, inbox, outcome>>
  BY DEF N!PatchPreferences
<1>2. outbox \in [Events -> {"none", "new", "published"}] /\ faults \in 0..MaxFaults
  BY DEF IInv, Firing, AlertTypeOK
<1>3. Firing' /\ PostedIsAudited'
  BY <1>1, <1>2, DeliveryLeavesAlerts
<1>4. Telling'
  BY <1>1, PostingTells DEF IInv
<1> QED
  BY <1>3, <1>4 DEF IInv

-----------------------------------------------------------------------------
(* The other modules and the process. *)

\* An event of another module is no rule.
LEMMA PostKeeps ==
  ASSUME IInv, NEW e \in Events \ Rules, Post(e)
  PROVE  IInv'
<1>1. /\ outbox \in [Events -> {"none", "new", "published"}]
      /\ faults \in 0..MaxFaults /\ Telling
  BY DEF IInv, Firing, AlertTypeOK
<1>2. outbox' = Posted({e}) /\ UNCHANGED <<alertVars, faults, stream, inbox, outcome>>
  BY DEF Post, deliveryVars
<1>3. outbox' \in [Events -> {"none", "new", "published"}]
  BY <1>1, <1>2, PostedTypes
<1>4. \A d \in Events : outbox[d] # "none" => outbox'[d] # "none"
  BY <1>2 DEF Posted
<1>5. \A r \in Rules : outbox'[r] # "none" => outbox[r] # "none"
  BY <1>2, RuleAssumption DEF Posted
<1>6. Firing' /\ PostedIsAudited'
  BY <1>1, <1>2, <1>3, <1>5, DeliveryLeavesAlerts
<1>7. Telling'
  BY <1>1, <1>2, <1>4, PostingTells
<1> QED
  BY <1>6, <1>7 DEF IInv

\* A queued event that is lost was posted.
LEMMA RestartKeeps ==
  ASSUME IInv, Restart
  PROVE  IInv'
<1>1. AlertTypeOK'
  <2>1. /\ ticks' \in Seq(Prices) /\ Len(ticks') <= MaxQueue
        /\ request' \in [Rules -> {"idle", "disable", "stale"}]
    BY AlertBoundAssumption DEF Restart, RestartAlerts
  <2>2. faults' \in 0..MaxFaults
    BY AlertBoundAssumption DEF IInv, Firing, AlertTypeOK, Restart
  <2>3. evaluator' \in [at : {"idle", "load", "fire", "write"}, price : Optional(Prices),
                        prev : Optional(Prices), rules : SUBSET Rules, live : SUBSET Rules]
    BY DEF Restart, RestartAlerts, Idle, Work, Optional
  <2>4. last' \in Optional(Prices) /\ cache' \subseteq Rules /\ fresh' \in BOOLEAN
    BY DEF Restart, RestartAlerts, Optional
  <2>5. /\ rule' \in [Rules -> [status : {"NONE", "ACTIVE", "TRIGGERED", "DISABLED"}, terms : Terms]]
        /\ price' \in Prices /\ alerts' \in [Rules -> Nat]
        /\ outbox' \in [Events -> {"none", "new", "published"}]
    BY DEF IInv, Firing, AlertTypeOK, Restart
  <2> QED
    BY <2>1, <2>2, <2>3, <2>4, <2>5 DEF AlertTypeOK
<1>2. AlertedIsClosed' /\ WritesAreFirst' /\ PostedIsAudited'
  BY DEF IInv, Firing, AlertedIsClosed, WritesAreFirst, PostedIsAudited, Restart, RestartAlerts,
     Idle, Work
<1>3. DeliveryTypes' /\ QueuedIsPosted'
  BY DEF IInv, Telling, DeliveryTypes, QueuedIsPosted, Restart, N!RestartNotifications
<1>4. ToldIsPosted'
  BY DEF IInv, Telling, DeliveryTypes, QueuedIsPosted, ToldIsPosted, Untold, Restart,
     N!RestartNotifications
<1> QED
  BY <1>1, <1>2, <1>3, <1>4 DEF IInv, Firing, Telling

\* Nothing happens.
LEMMA StutterKeeps == IInv /\ UNCHANGED vars => IInv'
<1> SUFFICES ASSUME IInv, UNCHANGED vars PROVE IInv'
  OBVIOUS
<1>1. Firing' /\ PostedIsAudited'
  BY DEF IInv, Firing, vars, alertVars, AlertTypeOK, AlertedIsClosed, WritesAreFirst, PostedIsAudited
<1>2. Telling'
  BY PostingTells DEF IInv, vars, deliveryVars
<1> QED
  BY <1>1, <1>2 DEF IInv

\* Every step keeps the invariant.
LEMMA StepKeeps == IInv /\ [Next]_vars => IInv'
<1> SUFFICES ASSUME IInv, [Next]_vars PROVE IInv'
  OBVIOUS
<1>1. CASE AlertStep /\ Alone
  BY <1>1, AlertStepKeeps
<1>2. CASE N!Step /\ UNCHANGED alertVars
  <2>1. CASE \E e \in Events : N!Relay(e) \/ N!RelayUnmarked(e)
    BY <1>2, <2>1, RelayKeeps
  <2>2. CASE \E e \in Events : N!MarkRead(e)
    BY <1>2, <2>2, MarkReadKeeps
  <2>3. CASE N!Deliver \/ N!DeliverFault
    BY <1>2, <2>3, TakingKeeps
  <2>4. CASE \E u \in Users, p \in Patches : N!PatchPreferences(u, p)
    BY <1>2, <2>4, PatchKeeps
  <2> QED
    BY <1>2, <2>1, <2>2, <2>3, <2>4 DEF N!Step, N!Relays
<1>3. CASE \E e \in Events \ Rules : Post(e)
  BY <1>3, PostKeeps
<1>4. CASE Restart
  BY <1>4, RestartKeeps
<1>5. CASE UNCHANGED vars
  BY <1>5, StutterKeeps
<1> QED
  BY <1>1, <1>2, <1>3, <1>4, <1>5 DEF Next

-----------------------------------------------------------------------------
(* Theorems. *)

\* Whatever the cache of the evaluator still holds of a rule, whatever fails
\* and whoever disables it meanwhile, a rule fires at most once
\* (handle_tick, disable_alert).
THEOREM FiresOnce == Spec => []FiresAtMostOnce
<1>1. DeliveryInit => IInv
  BY InitInv
<1>2. IInv /\ [Next]_vars => IInv'
  BY StepKeeps
<1>3. IInv => FiresAtMostOnce
  <2> SUFFICES ASSUME IInv, NEW r \in Rules
               PROVE  /\ alerts[r] <= 1
                      /\ alerts[r] = 1 => rule[r].status \in {"TRIGGERED", "DISABLED"}
    BY DEF FiresAtMostOnce
  <2>1. /\ alerts[r] = 0 \/ alerts[r] = 1
        /\ alerts[r] = 1 => rule[r].status \in {"TRIGGERED", "DISABLED"}
    BY DEF IInv, Firing, AlertedIsClosed
  <2>2. alerts[r] <= 1
    BY <2>1
  <2> QED
    BY <2>1, <2>2
<1> QED
  BY <1>1, <1>2, <1>3, PTL DEF Spec

\* Nobody is told of an alert the audit trail does not know, however its event
\* is published, published again, delivered or lost (_fire, _relay_batch,
\* handle_notify).
THEOREM ToldIsAudited == Spec => []NotifiedIsAudited
<1>1. DeliveryInit => IInv
  BY InitInv
<1>2. IInv /\ [Next]_vars => IInv'
  BY StepKeeps
<1>3. IInv => NotifiedIsAudited
  <2> SUFFICES ASSUME IInv, NEW r \in Rules, outbox[r] # "none" \/ N!Reached(r)
               PROVE  alerts[r] = 1
    BY DEF NotifiedIsAudited
  <2>1. r \in Events
    BY RuleAssumption
  <2>2. ~Untold(r) => outbox[r] # "none"
    BY <2>1 DEF IInv, Telling, ToldIsPosted
  <2>3. N!Reached(r) => ~Untold(r)
    BY DEF N!Reached, Untold
  <2> QED
    BY <2>2, <2>3 DEF IInv, PostedIsAudited
<1> QED
  BY <1>1, <1>2, <1>3, PTL DEF Spec

-----------------------------------------------------------------------------
(* What is told: types of the delivery, and no event between two chairs. *)

\* No category that may not be silenced is ever silenced.
PreferenceTypes ==
    preferences \in [Users -> [channels : SUBSET N!Channels,
                               silenced : SUBSET (N!Categories \ N!NonSuppressible)]]

ToldTypes == /\ inbox \in [Events -> [unread : Nat, read : Nat]]
             /\ outcome \in [Events -> SUBSET {"silenced", "mailed", "off", "lost"}]

Queued(e) == \E i \in DOMAIN stream : stream[i] = e

Told == PreferenceTypes /\ ToldTypes /\ PublishedIsTold

\* At the start nothing is published.
LEMMA InitTold == DeliveryInit => Told
<1> SUFFICES ASSUME DeliveryInit PROVE Told
  OBVIOUS
<1>1. PreferenceTypes
  BY DEF DeliveryInit, N!Init, N!Default, PreferenceTypes
<1>2. ToldTypes /\ PublishedIsTold
  BY DEF DeliveryInit, N!Init, ToldTypes, PublishedIsTold
<1> QED
  BY <1>1, <1>2 DEF Told

\* The channels of a body that are kept are known: it is cut at the first one
\* that is not.
LEMMA AcceptedAreKnown ==
  ASSUME NEW p \in Patches
  PROVE  \A i \in DOMAIN N!Accepted(p.channels) :
            N!Accepted(p.channels)[i].channel \in N!Channels
<1> DEFINE cs == p.channels
           Entry == [channel : N!Channels \cup {"SMS"}, on : BOOLEAN]
           unknown == {i \in DOMAIN cs : cs[i].channel \notin N!Channels}
<1>1. cs \in Seq(Entry)
  BY PatchAssumption
<1>2. Len(cs) \in Nat /\ DOMAIN cs = 1..Len(cs)
  BY <1>1
<1>3. CASE unknown = {}
  BY <1>3 DEF N!Accepted
<1>4. CASE unknown # {}
  <2> DEFINE m == Min(unknown)
  <2>1. IsFiniteSet(unknown)
    <3>1. IsFiniteSet(1..Len(cs)) /\ unknown \in SUBSET (1..Len(cs))
      BY <1>2, FS_Interval
    <3> QED
      BY <3>1, FS_Subset
  <2>2. \A i \in unknown : i \in Int
    BY <1>2
  <2>3. m \in unknown /\ \A i \in unknown : m <= i
    BY <1>4, <2>1, <2>2, MinProperties
  <2>4. N!Accepted(cs) = SubSeq(cs, 1, m - 1)
    BY <1>4 DEF N!Accepted, N!Min, Min
  <2> HIDE DEF m
  <2>5. m \in 1..Len(cs) /\ \A i \in 1..(m - 1) : i \in DOMAIN cs /\ i \notin unknown
    <3>1. m \in 1..Len(cs)
      BY <1>2, <2>3
    <3>2. \A i \in 1..(m - 1) : i \in 1..Len(cs) /\ ~(m <= i)
      BY <1>2, <3>1
    <3> HIDE DEF unknown
    <3> QED
      BY <1>2, <2>3, <3>1, <3>2
  <2> HIDE DEF cs
  <2>6. /\ SubSeq(cs, 1, m - 1) \in Seq(Entry)
        /\ Len(SubSeq(cs, 1, m - 1)) = m - 1
        /\ \A i \in 1..(m - 1) : SubSeq(cs, 1, m - 1)[i] = cs[i]
    <3>1. m - 1 \in Nat /\ \A i \in 1..(m - 1) : 1 + i - 1 = i
      BY <1>2, <2>5
    <3> HIDE DEF Entry, unknown
    <3>2. \A i \in 1..(m - 1) : cs[i] \in Entry
      BY <1>1, <2>5
    <3> QED
      BY <3>1, <3>2, SubSeqProperties
  <2>7. DOMAIN SubSeq(cs, 1, m - 1) = 1..(m - 1)
    BY <2>6
  <2> QED
    BY <2>4, <2>5, <2>6, <2>7 DEF cs
<1> QED
  BY <1>3, <1>4

\* A patch silences no category that may not be silenced.
LEMMA PatchTold ==
  ASSUME Told, NEW u \in Users, NEW p \in Patches, N!PatchPreferences(u, p)
  PROVE  Told'
<1> DEFINE v == preferences[u]
           channels == (v.channels \ N!SetTo(N!Accepted(p.channels), FALSE))
                          \cup N!SetTo(N!Accepted(p.channels), TRUE)
           silenced == IF N!Refused(p) THEN v.silenced ELSE (v.silenced \ p.on) \cup p.off
<1>1. v.channels \subseteq N!Channels /\ v.silenced \subseteq N!Categories \ N!NonSuppressible
  BY DEF Told, PreferenceTypes
<1>2. channels \subseteq N!Channels
  BY <1>1, AcceptedAreKnown DEF N!SetTo
<1>3. silenced \subseteq N!Categories \ N!NonSuppressible
  BY <1>1, PatchAssumption DEF N!Refused
<1>4. preferences' = [preferences EXCEPT ![u] = [channels |-> channels, silenced |-> silenced]]
  BY DEF N!PatchPreferences
<1> HIDE DEF channels, silenced
<1>5. PreferenceTypes'
  BY <1>2, <1>3, <1>4 DEF Told, PreferenceTypes
<1>6. UNCHANGED <<outbox, stream, inbox, outcome>>
  BY DEF N!PatchPreferences
<1>7. ToldTypes'
  BY <1>6 DEF Told, ToldTypes
<1>8. PublishedIsTold'
  BY <1>6 DEF Told, PublishedIsTold, N!Reached
<1> QED
  BY <1>5, <1>7, <1>8 DEF Told

\* Nothing is published, taken or told.
LEMMA UntouchedTold ==
  ASSUME Told, UNCHANGED <<stream, preferences, inbox, outcome>>,
         \A e \in Events : outbox'[e] = "published" => outbox[e] = "published"
  PROVE  Told'
<1>1. PreferenceTypes' /\ ToldTypes'
  BY DEF Told, PreferenceTypes, ToldTypes
<1>2. PublishedIsTold'
  BY DEF Told, PublishedIsTold, N!Reached
<1> QED
  BY <1>1, <1>2 DEF Told

\* What is marked as published has been queued in the same step.
LEMMA RelayTold ==
  ASSUME Told, stream \in Seq(Events), outbox \in [Events -> {"none", "new", "published"}],
         NEW e \in Events, N!Relay(e) \/ N!RelayUnmarked(e)
  PROVE  Told'
<1>1. /\ stream' = Append(stream, e) /\ UNCHANGED <<preferences, inbox, outcome>>
      /\ \A d \in Events \ {e} : outbox'[d] = outbox[d]
  BY DEF N!Relay, N!RelayUnmarked
<1>2. /\ Len(stream) + 1 \in DOMAIN stream' /\ stream'[Len(stream) + 1] = e
      /\ \A i \in DOMAIN stream : i \in DOMAIN stream' /\ stream'[i] = stream[i]
  BY <1>1, AppendProperties
<1>3. PreferenceTypes' /\ ToldTypes'
  BY <1>1 DEF Told, PreferenceTypes, ToldTypes
<1>4. ASSUME NEW d \in Events, outbox'[d] = "published"
      PROVE  (\E i \in DOMAIN stream' : stream'[i] = d) \/ N!Reached(d)'
  <2>1. CASE d = e
    BY <1>2, <2>1
  <2>2. CASE d # e
    <3>1. Queued(d) \/ N!Reached(d)
      BY <1>1, <1>4, <2>2 DEF Told, PublishedIsTold, Queued
    <3> QED
      BY <1>1, <1>2, <3>1 DEF Queued, N!Reached
  <2> QED
    BY <2>1, <2>2
<1> QED
  BY <1>3, <1>4 DEF Told, PublishedIsTold

\* What the worker takes is shown, mailed, silenced, kept off or lost, and the
\* events behind it stay in the queue.
LEMMA TakingTold ==
  ASSUME Told, stream \in Seq(Events), N!Deliver \/ N!DeliverFault
  PROVE  Told'
<1>0. PICK e : e = Head(stream)
  OBVIOUS
<1>1. /\ stream # <<>> /\ stream' = Tail(stream) /\ UNCHANGED <<outbox, preferences>>
  BY DEF N!Deliver, N!DeliverFault
<1>2. /\ e \in Events /\ e = stream[1]
      /\ \A i \in DOMAIN stream : i # 1 => i - 1 \in DOMAIN stream' /\ stream'[i - 1] = stream[i]
  <2>1. stream' = Tail(stream) /\ stream # <<>> /\ stream \in Seq(Events)
    BY <1>1
  <2>2. /\ Tail(stream) \in Seq(Events) /\ Len(Tail(stream)) = Len(stream) - 1
        /\ \A i \in 1..Len(Tail(stream)) : Tail(stream)[i] = stream[i + 1]
    BY <2>1, HeadTailProperties
  <2> QED
    BY <1>0, <2>1, <2>2
<1>3. /\ e \in Events /\ inbox[e] \in [unread : Nat, read : Nat] /\ inbox[e].unread \in Nat /\ inbox[e].read \in Nat
      /\ outcome[e] \subseteq {"silenced", "mailed", "off", "lost"}
      /\ preferences[Owner[e]].channels \subseteq {"IN_APP", "EMAIL"}
      /\ preferences[Owner[e]].silenced \cap N!NonSuppressible = {}
  BY <1>2, EventAssumption DEF Told, ToldTypes, PreferenceTypes, N!Channels
<1>4. /\ inbox' \in [Events -> [unread : Nat, read : Nat]]
      /\ \A d \in Events \ {e} : inbox'[d] = inbox[d]
  <2>1. inbox \in [Events -> [unread : Nat, read : Nat]]
    BY DEF Told, ToldTypes
  <2>2. inbox' = inbox \/ inbox' = [inbox EXCEPT ![e].unread = @ + 1]
    BY <1>0 DEF N!Deliver, N!DeliverFault
  <2>3. [inbox[e] EXCEPT !.unread = @ + 1] \in [unread : Nat, read : Nat]
    BY <1>3
  <2> QED
    BY <1>3, <2>1, <2>2, <2>3
<1>5. /\ outcome' \in [Events -> SUBSET {"silenced", "mailed", "off", "lost"}]
      /\ \A d \in Events \ {e} : outcome'[d] = outcome[d]
  <2>1. outcome \in [Events -> SUBSET {"silenced", "mailed", "off", "lost"}]
    BY DEF Told, ToldTypes
  <2>2. \E S \in SUBSET {"silenced", "mailed", "off", "lost"} :
           outcome' = [outcome EXCEPT ![e] = @ \cup S]
    <3>1. CASE N!Deliver
      <4> DEFINE S == IF N!Silenced(e) THEN {"silenced"}
                      ELSE IF "EMAIL" \in N!On(e) THEN {"mailed"}
                      ELSE IF N!On(e) = {} THEN {"off"} ELSE {}
      <4>1. outcome' = [outcome EXCEPT ![e] = @ \cup S]
        BY <1>0, <3>1 DEF N!Deliver
      <4>2. S \in SUBSET {"silenced", "mailed", "off", "lost"}
        OBVIOUS
      <4> QED
        BY <4>1, <4>2
    <3>2. CASE N!DeliverFault
      BY <1>0, <3>2 DEF N!DeliverFault
    <3> QED
      BY <3>1, <3>2
  <2> QED
    BY <1>3, <2>1, <2>2
<1>6. N!Reached(e)'
  <2>1. CASE N!DeliverFault
    BY <1>0, <1>3, <2>1 DEF N!DeliverFault, Told, ToldTypes, N!Reached
  <2>2. CASE N!Deliver /\ N!Silenced(e)
    <3>1. "silenced" \in outcome'[e]
      BY <1>0, <1>3, <2>2 DEF N!Deliver, Told, ToldTypes
    <3>2. Category[e] \notin N!NonSuppressible
      BY <1>3, <2>2 DEF N!Silenced
    <3> QED
      BY <3>1, <3>2 DEF N!Reached
  <2>3. CASE N!Deliver /\ ~N!Silenced(e) /\ "IN_APP" \in N!On(e)
    <3>1. inbox' = [inbox EXCEPT ![e].unread = @ + 1]
      BY <1>0, <2>3 DEF N!Deliver
    <3>2. inbox'[e].unread = inbox[e].unread + 1
      BY <1>3, <3>1 DEF Told, ToldTypes
    <3>3. inbox'[e] # [unread |-> 0, read |-> 0]
      BY <1>3, <3>2
    <3> QED
      BY <3>3 DEF N!Reached
  <2>4. CASE N!Deliver /\ ~N!Silenced(e) /\ "IN_APP" \notin N!On(e)
    <3>1. \/ "EMAIL" \in N!On(e)
          \/ "EMAIL" \notin N!On(e) /\ N!On(e) = {}
      BY <1>3, <2>4 DEF N!On
    <3>2. "mailed" \in outcome'[e] \/ "off" \in outcome'[e]
      BY <1>0, <1>3, <2>4, <3>1 DEF N!Deliver, Told, ToldTypes
    <3> QED
      BY <3>2 DEF N!Reached
  <2> QED
    BY <2>1, <2>2, <2>3, <2>4
<1>7. ASSUME NEW d \in Events, outbox'[d] = "published"
      PROVE  (\E i \in DOMAIN stream' : stream'[i] = d) \/ N!Reached(d)'
  <2>1. CASE d = e
    BY <1>6, <2>1
  <2>2. CASE d # e
    <3>1. Queued(d) \/ N!Reached(d)
      BY <1>1, <1>7 DEF Told, PublishedIsTold, Queued
    <3>2. CASE Queued(d)
      BY <1>2, <2>2, <3>2 DEF Queued
    <3>3. CASE N!Reached(d)
      BY <1>4, <1>5, <2>2, <3>3 DEF N!Reached
    <3> QED
      BY <3>1, <3>2, <3>3
  <2> QED
    BY <2>1, <2>2
<1>8. PreferenceTypes'
  BY <1>1 DEF Told, PreferenceTypes
<1>9. ToldTypes'
  BY <1>4, <1>5 DEF ToldTypes
<1> QED
  BY <1>7, <1>8, <1>9 DEF Told, PublishedIsTold

\* What is read stays in the inbox.
LEMMA MarkReadTold ==
  ASSUME Told, NEW e \in Events, N!MarkRead(e)
  PROVE  Told'
<1>1. /\ inbox[e].unread \in Nat /\ inbox[e].read \in Nat /\ inbox[e].unread > 0
      /\ inbox' = [inbox EXCEPT ![e] = [unread |-> @.unread - 1, read |-> @.read + 1]]
      /\ UNCHANGED <<outbox, stream, preferences, outcome>>
  BY DEF N!MarkRead, Told, ToldTypes
<1>2. [unread |-> inbox[e].unread - 1, read |-> inbox[e].read + 1] \in [unread : Nat, read : Nat]
  BY <1>1
<1>3. PreferenceTypes' /\ ToldTypes'
  BY <1>1, <1>2 DEF Told, PreferenceTypes, ToldTypes
<1>4. inbox'[e] # [unread |-> 0, read |-> 0] /\ \A d \in Events \ {e} : inbox'[d] = inbox[d]
  BY <1>1 DEF Told, ToldTypes
<1>5. \A d \in Events : N!Reached(d) => N!Reached(d)'
  BY <1>1, <1>4 DEF N!Reached
<1>6. PublishedIsTold'
  BY <1>1, <1>5 DEF Told, PublishedIsTold
<1> QED
  BY <1>3, <1>6 DEF Told

\* A restart forgets the preferences, and what it takes from the queue is lost.
LEMMA RestartTold ==
  ASSUME Told, Restart
  PROVE  Told'
<1>1. /\ stream' = <<>> /\ preferences' = [u \in Users |-> N!Default]
      /\ outcome' = [e \in Events |-> IF Queued(e) THEN outcome[e] \cup {"lost"} ELSE outcome[e]]
      /\ UNCHANGED <<outbox, inbox>>
  BY DEF Restart, N!RestartNotifications, Queued
<1>2. PreferenceTypes'
  BY <1>1 DEF PreferenceTypes, N!Default
<1>3. ToldTypes'
  BY <1>1 DEF Told, ToldTypes
<1>4. ASSUME NEW e \in Events, outbox'[e] = "published"
      PROVE  N!Reached(e)'
  <2>1. Queued(e) \/ N!Reached(e)
    BY <1>1, <1>4 DEF Told, PublishedIsTold, Queued
  <2>2. outcome[e] \subseteq outcome'[e] /\ (Queued(e) => "lost" \in outcome'[e])
    BY <1>1
  <2> QED
    BY <1>1, <2>1, <2>2 DEF N!Reached
<1> QED
  BY <1>2, <1>3, <1>4 DEF Told, PublishedIsTold

\* No step drops an event between the outbox and its user.
LEMMA StepTold == IInv /\ Told /\ [Next]_vars => Told'
<1> SUFFICES ASSUME IInv, Told, [Next]_vars PROVE Told'
  OBVIOUS
<1>1. stream \in Seq(Events) /\ outbox \in [Events -> {"none", "new", "published"}]
  BY DEF IInv, Firing, AlertTypeOK, Telling, DeliveryTypes
<1>2. \A rules : \A e \in Events : Posted(rules)[e] = "published" => outbox[e] = "published"
  BY DEF Posted
<1>3. CASE AlertStep /\ Alone
  <2>1. \A e \in Events : outbox'[e] = "published" => outbox[e] = "published"
    <3>1. CASE FireCommit
      BY <1>2, <3>1 DEF FireCommit
    <3>2. CASE UNCHANGED outbox
      BY <3>2
    <3> QED
      BY <1>3, <3>1, <3>2 DEF AlertStep, CreateAlert, DisableRead, DisableCommit, Invalidate,
         Tick, Age, Evaluator, TickOnCache, TickReload, Store, FireRead, EvaluatorFault
  <2> QED
    BY <1>3, <2>1, UntouchedTold DEF Alone, deliveryVars
<1>4. CASE N!Step
  BY <1>1, <1>4, RelayTold, TakingTold, MarkReadTold, PatchTold DEF N!Step, N!Relays
<1>5. CASE \E e \in Events \ Rules : Post(e)
  <2>1. \A e \in Events : outbox'[e] = "published" => outbox[e] = "published"
    BY <1>2, <1>5 DEF Post
  <2>2. UNCHANGED <<stream, preferences, inbox, outcome>>
    BY <1>5 DEF Post, deliveryVars
  <2> QED
    BY <2>1, <2>2, UntouchedTold
<1>6. CASE Restart
  BY <1>6, RestartTold
<1>7. CASE UNCHANGED vars
  BY <1>7, UntouchedTold DEF vars, deliveryVars
<1> QED
  BY <1>3, <1>4, <1>5, <1>6, <1>7 DEF Next

\* So both invariants hold.
LEMMA ToldInvariance == Spec => [](IInv /\ Told)
<1>1. DeliveryInit => IInv /\ Told
  BY InitInv, InitTold
<1>2. IInv /\ Told /\ [Next]_vars => (IInv /\ Told)'
  BY StepKeeps, StepTold
<1> QED
  BY <1>1, <1>2, PTL DEF Spec

\* Both parts keep their types; in particular no patch, however its channels
\* and categories are mixed, leaves an unknown channel or category in the
\* preferences (patch_preferences, which keeps what it has set before it
\* refuses).
THEOREM TypesHold == Spec => []TypeOK
<1>1. IInv /\ Told => TypeOK
  <2> SUFFICES ASSUME IInv, Told PROVE TypeOK
    OBVIOUS
  <2>1. /\ AlertTypeOK /\ stream \in Seq(Events)
        /\ outbox \in [Events -> {"none", "new", "published"}] /\ faults \in 0..MaxFaults
    BY DEF IInv, Firing, AlertTypeOK, Telling, DeliveryTypes
  <2>2. preferences \in [Users -> [channels : SUBSET N!Channels, silenced : SUBSET N!Categories]]
    BY DEF Told, PreferenceTypes
  <2> QED
    BY <2>1, <2>2 DEF Told, ToldTypes, TypeOK, N!TypeOK
<1> QED
  BY <1>1, ToldInvariance, PTL

\* An event that was published is with its user or in the queue in front of
\* handle_notify: nothing is dropped in between but what a fault or a restart
\* counts as lost, and a break-glass, grant or privileged-access event is
\* silenced by no sequence of preferences.
THEOREM NothingSlipsThrough == Spec => []PublishedIsTold
<1>1. Told => PublishedIsTold
  BY DEF Told
<1> QED
  BY <1>1, ToldInvariance, PTL
=============================================================================
