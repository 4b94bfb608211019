--------------------------- MODULE AlertDelivery ---------------------------
(***************************************************************************)
(* Price alerts and notifications in one process: the outbox is where the  *)
(* evaluator and the other modules that notify (grants, break-glass) leave *)
(* their events and where the relay finds them.  A restart takes the       *)
(* memory of both: the ticks, the cache and the events still queued, and   *)
(* the preferences.                                                        *)
(***************************************************************************)
EXTENDS PriceAlerts

CONSTANTS Users, Owner, Category, Patches

VARIABLES stream, preferences, inbox, outcome

N == INSTANCE Notifications

ASSUME EventAssumption ==
    Owner \in [Events -> Users] /\ DOMAIN Category = Events
\* channels are set in the order of the body; off and on are its categories.
ASSUME PatchAssumption ==
    \A p \in Patches : /\ p.off \cup p.on \subseteq N!Categories
                       /\ p.off \cap p.on = {}
                       /\ p.channels \in Seq([channel : N!Channels \cup {"SMS"}, on : BOOLEAN])

deliveryVars == <<stream, preferences, inbox, outcome>>

vars == <<alertVars, outbox, faults, deliveryVars>>

DeliveryInit == Init /\ N!Init

\* Another module posts an event.
Post(e) ==
    /\ outbox[e] = "none"
    /\ outbox' = Posted({e})
    /\ UNCHANGED <<alertVars, faults, deliveryVars>>

Restart ==
    /\ faults < MaxFaults
    /\ faults' = faults + 1
    /\ RestartAlerts
    /\ N!RestartNotifications
    /\ UNCHANGED <<rule, price, alerts, outbox>>

Alone    == UNCHANGED deliveryVars
Relaying == N!Relays /\ UNCHANGED alertVars
Delivery == N!Deliver /\ UNCHANGED alertVars

Next ==
    \/ AlertStep /\ Alone
    \/ N!Step /\ UNCHANGED alertVars
    \/ \E e \in Events \ Rules : Post(e)
    \/ Restart

Spec == DeliveryInit /\ [][Next]_vars

\* The replay publishes ticks for ever, the workers and the relay run as long
\* as there is something to take, a minute passes, and an endpoint that has
\* committed goes on to its end.
FairSpec ==
    /\ Spec
    /\ WF_ticks(\E p \in Prices : Tick(p) /\ Alone)
    /\ WF_evaluator(Evaluator /\ Alone)
    /\ WF_fresh(Age /\ Alone)
    /\ WF_outbox(Relaying)
    /\ WF_stream(Delivery)

-----------------------------------------------------------------------------
\* The types of the variables of both parts.
TypeOK == AlertTypeOK /\ N!TypeOK

\* A rule fires once: whatever the cache still holds of it, and however often
\* the evaluator fails or sees the price beyond the threshold, there
\* is at most one PRICE_ALERT_TRIGGERED for it, and it is ACTIVE no more.
FiresAtMostOnce ==
    \A r \in Rules : /\ alerts[r] <= 1
                     /\ alerts[r] = 1 => rule[r].status \in {"TRIGGERED", "DISABLED"}

\* Nobody is told of an alert the audit trail does not know: the event, the
\* audit row and the status of the rule are one commit, in whatever state the
\* delivery of the event is.
NotifiedIsAudited ==
    \A r \in Rules : outbox[r] # "none" \/ N!Reached(r) => alerts[r] = 1

\* What has left the outbox has reached its user or waits for the worker: no
\* step in between loses it, and no preference, in whatever order it is set,
\* silences a category that may not be silenced.
PublishedIsTold ==
    \A e \in Events : outbox[e] = "published" =>
        (\E i \in DOMAIN stream : stream[i] = e) \/ N!Reached(e)

\* A rule does not stay ACTIVE under a price that meets it: however the loads
\* of the cache, its invalidations and the failures of the evaluator fall, a
\* rule on the price itself is fired in the end, or the price leaves.
MetAlertsFire ==
    \A r \in Rules :
        ~<>[](/\ rule[r].status = "ACTIVE"
              /\ rule[r].terms.condition = "ABOVE"
              /\ price > rule[r].terms.threshold)

\* What is posted is told: every event is shown or mailed in the end, unless a
\* failure or a restart of the process takes it from the queue, its user has
\* turned both channels off, or has silenced a category that may be silenced.
EventsReachTheirUser == \A e \in Events : []<>(outbox[e] # "none" => N!Reached(e))
=============================================================================
