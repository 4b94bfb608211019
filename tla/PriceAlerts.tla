---------------------------- MODULE PriceAlerts ----------------------------
(***************************************************************************)
(* Price alerts (modules/analytics): the rules users create and disable,   *)
(* and the evaluator that reads market.ticks.  The evaluator works on a    *)
(* cache of the ACTIVE rules in memory; the endpoints commit a rule and    *)
(* then declare the cache stale, the evaluator reloads it when it is stale *)
(* or a minute old.  A query of the evaluator may be under way while an    *)
(* endpoint commits, and the other way round.                              *)
(*                                                                         *)
(* One instrument is modelled: the cache is split by symbol, and nothing   *)
(* else is shared.  The age of the cache is whether its minute has passed. *)
(***************************************************************************)
EXTENDS Integers, Sequences

CONSTANTS
    Rules,       \* rows alert_rules may get
    Events,      \* of the notify stream; the event of a rule is called as the rule
    Terms,       \* conditions and thresholds of the rules
    Prices,      \* prices of a tick
    Nothing,     \* None
    MaxQueue,    \* bound: ticks waiting for the evaluator
    MaxFaults    \* bound: units of work that fail and restarts, of all parts

Conditions == {"ABOVE", "BELOW", "CROSSES_ABOVE", "CROSSES_BELOW"}
Optional(S) == S \cup {Nothing}

ASSUME TermsAssumption == Terms \subseteq [condition : Conditions, threshold : Nat]
ASSUME PriceAssumption == Prices \subseteq Nat /\ Nothing \notin Nat
ASSUME RuleAssumption == Rules \subseteq Events
ASSUME AlertBoundAssumption == {MaxQueue, MaxFaults} \subseteq Nat

VARIABLES
    rule,       \* alert_rules: terms and status
    ticks,      \* the subscription of the evaluator
    price,      \* of the last tick that was published
    last,       \* _last_prices
    cache,      \* _rule_cache
    fresh,      \* _rule_cache_at is less than a minute ago
    evaluator,  \* what handle_tick has read
    request,    \* what the endpoint working on a rule has done
    alerts,     \* PRICE_ALERT_TRIGGERED audit rows, for each rule
    outbox,     \* notify rows: none, new or published
    faults

alertVars == <<rule, ticks, price, last, cache, fresh, evaluator, request, alerts>>

\* rules are those loaded, or due to fire; live those of them still ACTIVE.
Work(at, p, prev, rules, live) ==
    [at |-> at, price |-> p, prev |-> prev, rules |-> rules, live |-> live]
Idle == Work("idle", Nothing, Nothing, {}, {})

Init ==
    /\ rule \in [Rules -> [status : {"NONE"}, terms : Terms]]
    /\ ticks = <<>>
    /\ price \in Prices
    /\ last = Nothing
    /\ cache = {}
    /\ fresh = FALSE
    /\ evaluator = Idle
    /\ request = [r \in Rules |-> "idle"]
    /\ alerts = [r \in Rules |-> 0]
    /\ outbox = [e \in Events |-> "none"]
    /\ faults = 0

-----------------------------------------------------------------------------
(* Endpoints. *)

\* The rule is committed before the cache is declared stale.
CreateAlert(r) ==
    /\ rule[r].status = "NONE"
    /\ rule' = [rule EXCEPT ![r].status = "ACTIVE"]
    /\ request' = [request EXCEPT ![r] = "stale"]
    /\ UNCHANGED <<ticks, price, last, cache, fresh, evaluator, alerts, outbox, faults>>

DisableRead(r) ==
    /\ request[r] = "idle"
    /\ rule[r].status # "NONE"
    /\ request' = [request EXCEPT ![r] = "disable"]
    /\ UNCHANGED <<rule, ticks, price, last, cache, fresh, evaluator, alerts, outbox, faults>>

\* Whatever the rule has become meanwhile.
DisableCommit(r) ==
    /\ request[r] = "disable"
    /\ rule' = [rule EXCEPT ![r].status = "DISABLED"]
    /\ request' = [request EXCEPT ![r] = "stale"]
    /\ UNCHANGED <<ticks, price, last, cache, fresh, evaluator, alerts, outbox, faults>>

\* invalidate_alert_cache
Invalidate(r) ==
    /\ request[r] = "stale"
    /\ fresh' = FALSE
    /\ request' = [request EXCEPT ![r] = "idle"]
    /\ UNCHANGED <<rule, ticks, price, last, cache, evaluator, alerts, outbox, faults>>

-----------------------------------------------------------------------------
(* The evaluator. *)

Tick(p) ==
    /\ Len(ticks) < MaxQueue
    /\ ticks' = Append(ticks, p)
    /\ price' = p
    /\ UNCHANGED <<rule, last, cache, fresh, evaluator, request, alerts, outbox, faults>>

\* RULE_CACHE_TTL_SECONDS pass.
Age ==
    /\ fresh
    /\ fresh' = FALSE
    /\ UNCHANGED <<rule, ticks, price, last, cache, evaluator, request, alerts, outbox, faults>>

ConditionMet(terms, p, prev) ==
    \/ terms.condition = "ABOVE" /\ p > terms.threshold
    \/ terms.condition = "BELOW" /\ p < terms.threshold
    \/ /\ terms.condition = "CROSSES_ABOVE"
       /\ prev # Nothing
       /\ prev <= terms.threshold /\ p > terms.threshold
    \/ /\ terms.condition = "CROSSES_BELOW"
       /\ prev # Nothing
       /\ prev >= terms.threshold /\ p < terms.threshold

Due(rules, p, prev) == {r \in rules : ConditionMet(rule[r].terms, p, prev)}

\* The evaluator goes on with the rules of the cache that fire, if any.
Evaluate(rules, p, prev) ==
    evaluator' = IF Due(rules, p, prev) = {} THEN Idle
                 ELSE Work("fire", Nothing, Nothing, Due(rules, p, prev), {})

Active == {r \in Rules : rule[r].status = "ACTIVE"}

NeedsReloadOnce == last = Nothing   \* mutant: loaded for the first tick only
NeedsReload     == ~fresh

NextTick == evaluator = Idle /\ ticks # <<>> /\ ticks' = Tail(ticks) /\ last' = Head(ticks)

TickOnCache ==
    /\ NextTick
    /\ ~NeedsReload
    /\ Evaluate(cache, Head(ticks), last)
    /\ UNCHANGED <<rule, price, cache, fresh, request, alerts, outbox, faults>>

\* The query of _active_rules_for ...
TickReload ==
    /\ NextTick
    /\ NeedsReload
    /\ evaluator' = Work("load", Head(ticks), last, Active, {})
    /\ UNCHANGED <<rule, price, cache, fresh, request, alerts, outbox, faults>>

\* ... and what is done with its rows.  The stamp is the time before the query
\* and is set after it, over an invalidation in between.
Store ==
    /\ evaluator.at = "load"
    /\ cache' = evaluator.rules
    /\ fresh' = TRUE
    /\ Evaluate(evaluator.rules, evaluator.price, evaluator.prev)
    /\ UNCHANGED <<rule, ticks, price, last, request, alerts, outbox, faults>>

\* A rule that fires is read again, and left alone when it is no longer ACTIVE.
FireRead ==
    /\ evaluator.at = "fire"
    /\ evaluator' = [evaluator EXCEPT !.at = "write", !.live = evaluator.rules \cap Active]
    /\ UNCHANGED <<rule, ticks, price, last, cache, fresh, request, alerts, outbox, faults>>

Posted(rules) == [e \in Events |-> IF e \in rules THEN "new" ELSE outbox[e]]

\* The status, the audit event and the outbox row are one commit, after which
\* every rule that was due is taken out of the cache.
FireStaysActive ==                      \* mutant: the status is left as it is
    /\ evaluator.at = "write"
    /\ alerts' = [r \in Rules |-> IF r \in evaluator.live THEN alerts[r] + 1 ELSE alerts[r]]
    /\ outbox' = Posted(evaluator.live)
    /\ cache' = cache \ evaluator.rules
    /\ evaluator' = Idle
    /\ UNCHANGED <<rule, ticks, price, last, fresh, request, faults>>
FireCommit ==
    /\ evaluator.at = "write"
    /\ rule' = [r \in Rules |-> IF r \in evaluator.live
                                THEN [rule[r] EXCEPT !.status = "TRIGGERED"] ELSE rule[r]]
    /\ alerts' = [r \in Rules |-> IF r \in evaluator.live THEN alerts[r] + 1 ELSE alerts[r]]
    /\ outbox' = Posted(evaluator.live)
    /\ cache' = cache \ evaluator.rules
    /\ evaluator' = Idle
    /\ UNCHANGED <<ticks, price, last, fresh, request, faults>>

\* The unit of work fails: it is rolled back and the evaluator takes the next
\* tick, with the rules still in the cache and the price already the last one.
EvaluatorFaultAfterPost ==              \* mutant: the event is not rolled back
    /\ evaluator # Idle
    /\ faults < MaxFaults
    /\ faults' = faults + 1
    /\ evaluator' = Idle
    /\ outbox' = Posted(evaluator.live)
    /\ UNCHANGED <<rule, ticks, price, last, cache, fresh, request, alerts>>
EvaluatorFault ==
    /\ evaluator # Idle
    /\ faults < MaxFaults
    /\ faults' = faults + 1
    /\ evaluator' = Idle
    /\ UNCHANGED <<rule, ticks, price, last, cache, fresh, request, alerts, outbox>>

Evaluator == TickOnCache \/ TickReload \/ Store \/ FireRead \/ FireCommit

\* What a restart of the process leaves of it.
RestartAlerts ==
    /\ ticks' = <<>>
    /\ last' = Nothing
    /\ cache' = {}
    /\ fresh' = FALSE
    /\ evaluator' = Idle
    /\ request' = [r \in Rules |-> "idle"]

AlertStep ==
    \/ \E r \in Rules : \/ CreateAlert(r) \/ DisableRead(r)
                        \/ DisableCommit(r) \/ Invalidate(r)
    \/ \E p \in Prices : Tick(p)
    \/ Age \/ Evaluator \/ EvaluatorFault

-----------------------------------------------------------------------------
AlertTypeOK ==
    /\ rule \in [Rules -> [status : {"NONE", "ACTIVE", "TRIGGERED", "DISABLED"}, terms : Terms]]
    /\ ticks \in Seq(Prices) /\ Len(ticks) <= MaxQueue
    /\ price \in Prices /\ last \in Optional(Prices)
    /\ cache \subseteq Rules /\ fresh \in BOOLEAN
    /\ evaluator \in [at : {"idle", "load", "fire", "write"}, price : Optional(Prices),
                      prev : Optional(Prices), rules : SUBSET Rules, live : SUBSET Rules]
    /\ request \in [Rules -> {"idle", "disable", "stale"}]
    /\ alerts \in [Rules -> Nat]
    /\ outbox \in [Events -> {"none", "new", "published"}]
    /\ faults \in 0..MaxFaults
=============================================================================
