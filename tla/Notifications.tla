--------------------------- MODULE Notifications ---------------------------
(***************************************************************************)
(* Notifications (modules/notifications) and the relay of their stream     *)
(* (core/events): an event of the notify stream becomes a row of the inbox *)
(* and a simulated mail, unless the preferences of its user silence its    *)
(* category or turn the channel off.  The preferences and the subscription *)
(* are kept in the memory of the process; the outbox and the inbox are     *)
(* tables.                                                                 *)
(***************************************************************************)
EXTENDS Integers, Sequences, FiniteSetsExt

CONSTANTS
    Events,      \* events somebody may post on the notify stream
    Users,
    Owner,       \* the user and the category of each event
    Category,
    Patches,     \* bodies of PATCH /notification-preferences
    MaxFaults    \* bound: units of work that fail and restarts, of all parts

Channels == {"IN_APP", "EMAIL"}
NonSuppressible == {"BREAK_GLASS", "GRANT", "PAM"}
Categories == {Category[e] : e \in Events} \cup NonSuppressible

VARIABLES
    outbox,       \* notify rows: none, new or published
    stream,       \* the subscription of the worker
    preferences,  \* _preferences
    inbox,        \* notification rows, for each event
    outcome,      \* what else became of deliveries (history)
    faults

Default == [channels |-> Channels, silenced |-> {}]

Init ==
    /\ outbox = [e \in Events |-> "none"]
    /\ stream = <<>>
    /\ preferences = [u \in Users |-> Default]
    /\ inbox = [e \in Events |-> [unread |-> 0, read |-> 0]]
    /\ outcome = [e \in Events |-> {}]
    /\ faults = 0

-----------------------------------------------------------------------------
(* The relay of the outbox. *)

Relay(e) ==
    /\ outbox[e] = "new"
    /\ outbox' = [outbox EXCEPT ![e] = "published"]
    /\ stream' = Append(stream, e)
    /\ UNCHANGED <<preferences, inbox, outcome, faults>>

\* The mark fails to commit, and the event will be published again.
RelayUnpublished(e) ==                  \* mutant: marked before it is published
    /\ outbox[e] = "new"
    /\ faults < MaxFaults
    /\ faults' = faults + 1
    /\ outbox' = [outbox EXCEPT ![e] = "published"]
    /\ UNCHANGED <<stream, preferences, inbox, outcome>>
RelayUnmarked(e) ==
    /\ outbox[e] = "new"
    /\ faults < MaxFaults
    /\ faults' = faults + 1
    /\ stream' = Append(stream, e)
    /\ UNCHANGED <<outbox, preferences, inbox, outcome>>

-----------------------------------------------------------------------------
(* The worker. *)

Silenced(e) == Category[e] \in preferences[Owner[e]].silenced
On(e)       == preferences[Owner[e]].channels

\* handle_notify
Deliver ==
    /\ stream # <<>>
    /\ LET e == Head(stream) IN
       /\ inbox' = IF ~Silenced(e) /\ "IN_APP" \in On(e)
                   THEN [inbox EXCEPT ![e].unread = @ + 1] ELSE inbox
       /\ outcome' = [outcome EXCEPT ![e] = @ \cup
                        IF Silenced(e) THEN {"silenced"}
                        ELSE IF "EMAIL" \in On(e) THEN {"mailed"}
                        ELSE IF On(e) = {} THEN {"off"} ELSE {}]
    /\ stream' = Tail(stream)
    /\ UNCHANGED <<outbox, preferences, faults>>

\* An exception drops the event.
DeliverFault ==
    /\ stream # <<>>
    /\ faults < MaxFaults
    /\ faults' = faults + 1
    /\ outcome' = [outcome EXCEPT ![Head(stream)] = @ \cup {"lost"}]
    /\ stream' = Tail(stream)
    /\ UNCHANGED <<outbox, preferences, inbox>>

-----------------------------------------------------------------------------
(* Endpoints. *)

MarkRead(e) ==
    /\ inbox[e].unread > 0
    /\ inbox' = [inbox EXCEPT ![e] = [unread |-> @.unread - 1, read |-> @.read + 1]]
    /\ UNCHANGED <<outbox, stream, preferences, outcome, faults>>

\* An unknown channel ends the request; what came before it is kept.
AcceptedAll(cs) == cs                  \* mutant: every channel is known
Accepted(cs) ==
    LET unknown == {i \in DOMAIN cs : cs[i].channel \notin Channels} IN
    IF unknown = {} THEN cs ELSE SubSeq(cs, 1, Min(unknown) - 1)

SetTo(cs, on) == {cs[i].channel : i \in {i \in DOMAIN cs : cs[i].on = on}}

RefusedUnlessKnown(p) == Accepted(p.channels) # p.channels  \* mutant: any category may be off
Refused(p) == Accepted(p.channels) # p.channels \/ p.off \cap NonSuppressible # {}

PatchPreferences(u, p) ==
    /\ preferences' =
         [preferences EXCEPT ![u] =
            [channels |-> (@.channels \ SetTo(Accepted(p.channels), FALSE))
                             \cup SetTo(Accepted(p.channels), TRUE),
             silenced |-> IF Refused(p) THEN @.silenced ELSE (@.silenced \ p.on) \cup p.off]]
    /\ UNCHANGED <<outbox, stream, inbox, outcome, faults>>

-----------------------------------------------------------------------------
\* What a restart of the process leaves: the queued events are gone.
RestartNotifications ==
    /\ stream' = <<>>
    /\ preferences' = [u \in Users |-> Default]
    /\ outcome' = [e \in Events |-> IF \E i \in DOMAIN stream : stream[i] = e
                                    THEN outcome[e] \cup {"lost"} ELSE outcome[e]]
    /\ UNCHANGED inbox

Relays == \E e \in Events : Relay(e)

Step ==
    \/ Relays
    \/ \E e \in Events : RelayUnmarked(e) \/ MarkRead(e)
    \/ Deliver \/ DeliverFault
    \/ \E u \in Users, p \in Patches : PatchPreferences(u, p)

-----------------------------------------------------------------------------
TypeOK ==
    /\ outbox \in [Events -> {"none", "new", "published"}]
    /\ stream \in Seq(Events)
    /\ preferences \in [Users -> [channels : SUBSET Channels, silenced : SUBSET Categories]]
    /\ inbox \in [Events -> [unread : Nat, read : Nat]]
    /\ outcome \in [Events -> SUBSET {"silenced", "mailed", "off", "lost"}]
    /\ faults \in 0..MaxFaults

\* What the owner of an event may count on.
Reached(e) ==
    \/ inbox[e] # [unread |-> 0, read |-> 0]
    \/ outcome[e] \cap {"mailed", "off", "lost"} # {}
    \/ Category[e] \notin NonSuppressible /\ "silenced" \in outcome[e]
=============================================================================
