----------------------------- MODULE AuditTrail -----------------------------
(***************************************************************************)
(* The table of audit events (core/audit.py).  The hash of an event covers *)
(* its content and the hash of the event it was chained to, so an event is *)
(* known by its hash: here the number the database gives it when it is     *)
(* flushed, and NoHash is the predecessor of an event that found no other. *)
(* A writer reads the last committed hash, flushes its event and commits,  *)
(* in separate steps; other transactions see it only once committed.       *)
(***************************************************************************)
EXTENDS Integers, FiniteSetsExt

NoHash == 0

Event(seq, prev, about) == [seq |-> seq, prev |-> prev, about |-> about]

\* select(payload_hash).order_by(seq.desc()).limit(1)
LastHash(trail) == Max({NoHash} \cup {e.seq : e \in trail})

About(trail, subject) == {e \in trail : e.about = subject}

\* Every event is chained to an event of the table that is older, or to none.
LinksLeadBack(trail) ==
    \A e \in trail : \/ e.prev = NoHash
                     \/ \E d \in trail : d.seq = e.prev /\ d.seq < e.seq

\* In the order of their numbers, every event is chained to the one before it.
IsChain(trail) ==
    \A e \in trail : e.prev = LastHash({d \in trail : d.seq < e.seq})
=============================================================================
