-------------------------- MODULE MCAccessRequests --------------------------
(* Values of the constants of AccessRequests for the runs. *)
EXTENDS AccessRequests, TLC

CONSTANTS user, manager, officer, second

Asking(u, role) == [requester |-> u, beneficiary |-> Nothing, role |-> role]
For(u, other, role) == [Asking(u, role) EXCEPT !.beneficiary = other]

Seeded(u, role) == [user |-> u, role |-> role, request |-> Nothing, status |-> "ACTIVE"]

\* A line manager and a security officer; a second manager, and a grant that
\* can be extended and conflicts with another role while it lasts.
Approvers == << Seeded(manager, "Approver"), Seeded(officer, "Security Administrator") >>
AndTrader == Approvers \o << Seeded(second, "Approver"),
                             Seeded(user, "Trader") >>

\* A standard role, asked for or to be extended, one that conflicts with it, and
\* a privileged one for a colleague.
Mixed == {Asking(user, "Trader"), Asking(user, "Operations Analyst"),
          For(user, manager, "System Administrator")}
Conflicting == {Asking(user, "Operations Analyst"), Asking(user, "Security Administrator")}
HandlerSymmetry == Permutations(Handlers)
=============================================================================
