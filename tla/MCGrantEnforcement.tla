------------------------- MODULE MCGrantEnforcement -------------------------
(* Values of the constants of GrantEnforcement for the runs. *)
EXTENDS GrantEnforcement, TLC

CONSTANT admin

Seeded(u, role, end) == [user |-> u, role |-> role, start |-> 0, end |-> end,
                         emergency |-> FALSE, status |-> "ACTIVE"]

\* An administrator of both kinds, one of whose grants ends.
SeedGrants == << Seeded(admin, "System Administrator", 0),
                 Seeded(admin, "Security Administrator", MaxTime + 1) >>

SeedRoles == [r \in Roles |-> IF r = "System Administrator"
                              THEN {"PAM_CHECKOUT", "BREAKGLASS_ELIGIBLE"}
                              ELSE {"APPROVE_ACCESS", "GRANT_REVOKE", "ROLE_MANAGE",
                                    "BREAKGLASS_REVIEW"}]
NoCheckout == {<<"System Administrator", {"BREAKGLASS_ELIGIBLE"}>>}
OneHour    == {[user |-> admin, role |-> "System Administrator", hours |-> 1]}
AdminOnly  == {<<admin, "System Administrator">>}
HandlerSymmetry == Permutations(Handlers)
=============================================================================
