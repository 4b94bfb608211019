----------------------------- MODULE MCSessions -----------------------------
(***************************************************************************)
(* One user, one session and two requests at a time: a sign-out beside     *)
(* another request of the same session, and two of a sign-in, a refused    *)
(* sign-in and an export beside each other.                                *)
(***************************************************************************)
EXTENDS Sessions

CONSTANTS u1, s1, r1, r2

MCUsers    == {u1}
MCTokens   == {s1}
MCHandlers == {r1, r2}
=============================================================================
