---------------------------- MODULE MCContributors ----------------------------
(***************************************************************************)
(* Contributors for TLC.                                                   *)
(***************************************************************************)
EXTENDS Contributors, TLC

CONSTANTS u1, u2, u3

MCUsers == {u1, u2, u3}
MCPermissions == {"read", "admin"}

\* The users are alike but for the creator.
MCSymmetry == Permutations(MCUsers \ {u1})
===============================================================================
