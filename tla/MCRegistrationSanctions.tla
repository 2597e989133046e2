----------------------- MODULE MCRegistrationSanctions -----------------------
(* A small instance of RegistrationSanctions for TLC. *)
EXTENDS RegistrationSanctions, TLC

CONSTANTS admin1, admin2, root, child, approval, embargo,
          term1, term2, retr1, retr2, none

MCSymmetry == Permutations(Admins) \cup Permutations(Terminations)
              \cup Permutations(Retractions)
=============================================================================
