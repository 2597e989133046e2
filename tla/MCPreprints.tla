------------------------------ MODULE MCPreprints ------------------------------
(***************************************************************************)
(* Preprints for TLC: the requests are interchangeable.                    *)
(***************************************************************************)
EXTENDS Preprints, TLC

CONSTANTS request1, request2, none

MCSymmetry == Permutations(Requests)
================================================================================
