---------------------------- MODULE MCOsfStorage ----------------------------
(***************************************************************************)
(* OsfStorage for TLC: a project and a preprint.                           *)
(***************************************************************************)
EXTENDS OsfStorage, TLC

CONSTANTS project, preprint, r1, r2, d1, d2, f1, u1, u2

MCProjects == {project}
MCPreprints == {preprint}
MCRoot == project :> r1 @@ preprint :> r2
MCFolders == {d1, d2}
MCFiles == {f1}
MCUsers == {u1, u2}
MCWanted == MCFiles

MCSymmetry == Permutations(MCFolders) \cup Permutations(MCUsers)
===============================================================================
