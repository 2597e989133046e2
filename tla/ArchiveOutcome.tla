--------------------------- MODULE ArchiveOutcome ---------------------------
(***************************************************************************)
(* What the archiver promises to the sanctions of a registration: it       *)
(* finishes copying the root, and then either asks the contributors or     *)
(* fails; it may also fail before.  RegistrationSanctions takes the same   *)
(* steps in ArchiveFinished, ArchiveSuccess and ArchiveFail.               *)
(***************************************************************************)
VARIABLE archive  \* ARCHIVING, FINISHED, SENT or FAILED

OutcomeInit == archive = "ARCHIVING"

Finish == archive = "ARCHIVING" /\ archive' = "FINISHED"

Send == archive = "FINISHED" /\ archive' = "SENT"

Fail == archive \in {"ARCHIVING", "FINISHED"} /\ archive' = "FAILED"

OutcomeNext == Finish \/ Send \/ Fail

OutcomeSpec == OutcomeInit /\ [][OutcomeNext]_archive
=============================================================================
