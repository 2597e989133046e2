-------------------------- MODULE MCSchemaResponses --------------------------
(***************************************************************************)
(* SchemaResponses for TLC: an initial response and two revisions of it.   *)
(***************************************************************************)
EXTENDS SchemaResponses

CONSTANTS admin1, admin2, design, sample, x, y, markedX, blank, false, none

\* The required questions were answered, and answered alike; the others were not.
MCRegistered == [k \in Keys |-> IF k \in Required THEN x ELSE blank]

\* The optional question is a single-select with one option.
MCInputs == [k \in Keys |-> IF k \in Required THEN {x, markedX, y, blank}
                                              ELSE {x, blank, false}]

\* markedX is x with an empty tag after it.
MCStripHtml == [i \in {x, markedX, y, blank, false} |-> IF i = markedX THEN x ELSE i]
=============================================================================
