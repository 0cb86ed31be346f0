------------------------------ MODULE MCMirror ------------------------------
(* Instances of Mirror for TLC. *)
EXTENDS Mirror

CONSTANTS m1, m2, a1, g1, g2, ann

NewerFirst == [m \in Msg |-> IF m = m1 THEN 0 ELSE 1]

\* One message, with an attachment.
OneAttachment == [m \in Msg |-> IF m = m1 THEN {a1} ELSE {}]

\* The older one has an attachment.
OlderAttachment == [m \in Msg |-> IF m = m1 THEN {} ELSE {a1}]

=============================================================================
