---------------------------- MODULE MCInboxSync ----------------------------
(* Instances of InboxSync for TLC. *)
EXTENDS InboxSync

CONSTANTS m1, m2

NewerFirst == [m \in Msg |-> IF m = m1 THEN 0 ELSE 1]

\* A message without tags, as it arrives, and one the worker has tagged.
TwoLists == {{}, {<<"Status", "New">>}}

=============================================================================
