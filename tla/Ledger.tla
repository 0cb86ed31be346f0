-------------------------------- MODULE Ledger --------------------------------
(***************************************************************************)
(* What dispatch-worker promises of its extractions, with goroutines,      *)
(* channels, tiers and models left out: a ledger with one entry per        *)
(* message and the number of extractions that are under way for it.        *)
(*                                                                         *)
(* An extraction is ordered when the sort pool asks for one and the        *)
(* message has no entry, or when a rescan pass finds it flagged, once each *)
(* time.  It then writes the entry exactly once, however many hands it     *)
(* goes through; only a fault lets it end without a word.  A stub or a     *)
(* skip never replaces what another has written.                           *)
(***************************************************************************)
EXTENDS Naturals

CONSTANTS
    Msg,
    Misreads,      \* may a worker fail to see an entry that is there?
    Loses          \* may an extraction end without a word?

VARIABLES
    entry,         \* "none", "skip", "stub" or "read"
    writes,        \* how often an entry has been written over
    flagged,       \* the messages to be read again
    asked,         \* the messages the sort pool asks an extraction for
    due,           \* the messages the rescan pass still has to look at
    open           \* the number of extractions under way

vars == <<entry, writes, flagged, asked, due, open>>

Init ==
    /\ entry = [m \in Msg |-> "none"]
    /\ writes = [m \in Msg |-> 0]
    /\ flagged = {}
    /\ asked = {}
    /\ due = {}
    /\ open = [m \in Msg |-> 0]

Ask(m) ==
    /\ asked' = asked \cup {m}
    /\ UNCHANGED <<entry, writes, flagged, due, open>>

Opens(m) == open' = [open EXCEPT ![m] = @ + 1]

\* The request is met with an extraction, or declined for an entry.
Order(m) ==
    /\ m \in asked
    /\ asked' = asked \ {m}
    /\ \/ (entry[m] = "none" \/ Misreads) /\ Opens(m)
       \/ entry[m] # "none" /\ UNCHANGED open
    /\ UNCHANGED <<entry, writes, flagged, due>>

\* A rescan pass goes through flagged messages, each once.
StartPass ==
    /\ due = {}
    /\ due' \subseteq flagged
    /\ UNCHANGED <<entry, writes, flagged, asked, open>>

OrderAgain(m) ==
    /\ m \in due
    /\ due' = due \ {m}
    /\ \/ entry[m] \in {"stub", "read"} /\ Opens(m)
       \/ UNCHANGED open
    /\ UNCHANGED <<entry, writes, flagged, asked>>

\* No stronger model is left for a message of the pass.
Exhaust(m) ==
    /\ m \in due
    /\ due' = due \ {m}
    /\ flagged' = flagged \ {m}
    /\ UNCHANGED <<entry, writes, asked, open>>

Closes(m) ==
    /\ open[m] > 0
    /\ open' = [open EXCEPT ![m] = @ - 1]

\* The extraction ends with a verdict or an error in the entry.
Settle(m) ==
    /\ Closes(m)
    /\ entry' = [entry EXCEPT ![m] = "read"]
    /\ writes' = [writes EXCEPT ![m] = IF entry[m] = "none" THEN @ ELSE @ + 1]
    /\ flagged' \in {flagged \cup {m}, flagged \ {m}}
    /\ UNCHANGED <<asked, due>>

\* The extraction is put off: an entry that says so, unless there is one.
PutOff(m) ==
    /\ Closes(m)
    /\ IF entry[m] = "none"
       THEN entry' = [entry EXCEPT ![m] = "stub"] /\ flagged' = flagged \cup {m}
       ELSE UNCHANGED <<entry, flagged>>
    /\ UNCHANGED <<writes, asked, due>>

\* The extraction ends without a word.
Lose(m) ==
    /\ Loses
    /\ Closes(m)
    /\ UNCHANGED <<entry, writes, flagged, asked, due>>

\* A message that needs no extraction is marked, unless it has an entry.
Skip(m) ==
    /\ entry[m] = "none"
    /\ entry' = [entry EXCEPT ![m] = "skip"]
    /\ UNCHANGED <<writes, flagged, asked, due, open>>

\* The sweep at the start gives up on messages.
GiveUp ==
    /\ flagged' \subseteq flagged
    /\ UNCHANGED <<entry, writes, asked, due, open>>

\* The worker dies with all it has in hand.
Die ==
    /\ Loses
    /\ open' = [m \in Msg |-> 0]
    /\ asked' = {}
    /\ due' = {}
    /\ UNCHANGED <<entry, writes, flagged>>

Next ==
    \/ \E m \in Msg :
         \/ Ask(m) \/ Order(m) \/ OrderAgain(m) \/ Exhaust(m)
         \/ Settle(m) \/ PutOff(m) \/ Lose(m) \/ Skip(m)
    \/ StartPass
    \/ GiveUp
    \/ Die

Spec == Init /\ [][Next]_vars

===============================================================================
