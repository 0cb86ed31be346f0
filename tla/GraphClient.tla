---------------------------- MODULE GraphClient ----------------------------
(***************************************************************************)
(* The Graph client every part of a process shares (internal/graph): a     *)
(* call waits for one of a few slots, is sent, and is sent again after a   *)
(* pause while Graph answers 429, with the slot held all along.  The slot  *)
(* is given back with the answer; an attachment is read after that.        *)
(*                                                                         *)
(* The access token is taken before the slot; a refresh that fails is one  *)
(* of the errors a call may answer.                                        *)
(***************************************************************************)
EXTENDS Integers, FiniteSets, Sequences

CONSTANTS
    Callers,           \* goroutines that call Graph, one call each at a time
    GraphConcurrency,  \* slots
    maxRetries         \* throttled attempts before the last one

ASSUME GraphClientAssumption ==
    /\ GraphConcurrency \in Nat \ {0}
    /\ maxRetries \in Nat \ {0}

VARIABLES
    call,   \* what each caller's call is at
    queue   \* who waits for a slot, in the order a Go channel serves

clientVars == <<call, queue>>

Verbs == {"GET", "PATCH"}
Answers == {"ok", "gone", "error", "throttled"}

NoCall == [state |-> "none", verb |-> "GET", tries |-> 0, answer |-> "ok"]

TypeOKClient ==
    /\ call \in [Callers -> [state : {"none", "waiting", "sent", "asleep", "answered"},
                          verb : Verbs, tries : 0..maxRetries, answer : Answers]]
    /\ queue \in Seq(Callers)
    /\ \A c \in Callers : call[c].state = "waiting" <=> \E i \in 1..Len(queue) : queue[i] = c

\* The calls that hold a slot.
InFlight == {c \in Callers : call[c].state \in {"sent", "asleep"}}

Call(c, verb) ==
    /\ call[c].state = "none"
    /\ call' = [call EXCEPT ![c] = [NoCall EXCEPT !.state = "waiting", !.verb = verb]]
    /\ queue' = Append(queue, c)

acquire(c) ==
    /\ queue # <<>> /\ Head(queue) = c
    /\ Cardinality(InFlight) < GraphConcurrency
    /\ call' = [call EXCEPT ![c].state = "sent"]
    /\ queue' = Tail(queue)

\* Mutant: a 404 returns early, past the release.
RespondKeepsSlot(c, answer) ==
    /\ call[c].state = "sent"
    /\ UNCHANGED queue
    /\ IF answer = "gone" THEN UNCHANGED call
       ELSE call' = [call EXCEPT ![c].state = "answered", ![c].answer = answer]

\* Anything but a 429 is returned at once, whatever the last attempt brings is
\* returned too.
Respond(c, answer) ==
    /\ call[c].state = "sent"
    /\ answer = "throttled" => call[c].tries = maxRetries
    /\ call' = [call EXCEPT ![c].state = "answered", ![c].answer = answer]
    /\ UNCHANGED queue

\* The request is used again as it is: the body of a PATCH has been read, and
\* whether the transport sends it once more or the attempt fails is open.
SpentBody(c) == call[c].verb = "PATCH" /\ call[c].tries > 0

\* Mutant: one attempt too many.
ThrottleOnceMore(c) ==
    /\ call[c].state = "sent"
    /\ call[c].tries <= maxRetries
    /\ call' = [call EXCEPT ![c].state = "asleep", ![c].tries = @ + 1]
    /\ UNCHANGED queue

Throttle(c) ==
    /\ call[c].state = "sent"
    /\ call[c].tries < maxRetries
    /\ call' = [call EXCEPT ![c].state = "asleep", ![c].tries = @ + 1]
    /\ UNCHANGED queue

Wake(c) ==
    /\ call[c].state = "asleep"
    /\ call' = [call EXCEPT ![c].state = "sent"]
    /\ UNCHANGED queue

\* The caller takes the answer and goes on.
Answered(c) == call[c].state = "answered"

Take(c) == call' = [call EXCEPT ![c] = NoCall] /\ UNCHANGED queue

=============================================================================
