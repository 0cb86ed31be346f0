------------------------------ MODULE MCRecon ------------------------------
(* Orders and answers for model-checking Recon. *)
EXTENDS Recon

Line(no, item, words, qty, unit) ==
    [no |-> no, item |-> item, words |-> words, qty |-> qty, unit |-> unit]

\* Two lines that differ in quantity only, the same with the quantities
\* exchanged, with one line taken off, with one item ordered twice, with an
\* item that is the end of the other, and an order whose lines are gone.
MCOrders == {
    <<Line(1, <<"A">>, {"cable"}, 1, 1), Line(2, <<"B">>, {}, 2, 1)>>,
    <<Line(1, <<"A">>, {"cable"}, 2, 1), Line(2, <<"B">>, {}, 1, 1)>>,
    <<Line(1, <<"A">>, {"cable"}, 1, 1)>>,
    <<Line(1, <<"A">>, {"cable"}, 1, 1), Line(2, <<"A">>, {}, 2, 1)>>,
    <<Line(1, <<"DEL", "A">>, {"cable"}, 1, 2), Line(2, <<"A">>, {}, 1, 1)>>,
    <<>>}

Entry(no, status, qty, unit) ==
    [no |-> no, status |-> status, qty |-> qty, unit |-> unit, ext |-> qty * unit]

\* What the model may say of one line; it may invent line 3, and be unclear
\* about line 2.
Entries ==
    {Entry(no, "match", 0, 0) : no \in 1 .. 3}
    \cup {Entry(2, "not_found", 0, 0), Entry(2, "", 0, 0), Entry(2, "differs", 1, 1)}
    \cup {Entry(1, "differs", qu[1], qu[2]) : qu \in {<<2, 1>>, <<1, 2>>}}

Beyond(words, qty, ext) ==
    [item |-> <<>>, words |-> words, qty |-> qty, unit |-> qty, ext |-> ext]

Unexpected == {<<>>, <<Beyond({"freight"}, 0, 1)>>, <<Beyond({"cable"}, 1, 1)>>}

\* Two entries in the order of the lines; a line may be spoken of again
\* after a match.
TwoEntries ==
    {de \in Entries \X Entries :
        \/ de[1].no < de[2].no
        \/ de[1].no = de[2].no /\ de[1].status = "match"}

MCAnswers ==
    [lines : {<<e>> : e \in Entries}
             \cup {<<de[1], de[2]>> : de \in TwoEntries},
     unexpected : Unexpected, total : {1, 3}]
===========================================================================
