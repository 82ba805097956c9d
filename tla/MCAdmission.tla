----------------------------- MODULE MCAdmission -----------------------------
(***************************************************************************)
(* A small instance of Admission: what is said to one conversation.        *)
(***************************************************************************)
EXTENDS Admission

CONSTANT Ana   \* a person

Message(id, voice, continues) ==
    [id |-> id, voice |-> voice, actor |-> Ana, continues |-> continues,
     files |-> 1, text |-> 0, serves |-> 1]

\* A person's words, twice, which go as one where both wait; a report of a child;
\* a Continue booked for later.
WordsReportContinue ==
    {Message(1, "person", FALSE), Message(2, "person", FALSE),
     Message(3, "report", FALSE), Message(4, "person", TRUE)}

\* Words are joined with nothing but words beside them.
Met == accepted \cup receipts \cup recorded \cup Named(op.batch)

OnePart == 2 \notin Met \/ Met \cap {3, 4} = {}

PartSpec == Init /\ [][Next /\ OnePart']_vars /\ Fairness

=============================================================================
