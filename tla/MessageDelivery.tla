--------------------------- MODULE MessageDelivery ---------------------------
(***************************************************************************)
(* What a conversation promises its senders, whatever happens underneath:  *)
(* a message taken waits or is carried by a turn, may come back from a     *)
(* turn that ran nothing, may be taken back or dropped while it waits, and *)
(* once a turn has it for good it never waits or goes again. Of one whose *)
(* id is forgotten once a turn had it, nothing is promised any more.       *)
(***************************************************************************)
CONSTANT Sent  \* the messages that may be said

VARIABLE at    \* where each message is

Places == {"unsaid", "waiting", "carried", "over", "back", "forgotten"}

\* What can become of one message in one step.
Moves ==
    {<<"unsaid", "waiting">>, <<"unsaid", "carried">>, <<"unsaid", "over">>,
     <<"waiting", "carried">>, <<"waiting", "over">>, <<"waiting", "back">>,
     <<"waiting", "unsaid">>,
     <<"carried", "waiting">>, <<"carried", "over">>,
     <<"carried", "forgotten">>, <<"over", "forgotten">>}

Init == at = [id \in Sent |-> "unsaid"]

Next ==
    /\ at' \in [Sent -> Places]
    /\ \A id \in Sent : at'[id] = at[id] \/ <<at[id], at'[id]>> \in Moves

Spec == Init /\ [][Next]_at

=============================================================================
