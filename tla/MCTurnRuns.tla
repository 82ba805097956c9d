------------------------------ MODULE MCTurnRuns ------------------------------
(***************************************************************************)
(* Small instances of TurnRuns: one conversation, a few runs and restarts. *)
(* What waits is TurnQueue's and Conversation's to check, so nothing does. *)
(***************************************************************************)
EXTENDS TurnRuns

NoMessages == {}
NoBookings == {}

=============================================================================
