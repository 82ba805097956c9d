------------------------------- MODULE MCLand -------------------------------
(***************************************************************************)
(* Small instances of Land: a conversation, a child of it, and another     *)
(* whose changes touch the same lines.                                     *)
(***************************************************************************)
EXTENDS Land

CONSTANTS Ana, Kid, Bob

Family == Ana :> Main @@ Kid :> Ana @@ Bob :> Main

\* The same two repositories, composed in either order.
TwoRepos == Ana :> <<1, 2>> @@ Kid :> <<1>> @@ Bob :> <<2, 1>>

\* A turn's land of each root, a merge of the child, and the measures between.
FamilyDoors == Ana :> {"turn", "measure"} @@ Kid :> {"merge"} @@ Bob :> {"press", "hand"}

\* People take out, or write over, what Ana did first.
AnasFirst == {[of |-> Ana, n |-> 1]}

OnSameLines == {<<Ana, Bob>>, <<Bob, Ana>>}

\* A child of a conversation that works in the shared tree: a person's presses, and
\* its parent's merges.
Alone == Kid :> Main
OneRepo == Kid :> <<1>>
TwoDoors == Kid :> {"press", "merge"}
KidsFirst == {[of |-> Kid, n |-> 1]}

=============================================================================
