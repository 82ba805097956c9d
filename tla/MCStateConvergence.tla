------------------------- MODULE MCStateConvergence -------------------------
(***************************************************************************)
(* Three releases over one small state dir: the flat one, one that         *)
(* regroups a directory and a file, moves a document and deletes a         *)
(* leftover inside the directory it renames, and a newer one that retires  *)
(* a file besides and has two files for one address.                       *)
(***************************************************************************)
EXTENDS StateConvergence

AllBuilds == {"flat", "grouped", "newer"}
EachOwn == [b \in AllBuilds |-> b]

SomeTrees == {"runs", "local_runs", "settings", "config_settings", "identities", "drafts", "approvals", "pins"}
SomeFiles == SomeTrees \ {"runs", "local_runs"}
SomeLeaves == [t \in SomeTrees |-> IF t \in SomeFiles THEN {"it"} ELSE {"kept", "left"}]

At(t) == <<t, "it">>
Grouping == {[mode |-> "rename", from |-> "runs", to |-> "local_runs"],
             [mode |-> "copy", from |-> "settings", to |-> "config_settings"]}
Regrouped == [flat |-> {}, grouped |-> Grouping,
              newer |-> Grouping \cup {[mode |-> "copy", from |-> "identities", to |-> "config_settings"]}]
Renamed == [b \in AllBuilds |-> IF b = "flat" THEN {} ELSE {[from |-> At("drafts"), to |-> At("approvals")]}]
Leftovers == [flat |-> {}, grouped |-> {<<"local_runs", "left">>},
              newer |-> {<<"local_runs", "left">>, At("pins")}]
GroupedReads == {<<"local_runs", "kept">>, At("config_settings"), At("approvals")}
Opened == [flat |-> {<<"runs", "kept">>, <<"runs", "left">>, At("settings"), At("identities"), At("drafts"), At("pins")},
           grouped |-> GroupedReads \cup {At("pins")},
           newer |-> GroupedReads]

\* The regroup of verify.json and the step that deletes it where it now is, as
\* state-regroup.ts and land-check-leftovers.ts plan them in one boot.
Verdicts == {"verify", "records_verify"}
VerdictLeaves == [t \in Verdicts |-> {"it"}]
TwoBuilds == {"flat", "grouped"}
TwoOwn == [b \in TwoBuilds |-> b]
VerdictMove == [flat |-> {}, grouped |-> {[mode |-> "rename", from |-> "verify", to |-> "records_verify"]}]
NothingMoved == [b \in TwoBuilds |-> {}]
VerdictGone == [flat |-> {}, grouped |-> {At("records_verify")}]
VerdictReads == [flat |-> {At("verify")}, grouped |-> {}]
=============================================================================
