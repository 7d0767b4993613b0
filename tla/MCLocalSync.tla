---------------------------- MODULE MCLocalSync -----------------------------
(***************************************************************************)
(* Small instances of LocalSync for TLC.                                   *)
(***************************************************************************)
EXTENDS LocalSync

CONSTANTS c1, c2

TwoSizes == [c \in {c1, c2} |-> IF c = c1 THEN 1 ELSE 2]

\* A directory with a file in it, and a file after it.
PathsOf == <<"d", "d/f", "g">>
ParentOf == [p \in {"d", "d/f", "g"} |-> IF p = "d/f" THEN "d" ELSE "."]

\* Others edit one of the two sides while runs are killed and calls fail.
Edits(ofSrc, ofDst) ==
  [sources |-> {"s"}, paths |-> {"d", "d/f"}, limit |-> 9, srcEdits |-> ofSrc,
   dstEdits |-> ofDst, faults |-> 1, kinds |-> {"kill", "error"},
   syncDirFails |-> FALSE]
\* Power losses and failing calls.
Power ==
  [sources |-> {"s"}, paths |-> {"d", "d/f", "g"}, limit |-> 12, srcEdits |-> 0,
   dstEdits |-> 0, faults |-> 2, kinds |-> {"power", "error"},
   syncDirFails |-> FALSE]
\* A killed run, then a power loss; and directories that are not synchronised.
KillPower(fails) ==
  [sources |-> {"s"}, paths |-> {"d", "d/f"}, limit |-> 12, srcEdits |-> 0,
   dstEdits |-> 0, faults |-> 2, kinds |-> {"kill", "power"},
   syncDirFails |-> fails]
\* Two source roots take turns on the destination.
Roots ==
  [sources |-> {"s", "t"}, paths |-> {"g"}, limit |-> 10, srcEdits |-> 0,
   dstEdits |-> 0, faults |-> 1, kinds |-> {"kill", "error"},
   syncDirFails |-> TRUE]
\* The destination is edited once.
DestEdit ==
  [sources |-> {"s"}, paths |-> {"g"}, limit |-> 12, srcEdits |-> 0,
   dstEdits |-> 1, faults |-> 0, kinds |-> {}, syncDirFails |-> FALSE]

\* One killed run.
OneKill ==
  [sources |-> {"s"}, paths |-> {"d"}, limit |-> 12, srcEdits |-> 0,
   dstEdits |-> 0, faults |-> 1, kinds |-> {"kill"}, syncDirFails |-> FALSE]

EditsPowerRoots ==
  {Edits(1, 0), Edits(0, 1), Power, KillPower(FALSE), KillPower(TRUE), Roots}
OnlyOneKill == {OneKill}
OnlyDestEdit == {DestEdit}
=============================================================================
