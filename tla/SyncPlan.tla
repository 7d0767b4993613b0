------------------------------ MODULE SyncPlan ------------------------------
(***************************************************************************)
(* Trees, scans and plans of internal/localsync.                           *)
(*                                                                         *)
(* A tree gives every logical path its entry: absent, a directory, a       *)
(* symbolic link ("special", refused everywhere and leading to no          *)
(* directory), or a regular file, named by its content.  A content stands  *)
(* for its SHA-256 digest, and a plan for the digest of its JSON.  Mode    *)
(* bits are left out.                                                      *)
(***************************************************************************)
EXTENDS Naturals, Sequences, FiniteSetsExt

CONSTANTS
  PathSeq,   \* the logical paths in ascending order of Rel
  Parent,    \* the directory each path is in: a path, or Root
  Root,      \* the sync root itself
  Content,   \* file contents
  Size       \* the length of each content

Paths == {PathSeq[i] : i \in DOMAIN PathSeq}

Entry == {"absent", "dir", "special"} \cup Content

\* Parents come before their children in Rel order.
ASSUME PathAssumption ==
  /\ Root \notin Paths
  /\ \A i \in DOMAIN PathSeq :
       Parent[PathSeq[i]] \in {Root} \cup {PathSeq[j] : j \in 1..(i - 1)}
ASSUME SizeAssumption == Size \in [Content -> Nat]

IsDir(tree, d) == d # Root => tree[d] = "dir"

\* What a filesystem can hold: an entry needs its parent directory.
WellFormed(tree) ==
  \A p \in Paths : tree[p] # "absent" => IsDir(tree, Parent[p])

\* The directories above a path, up to the root.
Above[p \in Paths] ==
  IF Parent[p] = Root THEN {} ELSE {Parent[p]} \cup Above[Parent[p]]

\* Others create, replace or remove the entry of a path.
Editable(tree, p, e) ==
  e # tree[p] /\ (e = "absent" \/ IsDir(tree, Parent[p]))

Put(tree, p, e) ==
  [q \in Paths |-> IF q = p THEN e
                   ELSE IF p \in Above[q] THEN "absent" ELSE tree[q]]

\* os.MkdirAll of a path: every entry on the way is a directory or absent.
CanMkdirAll(tree, d) ==
  d # Root => \A q \in {d} \cup Above[d] : tree[q] \in {"absent", "dir"}

MkdirAll(tree, d) ==
  IF d = Root THEN tree
  ELSE [q \in Paths |-> IF q \in {d} \cup Above[d] THEN "dir" ELSE tree[q]]

Tree == {t \in [Paths -> Entry] : WellFormed(t)}

(***************************************************************************)
(* Scan refuses a tree with an unsupported object anywhere; otherwise the  *)
(* manifest is the tree.                                                   *)
(***************************************************************************)
Scannable(tree) == \A p \in Paths : tree[p] # "special"

(***************************************************************************)
(* BuildPlan: one operation per source entry, in path order.               *)
(***************************************************************************)
PlanConflict(src, dst) ==
  \E p \in Paths : /\ src[p] # "absent"
                   /\ dst[p] # "absent"
                   /\ (src[p] = "dir") # (dst[p] = "dir")

ActionFor(s, d) ==
  IF d = "absent" THEN IF s = "dir" THEN "mkdir" ELSE "copy"
                  ELSE IF s = d THEN "skip" ELSE "replace"

BuildPlan(root, src, dst) ==
  LET rels == SelectSeq(PathSeq, LAMBDA p : src[p] # "absent")
  IN  [root |-> root,
       ops  |-> [i \in DOMAIN rels |->
                   [rel    |-> rels[i],
                    want   |-> src[rels[i]],
                    action |-> ActionFor(src[rels[i]], dst[rels[i]])]]]

Transfers(op) == op.action \in {"copy", "replace"}

\* The bytes the first n operations of a plan copy.
PlannedBytes(plan, n) ==
  MapThenSumSet(LAMBDA i : Size[plan.ops[i].want],
                {i \in 1..n : Transfers(plan.ops[i])})

Skips(plan, n) == Cardinality({i \in 1..n : plan.ops[i].action = "skip"})
=============================================================================
