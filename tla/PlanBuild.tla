----------------------------- MODULE PlanBuild ------------------------------
(***************************************************************************)
(* The canonical planner (internal/plan): classifications captured in any  *)
(* order are sorted, validated, resolved against the policy and encoded,   *)
(* or refused.  The caller's list grows and is permuted; Build is the pure *)
(* function of the source over it.  A digest stands for what it digests.   *)
(***************************************************************************)
EXTENDS Naturals, Sequences, SequencesExt

CONSTANTS Classifications,   \* the rows a caller may capture
          Policies,          \* [wrap, rep: sets of ids; the Limits, 0 for the default]
          MaxDefaultEntries, MaxDefaultPlanBytes,
          MaxDefaultCapabilityComparisons,
          MaxRows            \* bound: rows captured

VARIABLES rows,              \* CanonicalInput.Classifications, as acquired
          policy             \* CanonicalInput.Policy and Limits

planVars == <<rows, policy>>

ValidAction(a) == a \in 1..5
IsDestructive(a) == a = 4
ValidResult(r) == r \in 1..5
LOSSLESS == 1
WRAPPED == 2
POLICY_FORBIDDEN == 4
UNKNOWN == 5
BlocksAuthorization(r) == r \in 3..5
KnownCapability(id) == id \in 1..20

(***************************************************************************)
(* sort.go.  A path is a sequence of components, a component a number.     *)
(***************************************************************************)
PathLess(p, q) ==
  \/ \E i \in DOMAIN p \cap DOMAIN q :
        p[i] < q[i] /\ \A j \in 1..(i - 1) : p[j] = q[j]
  \/ Len(p) < Len(q) /\ \A j \in DOMAIN p : p[j] = q[j]

SameKey(a, b) == <<a.path, a.cap, a.action>> = <<b.path, b.cap, b.action>>

(* A mutant's order: the action is not compared. *)
LessByCapability(a, b) ==
  PathLess(a.path, b.path) \/ (a.path = b.path /\ a.cap < b.cap)

compareLess(a, b) ==
  \/ PathLess(a.path, b.path)
  \/ /\ a.path = b.path
     /\ a.cap < b.cap \/ (a.cap = b.cap /\ a.action < b.action)

(* One round of the insertion sort: x moves left past the greater ones. *)
Insert(sorted, x) ==
  LET before == SelectSeq(sorted, LAMBDA y : ~ compareLess(x, y))
      after == SelectSeq(sorted, LAMBDA y : compareLess(x, y))
  IN before \o <<x>> \o after

sortRows(in) == FoldLeft(Insert, <<>>, in)
sortUint16(in) == SortSeq(in, LAMBDA a, b : a < b)

(***************************************************************************)
(* build.go                                                                *)
(***************************************************************************)
OrDefault(n, default) == IF n = 0 THEN default ELSE n

Resolve(pol) ==
  [entries |-> OrDefault(pol.maxEntries, MaxDefaultEntries),
   bytes |-> OrDefault(pol.maxBytes, MaxDefaultPlanBytes),
   comparisons |-> OrDefault(pol.maxComparisons, MaxDefaultCapabilityComparisons)]

(* The kind of the error, or "ok".  An id the registry does not know passes:  *)
(* resolveClassification makes it a blocker.                                  *)
validateClassification(c) ==
  IF c.path = <<>> THEN "nonCanonical"
  ELSE IF ~ ValidAction(c.action) \/ ~ ValidResult(c.result) \/ c.cap = 0
  THEN "unsupported"
  ELSE IF KnownCapability(c.cap) /\ Len(c.reps) > MaxDefaultCapabilityComparisons
  THEN "limit"
  ELSE "ok"

(* The scan of the sorted candidates; NoId stands for the source's (0, false). *)
NoId == 99
FirstOf(ids) == IF ids = <<>> THEN NoId ELSE Head(ids)

pickRepresentation(candidates, allow, emptyAllowAll) ==
  IF candidates = <<>> /\ emptyAllowAll
  THEN 0
  ELSE FirstOf(SelectSeq(sortUint16(candidates), LAMBDA id :
                 /\ id # 0
                 /\ IF allow = {} THEN emptyAllowAll ELSE id \in allow))

EntryOf(c, result, rep) ==
  [path |-> c.path, cap |-> c.cap, action |-> c.action, result |-> result, rep |-> rep]

resolveClassification(c, pol) ==
  LET rep == IF c.result = LOSSLESS
             THEN pickRepresentation(c.reps, pol.rep, TRUE)
             ELSE pickRepresentation(c.reps, pol.wrap, FALSE)
  IN IF ~ KnownCapability(c.cap) THEN EntryOf(c, UNKNOWN, 0)
     ELSE IF BlocksAuthorization(c.result) THEN EntryOf(c, c.result, 0)
     ELSE IF rep = NoId THEN EntryOf(c, POLICY_FORBIDDEN, 0)
     ELSE EntryOf(c, c.result, rep)

(* encode.go: the size of a row with components of one byte, of a plan. *)
encodeEntry(e) == 42 + 3 * Len(e.path)
PlanBytes(entries) == 174 + FoldLeft(LAMBDA n, e : n + encodeEntry(e), 0, entries)
encodeDestructiveSubset(entries) == SelectSeq(entries, LAMBDA e : IsDestructive(e.action))

Refused(code) == [code |-> code, entries |-> <<>>, blocking |-> <<>>, destructive |-> <<>>]

(* The first row of the sorted list that is refused decides the error. *)
Fault(sorted) ==
  LET At(i) == IF validateClassification(sorted[i]) # "ok"
               THEN validateClassification(sorted[i])
               ELSE IF i > 1 /\ SameKey(sorted[i - 1], sorted[i]) THEN "nonCanonical"
               ELSE "ok"
      faulty == {i \in DOMAIN sorted : At(i) # "ok"}
  IN IF faulty = {} THEN "ok" ELSE At(CHOOSE i \in faulty : \A j \in faulty : i <= j)

Build(in, pol) ==
  LET limits == Resolve(pol)
      sorted == sortRows(in)
      resolved == [i \in DOMAIN sorted |-> resolveClassification(sorted[i], pol)]
      blocking == SelectSeq(resolved, LAMBDA e : BlocksAuthorization(e.result))
      entries == sortRows(SelectSeq(resolved, LAMBDA e : ~ BlocksAuthorization(e.result)))
  IN IF Len(in) > limits.comparisons \/ Len(in) > limits.entries THEN Refused("limit")
     ELSE IF Fault(sorted) # "ok" THEN Refused(Fault(sorted))
     ELSE IF blocking # <<>>
     THEN [Refused("preflight") EXCEPT !.blocking = blocking]
     ELSE IF PlanBytes(entries) > limits.bytes THEN Refused("limit")
     ELSE [Refused("plan") EXCEPT !.entries = entries,
                                  !.destructive = encodeDestructiveSubset(entries)]

PlanInit == rows = <<>> /\ policy \in Policies

Capture(c) ==
  /\ Len(rows) < MaxRows
  /\ rows' = Append(rows, c)
  /\ UNCHANGED policy

(* The same rows in another order of acquisition. *)
Reorder(i) ==
  /\ rows' = [rows EXCEPT ![i] = rows[i + 1], ![i + 1] = rows[i]]
  /\ UNCHANGED policy

PlanNext ==
  \/ \E c \in Classifications : Capture(c)
  \/ \E i \in 1..(Len(rows) - 1) : Reorder(i)

PlanSpec == PlanInit /\ [][PlanNext]_planVars

PlanTypeOK == policy \in Policies /\ rows \in UNION {[1..n -> Classifications] : n \in 0..MaxRows}

(* "Acquisition order of Classifications does not affect output bytes or   *)
(* digests" (build.go:11): swapping two rows leaves the plan or the        *)
(* blockers as they were, and a refusal a refusal of the same kind.  Only  *)
(* where two rows have one key may the kind depend on the order: the first *)
(* of them that is at fault decides it, and the sort keeps them as they    *)
(* came.                                                                   *)
OrderIrrelevant ==
  [][LET before == Build(rows, policy)
         after == Build(rows', policy')
         KeysRepeat == \E i, j \in DOMAIN rows : i # j /\ SameKey(rows[i], rows[j])
     IN Len(rows') = Len(rows) =>
          \/ after = before
          \/ /\ KeysRepeat
             /\ {before.code, after.code} \subseteq {"nonCanonical", "unsupported", "limit"}
    ]_planVars

(* An authorised plan leaves nothing out and lets nothing through: it has  *)
(* one entry per captured row, in strictly increasing key order, none of   *)
(* them blocking, its destructive subset is the rows that delete, and each *)
(* representation is the least candidate the policy admits.                *)
PlanIsComplete ==
  LET out == Build(rows, policy)
      Eligible(c) == {id \in Range(c.reps) \ {0} :
                        IF c.result = WRAPPED THEN id \in policy.wrap
                        ELSE policy.rep = {} \/ id \in policy.rep}
  IN out.code = "plan" =>
       /\ Len(out.entries) = Len(rows)
       /\ \A i \in 1..(Len(rows) - 1) : compareLess(out.entries[i], out.entries[i + 1])
       /\ Len(out.destructive) = Len(SelectSeq(rows, LAMBDA c : c.action = 4))
       /\ \A c \in Range(rows) : \E e \in Range(out.entries) :
            /\ SameKey(c, e) /\ e.result = c.result /\ c.result \in {LOSSLESS, WRAPPED}
            /\ IF c.reps = <<>> THEN e.rep = 0
               ELSE e.rep \in Eligible(c) /\ \A id \in Eligible(c) : e.rep <= id
=============================================================================
