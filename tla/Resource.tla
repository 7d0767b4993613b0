------------------------------ MODULE Resource ------------------------------
(***************************************************************************)
(* Admission of external sizes before allocation (internal/resource):      *)
(* finite limits, arithmetic that refuses instead of wrapping, and the     *)
(* cumulative Budget.  A word is 0..MaxWord (2^64 - 1 in the source).      *)
(***************************************************************************)
EXTENDS Naturals

CONSTANTS MaxWord,     \* largest unsigned word
          Ceilings     \* the values MaxBytes and MaxCount are tried with

ASSUME WordAssumption == MaxWord \in Nat \ {0} /\ Ceilings \subseteq 0..MaxWord

VARIABLES limits,      \* Budget.Limits: [bytes, count]
          used,        \* Budget.Bytes and Budget.Count
          asked        \* history: the exact sums of the requests admitted

budgetVars == <<limits, used, asked>>

Word == 0..MaxWord
Wrap(n) == n % (MaxWord + 1)

(* Admit*: a limit of zero is not configured and refuses everything. *)
Admit(limit, n) == limit # 0 /\ n <= limit

(* A check that trusts the wrapped result, for comparison. *)
NeverOverflows(a, b) == FALSE

AddOverflows(a, b) == a > MaxWord - b
AddUint64(a, b) == Wrap(a + b)

MulOverflows(a, b) == a # 0 /\ b # 0 /\ a > MaxWord \div b
MulUint64(a, b) == Wrap(a * b)

AdmitSliceCap(lim, n, size) ==
  /\ Admit(lim.count, n)
  /\ ~ MulOverflows(n, size)
  /\ Admit(lim.bytes, MulUint64(n, size))

BudgetInit ==
  /\ limits \in [{"bytes", "count"} -> Ceilings]
  /\ used = [d \in {"bytes", "count"} |-> 0]
  /\ asked = used

(* ConsumeBytes and ConsumeCount; a refusal leaves the budget alone. *)
Consume(d, n) ==
  /\ ~ AddOverflows(used[d], n)
  /\ Admit(limits[d], AddUint64(used[d], n))
  /\ used' = [used EXCEPT ![d] = AddUint64(used[d], n)]
  /\ asked' = [asked EXCEPT ![d] = @ + n]
  /\ UNCHANGED limits

BudgetNext == \E d \in {"bytes", "count"}, n \in Word : Consume(d, n)

BudgetSpec == BudgetInit /\ [][BudgetNext]_budgetVars

BudgetTypeOK ==
  /\ limits \in [{"bytes", "count"} -> Word]
  /\ used \in [{"bytes", "count"} -> Word]
  /\ asked \in [{"bytes", "count"} -> Nat]

(* What the budget records is the exact, never the wrapped, sum of the work *)
(* it admitted, and that sum is within the limit (Budget.ConsumeBytes).     *)
BudgetIsExact ==
  \A d \in {"bytes", "count"} : used[d] = asked[d] /\ asked[d] <= limits[d]

(* A slice AdmitSliceCap lets through really fits: the product of its true *)
(* sizes, not the product of words, is within MaxBytes.                    *)
AdmittedSliceFits ==
  \A n, size \in Word :
     AdmitSliceCap(limits, n, size) => n * size <= limits.bytes
=============================================================================
