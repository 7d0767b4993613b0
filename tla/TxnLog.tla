------------------------------- MODULE TxnLog -------------------------------
(***************************************************************************)
(* The localsync transaction records and the state that inspectPrefix      *)
(* reconstructs from a journal prefix.                                     *)
(***************************************************************************)
EXTENDS Naturals, Sequences

\* "no plan", "no root": the zero values of txnState.
NoPlan == [root |-> "none", ops |-> <<>>]

NoTxn ==
  [found |-> FALSE, id |-> 0, root |-> "none", plan |-> NoPlan, hasPlan |-> FALSE,
   next |-> 0, bytes |-> 0, authorized |-> FALSE, confirmed |-> FALSE,
   cancelled |-> FALSE]

(***************************************************************************)
(* The records, with the payload fields resume and reporting depend on.    *)
(* next counts completed operations: the record's index plus one.          *)
(***************************************************************************)
Observation(id, root) == [type |-> "observation", txn |-> id, root |-> root]
PlanDigest(id, plan) == [type |-> "plan_digest", txn |-> id, plan |-> plan]
Authorization(id, plan) == [type |-> "authorization", txn |-> id, plan |-> plan]
Progress(id, n, bytes) ==
  [type |-> "progress", txn |-> id, next |-> n, bytes |-> bytes]
Recovery(id, n) == [type |-> "recovery", txn |-> id, next |-> n]
Confirmation(id, plan, done, skipped, bytes) ==
  [type |-> "confirmation", txn |-> id, plan |-> plan, completed |-> done,
   skipped |-> skipped, bytes |-> bytes]
Cancellation(id) == [type |-> "cancellation", txn |-> id]

\* One iteration of the loop of inspectPrefix.
Inspect(cur, rec) ==
  CASE rec.type = "observation" ->
         [NoTxn EXCEPT !.found = TRUE, !.id = rec.txn, !.root = rec.root]
    [] rec.txn # cur.id -> cur
    [] rec.type = "plan_digest" ->
         [cur EXCEPT !.plan = rec.plan, !.hasPlan = TRUE, !.next = 0, !.bytes = 0,
                     !.confirmed = FALSE, !.cancelled = FALSE]
    [] rec.type = "authorization" -> [cur EXCEPT !.authorized = TRUE]
    [] rec.type = "progress" -> [cur EXCEPT !.next = rec.next, !.bytes = rec.bytes]
    [] rec.type = "confirmation" -> [cur EXCEPT !.confirmed = TRUE]
    [] rec.type = "cancellation" -> [cur EXCEPT !.cancelled = TRUE]
    [] OTHER -> cur

inspectPrefix(records) ==
  LET cur[n \in 0..Len(records)] ==
        IF n = 0 THEN NoTxn ELSE Inspect(cur[n - 1], records[n])
      last == cur[Len(records)]
  IN  IF last.cancelled THEN NoTxn ELSE last
=============================================================================
