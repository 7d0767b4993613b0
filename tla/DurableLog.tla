----------------------------- MODULE DurableLog -----------------------------
(***************************************************************************)
(* What a journal session promises its callers, independent of segments,   *)
(* file offsets and commitments: an append-only log of records.            *)
(*                                                                         *)
(*   log    the records on stable storage, in commit order                 *)
(*   doubt  records written but not known to be stable; a reader of the    *)
(*          file may see them, a power loss may take a suffix of them      *)
(*                                                                         *)
(* An acknowledged append puts its record, and every record in doubt before *)
(* it, at the end of log.  Nothing ever shortens or rewrites log.          *)
(***************************************************************************)
EXTENDS Naturals, Sequences

CONSTANT Data       \* what callers append (transaction id, type, payload)

VARIABLES log, doubt

logVars == <<log, doubt>>

LogInit == log = <<>> /\ doubt = <<>>

\* An append is written; its caller has no answer yet, or was told it failed.
WriteInDoubt ==
  /\ \E d \in Data : doubt' = Append(doubt, d)
  /\ UNCHANGED log

\* The synchronisation point of an append: everything in doubt is stable.
Commit ==
  /\ doubt # <<>>
  /\ log' = log \o doubt
  /\ doubt' = <<>>

\* A power loss keeps some prefix of the doubtful records, now stable.
Lose ==
  \E k \in 0..Len(doubt) :
    /\ log' = log \o SubSeq(doubt, 1, k)
    /\ doubt' = <<>>

LogNext == WriteInDoubt \/ Commit \/ Lose

LogSpec == LogInit /\ [][LogNext]_logVars
=============================================================================
