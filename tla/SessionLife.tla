---------------------------- MODULE SessionLife ----------------------------
(***************************************************************************)
(* What one end of a session promises: it moves through its phases in      *)
(* order, takes data only in the active one, and one by one.               *)
(***************************************************************************)
EXTENDS Naturals

CONSTANT MaxAccept

VARIABLES phase, taken

vars == <<phase, taken>>

Phases == <<"NEW", "NEGOTIATED", "PEER_AUTHENTICATED", "ARCHIVE_AUTHORIZED", "ACTIVE">>

Init == phase = "NEW" /\ taken = 0

\* The next phase, or several at once; an end that is active stays what it is.
Advance ==
    /\ \E i, j \in 1..5 : i < j /\ phase = Phases[i] /\ phase' = Phases[j]
    /\ UNCHANGED taken

Take == phase = "ACTIVE" /\ taken < MaxAccept /\ taken' = taken + 1 /\ UNCHANGED phase

End == phase \notin {"CLOSED", "FAILED"} /\ phase' \in {"CLOSED", "FAILED"} /\ UNCHANGED taken

Next == Advance \/ Take \/ End

Spec == Init /\ [][Next]_vars
=============================================================================
