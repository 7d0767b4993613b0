------------------------------ MODULE PlanGate ------------------------------
(***************************************************************************)
(* planGate of internal/remotesync/plan_ipc.go: what integrisd-plan lets   *)
(* through to the roles below it.  A manifest is a sequence of entries     *)
(* [rel, type, data]; data stands for the digest, mode and size of a file, *)
(* and NoDigest for a file entry without digest.  An operation returns the *)
(* gate after it and whether the message may pass.                         *)
(***************************************************************************)
EXTENDS Naturals, Sequences, SequencesExt, FiniteSets

NoDigest == 0
NoFile == ""

(* A nil *planGate. *)
NoGate == [files |-> [f \in {} |-> NoDigest], seen |-> {}, active |-> NoFile, open |-> FALSE]

FileEntries(man) == SelectSeq(man, LAMBDA e : e.type = "file")

(* The message may pass if ok; the gate is then g. *)
Pass(g) == [ok |-> TRUE, gate |-> g]
Refuse(g) == [ok |-> FALSE, gate |-> g]

authorizeManifest(man, gate) ==
  LET files == FileEntries(man)
      ok == /\ \A i \in DOMAIN man : man[i].type \in {"file", "dir"}
            /\ \A i \in DOMAIN files : files[i].rel # NoFile /\ files[i].data # NoDigest
            /\ \A i, j \in DOMAIN files : files[i].rel = files[j].rel => i = j
  IN  IF ~ok THEN Refuse(gate)
      ELSE Pass([open |-> TRUE, seen |-> {}, active |-> NoFile,
                 files |-> [f \in {files[i].rel : i \in DOMAIN files} |->
                              (CHOOSE e \in Range(files) : e.rel = f).data]])

(* A file is wanted if the manifest has it with this data, and not yet seen. *)
Wanted(gate, f, d) ==
  gate.open /\ f \in DOMAIN gate.files /\ gate.files[f] = d /\ f \notin gate.seen

checkFile(gate, f, d) ==
  IF Wanted(gate, f, d) THEN Pass([gate EXCEPT !.seen = @ \cup {f}]) ELSE Refuse(gate)

(* Mutant of checkBegin: the file does not become the active one. *)
checkBeginOnly(gate, f, d) == IF Wanted(gate, f, d) THEN Pass(gate) ELSE Refuse(gate)
checkBegin(gate, f, d) ==
  IF Wanted(gate, f, d) THEN Pass([gate EXCEPT !.active = f]) ELSE Refuse(gate)

(* The case msgFileChunk of ServePlanBridgeDyn. *)
checkChunk(gate) == IF gate.active # NoFile THEN Pass(gate) ELSE Refuse(gate)

checkEnd(gate, f, d) ==
  IF gate.active # NoFile /\ f = gate.active /\ gate.files[f] = d
  THEN Pass([gate EXCEPT !.seen = @ \cup {f}, !.active = NoFile])
  ELSE Refuse(gate)

checkCommit(gate) ==
  IF /\ gate.open /\ gate.active = NoFile
     /\ Cardinality(gate.seen) = Cardinality(DOMAIN gate.files)
  THEN Pass(gate) ELSE Refuse(gate)
=============================================================================
