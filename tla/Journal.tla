------------------------------ MODULE Journal -------------------------------
(***************************************************************************)
(* internal/journal: the append-only, commitment-chained journal segment,  *)
(* its reader and its writer, as the journal sessions of internal/localsync *)
(* and internal/remotesync drive them, under process kills, power losses,  *)
(* short writes and failed synchronisations.                               *)
(*                                                                         *)
(* The bytes of a segment are abstracted to the records that are complete  *)
(* in the file plus the kind of bytes that follow the last of them.  The   *)
(* byte-level scan is the subject of module JournalScan.                   *)
(***************************************************************************)
EXTENDS Naturals, Sequences

CONSTANTS
  Data,         \* what a caller appends: transaction id, type and payload
  MaxRecords    \* codec.MaxJournalSegmentBytes, counted in records

ASSUME MaxRecordsAssumption == MaxRecords \in Nat \ {0}
ASSUME DataAssumption == Data # {}

VARIABLES
  file,      \* complete records of the segment file, as a reader sees them
  tail,      \* bytes after them: "none", or "torn" (a cut-off record)
  durable,   \* how many of the records are on stable storage
  w,         \* the Writer with its FileSegment, or a closed one
  acked      \* history: the records whose Append returned no error

vars == <<file, tail, durable, w, acked>>

(***************************************************************************)
(* Records.  A commitment is a collision-free digest of the previous       *)
(* commitment, the sequence number and the contents, so it is modelled by  *)
(* that history itself; the genesis commitment is the empty history.       *)
(***************************************************************************)
GenesisCommitment == <<>>

Link == Nat \X Data

Record == [seq : Nat, prev : Seq(Link), data : Data]

RecordCommitment(r) == Append(r.prev, <<r.seq, r.data>>)

(***************************************************************************)
(* ReadPrefix over a sequence of complete records: every record must carry *)
(* the expected sequence number and the commitment of its predecessor.     *)
(***************************************************************************)
HeadCommitment(recs) ==
  IF recs = <<>> THEN GenesisCommitment ELSE RecordCommitment(recs[Len(recs)])

Chained(recs, i) ==
  /\ recs[i].seq = i
  /\ recs[i].prev = HeadCommitment(SubSeq(recs, 1, i - 1))

\* ReadPrefix returns no KindFatal error.
Accepted(recs) == \A i \in 1..Len(recs) : Chained(recs, i)

NextSequence(recs) == Len(recs) + 1

(***************************************************************************)
(* The Writer.  size is the number of records inside the cached            *)
(* FileSegment.size; a record the segment received but whose Sync failed   *)
(* is inside size although nextSeq was not advanced.  The status of an open *)
(* writer is "idle", "syncing" (an Append is between seg.Append and        *)
(* seg.Sync) or "short" (its last WriteAt stopped early).                  *)
(***************************************************************************)
Status == {"closed", "idle", "syncing", "short"}

Writer ==
  [status : Status, size : Nat, nextSeq : Nat \ {0}, prev : Seq(Link)]

ClosedWriter ==
  [status |-> "closed", size |-> 0, nextSeq |-> 1, prev |-> GenesisCommitment]

Init ==
  /\ file = <<>>
  /\ tail = "none"
  /\ durable = 0
  /\ w = ClosedWriter
  /\ acked = {}

(***************************************************************************)
(* finishOpenJournal: OpenWriter on the longest valid prefix; a torn tail  *)
(* is truncated away and the writer is opened again on what is left.       *)
(***************************************************************************)
Open ==
  /\ w.status = "closed"
  /\ Accepted(file)
  /\ tail' = "none"
  /\ w' = [status |-> "idle", size |-> Len(file), nextSeq |-> NextSequence(file),
           prev |-> HeadCommitment(file)]
  /\ UNCHANGED <<file, durable, acked>>

(***************************************************************************)
(* The refusals at the head of Writer.Append, over the segment view given  *)
(* by the cached size.  A torn tail inside that view cannot occur here:    *)
(* Open removed it and a short write leaves the cached size unchanged.     *)
(***************************************************************************)
View == SubSeq(file, 1, w.size)

\* Mutant of MayAppend: no comparison of the segment's next sequence with the
\* writer's.
MayAppendDiverged ==
  /\ ~(w.size > 0 /\ w.nextSeq = 1)
  /\ Accepted(View)
  /\ w.size < MaxRecords

MayAppend ==
  /\ ~(w.size > 0 /\ w.nextSeq = 1)
  /\ Accepted(View)
  /\ NextSequence(View) = w.nextSeq
  /\ w.size < MaxRecords

NewRecord(d) == [seq |-> w.nextSeq, prev |-> w.prev, data |-> d]

\* After a short write no caller appends again: localsync fails the run and
\* ServeJournalIPC returns, and both close the session.
Calling == w.status = "idle"

\* Mutant of AppendWrite: the write offset is one record short of the size.
AppendOverwrites(d) ==
  /\ Calling
  /\ MayAppend
  /\ file' = Append(SubSeq(View, 1, w.size - 1), NewRecord(d))
  /\ w' = [w EXCEPT !.size = Len(file'), !.status = "syncing"]
  /\ UNCHANGED <<tail, durable, acked>>

\* FileSegment.Append writes the whole record at the cached size.
AppendWrite(d) ==
  /\ Calling
  /\ MayAppend
  /\ file' = Append(View, NewRecord(d))
  /\ w' = [status |-> "syncing", size |-> w.size + 1, nextSeq |-> w.nextSeq,
           prev |-> w.prev]
  /\ UNCHANGED <<tail, durable, acked>>

\* WriteAt stops early: bytes are in the file, the cached size stays.
AppendShort ==
  /\ Calling
  /\ MayAppend
  /\ tail' = "torn"
  /\ w' = [w EXCEPT !.status = "short"]
  /\ UNCHANGED <<file, durable, acked>>

\* Mutant of SyncOk: Append returns the record without synchronising.
SyncSkipped ==
  /\ w.status = "syncing"
  /\ acked' = acked \cup {file[Len(file)]}
  /\ w' = [status |-> "idle", size |-> w.size, nextSeq |-> w.nextSeq + 1,
           prev |-> RecordCommitment(file[Len(file)])]
  /\ UNCHANGED <<file, tail, durable>>

\* FileSegment.Sync succeeds and Append returns the record.
SyncOk ==
  /\ w.status = "syncing"
  /\ durable' = Len(file)
  /\ acked' = acked \cup {file[Len(file)]}
  /\ w' = [status |-> "idle", size |-> w.size, nextSeq |-> w.nextSeq + 1,
           prev |-> RecordCommitment(file[Len(file)])]
  /\ UNCHANGED <<file, tail>>

\* FileSegment.Sync fails: Append returns the error before advancing nextSeq.
SyncFail ==
  /\ w.status = "syncing"
  /\ w' = [w EXCEPT !.status = "idle"]
  /\ UNCHANGED <<file, tail, durable, acked>>

Close ==
  /\ w.status \in {"idle", "short"}
  /\ w' = ClosedWriter
  /\ UNCHANGED <<file, tail, durable, acked>>

(***************************************************************************)
(* Faults.  A kill loses the process and keeps what the kernel has; it may *)
(* cut a write short.  A power loss also loses any suffix of the records   *)
(* not yet synchronised and may cut the first lost one.                    *)
(***************************************************************************)
Kill ==
  /\ w.status # "closed"
  /\ w' = ClosedWriter
  /\ \/ tail' = tail
     \/ Calling /\ MayAppend /\ tail' = "torn"
  /\ UNCHANGED <<file, durable, acked>>

PowerLoss ==
  \E k \in durable..Len(file) :
    /\ file' = SubSeq(file, 1, k)
    /\ durable' = k
    /\ tail' \in {"none", "torn"}
    /\ w' = ClosedWriter
    /\ UNCHANGED acked

Next ==
  \/ Open
  \/ \E d \in Data : AppendWrite(d)
  \/ AppendShort
  \/ SyncOk
  \/ SyncFail
  \/ Close
  \/ Kill
  \/ PowerLoss

Spec == Init /\ [][Next]_vars
-----------------------------------------------------------------------------
(***************************************************************************)
(* Properties                                                              *)
(***************************************************************************)

\* Types of the segment, the writer and the history variables.
TypeOK ==
  /\ file \in Seq(Record)
  /\ tail \in {"none", "torn"}
  /\ durable \in 0..Len(file)
  /\ w \in Writer
  /\ acked \subseteq Record

\* No sequence of appends, failed synchronisations, kills, power losses and
\* reopenings makes ReadPrefix return a fatal error: the complete records of
\* the file always form one unbroken chain (reader.go, writer.go).
AlwaysReadable == Accepted(file)

\* A record whose Append returned no error is on stable storage under its own
\* sequence number, whatever failed or crashed since (Append syncs before it
\* returns, and no later writer may write over it).
AckedIsDurable ==
  \A r \in acked : r.seq \in 1..durable /\ file[r.seq] = r

\* "It never overwrites the committed prefix" (writer.go:7): no step, a crash
\* or a reopening included, changes or removes a record on stable storage.
CommittedPrefixStable ==
  [][/\ durable' >= durable
     /\ SubSeq(file', 1, durable) = SubSeq(file, 1, durable)]_vars

\* What the records from+1..to of a segment hold.
Contents(recs, from, to) == [i \in 1..(to - from) |-> recs[from + i].data]

Log == INSTANCE DurableLog
         WITH log <- Contents(file, 0, durable),
              doubt <- Contents(file, durable, Len(file))

\* The session implements the abstract append-only log: DurableLog with the
\* synchronised records as the log and the other readable records in doubt, so
\* that no append, crash or reopening shortens, reorders or rewrites what was
\* committed (journal.md:28-34).
ImplementsDurableLog == Log!LogSpec
=============================================================================
