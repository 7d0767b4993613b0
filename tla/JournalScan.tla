----------------------------- MODULE JournalScan ----------------------------
(***************************************************************************)
(* The journal segment as bytes: codec.EncodeRecord and DecodeRecord, the  *)
(* scans of journal.ReadPrefix and verify.VerifyBytes, and the session of  *)
(* module Journal over them, with writes cut at any place, a truncation    *)
(* that a power loss undoes, holes and bit rot.                            *)
(*                                                                         *)
(* A cell stands for a run of bytes that the decoder treats alike: the     *)
(* magic, the framing with record_length, one unit of the digested part,   *)
(* or the commitment with the trailer.                                     *)
(***************************************************************************)
EXTENDS Naturals, Sequences

CONSTANTS
  Data,        \* what a caller appends
  Size,        \* cells of the digested part, for each element of Data
  MaxRecord,   \* codec.MaxRecordBytes, in cells
  MaxCells,    \* codec.MaxJournalSegmentBytes, in cells
  Scenarios    \* the instances explored, each a record of
               \*   faults: kills, power losses and failing calls to come,
               \*   rot: cells whose stored value will change by itself,
               \*   holes: whether a power loss may keep the length of a file
               \*     and lose a cell of it

Overhead == 3

VARIABLES
  cells,     \* the segment file
  synced,    \* how many of the cells are on stable storage
  dropped,   \* what a truncation removed that is not yet synchronised
  w,         \* the Writer with its FileSegment; size counts cells
  written,   \* history: the records given to a segment
  acked,     \* history: records whose Append returned no error
  env        \* the scenario, with the faults and the rot it still allows

vars == <<cells, synced, dropped, w, written, acked, env>>

(***************************************************************************)
(* EncodeRecord.  Digest and commitment cover the record, so a digested    *)
(* cell and the trailer name the record they are of.                       *)
(***************************************************************************)
None == [seq |-> 0]
Cell(is, of, n) == [is |-> is, of |-> of, n |-> n]
Bad == Cell("bad", None, 0)

RecordLength(r) == Overhead + Size[r.data]

EncodeRecord(r) ==
  [i \in 1..RecordLength(r) |->
     CASE i = 1 -> Cell("magic", None, 0)
       [] i = 2 -> Cell("framing", None, RecordLength(r))
       [] i = RecordLength(r) -> Cell("trailer", r, i)
       [] OTHER -> Cell("body", r, i)]

(***************************************************************************)
(* DecodeRecord of the cells b: the record and its length, or the kind of  *)
(* the error.  record_length is believed before anything it covers has     *)
(* been verified.                                                          *)
(***************************************************************************)
Decoded(kind, r, n) == [kind |-> kind, rec |-> r, len |-> n]

DecodeRecord(b) ==
  CASE b[1].is # "magic" -> Decoded("fatal", None, 0)
    [] b[1].is = "magic" /\ Len(b) < 2 -> Decoded("incomplete", None, 0)
    [] OTHER ->
       LET n == b[2].n
       IN  IF b[2].is # "framing" \/ n \notin Overhead..MaxRecord
           THEN Decoded("fatal", None, 0)
           ELSE IF Len(b) < n THEN Decoded("incomplete", None, 0)
           ELSE LET r == b[n].of
                IN  IF b[n].is = "trailer" /\ SubSeq(b, 1, n) = EncodeRecord(r)
                    THEN Decoded("ok", r, n) ELSE Decoded("fatal", None, 0)

(***************************************************************************)
(* The two scans.  Both advance over decoded records while sequence and    *)
(* commitment continue the chain; the reader looks at no more than         *)
(* MaxRecord cells at a time and returns no records with a fatal error.    *)
(***************************************************************************)
Window(b, offset, max) ==
  SubSeq(b, offset + 1, IF Len(b) - offset < max THEN Len(b) ELSE offset + max)

\* Mutant of Peek: the buffer bound is one too small.
PeekShort(b, offset) == Window(b, offset, MaxRecord - 1)

Peek(b, offset) == Window(b, offset, MaxRecord)

Scanned(recs, bytes, end) == [records |-> recs, bytes |-> bytes, end |-> end]

Commitment(recs) ==
  IF recs = <<>> THEN <<>>
  ELSE LET r == recs[Len(recs)] IN Append(r.prev, <<r.seq, r.data>>)

Continues(recs, r) == r.seq = Len(recs) + 1 /\ r.prev = Commitment(recs)

RECURSIVE ReadFrom(_, _, _)
ReadFrom(b, recs, offset) ==
  IF offset = Len(b) THEN Scanned(recs, offset, "clean")
  ELSE LET d == DecodeRecord(Peek(b, offset))
       IN  CASE d.kind = "incomplete" -> Scanned(recs, offset, "torn")
             [] d.kind = "ok" /\ Continues(recs, d.rec) ->
                  ReadFrom(b, Append(recs, d.rec), offset + d.len)
             [] OTHER -> Scanned(<<>>, 0, "fatal")

ReadPrefix(b) == ReadFrom(b, <<>>, 0)

RECURSIVE VerifyFrom(_, _, _)
VerifyFrom(b, recs, offset) ==
  IF offset = Len(b) THEN Scanned(recs, offset, "clean")
  ELSE LET d == DecodeRecord(SubSeq(b, offset + 1, Len(b)))
       IN  CASE d.kind = "incomplete" -> Scanned(recs, offset, "torn")
             [] d.kind = "ok" /\ Continues(recs, d.rec) ->
                  VerifyFrom(b, Append(recs, d.rec), offset + d.len)
             [] OTHER -> Scanned(recs, offset, "fatal")

VerifyBytes(b) == VerifyFrom(b, <<>>, 0)

(***************************************************************************)
(* The session: finishOpenJournal, Writer.Append and Close over the cells. *)
(***************************************************************************)
ClosedWriter == [status |-> "closed", size |-> 0, nextSeq |-> 1, prev |-> <<>>]

Init ==
  /\ cells = <<>> /\ synced = 0 /\ dropped = <<>>
  /\ w = ClosedWriter
  /\ written = {} /\ acked = {}
  /\ env \in Scenarios

Least(a, b) == IF a < b THEN a ELSE b

\* Mutant of Open: the torn tail stays in the file.
OpenKeepsTail ==
  LET p == ReadPrefix(cells)
  IN  /\ w.status = "closed"
      /\ p.end # "fatal"
      /\ w' = [status |-> "idle", size |-> Len(cells), nextSeq |-> Len(p.records) + 1,
               prev |-> Commitment(p.records)]
      /\ UNCHANGED <<written, cells, synced, dropped, acked, env>>

Open ==
  LET p == ReadPrefix(cells)
  IN  /\ w.status = "closed"
      /\ p.end # "fatal"
      /\ cells' = SubSeq(cells, 1, p.bytes)
      /\ synced' = Least(synced, p.bytes)
      /\ dropped' = IF p.end = "torn" THEN SubSeq(cells, p.bytes + 1, Len(cells))
                                      ELSE dropped
      /\ w' = [status |-> "idle", size |-> p.bytes, nextSeq |-> Len(p.records) + 1,
               prev |-> Commitment(p.records)]
      /\ UNCHANGED <<written, acked, env>>

View == SubSeq(cells, 1, w.size)

NewRecord(d) == [seq |-> w.nextSeq, prev |-> w.prev, data |-> d]

Encoded(d) == EncodeRecord(NewRecord(d))

MayAppend(d) ==
  LET p == ReadPrefix(View)
  IN  /\ w.status = "idle"
      /\ ~(w.size > 0 /\ w.nextSeq = 1)
      /\ p.end = "clean"
      /\ Len(p.records) + 1 = w.nextSeq
      /\ w.size + Len(Encoded(d)) <= MaxCells

AppendWrite(d) ==
  /\ MayAppend(d)
  /\ cells' = View \o Encoded(d)
  /\ w' = [w EXCEPT !.size = Len(cells'), !.status = "syncing"]
  /\ written' = written \cup {NewRecord(d)}
  /\ UNCHANGED <<synced, dropped, acked, env>>

Fault == env.faults > 0 /\ env' = [env EXCEPT !.faults = @ - 1]

\* WriteAt stops after some cells, with an error or because the process dies.
AppendCut(d) ==
  /\ MayAppend(d)
  /\ Fault
  /\ \E k \in 1..(Len(Encoded(d)) - 1) : cells' = View \o SubSeq(Encoded(d), 1, k)
  /\ w' \in {[w EXCEPT !.status = "short"], ClosedWriter}
  /\ written' = written \cup {NewRecord(d)}
  /\ UNCHANGED <<synced, dropped, acked>>

SyncOk ==
  LET r == cells[Len(cells)].of
  IN  /\ w.status = "syncing"
      /\ synced' = Len(cells)
      /\ dropped' = <<>>
      /\ acked' = acked \cup {r}
      /\ w' = [status |-> "idle", size |-> w.size, nextSeq |-> w.nextSeq + 1,
               prev |-> Append(r.prev, <<r.seq, r.data>>)]
      /\ UNCHANGED <<cells, written, env>>

SyncFail ==
  /\ w.status = "syncing"
  /\ Fault
  /\ w' = [w EXCEPT !.status = "idle"]
  /\ UNCHANGED <<cells, synced, dropped, acked, written>>

Close ==
  /\ w.status \in {"idle", "short"}
  /\ w' = ClosedWriter
  /\ UNCHANGED <<cells, synced, dropped, acked, written, env>>

Kill ==
  /\ w.status # "closed"
  /\ Fault
  /\ w' = ClosedWriter
  /\ UNCHANGED <<cells, synced, dropped, acked, written>>

(***************************************************************************)
(* A power loss keeps the stable cells and some of those written after     *)
(* them, or the stable cells and the tail a truncation had removed.  With  *)
(* holes one cell written after the stable ones reads as zeros.            *)
(***************************************************************************)
Survivors ==
  {SubSeq(cells, 1, k) : k \in synced..Len(cells)}
    \cup {SubSeq(cells, 1, synced) \o dropped}
    \cup {[cells EXCEPT ![i] = Bad] : i \in IF env.holes THEN (synced + 1)..Len(cells) ELSE {}}

PowerLoss ==
  /\ Fault
  /\ cells' \in Survivors
  /\ synced' = Len(cells')
  /\ dropped' = <<>>
  /\ w' = ClosedWriter
  /\ UNCHANGED <<acked, written>>

\* The stored value of a cell changes while no session is open: to a value the
\* decoder refuses, or, in the framing, to another admissible record_length.
Rot ==
  /\ env.rot > 0
  /\ w.status = "closed"
  /\ \E i \in DOMAIN cells :
       \/ cells[i] # Bad /\ cells' = [cells EXCEPT ![i] = Bad]
       \/ /\ cells[i].is = "framing"
          /\ \E n \in (Overhead + 1)..MaxRecord :
               n # cells[i].n /\ cells' = [cells EXCEPT ![i].n = n]
  /\ env' = [env EXCEPT !.rot = @ - 1]
  /\ UNCHANGED <<synced, dropped, w, acked, written>>

Next ==
  \/ Open
  \/ \E d \in Data : AppendWrite(d) \/ AppendCut(d)
  \/ SyncOk \/ SyncFail \/ Close
  \/ Kill \/ PowerLoss \/ Rot

Spec == Init /\ [][Next]_vars
-----------------------------------------------------------------------------
(***************************************************************************)
(* Properties                                                              *)
(***************************************************************************)

\* Shape of the segment and the writer.
TypeOK ==
  /\ Len(cells) <= MaxCells
  /\ \A i \in DOMAIN cells : cells[i].is \in {"magic", "framing", "body", "trailer", "bad"}
  /\ synced \in 0..Len(cells)
  /\ w.status \in {"closed", "idle", "syncing", "short"}
  /\ w.size \in 0..Len(cells)

\* The state of module Journal that a file, its stable part and its writer
\* stand for.
RecordLevel(c, stable, wr) ==
  LET count(n) == Len(ReadPrefix(SubSeq(c, 1, n)).records)
  IN  [file |-> ReadPrefix(c).records,
       tail |-> IF ReadPrefix(c).end = "torn" THEN "torn" ELSE "none",
       durable |-> count(stable),
       w |-> [wr EXCEPT !.size = count(wr.size)]]

\* The reader of the daemon and the independent verifier agree on every
\* segment, damaged ones included: same ending, and the same records up to it
\* unless the reader returned none (reader.go:26, verify.go:24).  Whatever
\* happened to the bytes, they deliver only records that a writer encoded, each
\* at its place in the chain (DecodeRecord, the chain checks of ReadPrefix).
ReadersAgree ==
  LET p == ReadPrefix(cells)
      v == VerifyBytes(cells)
  IN  /\ TypeOK
      /\ p.end = v.end
      /\ p.end # "fatal" => p = v
      /\ \A i \in DOMAIN p.records : p.records[i] \in written /\ p.records[i].seq = i
=============================================================================
