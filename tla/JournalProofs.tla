--------------------------- MODULE JournalProofs ----------------------------
(***************************************************************************)
(* Proofs about Journal for every set of contents and every segment limit. *)
(*                                                                         *)
(* AlwaysReadable and AckedIsDurable are not inductive by themselves: an   *)
(* append may only extend the chain if the writer's cached size, next      *)
(* sequence and previous commitment agree with the file.  WriterAgrees     *)
(* says so, and also that a writer whose last synchronisation failed is    *)
(* one sequence behind the file, which is what makes MayAppend refuse it.  *)
(***************************************************************************)
EXTENDS Journal, SequenceTheorems, TLAPS

WriterAgrees ==
  /\ w.status = "syncing" => w.nextSeq = Len(file)
  /\ w.status # "closed" =>
       /\ w.size = Len(file)
       /\ w.nextSeq \in {Len(file), Len(file) + 1}
       /\ w.nextSeq = Len(file) + 1 => w.prev = HeadCommitment(file)

IInv == TypeOK /\ AlwaysReadable /\ AckedIsDurable /\ WriterAgrees

(***************************************************************************)
(* Facts about records and chains.                                         *)
(***************************************************************************)

\* A commitment is a history of links.
LEMMA CommitmentType ==
  ASSUME NEW r \in Record
  PROVE  RecordCommitment(r) \in Seq(Link)
  BY DEF RecordCommitment, Record, Link

\* The head commitment of any sequence of records is a history of links.
LEMMA HeadType ==
  ASSUME NEW recs \in Seq(Record)
  PROVE  HeadCommitment(recs) \in Seq(Link)
  <1>1. CASE recs = <<>>
    BY <1>1 DEF HeadCommitment, GenesisCommitment
  <1>2. CASE recs # <<>>
    <2>1. recs[Len(recs)] \in Record
      BY <1>2
    <2> QED
      BY <1>2, <2>1, CommitmentType, Zenon DEF HeadCommitment
  <1> QED
    BY <1>1, <1>2, Zenon

\* Cutting a sequence of records anywhere keeps its first records.
LEMMA CutFacts ==
  ASSUME NEW recs \in Seq(Record), NEW k \in 0..Len(recs)
  PROVE  /\ SubSeq(recs, 1, k) \in Seq(Record)
         /\ Len(SubSeq(recs, 1, k)) = k
         /\ \A i \in 1..k : SubSeq(recs, 1, k)[i] = recs[i]
         /\ \A i \in 0..k : SubSeq(SubSeq(recs, 1, k), 1, i) = SubSeq(recs, 1, i)
  <1>1. /\ SubSeq(recs, 1, k) \in Seq(Record)
        /\ Len(SubSeq(recs, 1, k)) = k
        /\ \A i \in 1..k : SubSeq(recs, 1, k)[i] = recs[i]
    OBVIOUS
  <1>2. ASSUME NEW i \in 0..k
        PROVE  SubSeq(SubSeq(recs, 1, k), 1, i) = SubSeq(recs, 1, i)
    BY <1>1, <1>2
  <1> QED
    BY <1>1, <1>2, Zenon

\* A prefix of an accepted sequence is accepted: ReadPrefix of a truncated
\* segment is never fatal if it was not fatal before.
LEMMA AcceptedCut ==
  ASSUME NEW recs \in Seq(Record), NEW k \in 0..Len(recs), Accepted(recs)
  PROVE  Accepted(SubSeq(recs, 1, k))
  <1> SUFFICES ASSUME NEW i \in 1..k
               PROVE  Chained(SubSeq(recs, 1, k), i)
    BY CutFacts, Zenon DEF Accepted
  <1>1. Chained(recs, i)
    BY DEF Accepted
  <1>2. /\ SubSeq(recs, 1, k)[i] = recs[i]
        /\ SubSeq(SubSeq(recs, 1, k), 1, i - 1) = SubSeq(recs, 1, i - 1)
    BY CutFacts
  <1> QED
    BY <1>1, <1>2, Zenon DEF Chained

\* Appending the record a writer builds from the next sequence and the head
\* commitment keeps a sequence accepted.
LEMMA AcceptedAppend ==
  ASSUME NEW recs \in Seq(Record), NEW r \in Record, Accepted(recs),
         r.seq = NextSequence(recs), r.prev = HeadCommitment(recs)
  PROVE  Accepted(Append(recs, r))
  <1> DEFINE app == Append(recs, r)
  <1>1. /\ app \in Seq(Record)
        /\ Len(app) = Len(recs) + 1
        /\ \A i \in 1..Len(recs) : app[i] = recs[i]
        /\ app[Len(recs) + 1] = r
    OBVIOUS
  <1>2. \A i \in 0..Len(recs) : SubSeq(app, 1, i) = SubSeq(recs, 1, i)
    BY <1>1
  <1>3. SubSeq(recs, 1, Len(recs)) = recs
    OBVIOUS
  <1> HIDE DEF app
  <1> SUFFICES ASSUME NEW i \in 1..Len(app)
               PROVE  Chained(app, i)
    BY Zenon DEF Accepted, app
  <1>4. CASE i \in 1..Len(recs)
    <2>1. Chained(recs, i)
      BY <1>4, Zenon DEF Accepted
    <2>2. app[i] = recs[i] /\ SubSeq(app, 1, i - 1) = SubSeq(recs, 1, i - 1)
      BY <1>1, <1>2, <1>4
    <2> QED
      BY <2>1, <2>2, Zenon DEF Chained
  <1>5. CASE i = Len(recs) + 1
    <2>1. app[i] = r /\ SubSeq(app, 1, i - 1) = recs
      <3>1. i - 1 = Len(recs) /\ Len(recs) \in 0..Len(recs)
        BY <1>5
      <3> QED
        BY <1>1, <1>2, <1>3, <1>5, <3>1, Zenon
    <2> QED
      BY <2>1, <1>5, Zenon DEF Chained, NextSequence
  <1> QED
    BY <1>1, <1>4, <1>5

(***************************************************************************)
(* The inductive invariant.                                                *)
(***************************************************************************)

\* A closed writer is a writer.
LEMMA ClosedWriterType == ClosedWriter \in Writer
  <1>1. GenesisCommitment \in Seq(Link)
    BY DEF GenesisCommitment
  <1> QED
    BY <1>1 DEF ClosedWriter, Writer, Status

\* A fresh journal: nothing in the file, no writer.
LEMMA InitIInv == Init => IInv
  <1> SUFFICES ASSUME Init PROVE IInv
    OBVIOUS
  <1>1. TypeOK
    BY ClosedWriterType DEF Init, TypeOK
  <1>2. AlwaysReadable
    BY DEF Init, AlwaysReadable, Accepted
  <1> QED
    BY <1>1, <1>2, Zenon DEF Init, IInv, AckedIsDurable, WriterAgrees, ClosedWriter

\* Opening gives a writer that agrees with the file (finishOpenJournal).
LEMMA OpenIInv == IInv /\ Open => IInv'
  <1> SUFFICES ASSUME IInv, Open PROVE IInv'
    OBVIOUS
  <1>1. TypeOK'
    BY HeadType DEF IInv, TypeOK, Open, Writer, Status, NextSequence
  <1>2. WriterAgrees'
    BY Zenon DEF IInv, TypeOK, WriterAgrees, Open, NextSequence
  <1> QED
    BY <1>1, <1>2, Zenon DEF IInv, Open, AlwaysReadable, AckedIsDurable

\* A writer that MayAppend extends the chain by exactly one record.
LEMMA AppendWriteIInv ==
  ASSUME NEW d \in Data
  PROVE  IInv /\ AppendWrite(d) => IInv'
  <1> SUFFICES ASSUME IInv, AppendWrite(d) PROVE IInv'
    OBVIOUS
  <1> DEFINE r == NewRecord(d)
  <1>1. /\ View = file
        /\ w.nextSeq = Len(file) + 1
        /\ w.prev = HeadCommitment(file)
    BY DEF IInv, TypeOK, WriterAgrees, AppendWrite, Calling, MayAppend, View,
           NextSequence
  <1>2. r \in Record /\ r.seq = NextSequence(file) /\ r.prev = HeadCommitment(file)
    BY <1>1, Zenon DEF IInv, TypeOK, NewRecord, Record, Writer, NextSequence
  <1>3. file' = Append(file, r)
    BY <1>1, Zenon DEF AppendWrite
  <1> HIDE DEF r
  <1>4. /\ file' \in Seq(Record)
        /\ Len(file') = Len(file) + 1
        /\ \A i \in 1..Len(file) : file'[i] = file[i]
    BY <1>2, <1>3 DEF IInv, TypeOK
  <1>5. TypeOK'
    <2>1. w' \in Writer
      BY DEF IInv, TypeOK, AppendWrite, Writer, Status
    <2> QED
      BY <1>4, <2>1 DEF IInv, TypeOK, AppendWrite
  <1>6. AlwaysReadable'
    BY <1>2, <1>3, AcceptedAppend, Zenon DEF IInv, TypeOK, AlwaysReadable
  <1>7. AckedIsDurable'
    BY <1>4 DEF IInv, TypeOK, AckedIsDurable, AppendWrite
  <1>8. WriterAgrees'
    BY <1>1, <1>4 DEF IInv, TypeOK, WriterAgrees, AppendWrite, Calling, Writer
  <1> QED
    BY <1>5, <1>6, <1>7, <1>8, Zenon DEF IInv

\* The synchronised record is the last one: the writer catches up with it.
LEMMA SyncOkIInv == IInv /\ SyncOk => IInv'
  <1> SUFFICES ASSUME IInv, SyncOk PROVE IInv'
    OBVIOUS
  <1> DEFINE last == file[Len(file)]
  <1>1. w.nextSeq = Len(file) /\ w.size = Len(file)
    BY Zenon DEF IInv, WriterAgrees, SyncOk
  <1>2. Len(file) \in Nat \ {0}
    BY <1>1, Zenon DEF IInv, TypeOK, Writer
  <1>3. last \in Record /\ last.seq = Len(file)
    BY <1>2 DEF IInv, TypeOK, AlwaysReadable, Accepted, Chained
  <1>4. RecordCommitment(last) = HeadCommitment(file)
    BY <1>2 DEF HeadCommitment
  <1>5. RecordCommitment(last) \in Seq(Link)
    BY <1>3, CommitmentType, Zenon
  <1>6. /\ file' = file /\ tail' = tail
        /\ durable' = Len(file)
        /\ acked' = acked \cup {last}
        /\ w' = [status |-> "idle", size |-> w.size, nextSeq |-> w.nextSeq + 1,
                 prev |-> RecordCommitment(last)]
    BY Zenon DEF SyncOk
  <1> HIDE DEF last
  <1>7. TypeOK'
    <2>1. w' \in Writer
      BY <1>5, <1>6 DEF IInv, TypeOK, Writer, Status
    <2> QED
      BY <1>2, <1>3, <1>6, <2>1 DEF IInv, TypeOK
  <1>8. AckedIsDurable'
    <2>1. last = file[last.seq]
      BY <1>3, Zenon DEF last
    <2> QED
      BY <1>2, <1>3, <1>6, <2>1 DEF IInv, TypeOK, AckedIsDurable
  <1>9. WriterAgrees'
    BY <1>1, <1>2, <1>4, <1>6, Zenon DEF IInv, TypeOK, WriterAgrees, Writer
  <1> QED
    BY <1>6, <1>7, <1>8, <1>9, Zenon DEF IInv, AlwaysReadable

\* A power loss cuts the file somewhere after the synchronised records.
LEMMA PowerLossIInv == IInv /\ PowerLoss => IInv'
  <1> SUFFICES ASSUME IInv, PowerLoss PROVE IInv'
    OBVIOUS
  <1>1. PICK k \in durable..Len(file) :
          /\ file' = SubSeq(file, 1, k)
          /\ durable' = k
          /\ tail' \in {"none", "torn"}
          /\ w' = ClosedWriter
          /\ acked' = acked
    BY Zenon DEF PowerLoss
  <1>2. k \in 0..Len(file) /\ durable <= k
    BY <1>1 DEF IInv, TypeOK
  <1>3. /\ file' \in Seq(Record)
        /\ Len(file') = k
        /\ \A i \in 1..k : file'[i] = file[i]
    BY <1>1, <1>2, CutFacts, Zenon DEF IInv, TypeOK
  <1>4. TypeOK'
    BY <1>1, <1>2, <1>3, ClosedWriterType DEF IInv, TypeOK
  <1>5. AlwaysReadable'
    BY <1>1, <1>2, AcceptedCut, Zenon DEF IInv, TypeOK, AlwaysReadable
  <1>6. AckedIsDurable'
    BY <1>1, <1>2, <1>3 DEF IInv, TypeOK, AckedIsDurable
  <1> QED
    BY <1>1, <1>4, <1>5, <1>6, Zenon DEF IInv, WriterAgrees, ClosedWriter

\* Every other step leaves the records alone.
LEMMA OtherIInv ==
  IInv /\ (AppendShort \/ SyncFail \/ Close \/ Kill \/ UNCHANGED vars) => IInv'
  <1> SUFFICES ASSUME IInv,
                      AppendShort \/ SyncFail \/ Close \/ Kill \/ UNCHANGED vars
               PROVE  IInv'
    OBVIOUS
  <1>1. /\ file' = file /\ durable' = durable /\ acked' = acked
    BY Zenon DEF AppendShort, SyncFail, Close, Kill, vars
  <1>2. w' \in Writer
    BY ClosedWriterType, ZenonT(60)
    DEF AppendShort, SyncFail, Close, Kill, vars, IInv, TypeOK, Writer, Status
  <1>3. tail' \in {"none", "torn"}
    BY Zenon DEF AppendShort, SyncFail, Close, Kill, vars, IInv, TypeOK
  <1>4. w'.status # "closed" =>
          /\ w.status # "closed" /\ w'.size = w.size /\ w'.nextSeq = w.nextSeq
          /\ w'.prev = w.prev
          /\ w'.status = "syncing" => w.status = "syncing"
    BY DEF AppendShort, SyncFail, Close, Kill, Calling, vars, IInv, TypeOK, Writer,
           ClosedWriter
  <1>5. TypeOK'
    BY <1>1, <1>2, <1>3, Zenon DEF IInv, TypeOK
  <1>6. WriterAgrees'
    BY <1>1, <1>4, Zenon DEF IInv, WriterAgrees
  <1> QED
    BY <1>1, <1>5, <1>6, Zenon DEF IInv, AlwaysReadable, AckedIsDurable

\* IInv is inductive.
LEMMA NextIInv == IInv /\ [Next]_vars => IInv'
  BY OpenIInv, AppendWriteIInv, SyncOkIInv, PowerLossIInv, OtherIInv, Zenon DEF Next

\* The inductive invariant holds in every reachable state.
THEOREM Invariance == Spec => []IInv
  BY InitIInv, NextIInv, PTL DEF Spec

\* The variables keep their types.
THEOREM TypeCorrect == Spec => []TypeOK
  <1>1. IInv => TypeOK
    BY Zenon DEF IInv
  <1> QED
    BY <1>1, Invariance, PTL

\* No crash, failed write or failed synchronisation, in any order and number,
\* makes the journal unreadable to ReadPrefix.
THEOREM Readable == Spec => []AlwaysReadable
  <1>1. IInv => AlwaysReadable
    BY Zenon DEF IInv
  <1> QED
    BY <1>1, Invariance, PTL

\* Every record an Append returned is on stable storage for ever.
THEOREM Durable == Spec => []AckedIsDurable
  <1>1. IInv => AckedIsDurable
    BY Zenon DEF IInv
  <1> QED
    BY <1>1, Invariance, PTL

(***************************************************************************)
(* What a step may never do.                                               *)
(***************************************************************************)

\* From the invariant, every step keeps the synchronised records in place.
LEMMA StableStep ==
  IInv /\ [Next]_vars =>
    /\ durable' >= durable
    /\ SubSeq(file', 1, durable) = SubSeq(file, 1, durable)
  <1> SUFFICES ASSUME IInv, [Next]_vars
               PROVE  /\ durable' >= durable
                      /\ SubSeq(file', 1, durable) = SubSeq(file, 1, durable)
    BY Zenon
  <1>1. /\ file \in Seq(Record)
        /\ durable \in Nat /\ durable <= Len(file)
    BY DEF IInv, TypeOK
  <1>2. ASSUME NEW d \in Data, AppendWrite(d)
        PROVE  /\ durable' >= durable
               /\ SubSeq(file', 1, durable) = SubSeq(file, 1, durable)
    <2>1. View = file
      BY <1>2 DEF IInv, TypeOK, WriterAgrees, AppendWrite, Calling, View
    <2>2. file' = Append(file, NewRecord(d)) /\ durable' = durable
      BY <1>2, <2>1, Zenon DEF AppendWrite
    <2>3. \A i \in 1..durable : Append(file, NewRecord(d))[i] = file[i]
      BY <1>1
    <2> QED
      BY <1>1, <2>2, <2>3
  <1>3. CASE PowerLoss
    <2>1. PICK k \in durable..Len(file) : file' = SubSeq(file, 1, k) /\ durable' = k
      BY <1>3, Zenon DEF PowerLoss
    <2> QED
      BY <1>1, <2>1, CutFacts
  <1>4. CASE Open \/ AppendShort \/ SyncOk \/ SyncFail \/ Close \/ Kill
             \/ UNCHANGED vars
    BY <1>1, <1>4 DEF Open, AppendShort, SyncOk, SyncFail, Close, Kill, vars
  <1> QED
    BY <1>2, <1>3, <1>4, Zenon DEF Next

\* The committed prefix is never overwritten, shortened or reordered, for any
\* contents, limit and number of crashes (writer.go:7).
THEOREM PrefixStable == Spec => CommittedPrefixStable
  BY Invariance, StableStep, PTL DEF Spec, CommittedPrefixStable

(***************************************************************************)
(* The refinement of DurableLog.                                           *)
(***************************************************************************)

\* The contents of a stretch of records: a sequence, element by element.
LEMMA ContentsFacts ==
  ASSUME NEW recs \in Seq(Record), NEW from \in Nat, NEW to \in Nat,
         from <= to, to <= Len(recs)
  PROVE  /\ Contents(recs, from, to) \in Seq(Data)
         /\ Len(Contents(recs, from, to)) = to - from
         /\ \A i \in 1..(to - from) :
              Contents(recs, from, to)[i] = recs[from + i].data
  <1>1. ASSUME NEW i \in 1..(to - from)
        PROVE  recs[from + i].data \in Data
    <2>1. from + i \in 1..Len(recs)
      OBVIOUS
    <2>2. recs[from + i] \in Record
      BY <2>1
    <2> QED
      BY <2>2, Zenon DEF Record
  <1>2. to - from \in Nat
    OBVIOUS
  <1> QED
    BY <1>1, <1>2 DEF Contents

\* The same for the first records.
LEMMA HeadContents ==
  ASSUME NEW recs \in Seq(Record), NEW a \in Nat, a <= Len(recs)
  PROVE  /\ Contents(recs, 0, a) \in Seq(Data)
         /\ Len(Contents(recs, 0, a)) = a
         /\ \A i \in 1..a : Contents(recs, 0, a)[i] = recs[i].data
  <1>1. 0 \in Nat /\ 0 <= a /\ a - 0 = a /\ \A i \in 1..a : 0 + i = i
    OBVIOUS
  <1>2. /\ Contents(recs, 0, a) \in Seq(Data)
        /\ Len(Contents(recs, 0, a)) = a - 0
        /\ \A i \in 1..(a - 0) : Contents(recs, 0, a)[i] = recs[0 + i].data
    BY <1>1, ContentsFacts, Zenon
  <1> QED
    BY <1>1, <1>2, Zenon

\* Two adjacent stretches make one.
LEMMA ContentsConcat ==
  ASSUME NEW recs \in Seq(Record), NEW a \in Nat, NEW b \in Nat,
         a <= b, b <= Len(recs)
  PROVE  Contents(recs, 0, a) \o Contents(recs, a, b) = Contents(recs, 0, b)
  <1> DEFINE x == Contents(recs, 0, a)
             y == Contents(recs, a, b)
             z == Contents(recs, 0, b)
  <1>0. a <= Len(recs)
    OBVIOUS
  <1>1. x \in Seq(Data) /\ Len(x) = a /\ \A i \in 1..a : x[i] = recs[i].data
    BY <1>0, HeadContents, Zenon
  <1>2. /\ y \in Seq(Data) /\ Len(y) = b - a
        /\ \A i \in 1..(b - a) : y[i] = recs[a + i].data
    BY ContentsFacts, Zenon
  <1>3. z \in Seq(Data) /\ Len(z) = b /\ \A i \in 1..b : z[i] = recs[i].data
    BY HeadContents, Zenon
  <1> HIDE DEF x, y, z
  <1>4. x \o y \in Seq(Data) /\ Len(x \o y) = b
    BY <1>1, <1>2
  <1>5. ASSUME NEW i \in 1..b
        PROVE  (x \o y)[i] = z[i]
    <2>1. CASE i <= a
      <3>1. (x \o y)[i] = x[i] /\ i \in 1..a
        BY <1>1, <1>2, <2>1
      <3> QED
        BY <1>1, <1>3, <3>1, Zenon
    <2>2. CASE i > a
      <3>1. (x \o y)[i] = y[i - a]
        BY <1>1, <1>2, <2>2, SMTT(60)
      <3>2. i - a \in 1..(b - a) /\ a + (i - a) = i
        BY <2>2
      <3>3. y[i - a] = recs[a + (i - a)].data
        BY <1>2, <3>2, Zenon
      <3> QED
        BY <1>3, <3>1, <3>2, <3>3, Zenon
    <2>3. i <= a \/ i > a
      OBVIOUS
    <2> QED
      BY <2>1, <2>2, <2>3, Zenon
  <1>6. x \o y = z
    BY <1>3, <1>4, <1>5, SMTT(60)
  <1> QED
    BY <1>6, Zenon DEF x, y, z

\* A stretch depends only on the records inside it.
LEMMA ContentsSame ==
  ASSUME NEW recs \in Seq(Record), NEW other \in Seq(Record),
         NEW from \in Nat, NEW to \in Nat,
         from <= to, to <= Len(recs), to <= Len(other),
         \A i \in 1..to : other[i] = recs[i]
  PROVE  Contents(other, from, to) = Contents(recs, from, to)
  BY DEF Contents

\* Cutting a stretch short.
LEMMA ContentsCut ==
  ASSUME NEW recs \in Seq(Record), NEW from \in Nat, NEW k \in Nat, NEW to \in Nat,
         from <= k, k <= to, to <= Len(recs)
  PROVE  SubSeq(Contents(recs, from, to), 1, k - from) = Contents(recs, from, k)
  <1> DEFINE x == Contents(recs, from, to)
             y == Contents(recs, from, k)
  <1>0. k <= Len(recs) /\ from <= to
    OBVIOUS
  <1>1. /\ x \in Seq(Data) /\ Len(x) = to - from
        /\ \A i \in 1..(to - from) : x[i] = recs[from + i].data
    BY <1>0, ContentsFacts, Zenon
  <1>2. /\ y \in Seq(Data) /\ Len(y) = k - from
        /\ \A i \in 1..(k - from) : y[i] = recs[from + i].data
    BY <1>0, ContentsFacts, Zenon
  <1> HIDE DEF x, y
  <1>3. SubSeq(x, 1, k - from) = y
    BY <1>1, <1>2
  <1> QED
    BY <1>3, Zenon DEF x, y

\* The initial state maps to the empty log.
LEMMA InitRefines == Init => Log!LogInit
  BY DEF Init, Log!LogInit, Contents

\* Every step of the journal is a step of the abstract log or leaves it alone.
LEMMA StepRefines == IInv /\ [Next]_vars => [Log!LogNext]_(Log!logVars)
  <1> SUFFICES ASSUME IInv, [Next]_vars
               PROVE  [Log!LogNext]_(Log!logVars)
    OBVIOUS
  <1> DEFINE n == Len(file)
  <1>1. /\ file \in Seq(Record) /\ n \in Nat
        /\ durable \in Nat /\ durable <= n
        /\ n <= n /\ n <= Len(file) /\ n - n = 0
    BY DEF IInv, TypeOK
  <1>2. ASSUME NEW d \in Data, AppendWrite(d)
        PROVE  Log!WriteInDoubt
    <2> DEFINE r == NewRecord(d)
               x == Contents(file, durable, n)
               y == Contents(file', durable, n + 1)
    <2>1. View = file /\ r \in Record /\ r.data = d
      BY <1>2 DEF IInv, TypeOK, WriterAgrees, AppendWrite, Calling, View, NewRecord,
                  Record, Writer
    <2>2. file' = Append(file, r) /\ durable' = durable
      BY <1>2, <2>1, Zenon DEF AppendWrite
    <2> HIDE DEF r
    <2>3. /\ file' \in Seq(Record) /\ Len(file') = n + 1
          /\ \A i \in 1..n : file'[i] = file[i]
          /\ file'[n + 1] = r
      BY <1>1, <2>1, <2>2
    <2>4. n + 1 \in Nat /\ durable <= n + 1 /\ n + 1 <= Len(file')
      BY <1>1, <2>3
    <2>5. /\ x \in Seq(Data) /\ Len(x) = n - durable
          /\ \A i \in 1..(n - durable) : x[i] = file[durable + i].data
      BY <1>1, ContentsFacts, Zenon
    <2>6. /\ y \in Seq(Data) /\ Len(y) = (n + 1) - durable
          /\ \A i \in 1..((n + 1) - durable) : y[i] = file'[durable + i].data
      BY <2>3, <2>4, <1>1, ContentsFacts, ZenonT(60)
    <2> HIDE DEF x, y
    <2>7. ASSUME NEW i \in 1..((n + 1) - durable)
          PROVE  y[i] = Append(x, d)[i]
      <3>1. CASE i \in 1..(n - durable)
        <4>1. durable + i \in 1..n
          BY <1>1, <3>1
        <4>2. y[i] = file[durable + i].data
          BY <2>3, <2>6, <4>1, Zenon
        <4>3. x[i] = file[durable + i].data
          BY <2>5, <3>1, Zenon
        <4>4. Append(x, d)[i] = x[i]
          BY <2>5, <3>1
        <4> QED
          BY <4>2, <4>3, <4>4, Zenon
      <3>2. CASE i = (n + 1) - durable
        <4>1. durable + i = n + 1
          BY <1>1, <3>2
        <4>2. y[i] = d
          BY <2>1, <2>3, <2>6, <4>1, Zenon
        <4>3. Append(x, d)[i] = d
          BY <1>1, <2>5, <3>2
        <4> QED
          BY <4>2, <4>3, Zenon
      <3>3. i \in 1..(n - durable) \/ i = (n + 1) - durable
        BY <1>1
      <3> QED
        BY <3>1, <3>2, <3>3, Zenon
    <2>8. Append(x, d) \in Seq(Data) /\ Len(Append(x, d)) = (n + 1) - durable
      BY <1>1, <2>5
    <2>9. y = Append(x, d)
      BY <2>6, <2>7, <2>8
    <2>10. Contents(file', 0, durable') = Contents(file, 0, durable)
      <3>1. \A i \in 1..durable : file'[i] = file[i]
        BY <1>1, <2>3
      <3>2. 0 \in Nat /\ 0 <= durable /\ durable <= Len(file')
        BY <1>1, <2>3
      <3> QED
        BY <1>1, <2>2, <2>3, <3>1, <3>2, ContentsSame, ZenonT(60)
    <2> QED
      BY <2>2, <2>3, <2>9, <2>10, Zenon DEF Log!WriteInDoubt, x, y
  <1>3. CASE SyncOk
    <2>1. file' = file /\ durable' = n /\ w.nextSeq = n
      BY <1>3, Zenon DEF SyncOk, IInv, WriterAgrees
    <2>2. CASE durable = n
      <3>1. durable' = durable /\ file' = file
        BY <2>1, <2>2, Zenon
      <3> QED
        BY <3>1, Zenon DEF Log!logVars
    <2>3. CASE durable < n
      <3>1. Contents(file, durable, n) # <<>>
        <4>1. Len(Contents(file, durable, n)) = n - durable
          BY <1>1, ContentsFacts, Zenon
        <4>2. n - durable # 0
          BY <1>1, <2>3
        <4> QED
          BY <4>1, <4>2, Zenon
      <3>2. Contents(file, 0, n)
              = Contents(file, 0, durable) \o Contents(file, durable, n)
        BY <1>1, ContentsConcat, Zenon
      <3>3. Contents(file, n, n) = <<>>
        <4>1. Contents(file, n, n) \in Seq(Data) /\ Len(Contents(file, n, n)) = 0
          BY <1>1, ContentsFacts, Zenon
        <4> QED
          BY <4>1
      <3>4. Log!Commit
        BY <2>1, <3>1, <3>2, <3>3, Zenon DEF Log!Commit
      <3> QED
        BY <3>4, Zenon DEF Log!LogNext
    <2> QED
      BY <1>1, <2>2, <2>3
  <1>4. CASE PowerLoss
    <2>1. PICK k \in durable..n : file' = SubSeq(file, 1, k) /\ durable' = k
      BY <1>4, Zenon DEF PowerLoss
    <2>2. /\ k \in Nat /\ durable <= k /\ k <= n /\ k - durable \in 0..(n - durable)
      BY <1>1, <2>1
    <2>3. /\ file' \in Seq(Record) /\ Len(file') = k
          /\ \A i \in 1..k : file'[i] = file[i]
      BY <1>1, <2>1, <2>2, CutFacts
    <2>4. Contents(file', 0, k) = Contents(file, 0, k)
      <3>1. 0 \in Nat /\ 0 <= k /\ k <= Len(file')
        BY <2>2, <2>3
      <3> QED
        BY <1>1, <2>2, <2>3, <3>1, ContentsSame, ZenonT(60)
    <2>5. Contents(file', k, k) = <<>>
      BY <2>2, <2>3, ContentsFacts
    <2>6. Contents(file, 0, durable) \o Contents(file, durable, k)
            = Contents(file, 0, k)
      BY <1>1, <2>2, ContentsConcat, Zenon
    <2>7. SubSeq(Contents(file, durable, n), 1, k - durable)
            = Contents(file, durable, k)
      BY <1>1, <2>2, ContentsCut, Zenon
    <2>8. Len(Contents(file, durable, n)) = n - durable
      BY <1>1, ContentsFacts, Zenon
    <2>9. Log!Lose
      BY <2>1, <2>2, <2>3, <2>4, <2>5, <2>6, <2>7, <2>8, Zenon DEF Log!Lose
    <2> QED
      BY <2>9, Zenon DEF Log!LogNext
  <1>5. CASE Open \/ AppendShort \/ SyncFail \/ Close \/ Kill \/ UNCHANGED vars
    <2>1. file' = file /\ durable' = durable
      BY <1>5, Zenon DEF Open, AppendShort, SyncFail, Close, Kill, vars
    <2> QED
      BY <2>1, Zenon DEF Log!logVars
  <1> QED
    BY <1>2, <1>3, <1>4, <1>5, Zenon DEF Next, Log!LogNext

\* The journal session implements the abstract append-only log for every set
\* of contents and every segment limit (journal.md:28-34).
THEOREM Refinement == Spec => ImplementsDurableLog
  BY Invariance, InitRefines, StepRefines, PTL
  DEF Spec, ImplementsDurableLog, Log!LogSpec
=============================================================================
