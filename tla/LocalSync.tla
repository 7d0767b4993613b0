----------------------------- MODULE LocalSync ------------------------------
(***************************************************************************)
(* internal/localsync: journaled unidirectional synchronisation.  A run is *)
(* one call of Sync with journaling; runs follow each other on one         *)
(* destination, from one or several source roots, while files on both      *)
(* sides are edited by others and while processes are killed, the power    *)
(* fails and operations return errors.                                     *)
(*                                                                         *)
(* The journal is taken at the level of DurableLog: a sequence of records  *)
(* of which the first `durable` are on stable storage.                     *)
(***************************************************************************)
EXTENDS SyncPlan, TxnLog

CONSTANTS
  Scenarios        \* the instances explored, each a record of
                   \*   sources: the source roots,
                   \*   paths: the paths the trees and their edits use,
                   \*   limit: the journal segment limit, in records,
                   \*   srcEdits, dstEdits: edits by others still to come,
                   \*   faults, kinds: faults still to come, and their kinds
                   \*     out of "kill", "power" and "error",
                   \*   syncDirFails: whether platform.SyncDir may fail (its
                   \*     error is dropped)

Sources == UNION {sc.sources : sc \in Scenarios}

ASSUME ScenariosAssumption ==
  \A sc \in Scenarios :
    /\ sc.limit \in Nat /\ sc.srcEdits \in Nat /\ sc.dstEdits \in Nat
    /\ sc.faults \in Nat
    /\ sc.paths \subseteq Paths
    /\ sc.kinds \subseteq {"kill", "power", "error"}
    /\ sc.syncDirFails \in BOOLEAN

VARIABLES
  src,      \* the source trees
  dst,      \* the destination tree, as processes see it
  disk,     \* the destination tree that survives a power loss
  temps,    \* directories holding a .integris.<hex>.tmp file
  snap,     \* last-plan.json: seen by processes, and on stable storage
  log,      \* the journal's readable records
  durable,  \* how many of them are on stable storage
  run,      \* the running Sync, with its local variables
  out,      \* the result the last Sync returned
  edited,   \* history: for each id, the destination paths others edited since its
            \* plan was built, and those a power loss took with an entry in bare
  bare,     \* history: the entries a run took as done though they were not on
            \* stable storage
  env       \* the scenario, with the edits and faults it still allows

files == <<src, dst, disk, temps>>
journal == <<snap, log, durable>>
vars ==
  <<src, dst, disk, temps, snap, log, durable, run, out, edited, bare, env>>

(***************************************************************************)
(* The local variables of Sync, syncJournaled, finishApply and ApplyWith.  *)
(* pc names the next step; "sync" is the Sync of a written record, after   *)
(* which the run goes on at `then`.  touched is a history variable: the    *)
(* destination paths others edited since the plan was built.               *)
(***************************************************************************)
Idle ==
  [pc |-> "idle", then |-> "idle", root |-> "none", man |-> <<>>, plan |-> NoPlan,
   txn |-> 0, next |-> 0, bytes |-> 0, touched |-> {}]

NoResult == [outcome |-> "none"]
Failed == [outcome |-> "failed"]

Initial(paths) ==
  {t \in Tree : Scannable(t) /\ \A p \in Paths \ paths : t[p] = "absent"}

Init ==
  /\ env \in Scenarios
  /\ src \in [env.sources -> Initial(env.paths)]
  /\ dst \in Initial(env.paths)
  /\ disk = dst
  /\ temps = {}
  /\ snap = [seen |-> NoPlan, disk |-> NoPlan]
  /\ log = <<>>
  /\ durable = 0
  /\ run = Idle
  /\ out = NoResult
  /\ edited = <<>>
  /\ bare = {}

-----------------------------------------------------------------------------
(***************************************************************************)
(* Steps of a run.                                                         *)
(***************************************************************************)

\* sess.Append up to the segment write: refused at the segment limit.
AppendRec(rec, next) ==
  /\ Len(log) < env.limit
  /\ log' = Append(log, rec)
  /\ run' = [next EXCEPT !.pc = "sync", !.then = next.pc]
  /\ UNCHANGED <<durable, snap>>

\* failResult: the run returns an error.
Fail ==
  /\ run' = Idle
  /\ out' = Failed

st == inspectPrefix(log)

\* Mutant of Resumable: the roots are not compared.
ResumableAnyRoot(s) == st.found /\ st.hasPlan /\ st.authorized /\ ~st.confirmed

\* syncJournaled resumes an authorised, unconfirmed transaction of its roots.
Resumable(s) == st.found /\ st.root = s /\ st.hasPlan /\ st.authorized /\ ~st.confirmed

\* Mutant of StartResume: the operation of the last progress record is redone,
\* keeping the byte count that already contains it.
StartResumeRedoes(s) ==
  /\ run.pc = "idle"
  /\ Resumable(s)
  /\ snap.seen = st.plan
  /\ st.next <= Len(st.plan.ops)
  /\ AppendRec(Recovery(st.id, st.next),
               [Idle EXCEPT !.pc = "apply", !.root = s, !.plan = st.plan,
                            !.txn = st.id, !.bytes = st.bytes,
                            !.next = IF st.next = 0 THEN 0 ELSE st.next - 1])
  /\ out' = NoResult
  /\ UNCHANGED <<files, edited, bare, env>>

\* The plan snapshot is loaded, its digest compared, and the plan resumed.
StartResume(s) ==
  /\ run.pc = "idle"
  /\ Resumable(s)
  /\ snap.seen = st.plan
  /\ st.next <= Len(st.plan.ops)
  /\ AppendRec(Recovery(st.id, st.next),
               [Idle EXCEPT !.pc = "apply", !.root = s, !.plan = st.plan,
                            !.txn = st.id, !.next = st.next, !.bytes = st.bytes])
  /\ out' = NoResult
  /\ UNCHANGED <<files, edited, bare, env>>

ResumeRefused(s) ==
  /\ run.pc = "idle"
  /\ Resumable(s)
  /\ \/ snap.seen # st.plan
     \/ st.next > Len(st.plan.ops)
     \/ Len(log) = env.limit
  /\ Fail
  /\ UNCHANGED <<files, journal, edited, bare, env>>

\* buildFreshPlan, first half: Scan of the source.
StartFresh(s) ==
  /\ run.pc = "idle"
  /\ ~Resumable(s)
  /\ Scannable(src[s])
  /\ run' = [Idle EXCEPT !.pc = "plan", !.root = s, !.man = src[s]]
  /\ out' = NoResult
  /\ UNCHANGED <<files, journal, edited, bare, env>>

ScanRefused(s) ==
  /\ run.pc = "idle"
  /\ ~Resumable(s)
  /\ ~Scannable(src[s])
  /\ Fail
  /\ UNCHANGED <<files, journal, edited, bare, env>>

Success(root, plan, bytes, how, touched) ==
  [outcome |-> "success", root |-> root, plan |-> plan, bytes |-> bytes, how |-> how,
   touched |-> touched,
   completed |-> Len(plan.ops) - Skips(plan, Len(plan.ops)),
   skipped |-> Skips(plan, Len(plan.ops))]

\* The short circuit: the last transaction confirmed a plan of the same digest.
AlreadyConfirmed(plan) ==
  st.found /\ st.root = run.root /\ st.hasPlan /\ st.plan = plan /\ st.confirmed

\* buildFreshPlan, second half, and the choice between the short circuit and a
\* new transaction.
MakePlan ==
  LET plan == BuildPlan(run.root, run.man, dst)
  IN  /\ run.pc = "plan"
      /\ Scannable(dst)
      /\ ~PlanConflict(run.man, dst)
      /\ IF AlreadyConfirmed(plan)
         THEN /\ run' = Idle
              /\ out' = Success(run.root, plan, st.bytes, "confirmed before", {})
         ELSE /\ run' = [run EXCEPT !.plan = plan, !.touched = {},
                           !.pc = IF st.found /\ ~st.confirmed /\ st.root = run.root
                                  THEN "cancel" ELSE "snapshot"]
              /\ out' = out
      /\ UNCHANGED <<files, journal, edited, bare, env>>

\* beginNewTxn, record by record.
Cancel ==
  /\ run.pc = "cancel"
  /\ AppendRec(Cancellation(st.id), [run EXCEPT !.pc = "snapshot"])
  /\ UNCHANGED <<files, out, edited, bare, env>>

\* An id no record of the journal carries.
newTxnID == 1 + Max({0} \cup {log[i].txn : i \in DOMAIN log})

\* Mutant of WriteSnapshot: the new plan is not stored.
SnapshotNotWritten ==
  /\ run.pc = "snapshot"
  /\ snap' = snap
  /\ edited' = Append(SubSeq(edited, 1, newTxnID - 1), run.touched)
  /\ run' = [run EXCEPT !.pc = "observe", !.txn = newTxnID]
  /\ UNCHANGED <<files, log, durable, out, bare, env>>

\* newTxnID and writePlanSnapshot: temporary file, Sync, rename, SyncDir of the metadata
\* directory.
WriteSnapshot ==
  /\ run.pc = "snapshot"
  /\ \/ snap' = [seen |-> run.plan, disk |-> run.plan]
     \/ env.syncDirFails /\ snap' = [snap EXCEPT !.seen = run.plan]
  /\ edited' = Append(SubSeq(edited, 1, newTxnID - 1), run.touched)
  /\ run' = [run EXCEPT !.pc = "observe", !.txn = newTxnID]
  /\ UNCHANGED <<files, log, durable, out, bare, env>>

Observe ==
  /\ run.pc = "observe"
  /\ AppendRec(Observation(run.txn, run.root), [run EXCEPT !.pc = "digest"])
  /\ UNCHANGED <<files, out, edited, bare, env>>

\* Mutant of RecordDigest: the run goes on without an authorisation record.
DigestThenApply ==
  /\ run.pc = "digest"
  /\ AppendRec(PlanDigest(run.txn, run.plan), [run EXCEPT !.pc = "apply"])
  /\ UNCHANGED <<files, out, edited, bare, env>>

RecordDigest ==
  /\ run.pc = "digest"
  /\ AppendRec(PlanDigest(run.txn, run.plan), [run EXCEPT !.pc = "authorize"])
  /\ UNCHANGED <<files, out, edited, bare, env>>

Authorize ==
  /\ run.pc = "authorize"
  /\ AppendRec(Authorization(run.txn, run.plan), [run EXCEPT !.pc = "apply"])
  /\ UNCHANGED <<files, out, edited, bare, env>>

(***************************************************************************)
(* ApplyWith: the loop over the plan's operations.                         *)
(***************************************************************************)
op == run.plan.ops[run.next + 1]
dir == Parent[op.rel]
Applying(pc) == run.pc = pc /\ run.next < Len(run.plan.ops)

Goto(pc) == run' = [run EXCEPT !.pc = pc]

Unstable(ps) == {q \in ps : disk[q] # dst[q]}

\* platform.SyncDir: the entries of directory d become stable, or the error is
\* dropped.
SyncDir(d) ==
  LET entries == {q \in Paths : Parent[q] = d}
  IN  \/ /\ disk' = [q \in Paths |-> IF q \in entries THEN dst[q] ELSE disk[q]]
         /\ bare' = bare
      \/ /\ env.syncDirFails
         /\ disk' = disk
         /\ bare' = bare \cup Unstable(entries)

\* What is there as planned is not synchronised again.
OpSkip ==
  /\ Applying("apply")
  /\ op.action = "skip"
  /\ Goto("progress")
  /\ bare' = bare \cup Unstable({op.rel})
  /\ UNCHANGED <<files, journal, out, edited, env>>

\* applyMkdir: a directory that is already there is taken as it is.
OpMkdir ==
  /\ Applying("apply")
  /\ op.action = "mkdir"
  /\ \/ /\ dst[op.rel] = "dir"
        /\ dst' = dst /\ bare' = bare \cup Unstable({op.rel})
        /\ Goto("progress")
     \/ /\ dst[op.rel] = "absent" /\ CanMkdirAll(dst, op.rel)
        /\ dst' = MkdirAll(dst, op.rel) /\ bare' = bare
        /\ Goto("mkdirsync")
  /\ UNCHANGED <<src, disk, temps, journal, out, edited, env>>

OpMkdirSync ==
  /\ Applying("mkdirsync")
  /\ SyncDir(dir)
  /\ Goto("progress")
  /\ UNCHANGED <<src, dst, temps, journal, out, edited, env>>

\* applyFile up to createTemp: the source is hashed again, the parents are
\* made, a directory or link at the final path is refused, old temporary
\* files of the directory are removed and a new one is created.
OpCheck ==
  /\ Applying("apply")
  /\ Transfers(op)
  /\ src[run.root][op.rel] = op.want
  /\ CanMkdirAll(dst, dir)
  /\ dst[op.rel] \notin {"dir", "special"}
  /\ dst' = MkdirAll(dst, dir)
  /\ temps' = temps \cup {dir}
  /\ Goto("copy")
  /\ UNCHANGED <<src, disk, journal, out, edited, bare, env>>

\* Mutant of OpCopy: progress is recorded before the rename.
CopyThenProgress ==
  /\ Applying("copy")
  /\ dir \in temps
  /\ src[run.root][op.rel] = op.want
  /\ Goto("progress")
  /\ UNCHANGED <<files, journal, out, edited, bare, env>>

\* The source is copied as it is now; the copy is synchronised and hashed.
OpCopy ==
  /\ Applying("copy")
  /\ dir \in temps
  /\ src[run.root][op.rel] = op.want
  /\ Goto("rename")
  /\ UNCHANGED <<files, journal, out, edited, bare, env>>

OpRename ==
  /\ Applying("rename")
  /\ dir \in temps
  /\ dst[op.rel] # "dir"
  /\ dst' = [dst EXCEPT ![op.rel] = op.want]
  /\ temps' = temps \ {dir}
  /\ Goto("verify")
  /\ UNCHANGED <<src, disk, journal, out, edited, bare, env>>

\* SyncDir of the directory and the hash of the published file.
OpVerify ==
  /\ Applying("verify")
  /\ SyncDir(dir)
  /\ dst[op.rel] = op.want
  /\ run' = [run EXCEPT !.pc = "progress", !.bytes = @ + Size[op.want]]
  /\ UNCHANGED <<src, dst, temps, journal, out, edited, env>>

\* OnOpComplete.
RecordProgress ==
  /\ Applying("progress")
  /\ AppendRec(Progress(run.txn, run.next + 1, run.bytes),
               [run EXCEPT !.pc = "apply", !.next = @ + 1])
  /\ UNCHANGED <<files, out, edited, bare, env>>

Confirm ==
  LET n == Len(run.plan.ops)
  IN  /\ run.pc = "apply"
      /\ run.next = n
      /\ AppendRec(Confirmation(run.txn, run.plan, n - Skips(run.plan, n),
                                Skips(run.plan, n), run.bytes),
                   [run EXCEPT !.pc = "return"])
      /\ UNCHANGED <<files, out, edited, bare, env>>

Return ==
  /\ run.pc = "return"
  /\ run' = Idle
  /\ out' = Success(run.root, run.plan, run.bytes, "applied", edited[run.txn])
  /\ UNCHANGED <<files, journal, edited, bare, env>>

\* Writer.Append after the segment write: Sync, then the next step.
SyncRecord ==
  /\ run.pc = "sync"
  /\ durable' = Len(log)
  /\ Goto(run.then)
  /\ UNCHANGED <<files, snap, log, out, edited, bare, env>>

(***************************************************************************)
(* The checks that make a run return an error.                             *)
(***************************************************************************)
Refused ==
  \/ run.pc = "plan" /\ (~Scannable(dst) \/ PlanConflict(run.man, dst))
  \/ /\ run.pc \in {"cancel", "observe", "digest", "authorize", "progress"}
     /\ Len(log) = env.limit
  \/ run.pc = "apply" /\ run.next = Len(run.plan.ops) /\ Len(log) = env.limit
  \/ /\ Applying("apply") /\ op.action = "mkdir"
     /\ dst[op.rel] # "dir" /\ ~(dst[op.rel] = "absent" /\ CanMkdirAll(dst, op.rel))
  \/ /\ Applying("apply") /\ Transfers(op)
     /\ \/ src[run.root][op.rel] # op.want
        \/ ~CanMkdirAll(dst, dir)
        \/ dst[op.rel] \in {"dir", "special"}
  \/ Applying("copy") /\ (dir \notin temps \/ src[run.root][op.rel] # op.want)
  \/ Applying("rename") /\ (dir \notin temps \/ dst[op.rel] = "dir")
  \/ Applying("verify") /\ dst[op.rel] # op.want

\* The run's own temporary file: removed when applyFile returns an error.
LiveTemp == IF Applying("copy") \/ Applying("rename") THEN {dir} ELSE {}

Refuse ==
  /\ Refused
  /\ Fail
  /\ temps' = temps \ LiveTemp
  /\ UNCHANGED <<src, dst, disk, journal, edited, bare, env>>

-----------------------------------------------------------------------------
(***************************************************************************)
(* Faults and edits by others.                                             *)
(***************************************************************************)
Fault(kind) ==
  /\ kind \in env.kinds
  /\ env.faults > 0
  /\ env' = [env EXCEPT !.faults = @ - 1]

\* Any operating system call of the run fails, apart from SyncDir, whose error
\* is dropped.
IOError ==
  /\ run.pc \notin {"idle", "mkdirsync"}
  /\ Fault("error")
  /\ Fail
  /\ temps' = temps \ LiveTemp
  /\ UNCHANGED <<src, dst, disk, journal, edited, bare>>

\* The process dies; the kernel keeps what it was given.
Kill ==
  /\ run.pc # "idle"
  /\ Fault("kill")
  /\ run' = Idle
  /\ out' = NoResult
  /\ UNCHANGED <<files, journal, edited, bare>>

\* Directory entries below a directory that is gone are gone.
Prune(tree) ==
  [p \in Paths |-> IF \A d \in Above[p] : tree[d] = "dir" THEN tree[p] ELSE "absent"]

\* The paths that go with a bare entry when the tree becomes t.
Gone(t) ==
  {p \in Paths : \E b \in bare \cap ({p} \cup Above[p]) : t[b] # dst[b]}

\* Adds destination paths to what a success is not held to.
Excuse(ps) ==
  IF out.outcome = "success" THEN [out EXCEPT !.touched = @ \cup ps] ELSE out

\* Unsynchronised directory entries are each kept or lost, and any suffix of
\* the unsynchronised records is lost.
PowerLoss ==
  /\ Fault("power")
  /\ \E t \in {f \in [Paths -> Entry] : \A p \in Paths : f[p] \in {dst[p], disk[p]}} :
       /\ dst' = Prune(t)
       /\ disk' = Prune(t)
       /\ \E left \in SUBSET temps :
            temps' = {d \in left : IsDir(Prune(t), d)}
  /\ edited' = [i \in DOMAIN edited |-> edited[i] \cup Gone(dst')]
  /\ \E plan \in {snap.seen, snap.disk} : snap' = [seen |-> plan, disk |-> plan]
  /\ \E k \in durable..Len(log) : log' = SubSeq(log, 1, k) /\ durable' = k
  /\ run' = Idle
  /\ out' = IF run.pc = "idle" THEN Excuse(Gone(dst')) ELSE NoResult
  /\ UNCHANGED <<src, bare>>

EditSource(s, p, e) ==
  /\ s \in DOMAIN src /\ p \in env.paths
  /\ env.srcEdits > 0
  /\ Editable(src[s], p, e)
  /\ src' = [src EXCEPT ![s] = Put(@, p, e)]
  /\ env' = [env EXCEPT !.srcEdits = @ - 1]
  /\ UNCHANGED <<dst, disk, temps, journal, run, out, edited, bare>>

EditDest(p, e) ==
  LET below == {q \in Paths : q = p \/ p \in Above[q]}
  IN  /\ p \in env.paths
      /\ env.dstEdits > 0
      /\ Editable(dst, p, e)
      /\ dst' = Put(dst, p, e)
      /\ disk' = Put(disk, p, e)
      /\ temps' = {d \in temps : IsDir(dst', d)}
      /\ edited' = [i \in DOMAIN edited |-> edited[i] \cup below]
      /\ run' = [run EXCEPT !.touched = @ \cup below]
      /\ out' = Excuse(below)
      /\ env' = [env EXCEPT !.dstEdits = @ - 1]
      /\ UNCHANGED <<src, journal, bare>>

Start(s) ==
  /\ s \in DOMAIN src
  /\ StartResume(s) \/ ResumeRefused(s) \/ StartFresh(s) \/ ScanRefused(s)

Step ==
  \/ MakePlan \/ Cancel \/ WriteSnapshot \/ Observe \/ RecordDigest \/ Authorize
  \/ OpSkip \/ OpMkdir \/ OpMkdirSync \/ OpCheck \/ OpCopy \/ OpRename \/ OpVerify
  \/ RecordProgress \/ Confirm \/ SyncRecord \/ Return \/ Refuse

Next ==
  \/ \E s \in Sources : Start(s)
  \/ Step
  \/ IOError \/ Kill \/ PowerLoss
  \/ \E s \in Sources, p \in Paths, e \in Entry : EditSource(s, p, e)
  \/ \E p \in Paths, e \in Entry : EditDest(p, e)

Spec == Init /\ [][Next]_vars
-----------------------------------------------------------------------------
(***************************************************************************)
(* Properties                                                              *)
(***************************************************************************)
Pcs == {"idle", "plan", "cancel", "snapshot", "observe", "digest", "authorize",
        "apply", "mkdirsync", "copy", "rename", "verify", "progress", "sync",
        "return"}

\* Types of the trees, the journal within its limit and the running Sync.
TypeOK ==
  /\ \A s \in DOMAIN src : src[s] \in Tree
  /\ dst \in Tree
  /\ disk \in [Paths -> Entry]
  /\ temps \subseteq Paths \cup {Root}
  /\ Len(log) <= env.limit
  /\ durable \in 0..Len(log)
  /\ run.pc \in Pcs
  /\ run.next \in 0..Len(run.plan.ops)
  /\ out.outcome \in {"none", "failed", "success"}
  /\ newTxnID <= Len(edited) + 1

Holds(o, touched) == o.rel \in touched \/ dst[o.rel] = o.want

Succeeded(how) == out.outcome = "success" /\ out.how = how

\* A Sync that applied its plan, resumed any number of times, and returned
\* success has every planned entry in place, apart from what others changed
\* since planning (finishApply, README.md:38 "truthful completion").
ConfirmedIsApplied ==
  Succeeded("applied") =>
    \A i \in DOMAIN out.plan.ops : Holds(out.plan.ops[i], out.touched)

\* The same as ConfirmedIsApplied for the success that MakePlan returns for a
\* transaction that was confirmed before.
ShortcutIsApplied ==
  Succeeded("confirmed before") =>
    \A i \in DOMAIN out.plan.ops : Holds(out.plan.ops[i], out.touched)

\* BytesTransferred of a success counts every planned transfer exactly once,
\* however often the transaction was interrupted and resumed (InitialBytes).
ExactReport ==
  out.outcome = "success" => out.bytes = PlannedBytes(out.plan, Len(out.plan.ops))

\* Progress is journaled only after its operation took effect
\* (localsync.md:52): what the latest transaction's progress records claim is
\* in the destination, before and after any crash.
ProgressIsPublished ==
  \A i \in 1..st.next : Holds(st.plan.ops[i], edited[st.id])

\* A success is reported for the roots its plan was made for, whichever other
\* roots use the same destination (sameRoots in syncJournaled).
OwnRoots == out.outcome = "success" => out.plan.root = out.root

\* "publication confirmation occurs [...] only after the declared filesystem
\* persistence sequence completes" (transaction.md:36-37): what the last record
\* confirms is on stable storage.
ConfirmedIsPersisted ==
  log # <<>> =>
    LET last == log[Len(log)]
    IN  last.type = "confirmation" =>
          \A i \in DOMAIN last.plan.ops :
            LET o == last.plan.ops[i]
            IN  o.rel \in edited[last.txn] \/ disk[o.rel] = o.want

OfTxn(type, id) == SelectSeq(log, LAMBDA r : r.type = type /\ r.txn = id)

\* A transaction is confirmed at most once, after its authorisation and after
\* one progress record per operation, in plan order (transaction.md:36).
ConfirmsComplete ==
  \A i \in DOMAIN log : log[i].type = "confirmation" =>
    LET id == log[i].txn
        progress == OfTxn("progress", id)
    IN  /\ Len(OfTxn("confirmation", id)) = 1
        /\ \E j \in 1..(i - 1) : log[j] = Authorization(id, log[i].plan)
        /\ [k \in DOMAIN progress |-> progress[k].next]
             = [k \in DOMAIN log[i].plan.ops |-> k]

\* With one source root, a success leaves no temporary file behind, those of
\* killed runs included (cleanupTemps, localsync.md:26).
NoLeftoverTemps ==
  Cardinality(DOMAIN src) = 1 /\ Succeeded("applied") => temps = {}

\* What the journal and a success say was done is done: over kills, power
\* losses, edits and resumes neither a progress record nor a confirmed run is
\* ahead of the destination, with one exception.  A power loss may take an entry
\* that a run found in place and did not synchronise (apply.go:157), or whose
\* SyncDir failed unnoticed (apply.go:165), and what is below it.
TruthfulRecords == TypeOK /\ ProgressIsPublished /\ ConfirmedIsApplied

\* Interrupted and resumed runs, of one root or of several, do not run into one
\* another: a transaction is complete before it is confirmed, once; a success is
\* about the run's own roots; and nothing of a killed run is left over.
OrderlyTransactions == ConfirmsComplete /\ OwnRoots /\ NoLeftoverTemps

\* A run changes the destination only under a durable authorisation of its
\* plan (transaction.md:33), changes only what its plan transfers or creates,
\* and removes nothing (plan.go:54).
OnlyAuthorisedChanges ==
  [][(run' # run /\ run.touched = run'.touched /\ env' = env /\ dst' # dst) =>
       /\ \E k \in 1..durable : log[k] = Authorization(run.txn, run.plan)
       /\ \A p \in Paths : dst'[p] # dst[p] =>
            \E i \in DOMAIN run.plan.ops :
              LET o == run.plan.ops[i]
              IN  /\ o.action # "skip"
                  /\ \/ p = o.rel /\ dst'[p] = o.want
                     \/ p \in Above[o.rel] /\ dst'[p] = "dir"]_vars

\* If sources and destination are compatible and nobody edits them, the
\* operator who keeps running Sync gets all source entries into the
\* destination, whatever interrupts the runs (localsync.md:28).
EventuallySynced ==
  (\A s \in Sources : []~PlanConflict(src[s], dst)) =>
    \A s \in Sources :
      <>[](\A p \in Paths : src[s][p] # "absent" => dst[p] = src[s][p])
=============================================================================
