# Verification of Integris in TLA+

Integris is a file replication system in Go: a local one-way synchroniser with a
durable journal, an authenticated push protocol, and a daemon of
privilege-separated roles under a supervisor. This directory holds TLA+ models of
these parts, TLC configurations that check them on small instances, and TLAPS
proofs about seven of them. Paths and line numbers refer to the repository root.
`PROJECT.json` maps every definition to the lines it models and lists the hazards
of the code with the properties that cover them.

## The system and what is modelled

| Part | Source | Status | Module |
|---|---|---|---|
| Journal segment, reader, writer, session | `internal/journal`, `internal/localsync/journal*.go` | modelled | `Journal`, `JournalScan` |
| Journal verifier, journal envelope | `internal/journal/verify`, `internal/codec/journal.go` | modelled | `JournalScan` |
| Local synchronisation | `internal/localsync` | journaled, path-based mode | `SyncPlan`, `TxnLog`, `LocalSync` |
| Push, receive store, partial files | `internal/remotesync/{push,serve,transfer,store}*.go` | kills and broken connections, no power loss | `RemotePush` |
| Handshake, keys, keyring, seal | `internal/remotesync/{handshake,keys,peer_keyring,session_seal}.go` | modelled | `Handshake` |
| Session, protocol driver | `internal/session`, `internal/protocol` | modelled | `Session`, `SessionLife`, `Driver`, `Conversation` |
| IPC channels | `internal/ipc` | modelled | `Channel` |
| Role pipeline | `internal/remotesync/*_ipc.go`, `ipc_apply.go`, `internal/daemon/roles_unix.go` | every loop of the eight roles | `PlanGate`, `Receive` |
| Authority inventory, fleets | `internal/authority`, `internal/daemon/plan.go`, `internal/supervisor` | modelled | `Authority`, `Fleet` |
| Supervision and restarts | `internal/daemon/serve_unix.go`, `internal/supervisor` | modelled | `Daemon` |
| Starting a role process | `internal/launcher`, `internal/daemon/child_unix.go` | modelled | `Launch` |
| Pairs of live children, role stub | `internal/supervisor/runtime_unix.go`, `cmd/integris-role-stub` | modelled | `PairHold` |
| Confinement probes and release gate | `internal/confine` | the decisions, not the kernel | `Confine` |
| Recovery kernel, publication | `internal/recovery`, `cmd/integris-crash-stub` | modelled | `Recovery` |
| Planner | `internal/plan` | modelled | `PlanBuild` |
| Deletion gates, quarantine | `internal/deletion` | modelled | `Quarantine` |
| Resource limits | `internal/resource` | arithmetic, slices, budget | `Resource` |
| Event sink | `internal/observability` | `Emit` and the buffer | `EventSink` |
| Names and path resolution | `internal/path` | normal form, component rules, `Resolve` | `NameForm`, `Resolve` |
| Cryptography | `internal/crypto` | ideal primitives | `Session`, `Driver`, `Channel` |
| openat variants of localsync, configuration, filesystem probes, platform wrappers, commands | | see *Not modelled* | |

How the parts interact. A *sync* scans the source and the destination, builds a
plan, writes the plan to `last-plan.json`, and records observation, plan digest
and authorization in the journal. It applies the plan operation by operation,
with a progress record after each, and ends with a confirmation. A sync that
finds an authorised, unconfirmed transaction of its own roots resumes it. A
*push* opens a session (handshake, proofs, traffic key), sends a manifest and
files in chunks; the receiver stages them and commits by running a sync from the
staging directory. In the *daemon* the receiver is a chain of processes: net
accepts, auth does the handshake and seals the session for net, and parser, plan,
index, apply, journal and audit hand each request down and each answer up. The
supervisor starts them with sockets and keys, restarts them in part or as a whole
within a budget, and each process confines itself before it serves.

## Modules

Storage and synchronisation

* **DurableLog**: what the journal promises. A committed log only grows; records
  in doubt may become committed or be lost from the end.
* **Journal**: the session over a segment, at the level of records. `file` holds
  the complete records, `tail` says whether a cut record follows, `durable`
  counts the records on stable storage and `w` is the `Writer` with the cached
  size of its `FileSegment`. `Open` is `finishOpenJournal`; `AppendWrite`,
  `SyncOk` and `SyncFail` are the halves of `Writer.Append`; `AppendShort` is a
  short write. `Kill` and `PowerLoss` are the faults. A commitment is the history
  it digests.
* **JournalScan**: the same session over cells (magic, framing, digested part,
  trailer), with `EncodeRecord`, `DecodeRecord`, `ReadPrefix` and `VerifyBytes` as
  operators. Writes are cut at any cell; a power loss keeps any part of what was
  not synchronised or undoes a truncation; the medium may also leave holes and
  `Rot` a stored cell.
* **SyncPlan**, **TxnLog**: trees, `Scan` and `BuildPlan`; the journal records of
  a transaction and `inspectPrefix`.
* **LocalSync**: runs of `Sync`, one after the other, on one destination. One step
  per journal record, per file-system effect that a fault can separate from the
  next, and per check that can fail. `dst` is the tree processes see, `disk` the
  tree that survives a power loss, `log` and `durable` the journal at the level
  of `DurableLog`. Others edit both sides between any two steps. The history
  `bare` holds the entries a run took as done although they were not on stable
  storage.
* **Recovery**: one transaction is applied through `staging/` into `published/`
  and recovered under one root. The program counters are the labels of the
  crash-point catalogue; both processes are interrupted at any of them, and
  `Recover` is run as often as the operator likes. `Recover`, `scanPrefix` and
  `maybeConfirm` are operators over the journal and the observation. An object of
  an earlier transaction may lie in `published/`, with or without an
  `ExpectedContent` to tell it apart, and the errors that the code drops while
  it cleans up happen. Histories record what the properties have to except: a
  confirmed object lost with the power (`lost`), a stray record (`stray`), an
  ignored error (`ignored`), interrupted confirmations (`cut`).

Transfer

* **RemotePush**: `Push` and `Serve` at the two ends of a connection, message by
  message. `snd` and `srv` are the programs with their local variables,
  `toServer` and `toClient` the bytes in flight; `stage`, `part` and `meta` are
  the staging directory, the `.part` and the `.meta.json` files. The `localsync`
  run of a commit is a plan applied one operation at a time; `txn` is its
  authorised and unconfirmed transaction, which the next commit resumes.
* **Session**, **Driver**: the methods of a session and of the protocol driver as
  operators that return the state they leave behind and "ok" or an error code; a
  failing method may have changed the state, and does so here.
* **Conversation**: a sending and a receiving driver; every frame sent may arrive
  late, again or never.
* **Handshake**: client and server from the first frame to sealed data over one
  connection, with every mix of keys, names and offered versions, and the
  hand-over from auth to net. **SessionLife** is what one end promises; both ends
  are shown to implement it.
* **Channel**: an IPC channel with its numbers and its queue count, and the calls
  made over it.
* **PlanGate**, **Receive**: the books of the plan role, and all role processes
  serving pushes. `at` is where each role is in its loop, `link` the request and
  the answer on each socket pair; `gate` and `store` are the local states of plan
  and apply, `stage`, `part`, `meta`, `dst` and `txn` what is on disk. A client
  may vanish or send a message out of place, the scan of index and the journal may
  fail, and a role may die between any two steps; dead roles come back with fresh
  sockets.

Processes

* **Authority**, **Fleet**: the inventory of rights, and the tables the source
  keeps per fleet: options, grant plan, roles, socket pairs, start order, second
  peers.
* **Daemon**: `Start`, the supervise loop, its watchers and its restarts. A restart
  procedure is a script of `ReplacePair`, `StartChild` and `conferPeerFD` calls,
  one action per call, and gives up at the first error. `child` is the child
  table, `fab` the socket fabric, `sending` and `exitq` the exits on their way;
  the history `dropped` holds the roles whose exit a selective restart discarded.
* **Launch**: `StartChild` and `launcher.Start` on one side, `ClaimChild` on the
  other, from endpoint to claimed files, with every call that can fail. `held` are
  the files the parent has open, `fds` the child's `ExtraFiles`, `also` the ends of
  its key channel that it inherits beside them.
* **PairHold**: two live stubs of one edge and the operations of the runtime on
  them, in any order and with kills. `children` are the tracked stubs, `unclosed`
  counts the key channels of handles that were dropped without closing them.
* **Confine**: what a child checks of itself before it serves; `world` says what
  each probe would meet.

Kernels

* **PlanBuild**: the planner with its three limits and their defaults; `Build`
  returns a plan, the blocking rows or the kind of its first refusal.
* **Quarantine**: the deletion gates and the quarantine move in its three builds: by
  path (check, then rename), by descriptor with a rename that refuses a taken name
  (Linux, macOS), by descriptor with a plain rename (other Unix systems). A name
  keeps all objects renamed to it, so that a replaced one is seen.
* **Resource**, **EventSink**: admission and budget, and the shared event sink.
* **NameForm**: `isNFC` beside the decomposition, reordering and composition of
  the Unicode standard, over fourteen runes that are closed under them.
* **Resolve**: descriptor-relative resolution while others exchange, link and
  unlink names. Each error path closes what the code closes there.

Instances and proofs

* **MCLocalSync**, **MCRemotePush**, **MCReceive**: instances of one module.
  **MCJournalScan** adds to `JournalScan` the mapping onto `Journal`. **MCBase** and
  **MCEngineering** hold several parts that share no state: `part` says which one is
  explored, the others rest in a fixed state, and each property is the part's own.
* **JournalProofs**, **RecoveryProofs**, **ResolveProofs**: the proofs about the
  module of that name. **EngineeringProofs**: those about `Resource`, `EventSink`
  and `Quarantine`. **DaemonScripts**, **DaemonSteps**, **DaemonProofs**: those
  about `Fleet` and `Daemon`, in this order (the tables and procedures; the
  invariant and the steps outside a restart; the calls of a restart and the
  theorems).

Definitions named "Mutant of X" are X with a plausible mistake. They are used to
confirm that each property can fail.

## Runs

Passing runs:

| Run | What it shows | Bounds |
|---|---|---|
| `Base.cfg` (197,375 states) | journal: readable after any crash, acknowledged records durable, implements `DurableLog`; bytes: they implement `Journal`, and with rot and holes reader and verifier agree and deliver only written records; sync: repeated runs finish the work; handshake: both ends agree when both finish, keep the promise of `SessionLife`, and end; driver: repeated, late and lost frames change nothing; names: `isNFC` takes every normal name; paths: a resolved path is within its policy | 2 contents, 4 records; records of minimum and maximum length in 13 cells, 3 faults, or 1 fault and 2 rotten cells; a directory with a file, 2 faults, 18 records; 2 keys and 2 names, 1 cut; 8 frames; 4 runes; paths of up to 4 components against a limit of 3, 2 changes by others |
| `LocalSync.cfg` (1,222,023) | truthful records and results, exact counts, progress after effect, complete confirmation, no temporary files left, no change without durable authorisation | a directory with a file and a second file, 9 to 12 records; in turn 1 edit of either side with 1 kill or error, 2 power losses or errors, kills and power losses with and without failing `SyncDir`, and 2 source roots |
| `RemotePush.cfg` | both ends stay in step, no mixed content is staged or published, success means published unless a commit was killed, an unedited source is pushed in the end | 2 names, contents of 1 and 2 chunks, 2 edits of one name, 1 kill or broken connection |
| `Receive.cfg` (253,418) | no answer reaches the wrong session, the roles agree on the file in transfer, success means published, every session ends | fleets m2a, m2d, m2fj, m2j; 1 file of 2 versions, 2 pushes, 1 vanished or confused client, failing call or killed role, 1 restart |
| `Daemon.cfg` (238,217) | accepted options can be launched; no lost watcher, crossed pair, stale address or orphan, and no role down unaccounted for; the restart budget holds; a stop ends | every combination of options; fleets m2a, m2c, m2d, m2f, m2j supervised; 2 deaths, 1 failing call, 1 restart |
| `Engineering.cfg` (312,917) | recovery is truthful, repeatable and ends; budget, event sink, quarantine, planner; confinement, start of a role process, pairs of live children | 7 records and 2 crashes or ignored errors; words of 4 bits; 3 emitters and 4 events; 2 movers, 2 objects, 1 name, 3 builds, 1 power loss; 3 rows under 4 policies; 4 roles on 4 systems; 1 kill, 3 operations |

Why the bounds are enough. The journal's rules relate a record to its
predecessor and to the writer's cached size: three records give a stable one, one
in doubt and a lost or cut one. Syncs relate consecutive operations of one plan
(a directory, a file in it, a file after it) and the latest transaction to the
one before; nine to twelve records hold two transactions or one with resumes, and
the limit of the journal is itself reached. One fault at every place, followed by
a resume, exercises each window; two cover a fault during the resume. For pushes,
two chunks give a transfer with a middle, two edits change a file under the
sender and change it back, and two names leave a staged file behind while the
other is sent. Pushes of `RemotePush` are not counted: that run holds for any
number of them. Two pushes through the roles give a session that meets what an
earlier one left. The five supervised fleets are the smallest, the two with one
and two selective restarts and the two with the most roles; two deaths give one
during the restart that the other caused. Recovery writes at most seven records
per transaction, so seven hold all of it. A word of four bits overflows as one of
sixty-four does; three emitters give two that race for a place the third has
taken. Where a theorem exists (below), none of this matters for that property.

Deadlock checking is off where a part may come to rest: in `Base.cfg` and
`Engineering.cfg` (a part that has finished, or a segment refused as corrupt),
`NameForm.cfg`, `Channel.cfg` and `QuarantinePlain.cfg` (the name is spelled, the
calls are made, the objects are moved).

Runs that find a disagreement between a document and the code:

| Run | Property | What happens |
|---|---|---|
| `LocalSyncShortcut.cfg` | `ShortcutIsApplied` | a destination changed back after a confirmed copy is reported as synchronised |
| `LocalSyncPersist.cfg` | `ConfirmedIsPersisted` | a directory that a killed run created is taken as done and confirmed, without its entry being on stable storage |
| `RemotePushCut.cfg` | `SuccessIsPublished` | after a killed commit, the next push resumes the older plan, reports success and drops its own files |
| `Channel.cfg` | `QueueNeverEnds` | the queue count of an IPC channel is never lowered, so a channel with one frame at a time is refused after `MaxQueueDepth` frames |
| `NameForm.cfg` | `AcceptedIsNormal` | `isNFC` accepts a precomposed rune followed by a mark of a lower class, which normalisation changes |
| `QuarantinePlain.cfg` | `CollisionNeverReplaces` | where the rename is plain, moving to a taken quarantine name replaces the object there |

The findings in `PROJECT.json` quote the lines concerned.

## Fairness

Fairness is only assumed of code that nothing blocks, or that a returning call
unblocks. Faults, edits and cancellations are never fair, only finitely many.

* `MCBase!SyncFairness`: a started `Sync` takes its next step, and the operator
  starts a run again after the previous one ended. `EventuallySynced` is stated
  for sources and destinations whose entries do not conflict.
* `RemotePush!FairSpec`: `Push` and `Serve` take their next step when they can (a
  receive returns a message or the error of a broken connection) and are started
  again after they end.
* `Receive!Spec`: the client takes its next step or has vanished, and some role
  takes its next step when one can. A dead peer ends a read with an error.
* `Daemon!Spec`: something of supervise or of its watchers runs when anything can.
  That a child ends when it is killed is part of it; that it dies by itself is not.
* `Handshake`: each end takes its next step when it can; deadlines are what ends a
  wait for a frame that was cut. The conditions are spelled out as state
  predicates, since the fairness of a part holds only while it is explored.
* `Recovery`: a started recovery takes its next step. `Launch`: parent and child
  each take theirs. `PairHold`: both stubs and the supervisor take theirs.

## Proofs

All are for every value of the constants that the named assumptions admit; TLC
checked each inductive invariant on an instance first.

**Journal** (every non-empty `Data`, every `MaxRecords > 0`). `TypeCorrect`,
`Readable`, `Durable` are the invariants of the run, `PrefixStable` says that no
step changes a record on stable storage, and `Refinement` that `Journal` implements
`DurableLog`. `AlwaysReadable` needs to know that an open writer continues the
chain of the file, which fails exactly when a `Sync` failed: then the record is in
the file, the writer's sequence is one behind, and only the comparison of sequence
numbers in `Append` keeps the chain whole. `IInv` therefore adds `WriterAgrees`:
the cached size of an open writer is the number of complete records; its sequence
is the next one of the file, and then its commitment is the file's head, or it is
one behind, while the last record is being synchronised or after its `Sync`
failed. `StepRefines` maps each action to a step of `DurableLog` or to a stutter.

**Recovery** (every `MaxLog` and `MaxCrashes`). `Truthful` and `Repeatable`. A
verdict has to be what the *next* `Recover` returns, and that scans a journal the
first one has appended to and looks at a disk it has changed. `Outcome` is the
state `Recover` returns, in terms of the kinds of record in the journal and of what
is in `staging/` and `published/`, and `Settled` says that the last verdict is still
the `Outcome`. It survives an effect under way because that effect does not change
the verdict it rests on (`Underway`). The other conjuncts of `IInv` order the
records of an orderly transaction (`Ordered`), tie publication to verification
(`Evidence`) and to a complete object (`Whole`), count the marks of `confirm.log`
(`Counted`), and keep recovery and publication apart (`Alone`). The theorems name
their exceptions: an earlier object that nothing tells from the new one
(`Mistaken`), a confirmed object lost with the power, a stray record, a root that
is no longer there, and errors the code ignores.

**Resolve** (every tree, object table, set of paths and policies, and number of
changes by others). `Resolved`. The tree may change at any step, so the policy is
proved of the facts that were read: `Kept` says that every link of the chain, and
the object between its two looks, satisfied the policy when it was looked at, and
`InTurn` which descriptors are open at which step.

**Daemon** (every subset of the nine fleets, every budget, number of deaths, faults
and late exits). `Whole`, `Published`, `WithinBudget` and `Accepted`, from
`Supervised == Spec => []DInv`. `DaemonScripts` proves, fleet by fleet, that the
tables belong together (`Tables`) and that the launch and restart procedures only
make calls that suit the fleet and give both sides of every replaced pair their
new end. With that, `DInv` has these parts:

* `Wired`: a process holds ends of the current pairs, or the rest of the script has
  a call that will give it the new end. Hence a fleet that waits is connected.
* `Scripts`: what is not watched during a selective restart is among the roles that
  will be armed at its end. Hence every tracked child has a watcher when supervise
  waits.
* `Advertised`: a selective restart never starts net, and a full one empties the
  ready file before it does. Hence the address is the running one's.
* `Paid`: a restart under way has been paid for and not counted yet. The one place
  where the code gives an attempt back (`serve_unix.go:514`) would break this, had
  the selective restart not just started a child that nobody watches; the full
  restart it falls through to cannot drain that child and stops the server.

`Attended`, proved beside it, follows the exits: a role without a process has an
exit on its way, or will be started by the script, or its exit was discarded during
a selective restart. The last case is real (see *Observations*), so `Whole` says
that nothing else leaves a role down, and that net is never left.

**Resource, EventSink, Quarantine** (every word size and set of ceilings; every set
of emitters and queue sizes; every set of movers, objects and names). `BudgetExact`
and `SliceAdmission`; `EmitterOrderHolds`, `NumbersAccountedHolds` and
`SinkIsSound`, from `SinkInv` (the counter is ahead of every number, a number has
one owner) and `SinkCount` (stored, dropped and in hand add up);
`NothingLostHolds`, `SuccessIsDurableHolds`, `PercentGate` and `DeletionSafety`, from
`MoveInv` (one place per object; path-based moves that did not overlap find their
name free; a name has one object where collisions are refused; what was reported is
on the disk). That a taken name is refused holds for the exclusive rename and for
path-based moves that do not overlap, and the theorem says so.

Only model-checked:

* liveness, and `ImplementsJournal`, `ReadersAgree`: the scans are recursive
  operators, and what recursion over data computes is out of the prover's reach;
* `NamesJudged` (recursion over the runes) and `PlanIsCanonical` (a sort);
* `LocalSync`, `RemotePush` and `Receive`: their invariants rest on what a plan or a
  manifest folded over a sequence of paths contains;
* `EndsAgree`, `EndsKeepPromise`, `DriverIsSound`, `ConfinementHolds`, `FilesArrive`
  and `PairIsSound`, which range over small fixed sets of keys, roles and steps, so
  that a run already covers most of what a proof would.

## Assumptions

* SHA-256 has no collisions; contents, plans and commitments are compared by
  value. Signatures, key agreement and sealing are ideal.
* One process at a time uses a journal and a destination. The code takes no lock,
  and `docs/localsync.md:85` names concurrent writers as a residual risk.
* A caller of `StartPair` has ended the stubs it replaces: `SetChild` overwrites a
  tracked handle.
* A power loss loses a suffix of the unsynchronised records, and any subset of
  the unsynchronised directory entries. A synchronised file keeps its contents.
  Where storage also writes back out of order, an unsynchronised last record can
  keep its length and lose bytes; the reader then refuses the whole segment
  (`JournalScan` with holes), so `AlwaysReadable` needs this assumption.
* In `LocalSync`, edits by others are not combined with power losses.
* A client of the role pipeline goes on or disconnects; the `Ready` channel has a
  reader.

## Observations

Behaviours the models reach that are not stated as properties:

* A damaged `record_length` in the middle of a journal is read as a torn tail, and
  the records after it are truncated (`internal/codec/journal.go:159`;
  `docs/specifications/journal.md:37-39` allows that for the last record only).
* `last-plan.json` is shared by all roots of a destination: a killed sync of other
  roots replaces the plan an interrupted transaction needs.
* The error of `SyncDir` is dropped (`apply.go:165`, `277`), so that a power loss can also
  take an entry of an uninterrupted run, with what was published below it.
  `TruthfulRecords` excepts exactly these entries and those of `LocalSyncPersist.cfg`.
* A file edited while it is sent and then changed back can leave a partial file
  that each later push of it fails on (`store.go:126`, `store.go:227`).
* The share of a deletion is rounded down before it is compared
  (`docs/specifications/deletion.md:21`).
* The comment "fall through to a full fleet restart" (`serve_unix.go:512-521`)
  describes a path that always stops the server: the roles just started have no
  watcher yet, so `drainExits` times out on them.
* A role that dies while another is restarted selectively may stay down: its exit is
  received while the killed roles are waited for, or flushed afterwards
  (`serve_unix.go:705-706`, `509-510`), and only a later exit brings it back.
* When the wait for the ready file times out, net may still write the file before it
  is killed; nothing removes it then (`serve_unix.go:323-328`).
* `Recover` confirms an object it finds in `published/` without synchronising that
  directory, so that a power loss can take what was confirmed; a later `Recover`
  finds the transaction irrecoverable.
* Without `ExpectedContent` the publisher takes an object of an earlier transaction
  for the one to publish (`filepublish.go:178`).
* A confirmation that is interrupted after its mark is repeated: `confirm.log` has
  one mark for each, though the journal holds one record
  (`docs/specifications/transaction.md:36-40` speaks of no duplicate effects).
* `FilePersist` ignores an entry of `staging/` that cannot be removed and a failed
  synchronisation of it (`filepersist.go:65`, `90`); the next exclusive create of the
  publisher then fails.
* Key channels are made without close-on-exec (`launcher_unix.go:329-348`), so a
  child holds both ends of its own and never reads end of file from it; a child the
  supervisor gave up on ends because it is killed.
* The read deadlines of `WaitPairHoldReady` and `WaitRebindAck` are set on blocking
  files and have no effect; the error is dropped.
* `StartPair` after a failed initiator, and `WaitChild`, drop a handle with its key
  channel open (`runtime_unix.go:405`, `465-472`) until the collector finalises it.
* Two overlapping path-based quarantine moves can both find a name free
  (`quarantine_fs.go:36`), and the second replaces the first.
* Where two rows of a plan share a key, which of two refusals `Build` reports may
  depend on the order of the rows; that it refuses does not.

## Not modelled

* The openat variants of localsync (`*_at_*.go`): the same steps through
  descriptors. Plan-only and journal-less syncs, mode bits, and symbolic links
  above a target.
* Configuration parsing, filesystem probes, platform wrappers and the commands:
  input and output without state of their own.
* The kernel's side of confinement; `Confine` models what is decided from it.
* `nfc_tables.go`, 13,190 generated lines, about a third of the implementation: a
  model would repeat the table. `NameForm` takes fourteen runes of it.
* In `RemotePush`: power losses, names with directories above them, and the legacy
  single-frame file, which no sender in the repository sends.
* The 8 MiB limit of the journal in bytes; `MaxRecords` stands for it.
* The canonical encodings of plans, events and IPC payloads.
