----------------------------- MODULE Quarantine -----------------------------
(***************************************************************************)
(* Destructive-operation gates and the quarantine move (internal/deletion).*)
(* Evaluate decides from thresholds, a measured scope and digests; a mover *)
(* then renames root/<source> to root/quarantine/<name> and fsyncs both    *)
(* directories.  The move exists in three builds: by path, checking before *)
(* os.Rename ("path"); by descriptor with a rename that refuses an existing*)
(* name ("noreplace": Linux, macOS); and by descriptor with a plain        *)
(* renameat ("plain": the other Unix systems).  Movers interleave between  *)
(* system calls, a mover may be killed, and a power loss keeps any subset  *)
(* of the renames that are not yet covered by both fsyncs (a rename itself *)
(* is atomic on the volume).                                               *)
(***************************************************************************)
EXTENDS Naturals, FiniteSets

CONSTANTS Movers,      \* concurrent callers of the move
          Sources,     \* object names in the root; an object is its name
          Names,       \* quarantine names
          Builds,      \* the variants of the move that are explored
          MaxUint,     \* largest unsigned word (2^64 - 1 in the source)
          Scale,       \* basis points in a whole (10000)
          MaxLosses    \* bound: power losses in a behaviour

VARIABLES request,     \* what Evaluate was asked: thresholds, scope, digests
          build,       \* which of the three moves this program uses
          overlap,     \* history: a move began while another was under way
          root,        \* objects under root
          quarDir,     \* name -> objects renamed to it: a second one replaced the first
          qdirty,      \* objects renamed since the quarantine was fsynced
          rdirty,      \* objects renamed since the root was fsynced
          at,          \* per mover: where it is, and its plan
          moved,       \* objects whose move returned success
          losses

quarVars == <<request, build, overlap, root, quarDir, qdirty, rdirty, at, moved, losses>>

(***************************************************************************)
(* Evaluate.  A request has numbers, a set of failed preconditions and the *)
(* digests that are present.                                               *)
(***************************************************************************)
Digests == {"plan", "config", "capability", "destructive"}
Preconditions == {"sentinel", "volume", "same_volume", "unknown_count",
                  "unknown_logical", "unknown_physical", "unknown_class"}

checkMax(have, max) == max # 0 /\ have <= max

percentOverflows(count) == count > MaxUint \div Scale
percentRefused(count, total) ==
  count # 0 /\ (total = 0 \/ count > total \/ percentOverflows(count))

percentBPS(count, total) ==
  IF count = 0 THEN 0 ELSE ((count * Scale) % (MaxUint + 1)) \div total

Need(q) == IF q.physical = 0 THEN q.logical ELSE q.physical

Evaluate(q) ==
  /\ q.digests = Digests
  /\ q.failed = {}
  /\ q.requireComplete => q.complete
  /\ checkMax(q.count, q.maxCount)
  /\ checkMax(q.logical, q.maxLogical)
  /\ checkMax(q.physical, q.maxPhysical)
  /\ checkMax(q.classes, q.maxClasses)
  /\ ~ percentRefused(q.count, q.total)
  /\ ~ (q.maxPercent = 0 /\ q.count > 0)
  /\ percentBPS(q.count, q.total) <= q.maxPercent
  /\ Need(q) <= q.capacity

Base == [digests |-> Digests, failed |-> {}, requireComplete |-> TRUE,
         complete |-> TRUE, count |-> 1, total |-> 2, classes |-> 1,
         logical |-> 1, physical |-> 1, capacity |-> 1, maxCount |-> 1,
         maxLogical |-> 1, maxPhysical |-> 1, maxClasses |-> 1,
         maxPercent |-> Scale]

Lacking(d) == [Base EXCEPT !.digests = Digests \ {d}]
Failing(p) == [Base EXCEPT !.failed = {p}]
Incomplete(b) == [Base EXCEPT !.complete = FALSE, !.requireComplete = b]
Sized(x, y, z) == [Base EXCEPT !.physical = x, !.logical = y, !.capacity = z]
Measured(c, t, p) ==
  [Base EXCEPT !.count = c, !.total = t, !.maxCount = MaxUint, !.maxPercent = p]

(* One request per threshold boundary, and every count of every archive. *)
Requests ==
  {Base} \cup {Lacking(d) : d \in Digests} \cup {Failing(p) : p \in Preconditions}
  \cup {Incomplete(b) : b \in BOOLEAN}
  \cup {Sized(x, y, z) : x \in 0..2, y \in 0..2, z \in 0..1}
  \cup {Measured(c, t, p) : c \in 0..MaxUint, t \in 0..MaxUint, p \in 0..2}

(***************************************************************************)
(* The move.                                                               *)
(***************************************************************************)
Idle == [pc |-> "idle"]
Plan(pc, o, n) == [pc |-> pc, obj |-> o, name |-> n]

QuarantineInit ==
  /\ request \in Requests
  /\ build \in Builds
  /\ request # Base => build = "noreplace"
  /\ overlap = FALSE
  /\ root = Sources
  /\ quarDir = [n \in Names |-> {}]
  /\ qdirty = {} /\ rdirty = {} /\ moved = {}
  /\ at = [m \in Movers |-> Idle]
  /\ losses = 0

(* Evaluate and BuildQuarantinePlan allowed the move. *)
Begin(m, o, n) ==
  /\ at[m] = Idle
  /\ Evaluate(request)
  /\ at' = [at EXCEPT ![m] = Plan("check", o, n)]
  /\ overlap' = (overlap \/ \E k \in Movers : at[k] # Idle)
  /\ UNCHANGED <<request, build, root, quarDir, qdirty, rdirty, moved, losses>>

(* ExecuteQuarantineMove: Lstat of the destination, then of the source.    *)
(* ExecuteQuarantineMoveAT has no such check, on any system.               *)
Check(m) ==
  /\ at[m].pc = "check"
  /\ at' = [at EXCEPT ![m] =
       IF build = "path" /\ (quarDir[at[m].name] # {} \/ at[m].obj \notin root)
       THEN Idle ELSE Plan("rename", at[m].obj, at[m].name)]
  /\ UNCHANGED <<request, build, overlap, root, quarDir, qdirty, rdirty, moved, losses>>

PlainRename(m) == at[m].obj \notin root                          \* for a mutant

(* RENAME_NOREPLACE / RENAME_EXCL refuses an existing name; os.Rename and  *)
(* renameat replace it.                                                    *)
RenameRefused(m) ==
  at[m].obj \notin root \/ (build = "noreplace" /\ quarDir[at[m].name] # {})
Rename(m) ==
  /\ at[m].pc = "rename"
  /\ IF RenameRefused(m)
     THEN /\ at' = [at EXCEPT ![m] = Idle]
          /\ UNCHANGED <<root, quarDir, qdirty, rdirty>>
     ELSE /\ root' = root \ {at[m].obj}
          /\ quarDir' = [quarDir EXCEPT ![at[m].name] = @ \cup {at[m].obj}]
          /\ qdirty' = qdirty \cup {at[m].obj}
          /\ rdirty' = rdirty \cup {at[m].obj}
          /\ at' = [at EXCEPT ![m].pc = "sync_quarantine"]
  /\ UNCHANGED <<request, build, overlap, moved, losses>>

SyncQuarantine(m) ==
  /\ at[m].pc = "sync_quarantine"
  /\ qdirty' = {}
  /\ at' = [at EXCEPT ![m].pc = "sync_root"]
  /\ UNCHANGED <<request, build, overlap, root, quarDir, rdirty, moved, losses>>

SyncRoot(m) ==
  /\ at[m].pc = "sync_root"
  /\ rdirty' = {}
  /\ at' = [at EXCEPT ![m] = Idle]
  /\ moved' = moved \cup {at[m].obj}
  /\ UNCHANGED <<request, build, overlap, root, quarDir, qdirty, losses>>

(* The mover dies, or a call after the rename fails: the error return      *)
(* leaves the directories as they are.                                     *)
Fail(m) ==
  /\ at[m] # Idle
  /\ at' = [at EXCEPT ![m] = Idle]
  /\ UNCHANGED <<request, build, overlap, root, quarDir, qdirty, rdirty, moved, losses>>

(* Every mover stops; the renames in `kept` reached the disk. *)
LosePower ==
  /\ losses < MaxLosses
  /\ \E kept \in SUBSET (qdirty \cup rdirty) :
       LET undone == (qdirty \cup rdirty) \ kept
       IN /\ root' = root \cup undone
          /\ quarDir' = [n \in Names |-> quarDir[n] \ undone]
  /\ qdirty' = {} /\ rdirty' = {}
  /\ at' = [m \in Movers |-> Idle]
  /\ losses' = losses + 1
  /\ UNCHANGED <<request, build, overlap, moved>>

QuarantineNext ==
  \/ \E m \in Movers :
        \/ \E o \in Sources, n \in Names : Begin(m, o, n)
        \/ Check(m) \/ Rename(m) \/ SyncQuarantine(m) \/ SyncRoot(m) \/ Fail(m)
  \/ LosePower

QuarantineSpec == QuarantineInit /\ [][QuarantineNext]_quarVars

(* The moves that refuse a taken name: the exclusive rename always, the    *)
(* check of the path-based move as long as no two moves overlap.           *)
RefusesCollisions == build = "noreplace" \/ (build = "path" /\ ~ overlap)

(* No two objects share a quarantine name: nothing replaced an object that *)
(* was quarantined before (deletion.md: a collision cannot replace an      *)
(* existing quarantine object).  The plain renameat build breaks it.       *)
CollisionNeverReplaces == \A n \in Names : Cardinality(quarDir[n]) <= 1

(* Permanent deletion is disabled: whatever movers interleave, die, fail   *)
(* or lose power, an object of the archive is either still under the root  *)
(* or went to exactly one quarantine name, and where the move refuses a    *)
(* taken name no object replaces another there.                            *)
NothingLost ==
  /\ \A o \in Sources : Cardinality({n \in Names : o \in quarDir[n]})
                         = (IF o \in root THEN 0 ELSE 1)
  /\ RefusesCollisions => CollisionNeverReplaces

(* A move that returned success is not undone by a power loss: both        *)
(* directory updates of the object are on disk.                            *)
SuccessIsDurable ==
  \A o \in moved : (\E n \in Names : o \in quarDir[n]) /\ o \notin qdirty \cup rdirty

(* The percentage gate in exact arithmetic: when Evaluate lets a request   *)
(* through, count/total is below maxPercent plus one basis point (the      *)
(* floor), for every count up to the largest word.                         *)
PercentIsExact ==
  Evaluate(request) /\ request.count > 0 =>
     /\ request.count <= request.total
     /\ request.count * Scale < (request.maxPercent + 1) * request.total

(* What the deletion package keeps on every system: a request is admitted  *)
(* by its true share of the archive, a reported move survives a power loss,*)
(* and no object is lost, except that a taken name is refused only by the  *)
(* builds and the uses that RefusesCollisions names.                       *)
DeletionIsSafe == NothingLost /\ SuccessIsDurable /\ PercentIsExact
=============================================================================
