------------------------------ MODULE Recovery ------------------------------
(***************************************************************************)
(* internal/recovery: the crash recovery kernel (recover.go) over the      *)
(* publication profile of the apply side (filepublish.go) and the          *)
(* persistence of the recovery side (filepersist.go).                      *)
(*                                                                         *)
(* One transaction is applied and recovered under one root.  The apply     *)
(* process appends the transaction's records, each durable when the append *)
(* returns, and publishes one object through staging/ into published/.  It *)
(* is killed or loses power anywhere; Recover is then run, as often as the *)
(* operator likes, and is itself interrupted anywhere.  The program        *)
(* counters are the labels of the crash-point catalogue.                   *)
(***************************************************************************)
EXTENDS Naturals, Sequences

CONSTANTS MaxLog,     \* bound: records of the journal
          MaxCrashes  \* bound: kills, power losses, failing calls and stray records

ASSUME RecoveryAssumption == {MaxLog, MaxCrashes} \subseteq Nat

VARIABLES
  log,      \* journal.Prefix.Records
  torn,     \* journal.Prefix.Torn
  stage,    \* the object in staging/, as processes see it
  stageDisk,\* ... and as it survives a power loss
  pub,      \* the object in published/
  pubDisk,
  quar,     \* whether quarantine/ holds an object
  apply,    \* where the apply process is
  rec,      \* [at, state, effect]: the running Recover
  last,     \* the state the last Recover returned, if nothing happened since
  marks,    \* entries of confirm.log
  expected, \* whether FilePublisher.ExpectedContent is set
  here,     \* whether the root and the volume are still the ones authorised
  lost,     \* history: a power loss took a confirmed publication away
  stray,    \* history: a record was appended out of order
  cut,      \* history: confirmations interrupted between their mark and the journal record
  ignored,  \* history: the clean-up of staging/ ignored an error
  crashes

disk == <<stageDisk, pubDisk>>
files == <<stage, stageDisk, pub, pubDisk, quar, marks>>
histories == <<lost, stray, cut, ignored>>
vars == <<log, torn, files, apply, rec, last, expected, here, crashes, histories>>

(***************************************************************************)
(* Records.  "auth0" is an authorisation whose binding has no plan digest, *)
(* "badauth" one of the wrong length, "odd" a short or unknown progress    *)
(* code or an unsupported type, "note" an informational record.  A stray   *)
(* record may belong to a second transaction.                              *)
(***************************************************************************)
Chain == <<"plan", "auth", "received", "prepared", "verified", "publishing">>
Kind == {Chain[i] : i \in DOMAIN Chain}
          \cup {"confirm", "cancel", "quarantine", "note", "auth0", "badauth", "odd"}
Record == [kind : Kind, tx : {1, 2}]

\* The object of a directory: complete but not synchronised is "written", and
\* "old" is the object of an earlier transaction.
Content == {"none", "old", "partial", "written", "full"}
State == {"CREATED", "PUBLISHED", "CONFIRMED", "CANCELLED", "QUARANTINED",
          "IRRECOVERABLE", "error"}

\* Terminal: the states a second Recover must leave alone.
Terminal == {"PUBLISHED", "CONFIRMED", "CANCELLED", "QUARANTINED", "IRRECOVERABLE"}

Of(kind) == [kind |-> kind, tx |-> 1]

(***************************************************************************)
(* scanPrefix.  The loop stops at the first record that contradicts the    *)
(* ones before it.                                                         *)
(***************************************************************************)
Auths == {"auth", "auth0"}

Stops(l, i) ==
  \/ l[i].tx # l[1].tx
  \/ l[i].kind \in Auths \cup {"badauth"} /\ \E j \in 1 .. (i - 1) : l[j].kind \in Auths
  \/ l[i].kind \in {"badauth", "odd"}

StopAt(l) ==
  IF \E i \in DOMAIN l : Stops(l, i)
  THEN CHOOSE i \in DOMAIN l : Stops(l, i) /\ \A j \in 1 .. (i - 1) : ~Stops(l, j)
  ELSE Len(l) + 1

\* confirmationCount: none, one and several are told apart.
Count(S) == IF S = {} THEN 0 ELSE IF \E i \in S : S = {i} THEN 1 ELSE 2

\* Mutant of scanPrefix: confirmation records are not counted.
scanPrefixUncounted(l) ==
  LET n == StopAt(l)
  IN  [empty |-> l = <<>>, seen |-> {l[i].kind : i \in 1 .. (n - 1)}, confirmations |-> 0,
       stop |-> IF n > Len(l) THEN "none"
                ELSE IF l[n].tx # l[1].tx THEN "transaction" ELSE l[n].kind]

\* abstractFlags, filled by scanPrefix: the kinds of records before the stop, how many of them are
\* confirmations, and the kind and transaction of the record it stopped at.
scanPrefix(l) ==
  LET n == StopAt(l)
  IN  [empty |-> l = <<>>,
       seen |-> {l[i].kind : i \in 1 .. (n - 1)},
       confirmations |-> Count({i \in 1 .. (n - 1) : l[i].kind = "confirm"}),
       stop |-> IF n > Len(l) THEN "none"
                ELSE IF l[n].tx # l[1].tx THEN "transaction" ELSE l[n].kind]

Authorized(f) == f.seen \cap Auths # {}

\* A payload that does not decode is an error, unless a second authorisation or
\* another transaction is noticed first.
Undecodable(f) == f.stop = "badauth" /\ ~Authorized(f)

Contradiction(f) ==
  \/ f.stop # "none"
  \/ "auth0" \in f.seen /\ "plan" \notin f.seen
  \/ "prepared" \in f.seen /\ "received" \notin f.seen
  \/ "verified" \in f.seen /\ ~({"prepared", "received"} \subseteq f.seen)
  \/ "publishing" \in f.seen /\ ~(Authorized(f) /\ "verified" \in f.seen)

\* What a publication must rest on.
Prepared(f) == Authorized(f) /\ {"prepared", "verified", "received"} \subseteq f.seen

(***************************************************************************)
(* FilePublisher.Observation.  Without ExpectedContent any published       *)
(* object is taken for the right one.                                      *)
(***************************************************************************)
Observation ==
  [staging |-> stage # "none",
   started |-> pub # "none",
   linearized |-> pub # "none",
   matches |-> pub # "none" /\ (expected => pub \in {"written", "full"})]

(***************************************************************************)
(* Recover: the state it returns and the side effect it carries out first. *)
(***************************************************************************)
Verdict(state, effect) == [state |-> state, effect |-> effect]

terminalFromFlags(f, started, published) ==
  \/ f.confirmations = 1 /\ published
  \/ "cancel" \in f.seen /\ ~started
  \/ "quarantine" \in f.seen /\ ~published /\ ~started

stateFromFlags(f, published) ==
  IF f.confirmations = 1 /\ published THEN "CONFIRMED"
  ELSE IF "cancel" \in f.seen THEN "CANCELLED"
  ELSE IF "quarantine" \in f.seen THEN "QUARANTINED"
  ELSE IF published THEN "PUBLISHED" ELSE "QUARANTINED"

maybeCleanup(policy, obs) == IF policy.cleanup /\ obs.staging THEN "cleanup" ELSE "none"
maybeQuarantine(policy, obs) ==
  IF policy.cleanup /\ (obs.staging \/ obs.started) THEN "quarantine" ELSE "none"

maybeConfirm(policy) ==
  IF policy.confirm THEN Verdict("CONFIRMED", "confirm") ELSE Verdict("PUBLISHED", "none")

\* The decision for a prefix without contradiction.
Decide(f, obs, policy, published, started) ==
  IF f.empty /\ ~torn /\ ~obs.staging /\ ~obs.started /\ ~obs.linearized
  THEN Verdict("CREATED", "none")
  ELSE IF /\ terminalFromFlags(f, started, published) /\ ~torn
          /\ (obs.staging \/ started) => published
  THEN Verdict(stateFromFlags(f, published), "none")
  ELSE IF f.confirmations = 1
  THEN Verdict(IF published THEN "CONFIRMED" ELSE "IRRECOVERABLE", "none")
  ELSE IF "cancel" \in f.seen /\ ~started /\ ~published
  THEN Verdict("CANCELLED", maybeCleanup(policy, obs))
  ELSE IF published
  THEN maybeConfirm(policy)
  ELSE Verdict("QUARANTINED", maybeQuarantine(policy, obs))

\* Mutant of Recover: publication is believed from the records alone.
RecoverFromRecords(f, obs, policy) ==
  LET published == "publishing" \in f.seen
      started == published \/ obs.started
  IN  IF Undecodable(f) THEN Verdict("error", "none")
      ELSE IF \/ Authorized(f) /\ ~here
              \/ Contradiction(f)
              \/ f.confirmations > 1
      THEN Verdict("IRRECOVERABLE", "none")
      ELSE Decide(f, obs, policy, published, started)

Recover(f, obs, policy) ==
  LET published == obs.linearized /\ obs.matches
      started == published \/ obs.started \/ "publishing" \in f.seen
  IN  IF Undecodable(f) THEN Verdict("error", "none")
      ELSE IF \/ Authorized(f) /\ ~here
              \/ Contradiction(f)
              \/ f.confirmations > 1
              \/ published /\ ~Prepared(f)
      THEN Verdict("IRRECOVERABLE", "none")
      ELSE Decide(f, obs, policy, published, started)

-----------------------------------------------------------------------------
NotRecovering == [at |-> "idle", state |-> "CREATED", effect |-> "none"]

Init ==
  /\ log = <<>> /\ torn = FALSE
  /\ stage = "none" /\ stageDisk = "none" /\ pub \in {"none", "old"} /\ pubDisk = pub
  /\ quar = FALSE /\ marks = 0
  /\ apply = "records" /\ rec = NotRecovering /\ last = "none"
  /\ expected \in BOOLEAN /\ here = TRUE /\ crashes = 0
  /\ lost = FALSE /\ stray = FALSE /\ cut = 0 /\ ignored = FALSE

Crash == crashes < MaxCrashes /\ crashes' = crashes + 1

(***************************************************************************)
(* The apply process: records, then Publish or PublishFrom.                *)
(***************************************************************************)
\* The records an orderly transaction appends next.
Orderly ==
  {r \in {Of(Chain[i]) : i \in {Len(log) + 1} \cap DOMAIN Chain} \cup {Of("cancel"), Of("quarantine")} :
     \A i \in DOMAIN log : log[i].kind \notin {"cancel", "quarantine"}}

AppendRecord(r) ==
  /\ apply = "records" /\ Len(log) < MaxLog
  /\ IF r \in Orderly THEN UNCHANGED <<stray, crashes>> ELSE ~stray /\ Crash /\ stray' = TRUE
  /\ log' = Append(log, r)
  /\ last' = "none"
  /\ UNCHANGED <<torn, files, apply, rec, expected, here, lost, cut, ignored>>

\* J-APPEND-MID: the process dies inside an append.
AppendTorn ==
  /\ apply = "records" /\ Crash
  /\ torn' = TRUE /\ apply' = "dead" /\ last' = "none"
  /\ UNCHANGED <<log, files, rec, expected, here, histories>>

\* The process exits without publishing.
ApplyExits ==
  /\ apply = "records"
  /\ apply' = "ended" /\ last' = "none"
  /\ UNCHANGED <<log, torn, files, rec, expected, here, crashes, histories>>

\* Publish is called, also a second time by an operator who tries again.
Publish ==
  /\ apply \in {"records", "dead", "ended"} /\ rec.at = "idle"
  /\ "verified" \in scanPrefix(log).seen
  /\ apply' = "P-STAGE-CREATE" /\ last' = "none"
  /\ IF apply = "records" THEN UNCHANGED crashes ELSE Crash
  /\ UNCHANGED <<log, torn, files, rec, expected, here, histories>>

Applying(label) ==
  apply = label /\ UNCHANGED <<log, torn, quar, marks, rec, last, expected, here, histories>>

\* The exclusive create: refused while an object is staged.
StageCreate ==
  /\ Applying("P-STAGE-CREATE")
  /\ IF stage = "none" THEN stage' = "partial" /\ apply' = "write"
     ELSE apply' = "ended" /\ UNCHANGED stage
  /\ UNCHANGED <<disk, pub, crashes>>

\* The write completes, or fails and the staged object is removed.
StageWrite ==
  /\ Applying("write")
  /\ \/ stage' = "written" /\ apply' = "P-STAGE-SYNC" /\ UNCHANGED crashes
     \/ stage' = "none" /\ apply' = "ended" /\ Crash
  /\ UNCHANGED <<disk, pub>>

\* PublishFrom: a clone appears whole.
StageClone ==
  /\ Applying("P-STAGE-CREATE") /\ stage = "none"
  /\ stage' = "written" /\ apply' = "P-STAGE-SYNC"
  /\ UNCHANGED <<disk, pub, crashes>>

StageSync ==
  /\ Applying("P-STAGE-SYNC")
  /\ stage' = "full" /\ stageDisk' = "full"
  /\ apply' = "P-PUBLISH-RENAME"
  /\ UNCHANGED <<pub, pubDisk, crashes>>

PublishRename ==
  /\ Applying("P-PUBLISH-RENAME")
  /\ IF pub = "none"
     THEN stage' = "none" /\ pub' = stage /\ apply' = "P-PUBLISH-DIRSYNC"
     ELSE apply' = "ended" /\ UNCHANGED <<stage, pub>>
  /\ UNCHANGED <<disk, crashes>>

PublishDirSync ==
  /\ Applying("P-PUBLISH-DIRSYNC")
  /\ pubDisk' = pub
  /\ apply' = "ended"
  /\ UNCHANGED <<stage, stageDisk, pub, crashes>>

(***************************************************************************)
(* Recover and RecoverAgain.                                               *)
(***************************************************************************)
Gone == apply \in {"dead", "ended"}
First == [cleanup |-> "P-STAGE-CREATE", quarantine |-> "P-PUBLISH-RENAME",
          confirm |-> "P-CONFIRM-PRE"]
Second == [cleanup |-> "P-STAGE-SYNC", quarantine |-> "P-PUBLISH-DIRSYNC",
           confirm |-> "P-CONFIRM-POST"]

Policies == [cleanup : BOOLEAN, confirm : BOOLEAN]

RecoverCall(policy) ==
  LET v == Recover(scanPrefix(log), Observation, policy)
  IN  /\ Gone /\ rec.at = "idle"
      /\ IF v.effect = "none"
         THEN /\ last' = IF v.state = "error" THEN "none" ELSE v.state
              /\ UNCHANGED rec
         ELSE /\ rec' = [at |-> First[v.effect], state |-> v.state, effect |-> v.effect]
              /\ last' = "none"
      /\ UNCHANGED <<log, torn, files, apply, expected, here, crashes, histories>>

Recovering(e, at) ==
  rec.effect = e /\ rec.at = at /\ UNCHANGED <<torn, apply, expected, here, lost, stray, cut>>

Smooth == UNCHANGED <<crashes, ignored>>
Shrug == Crash /\ ignored' = TRUE

\* Staged entries are removed, or moved to quarantine/; then the directories
\* are synchronised.  An error of RemoveAll is ignored.
CleanupStaging ==
  /\ Recovering("cleanup", "P-STAGE-CREATE")
  /\ \/ stage' = "none" /\ Smooth
     \/ stage' = stage /\ Shrug
  /\ rec' = [rec EXCEPT !.at = "sync"]
  /\ UNCHANGED <<log, stageDisk, pub, pubDisk, quar, marks, last>>

QuarantineStaging ==
  /\ Recovering("quarantine", "P-PUBLISH-RENAME") /\ Smooth
  /\ quar' = (quar \/ stage # "none")
  /\ stage' = "none"
  /\ rec' = [rec EXCEPT !.at = "sync"]
  /\ UNCHANGED <<log, stageDisk, pub, pubDisk, marks, last>>

\* QuarantineStaging ignores an error of the synchronisation of staging/.
SyncStaging ==
  /\ \E e \in {"cleanup", "quarantine"} : Recovering(e, "sync")
  /\ \/ stageDisk' = stage /\ Smooth
     \/ rec.effect = "quarantine" /\ stageDisk' = stageDisk /\ Shrug
  /\ rec' = [rec EXCEPT !.at = Second[rec.effect]]
  /\ UNCHANGED <<log, stage, pub, pubDisk, quar, marks, last>>

\* The mark is appended whether or not confirm.log has one.
AppendConfirmation ==
  /\ Recovering("confirm", "P-CONFIRM-PRE") /\ Smooth
  /\ marks' = marks + 1
  /\ rec' = [rec EXCEPT !.at = "P-CONFIRM-POST"]
  /\ UNCHANGED <<log, stage, disk, pub, quar, last>>

\* Mutant of RecoverReturn: the side effect is started over.
RecoverReturnRepeats ==
  /\ rec.at # "idle" /\ Recovering(rec.effect, Second[rec.effect]) /\ Smooth
  /\ rec' = [rec EXCEPT !.at = First[rec.effect]]
  /\ UNCHANGED <<log, files, last>>

\* The last checkpoint; Recover returns.  A caller that was told of a
\* confirmation appends it to the journal.
RecoverReturn ==
  /\ rec.at # "idle" /\ Recovering(rec.effect, Second[rec.effect]) /\ Smooth
  /\ IF rec.effect = "confirm"
     THEN rec' = [rec EXCEPT !.at = "record"] /\ UNCHANGED last
     ELSE rec' = NotRecovering /\ last' = rec.state
  /\ UNCHANGED <<log, files>>

\* The caller's append of the confirmation Recover reported, as the pipeline
\* test makes it; OpenWriter drops a torn tail before it appends.
RecordConfirmation ==
  /\ rec.at = "record" /\ Len(log) <= MaxLog
  /\ log' = Append(log, Of("confirm"))
  /\ torn' = FALSE
  /\ rec' = NotRecovering /\ last' = rec.state
  /\ UNCHANGED <<files, apply, expected, here, crashes, histories>>

(***************************************************************************)
(* Faults.                                                                 *)
(***************************************************************************)
\* A confirmation has its mark and not yet its record in the journal.
Marked == rec.effect = "confirm" /\ rec.at \in {"P-CONFIRM-POST", "record"}
Interrupted == cut' = IF Marked THEN cut + 1 ELSE cut

\* The running process is killed, or the call it is in fails.
Kill ==
  /\ Crash
  /\ ~Gone \/ rec.at # "idle"
  /\ apply' = IF Gone THEN apply ELSE "dead"
  /\ rec' = NotRecovering /\ last' = "none" /\ Interrupted
  /\ UNCHANGED <<log, torn, files, expected, here, lost, stray, ignored>>

\* Each directory keeps its last entries or the synchronised ones; content
\* that was not synchronised may be incomplete.
Survives(seen, synced) ==
  {synced} \cup IF seen = "written" THEN {"partial", "full"} ELSE {seen}

PowerLoss ==
  /\ Crash
  /\ stage' \in Survives(stage, stageDisk) /\ stageDisk' = stage'
  /\ pub' \in Survives(pub, pubDisk) /\ pubDisk' = pub'
  /\ lost' = (lost \/ /\ pub # "none" /\ pub' = "none"
                      /\ marks > 0 \/ "confirm" \in scanPrefix(log).seen)
  /\ apply' = "dead" /\ rec' = NotRecovering /\ last' = "none" /\ Interrupted
  /\ UNCHANGED <<log, torn, quar, marks, expected, here, stray, ignored>>

\* The root is found on another volume, or another root in its place.
Remount ==
  /\ Gone /\ rec.at = "idle" /\ here /\ Crash
  /\ here' = FALSE /\ last' = "none"
  /\ UNCHANGED <<log, torn, files, apply, rec, expected, histories>>

ApplyStep ==
  \/ StageCreate \/ StageWrite \/ StageClone \/ StageSync \/ PublishRename
  \/ PublishDirSync

RecoverStep ==
  \/ CleanupStaging \/ QuarantineStaging \/ SyncStaging \/ AppendConfirmation
  \/ RecoverReturn \/ RecordConfirmation

Next ==
  \/ \E r \in Record : AppendRecord(r)
  \/ AppendTorn \/ ApplyExits \/ Publish \/ ApplyStep
  \/ \E policy \in Policies : RecoverCall(policy)
  \/ RecoverStep
  \/ Kill \/ PowerLoss \/ Remount

Spec == Init /\ [][Next]_vars

\* The operator runs Recover, with one policy or another, until it returns: weak
\* fairness of the two actions, with what enables them spelled out.
Pending == Gone /\ rec.at = "idle" /\ last = "none" /\ ~Undecodable(scanPrefix(log))

Fairness ==
  /\ <>[](rec.at # "idle") => []<><<RecoverStep>>_vars
  /\ <>[]Pending => []<><<\E policy \in Policies : RecoverCall(policy)>>_vars

FairSpec == Spec /\ Fairness
-----------------------------------------------------------------------------
(***************************************************************************)
(* Properties.                                                             *)
(***************************************************************************)
\* Types of the journal, the directories and the two processes.
TypeOK ==
  /\ log \in Seq(Record) /\ Len(log) <= MaxLog + 1
  /\ {stage, stageDisk, pub, pubDisk} \subseteq Content
  /\ {torn, quar, expected, here, lost, stray, ignored} \subseteq BOOLEAN
  /\ last \in State \cup {"none"}
  /\ rec.state \in State /\ rec.effect \in {"none", "cleanup", "quarantine", "confirm"}
  /\ {marks, cut} \subseteq Nat /\ crashes \in 0 .. MaxCrashes

\* An object in published/ is whole, whatever a power loss keeps: it was
\* synchronised before it was renamed (publishStaged, filepublish.go:109).
PublishedIsWhole == pub \in {"none", "old", "full"}

\* The object of an earlier transaction is taken for the one to publish: no
\* ExpectedContent tells them apart (filepublish.go:178).
Mistaken == pub = "old" /\ ~expected

\* "NoInventedPublication", "PublicationAuthorized" and "PublicationPrepared"
\* (internal/recovery/README.md:6): Recover reports a publication only if the
\* whole object is published (or an earlier one is mistaken for it), and the
\* journal holds the authorisation and the preparation chain of its only
\* transaction.
NoInventedPublication ==
  last \in {"PUBLISHED", "CONFIRMED"} =>
    /\ pub = "full" \/ Mistaken
    /\ \A i \in DOMAIN log : log[i].tx = log[1].tx
    /\ Prepared(scanPrefix(log))

\* "ConfirmationUnique": however often Recover runs and is interrupted, the
\* journal holds at most one confirmation of an orderly transaction.  The marks
\* of confirm.log are not unique: Recover run again on the same inputs adds one
\* for every confirmation that was interrupted after its mark, and no other.
ConfirmationUnique ==
  ~stray =>
    /\ \A i, j \in DOMAIN log : log[i].kind = "confirm" /\ log[j].kind = "confirm" => i = j
    /\ marks = cut + (IF Marked \/ \E i \in DOMAIN log : log[i].kind = "confirm" THEN 1 ELSE 0)

\* "repeated recovery is effect-free at the stable state" (IP-S-0003): what
\* Recover returned is what it returns again, with no second confirmation and
\* nothing left to clean up.  (Records make a transaction: with an empty
\* journal, quarantined leftovers leave nothing to recover.)
RecoverAgain ==
  \A policy \in Policies :
    LET v == Recover(scanPrefix(log), Observation, policy)
    IN  last \in Terminal /\ log # <<>> =>
          /\ v.state = last \/ (last = "PUBLISHED" /\ v.state = "CONFIRMED")
          /\ v.effect = "confirm" => last = "PUBLISHED"

\* Crashes alone never make an orderly transaction irrecoverable: the journal
\* and the directories stay consistent at every label.  The exceptions are a
\* root that is no longer the one authorised, a publication that Recover
\* confirmed without synchronising published/ and a power loss then took, and
\* an earlier object mistaken for a publication nothing prepared.
CrashesAreRecoverable ==
  last = "IRRECOVERABLE" => ~here \/ lost \/ stray \/ Mistaken

\* A recovery that may clean up leaves staging/ empty for good, so that the
\* exclusive create of the next attempt succeeds (filepublish.go:66), unless it
\* ignored an error on the way.
StagingIsFree ==
  rec.at \in {"P-STAGE-SYNC", "P-PUBLISH-DIRSYNC"} =>
    ignored \/ (stage = "none" /\ stageDisk = "none")

\* A recovery tells the truth about an interrupted publication: what it reports
\* and confirms is there, whole and authorised, as far as the publisher can tell
\* it from an earlier object; the journal confirms it once, and each further
\* mark stands for an interrupted confirmation.
RecoveryIsTruthful ==
  TypeOK /\ PublishedIsWhole /\ NoInventedPublication /\ ConfirmationUnique

\* A recovery may be interrupted and run again at any label: the verdict stays,
\* no crash makes the transaction irrecoverable, and staging/ ends up free, with
\* the exceptions the three parts name.
RecoveryIsRepeatable == RecoverAgain /\ CrashesAreRecoverable /\ StagingIsFree

\* Once the process that applied is gone, a recovery comes to a verdict, however
\* often it is interrupted; only an authorisation that does not decode leaves
\* the transaction without one.
RecoverySettles == Gone ~> (last # "none" \/ Undecodable(scanPrefix(log)) \/ ~Gone)
=============================================================================
