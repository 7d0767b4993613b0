--------------------------- MODULE RecoveryProofs ---------------------------
(***************************************************************************)
(* Proofs about Recovery: that RecoveryIsTruthful and RecoveryIsRepeatable *)
(* hold for journals and crash counts of any bound.                        *)
(***************************************************************************)
EXTENDS Recovery, TLAPS, WellFoundedInduction

-----------------------------------------------------------------------------
(***************************************************************************)
(* The inductive invariant.                                                *)
(***************************************************************************)
Labels == {"P-STAGE-CREATE", "write", "P-STAGE-SYNC", "P-PUBLISH-RENAME",
           "P-PUBLISH-DIRSYNC"}
Stages == [at : {"idle", "P-STAGE-CREATE", "P-PUBLISH-RENAME", "sync", "P-STAGE-SYNC",
                 "P-PUBLISH-DIRSYNC", "P-CONFIRM-PRE", "P-CONFIRM-POST", "record"},
           state : State,
           effect : {"none", "cleanup", "quarantine", "confirm"}]

Typed ==
  /\ log \in Seq(Record) /\ Len(log) <= MaxLog + 1
  /\ stage \in Content /\ stageDisk \in Content /\ pub \in Content /\ pubDisk \in Content
  /\ torn \in BOOLEAN /\ quar \in BOOLEAN /\ expected \in BOOLEAN /\ here \in BOOLEAN
  /\ lost \in BOOLEAN /\ stray \in BOOLEAN /\ ignored \in BOOLEAN
  /\ last \in State \cup {"none"}
  /\ apply \in Labels \cup {"records", "dead", "ended"}
  /\ rec \in Stages
  /\ marks \in Nat /\ cut \in Nat /\ crashes \in 0 .. MaxCrashes

Flags == scanPrefix(log)
Confirms(l) == {i \in DOMAIN l : l[i].kind = "confirm"}

\* Recovery and publication exclude each other.
Alone == ~Gone => last = "none" /\ rec.at = "idle"

\* What is renamed into published/ is complete and synchronised; an object of an
\* earlier transaction stays.
Whole ==
  /\ {pub, pubDisk} \subseteq {"none", "old", "full"}
  /\ pub = "old" <=> pubDisk = "old"
  /\ apply = "P-PUBLISH-RENAME" => stage = "full"

\* Publication follows verification.
Evidence ==
  apply \in Labels \/ "full" \in {pub, pubDisk} => "verified" \in Flags.seen

ChainKinds == {"plan", "auth", "received", "prepared", "verified", "publishing"}

\* The log of an orderly transaction: the chain in its order, then a cancellation
\* or quarantine record, then a confirmation.
OrderlyLog(l) ==
  /\ \A i \in DOMAIN l :
       /\ l[i].tx = 1
       /\ l[i].kind \in ChainKinds \cup {"cancel", "quarantine", "confirm"}
       /\ l[i].kind \in ChainKinds =>
            /\ i <= 6 /\ l[i].kind = Chain[i]
            /\ \A j \in 1 .. (i - 1) : l[j].kind = Chain[j]
  /\ \A i, j \in DOMAIN l : l[i].kind = "confirm" /\ l[j].kind = "confirm" => i = j

\* One record at most is of another transaction.
OneStray == \A i, j \in DOMAIN log : log[i].tx = 2 /\ log[j].tx = 2 => i = j

Ordered ==
  /\ OneStray
  /\ ~stray => /\ OrderlyLog(log)
               /\ apply = "records" => Confirms(log) = {}
               /\ Confirms(log) # {} /\ ~lost => pub = "full" \/ Mistaken

\* A mark of confirm.log belongs to the confirmation in the journal, to the one
\* under way, or to one that was interrupted.
Counted ==
  ~stray => marks = cut + (IF Marked \/ Confirms(log) # {} THEN 1 ELSE 0)

\* What Recover makes of the published object, and whether it looks further.
Published == pub # "none" /\ (expected => pub \in {"written", "full"})
Begun == pub # "none" \/ "publishing" \in Flags.seen
Sane ==
  /\ ~Undecodable(Flags) /\ (Authorized(Flags) => here) /\ ~Contradiction(Flags)
  /\ ~(Flags.confirmations > 1)
  /\ Published => Prepared(Flags)

\* The state Recover returns for a policy that leaves publications unconfirmed.
Outcome ==
  IF Undecodable(Flags) THEN "error"
  ELSE IF ~Sane THEN "IRRECOVERABLE"
  ELSE IF log = <<>> /\ ~torn /\ stage = "none" /\ pub = "none" THEN "CREATED"
  ELSE IF /\ terminalFromFlags(Flags, Begun, Published) /\ ~torn
          /\ (stage # "none" \/ Begun) => Published
  THEN stateFromFlags(Flags, Published)
  ELSE IF Flags.confirmations = 1
  THEN IF Published THEN "CONFIRMED" ELSE "IRRECOVERABLE"
  ELSE IF "cancel" \in Flags.seen /\ ~Begun THEN "CANCELLED"
  ELSE IF Published THEN "PUBLISHED" ELSE "QUARANTINED"

\* What the last Recover returned is still what it would return.
Settled == last \in Terminal /\ log # <<>> => last = Outcome

\* A side effect under way rests on a verdict that the effect does not change.
Underway ==
  rec.at # "idle" =>
    /\ last = "none" /\ Sane /\ Flags.confirmations = 0
    /\ rec.effect \in {"cleanup", "quarantine", "confirm"}
    /\ rec.effect = "confirm" =>
         /\ rec.state = "CONFIRMED" /\ Published
         /\ rec.at \in {"P-CONFIRM-PRE", "P-CONFIRM-POST", "record"}
    /\ rec.effect # "confirm" =>
         /\ ~Published
         /\ rec.state = IF "cancel" \in Flags.seen /\ ~Begun THEN "CANCELLED" ELSE "QUARANTINED"
         /\ rec.at \in {First[rec.effect], "sync", Second[rec.effect]}
         /\ rec.at # First[rec.effect] => ignored \/ stage = "none"

IInv ==
  /\ Typed /\ Alone /\ Whole /\ Evidence /\ Ordered /\ Underway /\ Counted
  /\ Settled /\ NoInventedPublication /\ CrashesAreRecoverable /\ StagingIsFree

-----------------------------------------------------------------------------
(***************************************************************************)
(* The scan of a journal prefix.                                           *)
(***************************************************************************)
\* A set of naturals that is not empty has a least element.
LEMMA LeastNatural ==
  ASSUME NEW T \in SUBSET Nat, T # {}
  PROVE  \E n \in T : \A m \in T : n <= m
<1>1. PICK n \in T : \A m \in T : ~(<<m, n>> \in OpToRel(<, Nat))
  BY NatLessThanWellFounded, WFMin, Zenon
<1>2. ASSUME NEW m \in T PROVE ~(m < n)
  BY <1>1, <1>2, Zenon DEF OpToRel
<1> QED
  BY <1>2

\* scanPrefix stops at the first record that contradicts the ones before it, and
\* after the last record if there is none.
LEMMA StopAtFirst ==
  ASSUME NEW l \in Seq(Record)
  PROVE  /\ StopAt(l) \in 1 .. (Len(l) + 1)
         /\ \A j \in 1 .. (StopAt(l) - 1) : ~Stops(l, j)
         /\ StopAt(l) <= Len(l) => Stops(l, StopAt(l))
<1> DEFINE Bad == {i \in DOMAIN l : Stops(l, i)}
<1>1. CASE Bad = {}
  <2>1. StopAt(l) = Len(l) + 1
    BY <1>1, Zenon DEF StopAt
  <2> QED
    BY <1>1, <2>1
<1>2. CASE Bad # {}
  <2> Bad \in SUBSET Nat
    OBVIOUS
  <2> HIDE DEF Bad
  <2>1. PICK n \in Bad : \A m \in Bad : n <= m
    BY <1>2, LeastNatural, Zenon
  <2>2. n \in DOMAIN l /\ Stops(l, n) /\ \A j \in 1 .. (n - 1) : ~Stops(l, j)
    BY <2>1 DEF Bad
  <2>3. StopAt(l) \in DOMAIN l /\ Stops(l, StopAt(l)) /\ \A j \in 1 .. (StopAt(l) - 1) : ~Stops(l, j)
    BY <2>2, Zenon DEF StopAt
  <2> QED
    BY <2>3
<1> QED
  BY <1>1, <1>2, Zenon

\* A position with these properties is the one where the scan stops.
LEMMA StopAtUnique ==
  ASSUME NEW l \in Seq(Record), NEW n \in 1 .. (Len(l) + 1),
         \A j \in 1 .. (n - 1) : ~Stops(l, j),
         n <= Len(l) => Stops(l, n)
  PROVE  StopAt(l) = n
<1>1. ~(StopAt(l) < n) /\ ~(n < StopAt(l))
  BY StopAtFirst
<1> QED
  BY <1>1, StopAtFirst

\* Whether the scan stops at a record depends on the records up to it.
LEMMA StopsAppend ==
  ASSUME NEW l \in Seq(Record), NEW r \in Record, NEW i \in 1 .. Len(l)
  PROVE  Stops(Append(l, r), i) <=> Stops(l, i)
BY DEF Stops

\* A scan that stopped is not changed by a record appended later; one that did
\* not goes on to the new record.
LEMMA StopAtAppend ==
  ASSUME NEW l \in Seq(Record), NEW r \in Record
  PROVE  StopAt(Append(l, r)) =
           IF StopAt(l) <= Len(l) THEN StopAt(l)
           ELSE IF Stops(Append(l, r), Len(l) + 1) THEN Len(l) + 1 ELSE Len(l) + 2
<1> DEFINE a == Append(l, r)
<1>1. a \in Seq(Record) /\ Len(a) = Len(l) + 1
  OBVIOUS
<1>2. \A i \in 1 .. Len(l) : Stops(a, i) <=> Stops(l, i)
  BY StopsAppend, Zenon
<1> HIDE DEF a
<1>3. CASE StopAt(l) <= Len(l)
  <2>1. StopAt(l) \in 1 .. Len(l) /\ Stops(a, StopAt(l))
    BY <1>2, <1>3, StopAtFirst
  <2>2. \A j \in 1 .. (StopAt(l) - 1) : ~Stops(a, j)
    BY <1>2, <2>1, StopAtFirst
  <2>3. StopAt(a) = StopAt(l)
    BY <1>1, <2>1, <2>2, StopAtUnique
  <2> QED
    BY <1>3, <2>3, Zenon DEF a
<1>4. CASE StopAt(l) > Len(l) /\ Stops(a, Len(l) + 1)
  <2>1. \A j \in 1 .. Len(l) : ~Stops(a, j)
    BY <1>2, <1>4, StopAtFirst
  <2>2. StopAt(a) = Len(l) + 1
    BY <1>1, <1>4, <2>1, StopAtUnique
  <2> QED
    BY <1>4, <2>2, StopAtFirst DEF a
<1>5. CASE StopAt(l) > Len(l) /\ ~Stops(a, Len(l) + 1)
  <2>1. \A j \in 1 .. (Len(l) + 1) : ~Stops(a, j)
    BY <1>2, <1>5, StopAtFirst
  <2>2. StopAt(a) = Len(l) + 2
    BY <1>1, <1>5, <2>1, StopAtUnique
  <2> QED
    BY <1>5, <2>2, StopAtFirst DEF a
<1> QED
  BY <1>3, <1>4, <1>5, StopAtFirst

\* Records appended later take nothing out of what the scan has seen.
LEMMA SeenGrows ==
  ASSUME NEW l \in Seq(Record), NEW r \in Record
  PROVE  scanPrefix(l).seen \subseteq scanPrefix(Append(l, r)).seen
<1> DEFINE a == Append(l, r)
<1>1. a \in Seq(Record) /\ Len(a) = Len(l) + 1 /\ \A i \in 1 .. Len(l) : a[i] = l[i]
  OBVIOUS
<1>2. StopAt(l) \in 1 .. (Len(l) + 1) /\ StopAt(a) >= StopAt(l)
  BY StopAtFirst, StopAtAppend
<1> HIDE DEF a
<1>3. StopAt(a) \in 1 .. (Len(l) + 2)
  BY <1>1, StopAtFirst
<1>4. scanPrefix(l).seen \subseteq scanPrefix(a).seen
  BY <1>1, <1>2, <1>3, SMTT(60) DEF scanPrefix
<1> QED
  BY <1>4, Zenon DEF a

\* The kinds of records, one by one.
LEMMA Kinds ==
  Kind = ChainKinds \cup {"confirm", "cancel", "quarantine", "note", "auth0", "badauth", "odd"}
<1>1. DOMAIN Chain = 1 .. 6
  BY DEF Chain
<1>2. {Chain[i] : i \in DOMAIN Chain} = ChainKinds
  <2>1. /\ Chain[1] = "plan" /\ Chain[2] = "auth" /\ Chain[3] = "received"
        /\ Chain[4] = "prepared" /\ Chain[5] = "verified" /\ Chain[6] = "publishing"
    BY Zenon DEF Chain
  <2>2. \A i \in 1 .. 6 : i = 1 \/ i = 2 \/ i = 3 \/ i = 4 \/ i = 5 \/ i = 6
    OBVIOUS
  <2> QED
    BY <1>1, <2>1, <2>2 DEF ChainKinds
<1> QED
  BY <1>2, Zenon DEF Kind

\* A scan that does not stop has seen every record.
LEMMA ScanComplete ==
  ASSUME NEW l \in Seq(Record), scanPrefix(l).stop = "none"
  PROVE  /\ StopAt(l) = Len(l) + 1
         /\ scanPrefix(l).seen = {l[i].kind : i \in DOMAIN l}
         /\ scanPrefix(l).confirmations = Count(Confirms(l))
         /\ \A i \in DOMAIN l : l[i].tx = l[1].tx
<1>1. StopAt(l) = Len(l) + 1
  <2>1. SUFFICES ASSUME StopAt(l) <= Len(l) PROVE FALSE
    BY StopAtFirst
  <2>2. StopAt(l) \in DOMAIN l
    BY <2>1, StopAtFirst
  <2>3. l[StopAt(l)].kind \in Kind
    <3>1. l[StopAt(l)] \in Record
      BY <2>2
    <3> QED
      BY <3>1, Zenon DEF Record
  <2>4. "none" \notin Kind
    BY Kinds, Zenon DEF ChainKinds
  <2>5. scanPrefix(l).stop \in {"transaction", l[StopAt(l)].kind}
    BY <2>1, StopAtFirst DEF scanPrefix
  <2> QED
    BY <2>3, <2>4, <2>5, Zenon
<1>2. 1 .. (StopAt(l) - 1) = DOMAIN l
  BY <1>1
<1>3. scanPrefix(l).seen = {l[i].kind : i \in DOMAIN l}
  BY <1>2, Zenon DEF scanPrefix
<1>4. scanPrefix(l).confirmations = Count(Confirms(l))
  BY <1>2, Zenon DEF scanPrefix, Confirms
<1>5. \A i \in DOMAIN l : ~Stops(l, i)
  BY <1>1, StopAtFirst
<1> QED
  BY <1>1, <1>3, <1>4, <1>5, Zenon DEF Stops

\* The converse: a scan that finds no record to stop at is complete.
LEMMA NothingStops ==
  ASSUME NEW l \in Seq(Record), \A i \in DOMAIN l : ~Stops(l, i)
  PROVE  scanPrefix(l).stop = "none"
<1>1. StopAt(l) = Len(l) + 1
  BY StopAtUnique
<1> QED
  BY <1>1 DEF scanPrefix

\* Nothing in an orderly journal contradicts itself, and a verification in it
\* rests on the whole chain before it.
LEMMA OrderlyScan ==
  ASSUME NEW l \in Seq(Record), OrderlyLog(l)
  PROVE  LET f == scanPrefix(l)
         IN  /\ f.stop = "none"
             /\ ~Undecodable(f) /\ ~Contradiction(f)
             /\ f.confirmations = Count(Confirms(l))
             /\ f.confirmations <= 1
             /\ f.confirmations = 1 => Confirms(l) # {}
             /\ "verified" \in f.seen => Prepared(f)
             /\ Confirms(l) # {} => "confirm" \in f.seen
<1> DEFINE f == scanPrefix(l)
<1>1. \A i \in DOMAIN l : ~Stops(l, i)
  <2>1. SUFFICES ASSUME NEW i \in DOMAIN l, Stops(l, i) PROVE FALSE
    OBVIOUS
  <2>2. l[i].tx = 1 /\ l[1].tx = 1
    BY DEF OrderlyLog
  <2>3. \A j \in DOMAIN l : l[j].kind \notin {"auth0", "badauth", "odd"}
    BY Zenon DEF OrderlyLog, ChainKinds
  <2>4. PICK j \in 1 .. (i - 1) : l[i].kind = "auth" /\ l[j].kind = "auth"
    BY <2>1, <2>2, <2>3 DEF Stops, Auths
  <2>5. \A k \in DOMAIN l : l[k].kind = "auth" => k = 2
    BY SMTT(60) DEF OrderlyLog, ChainKinds, Chain
  <2> QED
    BY <2>4, <2>5
<1>2. f.stop = "none"
  BY <1>1, NothingStops, Zenon
<1>3. /\ f.seen = {l[i].kind : i \in DOMAIN l}
      /\ f.confirmations = Count(Confirms(l))
  BY <1>2, ScanComplete, Zenon
<1> HIDE DEF f
<1>4. f.confirmations <= 1 /\ (f.confirmations = 1 => Confirms(l) # {})
  <2>1. \A i, j \in Confirms(l) : i = j
    BY Zenon DEF OrderlyLog, Confirms
  <2> QED
    BY <1>3, <2>1 DEF Count
<1>5. /\ "publishing" \in f.seen => "verified" \in f.seen
      /\ "verified" \in f.seen => {"auth", "prepared", "received"} \subseteq f.seen
      /\ "prepared" \in f.seen => "received" \in f.seen
  <2>1. \A i \in DOMAIN l : l[i].kind \in ChainKinds =>
          i \in 1 .. 6 /\ l[i].kind = Chain[i] /\ \A j \in 1 .. (i - 1) : l[j].kind = Chain[j]
    BY DEF OrderlyLog
  <2>2. /\ Chain[1] = "plan" /\ Chain[2] = "auth" /\ Chain[3] = "received"
        /\ Chain[4] = "prepared" /\ Chain[5] = "verified" /\ Chain[6] = "publishing"
    BY Zenon DEF Chain
  <2>3. \A i \in DOMAIN l : l[i].kind = "publishing" => i = 6 /\ l[5].kind = "verified"
    BY <2>1, <2>2, SMTT(60) DEF ChainKinds
  <2>4. \A i \in DOMAIN l : l[i].kind = "verified" =>
          /\ i = 5 /\ l[2].kind = "auth" /\ l[3].kind = "received" /\ l[4].kind = "prepared"
    BY <2>1, <2>2, SMTT(60) DEF ChainKinds
  <2>5. \A i \in DOMAIN l : l[i].kind = "prepared" => i = 4 /\ l[3].kind = "received"
    BY <2>1, <2>2, SMTT(60) DEF ChainKinds
  <2> QED
    BY <1>3, <2>3, <2>4, <2>5
<1>6. "auth0" \notin f.seen
  BY <1>3, Zenon DEF OrderlyLog, ChainKinds
<1>7. "verified" \in f.seen => Prepared(f)
  BY <1>5, Zenon DEF Prepared, Authorized, Auths
<1>8. ~Undecodable(f) /\ ~Contradiction(f)
  BY <1>2, <1>5, <1>6, Zenon DEF Undecodable, Contradiction, Authorized, Auths
<1>9. Confirms(l) # {} => "confirm" \in f.seen
  BY <1>3, Zenon DEF Confirms
<1> QED
  BY <1>2, <1>3, <1>4, <1>7, <1>8, <1>9, Zenon DEF f

\* A confirmation appended to a journal of its transaction is seen and counted,
\* and changes nothing else.
LEMMA ConfirmScan ==
  ASSUME NEW l \in Seq(Record), scanPrefix(l).stop = "none", l # <<>>, l[1].tx = 1
  PROVE  LET a == Append(l, Of("confirm"))
         IN  /\ scanPrefix(a).stop = "none" /\ ~scanPrefix(a).empty
             /\ scanPrefix(a).seen = scanPrefix(l).seen \cup {"confirm"}
             /\ scanPrefix(l).confirmations = 0 => scanPrefix(a).confirmations = 1
             /\ \A i \in DOMAIN a : a[i].tx = a[1].tx
<1> DEFINE r == Of("confirm")
           a == Append(l, r)
<1>1. r \in Record /\ r.kind = "confirm" /\ r.tx = 1
  BY Kinds, Zenon DEF Of, Record
<1> HIDE DEF r
<1>2. /\ a \in Seq(Record) /\ Len(a) = Len(l) + 1 /\ a[Len(l) + 1] = r /\ a # <<>>
      /\ \A i \in 1 .. Len(l) : a[i] = l[i]
      /\ Len(l) \in Nat \ {0}
  BY <1>1
<1>3. \A i \in 1 .. Len(l) : Stops(a, i) <=> Stops(l, i)
  BY <1>1, StopsAppend, Zenon
<1> HIDE DEF a
<1>4. DOMAIN a = 1 .. (Len(l) + 1) /\ DOMAIN l = 1 .. Len(l)
  BY <1>2
<1>5. \A i \in DOMAIN a : ~Stops(a, i)
  <2>1. \A i \in 1 .. Len(l) : ~Stops(a, i)
    BY <1>3, ScanComplete, StopAtFirst
  <2>2. ~Stops(a, Len(l) + 1)
    BY <1>1, <1>2 DEF Stops, Auths
  <2> QED
    BY <1>4, <2>1, <2>2
<1>6. scanPrefix(a).stop = "none"
  BY <1>2, <1>5, NothingStops, Zenon
<1>7. scanPrefix(a).seen = scanPrefix(l).seen \cup {"confirm"}
  <2>1. scanPrefix(a).seen = {a[i].kind : i \in DOMAIN a}
    BY <1>2, <1>6, ScanComplete, Zenon
  <2>2. scanPrefix(l).seen = {l[i].kind : i \in DOMAIN l}
    BY ScanComplete, Zenon
  <2> QED
    BY <1>1, <1>2, <1>4, <2>1, <2>2
<1>8. scanPrefix(l).confirmations = 0 => scanPrefix(a).confirmations = 1
  <2>1. Confirms(a) = Confirms(l) \cup {Len(l) + 1}
    BY <1>1, <1>2, <1>4 DEF Confirms
  <2>2. scanPrefix(l).confirmations = 0 => Confirms(l) = {}
    BY ScanComplete DEF Count
  <2>3. scanPrefix(a).confirmations = Count(Confirms(a))
    BY <1>2, <1>6, ScanComplete, Zenon
  <2> QED
    BY <2>1, <2>2, <2>3, Zenon DEF Count
<1>9. ~scanPrefix(a).empty
  BY <1>2, Zenon DEF scanPrefix
<1>10. \A i \in DOMAIN a : a[i].tx = a[1].tx
  BY <1>2, <1>6, ScanComplete, Zenon
<1> QED
  BY <1>6, <1>7, <1>8, <1>9, <1>10, Zenon DEF a, r

-----------------------------------------------------------------------------
(***************************************************************************)
(* What Recover decides.                                                   *)
(***************************************************************************)
\* Whatever the policy, Recover returns Outcome or, in place of a publication, its
\* confirmation; and it starts a side effect only on a sane journal.
LEMMA RecoverMeans ==
  ASSUME NEW policy \in Policies
  PROVE  LET v == Recover(Flags, Observation, policy)
         IN  /\ v.effect \in {"none", "cleanup", "quarantine", "confirm"}
             /\ v.state \in State
             /\ v.effect # "confirm" => v.state = Outcome
             /\ v.effect = "confirm" =>
                  /\ Outcome = "PUBLISHED" /\ v.state = "CONFIRMED" /\ Published
             /\ v.effect # "none" => Sane /\ Flags.confirmations # 1
             /\ v.effect \in {"cleanup", "quarantine"} =>
                  /\ ~Published
                  /\ v.state = IF "cancel" \in Flags.seen /\ ~Begun THEN "CANCELLED"
                               ELSE "QUARANTINED"
<1> DEFINE v == Recover(Flags, Observation, policy)
<1>1. policy.cleanup \in BOOLEAN /\ policy.confirm \in BOOLEAN
  BY Zenon DEF Policies
<1>2. Flags.empty <=> log = <<>>
  BY Zenon DEF Flags, scanPrefix
<1>3. v = IF Undecodable(Flags) THEN Verdict("error", "none")
          ELSE IF ~Sane THEN Verdict("IRRECOVERABLE", "none")
          ELSE Decide(Flags, Observation, policy, Published, Begun)
  BY Zenon DEF Recover, Sane, Published, Begun, Observation
<1>4. CASE Undecodable(Flags) \/ ~Sane
  BY <1>3, <1>4 DEF Outcome, Verdict, State
<1>5. CASE ~Undecodable(Flags) /\ Sane
  <2>1. v = Decide(Flags, Observation, policy, Published, Begun)
    BY <1>3, <1>5, Zenon
  <2>2. Outcome \in State
    BY Zenon DEF Outcome, State, stateFromFlags
  <2>3. Published => Begun
    BY Zenon DEF Published, Begun
  <2> DEFINE nothing == log = <<>> /\ ~torn /\ stage = "none" /\ pub = "none"
             ended == /\ terminalFromFlags(Flags, Begun, Published) /\ ~torn
                      /\ (stage # "none" \/ Begun) => Published
  <2>4. v = IF nothing THEN Verdict("CREATED", "none")
            ELSE IF ended THEN Verdict(stateFromFlags(Flags, Published), "none")
            ELSE IF Flags.confirmations = 1
            THEN Verdict(IF Published THEN "CONFIRMED" ELSE "IRRECOVERABLE", "none")
            ELSE IF "cancel" \in Flags.seen /\ ~Begun /\ ~Published
            THEN Verdict("CANCELLED", maybeCleanup(policy, Observation))
            ELSE IF Published THEN maybeConfirm(policy)
            ELSE Verdict("QUARANTINED", maybeQuarantine(policy, Observation))
    BY <1>2, <2>1, Zenon DEF Decide, Observation
  <2>5. Outcome = IF nothing THEN "CREATED"
                  ELSE IF ended THEN stateFromFlags(Flags, Published)
                  ELSE IF Flags.confirmations = 1
                  THEN IF Published THEN "CONFIRMED" ELSE "IRRECOVERABLE"
                  ELSE IF "cancel" \in Flags.seen /\ ~Begun THEN "CANCELLED"
                  ELSE IF Published THEN "PUBLISHED" ELSE "QUARANTINED"
    BY <1>5, Zenon DEF Outcome
  <2> HIDE DEF v, nothing, ended
  <2>6. maybeCleanup(policy, Observation) \in {"none", "cleanup"}
    BY Zenon DEF maybeCleanup
  <2>7. maybeQuarantine(policy, Observation) \in {"none", "quarantine"}
    BY Zenon DEF maybeQuarantine
  <2>8. CASE nothing \/ ended \/ Flags.confirmations = 1
    BY <2>2, <2>4, <2>5, <2>8 DEF Verdict, v
  <2>9. CASE ~nothing /\ ~ended /\ Flags.confirmations # 1 /\ "cancel" \in Flags.seen /\ ~Begun
    BY <1>5, <2>2, <2>3, <2>4, <2>5, <2>6, <2>9, SMTT(60) DEF Verdict, v
  <2>10. CASE /\ ~nothing /\ ~ended /\ Flags.confirmations # 1
              /\ ~("cancel" \in Flags.seen /\ ~Begun) /\ Published
    BY <1>5, <2>2, <2>4, <2>5, <2>10 DEF Verdict, maybeConfirm, State, v
  <2>11. CASE /\ ~nothing /\ ~ended /\ Flags.confirmations # 1
              /\ ~("cancel" \in Flags.seen /\ ~Begun) /\ ~Published
    BY <1>5, <2>2, <2>4, <2>5, <2>7, <2>11 DEF Verdict, v
  <2> QED
    BY <2>8, <2>9, <2>10, <2>11, Zenon
<1> QED
  BY <1>4, <1>5, Zenon

\* So a verdict that is still the outcome is stable.
LEMMA SettledAgain ==
  ASSUME Settled PROVE RecoverAgain
<1> SUFFICES ASSUME NEW policy \in Policies, last \in Terminal, log # <<>>
             PROVE  LET v == Recover(scanPrefix(log), Observation, policy)
                    IN  /\ v.state = last \/ (last = "PUBLISHED" /\ v.state = "CONFIRMED")
                        /\ v.effect = "confirm" => last = "PUBLISHED"
  BY Zenon DEF RecoverAgain
<1> QED
  BY RecoverMeans, Zenon DEF Settled, Flags

\* The count is none, one or several.
LEMMA ConfirmationsNat ==
  ASSUME NEW l
  PROVE  scanPrefix(l).confirmations \in 0 .. 2
BY DEF scanPrefix, Count

\* A publication that Recover reports is the whole object, or an earlier one it
\* cannot tell from it, and its journal is prepared and of one transaction.
LEMMA OutcomePublished ==
  ASSUME Typed, Whole, Outcome \in {"PUBLISHED", "CONFIRMED"}
  PROVE  /\ pub = "full" \/ Mistaken
         /\ Prepared(Flags)
         /\ \A i \in DOMAIN log : log[i].tx = log[1].tx
<1>1. Sane /\ Published
  BY Zenon DEF Outcome, stateFromFlags, terminalFromFlags
<1>2. pub = "full" \/ Mistaken
  BY <1>1, Zenon DEF Published, Whole, Mistaken
<1>3. Prepared(Flags) /\ Flags.stop = "none"
  BY <1>1, Zenon DEF Sane, Contradiction
<1>4. \A i \in DOMAIN log : log[i].tx = log[1].tx
  BY <1>3, ScanComplete, Zenon DEF Typed, Flags
<1> QED
  BY <1>2, <1>3, <1>4, Zenon

\* An orderly transaction under its own root, none of whose publications a power
\* loss took away and for which no earlier object is mistaken, is never
\* irrecoverable.
LEMMA OutcomeRecoverable ==
  ASSUME Typed, Whole, Evidence, Ordered, here, ~lost, ~stray, ~Mistaken
  PROVE  Outcome # "IRRECOVERABLE"
<1>1. /\ OrderlyLog(log) /\ log \in Seq(Record)
      /\ Confirms(log) # {} => pub = "full"
  BY Zenon DEF Ordered, Typed
<1>2. /\ ~Undecodable(Flags) /\ ~Contradiction(Flags)
      /\ Flags.confirmations \in Nat /\ Flags.confirmations <= 1
      /\ Flags.confirmations = 1 => Confirms(log) # {}
      /\ "verified" \in Flags.seen => Prepared(Flags)
  BY <1>1, OrderlyScan, ConfirmationsNat DEF Flags
<1>3. Published => pub = "full"
  BY Zenon DEF Published, Whole, Mistaken
<1>4. Sane
  BY <1>2, <1>3 DEF Sane, Evidence
<1>5. Flags.confirmations = 1 => Published
  BY <1>1, <1>2, Zenon DEF Published
<1> QED
  BY <1>4, <1>5, Zenon DEF Outcome, stateFromFlags

-----------------------------------------------------------------------------
(***************************************************************************)
(* The invariant is inductive.                                             *)
(***************************************************************************)
\* The bounds are numbers.
LEMMA Bounds == MaxLog \in Nat /\ MaxCrashes \in Nat
BY RecoveryAssumption, Zenon

\* It holds before anything is applied.
LEMMA InitInv == Init => IInv
<1> SUFFICES ASSUME Init PROVE IInv
  OBVIOUS
<1>1. Typed
  <2>1. log \in Seq(Record) /\ Len(log) <= MaxLog + 1
    BY Bounds DEF Init
  <2>2. rec \in Stages
    BY Zenon DEF Init, NotRecovering, Stages, State
  <2>3. marks \in Nat /\ cut \in Nat /\ crashes \in 0 .. MaxCrashes
    BY Bounds DEF Init
  <2>4. /\ stage \in Content /\ stageDisk \in Content /\ pub \in Content /\ pubDisk \in Content
        /\ last \in State \cup {"none"} /\ apply \in Labels \cup {"records", "dead", "ended"}
    BY Zenon DEF Init, Content
  <2>5. /\ torn \in BOOLEAN /\ quar \in BOOLEAN /\ expected \in BOOLEAN /\ here \in BOOLEAN
        /\ lost \in BOOLEAN /\ stray \in BOOLEAN /\ ignored \in BOOLEAN
    BY Zenon DEF Init
  <2> QED
    BY <2>1, <2>2, <2>3, <2>4, <2>5, Zenon DEF Typed
<1>2. Ordered /\ Confirms(log) = {}
  BY DEF Init, Ordered, OneStray, OrderlyLog, Confirms
<1>3. Counted
  BY <1>2 DEF Init, Counted, Marked, NotRecovering
<1> QED
  BY <1>1, <1>2, <1>3, Zenon
     DEF Init, IInv, Alone, Whole, Evidence, Underway, Settled, NoInventedPublication,
         CrashesAreRecoverable, StagingIsFree, NotRecovering, Terminal, Labels

\* Every step keeps the types.
LEMMA TypedStep ==
  ASSUME IInv, Next PROVE Typed'
<1> USE Bounds DEF IInv, Typed
<1>1. ASSUME NEW r \in Record, AppendRecord(r) PROVE Typed'
  <2>1. log' \in Seq(Record) /\ Len(log') <= MaxLog + 1
    BY <1>1 DEF AppendRecord
  <2>2. stray' \in BOOLEAN /\ crashes' \in 0 .. MaxCrashes
    <3>1. CASE r \in Orderly
      BY <1>1, <3>1, Zenon DEF AppendRecord
    <3>2. CASE r \notin Orderly
      BY <1>1, <3>2 DEF AppendRecord, Crash
    <3> QED
      BY <3>1, <3>2, Zenon
  <2> QED
    BY <1>1, <2>1, <2>2, Zenon DEF AppendRecord, files, histories
<1>2. CASE AppendTorn \/ ApplyExits \/ Publish \/ Kill \/ Remount
  <2>1. rec' \in Stages
    BY <1>2 DEF AppendTorn, ApplyExits, Publish, Kill, Remount, NotRecovering, Stages, State
  <2>2. crashes' \in 0 .. MaxCrashes
    BY <1>2 DEF AppendTorn, ApplyExits, Publish, Kill, Remount, Crash
  <2>3. apply' \in Labels \cup {"records", "dead", "ended"} /\ last' = "none"
    BY <1>2, Zenon DEF AppendTorn, ApplyExits, Publish, Kill, Remount, Labels
  <2>4. /\ UNCHANGED <<log, files, expected, lost, stray, ignored>>
        /\ torn' \in {torn, TRUE} /\ here' \in {here, FALSE}
    BY <1>2, Zenon DEF AppendTorn, ApplyExits, Publish, Kill, Remount, histories
  <2>5. cut' \in Nat
    BY <1>2 DEF AppendTorn, ApplyExits, Publish, Kill, Remount, histories, Interrupted
  <2> QED
    BY <2>1, <2>2, <2>3, <2>4, <2>5, ZenonT(60) DEF files
<1>3. CASE ApplyStep
  BY <1>3 DEF ApplyStep, StageCreate, StageWrite, StageClone, StageSync, PublishRename,
              PublishDirSync, Applying, disk, Content, Labels, Crash, histories
<1>4. ASSUME NEW policy \in Policies, RecoverCall(policy) PROVE Typed'
  <2> DEFINE v == Recover(Flags, Observation, policy)
  <2>1. /\ v.state \in State /\ v.effect \in {"none", "cleanup", "quarantine", "confirm"}
        /\ rec' = rec \/ (v.effect # "none" /\ rec' = [at |-> First[v.effect], state |-> v.state, effect |-> v.effect])
        /\ last' \in State \cup {"none"}
    BY <1>4, RecoverMeans, ZenonT(60) DEF RecoverCall, Flags
  <2> HIDE DEF v
  <2>2. rec' \in Stages
    BY <2>1 DEF Stages, First
  <2> QED
    BY <1>4, <2>1, <2>2, Zenon DEF RecoverCall, files, histories
<1>5. CASE CleanupStaging \/ QuarantineStaging \/ SyncStaging \/ AppendConfirmation
  <2>1. rec' \in Stages
    BY <1>5 DEF CleanupStaging, QuarantineStaging, SyncStaging, AppendConfirmation,
                Recovering, Stages, Second
  <2>2. quar' \in BOOLEAN
    BY <1>5, Zenon DEF CleanupStaging, QuarantineStaging, SyncStaging, AppendConfirmation, Recovering
  <2>3. marks' \in Nat /\ crashes' \in 0 .. MaxCrashes
    BY <1>5 DEF CleanupStaging, QuarantineStaging, SyncStaging, AppendConfirmation, Recovering,
                Smooth, Shrug, Crash
  <2>4. ignored' \in BOOLEAN
    BY <1>5, Zenon DEF CleanupStaging, QuarantineStaging, SyncStaging, AppendConfirmation,
                       Smooth, Shrug
  <2> QED
    BY <1>5, <2>1, <2>2, <2>3, <2>4 DEF CleanupStaging, QuarantineStaging, SyncStaging, AppendConfirmation,
                      Recovering, Content, disk
<1>6. CASE RecoverReturn
  BY <1>6 DEF RecoverReturn, Recovering, Smooth, Stages, NotRecovering, State, files
<1>7. CASE RecordConfirmation
  <2>1. Of("confirm") \in Record
    BY Kinds, Zenon DEF Of, Record
  <2>2. log' \in Seq(Record) /\ Len(log') <= MaxLog + 1
    BY <1>7, <2>1 DEF RecordConfirmation
  <2>3. rec' \in Stages /\ last' \in State
    BY <1>7, Zenon DEF RecordConfirmation, Stages, NotRecovering, State
  <2> QED
    BY <1>7, <2>2, <2>3, Zenon DEF RecordConfirmation, files, histories
<1>8. CASE PowerLoss
  BY <1>8 DEF PowerLoss, Survives, Content, Stages, NotRecovering, State, Crash, Interrupted
<1> QED
  BY <1>1, <1>2, <1>3, <1>4, <1>5, <1>6, <1>7, <1>8, Zenon DEF Next, RecoverStep

\* Recovery and publication go on excluding each other.
LEMMA AloneStep ==
  ASSUME IInv, Next PROVE Alone'
<1> USE DEF IInv, Alone, Gone
<1>1. ASSUME NEW r \in Record, AppendRecord(r) PROVE Alone'
  BY <1>1, Zenon DEF AppendRecord
<1>2. CASE AppendTorn \/ ApplyExits \/ Publish \/ Kill \/ Remount \/ PowerLoss
  BY <1>2, Zenon DEF AppendTorn, ApplyExits, Publish, Kill, Remount, PowerLoss, NotRecovering
<1>3. CASE ApplyStep
  BY <1>3, Zenon DEF ApplyStep, StageCreate, StageWrite, StageClone, StageSync, PublishRename,
              PublishDirSync, Applying
<1>4. ASSUME NEW policy \in Policies, RecoverCall(policy) PROVE Alone'
  BY <1>4, Zenon DEF RecoverCall
<1>5. CASE RecoverStep
  <2>1. rec.at # "idle" /\ apply' = apply
    BY <1>5, Zenon DEF RecoverStep, CleanupStaging, QuarantineStaging, SyncStaging,
                AppendConfirmation, RecoverReturn, RecordConfirmation, Recovering
  <2> QED
    BY <2>1, Zenon
<1> QED
  BY <1>1, <1>2, <1>3, <1>4, <1>5, Zenon DEF Next

\* An object is synchronised before it is renamed into published/.
LEMMA WholeStep ==
  ASSUME IInv, Next PROVE Whole'
<1> USE DEF IInv, Whole
<1>1. ASSUME NEW r \in Record, AppendRecord(r) PROVE Whole'
  BY <1>1, Zenon DEF AppendRecord, files
<1>2. CASE AppendTorn \/ ApplyExits \/ Publish \/ Kill \/ Remount
  BY <1>2, Zenon DEF AppendTorn, ApplyExits, Publish, Kill, Remount, files
<1>3. CASE ApplyStep
  BY <1>3, Zenon DEF ApplyStep, StageCreate, StageWrite, StageClone, StageSync, PublishRename,
              PublishDirSync, Applying, disk
<1>4. ASSUME NEW policy \in Policies, RecoverCall(policy) PROVE Whole'
  BY <1>4, Zenon DEF RecoverCall, files
<1>5. CASE RecoverStep
  <2>1. rec.at # "idle" /\ UNCHANGED <<apply, pub, pubDisk, expected>>
    BY <1>5, Zenon DEF RecoverStep, CleanupStaging, QuarantineStaging, SyncStaging,
                AppendConfirmation, RecoverReturn, RecordConfirmation, Recovering, files, disk
  <2>2. Gone
    BY <2>1, Zenon DEF Alone
  <2> QED
    BY <2>1, <2>2, Zenon DEF Gone
<1>6. CASE PowerLoss
  BY <1>6, Zenon DEF PowerLoss, Survives
<1> QED
  BY <1>1, <1>2, <1>3, <1>4, <1>5, <1>6, Zenon DEF Next

\* A confirmation is recorded in a journal that is not empty, is of transaction 1
\* and holds no other confirmation.
LEMMA RecordedOnce ==
  ASSUME IInv, RecordConfirmation
  PROVE  /\ rec.state = "CONFIRMED" /\ Published /\ Sane /\ Prepared(Flags)
         /\ log \in Seq(Record) /\ Flags.stop = "none" /\ log # <<>> /\ log[1].tx = 1
         /\ Flags.confirmations = 0 /\ Marked
         /\ pub = "full" \/ Mistaken
         /\ Gone
<1>1. rec.at = "record"
  BY Zenon DEF RecordConfirmation
<1>2. /\ Sane /\ Flags.confirmations = 0
      /\ rec.effect \in {"cleanup", "quarantine", "confirm"}
      /\ rec.effect = "confirm" => rec.state = "CONFIRMED" /\ Published
      /\ rec.effect # "confirm" => rec.at \in {First[rec.effect], "sync", Second[rec.effect]}
  BY <1>1, Zenon DEF IInv, Underway
<1>3. rec.state = "CONFIRMED" /\ Published /\ Marked
  BY <1>1, <1>2 DEF First, Second, Marked
<1>4. Prepared(Flags) /\ Flags.stop = "none"
  BY <1>2, <1>3, Zenon DEF Sane, Contradiction
<1>5. (pub = "full" \/ Mistaken) /\ Gone /\ log \in Seq(Record)
  BY <1>1, <1>3, Zenon DEF Published, IInv, Whole, Alone, Typed, Mistaken
<1>6. /\ Flags.seen = {log[i].kind : i \in DOMAIN log}
      /\ \A i \in DOMAIN log : log[i].tx = log[1].tx
  BY <1>4, <1>5, ScanComplete, Zenon DEF Flags
<1>7. PICK i \in DOMAIN log, j \in DOMAIN log : log[i].kind = "prepared" /\ log[j].kind = "verified"
  BY <1>4, <1>6, Zenon DEF Prepared
<1>8. log # <<>> /\ log[1] \in Record
  BY <1>5, <1>7
<1>9. log[1].tx = 1
  <2>1. log[1].tx \in {1, 2}
    BY <1>8, Zenon DEF Record
  <2>2. i # j
    BY <1>7, Zenon
  <2> QED
    BY <1>6, <2>1, <2>2, Zenon DEF IInv, Ordered, OneStray
<1> QED
  BY <1>2, <1>3, <1>4, <1>5, <1>8, <1>9, Zenon

\* Publication goes on following verification.
LEMMA EvidenceStep ==
  ASSUME IInv, Next PROVE Evidence'
<1>1. "verified" \in Flags.seen => "verified" \in Flags'.seen
  <2>1. CASE log' = log
    BY <2>1, Zenon DEF Flags
  <2>2. CASE log' # log
    <3>1. PICK r \in Record : log' = Append(log, r)
      <4>1. Of("confirm") \in Record
        BY Kinds, Zenon DEF Of, Record
      <4> QED
        BY <2>2, <4>1, Zenon
           DEF Next, AppendRecord, AppendTorn, ApplyExits, Publish, ApplyStep, StageCreate,
               StageWrite, StageClone, StageSync, PublishRename, PublishDirSync, Applying,
               RecoverCall, RecoverStep, CleanupStaging, QuarantineStaging, SyncStaging,
               AppendConfirmation, RecoverReturn, RecordConfirmation, Kill, PowerLoss, Remount
    <3> QED
      BY <3>1, SeenGrows, Zenon DEF Flags, IInv, Typed
  <2> QED
    BY <2>1, <2>2, Zenon
<1> USE DEF IInv, Evidence
<1>2. ASSUME NEW r \in Record, AppendRecord(r) PROVE Evidence'
  BY <1>1, <1>2, Zenon DEF AppendRecord, files
<1>3. CASE AppendTorn \/ ApplyExits \/ Kill \/ Remount
  BY <1>1, <1>3, Zenon DEF AppendTorn, ApplyExits, Kill, Remount, files, Labels
<1>4. CASE Publish
  BY <1>1, <1>4, Zenon DEF Publish, Flags
<1>5. CASE ApplyStep
  <2>1. apply \in Labels
    BY <1>5, Zenon DEF ApplyStep, StageCreate, StageWrite, StageClone, StageSync, PublishRename,
                PublishDirSync, Applying, Labels
  <2> QED
    BY <1>1, <2>1, Zenon
<1>6. ASSUME NEW policy \in Policies, RecoverCall(policy) PROVE Evidence'
  BY <1>1, <1>6, Zenon DEF RecoverCall, files
<1>7. CASE RecoverStep
  <2>1. UNCHANGED <<apply, pub, pubDisk>>
    BY <1>7, Zenon DEF RecoverStep, CleanupStaging, QuarantineStaging, SyncStaging,
                AppendConfirmation, RecoverReturn, RecordConfirmation, Recovering, files, disk
  <2> QED
    BY <1>1, <2>1, Zenon
<1>8. CASE PowerLoss
  BY <1>1, <1>8, Zenon DEF PowerLoss, Survives, Whole, Labels
<1> QED
  BY <1>2, <1>3, <1>4, <1>5, <1>6, <1>7, <1>8, Zenon DEF Next

\* A verdict stays what Recover would say, is true, and no crash makes it
\* irrecoverable.
LEMMA VerdictStep ==
  ASSUME IInv, Next
  PROVE  (Settled /\ NoInventedPublication /\ CrashesAreRecoverable)'
<1> USE DEF IInv
<1>1. CASE last' = "none"
  BY <1>1, Zenon DEF Settled, NoInventedPublication, CrashesAreRecoverable, Terminal
<1>2. ASSUME NEW policy \in Policies, RecoverCall(policy), last' # "none"
      PROVE  (Settled /\ NoInventedPublication /\ CrashesAreRecoverable)'
  <2>1. last' = Outcome
    BY <1>2, RecoverMeans, Zenon DEF RecoverCall, Flags
  <2>2. UNCHANGED <<log, torn, stage, pub, expected, here, lost, stray>>
    BY <1>2, Zenon DEF RecoverCall, files, histories
  <2>3. Outcome' = Outcome /\ Flags' = Flags
    BY <2>2, ZenonT(60) DEF Outcome, Sane, Published, Begun, Flags
  <2>4. Settled'
    BY <2>1, <2>3, Zenon DEF Settled
  <2>5. NoInventedPublication'
    BY <2>1, <2>2, OutcomePublished, Zenon DEF NoInventedPublication, Flags, Mistaken
  <2>6. CrashesAreRecoverable'
    BY <2>1, <2>2, OutcomeRecoverable, Zenon DEF CrashesAreRecoverable, Mistaken
  <2> QED
    BY <2>4, <2>5, <2>6, Zenon
<1>3. CASE RecoverReturn /\ last' # "none"
  <2>1. /\ rec.at # "idle" /\ rec.at = Second[rec.effect] /\ rec.effect # "confirm"
        /\ last' = rec.state
        /\ UNCHANGED <<log, torn, stage, pub, expected, here, lost, stray>>
    BY <1>3, Zenon DEF RecoverReturn, Recovering, files, Underway
  <2>2. /\ Sane /\ Flags.confirmations = 0 /\ ~Published
        /\ rec.effect \in {"cleanup", "quarantine"}
        /\ rec.state = IF "cancel" \in Flags.seen /\ ~Begun THEN "CANCELLED" ELSE "QUARANTINED"
    BY <2>1, Zenon DEF Underway
  <2>4. log # <<>> => Outcome = rec.state
    BY <2>2 DEF Outcome, Sane, terminalFromFlags, stateFromFlags
  <2>5. Outcome' = Outcome
    BY <2>1, Zenon DEF Outcome, Sane, Published, Begun, Flags
  <2> QED
    BY <2>1, <2>2, <2>4, <2>5, Zenon DEF Settled, NoInventedPublication, CrashesAreRecoverable
<1>4. CASE RecordConfirmation
  <2> DEFINE a == Append(log, Of("confirm"))
  <2>1. /\ last' = "CONFIRMED" /\ torn' = FALSE /\ log' = a
        /\ UNCHANGED <<stage, pub, expected, here>>
    BY <1>4, RecordedOnce, Zenon DEF RecordConfirmation, files
  <2>2. /\ Flags'.stop = "none" /\ ~Flags'.empty
        /\ Flags'.seen = Flags.seen \cup {"confirm"}
        /\ Flags'.confirmations = 1
        /\ \A i \in DOMAIN log' : log'[i].tx = log'[1].tx
    BY <1>4, <2>1, RecordedOnce, ConfirmScan, Zenon DEF Flags
  <2>3. Published' /\ Sane /\ Prepared(Flags) /\ (pub' = "full" \/ Mistaken')
    BY <1>4, <2>1, RecordedOnce, Zenon DEF Published, Mistaken
  <2>4. Prepared(Flags') /\ (Authorized(Flags') => Authorized(Flags))
    BY <2>2, <2>3, Zenon DEF Prepared, Authorized, Auths
  <2>5. ~Undecodable(Flags') /\ ~Contradiction(Flags')
    BY <2>2, <2>3, <2>4, Zenon DEF Sane, Undecodable, Contradiction, Prepared
  <2>6. Sane'
    BY <2>1, <2>2, <2>3, <2>4, <2>5 DEF Sane
  <2>7. log' # <<>>
    BY <2>2, Zenon DEF Flags, scanPrefix
  <2>8. Outcome' = "CONFIRMED"
    BY <2>1, <2>2, <2>3, <2>5, <2>6, <2>7, Zenon DEF Outcome, terminalFromFlags, stateFromFlags
  <2>9. Settled'
    BY <2>1, <2>8, Zenon DEF Settled
  <2>10. NoInventedPublication'
    BY <2>2, <2>3, <2>4, Zenon DEF NoInventedPublication, Flags
  <2>11. CrashesAreRecoverable'
    BY <2>1, Zenon DEF CrashesAreRecoverable
  <2> QED
    BY <2>9, <2>10, <2>11, Zenon
<1>5. ASSUME NEW r \in Record, AppendRecord(r) PROVE last' = "none"
  BY <1>5, Zenon DEF AppendRecord
<1>6. CASE ApplyStep
  <2>1. ~Gone /\ last' = last
    BY <1>6, Zenon DEF ApplyStep, StageCreate, StageWrite, StageClone, StageSync, PublishRename,
                PublishDirSync, Applying, Gone
  <2> QED
    BY <1>1, <2>1, Zenon DEF Alone
<1>7. CASE CleanupStaging \/ QuarantineStaging \/ SyncStaging \/ AppendConfirmation
  <2>1. rec.at # "idle" /\ last' = last
    BY <1>7, Zenon DEF CleanupStaging, QuarantineStaging, SyncStaging, AppendConfirmation, Recovering
  <2> QED
    BY <1>1, <2>1, Zenon DEF Underway
<1>8. CASE AppendTorn \/ ApplyExits \/ Publish \/ Kill \/ PowerLoss \/ Remount
  BY <1>1, <1>8, Zenon DEF AppendTorn, ApplyExits, Publish, Kill, PowerLoss, Remount
<1> QED
  BY <1>1, <1>2, <1>3, <1>4, <1>5, <1>6, <1>7, <1>8, Zenon DEF Next, RecoverStep

\* The record an orderly transaction appends next keeps its journal orderly.
LEMMA OrderlyAppend ==
  ASSUME log \in Seq(Record), OrderlyLog(log), Confirms(log) = {}, NEW r \in Orderly
  PROVE  /\ OrderlyLog(Append(log, r)) /\ Confirms(Append(log, r)) = {}
         /\ r.tx = 1
<1> DEFINE n == Len(log) + 1
           a == Append(log, r)
<1>1. \A i \in DOMAIN log : log[i].kind \notin {"cancel", "quarantine", "confirm"}
  BY Zenon DEF Orderly, Confirms
<1>2. \A i \in DOMAIN log : log[i].kind = Chain[i]
  BY <1>1, Zenon DEF OrderlyLog
<1>3. DOMAIN Chain = 1 .. 6
  BY DEF Chain
<1>4. /\ r.tx = 1
      /\ r.kind \in {"cancel", "quarantine"} \/ (n <= 6 /\ r.kind = Chain[n] /\ r.kind \in ChainKinds)
  <2>1. CASE r \in {Of("cancel"), Of("quarantine")}
    BY <2>1 DEF Of
  <2>2. CASE r \notin {Of("cancel"), Of("quarantine")}
    <3>1. n \in 1 .. 6 /\ r = Of(Chain[n])
      BY <1>3, <2>2, Zenon DEF Orderly
    <3>2. Chain[n] \in ChainKinds
      <4>1. /\ Chain[1] = "plan" /\ Chain[2] = "auth" /\ Chain[3] = "received"
            /\ Chain[4] = "prepared" /\ Chain[5] = "verified" /\ Chain[6] = "publishing"
        BY Zenon DEF Chain
      <4>2. n = 1 \/ n = 2 \/ n = 3 \/ n = 4 \/ n = 5 \/ n = 6
        BY <3>1
      <4> QED
        BY <4>1, <4>2, Zenon DEF ChainKinds
    <3> QED
      BY <3>1, <3>2 DEF Of
  <2> QED
    BY <2>1, <2>2, Zenon
<1>5. r.kind # "confirm"
  BY <1>4, Zenon DEF ChainKinds
<1>6. /\ DOMAIN a = 1 .. n /\ DOMAIN log = 1 .. (n - 1) /\ n \in Nat \ {0} /\ a[n] = r
      /\ \A i \in 1 .. (n - 1) : a[i] = log[i]
  OBVIOUS
<1> HIDE DEF a, n
<1>7. Confirms(a) = {}
  BY <1>1, <1>5, <1>6 DEF Confirms
<1>8. \A i \in DOMAIN a :
        /\ a[i].tx = 1
        /\ a[i].kind \in ChainKinds \cup {"cancel", "quarantine", "confirm"}
        /\ a[i].kind \in ChainKinds =>
             /\ i <= 6 /\ a[i].kind = Chain[i]
             /\ \A j \in 1 .. (i - 1) : a[j].kind = Chain[j]
  <2> SUFFICES ASSUME NEW i \in DOMAIN a
               PROVE  /\ a[i].tx = 1
                      /\ a[i].kind \in ChainKinds \cup {"cancel", "quarantine", "confirm"}
                      /\ a[i].kind \in ChainKinds =>
                           /\ i <= 6 /\ a[i].kind = Chain[i]
                           /\ \A j \in 1 .. (i - 1) : a[j].kind = Chain[j]
    OBVIOUS
  <2>1. CASE i = n
    BY <1>2, <1>4, <1>6, <2>1, Zenon DEF ChainKinds
  <2>2. CASE i # n
    BY <1>6, <2>2 DEF OrderlyLog
  <2> QED
    BY <2>1, <2>2, Zenon
<1>9. OrderlyLog(a)
  BY <1>7, <1>8, Zenon DEF OrderlyLog, Confirms
<1> QED
  BY <1>4, <1>7, <1>9, Zenon DEF a

\* The journal of an orderly transaction stays orderly, and a confirmation in it
\* stands for a publication that is there.
LEMMA OrderedStep ==
  ASSUME IInv, Next PROVE Ordered'
<1> USE DEF IInv
<1>1. ASSUME NEW r \in Record, AppendRecord(r) PROVE Ordered'
  <2>1. /\ log \in Seq(Record) /\ log' = Append(log, r) /\ apply = "records"
        /\ stray' = stray \/ (~stray /\ stray')
        /\ ~stray' => ~stray /\ r \in Orderly
        /\ lost' = lost /\ pub' = pub /\ expected' = expected
    BY <1>1, Zenon DEF AppendRecord, files, Typed
  <2>2. CASE ~stray
    <3>1. OrderlyLog(log) /\ Confirms(log) = {}
      BY <2>1, <2>2, Zenon DEF Ordered
    <3>2. OneStray'
      BY <2>1, <3>1 DEF OneStray, OrderlyLog
    <3>3. ~stray' => OrderlyLog(log') /\ Confirms(log') = {}
      BY <2>1, <3>1, OrderlyAppend, Zenon
    <3> QED
      BY <3>2, <3>3, Zenon DEF Ordered
  <2>3. CASE stray
    <3>1. r \in Orderly /\ stray'
      BY <1>1, <2>3, Zenon DEF AppendRecord
    <3>2. r.tx = 1
      BY <3>1 DEF Orderly, Of
    <3>3. OneStray'
      BY <2>1, <3>2 DEF OneStray, Ordered
    <3> QED
      BY <3>1, <3>3, Zenon DEF Ordered
  <2> QED
    BY <2>2, <2>3, Zenon DEF Typed
<1>2. CASE AppendTorn \/ ApplyExits \/ Publish \/ Kill \/ Remount
  <2>1. UNCHANGED <<log, stray, lost, pub, expected>> /\ (apply' = "records" => apply = "records")
    BY <1>2, Zenon DEF AppendTorn, ApplyExits, Publish, Kill, Remount, files, histories
  <2> QED
    BY <2>1, Zenon DEF Ordered, OneStray, Mistaken
<1>3. CASE ApplyStep
  <2>1. /\ UNCHANGED <<log, stray, lost, expected>> /\ (apply' = "records" => apply = "records")
        /\ pub # "none" => pub' = pub
    BY <1>3, Zenon DEF ApplyStep, StageCreate, StageWrite, StageClone, StageSync, PublishRename,
                PublishDirSync, Applying, histories
  <2>2. pub = "full" \/ Mistaken => pub' = "full" \/ Mistaken'
    BY <2>1, Zenon DEF Mistaken
  <2> QED
    BY <2>1, <2>2, Zenon DEF Ordered, OneStray
<1>4. ASSUME NEW policy \in Policies, RecoverCall(policy) PROVE Ordered'
  BY <1>4, Zenon DEF RecoverCall, files, histories, Ordered, OneStray, Mistaken
<1>5. CASE CleanupStaging \/ QuarantineStaging \/ SyncStaging \/ AppendConfirmation \/ RecoverReturn
  <2>1. UNCHANGED <<log, stray, lost, pub, apply, expected>>
    BY <1>5, Zenon DEF CleanupStaging, QuarantineStaging, SyncStaging, AppendConfirmation,
                RecoverReturn, Recovering, files
  <2> QED
    BY <2>1, Zenon DEF Ordered, OneStray, Mistaken
<1>6. CASE RecordConfirmation
  <2> DEFINE n == Len(log) + 1
  <2>1. /\ log \in Seq(Record) /\ UNCHANGED <<stray, lost, pub, apply, expected>>
        /\ pub = "full" \/ Mistaken
        /\ log' = Append(log, Of("confirm")) /\ Gone /\ Flags.confirmations = 0
    BY <1>6, RecordedOnce, Zenon DEF RecordConfirmation, files, histories
  <2>2. Of("confirm").tx = 1 /\ Of("confirm").kind = "confirm"
    BY Zenon DEF Of
  <2>3. /\ DOMAIN log' = 1 .. n /\ DOMAIN log = 1 .. (n - 1) /\ n \in Nat \ {0}
        /\ log'[n].tx = 1 /\ log'[n].kind = "confirm"
        /\ \A i \in 1 .. (n - 1) : log'[i] = log[i]
    BY <2>1, <2>2
  <2> HIDE DEF n
  <2>4. OneStray'
    BY <2>3 DEF OneStray, Ordered
  <2>5. ASSUME ~stray PROVE OrderlyLog(log')
    <3>1. OrderlyLog(log)
      BY <2>5, Zenon DEF Ordered
    <3>2. Confirms(log) = {}
      <4>1. Count(Confirms(log)) = 0
        BY <2>1, <3>1, OrderlyScan, Zenon DEF Flags
      <4> QED
        BY <4>1 DEF Count
    <3>3. \A i, j \in DOMAIN log' : log'[i].kind = "confirm" /\ log'[j].kind = "confirm" => i = j
      BY <2>3, <3>2 DEF Confirms
    <3>4. \A i \in DOMAIN log' :
            /\ log'[i].tx = 1
            /\ log'[i].kind \in ChainKinds \cup {"cancel", "quarantine", "confirm"}
            /\ log'[i].kind \in ChainKinds =>
                 /\ i <= 6 /\ log'[i].kind = Chain[i]
                 /\ \A j \in 1 .. (i - 1) : log'[j].kind = Chain[j]
      BY <2>3, <3>1 DEF OrderlyLog, ChainKinds
    <3> QED
      BY <3>3, <3>4, Zenon DEF OrderlyLog
  <2> QED
    BY <2>1, <2>4, <2>5, Zenon DEF Ordered, Gone, Mistaken
<1>7. CASE PowerLoss
  <2>1. UNCHANGED <<log, stray, expected>> /\ apply' = "dead"
    BY <1>7, Zenon DEF PowerLoss
  <2>2. ASSUME ~stray, Confirms(log) # {}, ~lost' PROVE pub' = "full" \/ Mistaken'
    <3>1. "confirm" \in scanPrefix(log).seen
      BY <2>2, OrderlyScan, Zenon DEF Ordered, Typed
    <3>2. ~lost
      BY <1>7, <2>2, Zenon DEF PowerLoss, Typed
    <3>3. CASE pub = "full" /\ pubDisk \in {"none", "full"}
      <4>1. pub' \in {"none", "full"}
        BY <1>7, <3>3, Zenon DEF PowerLoss, Survives
      <4> QED
        BY <1>7, <2>2, <3>1, <3>3, <4>1, Zenon DEF PowerLoss
    <3>4. CASE Mistaken /\ pubDisk = "old"
      <4>1. Survives("old", "old") = {"old"}
        BY DEF Survives
      <4>2. pub' \in Survives("old", "old")
        BY <1>7, <3>4, Zenon DEF PowerLoss, Mistaken
      <4> QED
        BY <2>1, <3>4, <4>1, <4>2, Zenon DEF Mistaken
    <3> QED
      BY <2>2, <3>2, <3>3, <3>4, Zenon DEF Ordered, Whole, Mistaken
  <2> QED
    BY <2>1, <2>2, Zenon DEF Ordered, OneStray
<1> QED
  BY <1>1, <1>2, <1>3, <1>4, <1>5, <1>6, <1>7, Zenon DEF Next, RecoverStep

\* A side effect goes on resting on its verdict.
LEMMA UnderwayStep ==
  ASSUME IInv, Next PROVE Underway'
<1> USE DEF IInv
<1>1. CASE rec'.at = "idle"
  BY <1>1, Zenon DEF Underway
<1>2. ASSUME NEW policy \in Policies, RecoverCall(policy), rec'.at # "idle" PROVE Underway'
  <2> DEFINE v == Recover(Flags, Observation, policy)
  <2>1. /\ v.effect \in {"cleanup", "quarantine", "confirm"} /\ last' = "none"
        /\ rec' = [at |-> First[v.effect], state |-> v.state, effect |-> v.effect]
    BY <1>2, RecoverMeans, Zenon DEF RecoverCall, Flags
  <2>2. /\ Sane /\ Flags.confirmations # 1
        /\ v.effect = "confirm" => v.state = "CONFIRMED" /\ Published
        /\ v.effect # "confirm" =>
             /\ ~Published
             /\ v.state = IF "cancel" \in Flags.seen /\ ~Begun THEN "CANCELLED" ELSE "QUARANTINED"
    BY <2>1, RecoverMeans, Zenon
  <2> HIDE DEF v
  <2>3. Flags.confirmations = 0
    <3>1. Flags.confirmations \in 0 .. 2
      BY ConfirmationsNat, Zenon DEF Flags
    <3> QED
      BY <2>2, <3>1 DEF Sane
  <2>4. UNCHANGED <<log, pub, expected, here>>
    BY <1>2, Zenon DEF RecoverCall, files
  <2>5. Flags' = Flags /\ Sane' = Sane /\ Published' = Published /\ Begun' = Begun
    BY <2>4, Zenon DEF Sane, Published, Begun, Flags
  <2> QED
    BY <2>1, <2>2, <2>3, <2>5 DEF Underway, First
<1>3. CASE RecoverStep /\ rec'.at # "idle"
  <2>1. rec.at # "idle" /\ UNCHANGED <<log, pub, expected, here, last>>
    BY <1>3 DEF RecoverStep, CleanupStaging, QuarantineStaging, SyncStaging, disk,
                AppendConfirmation, RecoverReturn, RecordConfirmation, Recovering, files,
                NotRecovering
  <2>2. Flags' = Flags /\ Sane' = Sane /\ Published' = Published /\ Begun' = Begun
    BY <2>1, Zenon DEF Sane, Published, Begun, Flags
  <2>3. CASE CleanupStaging \/ QuarantineStaging \/ SyncStaging
    <3>1. /\ rec'.effect = rec.effect /\ rec'.state = rec.state
          /\ rec.effect \in {"cleanup", "quarantine"}
          /\ rec'.at \in {"sync", Second[rec.effect]} /\ stage' \in {"none", stage}
          /\ rec.at \in {First[rec.effect], "sync"}
          /\ rec.at # "sync" => ignored' \/ stage' = "none"
          /\ ignored => ignored'
      BY <2>3 DEF CleanupStaging, QuarantineStaging, SyncStaging, Recovering, First, Typed, Stages,
                  Smooth, Shrug
    <3>2. rec.at = "sync" => ignored \/ stage = "none"
      BY <2>1, <3>1 DEF Underway, First
    <3> QED
      BY <2>1, <2>2, <3>1, <3>2, Zenon DEF Underway
  <2>4. CASE AppendConfirmation \/ RecoverReturn
    <3>1. /\ rec'.effect = "confirm" /\ rec.effect = "confirm" /\ rec'.state = rec.state
          /\ rec'.at \in {"P-CONFIRM-POST", "record"}
      BY <1>3, <2>4 DEF AppendConfirmation, RecoverReturn, Recovering, NotRecovering, Typed, Stages
    <3> QED
      BY <2>1, <2>2, <3>1, Zenon DEF Underway
  <2>5. CASE RecordConfirmation
    BY <1>3, <2>5, Zenon DEF RecordConfirmation, NotRecovering
  <2> QED
    BY <1>3, <2>3, <2>4, <2>5, Zenon DEF RecoverStep
<1>4. ASSUME NEW r \in Record, AppendRecord(r) PROVE rec'.at = "idle"
  BY <1>4, Zenon DEF AppendRecord, Alone, Gone
<1>5. CASE AppendTorn \/ ApplyExits \/ Publish \/ Kill \/ PowerLoss \/ Remount
  <2>1. rec'.at = "idle"
    BY <1>5 DEF AppendTorn, ApplyExits, Publish, Kill, PowerLoss, Remount, NotRecovering, Alone, Gone
  <2> QED
    BY <1>1, <2>1, ZenonT(60)
<1>6. CASE ApplyStep
  <2>1. ~Gone /\ rec' = rec
    BY <1>6, Zenon DEF ApplyStep, StageCreate, StageWrite, StageClone, StageSync, PublishRename,
                PublishDirSync, Applying, Gone
  <2> QED
    BY <1>1, <2>1, Zenon DEF Alone
<1> QED
  BY <1>1, <1>2, <1>3, <1>4, <1>5, <1>6, Zenon DEF Next

\* Staging is free, on the disk too, when the last checkpoint of a cleanup is reached.
LEMMA StagingStep ==
  ASSUME IInv, Next PROVE StagingIsFree'
<1> USE DEF IInv
<1>1. CASE SyncStaging
  <2>1. /\ rec.effect \in {"cleanup", "quarantine"} /\ rec.at = "sync"
        /\ stage' = stage
        /\ (stageDisk' = stage /\ ignored' = ignored) \/ ignored' = TRUE
    BY <1>1, Zenon DEF SyncStaging, Recovering, Smooth, Shrug
  <2>2. ignored = TRUE \/ stage = "none"
    BY <2>1 DEF Underway, First, Typed
  <2>3. ignored' = TRUE \/ (stage' = "none" /\ stageDisk' = "none")
    BY <2>1, <2>2, Zenon
  <2> QED
    BY <2>3, Zenon DEF StagingIsFree
<1>2. CASE CleanupStaging \/ QuarantineStaging \/ AppendConfirmation \/ RecoverReturn \/ RecordConfirmation
  <2>1. rec'.at \in {"sync", "P-CONFIRM-POST", "record", "idle"}
    BY <1>2 DEF CleanupStaging, QuarantineStaging, AppendConfirmation, RecoverReturn,
                RecordConfirmation, NotRecovering, Typed, Stages
  <2> QED
    BY <2>1, Zenon DEF StagingIsFree
<1>3. ASSUME NEW policy \in Policies, RecoverCall(policy) PROVE StagingIsFree'
  <2> DEFINE v == Recover(Flags, Observation, policy)
  <2>1. CASE v.effect = "none"
    BY <1>3, <2>1, Zenon DEF RecoverCall, StagingIsFree, Flags
  <2>2. CASE v.effect # "none"
    <3>1. v.effect \in {"cleanup", "quarantine", "confirm"}
      BY <2>2, RecoverMeans, Zenon
    <3>2. rec'.at = First[v.effect]
      BY <1>3, <2>2 DEF RecoverCall, Flags
    <3> HIDE DEF v
    <3> QED
      BY <3>1, <3>2 DEF StagingIsFree, First
  <2> QED
    BY <2>1, <2>2, Zenon
<1>4. ASSUME NEW r \in Record, AppendRecord(r) PROVE rec'.at = "idle"
  BY <1>4, Zenon DEF AppendRecord, Alone, Gone
<1>5. CASE AppendTorn \/ ApplyExits \/ Publish
  <2>1. rec' = rec /\ (apply = "records" \/ rec.at = "idle")
    BY <1>5, Zenon DEF AppendTorn, ApplyExits, Publish
  <2> QED
    BY <2>1, Zenon DEF Alone, Gone, StagingIsFree
<1>7. CASE Kill \/ PowerLoss \/ Remount
  <2>1. rec' = NotRecovering \/ (rec' = rec /\ rec.at = "idle")
    BY <1>7, Zenon DEF Kill, PowerLoss, Remount
  <2> QED
    BY <2>1 DEF NotRecovering, StagingIsFree
<1>6. CASE ApplyStep
  <2>1. ~Gone /\ rec' = rec
    BY <1>6, Zenon DEF ApplyStep, StageCreate, StageWrite, StageClone, StageSync, PublishRename,
                PublishDirSync, Applying, Gone
  <2> QED
    BY <2>1, Zenon DEF Alone, StagingIsFree
<1> QED
  BY <1>1, <1>2, <1>3, <1>4, <1>5, <1>6, <1>7, Zenon DEF Next, RecoverStep, StagingIsFree

\* A confirmation under way finds none in the journal.
LEMMA UnderwayFirst ==
  ASSUME IInv, ~stray, rec.at # "idle" PROVE Confirms(log) = {}
<1>1. Flags.confirmations = 0 /\ OrderlyLog(log) /\ log \in Seq(Record)
  BY Zenon DEF IInv, Underway, Ordered, Typed
<1>2. Count(Confirms(log)) = 0
  BY <1>1, OrderlyScan, Zenon DEF Flags
<1> QED
  BY <1>2 DEF Count

\* Every mark goes on having its confirmation, in the journal, under way or interrupted.
LEMMA CountedStep ==
  ASSUME IInv, Next PROVE Counted'
<1> USE DEF IInv
<1>1. ASSUME NEW r \in Record, AppendRecord(r) PROVE Counted'
  <2>1. /\ UNCHANGED <<marks, cut, rec>> /\ apply = "records" /\ log' = Append(log, r)
        /\ ~stray' => ~stray /\ r \in Orderly
    BY <1>1, Zenon DEF AppendRecord, files, Typed
  <2>2. rec.at = "idle" /\ (~stray => OrderlyLog(log) /\ Confirms(log) = {}) /\ log \in Seq(Record)
    BY <2>1, Zenon DEF Alone, Gone, Ordered, Typed
  <2>3. ~Marked /\ ~Marked'
    BY <2>1, <2>2, Zenon DEF Marked
  <2>4. ~stray' => Confirms(log') = {}
    BY <2>1, <2>2, OrderlyAppend, Zenon
  <2> QED
    BY <2>1, <2>2, <2>3, <2>4, Zenon DEF Counted
<1>2. CASE AppendTorn \/ ApplyExits \/ Publish \/ Remount
  <2>1. UNCHANGED <<log, stray, marks, cut, rec>>
    BY <1>2, Zenon DEF AppendTorn, ApplyExits, Publish, Remount, files, histories
  <2> QED
    BY <2>1, Zenon DEF Counted, Marked
<1>3. CASE ApplyStep
  <2>1. UNCHANGED <<log, stray, marks, cut, rec>>
    BY <1>3, Zenon DEF ApplyStep, StageCreate, StageWrite, StageClone, StageSync, PublishRename,
                PublishDirSync, Applying, histories
  <2> QED
    BY <2>1, Zenon DEF Counted, Marked
<1>4. ASSUME NEW policy \in Policies, RecoverCall(policy) PROVE Counted'
  <2> DEFINE v == Recover(Flags, Observation, policy)
  <2>1. UNCHANGED <<log, stray, marks, cut>> /\ rec.at = "idle"
    BY <1>4, Zenon DEF RecoverCall, files, histories
  <2>2. ~Marked
    BY <2>1, Zenon DEF Marked
  <2>3. ~Marked'
    <3>1. CASE v.effect = "none"
      BY <1>4, <2>1, <3>1, Zenon DEF RecoverCall, Flags, Marked
    <3>2. CASE v.effect # "none"
      <4>1. v.effect \in {"cleanup", "quarantine", "confirm"}
        BY <3>2, RecoverMeans, Zenon
      <4>2. rec'.at = First[v.effect]
        BY <1>4, <3>2 DEF RecoverCall, Flags
      <4> HIDE DEF v
      <4> QED
        BY <4>1, <4>2 DEF Marked, First
    <3> QED
      BY <3>1, <3>2, Zenon
  <2> QED
    BY <2>1, <2>2, <2>3, Zenon DEF Counted
<1>5. CASE CleanupStaging \/ QuarantineStaging \/ SyncStaging
  <2>1. UNCHANGED <<log, stray, marks, cut>> /\ rec.effect \in {"cleanup", "quarantine"}
    BY <1>5, Zenon DEF CleanupStaging, QuarantineStaging, SyncStaging, Recovering
  <2>2. rec'.effect = rec.effect
    BY <1>5 DEF CleanupStaging, QuarantineStaging, SyncStaging, Typed, Stages
  <2> QED
    BY <2>1, <2>2, Zenon DEF Counted, Marked
<1>6. CASE AppendConfirmation
  <2>1. /\ UNCHANGED <<log, stray, cut>> /\ marks' = marks + 1
        /\ rec.effect = "confirm" /\ rec.at = "P-CONFIRM-PRE"
    BY <1>6, Zenon DEF AppendConfirmation, Recovering
  <2>2. ~Marked /\ Marked'
    BY <1>6, <2>1 DEF AppendConfirmation, Marked, Typed, Stages
  <2>3. ~stray => Confirms(log) = {}
    BY <2>1, UnderwayFirst, Zenon
  <2> QED
    BY <2>1, <2>2, <2>3 DEF Counted, Typed
<1>7. CASE RecoverReturn
  <2>1. UNCHANGED <<log, stray, marks, cut>> /\ rec.at = Second[rec.effect]
    BY <1>7, Zenon DEF RecoverReturn, Recovering, files
  <2>2. CASE rec.effect = "confirm"
    <3>1. Marked /\ Marked'
      BY <1>7, <2>1, <2>2 DEF RecoverReturn, Second, Marked, Typed, Stages
    <3> QED
      BY <2>1, <3>1, Zenon DEF Counted
  <2>3. CASE rec.effect # "confirm"
    <3>1. ~Marked /\ ~Marked'
      BY <1>7, <2>3 DEF RecoverReturn, Marked, NotRecovering
    <3> QED
      BY <2>1, <3>1, Zenon DEF Counted
  <2> QED
    BY <2>2, <2>3, Zenon
<1>8. CASE RecordConfirmation
  <2>1. /\ UNCHANGED <<stray, marks, cut>> /\ log' = Append(log, Of("confirm"))
        /\ log \in Seq(Record) /\ Marked
    BY <1>8, RecordedOnce, Zenon DEF RecordConfirmation, files, histories
  <2>2. Confirms(log') # {}
    <3>1. Of("confirm").kind = "confirm" /\ Of("confirm") \in Record
      BY Kinds, Zenon DEF Of, Record
    <3>2. Len(log) + 1 \in DOMAIN log' /\ log'[Len(log) + 1] = Of("confirm")
      BY <2>1, <3>1
    <3> QED
      BY <3>1, <3>2, Zenon DEF Confirms
  <2> QED
    BY <2>1, <2>2, Zenon DEF Counted
<1>9. CASE Kill \/ PowerLoss
  <2>1. UNCHANGED <<log, stray, marks>> /\ Interrupted /\ rec' = NotRecovering
    BY <1>9, Zenon DEF Kill, PowerLoss, files
  <2>2. ~Marked'
    BY <2>1, Zenon DEF Marked, NotRecovering
  <2>3. CASE Marked
    <3>1. rec.at # "idle" /\ cut' = cut + 1
      BY <2>1, <2>3, Zenon DEF Marked, Interrupted
    <3>2. ~stray => Confirms(log) = {}
      BY <3>1, UnderwayFirst, Zenon
    <3> QED
      BY <2>1, <2>2, <2>3, <3>1, <3>2 DEF Counted, Typed
  <2>4. CASE ~Marked
    BY <2>1, <2>2, <2>4, Zenon DEF Counted, Interrupted
  <2> QED
    BY <2>3, <2>4, Zenon
<1> QED
  BY <1>1, <1>2, <1>3, <1>4, <1>5, <1>6, <1>7, <1>8, <1>9, Zenon DEF Next, RecoverStep

-----------------------------------------------------------------------------
(***************************************************************************)
(* The theorems.                                                           *)
(***************************************************************************)
\* The inductive invariant holds in every state, for journals and crash counts of
\* any bound.
THEOREM Recovered == Spec => []IInv
<1>1. IInv /\ [Next]_vars => IInv'
  <2> SUFFICES ASSUME IInv, [Next]_vars PROVE IInv'
    OBVIOUS
  <2>1. CASE Next
    BY <2>1, TypedStep, AloneStep, WholeStep, EvidenceStep, OrderedStep, UnderwayStep,
       VerdictStep, StagingStep, CountedStep, Zenon DEF IInv
  <2>2. CASE UNCHANGED vars
    <3> USE <2>2 DEF vars, files, histories, IInv
    <3>1. Typed' /\ Alone' /\ Whole'
      BY DEF Typed, Alone, Gone, Whole
    <3>2. Flags' = Flags /\ Sane' = Sane /\ Published' = Published /\ Begun' = Begun
      BY Zenon DEF Flags, Sane, Published, Begun
    <3>3. Evidence' /\ Ordered'
      BY <3>2, Zenon DEF Evidence, Ordered, OneStray, Mistaken
    <3>4. Underway'
      BY <3>2, Zenon DEF Underway
    <3>5. Settled'
      BY <3>2, Zenon DEF Settled, Outcome
    <3>6. NoInventedPublication' /\ CrashesAreRecoverable' /\ StagingIsFree'
      BY Zenon DEF NoInventedPublication, CrashesAreRecoverable, StagingIsFree, Mistaken
    <3>7. Counted'
      BY Zenon DEF Counted, Marked
    <3> QED
      BY <3>1, <3>3, <3>4, <3>5, <3>6, <3>7, Zenon
  <2> QED
    BY <2>1, <2>2, Zenon
<1> QED
  BY <1>1, InitInv, PTL DEF Spec

\* What Recover reports and confirms is there, whole, and prepared by the records
\* of its only transaction, unless the publisher has no ExpectedContent and an
\* object of an earlier transaction is published; the journal holds one
\* confirmation, and confirm.log one mark more than the confirmations that were
\* interrupted after theirs (recover.go, filepublish.go, filepersist.go).
THEOREM Truthful == Spec => []RecoveryIsTruthful
<1>1. IInv => RecoveryIsTruthful
  <2> SUFFICES ASSUME IInv PROVE RecoveryIsTruthful
    OBVIOUS
  <2>1. TypeOK
    BY Zenon DEF IInv, Typed, TypeOK, Stages
  <2>2. PublishedIsWhole
    BY Zenon DEF IInv, Whole, PublishedIsWhole
  <2>3. ConfirmationUnique
    <3>1. Confirms(log) # {} <=> \E i \in DOMAIN log : log[i].kind = "confirm"
      BY Zenon DEF Confirms
    <3> QED
      BY <3>1, Zenon DEF IInv, Ordered, OrderlyLog, Counted, ConfirmationUnique
  <2> QED
    BY <2>1, <2>2, <2>3, Zenon DEF IInv, RecoveryIsTruthful
<1> QED
  BY <1>1, Recovered, PTL

\* A verdict is what the next Recover returns.  Crashes alone make nothing
\* irrecoverable, but for a power loss that takes a publication Recover confirmed
\* without synchronising its directory, and an earlier object that is mistaken
\* for a publication.  A cleanup leaves staging/ free on the disk unless it
\* ignored an error.
THEOREM Repeatable == Spec => []RecoveryIsRepeatable
<1>1. IInv => RecoveryIsRepeatable
  BY SettledAgain, Zenon DEF IInv, RecoveryIsRepeatable
<1> QED
  BY <1>1, Recovered, PTL
=============================================================================
