------------------------- MODULE EngineeringProofs --------------------------
(***************************************************************************)
(* Proofs about three independent components: the budget and the admission *)
(* of slices (Resource), for every word size and every set of limits; the  *)
(* shared event sink (EventSink), for any set of emitters, any queue bound *)
(* and any number of events; and the quarantine move with the percentage   *)
(* gate (Quarantine), for any movers, objects, names and power losses.     *)
(***************************************************************************)
EXTENDS Resource, EventSink, Quarantine, FiniteSetTheorems, TLAPS

-----------------------------------------------------------------------------
(***************************************************************************)
(* The budget and the admission of slices (module Resource).               *)
(***************************************************************************)
Dims == {"bytes", "count"}

(* BudgetIsExact with the types: inductive as it stands. *)
BudgetInv == BudgetTypeOK /\ BudgetIsExact

(* Where AddOverflows sees no overflow the word sum is the exact sum. *)
LEMMA AddIsExact ==
  ASSUME NEW a \in Word, NEW b \in Word, ~ AddOverflows(a, b)
  PROVE  AddUint64(a, b) = a + b /\ a + b \in Word
<1>1. a + b \in 0..MaxWord
  BY WordAssumption DEF Word, AddOverflows
<1> QED
  BY <1>1, WordAssumption DEF AddUint64, Wrap, Word

(* An admitted amount is within its limit. *)
LEMMA AdmitBounds ==
  ASSUME NEW limit \in Word, NEW n \in Word, Admit(limit, n)
  PROVE  n <= limit
BY Zenon DEF Admit

(* Budget.ConsumeBytes and ConsumeCount: whatever is asked for and in whatever order, the *)
(* recorded use is the exact sum of what was admitted and stays within the limit, for     *)
(* every word size: no sequence of requests makes a counter wrap around.                  *)
THEOREM BudgetExact == BudgetSpec => []BudgetIsExact
<1>1. BudgetInit => BudgetInv
  <2> SUFFICES ASSUME BudgetInit
               PROVE  BudgetInv
    OBVIOUS
  <2>1. Ceilings \subseteq Word /\ 0 \in Word /\ Word \subseteq Nat
    BY WordAssumption DEF Word
  <2>2. limits \in [{"bytes", "count"} -> Word]
    BY <2>1, Zenon DEF BudgetInit
  <2>3. used = [d \in {"bytes", "count"} |-> 0] /\ asked = used
    BY Zenon DEF BudgetInit
  <2>4. BudgetTypeOK
    BY <2>1, <2>2, <2>3, Zenon DEF BudgetTypeOK
  <2>5. BudgetIsExact
    <3>1. \A d \in {"bytes", "count"} : limits[d] \in Nat
      BY <2>1, <2>2, Zenon
    <3>2. \A d \in {"bytes", "count"} : used[d] = 0 /\ asked[d] = 0
      BY <2>3, Zenon
    <3> QED
      BY <3>1, <3>2 DEF BudgetIsExact
  <2> QED
    BY <2>4, <2>5, Zenon DEF BudgetInv
<1>2. BudgetInv /\ [BudgetNext]_budgetVars => BudgetInv'
  <2> SUFFICES ASSUME BudgetInv, [BudgetNext]_budgetVars
               PROVE  BudgetInv'
    OBVIOUS
  <2>1. CASE BudgetNext
    <3>1. PICK d \in Dims, n \in Word : Consume(d, n)
      BY <2>1, Zenon DEF BudgetNext, Dims
    <3>2. used[d] \in Word /\ limits[d] \in Word
      BY Zenon DEF BudgetInv, BudgetTypeOK, Dims
    <3>3. AddUint64(used[d], n) = used[d] + n /\ used[d] + n \in Word
      BY <3>1, <3>2, AddIsExact, Zenon DEF Consume
    <3>4. used[d] + n <= limits[d]
      BY <3>1, <3>2, <3>3, AdmitBounds, Zenon DEF Consume
    <3>5. used' = [used EXCEPT ![d] = used[d] + n] /\ asked' = [asked EXCEPT ![d] = asked[d] + n]
          /\ limits' = limits
      BY <3>1, <3>3, Zenon DEF Consume
    <3>6. BudgetTypeOK'
      BY <3>3, <3>5 DEF BudgetInv, BudgetTypeOK, Word, Dims
    <3>7. BudgetIsExact'
      BY <3>4, <3>5, Zenon DEF BudgetInv, BudgetTypeOK, BudgetIsExact, Word, Dims
    <3> QED
      BY <3>6, <3>7, Zenon DEF BudgetInv
  <2>2. CASE UNCHANGED budgetVars
    BY <2>2, Zenon DEF BudgetInv, BudgetTypeOK, BudgetIsExact, budgetVars
  <2> QED
    BY <2>1, <2>2, Zenon
<1>3. BudgetInv => BudgetIsExact
  BY Zenon DEF BudgetInv
<1> QED
  BY <1>1, <1>2, <1>3, PTL DEF BudgetSpec

(* MulUint64: where the division finds no overflow the word product is the exact one. *)
LEMMA MulIsExact ==
  ASSUME NEW a \in Word, NEW b \in Word, ~ MulOverflows(a, b)
  PROVE  MulUint64(a, b) = a * b
<1>1. a \in Nat /\ b \in Nat /\ MaxWord \in Nat
  BY WordAssumption DEF Word
<1>2. CASE a = 0 \/ b = 0
  <2>1. a * b = 0
    BY <1>1, <1>2
  <2> QED
    BY <2>1, <1>1 DEF MulUint64, Wrap
<1>3. CASE a # 0 /\ b # 0
  <2> DEFINE q == MaxWord \div b
  <2>1. a <= q
    BY <1>1, <1>3 DEF MulOverflows
  <2>2. q \in Nat /\ b * q <= MaxWord
    BY <1>1, <1>3
  <2>3. a * b <= b * q
    BY <1>1, <2>1, <2>2
  <2>4. a * b \in Nat /\ a * b <= MaxWord
    BY <1>1, <2>2, <2>3
  <2> HIDE DEF q
  <2> QED
    BY <1>1, <2>4 DEF MulUint64, Wrap
<1> QED
  BY <1>2, <1>3, Zenon

(* AdmitSliceCap: a slice it lets through fits in MaxBytes by the product of its true *)
(* sizes, whatever the limits are; the product of words is never smaller by a wrap.   *)
THEOREM SliceAdmission ==
  ASSUME BudgetTypeOK
  PROVE  AdmittedSliceFits
<1> SUFFICES ASSUME NEW n \in Word, NEW size \in Word, AdmitSliceCap(limits, n, size)
             PROVE  n * size <= limits.bytes
  BY Zenon DEF AdmittedSliceFits
<1>1. MulUint64(n, size) = n * size
  BY MulIsExact, Zenon DEF AdmitSliceCap
<1>2. Admit(limits.bytes, n * size)
  BY <1>1, Zenon DEF AdmitSliceCap
<1> QED
  BY <1>2, Zenon DEF Admit

-----------------------------------------------------------------------------
(***************************************************************************)
(* The shared event sink (module EventSink).                               *)
(***************************************************************************)
EventSet == [seq : Nat, by : Emitters]

SinkTypes ==
  /\ seq \in Nat /\ dropped \in Nat /\ maxQueue \in Nat
  /\ numbers \in [Emitters -> Nat]
  /\ events \in Seq(EventSet)

Stored == {events[i].seq : i \in DOMAIN events}
InHand == {numbers[g] : g \in Emitters} \ {0}
Busy == {g \in Emitters : numbers[g] # 0}

(* The counter is ahead of every number it gave, a number has one owner,   *)
(* and an emitter's number in hand is newer than all it has stored.        *)
SinkOrder ==
  /\ \A g \in Emitters : numbers[g] <= seq
  /\ \A i \in DOMAIN events : events[i].seq <= seq /\ events[i].seq # 0
  /\ \A g, h \in Emitters : numbers[g] # 0 /\ numbers[g] = numbers[h] => g = h
  /\ \A g \in Emitters, i \in DOMAIN events : numbers[g] # events[i].seq
  /\ \A g \in Emitters, i \in DOMAIN events :
        numbers[g] # 0 /\ events[i].by = g => events[i].seq < numbers[g]
  /\ EmitterOrder

SinkInv == SinkTypes /\ SinkOrder

(* The sets behind NumbersAccounted, with the finiteness counting needs. *)
SinkCount ==
  /\ IsFiniteSet(Stored) /\ Cardinality(Stored) = Len(events)
  /\ IsFiniteSet(InHand) /\ IsFiniteSet(Busy)
  /\ Cardinality(InHand) = Cardinality(Busy)
  /\ seq = Len(events) + Cardinality(InHand) + dropped
  /\ Len(events) <= maxQueue

(* The fields of a stored event. *)
LEMMA EventFields ==
  ASSUME NEW i \in DOMAIN events, SinkTypes
  PROVE  events[i].seq \in Nat /\ events[i].by \in Emitters
<1>1. events[i] \in EventSet
  BY DEF SinkTypes
<1> QED
  BY <1>1, Zenon DEF EventSet

(* The empty sink. *)
LEMMA SinkInvInit ==
  ASSUME QueueSizes \subseteq Nat, SinkInit
  PROVE  SinkInv
<1>1. maxQueue \in Nat /\ seq = 0 /\ dropped = 0 /\ events = <<>>
      /\ numbers = [g \in Emitters |-> 0]
  BY Zenon DEF SinkInit
<1>2. SinkTypes
  BY <1>1 DEF SinkTypes
<1>3. SinkOrder
  BY <1>1 DEF SinkOrder, EmitterOrder
<1> QED
  BY <1>2, <1>3, Zenon DEF SinkInv

(* What EmitNumber does, in one line. *)
LEMMA NumberStep ==
  ASSUME NEW g \in Emitters, SinkTypes, EmitNumber(g)
  PROVE  /\ numbers[g] = 0 /\ seq' = seq + 1 /\ numbers' = [numbers EXCEPT ![g] = seq + 1]
         /\ events' = events /\ dropped' = dropped /\ maxQueue' = maxQueue
BY Zenon DEF EmitNumber

(* A number just given is larger than every number given before. *)
LEMMA NumberKeepsInv ==
  ASSUME NEW g \in Emitters, SinkInv, EmitNumber(g)
  PROVE  SinkInv'
<1>1. /\ numbers[g] = 0 /\ seq' = seq + 1 /\ numbers' = [numbers EXCEPT ![g] = seq + 1]
      /\ events' = events /\ dropped' = dropped /\ maxQueue' = maxQueue
  BY NumberStep, Zenon DEF SinkInv
<1>2. SinkTypes'
  BY <1>1 DEF SinkInv, SinkTypes
<1>3. \A i \in DOMAIN events : events[i].seq \in Nat
  BY EventFields, Zenon DEF SinkInv
<1>4. \A h \in Emitters : numbers[h] \in Nat /\ numbers'[h] = IF h = g THEN seq + 1 ELSE numbers[h]
  BY <1>1, Zenon DEF SinkInv, SinkTypes
<1>5. SinkOrder'
  BY <1>1, <1>3, <1>4 DEF SinkInv, SinkTypes, SinkOrder, EmitterOrder
<1> QED
  BY <1>2, <1>5, Zenon DEF SinkInv

(* A stored number was in one hand only, and newer than all its emitter stored. *)
LEMMA StoreKeepsInv ==
  ASSUME NEW g \in Emitters, SinkInv, EmitStore(g)
  PROVE  SinkInv'
<1>1. /\ numbers[g] # 0 /\ seq' = seq /\ maxQueue' = maxQueue
      /\ numbers' = [numbers EXCEPT ![g] = 0]
  BY Zenon DEF EmitStore
<1>2. \A h \in Emitters : numbers[h] \in Nat /\ numbers'[h] = IF h = g THEN 0 ELSE numbers[h]
  BY <1>1, Zenon DEF SinkInv, SinkTypes
<1>3. \A i \in DOMAIN events : events[i].seq \in Nat
  BY EventFields, Zenon DEF SinkInv
<1>4. CASE AdmitQueue(Len(events) + 1)
  <2> DEFINE e == [seq |-> numbers[g], by |-> g]
  <2>1. events' = Append(events, e) /\ dropped' = dropped
    BY <1>4, Zenon DEF EmitStore
  <2>2. e \in EventSet /\ e.seq = numbers[g] /\ e.by = g
    BY <1>2, Zenon DEF EventSet
  <2>3. SinkTypes'
    BY <1>1, <2>1, <2>2 DEF SinkInv, SinkTypes
  <2> HIDE DEF e
  <2>4. DOMAIN events' = 1..(Len(events) + 1) /\ DOMAIN events = 1..Len(events)
        /\ Len(events) \in Nat
    BY <2>1, <2>2 DEF SinkInv, SinkTypes
  <2>5. \A i \in DOMAIN events : events'[i] = events[i]
    BY <2>1, <2>2, <2>4 DEF SinkInv, SinkTypes
  <2>6. events'[Len(events) + 1] = e
    BY <2>1, <2>2 DEF SinkInv, SinkTypes
  <2>7. \A i \in DOMAIN events' :
           \/ i \in DOMAIN events /\ events'[i] = events[i]
           \/ i = Len(events) + 1 /\ events'[i] = e
    BY <2>4, <2>5, <2>6
  <2>8. \A i \in DOMAIN events' : events'[i].seq <= seq /\ events'[i].seq # 0
    BY <1>1, <1>2, <2>2, <2>7, ZenonT(60) DEF SinkInv, SinkTypes, SinkOrder
  <2>9. \A h \in Emitters, i \in DOMAIN events' : numbers'[h] # events'[i].seq
    <3> SUFFICES ASSUME NEW h \in Emitters, NEW i \in DOMAIN events'
                 PROVE  numbers'[h] # events'[i].seq
      OBVIOUS
    <3>1. CASE h = g
      BY <1>2, <2>8, <3>1, Zenon
    <3>2. CASE h # g /\ i \in DOMAIN events
      BY <1>2, <2>5, <3>2, ZenonT(60) DEF SinkInv, SinkOrder
    <3>3. CASE h # g /\ i = Len(events) + 1
      BY <1>1, <1>2, <2>2, <2>6, <3>3 DEF SinkInv, SinkOrder
    <3> QED
      BY <2>7, <3>1, <3>2, <3>3, Zenon
  <2>10. \A h \in Emitters, i \in DOMAIN events' :
            numbers'[h] # 0 /\ events'[i].by = h => events'[i].seq < numbers'[h]
    BY <1>1, <1>2, <2>2, <2>7, ZenonT(60) DEF SinkInv, SinkTypes, SinkOrder
  <2>11. \A i, j \in DOMAIN events' :
            i < j /\ events'[i].by = events'[j].by => events'[i].seq < events'[j].seq
    <3> SUFFICES ASSUME NEW i \in DOMAIN events', NEW j \in DOMAIN events', i < j,
                        events'[i].by = events'[j].by
                 PROVE  events'[i].seq < events'[j].seq
      OBVIOUS
    <3>1. i \in DOMAIN events /\ events'[i] = events[i]
      BY <2>4, <2>7
    <3>2. CASE j \in DOMAIN events
      BY <3>1, <3>2, <2>5, Zenon DEF SinkInv, SinkOrder, EmitterOrder
    <3>3. CASE j = Len(events) + 1
      BY <3>1, <3>3, <2>2, <2>6, <1>1, ZenonT(60) DEF SinkInv, SinkOrder
    <3> QED
      BY <3>2, <3>3, <2>7, Zenon
  <2>12. SinkOrder'
    BY <1>1, <1>2, <2>8, <2>9, <2>10, <2>11 DEF SinkInv, SinkTypes, SinkOrder, EmitterOrder
  <2> QED
    BY <2>3, <2>12, Zenon DEF SinkInv
<1>5. CASE ~ AdmitQueue(Len(events) + 1)
  <2>1. events' = events /\ dropped' = dropped + 1
    BY <1>5, Zenon DEF EmitStore
  <2>2. SinkTypes'
    BY <1>1, <2>1 DEF SinkInv, SinkTypes
  <2>3. SinkOrder'
    BY <1>1, <1>2, <1>3, <2>1 DEF SinkInv, SinkTypes, SinkOrder, EmitterOrder
  <2> QED
    BY <2>2, <2>3, Zenon DEF SinkInv
<1> QED
  BY <1>4, <1>5, Zenon

(* The order of the numbers is preserved by every step. *)
LEMMA SinkInvStep ==
  ASSUME SinkInv, [SinkNext]_sinkVars
  PROVE  SinkInv'
<1>1. CASE SinkNext
  BY <1>1, NumberKeepsInv, StoreKeepsInv, Zenon DEF SinkNext
<1>2. CASE UNCHANGED sinkVars
  BY <1>2, Zenon DEF SinkInv, SinkTypes, SinkOrder, EmitterOrder, sinkVars
<1> QED
  BY <1>1, <1>2, Zenon

(* MemSink.Emit: the counter and the buffer are two critical sections, so events of two   *)
(* goroutines may be stored against the order of their numbers; those of one never are.   *)
THEOREM EmitterOrderHolds ==
  ASSUME QueueSizes \subseteq Nat
  PROVE  SinkSpec => []EmitterOrder
<1>1. SinkInit => SinkInv
  BY SinkInvInit, Zenon
<1>2. SinkInv /\ [SinkNext]_sinkVars => SinkInv'
  BY SinkInvStep, Zenon
<1>3. SinkInv => EmitterOrder
  BY Zenon DEF SinkInv, SinkOrder
<1> QED
  BY <1>1, <1>2, <1>3, PTL DEF SinkSpec

(* The counts of the empty sink. *)
LEMMA SinkCountInit ==
  ASSUME QueueSizes \subseteq Nat, SinkInit
  PROVE  SinkCount
<1>1. maxQueue \in Nat /\ seq = 0 /\ dropped = 0 /\ events = <<>>
      /\ numbers = [g \in Emitters |-> 0]
  BY Zenon DEF SinkInit
<1>2. Stored = {} /\ InHand = {} /\ Busy = {} /\ Len(events) = 0
  BY <1>1 DEF Stored, InHand, Busy
<1> QED
  BY <1>1, <1>2, FS_EmptySet DEF SinkCount

(* A number taken is new: the hands hold one more, and so does the counter. *)
LEMMA NumberKeepsCount ==
  ASSUME NEW g \in Emitters, SinkInv, SinkCount, EmitNumber(g)
  PROVE  SinkCount'
<1>1. /\ numbers[g] = 0 /\ seq' = seq + 1 /\ numbers' = [numbers EXCEPT ![g] = seq + 1]
      /\ events' = events /\ dropped' = dropped /\ maxQueue' = maxQueue
  BY NumberStep, Zenon DEF SinkInv
<1>2. \A h \in Emitters : numbers'[h] = IF h = g THEN seq + 1 ELSE numbers[h]
  BY <1>1, Zenon DEF SinkInv, SinkTypes
<1>3. seq \in Nat /\ seq + 1 # 0
  BY DEF SinkInv, SinkTypes
<1>4. InHand' = InHand \cup {seq + 1}
  BY <1>1, <1>2, <1>3, Zenon DEF InHand
<1>5. seq + 1 \notin InHand
  <2>1. \A h \in Emitters : numbers[h] \in Nat /\ numbers[h] <= seq
    BY Zenon DEF SinkInv, SinkTypes, SinkOrder
  <2> QED
    BY <1>3, <2>1 DEF InHand
<1>6. Busy' = Busy \cup {g} /\ g \notin Busy
  BY <1>1, <1>2, <1>3, Zenon DEF Busy
<1>7. Stored' = Stored
  BY <1>1, Zenon DEF Stored
<1>8. /\ IsFiniteSet(InHand') /\ Cardinality(InHand') = Cardinality(InHand) + 1
      /\ IsFiniteSet(Busy') /\ Cardinality(Busy') = Cardinality(Busy) + 1
  <2>1. IsFiniteSet(InHand) /\ IsFiniteSet(Busy)
    BY Zenon DEF SinkCount
  <2>2. IsFiniteSet(InHand') /\ Cardinality(InHand') = Cardinality(InHand) + 1
    BY <1>4, <1>5, <2>1, FS_AddElement, Zenon
  <2>3. IsFiniteSet(Busy') /\ Cardinality(Busy') = Cardinality(Busy) + 1
    BY <1>6, <2>1, FS_AddElement, Zenon
  <2> QED
    BY <2>2, <2>3, Zenon
<1>9. Cardinality(InHand) \in Nat /\ Len(events) \in Nat /\ dropped \in Nat
  BY FS_CardinalityType, Zenon DEF SinkCount, SinkInv, SinkTypes
<1> QED
  BY <1>1, <1>3, <1>7, <1>8, <1>9, SMTT(60) DEF SinkCount

(* A number stored or dropped leaves the hands, and no other does. *)
LEMMA StoreKeepsCount ==
  ASSUME NEW g \in Emitters, SinkInv, SinkCount, EmitStore(g)
  PROVE  SinkCount'
<1>1. /\ numbers[g] # 0 /\ seq' = seq /\ maxQueue' = maxQueue
      /\ numbers' = [numbers EXCEPT ![g] = 0]
  BY Zenon DEF EmitStore
<1>2. \A h \in Emitters : numbers'[h] = IF h = g THEN 0 ELSE numbers[h]
  BY <1>1, Zenon DEF SinkInv, SinkTypes
<1>3. \A h \in Emitters : numbers[h] = numbers[g] => h = g
  BY <1>1, Zenon DEF SinkInv, SinkOrder
<1>4. InHand' = InHand \ {numbers[g]} /\ numbers[g] \in InHand
  BY <1>1, <1>2, <1>3, Zenon DEF InHand
<1>5. Busy' = Busy \ {g} /\ g \in Busy
  BY <1>1, <1>2, Zenon DEF Busy
<1>6. /\ IsFiniteSet(InHand') /\ Cardinality(InHand') = Cardinality(InHand) - 1
      /\ IsFiniteSet(Busy') /\ Cardinality(Busy') = Cardinality(Busy) - 1
  BY <1>4, <1>5, FS_RemoveElement, Zenon DEF SinkCount
<1>7. Cardinality(InHand) \in Nat /\ Len(events) \in Nat /\ dropped \in Nat /\ maxQueue \in Nat
  BY FS_CardinalityType, Zenon DEF SinkCount, SinkInv, SinkTypes
<1>8. CASE AdmitQueue(Len(events) + 1)
  <2> DEFINE e == [seq |-> numbers[g], by |-> g]
  <2>1. events' = Append(events, e) /\ dropped' = dropped
    BY <1>8, Zenon DEF EmitStore
  <2>2. e \in EventSet /\ e.seq = numbers[g]
    BY Zenon DEF EventSet, SinkInv, SinkTypes
  <2> HIDE DEF e
  <2>3. Len(events') = Len(events) + 1 /\ DOMAIN events' = 1..(Len(events) + 1)
        /\ DOMAIN events = 1..Len(events)
    BY <2>1, <2>2 DEF SinkInv, SinkTypes
  <2>4. \A i \in DOMAIN events : events'[i] = events[i]
    BY <2>1, <2>2, <2>3 DEF SinkInv, SinkTypes
  <2>5. events'[Len(events) + 1] = e
    BY <2>1, <2>2 DEF SinkInv, SinkTypes
  <2>6. DOMAIN events' = DOMAIN events \cup {Len(events) + 1}
    BY <2>3, <1>7
  <2>7. Stored' = Stored \cup {numbers[g]}
    BY <2>2, <2>4, <2>5, <2>6, Zenon DEF Stored
  <2>8. numbers[g] \notin Stored
    BY Zenon DEF Stored, SinkInv, SinkOrder
  <2>9. IsFiniteSet(Stored') /\ Cardinality(Stored') = Cardinality(Stored) + 1
    BY <2>7, <2>8, FS_AddElement, Zenon DEF SinkCount
  <2>10. Len(events) + 1 <= maxQueue
    BY <1>8, Zenon DEF AdmitQueue
  <2> QED
    BY <1>1, <1>6, <1>7, <2>1, <2>3, <2>9, <2>10 DEF SinkCount
<1>9. CASE ~ AdmitQueue(Len(events) + 1)
  <2>1. events' = events /\ dropped' = dropped + 1
    BY <1>9, Zenon DEF EmitStore
  <2>2. Stored' = Stored
    BY <2>1, Zenon DEF Stored
  <2> QED
    BY <1>1, <1>6, <1>7, <2>1, <2>2, SMTT(60) DEF SinkCount
<1> QED
  BY <1>8, <1>9, Zenon

(* The counts are preserved by every step. *)
LEMMA SinkCountStep ==
  ASSUME SinkInv, SinkCount, [SinkNext]_sinkVars
  PROVE  SinkCount'
<1>1. CASE SinkNext
  BY <1>1, NumberKeepsCount, StoreKeepsCount, Zenon DEF SinkNext
<1>2. CASE UNCHANGED sinkVars
  BY <1>2, Zenon DEF SinkCount, Stored, InHand, Busy, sinkVars
<1> QED
  BY <1>1, <1>2, Zenon

(* MemSink.Emit: with any number of goroutines each number is stored, dropped and counted, *)
(* or with the one goroutine that took it, and the buffer never passes its bound.          *)
THEOREM NumbersAccountedHolds ==
  ASSUME QueueSizes \subseteq Nat
  PROVE  SinkSpec => []NumbersAccounted
<1>1. SinkInit => SinkInv /\ SinkCount
  BY SinkInvInit, SinkCountInit, Zenon
<1>2. SinkInv /\ SinkCount /\ [SinkNext]_sinkVars => (SinkInv /\ SinkCount)'
  BY SinkInvStep, SinkCountStep, Zenon
<1>3. SinkInv /\ SinkCount => NumbersAccounted
  BY Zenon DEF SinkInv, SinkOrder, SinkCount, NumbersAccounted, Stored, InHand, Busy
<1> QED
  BY <1>1, <1>2, <1>3, PTL DEF SinkSpec

(* MemSink for any set of goroutines and any queue bound: no number is lost, doubled or  *)
(* stored against the order of its emitter.                                               *)
THEOREM SinkIsSound ==
  ASSUME QueueSizes \subseteq Nat
  PROVE  SinkSpec => []SinkSound
<1>1. SinkSpec => []NumbersAccounted
  BY NumbersAccountedHolds, Zenon
<1>2. SinkSpec => []EmitterOrder
  BY EmitterOrderHolds, Zenon
<1>3. NumbersAccounted /\ EmitterOrder => SinkSound
  BY Zenon DEF SinkSound
<1> QED
  BY <1>1, <1>2, <1>3, PTL

-----------------------------------------------------------------------------
(***************************************************************************)
(* The quarantine move and the percentage gate (module Quarantine).        *)
(***************************************************************************)
MoverStates ==
  {Idle} \cup [pc : {"check", "rename", "sync_quarantine", "sync_root"},
               obj : Sources, name : Names]

MoveTypes ==
  /\ root \subseteq Sources
  /\ quarDir \in [Names -> SUBSET Sources]
  /\ at \in [Movers -> MoverStates]

(* An object has one place. *)
OnePlace ==
  /\ \A o \in root, n \in Names : o \notin quarDir[n]
  /\ \A o \in Sources \ root : \E n \in Names : o \in quarDir[n]
  /\ \A o \in Sources, n, k \in Names : o \in quarDir[n] /\ o \in quarDir[k] => n = k

(* As long as its moves do not overlap, the path-based move renames to a name *)
(* that is free.                                                              *)
Serialised ==
  build = "path" /\ ~ overlap =>
     /\ \A m, k \in Movers : at[m].pc # "idle" /\ at[k].pc # "idle" => m = k
     /\ \A m \in Movers : at[m].pc = "rename" => quarDir[at[m].name] = {}

(* Where a taken name is refused, a name has one object. *)
Unreplaced ==
  RefusesCollisions => \A n \in Names : \A o, p \in quarDir[n] : o = p

(* After the rename a mover's object is out of the root, and after the first *)
(* fsync its quarantine entry is on disk; what was reported is on disk.      *)
Durable ==
  /\ \A m \in Movers : at[m].pc \in {"sync_quarantine", "sync_root"} => at[m].obj \notin root
  /\ \A m \in Movers : at[m].pc = "sync_root" => at[m].obj \notin qdirty
  /\ moved \subseteq Sources \ root
  /\ moved \cap (qdirty \cup rdirty) = {}

MoveInv == MoveTypes /\ OnePlace /\ Serialised /\ Unreplaced /\ Durable

(* A mover that is not idle has an object and a name. *)
LEMMA BusyMover ==
  ASSUME MoveTypes, NEW m \in Movers, at[m].pc # "idle"
  PROVE  at[m].obj \in Sources /\ at[m].name \in Names
         /\ at[m] = [pc |-> at[m].pc, obj |-> at[m].obj, name |-> at[m].name]
BY DEF MoveTypes, MoverStates, Idle

(* What advancing a mover's program counter makes of its state. *)
LEMMA Advance ==
  ASSUME NEW p, NEW q, NEW o, NEW n
  PROVE  [[pc |-> p, obj |-> o, name |-> n] EXCEPT !.pc = q]
         = [pc |-> q, obj |-> o, name |-> n]
OBVIOUS

(* The archive starts with every object under the root. *)
LEMMA MoveInvInit ==
  ASSUME QuarantineInit
  PROVE  MoveInv
<1>1. /\ root = Sources /\ quarDir = [n \in Names |-> {}] /\ qdirty = {} /\ rdirty = {}
      /\ moved = {} /\ at = [m \in Movers |-> Idle] /\ overlap = FALSE
  BY Zenon DEF QuarantineInit
<1>2. \A m \in Movers : at[m].pc = "idle"
  BY <1>1, Zenon DEF Idle
<1>3. MoveTypes
  BY <1>1, Zenon DEF MoveTypes, MoverStates
<1>4. OnePlace
  BY <1>1, Zenon DEF OnePlace
<1>5. Serialised /\ Durable
  BY <1>1, <1>2, Zenon DEF Serialised, Durable
<1>6. Unreplaced
  BY <1>1, Zenon DEF Unreplaced
<1> QED
  BY <1>3, <1>4, <1>5, <1>6, Zenon DEF MoveInv

(* A mover takes a plan. *)
LEMMA BeginKeeps ==
  ASSUME NEW m \in Movers, NEW o \in Sources, NEW n \in Names, MoveInv, Begin(m, o, n)
  PROVE  MoveInv'
<1>1. /\ root' = root /\ quarDir' = quarDir /\ qdirty' = qdirty /\ rdirty' = rdirty
      /\ moved' = moved /\ build' = build
      /\ at' = [at EXCEPT ![m] = Plan("check", o, n)]
      /\ overlap' = (overlap \/ \E k \in Movers : at[k] # Idle)
  BY Zenon DEF Begin
<1>2. Plan("check", o, n) \in MoverStates /\ Plan("check", o, n).pc = "check"
  BY Zenon DEF Plan, MoverStates
<1>3. \A k \in Movers : at'[k] = IF k = m THEN Plan("check", o, n) ELSE at[k]
  BY <1>1, Zenon DEF MoveInv, MoveTypes
<1>4. MoveTypes'
  BY <1>1, <1>2, Zenon DEF MoveInv, MoveTypes
<1>5. OnePlace'
  BY <1>1, Zenon DEF MoveInv, OnePlace
<1>6. ~ overlap' => ~ overlap /\ \A k \in Movers : at[k].pc = "idle"
  <2>1. ~ overlap' => ~ overlap /\ \A k \in Movers : at[k] = Idle
    BY <1>1, Zenon
  <2>2. Idle.pc = "idle"
    BY Zenon DEF Idle
  <2> QED
    BY <2>1, <2>2, Zenon
<1>7. Serialised'
  BY <1>1, <1>2, <1>3, <1>6 DEF MoveInv, Serialised
<1>8. Durable'
  BY <1>1, <1>2, <1>3 DEF MoveInv, Durable
<1>9. Unreplaced'
  BY <1>1, <1>6, Zenon DEF MoveInv, Unreplaced, RefusesCollisions
<1> QED
  BY <1>4, <1>5, <1>7, <1>8, <1>9, Zenon DEF MoveInv

(* A mover's step that touches nothing but its own state, and stops it. *)
LEMMA StopKeeps ==
  ASSUME NEW m \in Movers, MoveInv, at' = [at EXCEPT ![m] = Idle],
         UNCHANGED <<build, overlap, root, quarDir, qdirty, rdirty, moved>>
  PROVE  MoveInv'
<1>1. \A k \in Movers : at'[k] = IF k = m THEN Idle ELSE at[k]
  BY Zenon DEF MoveInv, MoveTypes
<1>2. Idle.pc = "idle" /\ Idle \in MoverStates
  BY Zenon DEF Idle, MoverStates
<1>3. MoveTypes'
  BY <1>2, Zenon DEF MoveInv, MoveTypes
<1>4. OnePlace'
  BY Zenon DEF MoveInv, OnePlace
<1>5. Serialised'
  BY <1>1, <1>2 DEF MoveInv, Serialised
<1>6. Durable'
  BY <1>1, <1>2 DEF MoveInv, Durable
<1>7. Unreplaced'
  BY Zenon DEF MoveInv, Unreplaced, RefusesCollisions
<1> QED
  BY <1>3, <1>4, <1>5, <1>6, <1>7, Zenon DEF MoveInv

(* The existence checks of the path-based variant. *)
LEMMA CheckKeeps ==
  ASSUME NEW m \in Movers, MoveInv, Check(m)
  PROVE  MoveInv'
<1> DEFINE o == at[m].obj
           n == at[m].name
           refused == build = "path" /\ (quarDir[n] # {} \/ o \notin root)
<1>0. UNCHANGED <<build, overlap, root, quarDir, qdirty, rdirty, moved>> /\ at[m].pc = "check"
  BY Zenon DEF Check
<1>1. CASE refused
  BY <1>0, <1>1, StopKeeps, Zenon DEF Check
<1>2. CASE ~ refused
  <2>1. at' = [at EXCEPT ![m] = Plan("rename", o, n)]
    BY <1>2, Zenon DEF Check
  <2>2. o \in Sources /\ n \in Names
    BY <1>0, BusyMover, Zenon DEF MoveInv
  <2> HIDE DEF o, n
  <2>3. /\ Plan("rename", o, n) \in MoverStates /\ Plan("rename", o, n).pc = "rename"
        /\ Plan("rename", o, n).name = n
    BY <2>2, Zenon DEF Plan, MoverStates
  <2>4. \A k \in Movers : at'[k] = IF k = m THEN Plan("rename", o, n) ELSE at[k]
    BY <2>1, Zenon DEF MoveInv, MoveTypes
  <2>5. MoveTypes'
    BY <1>0, <2>1, <2>3, Zenon DEF MoveInv, MoveTypes
  <2>6. OnePlace'
    BY <1>0, Zenon DEF MoveInv, OnePlace
  <2>7. build = "path" => quarDir[n] = {}
    BY <1>2, Zenon
  <2>8. Serialised'
    BY <1>0, <2>3, <2>4, <2>7, Zenon DEF MoveInv, Serialised
  <2>9. Durable'
    BY <1>0, <2>3, <2>4, Zenon DEF MoveInv, Durable
  <2>10. Unreplaced'
    BY <1>0, Zenon DEF MoveInv, Unreplaced, RefusesCollisions
  <2> QED
    BY <2>5, <2>6, <2>8, <2>9, <2>10, Zenon DEF MoveInv
<1> QED
  BY <1>1, <1>2, Zenon

(* Where a taken name is refused the rename replaces nothing: the kernel refuses it *)
(* or the check found the name free.                                                *)
LEMMA RenameKeeps ==
  ASSUME NEW m \in Movers, MoveInv, Rename(m)
  PROVE  MoveInv'
<1> DEFINE o == at[m].obj
           n == at[m].name
<1>0. UNCHANGED <<build, overlap, moved>> /\ at[m].pc = "rename"
  BY Zenon DEF Rename
<1>1. CASE RenameRefused(m)
  BY <1>0, <1>1, StopKeeps, Zenon DEF Rename
<1>2. CASE ~ RenameRefused(m)
  <2>1. /\ root' = root \ {o} /\ quarDir' = [quarDir EXCEPT ![n] = @ \cup {o}]
        /\ qdirty' = qdirty \cup {o} /\ rdirty' = rdirty \cup {o}
        /\ at' = [at EXCEPT ![m].pc = "sync_quarantine"]
    BY <1>2, Zenon DEF Rename
  <2>2. /\ o \in Sources /\ n \in Names
        /\ at[m] = [pc |-> at[m].pc, obj |-> o, name |-> n]
    BY <1>0, BusyMover, Zenon DEF MoveInv
  <2>3. o \in root /\ (RefusesCollisions => quarDir[n] = {})
    BY <1>0, <1>2, <2>2, Zenon DEF RenameRefused, MoveInv, Serialised, RefusesCollisions
  <2> DEFINE s == [pc |-> "sync_quarantine", obj |-> o, name |-> n]
  <2>4. at' = [at EXCEPT ![m] = s]
    <3>1. at' = [at EXCEPT ![m] = [at[m] EXCEPT !.pc = "sync_quarantine"]]
      BY <2>1, Zenon
    <3>2. [at[m] EXCEPT !.pc = "sync_quarantine"] = s
      BY <2>2, Advance
    <3> QED
      BY <3>1, <3>2, Zenon
  <2> HIDE DEF o, n
  <2>5. s \in MoverStates /\ s.pc = "sync_quarantine" /\ s.obj = o
    BY <2>2, Zenon DEF MoverStates
  <2> HIDE DEF s
  <2>6. \A k \in Movers : at'[k] = IF k = m THEN s ELSE at[k]
    BY <2>4, Zenon DEF MoveInv, MoveTypes
  <2>7. MoveTypes'
    BY <2>1, <2>2, <2>4, <2>5, ZenonT(60) DEF MoveInv, MoveTypes
  <2>8. /\ quarDir'[n] = quarDir[n] \cup {o}
        /\ \A k \in Names \ {n} : quarDir'[k] = quarDir[k]
    BY <2>1, <2>2, Zenon DEF MoveInv, MoveTypes
  <2>9. \A k \in Names : o \notin quarDir[k]
    BY <2>3, Zenon DEF MoveInv, OnePlace
  <2>10. OnePlace'
    <3>1. \A k \in Names : o \in quarDir'[k] => k = n
      BY <2>8, <2>9, Zenon
    <3>2. \A p \in Sources, k \in Names : p # o => (p \in quarDir'[k] <=> p \in quarDir[k])
      BY <2>8, Zenon
    <3>3. o \in quarDir'[n]
      BY <2>8, Zenon
    <3>4. \A p \in Sources : p # o => (p \in root' <=> p \in root)
      BY <2>1
    <3>5. o \notin root' /\ root \subseteq Sources /\ root' \subseteq Sources
      BY <2>1, <2>7, Zenon DEF MoveInv, MoveTypes
    <3>6. \A p \in root', k \in Names : p \notin quarDir'[k]
      BY <3>2, <3>4, <3>5, Zenon DEF MoveInv, OnePlace
    <3>7. ASSUME NEW p \in Sources \ root'
          PROVE  \E k \in Names : p \in quarDir'[k]
      <4>1. CASE p = o
        BY <2>2, <3>3, <4>1, Zenon
      <4>2. CASE p # o
        <5>1. PICK k \in Names : p \in quarDir[k]
          BY <3>4, <4>2, Zenon DEF MoveInv, OnePlace
        <5> QED
          BY <3>2, <4>2, <5>1, Zenon
      <4> QED
        BY <4>1, <4>2, Zenon
    <3>8. ASSUME NEW p \in Sources, NEW k \in Names, NEW l \in Names,
                 p \in quarDir'[k], p \in quarDir'[l]
          PROVE  k = l
      <4>1. CASE p = o
        BY <3>1, <3>8, <4>1, Zenon
      <4>2. CASE p # o
        BY <3>2, <3>8, <4>2, Zenon DEF MoveInv, OnePlace
      <4> QED
        BY <4>1, <4>2, Zenon
    <3> QED
      BY <3>6, <3>7, <3>8, Zenon DEF OnePlace
  <2>13. Unreplaced'
    <3>1. RefusesCollisions' <=> RefusesCollisions
      BY <1>0, Zenon DEF RefusesCollisions
    <3>2. RefusesCollisions => quarDir'[n] = {o}
      BY <2>2, <2>3, <2>8, Zenon
    <3>3. ASSUME RefusesCollisions, NEW k \in Names, NEW x \in quarDir'[k], NEW y \in quarDir'[k]
          PROVE  x = y
      <4>1. CASE k = n
        BY <3>2, <3>3, <4>1, Zenon
      <4>2. CASE k # n
        BY <2>8, <3>3, <4>2, Zenon DEF MoveInv, Unreplaced
      <4> QED
        BY <4>1, <4>2, Zenon
    <3> QED
      BY <3>1, <3>3, Zenon DEF Unreplaced
  <2>11. Serialised'
    BY <1>0, <2>5, <2>6, Zenon DEF MoveInv, Serialised
  <2>12. Durable'
    <3>1. o \notin moved
      BY <2>3, Zenon DEF MoveInv, Durable
    <3>2. \A k \in Movers : at'[k].pc \in {"sync_quarantine", "sync_root"} =>
             at'[k].obj \notin root'
      <4> SUFFICES ASSUME NEW k \in Movers, at'[k].pc \in {"sync_quarantine", "sync_root"}
                   PROVE  at'[k].obj \notin root'
        OBVIOUS
      <4>1. CASE k = m
        <5>1. at'[k] = s
          BY <4>1, <2>6, Zenon
        <5>2. at'[k].obj = o
          BY <5>1, <2>5, Zenon
        <5>3. o \notin root'
          BY <2>1, Zenon
        <5> QED
          BY <5>2, <5>3, Zenon
      <4>2. CASE k # m
        <5>1. at'[k] = at[k]
          BY <4>2, <2>6, Zenon
        <5>2. at[k].obj \notin root
          BY <5>1, Zenon DEF MoveInv, Durable
        <5> QED
          BY <5>1, <5>2, <2>1
      <4> QED
        BY <4>1, <4>2, Zenon
    <3>3. \A k \in Movers : at'[k].pc = "sync_root" => at'[k].obj \notin qdirty'
      BY <2>1, <2>3, <2>5, <2>6 DEF MoveInv, Durable
    <3>4. moved' \subseteq Sources \ root' /\ moved' \cap (qdirty' \cup rdirty') = {}
      BY <1>0, <2>1, <3>1, Zenon DEF MoveInv, Durable
    <3> QED
      BY <3>2, <3>3, <3>4, Zenon DEF Durable
  <2> QED
    BY <2>7, <2>10, <2>11, <2>12, <2>13, Zenon DEF MoveInv
<1> QED
  BY <1>1, <1>2, Zenon

(* The first fsync. *)
LEMMA SyncQuarantineKeeps ==
  ASSUME NEW m \in Movers, MoveInv, SyncQuarantine(m)
  PROVE  MoveInv'
<1> DEFINE o == at[m].obj
           n == at[m].name
           s == [pc |-> "sync_root", obj |-> o, name |-> n]
<1>1. /\ UNCHANGED <<build, overlap, root, quarDir, rdirty, moved>> /\ qdirty' = {}
      /\ at[m].pc = "sync_quarantine" /\ at' = [at EXCEPT ![m].pc = "sync_root"]
  BY Zenon DEF SyncQuarantine
<1>2. /\ o \in Sources /\ n \in Names
      /\ at[m] = [pc |-> at[m].pc, obj |-> o, name |-> n]
  BY <1>1, BusyMover, Zenon DEF MoveInv
<1>3. at' = [at EXCEPT ![m] = s]
  <2>1. at' = [at EXCEPT ![m] = [at[m] EXCEPT !.pc = "sync_root"]]
    BY <1>1, Zenon
  <2>2. [at[m] EXCEPT !.pc = "sync_root"] = s
    BY <1>2, Advance
  <2> QED
    BY <2>1, <2>2, Zenon
<1>4. o \notin root
  BY <1>1, Zenon DEF MoveInv, Durable
<1> HIDE DEF o, n
<1>5. s \in MoverStates /\ s.pc = "sync_root" /\ s.obj = o
  BY <1>2, Zenon DEF MoverStates
<1> HIDE DEF s
<1>6. \A k \in Movers : at'[k] = IF k = m THEN s ELSE at[k]
  BY <1>3, Zenon DEF MoveInv, MoveTypes
<1>7. MoveTypes'
  BY <1>1, <1>3, <1>5, Zenon DEF MoveInv, MoveTypes
<1>8. OnePlace'
  BY <1>1, Zenon DEF MoveInv, OnePlace
<1>9. Serialised'
  BY <1>1, <1>5, <1>6 DEF MoveInv, Serialised
<1>10. Durable'
  BY <1>1, <1>4, <1>5, <1>6 DEF MoveInv, Durable
<1>11. Unreplaced'
  BY <1>1, Zenon DEF MoveInv, Unreplaced, RefusesCollisions
<1> QED
  BY <1>7, <1>8, <1>9, <1>10, <1>11, Zenon DEF MoveInv

(* The second fsync, and the successful return. *)
LEMMA SyncRootKeeps ==
  ASSUME NEW m \in Movers, MoveInv, SyncRoot(m)
  PROVE  MoveInv'
<1> DEFINE o == at[m].obj
<1>1. /\ UNCHANGED <<build, overlap, root, quarDir, qdirty>> /\ rdirty' = {}
      /\ at[m].pc = "sync_root" /\ at' = [at EXCEPT ![m] = Idle]
      /\ moved' = moved \cup {o}
  BY Zenon DEF SyncRoot
<1>2. o \in Sources /\ o \notin root /\ o \notin qdirty
  BY <1>1, BusyMover, Zenon DEF MoveInv, Durable
<1> HIDE DEF o
<1>3. \A k \in Movers : at'[k] = IF k = m THEN Idle ELSE at[k]
  BY <1>1, Zenon DEF MoveInv, MoveTypes
<1>4. Idle.pc = "idle" /\ Idle \in MoverStates
  BY Zenon DEF Idle, MoverStates
<1>5. MoveTypes'
  BY <1>1, <1>4, Zenon DEF MoveInv, MoveTypes
<1>6. OnePlace'
  BY <1>1, Zenon DEF MoveInv, OnePlace
<1>7. Serialised'
  BY <1>1, <1>3, <1>4, ZenonT(60) DEF MoveInv, Serialised
<1>8. Durable'
  BY <1>1, <1>2, <1>3, <1>4 DEF MoveInv, Durable
<1>9. Unreplaced'
  BY <1>1, Zenon DEF MoveInv, Unreplaced, RefusesCollisions
<1> QED
  BY <1>5, <1>6, <1>7, <1>8, <1>9, Zenon DEF MoveInv

(* Whatever subset of the pending renames reached the disk. *)
LEMMA LosePowerKeeps ==
  ASSUME MoveInv, LosePower,
         qdirty \subseteq Sources, rdirty \subseteq Sources
  PROVE  MoveInv'
<1>1. PICK kept \in SUBSET (qdirty \cup rdirty) :
        /\ root' = root \cup ((qdirty \cup rdirty) \ kept)
        /\ quarDir' = [n \in Names |-> quarDir[n] \ ((qdirty \cup rdirty) \ kept)]
  BY Zenon DEF LosePower
<1> DEFINE undone == (qdirty \cup rdirty) \ kept
<1>2. /\ qdirty' = {} /\ rdirty' = {} /\ at' = [m \in Movers |-> Idle]
      /\ build' = build /\ overlap' = overlap /\ moved' = moved
  BY Zenon DEF LosePower
<1>3. undone \subseteq Sources /\ undone \cap moved = {}
  BY Zenon DEF MoveInv, Durable
<1>4. /\ root' = root \cup undone
      /\ quarDir' = [n \in Names |-> quarDir[n] \ undone]
  BY <1>1, Zenon
<1> HIDE DEF undone
<1>5. \A m \in Movers : at'[m] = Idle /\ at'[m].pc = "idle"
  BY <1>2, Zenon DEF Idle
<1>6. MoveTypes'
  BY <1>2, <1>3, <1>4, Zenon DEF MoveInv, MoveTypes, MoverStates
<1>7. OnePlace'
  BY <1>3, <1>4 DEF MoveInv, MoveTypes, OnePlace
<1>8. Serialised' /\ Durable'
  BY <1>2, <1>3, <1>4, <1>5, Zenon DEF MoveInv, Serialised, Durable
<1>9. Unreplaced'
  BY <1>2, <1>4, Zenon DEF MoveInv, Unreplaced, RefusesCollisions
<1> QED
  BY <1>6, <1>7, <1>8, <1>9, Zenon DEF MoveInv

(* The renames that are not yet on disk are of objects of the archive. *)
DirtyTypes == qdirty \subseteq Sources /\ rdirty \subseteq Sources

QuarantineInv == MoveInv /\ DirtyTypes

(* The invariant is preserved by every step. *)
LEMMA QuarantineInvStep ==
  ASSUME QuarantineInv, [QuarantineNext]_quarVars
  PROVE  QuarantineInv'
<1> USE DEF QuarantineInv
<1>1. ASSUME NEW m \in Movers, NEW o \in Sources, NEW n \in Names, Begin(m, o, n)
      PROVE  QuarantineInv'
  BY <1>1, BeginKeeps, Zenon DEF Begin, DirtyTypes
<1>2. ASSUME NEW m \in Movers, Check(m)
      PROVE  QuarantineInv'
  BY <1>2, CheckKeeps, Zenon DEF Check, DirtyTypes
<1>3. ASSUME NEW m \in Movers, Rename(m)
      PROVE  QuarantineInv'
  <2>1. at[m].obj \in Sources
    BY <1>3, BusyMover, Zenon DEF Rename, MoveInv
  <2>2. DirtyTypes'
    BY <1>3, <2>1, Zenon DEF Rename, DirtyTypes
  <2> QED
    BY <1>3, <2>2, RenameKeeps, Zenon
<1>4. ASSUME NEW m \in Movers, SyncQuarantine(m)
      PROVE  QuarantineInv'
  BY <1>4, SyncQuarantineKeeps, Zenon DEF SyncQuarantine, DirtyTypes
<1>5. ASSUME NEW m \in Movers, SyncRoot(m)
      PROVE  QuarantineInv'
  BY <1>5, SyncRootKeeps, Zenon DEF SyncRoot, DirtyTypes
<1>6. ASSUME NEW m \in Movers, Fail(m)
      PROVE  QuarantineInv'
  BY <1>6, StopKeeps, Zenon DEF Fail, DirtyTypes
<1>7. CASE LosePower
  BY <1>7, LosePowerKeeps, Zenon DEF LosePower, DirtyTypes
<1>8. CASE UNCHANGED quarVars
  BY <1>8, Zenon DEF quarVars, MoveInv, MoveTypes, OnePlace, Serialised, Unreplaced,
                       RefusesCollisions, Durable, DirtyTypes
<1> QED
  BY <1>1, <1>2, <1>3, <1>4, <1>5, <1>6, <1>7, <1>8, Zenon DEF QuarantineNext

(* ExecuteQuarantineMoveAT and ExecuteQuarantineMove, in each build: whatever movers       *)
(* interleave, fail or lose power, every object of the archive is under the root or went to *)
(* exactly one quarantine name; with an exclusive rename, or a path-based move that is not  *)
(* overlapped, it replaced nothing there.                                                   *)
THEOREM NothingLostHolds ==
  QuarantineSpec => []NothingLost
<1>1. QuarantineInit => QuarantineInv
  BY MoveInvInit, Zenon DEF QuarantineInv, DirtyTypes, QuarantineInit
<1>2. QuarantineInv /\ [QuarantineNext]_quarVars => QuarantineInv'
  BY QuarantineInvStep, Zenon
<1>3. ASSUME QuarantineInv, NEW o \in Sources
      PROVE  Cardinality({n \in Names : o \in quarDir[n]}) = (IF o \in root THEN 0 ELSE 1)
  <2>1. CASE o \in root
    <3>1. {n \in Names : o \in quarDir[n]} = {}
      BY <1>3, <2>1, Zenon DEF QuarantineInv, MoveInv, OnePlace
    <3> QED
      BY <2>1, <3>1, FS_EmptySet, Zenon
  <2>2. CASE o \notin root
    <3>1. PICK k \in Names : o \in quarDir[k]
      BY <1>3, <2>2, Zenon DEF QuarantineInv, MoveInv, OnePlace
    <3>2. {n \in Names : o \in quarDir[n]} = {k}
      BY <1>3, <3>1 DEF QuarantineInv, MoveInv, OnePlace
    <3> QED
      BY <2>2, <3>2, FS_Singleton, Zenon
  <2> QED
    BY <2>1, <2>2, Zenon
<1>4. ASSUME QuarantineInv, RefusesCollisions, NEW n \in Names
      PROVE  Cardinality(quarDir[n]) <= 1
  <2>1. CASE quarDir[n] = {}
    BY <2>1, FS_EmptySet
  <2>2. CASE quarDir[n] # {}
    <3>1. PICK o \in quarDir[n] : TRUE
      BY <2>2
    <3>2. quarDir[n] = {o}
      BY <1>4, <3>1 DEF QuarantineInv, MoveInv, Unreplaced
    <3> QED
      BY <3>2, FS_Singleton
  <2> QED
    BY <2>1, <2>2
<1>5. QuarantineInv => NothingLost
  BY <1>3, <1>4, Zenon DEF NothingLost, CollisionNeverReplaces
<1> QED
  BY <1>1, <1>2, <1>5, PTL DEF QuarantineSpec

(* The order rename, fsync of the quarantine, fsync of the root, success: an object whose *)
(* move was reported stays in the quarantine over any number of power losses.             *)
THEOREM SuccessIsDurableHolds ==
  QuarantineSpec => []SuccessIsDurable
<1>1. QuarantineInit => QuarantineInv
  BY MoveInvInit, Zenon DEF QuarantineInv, DirtyTypes, QuarantineInit
<1>2. QuarantineInv /\ [QuarantineNext]_quarVars => QuarantineInv'
  BY QuarantineInvStep, Zenon
<1>3. QuarantineInv => SuccessIsDurable
  BY Zenon DEF QuarantineInv, MoveInv, OnePlace, Durable, SuccessIsDurable
<1> QED
  BY <1>1, <1>2, <1>3, PTL DEF QuarantineSpec

(* The percentage gate: for every word size and every scale, a request that Evaluate lets *)
(* through is below maxPercent plus one basis point by the exact ratio of its counts.     *)
THEOREM PercentGate ==
  ASSUME MaxUint \in Nat, Scale \in Nat \ {0},
         request.count \in 0..MaxUint, request.total \in 0..MaxUint, request.maxPercent \in Nat
  PROVE  PercentIsExact
<1> DEFINE c == request.count
           t == request.total
           p == request.maxPercent
<1> SUFFICES ASSUME Evaluate(request), c > 0
             PROVE  c <= t /\ c * Scale < (p + 1) * t
  BY Zenon DEF PercentIsExact
<1>1. c \in Nat /\ t \in Nat /\ p \in Nat /\ c <= t /\ t # 0
  BY DEF Evaluate, percentRefused
<1>2. c <= MaxUint \div Scale
  <2>1. MaxUint \div Scale \in Nat
    OBVIOUS
  <2> QED
    BY <1>1, <2>1 DEF Evaluate, percentRefused, percentOverflows
<1>3. percentBPS(c, t) <= p
  BY Zenon DEF Evaluate
<1>4. percentBPS(c, t) = ((c * Scale) % (MaxUint + 1)) \div t
  BY <1>1 DEF percentBPS
<1> HIDE DEF c, t, p
<1> DEFINE q == MaxUint \div Scale
<1>5. q \in Nat /\ q * Scale <= MaxUint /\ c <= q
  BY <1>2
<1> HIDE DEF q
<1>6. c * Scale \in Nat /\ c * Scale <= MaxUint
  <2>1. c * Scale <= q * Scale
    BY <1>1, <1>5
  <2> QED
    BY <1>1, <1>5, <2>1
<1> DEFINE x == c * Scale
<1>7. x \in Nat /\ x <= MaxUint
  BY <1>6, Zenon
<1> HIDE DEF x
<1>8. x % (MaxUint + 1) = x
  BY <1>7
<1>9. x \div t <= p
  BY <1>3, <1>4, <1>8, Zenon DEF x
<1> DEFINE y == x \div t
<1>10. y \in Nat /\ x < (y + 1) * t
  BY <1>1, <1>7
<1>11. y <= p
  BY <1>9, Zenon
<1> HIDE DEF y
<1>12. (y + 1) * t <= (p + 1) * t
  BY <1>1, <1>10, <1>11
<1>13. x < (p + 1) * t
  BY <1>1, <1>7, <1>10, <1>12
<1> QED
  BY <1>1, <1>13, Zenon DEF x

(* The numbers of a request other than a measured one are those of Base. *)
LEMMA AsBase ==
  /\ Base.count = 1 /\ Base.total = 2 /\ Base.maxPercent = Scale
  /\ \A d : Lacking(d).count = 1 /\ Lacking(d).total = 2 /\ Lacking(d).maxPercent = Scale
  /\ \A p : Failing(p).count = 1 /\ Failing(p).total = 2 /\ Failing(p).maxPercent = Scale
  /\ \A b : Incomplete(b).count = 1 /\ Incomplete(b).total = 2
            /\ Incomplete(b).maxPercent = Scale
  /\ \A x, y, z : Sized(x, y, z).count = 1 /\ Sized(x, y, z).total = 2
                  /\ Sized(x, y, z).maxPercent = Scale
<1>1. Base.count = 1 /\ Base.total = 2 /\ Base.maxPercent = Scale
  BY Zenon DEF Base
<1>2. \A d : Lacking(d).count = 1 /\ Lacking(d).total = 2 /\ Lacking(d).maxPercent = Scale
  BY Zenon DEF Lacking, Base
<1>3. \A p : Failing(p).count = 1 /\ Failing(p).total = 2 /\ Failing(p).maxPercent = Scale
  BY Zenon DEF Failing, Base
<1>4. \A b : Incomplete(b).count = 1 /\ Incomplete(b).total = 2
             /\ Incomplete(b).maxPercent = Scale
  BY Zenon DEF Incomplete, Base
<1>5. \A x, y, z : Sized(x, y, z).count = 1 /\ Sized(x, y, z).total = 2
                   /\ Sized(x, y, z).maxPercent = Scale
  BY Zenon DEF Sized, Base
<1> QED
  BY <1>1, <1>2, <1>3, <1>4, <1>5, Zenon

(* The requests of the specification are made of words. *)
LEMMA RequestTypes ==
  ASSUME MaxUint \in Nat, MaxUint >= 2, Scale \in Nat \ {0}, NEW r \in Requests
  PROVE  r.count \in 0..MaxUint /\ r.total \in 0..MaxUint /\ r.maxPercent \in Nat
<1>1. CASE \E c \in 0..MaxUint, t \in 0..MaxUint, p \in 0..2 : r = Measured(c, t, p)
  <2>1. \A c, t, p : /\ Measured(c, t, p).count = c /\ Measured(c, t, p).total = t
                     /\ Measured(c, t, p).maxPercent = p
    BY Zenon DEF Measured, Base
  <2> QED
    BY <1>1, <2>1
<1>2. CASE r.count = 1 /\ r.total = 2 /\ r.maxPercent = Scale
  BY <1>2
<1>3. \/ r = Base \/ (\E d : r = Lacking(d)) \/ (\E p : r = Failing(p))
      \/ (\E b : r = Incomplete(b)) \/ (\E x, y, z : r = Sized(x, y, z))
      \/ \E c \in 0..MaxUint, t \in 0..MaxUint, p \in 0..2 : r = Measured(c, t, p)
  BY DEF Requests
<1> QED
  BY <1>1, <1>2, <1>3, AsBase, ZenonT(60)

(* internal/deletion, for every word size, scale, archive, build of the move and number   *)
(* of power losses: a request is admitted by its exact share, a reported move lasts, and  *)
(* no object is lost but to a collision of names in the cases RefusesCollisions leaves    *)
(* out: the plain renameat of the systems other than Linux and macOS, and path-based      *)
(* moves that overlap.                                                                    *)
THEOREM DeletionSafety ==
  ASSUME MaxUint \in Nat, MaxUint >= 2, Scale \in Nat \ {0}
  PROVE  QuarantineSpec => []DeletionIsSafe
<1>1. QuarantineSpec => []NothingLost
  BY NothingLostHolds, Zenon
<1>2. QuarantineSpec => []SuccessIsDurable
  BY SuccessIsDurableHolds, Zenon
<1>3. QuarantineInit => request \in Requests
  BY Zenon DEF QuarantineInit
<1>4. request \in Requests /\ [QuarantineNext]_quarVars => (request \in Requests)'
  BY Zenon DEF QuarantineNext, quarVars, Begin, Check, Rename, SyncQuarantine, SyncRoot, Fail, LosePower
<1>5. request \in Requests => PercentIsExact
  BY RequestTypes, PercentGate, Zenon
<1>6. NothingLost /\ SuccessIsDurable /\ PercentIsExact => DeletionIsSafe
  BY Zenon DEF DeletionIsSafe
<1> QED
  BY <1>1, <1>2, <1>3, <1>4, <1>5, <1>6, PTL DEF QuarantineSpec

=============================================================================
