----------------------------- MODULE EventSink ------------------------------
(***************************************************************************)
(* The bounded in-memory event sink (internal/observability).  Emit        *)
(* validates, takes its sequence number with an atomic add, and only then  *)
(* takes the mutex to enqueue or drop: between the two another emitter may *)
(* run.  An event is its redaction class and the size class of its text.   *)
(***************************************************************************)
EXTENDS Naturals, FiniteSets, Sequences

CONSTANTS Emitters,    \* goroutines that share the sink
          QueueSizes,  \* the values of maxQueue tried
          MaxEmits     \* bound: events emitted in a behaviour

VARIABLES maxQueue,    \* limits.MaxQueueDepth
          seq,         \* the atomic counter
          events,      \* the buffer: [seq, by] records, oldest first
          dropped,     \* the drop counter
          numbers      \* per emitter: its number, taken and not yet stored; 0

sinkVars == <<maxQueue, seq, events, dropped, numbers>>

(* What Validate tells apart of the header fields and of the message. *)
Events == [header : {"ok", "bad_id", "bad_channel", "bad_severity", "no_component",
                     "long_cause"},
           redaction : 0..5, message : {"empty", "opaque", "text", "oversize", "marked"}]

ShortEnough(redaction, message) ==
  CASE redaction = 4 -> message = "empty"
    [] redaction = 3 -> message \in {"empty", "opaque", "marked"}
    [] OTHER         -> message # "oversize"

Validate(e) ==
  /\ e.header = "ok"
  /\ e.redaction \in 1..4
  /\ ShortEnough(e.redaction, e.message)
  /\ e.message # "marked"                       \* containsForbidden

SinkInit ==
  /\ maxQueue \in QueueSizes
  /\ seq = 0 /\ dropped = 0
  /\ events = <<>>
  /\ numbers = [g \in Emitters |-> 0]

(* A mutant's order: the number is read, and the counter moved later. *)
EmitNumberLoad(g) ==
  /\ numbers[g] = 0
  /\ Len(events) + dropped < MaxEmits
  /\ numbers' = [numbers EXCEPT ![g] = Len(events) + dropped + 1]
  /\ seq' = Len(events) + dropped + 1
  /\ UNCHANGED <<maxQueue, events, dropped>>

(* Emit up to the atomic add; an invalid event returns before it. *)
EmitNumber(g) ==
  /\ numbers[g] = 0
  /\ seq < MaxEmits
  /\ \E e \in Events : Validate(e)
  /\ seq' = seq + 1
  /\ numbers' = [numbers EXCEPT ![g] = seq + 1]
  /\ UNCHANGED <<maxQueue, events, dropped>>

AdmitQueue(depth) == maxQueue # 0 /\ depth <= maxQueue

(* Emit under the mutex: one event is stored or counted as dropped. *)
EmitStore(g) ==
  /\ numbers[g] # 0
  /\ IF AdmitQueue(Len(events) + 1)
     THEN /\ events' = Append(events, [seq |-> numbers[g], by |-> g])
          /\ UNCHANGED dropped
     ELSE dropped' = dropped + 1 /\ UNCHANGED events
  /\ numbers' = [numbers EXCEPT ![g] = 0]
  /\ UNCHANGED <<maxQueue, seq>>

SinkNext == \E g \in Emitters : EmitNumber(g) \/ EmitStore(g)

SinkSpec == SinkInit /\ [][SinkNext]_sinkVars

(* Every number the counter gave out is in the buffer, in the hands of one *)
(* emitter, or counted by Dropped(), and none is given twice: a gap in the *)
(* stored sequence is exactly a dropped event, whoever interleaves.        *)
NumbersAccounted ==
  LET stored == {events[i].seq : i \in DOMAIN events}
      inHand == {numbers[g] : g \in Emitters} \ {0}
  IN /\ Cardinality(stored) = Len(events)
     /\ Cardinality(inHand) = Cardinality({g \in Emitters : numbers[g] # 0})
     /\ stored \cap inHand = {}
     /\ seq = Len(events) + Cardinality(inHand) + dropped
     /\ Len(events) <= maxQueue

(* Although two emitters may be stored in the opposite order of their      *)
(* numbers, the events of one emitter keep theirs.                         *)
EmitterOrder ==
  \A i, j \in DOMAIN events :
     i < j /\ events[i].by = events[j].by => events[i].seq < events[j].seq

(* MemSink under concurrent emitters: no number is lost, doubled or stored *)
(* against the order of its own emitter (observability.go:176).            *)
SinkSound == NumbersAccounted /\ EmitterOrder
=============================================================================
