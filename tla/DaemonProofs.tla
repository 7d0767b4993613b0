---------------------------- MODULE DaemonProofs ----------------------------
(***************************************************************************)
(* Proofs about Daemon: for every fleet, restart budget and number of      *)
(* deaths and faults, supervise keeps its fleet whole, advertises only a   *)
(* running net process, and rebuilds within its budget.                    *)
(***************************************************************************)
EXTENDS DaemonSteps

-----------------------------------------------------------------------------
(***************************************************************************)
(* The calls that start and wire the children.                             *)
(***************************************************************************)
\* What the last call of a script on one handle leaves of the wiring.
LEMMA WiredBy ==
  ASSUME DInv, NEW op, Next1(op), op \in {"start", "confer", "supersede", "same"},
         NEW to \in AllRoles, Head(script).role = to,
         UNCHANGED <<srv, pc>>,
         DOMAIN fab' = DOMAIN fab, \A e \in DOMAIN fab : fab'[e].gen = fab[e].gen,
         \A r \in AllRoles : r # to => child'[r] = child[r],
         child'[to].tracked => DOMAIN child'[to].ends = PlanOf[srv.fleet][to],
         child'[to].up =>
           \A q \in PlanOf[srv.fleet][to] :
             \/ Current(to, q)'
             \/ op \in {"confer", "same"} /\ child'[to].ends[q] = child[to].ends[q]
                  /\ child[to].up /\ (op = "confer" => q # Head(script).peer)
  PROVE  Wired'
<1> DEFINE h == Head(script)
           S == CallsOf(script)
           T == CallsOf(script')
           f == srv.fleet
<1>1. pc = "script" /\ h.op = op /\ S = {h} \cup T /\ Wired
  BY StepTaken, Zenon DEF DInv
<1>2. \A r \in AllRoles : child'[r].tracked => DOMAIN child'[r].ends = PlanOf[f][r]
  BY <1>1 DEF Wired
<1>3. ASSUME NEW r \in AllRoles, child'[r].up, NEW q \in PlanOf[f][r]
      PROVE  Current(r, q)' \/ \E s \in T : Renews(s, r, q)
  <2>1. child[r].up => Current(r, q) \/ \E s \in S : Renews(s, r, q)
    BY <1>1, Zenon DEF Wired
  <2>2. CASE r # to
    <3>1. ~Renews(h, r, q)
      BY <2>2, Zenon DEF Renews
    <3>2. Current(r, q) => Current(r, q)'
      BY <2>2, Zenon DEF Current
    <3> QED
      BY <1>1, <1>3, <2>1, <2>2, <3>1, <3>2, Zenon
  <2>3. CASE r = to /\ ~Current(r, q)'
    <3>1. /\ op \in {"confer", "same"} /\ child'[r].ends[q] = child[r].ends[q]
          /\ child[r].up /\ (op = "confer" => q # h.peer)
      BY <1>3, <2>3, Zenon
    <3>2. ~Current(r, q)
      BY <2>3, <3>1, Zenon DEF Current
    <3>3. ~Renews(h, r, q)
      BY <1>1, <3>1, Zenon DEF Renews
    <3> QED
      BY <1>1, <2>1, <3>1, <3>2, <3>3, Zenon
  <2> QED
    BY <2>2, <2>3, Zenon
<1> QED
  BY <1>1, <1>2, <1>3, Zenon DEF Wired

\* A role is started: it holds its ends of the current pairs.
LEMMA StartChildKeeps ==
  ASSUME DInv, StartChild
  PROVE  DInv'
<1> DEFINE h == Head(script)
           S == CallsOf(script)
           T == CallsOf(script')
           f == srv.fleet
<1>   /\ Typed /\ Children /\ Scripts /\ Advertised /\ Paid /\ Wired
      /\ f \in Fleets /\ FleetRoles \subseteq AllRoles /\ script # <<>>
  BY FleetKnown, Zenon DEF DInv, StartChild, Next1
<1>2. /\ pc = "script" /\ script' \in Seq(Step) /\ h \in Step /\ h.op = "start" /\ h \in S
      /\ S = {h} \cup T /\ Fitting(f, script) /\ Fitting(f, script')
      /\ after = "one" => Selective(S, armed) /\ Selective(T, armed)
  BY StepTaken, Zenon DEF StartChild
<1>r. PICK r \in AllRoles : r = h.role
  BY <1>2, Arguments, Zenon
<1> DEFINE peers == PeersAtStart(r, h.peer)
           ends == [p \in peers |-> fab[Pair(r, p)].gen]
<1>1. /\ UNCHANGED <<opts, srv, sending, exitq, pc, after, armed, down, restarts,
                     rebuilds, ready, addr, cancelled>>
      /\ child' = [child EXCEPT ![r] = Handle(ends)]
      /\ fab' = Take(r, peers)
      /\ netSeq' = IF r = "net" THEN netSeq + 1 ELSE netSeq
  BY <1>r, Zenon DEF StartChild
<1>3. r \in AllRoles /\ r \in Roles(f) /\ peers = PlanOf[f][r]
  <2>1. Suits(f, h)
    BY <1>2, Zenon DEF Fitting
  <2> QED
    BY <1>2, <1>r, <2>1, Zenon DEF Suits, PeersAtStart
<1>4. \A q \in peers : Pair(r, q) \in DOMAIN fab
  BY <1>2, <1>r, ZenonT(60) DEF StartChild, Possible, StartChildOk, Available
<1>5. peers \subseteq AllRoles
  BY <1>3, Edges, Tables DEF TableFits
<1> HIDE DEF h, S, T, f, peers
<1>6. Handle(ends) \in Handles
  <2>1. \A q \in peers : fab[Pair(r, q)].gen \in Nat
    BY <1>4, Zenon DEF Typed
  <2>2. ends \in [peers -> Nat]
    BY <2>1, Zenon
  <2>3. ends \in Ends
    BY <1>5, <2>2, Zenon DEF Ends
  <2> HIDE DEF ends
  <2> QED
    BY <2>3, Zenon DEF Handle, Handles
<1>7. /\ DOMAIN fab' = DOMAIN fab /\ \A e \in DOMAIN fab : fab'[e].gen = fab[e].gen
      /\ \A e \in DOMAIN fab : fab'[e] \in [gen : Nat, taken : SUBSET e]
  BY <1>1, TakeFacts, Zenon
<1>8. /\ child' \in [AllRoles -> Handles] /\ child'[r] = Handle(ends)
      /\ \A x \in AllRoles : x # r => child'[x] = child[x]
  BY <1>1, <1>3, <1>6, ZenonT(60) DEF Typed
<1>9. child'[r].tracked /\ child'[r].up /\ ~child'[r].watched /\ child'[r].ends = ends
  BY <1>8 DEF Handle
<1>10. Typed'
  <2>1. netSeq' \in Nat
    BY <1>1, SMTT(30) DEF Typed
  <2> QED
    BY <1>1, <1>2, <1>7, <1>8, <2>1, ZenonT(60) DEF Typed
<1>11. Children'
  BY <1>1, <1>2, <1>3, <1>8, <1>9, ZenonT(60) DEF Children, FleetRoles, f
<1>12. Scripts'
  <2>1. Unwatched' \subseteq Unwatched \cup {r} /\ r \in Unwatched'
    BY <1>1, <1>3, <1>8, <1>9, ZenonT(60) DEF Unwatched, FleetRoles, f
  <2>2. after = "one" => r \in armed
    BY <1>2, <1>r, Zenon DEF Selective
  <2> QED
    BY <1>1, <1>2, <2>1, <2>2, ZenonT(60) DEF Scripts, T, f
<1>13. Advertised'
  <2>1. after = "one" => r # "net"
    BY <1>2, <1>r, ZenonT(60) DEF Selective
  <2> QED
    BY <1>1, <1>2, <2>1, Zenon DEF Advertised
<1>14. Paid'
  BY <1>1, <1>2, ZenonT(60) DEF Paid
<1>15. Wired'
  <2>1. \A q \in PlanOf[f][r] : Current(r, q)'
    BY <1>3, <1>4, <1>7, <1>9, ZenonT(60) DEF Current
  <2>2. DOMAIN child'[r].ends = PlanOf[f][r]
    BY <1>3, <1>9, Zenon
  <2>3. Next1("start") /\ Head(script).role = r
    BY <1>r, Zenon DEF StartChild, h
  <2>4. /\ DOMAIN child'[r].ends = PlanOf[srv.fleet][r]
        /\ \A q \in PlanOf[srv.fleet][r] :
             \/ Current(r, q)'
             \/ "start" \in {"confer", "same"} /\ child'[r].ends[q] = child[r].ends[q]
                  /\ child[r].up /\ ("start" = "confer" => q # Head(script).peer)
    BY <2>1, <2>2, Zenon DEF f
  <2>5. UNCHANGED <<srv, pc>> /\ "start" \in {"start", "confer", "supersede", "same"}
    BY <1>1, Zenon
  <2> HIDE DEF ends
  <2> QED
    BY <1>3, <1>7, <1>8, <2>3, <2>4, <2>5, WiredBy, ZenonT(60)
<1> QED
  BY <1>10, <1>11, <1>12, <1>13, <1>14, <1>15, ZenonT(60) DEF DInv

\* A survivor swaps one of its ends for that of the new pair, or has died meanwhile.
LEMMA ConferKeeps ==
  ASSUME DInv, conferPeerFD
  PROVE  DInv'
<1> DEFINE h == Head(script)
           S == CallsOf(script)
           T == CallsOf(script')
           f == srv.fleet
<1>   /\ Typed /\ Children /\ Scripts /\ Advertised /\ Paid /\ Wired
      /\ f \in Fleets /\ FleetRoles \subseteq AllRoles /\ script # <<>>
  BY FleetKnown, ZenonT(60) DEF DInv, conferPeerFD, Next1
<1>2. /\ pc = "script" /\ script' \in Seq(Step) /\ h \in Step /\ h.op = "confer" /\ h \in S
      /\ S = {h} \cup T /\ Fitting(f, script) /\ Fitting(f, script')
      /\ after = "one" => /\ Selective(S, armed) /\ Selective(T, armed)
                          /\ Starting(S) => Starting(T)
  BY StepTaken DEF conferPeerFD
<1>r. PICK to \in AllRoles, p \in AllRoles : to = h.role /\ p = h.peer
  BY <1>2, Arguments, Zenon
<1> DEFINE old == child[to].ends
           new == [q \in DOMAIN old \cup {p} |-> IF q = p THEN fab[Pair(to, p)].gen ELSE old[q]]
           ends == IF child[to].up THEN new ELSE old
<1>1. /\ UNCHANGED <<opts, srv, sending, exitq, pc, after, armed, down, restarts,
                     rebuilds, netSeq, ready, addr, cancelled>>
      /\ fab' = Take(to, {p})
  BY <1>r, Zenon DEF conferPeerFD
<1>3. child[to].tracked /\ keepKeyCh(f, to) /\ Pair(to, p) \in DOMAIN fab
  BY <1>2, <1>r, Zenon DEF conferPeerFD, conferPeerFDSends, Available
<1>4. to \in AllRoles /\ p \in PlanOf[f][to]
  <2>1. Suits(f, h)
    BY <1>2, Zenon DEF Fitting
  <2> QED
    BY <1>2, <1>3, <1>r, <2>1, Zenon DEF Suits
<1>5. DOMAIN old = PlanOf[f][to] /\ DOMAIN old \cup {p} = PlanOf[f][to]
  BY <1>3, <1>4, Zenon DEF Wired
<1>6. child[to] \in Handles /\ child \in [AllRoles -> Handles] /\ old \in Ends
  BY <1>4, Zenon DEF Typed, Handles
<1>7. child' = [child EXCEPT ![to] = [child[to] EXCEPT !.ends = ends]]
  <2>1. CASE child[to].up
    BY <1>4, <1>6, <1>r, <2>1, Zenon DEF conferPeerFD, Handles
  <2>2. CASE ~child[to].up
    <3>1. child' = child
      BY <1>r, <2>2, Zenon DEF conferPeerFD
    <3>2. [child[to] EXCEPT !.ends = old] = child[to]
      BY <1>6 DEF Handles
    <3>3. [child EXCEPT ![to] = child[to]] = child
      BY <1>6
    <3> QED
      BY <2>2, <3>1, <3>2, <3>3, Zenon
  <2> QED
    BY <2>1, <2>2, Zenon
<1> HIDE DEF h, S, T, f, old
<1>8. new \in Ends /\ ends \in Ends
  <2>1. PICK P \in SUBSET AllRoles : old \in [P -> Nat]
    BY <1>6, Zenon DEF Ends
  <2>2. fab[Pair(to, p)].gen \in Nat
    BY <1>3, Zenon DEF Typed
  <2>3. DOMAIN old = P /\ DOMAIN old \cup {p} = P
    BY <1>5, <2>1, Zenon
  <2>4. new \in [P -> Nat]
    BY <2>1, <2>2, <2>3, Zenon
  <2>5. new \in Ends
    BY <2>4, Zenon DEF Ends
  <2> HIDE DEF new
  <2> QED
    BY <1>6, <2>5, Zenon
<1>9. /\ DOMAIN ends = PlanOf[f][to] /\ (child[to].up => ends[p] = fab[Pair(to, p)].gen)
      /\ \A q \in PlanOf[f][to] : q # p => ends[q] = old[q]
  <2>1. /\ DOMAIN new = PlanOf[f][to] /\ new[p] = fab[Pair(to, p)].gen
        /\ \A q \in PlanOf[f][to] : q # p => new[q] = old[q]
    BY <1>4, <1>5, Zenon
  <2> HIDE DEF new
  <2> QED
    BY <1>5, <2>1, Zenon
<1> HIDE DEF ends, new
<1>10. /\ child' \in [AllRoles -> Handles]
       /\ child'[to].tracked = child[to].tracked /\ child'[to].up = child[to].up
       /\ child'[to].watched = child[to].watched /\ child'[to].ends = ends
       /\ \A x \in AllRoles : x # to => child'[x] = child[x]
  <2>1. [child[to] EXCEPT !.ends = ends] \in Handles
    BY <1>6, <1>8, Zenon DEF Handles
  <2>2. child'[to] = [child[to] EXCEPT !.ends = ends]
    BY <1>4, <1>6, <1>7, Zenon
  <2> QED
    BY <1>4, <1>6, <1>7, <2>1, <2>2, Zenon DEF Handles
<1>11. /\ DOMAIN fab' = DOMAIN fab /\ \A e \in DOMAIN fab : fab'[e].gen = fab[e].gen
       /\ \A e \in DOMAIN fab : fab'[e] \in [gen : Nat, taken : SUBSET e]
  BY <1>1, TakeFacts, Zenon
<1>12. Typed'
  BY <1>1, <1>2, <1>10, <1>11, Zenon DEF Typed
<1>13. Children'
  BY <1>1, <1>2, <1>10, Zenon DEF Children, FleetRoles
<1>14. Scripts'
  <2>1. Unwatched' = Unwatched
    BY <1>1, <1>10, Zenon DEF Unwatched, FleetRoles
  <2> QED
    BY <1>1, <1>2, <2>1, Zenon DEF Scripts, S, T, f
<1>15. Advertised'
  BY <1>1, <1>2, Zenon DEF Advertised
<1>16. Paid'
  BY <1>1, <1>2, ZenonT(60) DEF Paid
<1>17. Wired'
  <2>1. child[to].up => Current(to, p)'
    BY <1>3, <1>9, <1>10, <1>11, Zenon DEF Current
  <2>2. \A q \in PlanOf[f][to] : q # p => child'[to].ends[q] = child[to].ends[q]
    BY <1>9, <1>10, Zenon DEF old
  <2>3. Next1("confer") /\ Head(script).role = to /\ Head(script).peer = p
    BY <1>r, Zenon DEF conferPeerFD, h
  <2>4. child'[to].up =>
          \A q \in PlanOf[srv.fleet][to] :
            \/ Current(to, q)'
            \/ /\ "confer" \in {"confer", "same"} /\ child'[to].ends[q] = child[to].ends[q]
               /\ child[to].up /\ ("confer" = "confer" => q # Head(script).peer)
    BY <1>10, <2>1, <2>2, <2>3, Zenon DEF f
  <2>5. DOMAIN child'[to].ends = PlanOf[srv.fleet][to]
    BY <1>9, <1>10, Zenon DEF f
  <2>6. UNCHANGED <<srv, pc>> /\ "confer" \in {"start", "confer", "supersede", "same"}
    BY <1>1, Zenon
  <2> QED
    BY <1>10, <1>11, <2>3, <2>4, <2>5, <2>6, WiredBy, SMTT(60)
<1> QED
  BY <1>12, <1>13, <1>14, <1>15, <1>16, <1>17, Zenon DEF DInv

\* A handle is dropped to make room for a new one, or is only looked at.
LEMMA OtherKeeps ==
  ASSUME DInv, ScriptOther
  PROVE  DInv'
<1> DEFINE h == Head(script)
           S == CallsOf(script)
           T == CallsOf(script')
           f == srv.fleet
           r == h.role
<1>   /\ Typed /\ Children /\ Scripts /\ Advertised /\ Paid /\ Wired
      /\ FleetRoles \subseteq AllRoles /\ script # <<>>
  BY FleetKnown, Zenon DEF DInv, ScriptOther, Next1
<1>1. UNCHANGED <<opts, srv, fab, sending, exitq, pc, after, armed, down, restarts,
                  rebuilds, netSeq, ready, addr, cancelled>>
  BY Zenon DEF ScriptOther
<1>2. PICK op \in {"supersede", "same"} :
        /\ Next1(op)
        /\ op = "supersede" => child' = [child EXCEPT ![r] = Absent]
        /\ op = "same" => child' = child /\ child[r].tracked
  BY Zenon DEF ScriptOther, Next1, Possible
<1>3. /\ pc = "script" /\ script' \in Seq(Step) /\ h \in Step /\ h.op = op /\ h \in S
      /\ S = {h} \cup T /\ Fitting(f, script')
      /\ after = "one" => /\ Selective(S, armed) /\ Selective(T, armed)
                          /\ Starting(S) => Starting(T)
  BY <1>2, StepTaken, Zenon
<1>4. r \in AllRoles
  BY <1>3, Arguments, Zenon
<1> HIDE DEF h, S, T, f, r
<1>5. /\ child' \in [AllRoles -> Handles]
      /\ \A x \in AllRoles : x # r => child'[x] = child[x]
      /\ op = "supersede" => child'[r] = Absent
      /\ op = "same" => child'[r] = child[r]
  BY <1>2, <1>4, AbsentIsHandle, Zenon DEF Typed
<1>6. Typed'
  BY <1>1, <1>3, <1>5, Zenon DEF Typed
<1>7. Children'
  BY <1>1, <1>3, <1>5, AbsentIsHandle, Zenon DEF Children, FleetRoles
<1>8. Scripts'
  <2>1. Unwatched' \subseteq Unwatched /\ (op = "same" => Unwatched' = Unwatched)
    BY <1>1, <1>5, AbsentIsHandle, Zenon DEF Unwatched, FleetRoles
  <2>2. after = "one" => Starting(T) \/ Unwatched' # {}
    <3>1. CASE op = "supersede"
      BY <1>3, <3>1, Zenon DEF Selective, Starting
    <3>2. CASE op = "same"
      BY <1>3, <2>1, <3>2, Zenon DEF Scripts, S
    <3> QED
      BY <3>1, <3>2, Zenon
  <2> QED
    BY <1>1, <1>3, <2>1, <2>2, Zenon DEF Scripts, T, f
<1>9. Advertised'
  BY <1>1, <1>3, Zenon DEF Advertised
<1>10. Paid'
  BY <1>1, <1>3, Zenon DEF Paid
<1>11. Wired'
  <2>1. Head(script).role = r
    BY Zenon DEF r, h
  <2>2. /\ child'[r].tracked => op = "same" /\ child'[r] = child[r] /\ child[r].tracked
        /\ child'[r].up => op = "same" /\ child'[r] = child[r] /\ child[r].up
    BY <1>5, AbsentIsHandle, Zenon
  <2>3. child'[r].tracked => DOMAIN child'[r].ends = PlanOf[srv.fleet][r]
    BY <1>4, <2>2, Zenon DEF Wired
  <2> QED
    BY <1>1, <1>2, <1>4, <1>5, <2>1, <2>2, <2>3, WiredBy, ZenonT(60)
<1> QED
  BY <1>6, <1>7, <1>8, <1>9, <1>10, <1>11 DEF DInv

-----------------------------------------------------------------------------
(***************************************************************************)
(* Roles without a process.                                                *)
(***************************************************************************)
\* Someone waits for r, or its exit is on its way.
Waited(r) == child[r].tracked \/ sending[r] > 0 \/ exitq[r] > 0

\* A role is waited for, is still to be started, or has had an exit discarded by a
\* selective restart; net, where supervise waits, is not of the last kind.
ToStart(r) == \E s \in CallsOf(script) : s.op = "start" /\ s.role = r
Covered(r) == Waited(r) \/ r \in dropped \/ (pc # "select" /\ ToStart(r))
Attended ==
  /\ pc \in {"select", "await", "script"} => \A r \in FleetRoles : Covered(r)
  /\ pc = "init" => dropped = {}
  /\ pc = "script" /\ after # "one" =>
       dropped = {} /\ \A s \in CallsOf(script) : s.op # "supersede"
  /\ pc = "select" => \A r \in FleetRoles : r = "net" => Waited(r)

\* A step that takes the watch of a role only with its exit, or discards the exit in
\* the wait for the roles that were killed.
LEMMA WatchingAttends ==
  ASSUME Attended, UNCHANGED <<srv, pc, after, script>>,
         dropped \subseteq dropped', pc # "await" => dropped' = dropped,
         \A r \in FleetRoles : Waited(r) => Waited(r)' \/ (pc = "await" /\ r \in dropped')
  PROVE  Attended'
<1>1. \A r \in FleetRoles : Covered(r) => Covered(r)'
  BY Zenon DEF Covered, ToStart
<1>2. FleetRoles' = FleetRoles
  BY Zenon DEF FleetRoles
<1> QED
  BY <1>1, <1>2, Zenon DEF Attended

\* The watchers, the processes, the context and the caller.
LEMMA OthersAttend ==
  ASSUME DInv, Attended,
         \/ \E r \in AllRoles : Reap(r) \/ Die(r)
         \/ ReapKilled \/ NotifyStep \/ ContextKill \/ Stop \/ NetReady \/ Terminated
         \/ UNCHANGED vars
  PROVE  Attended'
<1>   /\ sending \in [AllRoles -> Nat] /\ exitq \in [AllRoles -> Nat] /\ Typed
      /\ child \in [AllRoles -> Handles] /\ FleetRoles \subseteq AllRoles
  BY FleetKnown, Zenon DEF DInv, Typed
<1>1. ASSUME NEW r \in AllRoles, Reap(r)
      PROVE  Attended'
  <2>1. UNCHANGED <<srv, pc, after, script, dropped, exitq>> /\ child' = Dropped({r})
    BY <1>1, Zenon DEF Reap, Rest
  <2>2. sending' = [sending EXCEPT ![r] = @ + 1]
    BY <1>1, Zenon DEF Reap
  <2>3. sending'[r] > 0 /\ \A x \in AllRoles : x # r => sending'[x] = sending[x]
    BY <2>2
  <2>4. \A x \in AllRoles : x # r => child'[x] = child[x]
    BY <2>1, Zenon DEF Dropped
  <2>5. \A x \in FleetRoles : Waited(x) => Waited(x)'
    BY <2>1, <2>3, <2>4, Zenon DEF Waited
  <2> QED
    BY <2>1, <2>5, WatchingAttends, Zenon
<1>2. ASSUME NEW r \in AllRoles, Die(r)
      PROVE  Attended'
  <2>1. UNCHANGED <<srv, pc, after, script, dropped, sending, exitq>>
    BY <1>2, Zenon DEF Die, Rest
  <2>2. \A x \in AllRoles : child'[x].tracked = child[x].tracked
    BY <1>2, Zenon DEF Die, Handles
  <2>3. \A x \in FleetRoles : Waited(x) => Waited(x)'
    BY <2>1, <2>2, Zenon DEF Waited
  <2> QED
    BY <2>1, <2>3, WatchingAttends, Zenon
<1>3. ASSUME ReapKilled
      PROVE  Attended'
  <2>1. UNCHANGED <<srv, pc, after, script, exitq>> /\ child' = Dropped(Reapable)
    BY <1>3, Zenon DEF ReapKilled, Rest
  <2>2. PICK late \in SUBSET Reapable :
          /\ IF pc \in {"drain", "reap"} THEN late = {}
             ELSE IF pc = "await" THEN Cardinality(late) <= MaxLate ELSE late = Reapable
          /\ sending' = [r \in AllRoles |-> IF r \in late THEN sending[r] + 1 ELSE sending[r]]
          /\ dropped' = IF pc = "await" THEN dropped \cup (Reapable \ late) ELSE dropped
    BY <1>3, Zenon DEF ReapKilled
  <2>3. \A x \in AllRoles : sending'[x] = IF x \in late THEN sending[x] + 1 ELSE sending[x]
    BY <2>2, Zenon
  <2>4. \A x \in AllRoles : (x \in late \/ sending[x] > 0) => sending'[x] > 0
    BY <2>3
  <2>5. \A x \in AllRoles : x \notin Reapable => child'[x] = child[x]
    BY <2>1, Zenon DEF Dropped
  <2>6. CASE pc \in {"drain", "reap"}
    BY <2>1, <2>6, Zenon DEF Attended
  <2>7. CASE pc \notin {"drain", "reap"}
    <3>1. \A x \in FleetRoles : Waited(x) => Waited(x)' \/ (pc = "await" /\ x \in dropped')
      <4> SUFFICES ASSUME NEW x \in FleetRoles, Waited(x), ~Waited(x)'
                   PROVE  pc = "await" /\ x \in dropped'
        OBVIOUS
      <4>1. x \in Reapable /\ x \notin late
        BY <2>1, <2>4, <2>5, Zenon DEF Waited
      <4> QED
        BY <2>2, <2>7, <4>1, Zenon
    <3>2. dropped \subseteq dropped' /\ (pc # "await" => dropped' = dropped)
      BY <2>2, Zenon
    <3> QED
      BY <2>1, <3>1, <3>2, WatchingAttends, Zenon
  <2> QED
    BY <2>6, <2>7, Zenon
<1>4. ASSUME NEW S, Notify(S)
      PROVE  Attended'
  <2>1. UNCHANGED <<srv, pc, after, script, dropped, child>>
    BY <1>4, Zenon DEF Notify, Rest
  <2>2. \A x \in AllRoles :
          /\ x \in S => exitq'[x] = exitq[x] + sending[x] /\ sending[x] > 0
          /\ x \notin S => exitq'[x] = exitq[x] /\ sending'[x] = sending[x]
    BY <1>4, Zenon DEF Notify
  <2>3. \A x \in AllRoles : x \in S => exitq'[x] > 0
    BY <2>2
  <2>4. \A x \in FleetRoles : Waited(x) => Waited(x)'
    BY <2>1, <2>2, <2>3, Zenon DEF Waited
  <2> QED
    BY <2>1, <2>4, WatchingAttends, Zenon
<1>5. ASSUME ContextKill
      PROVE  Attended'
  <2>1. UNCHANGED <<srv, pc, after, script, dropped, sending, exitq>> /\ child' = Killed(Tracked)
    BY <1>5, Zenon DEF ContextKill, Rest, killTracked
  <2>2. \A x \in AllRoles : child'[x].tracked = child[x].tracked
    BY <2>1, Zenon DEF Killed, Handles
  <2>3. \A x \in FleetRoles : Waited(x) => Waited(x)'
    BY <2>1, <2>2, Zenon DEF Waited
  <2> QED
    BY <2>1, <2>3, WatchingAttends, Zenon
<1>6. ASSUME UNCHANGED <<srv, pc, after, script, dropped, sending, exitq, child>>
      PROVE  Attended'
  <2>1. \A x \in FleetRoles : Waited(x) => Waited(x)'
    BY <1>6, Zenon DEF Waited
  <2> QED
    BY <1>6, <2>1, WatchingAttends, Zenon
<1>7. Stop \/ NetReady \/ Terminated \/ UNCHANGED vars
        => UNCHANGED <<srv, pc, after, script, dropped, sending, exitq, child>>
  BY Zenon DEF Stop, NetReady, Terminated, Rest, vars
<1> QED
  BY <1>1, <1>2, <1>3, <1>4, <1>5, <1>6, <1>7, ZenonT(60) DEF NotifyStep

\* The calls of a script: only the call that starts a role ends the need for it.
LEMMA CallsAttend ==
  ASSUME DInv, Attended, ScriptReplace \/ StartChild \/ conferPeerFD \/ ScriptOther
  PROVE  Attended'
<1> DEFINE h == Head(script)
           S == CallsOf(script)
           T == CallsOf(script')
<1>1. PICK op \in {"replace", "start", "confer", "supersede", "same"} :
        /\ Next1(op)
        /\ op = "start" => StartChild
        /\ op # "start" => dropped' = dropped
        /\ op = "supersede" => child' = [child EXCEPT ![h.role] = Absent]
  BY ZenonT(60) DEF ScriptReplace, StartChild, conferPeerFD, ScriptOther, Next1
<1>2. /\ pc = "script" /\ h.op = op /\ h \in Step /\ h \in S /\ S = {h} \cup T
      /\ after = "one" => Selective(S, armed)
  BY <1>1, StepTaken, Zenon
<1>3. UNCHANGED <<srv, pc, after, sending, exitq>>
  BY Zenon DEF ScriptReplace, StartChild, conferPeerFD, ScriptOther
<1>4. /\ child \in [AllRoles -> Handles] /\ FleetRoles \subseteq AllRoles /\ FleetRoles' = FleetRoles
      /\ op # "replace" => h.role \in AllRoles
  BY <1>2, <1>3, FleetKnown, Arguments, Zenon DEF DInv, Typed, FleetRoles
<1>5. dropped' \subseteq dropped
  BY <1>1, Zenon DEF StartChild
<1>6. ASSUME NEW r \in FleetRoles
      PROVE  Covered(r)'
  <2>1. Waited(r) \/ r \in dropped \/ \E s \in S : s.op = "start" /\ s.role = r
    BY <1>2, <1>6, Zenon DEF Attended, Covered, ToStart
  <2>2. ASSUME child'[r].tracked = child[r].tracked, r \in dropped => r \in dropped',
               \A s \in S : s.op = "start" /\ s.role = r => s \in T
        PROVE  Covered(r)'
    BY <1>2, <1>3, <2>1, <2>2, Zenon DEF Covered, Waited, ToStart
  <2>3. CASE op = "start"
    <3>1. /\ child' = [child EXCEPT ![h.role] = Handle([p \in PeersAtStart(h.role, h.peer) |->
                                                          fab[Pair(h.role, p)].gen])]
          /\ dropped' = dropped \ {h.role}
      BY <1>1, <2>3, Zenon DEF StartChild
    <3>2. CASE r = h.role
      <4>1. child'[r].tracked
        BY <1>2, <1>4, <3>1, <3>2, Zenon DEF Handle
      <4> QED
        BY <4>1, Zenon DEF Covered, Waited
    <3>3. CASE r # h.role
      <4>1. child'[r].tracked = child[r].tracked
        BY <1>4, <3>1, <3>3, Zenon
      <4>2. \A s \in S : s.op = "start" /\ s.role = r => s \in T
        BY <1>2, <3>3, Zenon
      <4>3. r \in dropped => r \in dropped'
        BY <3>1, <3>3, Zenon
      <4> QED
        BY <2>2, <4>1, <4>2, <4>3, Zenon
    <3> QED
      BY <3>2, <3>3, Zenon
  <2>4. CASE op = "supersede" /\ r = h.role
    <3>1. after = "one"
      BY <1>2, <2>4, Zenon DEF Attended
    <3>2. \E t \in S : t.op = "start" /\ t.role = r
      BY <1>2, <2>4, <3>1, Zenon DEF Selective
    <3> QED
      BY <1>2, <1>3, <2>4, <3>2, Zenon DEF Covered, ToStart
  <2>5. CASE op # "start" /\ ~(op = "supersede" /\ r = h.role)
    <3>1. child'[r].tracked = child[r].tracked
      <4>1. CASE op = "supersede"
        BY <1>1, <1>4, <2>5, <4>1, Zenon
      <4>2. CASE op = "confer"
        <5>1. conferPeerFD
          <6>1. h.op = "confer"
            BY <1>2, <4>2, Zenon
          <6>2. ScriptReplace => h.op = "replace"
            BY Zenon DEF ScriptReplace, Next1
          <6>3. StartChild => h.op = "start"
            BY Zenon DEF StartChild, Next1
          <6>4. ScriptOther => h.op \in {"supersede", "same"}
            BY Zenon DEF ScriptOther, Next1
          <6> QED
            BY <6>1, <6>2, <6>3, <6>4, Zenon
        <5>2. \E t, e : child' = child \/ child' = [child EXCEPT ![t].ends = e]
          BY <5>1, Zenon DEF conferPeerFD
        <5> HIDE DEF h, S, T
        <5> QED
          BY <1>4, <5>2 DEF Handles
      <4>3. CASE op \in {"replace", "same"}
        BY <1>1, <4>3, ZenonT(60) DEF ScriptReplace, StartChild, conferPeerFD, ScriptOther, Next1
      <4> QED
        BY <2>5, <4>1, <4>2, <4>3, Zenon
    <3>2. \A s \in S : s.op = "start" /\ s.role = r => s \in T
      BY <1>2, <2>5, Zenon
    <3> QED
      BY <1>1, <2>2, <2>5, <3>1, <3>2, Zenon
  <2> QED
    BY <2>3, <2>4, <2>5, Zenon
<1> QED
  BY <1>2, <1>3, <1>4, <1>5, <1>6, Zenon DEF Attended

\* An exit is received: what is taken from the channel counts as discarded, unless
\* the role is started again.
LEMMA ReceiveExitAttends ==
  ASSUME DInv, Attended, NEW first \in AllRoles, ReceiveExit(first)
  PROVE  Attended'
<1>   /\ Typed /\ pc = "select" /\ FleetRoles \subseteq AllRoles
      /\ exitq \in [AllRoles -> Nat] /\ child \in [AllRoles -> Handles]
  BY FleetKnown, Zenon DEF DInv, Typed, ReceiveExit
<1> DEFINE left == [exitq EXCEPT ![first] = @ - 1]
<1>1. \A r \in AllRoles : r # first => left[r] = exitq[r]
  BY Zenon
<1> HIDE DEF left
<1>2. UNCHANGED <<srv, sending>> /\ FleetRoles' = FleetRoles
  BY Zenon DEF ReceiveExit, FleetRoles
<1>3. CASE cancelled # "no" \/ BudgetSpent
  BY <1>3, Zenon DEF ReceiveExit, Attended
<1>4. CASE ~(cancelled # "no" \/ BudgetSpent)
  <2>1. PICK got \in SUBSET {r \in AllRoles : left[r] > 0} :
          LET p == tryRestartOne(escalateRestartTrigger(first, got))
              go == p.need \subseteq Tracked IN
          /\ exitq' = [r \in AllRoles |-> IF r \in got THEN 0 ELSE left[r]]
          /\ pc' = IF ~go THEN "full" ELSE IF p.kill = {} THEN "script" ELSE "await"
          /\ child' = IF go THEN Killed(p.kill) ELSE child
          /\ after' = "one"
          /\ dropped' = dropped \cup {first} \cup got
    BY <1>4, Zenon DEF ReceiveExit, left
  <2>2. \E K : child' = Killed(K) \/ child' = child
    BY <2>1, Zenon
  <2>3. \A r \in AllRoles : child'[r].tracked = child[r].tracked
    BY <2>2, Zenon DEF Killed, Handles
  <2>4. /\ pc' \in {"full", "script", "await"} /\ after' = "one"
        /\ dropped' = dropped \cup {first} \cup got
        /\ \A r \in AllRoles : r \notin dropped' => exitq'[r] = exitq[r]
    BY <1>1, <2>1, Zenon
  <2>5. \A r \in FleetRoles : Waited(r) \/ r \in dropped
    BY Zenon DEF Attended, Covered
  <2>6. \A r \in FleetRoles : Covered(r)'
    BY <1>2, <2>3, <2>4, <2>5, Zenon DEF Covered, Waited
  <2> QED
    BY <1>2, <2>4, <2>6, Zenon DEF Attended
<1> QED
  BY <1>3, <1>4, Zenon

\* The scripts of the first start and of a full restart start every role.
LEMMA LaunchAttends ==
  ASSUME DInv, Attended, Start \/ drainExits
  PROVE  Attended'
<1> Typed /\ srv.fleet \in Fleets
  BY FleetKnown, Zenon DEF DInv
<1>1. CASE drainExits
  <2>1. pc' = "script" /\ script' = respawnAll /\ dropped' = {} /\ srv' = srv
    BY <1>1, Zenon DEF drainExits
  <2>2. /\ \A r \in FleetRoles : \E s \in CallsOf(script') : s.op = "start" /\ s.role = r
        /\ \A s \in CallsOf(script') : s.op # "supersede"
    BY <2>1, Respawn, Zenon DEF FleetRoles
  <2> QED
    BY <2>1, <2>2, Zenon DEF Attended, Covered, ToStart, FleetRoles
<1>2. CASE Start /\ pc' = "refused"
  BY <1>2, Zenon DEF Attended
<1>3. CASE Start /\ pc' # "refused"
  <2> DEFINE f == FleetOf(opts)
  <2>a. StartAccepts(opts) /\ Launchable(PlanOf[f]) /\ f \in Explored
    BY <1>3, Zenon DEF Start
  <2>b. /\ srv' = [fleet |-> f, peers |-> opts.peers, once |-> opts.once,
                   max |-> IF opts.once THEN 0 ELSE MaxRestarts]
        /\ pc' = "script" /\ script' = Starts(startRoleChildren[f])
        /\ pc = "init" /\ dropped' = dropped
    BY <1>3, <2>a, Zenon DEF Start
  <2> HIDE DEF f
  <2>1. f \in Fleets /\ srv'.fleet = f
    BY <2>a, <2>b, DaemonAssumption, Zenon
  <2>2. /\ \A r \in Roles(f) : \E s \in CallsOf(script') : s.op = "start" /\ s.role = r
        /\ \A s \in CallsOf(script') : s.op # "supersede"
    BY <2>1, <2>b, Launches, Zenon
  <2> QED
    BY <2>1, <2>2, <2>b, Zenon DEF Attended, Covered, ToStart, FleetRoles
<1> QED
  BY <1>1, <1>2, <1>3, Zenon

\* A script has ended: only discarded exits leave a role without one who waits for it,
\* and a selective restart has looked for net.
LEMMA EndAttends ==
  ASSUME DInv, Attended, BecomeReady \/ Settle \/ AwaitDown
  PROVE  Attended'
<1>   /\ Typed /\ FleetRoles \subseteq AllRoles /\ exitq \in [AllRoles -> Nat]
      /\ FleetRoles' = FleetRoles /\ UNCHANGED <<srv, sending, script, after>>
  BY FleetKnown, Zenon DEF DInv, Typed, BecomeReady, Settle, AwaitDown, FleetRoles
<1>1. CASE BecomeReady
  <2>1. /\ pc = "script" /\ script = <<>> /\ after # "one" /\ pc' \in {"once", "select"}
        /\ UNCHANGED <<exitq, dropped>>
    BY <1>1, Zenon DEF BecomeReady
  <2>2. pc' = "select" => child' = Armed(FleetRoles)
    BY <1>1, Zenon DEF BecomeReady
  <2>3. CASE pc' = "select"
    <3>1. \A r \in AllRoles : child'[r].tracked = child[r].tracked
      BY <2>2, <2>3, ArmedFacts, Zenon
    <3>2. \A r \in FleetRoles : Waited(r)
      BY <2>1, NothingPending, Zenon DEF Attended, Covered, ToStart
    <3>3. \A r \in FleetRoles : Waited(r)'
      BY <2>1, <3>1, <3>2, Zenon DEF Waited
    <3> QED
      BY <2>3, <3>3, Zenon DEF Attended, Covered
  <2>4. CASE pc' = "once"
    BY <2>4, Zenon DEF Attended
  <2> QED
    BY <2>1, <2>3, <2>4, Zenon
<1>2. CASE Settle
  <2>1. /\ pc = "script" /\ script = <<>> /\ after = "one" /\ dropped' = dropped \cup Buffered
        /\ childAlive("net") => pc' = "select" /\ child' = Armed(armed)
        /\ ~childAlive("net") => pc' = "full"
    BY <1>2, Zenon DEF Settle
  <2>2. CASE childAlive("net")
    <3>1. \A r \in AllRoles : child'[r].tracked = child[r].tracked
      BY <2>1, <2>2, ArmedFacts, Zenon
    <3>2. \A r \in FleetRoles : Waited(r) \/ r \in dropped
      BY <2>1, NothingPending, Zenon DEF Attended, Covered, ToStart
    <3>3. \A r \in FleetRoles : Waited(r)' \/ r \in dropped'
      BY <2>1, <3>1, <3>2, Zenon DEF Waited, Buffered
    <3>4. \A r \in FleetRoles : r = "net" => Waited(r)'
      BY <2>2, <3>1, Zenon DEF Waited, childAlive
    <3> QED
      BY <2>1, <2>2, <3>3, <3>4, Zenon DEF Attended, Covered
  <2>3. CASE ~childAlive("net")
    BY <2>1, <2>3, Zenon DEF Attended
  <2> QED
    BY <2>2, <2>3, Zenon
<1>3. CASE AwaitDown
  <2>1. /\ pc = "await" /\ pc' = "script" /\ dropped' = dropped \cup Buffered /\ child' = child
    BY <1>3, Zenon DEF AwaitDown
  <2>2. after = "one"
    BY <2>1, Zenon DEF DInv, Scripts
  <2>3. \A r \in FleetRoles : Covered(r)
    BY <2>1, Zenon DEF Attended
  <2>4. \A r \in FleetRoles : Covered(r)'
    BY <2>1, <2>3, Zenon DEF Covered, Waited, Buffered, ToStart
  <2> QED
    BY <2>1, <2>2, <2>4, Zenon DEF Attended
<1> QED
  BY <1>1, <1>2, <1>3, Zenon

\* Every step leaves each role attended.
LEMMA StepAttends == DInv /\ Attended /\ [Next]_vars => Attended'
<1> SUFFICES ASSUME DInv, Attended, [Next]_vars
             PROVE  Attended'
  OBVIOUS
<1>1. CASE ScriptFails \/ ReadyTimeout \/ KillFleet \/ drainTimeout \/ ParentDone \/ Cleanup \/ Finish
  <2>1. pc' \notin {"init", "select", "await", "script"}
    BY <1>1, ZenonT(60) DEF ScriptFails, ReadyTimeout, KillFleet, drainTimeout, ParentDone,
       Cleanup, Finish
  <2> QED
    BY <2>1, Zenon DEF Attended
<1>2. CASE WaitChildren
  <2>1. pc' \in {"once", "cleanup"}
    BY <1>2, Zenon DEF WaitChildren
  <2> QED
    BY <2>1, Zenon DEF Attended
<1>3. CASE Supervise
  BY <1>1, <1>2, <1>3, CallsAttend, LaunchAttends, EndAttends, ReceiveExitAttends, SMTT(60)
     DEF Supervise
<1> QED
  BY <1>3, OthersAttend, Zenon DEF Next, Progress

-----------------------------------------------------------------------------
(***************************************************************************)
(* The theorems.                                                           *)
(***************************************************************************)
\* Before Start nothing runs.
LEMMA InitKeeps == Init => DInv
<1> SUFFICES ASSUME Init
             PROVE  DInv
  OBVIOUS
<1>1. child \in [AllRoles -> Handles] /\ \A r \in AllRoles : child[r] = Absent
  BY AbsentIsHandle, Zenon DEF Init
<1>2. sending \in [AllRoles -> Nat] /\ exitq \in [AllRoles -> Nat]
  BY Zenon DEF Init, NoExits
<1>3. DOMAIN fab = {} /\ script \in Seq(Step)
  BY DEF Init
<1>4. srv \in [fleet : Fleets, peers : BOOLEAN, once : BOOLEAN, max : {0, MaxRestarts}]
  BY Zenon DEF Init, Fleets
<1>5. Typed
  BY <1>1, <1>2, <1>3, <1>4, Zenon DEF Init, Typed, Places
<1>6. Children
  BY <1>1, AbsentIsHandle, Zenon DEF Init, Children
<1>7. Scripts /\ Advertised
  BY Zenon DEF Init, Scripts, Advertised
<1>8. Paid
  BY DEF Init, Paid
<1>9. Wired
  BY <1>1, AbsentIsHandle, Zenon DEF Wired
<1> QED
  BY <1>5, <1>6, <1>7, <1>8, <1>9, Zenon DEF DInv

\* Every step keeps the invariant.
LEMMA StepKeeps == DInv /\ [Next]_vars => DInv'
<1> SUFFICES ASSUME DInv, [Next]_vars
             PROVE  DInv'
  OBVIOUS
<1>1. CASE Supervise
  BY <1>1, StartKeeps, ReplaceKeeps, StartChildKeeps, ConferKeeps, OtherKeeps, ScriptFailsKeeps,
     BecomeReadyKeeps, ReadyTimeoutKeeps, AwaitDownKeeps, SettleKeeps, GivingUpKeeps, DrainKeeps,
     WaitChildrenKeeps, CleanupKeeps, FinishKeeps, ReceiveExitKeeps, SMTT(60)
     DEF Supervise
<1>2. CASE NetReady
  BY <1>2, NetReadyKeeps, Zenon
<1> QED
  BY <1>1, <1>2, OthersKeep, Zenon DEF Next, Progress

\* The invariant holds in every state supervise reaches, whatever dies and fails.
THEOREM Supervised == Spec => []DInv
BY InitKeeps, StepKeeps, PTL DEF Spec

\* Whenever supervise waits, every tracked child has a watcher, holds exactly the
\* channels of its grant and shares them with its live peers (armWatchers,
\* ReplacePair, conferPeerFD and the restart procedures), and a role without a
\* process has an exit on its way or one that a selective restart discarded.
THEOREM Whole == Spec => []FleetIsWhole
<1>1. DInv /\ Attended => FleetIsWhole
  <2> SUFFICES ASSUME DInv, Attended
               PROVE  FleetIsWhole
    OBVIOUS
  <2>   /\ Typed /\ Children /\ Scripts /\ Paid /\ Wired
        /\ srv.fleet \in Fleets /\ FleetRoles \subseteq AllRoles
    BY FleetKnown, Zenon DEF DInv
  <2>1. TypeOK
    <3>1. \A r \in AllRoles : /\ {child[r].tracked, child[r].up, child[r].watched} \subseteq BOOLEAN
                              /\ child[r].up => child[r].tracked
      BY Zenon DEF Typed, Handles, Children
    <3>2. \A e \in DOMAIN fab : fab[e].gen \in Nat /\ fab[e].taken \subseteq e
      BY Zenon DEF Typed
    <3>3. restarts \in 0 .. srv.max
      BY MaxIsNat DEF Typed, Paid
    <3> QED
      BY <3>1, <3>2, <3>3, Zenon DEF TypeOK, Typed, Places
  <2>2. WaitOwners
    BY Zenon DEF WaitOwners, Scripts, Unwatched, Tracked
  <2>3. HoldsItsGrants
    BY Zenon DEF HoldsItsGrants, Wired
  <2>4. Connected
    <3> SUFFICES ASSUME pc = "select", NEW r \in FleetRoles, NEW q \in PlanOf[srv.fleet][r],
                        child[r].up, child[q].up
                 PROVE  /\ q \in DOMAIN child[r].ends /\ r \in DOMAIN child[q].ends
                        /\ child[r].ends[q] = child[q].ends[r]
      BY Zenon DEF Connected
    <3>1. q \in FleetRoles /\ r \in PlanOf[srv.fleet][q]
      BY Edges, Zenon DEF FleetRoles
    <3>2. r \in AllRoles /\ q \in AllRoles /\ child[r].tracked /\ child[q].tracked
      BY <3>1, Zenon DEF Children
    <3>3. Current(r, q) /\ Current(q, r)
      BY <3>1, <3>2, Zenon DEF Wired
    <3>4. Pair(r, q) = Pair(q, r)
      BY Zenon DEF Pair
    <3> QED
      BY <3>1, <3>2, <3>3, <3>4, Zenon DEF Wired, Current
  <2>5. Accounted
    BY Zenon DEF Accounted, Attended, Covered, Waited
  <2> QED
    BY <2>1, <2>2, <2>3, <2>4, <2>5, Zenon DEF FleetIsWhole
<1>2. Init => Attended
  BY Zenon DEF Init, Attended
<1> QED
  BY <1>1, <1>2, InitKeeps, StepKeeps, StepAttends, PTL DEF Spec

\* A published address is that of the latest net process, and a server that has
\* stopped or failed to start leaves no process behind, and no ready file unless it
\* gave up on a net process that was still starting (waitReadyFile, the full restart
\* and the deferred part of supervise).
THEOREM Published == Spec => []AdvertisedIsRunning
<1>1. DInv => AdvertisedIsRunning
  BY Zenon DEF DInv, AdvertisedIsRunning, PublishedIsCurrent, NoOrphans, Advertised, Children
<1> QED
  BY <1>1, Supervised, PTL

\* supervise rebuilds its fleet at most MaxRestarts times, although a selective
\* restart that loses net gives its budget back (serve_unix.go:514).
THEOREM WithinBudget == Spec => []BudgetHolds
<1>1. DInv => BudgetHolds
  <2> SUFFICES ASSUME DInv
               PROVE  BudgetHolds
    OBVIOUS
  <2>1. srv.max \in Nat /\ rebuilds \in Nat /\ restarts \in Nat
    BY MaxIsNat, Zenon DEF DInv, Typed
  <2> QED
    BY <2>1 DEF DInv, Paid, BudgetHolds
<1> QED
  BY <1>1, Supervised, PTL

\* Options that pass Start's checks select a fleet.
LEMMA FleetOfIsFleet == \A o \in ServeOptions : FleetOf(o) \in Fleets
BY Zenon DEF FleetOf, Fleets

\* Options that pass Start's own checks select a fleet whose plan is sealed and
\* whose tables agree (plan.go and the tables of serve_unix.go).
THEOREM Accepted == Spec => []AcceptedIsLaunchable
<1>1. DInv => AcceptedIsLaunchable
  <2> SUFFICES ASSUME DInv
               PROVE  AcceptedIsLaunchable
    OBVIOUS
  <2>1. TableFits(FleetOf(opts))
    BY FleetOfIsFleet, Tables, Zenon DEF DInv, Typed
  <2> DEFINE f == FleetOf(opts)
             order == startRoleChildren[f]
  <2> HIDE DEF f, order
  <2>2. \A r \in Roles(f) : \E i \in 1 .. Len(order) :
          /\ order[i][1] = r /\ {order[i][2]} \cup Extra(f, r) = PlanOf[f][r]
          /\ \A j \in 1 .. Len(order) : order[j][1] = r => j = i
    <3> TAKE r \in Roles(f)
    <3>1. PICK i \in 1 .. Len(order) :
            order[i][1] = r /\ \A j \in 1 .. Len(order) : order[j][1] = r => j = i
      BY <2>1, Zenon DEF TableFits, f, order
    <3>2. {order[i][2]} \cup Extra(f, order[i][1]) = PlanOf[f][order[i][1]]
      BY <2>1, <3>1, Zenon DEF TableFits, f, order
    <3> QED
      BY <3>1, <3>2, Zenon
  <2> QED
    BY <2>1, <2>2, Zenon DEF TableFits, AcceptedIsLaunchable, f, order
<1> QED
  BY <1>1, Supervised, PTL
=============================================================================
