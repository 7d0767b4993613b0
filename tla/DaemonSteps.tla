----------------------------- MODULE DaemonSteps ----------------------------
(***************************************************************************)
(* The inductive invariant of Daemon; the steps taken outside a script     *)
(* (processes that end, watchers, exits, the drain and the cleanup), and   *)
(* those at which a script begins, ends or fails.                          *)
(***************************************************************************)
EXTENDS DaemonScripts

-----------------------------------------------------------------------------
(***************************************************************************)
(* Types.                                                                  *)
(***************************************************************************)
Ends == UNION {[P -> Nat] : P \in SUBSET AllRoles}
Handles == [tracked : BOOLEAN, up : BOOLEAN, watched : BOOLEAN, ends : Ends]

Places == {"init", "script", "select", "await", "full", "drain", "once", "cleanup",
           "reap", "done", "refused"}

Typed ==
  /\ opts \in ServeOptions
  /\ srv \in [fleet : Fleets, peers : BOOLEAN, once : BOOLEAN, max : {0, MaxRestarts}]
  /\ child \in [AllRoles -> Handles]
  /\ \A e \in DOMAIN fab : fab[e] \in [gen : Nat, taken : SUBSET e]
  /\ sending \in [AllRoles -> Nat] /\ exitq \in [AllRoles -> Nat]
  /\ pc \in Places /\ after \in {"boot", "one", "full"}
  /\ script \in Seq(Step)
  /\ armed \in SUBSET AllRoles /\ down \in SUBSET AllRoles
  /\ restarts \in Nat /\ rebuilds \in Nat /\ netSeq \in Nat /\ ready \in Nat /\ addr \in Nat
  /\ cancelled \in {"no", "close", "parent"}

-----------------------------------------------------------------------------
(***************************************************************************)
(* The inductive invariant.                                                *)
(***************************************************************************)
Unwatched == {r \in FleetRoles : child[r].tracked /\ ~child[r].watched}

\* Only roles of the fleet run, each under a handle; none after the end.
Children ==
  /\ \A r \in AllRoles : (child[r].up => child[r].tracked) /\ (child[r].tracked => r \in FleetRoles)
  /\ pc = "init" => \A r \in AllRoles : ~child[r].tracked
  /\ pc \in {"reap", "done", "refused"} =>
       (\A r \in AllRoles : ~child[r].up) /\ (ready = 0 \/ err = "ready")

\* The calls still to make suit the fleet, and a selective restart is one.
Scripts ==
  /\ pc \in {"await", "script"} => Fitting(srv.fleet, script)
  /\ (pc = "init" => after = "boot") /\ (pc = "await" => after = "one")
  /\ pc \in {"await", "script"} /\ after = "one" =>
       /\ Selective(CallsOf(script), armed)
       /\ Starting(CallsOf(script)) \/ Unwatched # {}
       /\ Unwatched \subseteq armed
  /\ pc = "select" => Unwatched = {}

\* The ready file names the net process that will be advertised.
Advertised ==
  /\ pc = "init" => ready = 0
  /\ pc = "script" /\ after # "one" => ready \in {0, netSeq} /\ (script # <<>> => ready = 0)
  /\ pc \in {"select", "await"} \/ (pc = "script" /\ after = "one") => addr = netSeq

\* Every restart under way is paid for; one that got its money back has a child
\* that nobody waits for, and ends in the drain.
Paid ==
  /\ rebuilds <= restarts /\ restarts <= srv.max /\ (pc = "init" => restarts = 0)
  /\ pc = "await" \/ (pc = "script" /\ after # "boot") => rebuilds < restarts
  /\ pc \in {"full", "drain"} => rebuilds < restarts \/ Unwatched # {}

\* A handle has its granted ends, and a process holds those of the current pairs
\* or is about to get the new one.
Current(r, q) == Pair(r, q) \in DOMAIN fab /\ child[r].ends[q] = fab[Pair(r, q)].gen
Wired ==
  /\ \A r \in AllRoles : child[r].tracked => DOMAIN child[r].ends = PlanOf[srv.fleet][r]
  /\ pc \in {"select", "await", "script"} =>
       \A r \in AllRoles : child[r].up =>
         \A q \in PlanOf[srv.fleet][r] :
           \/ Current(r, q)
           \/ /\ pc # "select"
              /\ \E s \in CallsOf(script) : Renews(s, r, q)

DInv == Typed /\ Children /\ Scripts /\ Advertised /\ Paid /\ Wired

-----------------------------------------------------------------------------
(***************************************************************************)
(* Steps of the processes and watchers.                                    *)
(***************************************************************************)
\* Processes end, and handles that are watched are dropped.
Fading ==
  /\ child' \in [AllRoles -> Handles]
  /\ \A r \in AllRoles :
       \/ child'[r] = child[r]
       \/ /\ child'[r].tracked = child[r].tracked /\ child'[r].watched = child[r].watched
          /\ child'[r].ends = child[r].ends /\ ~child'[r].up
       \/ child[r].watched /\ ~child'[r].tracked /\ ~child'[r].up

\* What is left of a handle with no process.
LEMMA AbsentIsHandle == Absent \in Handles /\ ~Absent.tracked /\ ~Absent.up
<1>1. <<>> \in Ends
  <2>1. <<>> \in [{} -> Nat]
    OBVIOUS
  <2> QED
    BY <2>1, Zenon DEF Ends
<1> QED
  BY <1>1, Zenon DEF Absent, Handles

\* The bounds are numbers.
LEMMA Bounds == MaxRestarts \in Nat /\ MaxDeaths \in Nat /\ MaxFaults \in Nat /\ MaxLate \in Nat
BY DaemonAssumption, Zenon

\* A fleet's roles are roles.
LEMMA FleetKnown == Typed => srv.fleet \in Fleets /\ FleetRoles \subseteq AllRoles
BY Tables, Zenon DEF Typed, TableFits, FleetRoles

\* A kill only ends processes.
LEMMA KilledFades ==
  ASSUME Typed, NEW S, child' = Killed(S)
  PROVE  Fading
<1> SUFFICES ASSUME NEW r \in AllRoles
             PROVE  /\ child'[r] \in Handles
                    /\ \/ child'[r] = child[r]
                       \/ /\ child'[r].tracked = child[r].tracked
                          /\ child'[r].watched = child[r].watched
                          /\ child'[r].ends = child[r].ends /\ ~child'[r].up
  BY Zenon DEF Killed, Fading
<1>1. child[r] \in Handles
  BY Zenon DEF Typed
<1>2. child'[r] = IF r \in S THEN [child[r] EXCEPT !.up = FALSE] ELSE child[r]
  BY Zenon DEF Killed
<1> QED
  BY <1>1, <1>2, Zenon DEF Handles

\* A watcher drops what it watches.
LEMMA DroppedFades ==
  ASSUME Typed, NEW S, S \subseteq Reapable, child' = Dropped(S)
  PROVE  Fading
<1> SUFFICES ASSUME NEW r \in AllRoles
             PROVE  /\ child'[r] \in Handles
                    /\ child'[r] = child[r] \/ (child[r].watched /\ ~child'[r].tracked /\ ~child'[r].up)
  BY Zenon DEF Dropped, Fading
<1>1. child[r] \in Handles
  BY Zenon DEF Typed
<1>2. child'[r] = IF r \in S THEN Absent ELSE child[r]
  BY Zenon DEF Dropped
<1>3. r \in S => child[r].watched
  BY Zenon DEF Reapable
<1> QED
  BY <1>1, <1>2, <1>3, AbsentIsHandle, Zenon

\* One process ends.
LEMMA DeathFades ==
  ASSUME Typed, NEW d \in AllRoles, child' = [child EXCEPT ![d].up = FALSE]
  PROVE  Fading
<1>1. child \in [AllRoles -> Handles]
  BY Zenon DEF Typed
<1>2. [child[d] EXCEPT !.up = FALSE] \in Handles
  BY <1>1, Zenon DEF Handles
<1>3. child' = [child EXCEPT ![d] = [child[d] EXCEPT !.up = FALSE]]
  BY <1>1, Zenon
<1>4. child' \in [AllRoles -> Handles]
  BY <1>1, <1>2, <1>3, Zenon
<1>5. \A r \in AllRoles : child'[r] = IF r = d THEN [child[d] EXCEPT !.up = FALSE] ELSE child[r]
  BY <1>1, <1>3, Zenon
<1>6. child[d] \in Handles
  BY <1>1, Zenon
<1> QED
  BY <1>4, <1>5, <1>6, Zenon DEF Fading, Handles

\* Nothing changes.
LEMMA SameFades ==
  ASSUME Typed, child' = child
  PROVE  Fading
BY Zenon DEF Typed, Fading

\* What such a step leaves.
LEMMA FadingFacts ==
  ASSUME Typed, Fading, srv' = srv
  PROVE  /\ Unwatched' = Unwatched
         /\ \A r \in AllRoles :
              /\ child'[r].up => child[r].up
              /\ child'[r].tracked => child[r].tracked /\ child'[r].ends = child[r].ends
              /\ (child[r].up => child[r].tracked) => (child'[r].up => child'[r].tracked)
<1>1. child \in [AllRoles -> Handles] /\ FleetRoles \subseteq AllRoles
  BY FleetKnown, Zenon DEF Typed
<1>2. \A r \in AllRoles :
        /\ child'[r].up => child[r].up
        /\ child'[r].tracked => child[r].tracked /\ child'[r].ends = child[r].ends
        /\ (child[r].up => child[r].tracked) => (child'[r].up => child'[r].tracked)
        /\ (child'[r].tracked /\ ~child'[r].watched) <=> (child[r].tracked /\ ~child[r].watched)
  BY <1>1, Zenon DEF Fading, Handles
<1> QED
  BY <1>1, <1>2, Zenon DEF Unwatched, FleetRoles

\* Such a step, with all else but the exits and the counts of deaths and faults
\* unchanged, keeps the invariant.
LEMMA FadingKeeps ==
  ASSUME DInv, Fading,
         UNCHANGED <<opts, srv, fab, pc, script, after, armed, down, restarts, rebuilds,
                     netSeq, ready, addr, err>>,
         sending' \in [AllRoles -> Nat], exitq' \in [AllRoles -> Nat],
         cancelled' \in {"no", "close", "parent"}
  PROVE  DInv'
<1>1. Typed'
  BY Zenon DEF DInv, Typed, Fading
<1>2. /\ Unwatched' = Unwatched
      /\ \A r \in AllRoles :
              /\ child'[r].up => child[r].up
              /\ child'[r].tracked => child[r].tracked /\ child'[r].ends = child[r].ends
              /\ (child[r].up => child[r].tracked) => (child'[r].up => child'[r].tracked)
  BY FadingFacts, Zenon DEF DInv
<1>3. Children'
  BY <1>2, Zenon DEF DInv, Children, FleetRoles
<1>4. Scripts'
  BY <1>2, Zenon DEF DInv, Scripts
<1>5. Advertised'
  BY Zenon DEF DInv, Advertised
<1>6. Paid'
  BY <1>2, Zenon DEF DInv, Paid
<1>7. Wired'
  BY <1>2, Zenon DEF DInv, Wired, Current, Children
<1> QED
  BY <1>1, <1>3, <1>4, <1>5, <1>6, <1>7, Zenon DEF DInv

\* The watchers, the processes, the context and the caller keep the invariant.
LEMMA OthersKeep ==
  ASSUME DInv,
         \/ \E r \in AllRoles : Reap(r) \/ Die(r)
         \/ ReapKilled \/ NotifyStep \/ ContextKill \/ Stop \/ Terminated
         \/ UNCHANGED vars
  PROVE  DInv'
<1>   /\ sending \in [AllRoles -> Nat] /\ exitq \in [AllRoles -> Nat]
      /\ cancelled \in {"no", "close", "parent"} /\ Typed
  BY Zenon DEF DInv, Typed
<1>1. ASSUME NEW r \in AllRoles, Reap(r)
      PROVE  DInv'
  <2>1. sending' \in [AllRoles -> Nat]
    BY <1>1 DEF Reap
  <2>2. Fading
    BY <1>1, DroppedFades, Zenon DEF Reap
  <2> QED
    BY <1>1, <2>1, <2>2, FadingKeeps, Zenon DEF Reap, Rest
<1>2. ASSUME NEW r \in AllRoles, Die(r)
      PROVE  DInv'
  <2>2. Fading
    BY <1>2, DeathFades, Zenon DEF Die
  <2> QED
    BY <1>2, <2>2, FadingKeeps, Zenon DEF Die, Rest
<1>3. ASSUME ReapKilled
      PROVE  DInv'
  <2>1. sending' \in [AllRoles -> Nat]
    BY <1>3 DEF ReapKilled
  <2>2. Fading
    BY <1>3, DroppedFades, Zenon DEF ReapKilled
  <2> QED
    BY <1>3, <2>1, <2>2, FadingKeeps, ZenonT(60) DEF ReapKilled, Rest
<1>4. ASSUME NEW S, Notify(S)
      PROVE  DInv'
  <2>1. sending' \in [AllRoles -> Nat] /\ exitq' \in [AllRoles -> Nat]
    BY <1>4 DEF Notify
  <2>2. Fading
    BY <1>4, SameFades, Zenon DEF Notify
  <2> QED
    BY <1>4, <2>1, <2>2, FadingKeeps, ZenonT(60) DEF Notify, Rest
<1>5. ASSUME ContextKill
      PROVE  DInv'
  <2>2. Fading
    BY <1>5, KilledFades, Zenon DEF ContextKill, killTracked
  <2> QED
    BY <1>5, <2>2, FadingKeeps, Zenon DEF ContextKill, Rest
<1>6. ASSUME Stop
      PROVE  DInv'
  <2>2. Fading
    BY <1>6, SameFades, Zenon DEF Stop
  <2> QED
    BY <1>6, <2>2, FadingKeeps, Zenon DEF Stop, Rest
<1>7. ASSUME UNCHANGED vars
      PROVE  DInv'
  <2>2. Fading
    BY <1>7, SameFades, Zenon DEF vars
  <2> QED
    BY <1>7, <2>2, FadingKeeps, Zenon DEF vars
<1> QED
  BY <1>1, <1>2, <1>3, <1>4, <1>5, <1>6, <1>7, ZenonT(60) DEF NotifyStep, Terminated

-----------------------------------------------------------------------------
(***************************************************************************)
(* Steps of supervise between two scripts.                                 *)
(***************************************************************************)
\* A step that gives up what was under way, or goes on with a full restart, keeps
\* the invariant when the restart is paid for or a child is left unwatched.
LEMMA MoveKeeps ==
  ASSUME DInv, Fading, UNCHANGED <<opts, srv, fab, rebuilds, netSeq, ready, addr, cancelled>>,
         sending' \in [AllRoles -> Nat], exitq' \in [AllRoles -> Nat],
         script' \in Seq(Step), after' \in {"boot", "one", "full"},
         armed' \in SUBSET AllRoles, down' \in SUBSET AllRoles,
         restarts' \in Nat, rebuilds <= restarts', restarts' <= srv.max,
         pc' \in {"full", "drain", "cleanup"},
         pc' # "cleanup" => rebuilds < restarts' \/ Unwatched # {}
  PROVE  DInv'
<1>1. Typed'
  BY Zenon DEF DInv, Typed, Fading, Places
<1>2. /\ Unwatched' = Unwatched
      /\ \A r \in AllRoles :
              /\ child'[r].up => child[r].up
              /\ child'[r].tracked => child[r].tracked /\ child'[r].ends = child[r].ends
              /\ (child[r].up => child[r].tracked) => (child'[r].up => child'[r].tracked)
  BY FadingFacts, Zenon DEF DInv
<1>3. Children'
  BY <1>2, Zenon DEF DInv, Children, FleetRoles
<1>4. Scripts'
  BY Zenon DEF Scripts
<1>5. Advertised'
  BY Zenon DEF Advertised
<1>6. Paid'
  BY <1>2, Zenon DEF Paid
<1>7. Wired'
  BY <1>2, Zenon DEF DInv, Wired
<1> QED
  BY <1>1, <1>3, <1>4, <1>5, <1>6, <1>7, Zenon DEF DInv

\* The kill of a full restart, the drain that times out and the cancelled parent.
LEMMA GivingUpKeeps ==
  ASSUME DInv, KillFleet \/ drainTimeout \/ ParentDone
  PROVE  DInv'
<1> Typed /\ Paid
  BY Zenon DEF DInv
<1>1. CASE KillFleet
  <2>1. Fading
    BY <1>1, KilledFades, Zenon DEF KillFleet, killTracked
  <2> QED
    BY <1>1, <2>1, MoveKeeps, Zenon DEF KillFleet, Typed, Paid
<1>2. CASE drainTimeout
  <2>1. Fading
    BY <1>2, SameFades, Zenon DEF drainTimeout
  <2> QED
    BY <1>2, <2>1, MoveKeeps, Zenon DEF drainTimeout, Typed, Paid
<1>3. CASE ParentDone
  <2>1. Fading
    BY <1>3, SameFades, Zenon DEF ParentDone
  <2> QED
    BY <1>3, <2>1, MoveKeeps, Zenon DEF ParentDone, Typed, Paid
<1> QED
  BY <1>1, <1>2, <1>3, Zenon

\* The deferred part of supervise leaves nothing running.
LEMMA CleanupKeeps ==
  ASSUME DInv, Cleanup
  PROVE  DInv'
<1> Typed /\ Children /\ Paid /\ Wired
  BY Zenon DEF DInv
<1>1. Fading
  BY KilledFades, Zenon DEF Cleanup, killTracked
<1>2. Typed'
  <2>1. ready' \in Nat
    BY SMTT(30) DEF Cleanup, Typed, LateFile
  <2> QED
    BY <1>1, <2>1, Zenon DEF Cleanup, Typed, Fading, Places
<1>3. /\ Unwatched' = Unwatched
      /\ \A r \in AllRoles :
              /\ child'[r].up => child[r].up
              /\ child'[r].tracked => child[r].tracked /\ child'[r].ends = child[r].ends
  BY <1>1, FadingFacts, Zenon DEF Cleanup
<1>4. \A r \in AllRoles : ~child'[r].up
  <2> SUFFICES ASSUME NEW r \in AllRoles, child'[r].up
               PROVE  FALSE
    OBVIOUS
  <2>1. r \in Tracked
    BY <1>3, Zenon DEF Children, Tracked
  <2>2. child'[r] = [child[r] EXCEPT !.up = FALSE] /\ child[r] \in Handles
    BY <2>1, Zenon DEF Cleanup, killTracked, Killed, Typed
  <2> QED
    BY <2>2, Zenon DEF Handles
<1>5. Children'
  <2>1. ready' = 0 \/ err' = "ready"
    BY Zenon DEF Cleanup
  <2> QED
    BY <1>3, <1>4, <2>1, Zenon DEF Children, FleetRoles, Cleanup
<1>6. Scripts' /\ Advertised'
  BY Zenon DEF Cleanup, Scripts, Advertised
<1>7. Paid'
  BY Zenon DEF Cleanup, Paid
<1>8. Wired'
  BY <1>3, Zenon DEF Cleanup, Wired
<1> QED
  BY <1>2, <1>5, <1>6, <1>7, <1>8, ZenonT(60) DEF DInv

\* The end of supervise.
LEMMA FinishKeeps ==
  ASSUME DInv, Finish
  PROVE  DInv'
<1> Typed /\ Children /\ Paid /\ Wired
  BY Zenon DEF DInv
<1>1. DOMAIN fab' = {}
  BY DEF Finish
<1>2. sending' \in [AllRoles -> Nat] /\ exitq' \in [AllRoles -> Nat]
  BY Zenon DEF Finish, NoExits
<1>3. Typed'
  BY <1>1, <1>2, Zenon DEF Finish, Typed, Places
<1>4. Children'
  BY Zenon DEF Finish, Children, FleetRoles
<1>5. Scripts' /\ Advertised'
  BY Zenon DEF Finish, Scripts, Advertised
<1>6. Paid'
  BY Zenon DEF Finish, Paid
<1>7. Wired'
  BY Zenon DEF Finish, Wired
<1> QED
  BY <1>3, <1>4, <1>5, <1>6, <1>7, Zenon DEF DInv

\* The wait for the roles taken down.
LEMMA AwaitDownKeeps ==
  ASSUME DInv, AwaitDown
  PROVE  DInv'
<1>1. exitq' \in [AllRoles -> Nat]
  BY Zenon DEF AwaitDown, NoExits
<1>2. Typed'
  BY <1>1, Zenon DEF DInv, AwaitDown, Typed, Places
<1>3. Children'
  BY Zenon DEF DInv, AwaitDown, Children, FleetRoles
<1>4. Unwatched' = Unwatched
  BY Zenon DEF AwaitDown, Unwatched, FleetRoles
<1>5. Scripts'
  BY <1>4, Zenon DEF DInv, AwaitDown, Scripts
<1>6. Advertised'
  BY Zenon DEF DInv, AwaitDown, Scripts, Advertised
<1>7. Paid'
  BY Zenon DEF DInv, AwaitDown, Paid
<1>8. Wired'
  BY ZenonT(60) DEF DInv, AwaitDown, Wired, Current
<1> QED
  BY <1>2, <1>3, <1>5, <1>6, <1>7, <1>8, Zenon DEF DInv

\* The drain that succeeds: nothing is tracked, so the restart is paid for.
LEMMA DrainKeeps ==
  ASSUME DInv, drainExits
  PROVE  DInv'
<1> Typed /\ Children /\ Paid
  BY Zenon DEF DInv
<1>1. respawnAll \in Seq(Step) /\ Fitting(srv.fleet, respawnAll)
  BY FleetKnown, Respawn, Zenon
<1>2. sending' \in [AllRoles -> Nat] /\ exitq' \in [AllRoles -> Nat]
  BY Zenon DEF drainExits, NoExits
<1>3. Typed'
  BY <1>1, <1>2, Zenon DEF drainExits, Typed, Places
<1>4. \A r \in AllRoles : ~child[r].tracked
  BY Zenon DEF drainExits, Tracked, Children
<1>5. Children'
  BY Zenon DEF drainExits, Children, FleetRoles
<1>6. Scripts'
  BY <1>1, Zenon DEF drainExits, Scripts
<1>7. Advertised'
  BY Zenon DEF drainExits, Advertised
<1>8. Paid'
  <2>1. Unwatched = {}
    BY Zenon DEF drainExits, Tracked, Unwatched
  <2> QED
    BY <2>1, Zenon DEF drainExits, Paid
<1>9. Wired'
  BY <1>4, Zenon DEF drainExits, Wired, Children
<1> QED
  BY <1>3, <1>5, <1>6, <1>7, <1>8, <1>9, Zenon DEF DInv

\* The net process writes the ready file.
LEMMA NetReadyKeeps ==
  ASSUME DInv, NetReady
  PROVE  DInv'
<1>2. Typed'
  BY Zenon DEF DInv, NetReady, Rest, Typed, Places
<1>3. Children'
  BY Zenon DEF DInv, NetReady, Rest, Children, FleetRoles
<1>4. Unwatched' = Unwatched
  BY Zenon DEF NetReady, Rest, Unwatched, FleetRoles
<1>5. Scripts'
  BY <1>4, Zenon DEF DInv, NetReady, Rest, Scripts
<1>6. Advertised'
  BY Zenon DEF DInv, NetReady, Rest, Advertised
<1>7. Paid'
  BY <1>4, Zenon DEF DInv, NetReady, Rest, Paid
<1>8. Wired'
  BY Zenon DEF DInv, NetReady, Rest, Wired, Current
<1> QED
  BY <1>2, <1>3, <1>5, <1>6, <1>7, <1>8, Zenon DEF DInv

\* The budget Start gives.
LEMMA MaxIsNat == Typed => srv.max \in Nat
BY Bounds DEF Typed

\* An exit is received.
LEMMA ReceiveExitKeeps ==
  ASSUME DInv, NEW first \in AllRoles, ReceiveExit(first)
  PROVE  DInv'
<1>   /\ Typed /\ Children /\ Scripts /\ Advertised /\ Paid /\ Wired /\ pc = "select"
      /\ srv.max \in Nat /\ srv.fleet \in Fleets /\ FleetRoles \subseteq AllRoles
  BY MaxIsNat, FleetKnown, Zenon DEF DInv, ReceiveExit
<1> DEFINE left == [exitq EXCEPT ![first] = @ - 1]
<1>1. left \in [AllRoles -> Nat]
  BY DEF Typed, ReceiveExit
<1> HIDE DEF left
<1>2. UNCHANGED <<opts, srv, fab, sending, rebuilds, netSeq, ready, addr, cancelled>>
  BY Zenon DEF ReceiveExit
<1>3. CASE cancelled # "no" \/ BudgetSpent
  <2>1. /\ pc' = "cleanup" /\ exitq' = left
        /\ UNCHANGED <<child, script, after, armed, down, restarts>>
    BY <1>3, Zenon DEF ReceiveExit, left
  <2>2. Fading
    BY <2>1, SameFades, Zenon
  <2> QED
    BY <1>1, <1>2, <2>1, <2>2, MoveKeeps, Zenon DEF Typed, Paid
<1>4. CASE ~(cancelled # "no" \/ BudgetSpent)
  <2>1. PICK got \in SUBSET {r \in AllRoles : left[r] > 0} :
          LET p == tryRestartOne(escalateRestartTrigger(first, got))
              go == p.need \subseteq Tracked IN
          /\ restarts' = restarts + 1
          /\ exitq' = [r \in AllRoles |-> IF r \in got THEN 0 ELSE left[r]]
          /\ pc' = IF ~go THEN "full" ELSE IF p.kill = {} THEN "script" ELSE "await"
          /\ child' = IF go THEN Killed(p.kill) ELSE child
          /\ script' = IF go THEN p.calls ELSE <<>>
          /\ down' = IF go THEN p.kill ELSE {}
          /\ armed' = IF go THEN p.arm ELSE {}
          /\ after' = "one"
    BY <1>4, Zenon DEF ReceiveExit, left
  <2> DEFINE p == tryRestartOne(escalateRestartTrigger(first, got))
             go == p.need \subseteq Tracked
  <2>2. "none" \in p.need \/ ProcedureFits(srv.fleet, p)
    BY Procedures, Zenon
  <2> HIDE DEF p
  <2>3. /\ restarts' = restarts + 1 /\ after' = "one"
        /\ exitq' = [r \in AllRoles |-> IF r \in got THEN 0 ELSE left[r]]
        /\ ~go => pc' = "full" /\ child' = child /\ script' = <<>> /\ down' = {} /\ armed' = {}
        /\ go => /\ pc' \in {"script", "await"} /\ child' = Killed(p.kill) /\ script' = p.calls
                 /\ down' = p.kill /\ armed' = p.arm
    BY <2>1, Zenon DEF p
  <2>4. exitq' \in [AllRoles -> Nat]
    BY <1>1, <2>3, Zenon
  <2>5. restarts \in Nat /\ rebuilds \in Nat /\ restarts < srv.max /\ rebuilds <= restarts
    BY <1>4, SMTT(30) DEF BudgetSpent, Typed, Paid
  <2>6. CASE ~go
    <3>1. Fading
      BY <2>3, <2>6, SameFades, Zenon
    <3>2. /\ script' \in Seq(Step) /\ armed' \in SUBSET AllRoles /\ down' \in SUBSET AllRoles
          /\ restarts' \in Nat /\ rebuilds <= restarts' /\ restarts' <= srv.max
          /\ rebuilds < restarts'
      BY <2>3, <2>5, <2>6
    <3> QED
      BY <1>2, <2>3, <2>4, <2>6, <3>1, <3>2, MoveKeeps, Zenon DEF Typed
  <2>7. CASE go
    <3>1. ProcedureFits(srv.fleet, p)
      <4>1. "none" \notin Tracked
        BY Zenon DEF Tracked, AllRoles
      <4> QED
        BY <2>2, <2>7, <4>1, Zenon
    <3>2. Fading
      BY <2>3, <2>7, KilledFades, Zenon
    <3>3. /\ Unwatched' = Unwatched
          /\ \A r \in AllRoles :
               /\ child'[r].up => child[r].up
               /\ child'[r].tracked => child[r].tracked /\ child'[r].ends = child[r].ends
               /\ (child[r].up => child[r].tracked) => (child'[r].up => child'[r].tracked)
      BY <1>2, <3>2, FadingFacts, ZenonT(60)
    <3> HIDE DEF go
    <3>4. Typed'
      BY <1>2, <2>3, <2>4, <2>5, <2>7, <3>1, <3>2, SMTT(30) DEF Typed, Fading, Places, ProcedureFits
    <3>5. Children'
      BY <1>2, <2>3, <2>7, <3>3, Zenon DEF Children, FleetRoles
    <3>6. Scripts'
      BY <1>2, <2>3, <2>7, <3>1, <3>3, Zenon DEF Scripts, ProcedureFits
    <3>7. Advertised'
      BY <1>2, <2>3, <2>7, Zenon DEF Advertised
    <3>8. Paid'
      BY <1>2, <2>3, <2>5, <2>7, SMTT(30) DEF Paid
    <3>9. Wired'
      BY <1>2, <2>3, <2>7, <3>3, Zenon DEF Wired, Current, Children
    <3> QED
      BY <3>4, <3>5, <3>6, <3>7, <3>8, <3>9, ZenonT(60) DEF DInv
  <2> QED
    BY <2>6, <2>7, Zenon
<1> QED
  BY <1>3, <1>4, Zenon

-----------------------------------------------------------------------------
(***************************************************************************)
(* Steps of a script.                                                      *)
(***************************************************************************)
\* The handles after armWatchers.
LEMMA ArmedFacts ==
  ASSUME Typed, NEW S, child' = Armed(S)
  PROVE  /\ child' \in [AllRoles -> Handles]
         /\ \A r \in AllRoles :
              /\ child'[r].tracked = child[r].tracked /\ child'[r].up = child[r].up
              /\ child'[r].ends = child[r].ends
              /\ child'[r].watched = (child[r].watched \/ (r \in S /\ child[r].tracked))
<1> SUFFICES ASSUME NEW r \in AllRoles
             PROVE  /\ child'[r] \in Handles
                    /\ child'[r].tracked = child[r].tracked /\ child'[r].up = child[r].up
                    /\ child'[r].ends = child[r].ends
                    /\ child'[r].watched = (child[r].watched \/ (r \in S /\ child[r].tracked))
  BY Zenon DEF Armed
<1>1. child[r] \in Handles
  BY Zenon DEF Typed
<1>2. child'[r] = IF r \in S /\ child[r].tracked THEN [child[r] EXCEPT !.watched = TRUE] ELSE child[r]
  BY Zenon DEF Armed
<1>3. CASE r \in S /\ child[r].tracked
  BY <1>1, <1>2, <1>3, ZenonT(60) DEF Handles
<1>4. CASE ~(r \in S /\ child[r].tracked)
  BY <1>1, <1>2, <1>4, Zenon DEF Handles
<1> QED
  BY <1>3, <1>4, Zenon

\* A script has ended: no call is pending.
LEMMA NothingPending == CallsOf(<<>>) = {}
BY DEF CallsOf

\* The listen address arrives.
LEMMA BecomeReadyKeeps ==
  ASSUME DInv, BecomeReady
  PROVE  DInv'
<1>   /\ Typed /\ Children /\ Scripts /\ Advertised /\ Paid /\ Wired
      /\ FleetRoles \subseteq AllRoles
  BY FleetKnown, Zenon DEF DInv
<1>1. UNCHANGED <<opts, srv, fab, sending, exitq, script, after, armed, down, restarts,
                  netSeq, ready, cancelled>>
  BY Zenon DEF BecomeReady
<1>2. /\ pc = "script" /\ script = <<>> /\ after # "one" /\ ready # 0 /\ addr' = ready
      /\ pc' \in {"once", "select"}
      /\ rebuilds' = IF after = "full" THEN rebuilds + 1 ELSE rebuilds
  BY Zenon DEF BecomeReady
<1>3. /\ child' \in [AllRoles -> Handles]
      /\ \A r \in AllRoles : /\ child'[r].tracked = child[r].tracked /\ child'[r].up = child[r].up
                             /\ child'[r].ends = child[r].ends
      /\ pc' = "select" => \A r \in FleetRoles : child'[r].tracked => child'[r].watched
  <2>1. CASE srv.once
    BY <2>1, Zenon DEF BecomeReady, Typed
  <2>2. CASE ~srv.once
    BY <2>2, ArmedFacts, ZenonT(60) DEF BecomeReady
  <2> QED
    BY <2>1, <2>2, Zenon
<1>4. Typed'
  BY <1>1, <1>2, <1>3 DEF Typed, Places
<1>5. Children'
  BY <1>1, <1>2, <1>3, Zenon DEF Children, FleetRoles
<1>6. Scripts'
  BY <1>1, <1>2, <1>3, Zenon DEF Scripts, Unwatched, FleetRoles
<1>7. Advertised'
  BY <1>1, <1>2, Zenon DEF Advertised
<1>8. Paid'
  BY <1>1, <1>2 DEF Paid, Typed
<1>9. Wired'
  BY <1>1, <1>2, <1>3, NothingPending, Zenon DEF Wired, Current
<1> QED
  BY <1>4, <1>5, <1>6, <1>7, <1>8, <1>9, Zenon DEF DInv

\* A selective restart ends well.
LEMMA SettleKeeps ==
  ASSUME DInv, Settle
  PROVE  DInv'
<1>   /\ Typed /\ Children /\ Scripts /\ Advertised /\ Paid /\ Wired
      /\ FleetRoles \subseteq AllRoles
  BY FleetKnown, Zenon DEF DInv
<1>1. UNCHANGED <<opts, srv, fab, sending, script, after, down, netSeq, ready, addr, cancelled>>
  BY Zenon DEF Settle
<1>2. pc = "script" /\ script = <<>> /\ after = "one" /\ armed' = {}
  BY Zenon DEF Settle
<1>3. exitq' \in [AllRoles -> Nat]
  BY Zenon DEF Settle, NoExits
<1>4. Unwatched # {} /\ Unwatched \subseteq armed
  BY <1>2, NothingPending, Zenon DEF Scripts, Starting
<1>5. rebuilds < restarts /\ restarts \in Nat /\ rebuilds \in Nat /\ restarts <= srv.max
  BY <1>2, Zenon DEF Paid, Typed
<1>6. CASE childAlive("net")
  <2>1. pc' = "select" /\ child' = Armed(armed) /\ rebuilds' = rebuilds + 1 /\ restarts' = restarts
    BY <1>6, Zenon DEF Settle
  <2>2. /\ child' \in [AllRoles -> Handles]
        /\ \A r \in AllRoles :
             /\ child'[r].tracked = child[r].tracked /\ child'[r].up = child[r].up
             /\ child'[r].ends = child[r].ends
             /\ child'[r].watched = (child[r].watched \/ (r \in armed /\ child[r].tracked))
    BY <2>1, ArmedFacts, Zenon
  <2>3. Typed'
    BY <1>1, <1>2, <1>3, <1>5, <2>1, <2>2, SMTT(60) DEF Typed, Places
  <2>4. Children'
    BY <1>1, <1>2, <2>1, <2>2, Zenon DEF Children, FleetRoles
  <2>5. Scripts'
    <3>1. Unwatched' = {}
      BY <1>1, <1>4, <2>2, Zenon DEF Unwatched, FleetRoles
    <3> QED
      BY <2>1, <3>1, Zenon DEF Scripts
  <2>6. Advertised'
    BY <1>1, <1>2, <2>1, Zenon DEF Advertised
  <2>7. Paid'
    BY <1>1, <1>5, <2>1 DEF Paid
  <2>8. Wired'
    BY <1>1, <1>2, <2>1, <2>2, NothingPending DEF Wired, Current
  <2> QED
    BY <2>3, <2>4, <2>5, <2>6, <2>7, <2>8, ZenonT(60) DEF DInv
<1>7. CASE ~childAlive("net")
  <2>1. pc' = "full" /\ restarts' = restarts - 1 /\ child' = child /\ rebuilds' = rebuilds
    BY <1>7, Zenon DEF Settle
  <2>2. Fading
    BY <2>1, SameFades, Zenon
  <2>3. /\ restarts' \in Nat /\ rebuilds <= restarts' /\ restarts' <= srv.max
        /\ armed' \in SUBSET AllRoles /\ script' \in Seq(Step) /\ after' \in {"boot", "one", "full"}
        /\ down' \in SUBSET AllRoles /\ sending' \in [AllRoles -> Nat]
    <3>1. srv.max \in Nat
      BY MaxIsNat, Zenon
    <3> QED
      BY <1>1, <1>2, <1>5, <2>1, <3>1 DEF Typed
  <2> QED
    BY <1>1, <1>3, <1>4, <2>1, <2>2, <2>3, MoveKeeps, Zenon
<1> QED
  BY <1>6, <1>7, Zenon

\* Start, or the first launch, fails: the runtime is closed.
LEMMA RefusedKeeps ==
  ASSUME DInv, pc' = "refused", \A r \in AllRoles : child'[r] = Absent,
         child' \in [AllRoles -> Handles], opts' \in ServeOptions,
         UNCHANGED <<srv, fab, sending, exitq, after, armed, down, restarts, rebuilds, netSeq,
                     addr, cancelled>>,
         ready' \in Nat, ready' = 0 \/ err' = "ready",
         script' \in Seq(Step)
  PROVE  DInv'
<1>1. Typed'
  BY Zenon DEF DInv, Typed, Places
<1>2. Children'
  BY AbsentIsHandle, Zenon DEF Children
<1>3. Scripts' /\ Advertised'
  BY Zenon DEF Scripts, Advertised
<1>4. Paid'
  BY Zenon DEF DInv, Paid
<1>5. Wired'
  BY AbsentIsHandle, Zenon DEF Wired
<1> QED
  BY <1>1, <1>2, <1>3, <1>4, <1>5, ZenonT(60) DEF DInv

\* A closed runtime tracks nothing.
LEMMA Closed ==
  RuntimeClosed \in [AllRoles -> Handles] /\ \A r \in AllRoles : RuntimeClosed[r] = Absent
BY AbsentIsHandle, Zenon DEF RuntimeClosed

\* The first call that fails ends the script.
LEMMA ScriptFailsKeeps ==
  ASSUME DInv, ScriptFails
  PROVE  DInv'
<1> Typed /\ Advertised /\ Paid
  BY Zenon DEF DInv
<1>1. /\ pc = "script" /\ script # <<>> /\ script' = <<>>
      /\ UNCHANGED <<opts, srv, fab, sending, exitq, after, armed, down, restarts,
                     rebuilds, netSeq, ready, addr, cancelled>>
  BY Zenon DEF ScriptFails
<1>2. CASE after \in {"one", "full"} /\ child' = child /\ pc' \in {"full", "cleanup"}
  <2>1. Fading
    BY <1>2, SameFades, Zenon
  <2>2. rebuilds < restarts
    BY <1>1, <1>2, Zenon DEF Paid
  <2> QED
    BY <1>1, <1>2, <2>1, <2>2, MoveKeeps DEF Typed, Paid
<1>3. CASE after = "boot" /\ pc' = "refused" /\ child' = RuntimeClosed
  <2>1. ready' = 0 /\ ready' \in Nat /\ opts' \in ServeOptions /\ script' \in Seq(Step)
    BY <1>1, <1>3 DEF Advertised, Typed
  <2> QED
    BY <1>1, <1>3, <2>1, Closed, RefusedKeeps, Zenon
<1> QED
  BY <1>2, <1>3, Zenon DEF ScriptFails

\* The net process has not written the ready file in time.
LEMMA ReadyTimeoutKeeps ==
  ASSUME DInv, ReadyTimeout
  PROVE  DInv'
<1> Typed /\ Paid
  BY Zenon DEF DInv
<1>1. /\ pc = "script" /\ script = <<>> /\ after \in {"boot", "full"} /\ ready = 0
      /\ UNCHANGED <<opts, srv, fab, sending, exitq, script, after, armed, down, restarts,
                     rebuilds, netSeq, addr, cancelled>>
  BY Zenon DEF ReadyTimeout
<1>2. CASE after = "full"
  <2>1. child' = child /\ pc' = "cleanup" /\ ready' = ready
    BY <1>2, Zenon DEF ReadyTimeout
  <2>2. Fading
    BY <2>1, SameFades, Zenon
  <2> QED
    BY <1>1, <2>1, <2>2, MoveKeeps, Zenon DEF Typed, Paid
<1>3. CASE after = "boot"
  <2>1. pc' = "refused" /\ child' = RuntimeClosed /\ err' = "ready" /\ ready' \in {0} \cup LateFile
    BY <1>3, Zenon DEF ReadyTimeout
  <2>2. opts' \in ServeOptions /\ script' \in Seq(Step) /\ ready' \in Nat
    BY <1>1, <2>1 DEF Typed, LateFile
  <2> QED
    BY <1>1, <2>1, <2>2, Closed, RefusedKeeps, Zenon
<1> QED
  BY <1>1, <1>2, <1>3, Zenon

\* Once mode waits for the roles in turn.
LEMMA WaitChildrenKeeps ==
  ASSUME DInv, WaitChildren
  PROVE  DInv'
<1> Typed /\ Children /\ Paid /\ Wired /\ pc = "once"
  BY Zenon DEF DInv, WaitChildren
<1>1. UNCHANGED <<opts, srv, fab, sending, exitq, script, after, armed, down, restarts,
                  rebuilds, netSeq, ready, addr, cancelled>>
  BY Zenon DEF WaitChildren
<1>2. /\ pc' \in {"once", "cleanup"}
      /\ child' \in [AllRoles -> Handles]
      /\ \A r \in AllRoles : child'[r] = child[r] \/ child'[r] = Absent
  <2>1. \/ pc' = "cleanup" /\ child' = child
        \/ pc' = pc /\ \E r : child' = [child EXCEPT ![r] = Absent]
    BY Zenon DEF WaitChildren
  <2> QED
    BY <2>1, AbsentIsHandle, Zenon DEF Typed
<1>3. Typed'
  BY <1>1, <1>2, Zenon DEF Typed, Places
<1>4. Children'
  BY <1>1, <1>2, AbsentIsHandle, Zenon DEF Children, FleetRoles
<1>5. Scripts' /\ Advertised'
  BY <1>2, Zenon DEF Scripts, Advertised
<1>6. Paid'
  BY <1>1, <1>2, Zenon DEF Paid
<1>7. Wired'
  BY <1>1, <1>2, AbsentIsHandle, Zenon DEF Wired
<1> QED
  BY <1>3, <1>4, <1>5, <1>6, <1>7, Zenon DEF DInv

\* Start.
LEMMA StartKeeps ==
  ASSUME DInv, Start
  PROVE  DInv'
<1>   /\ Typed /\ Children /\ Scripts /\ Advertised /\ Paid /\ pc = "init"
      /\ after = "boot" /\ ready = 0 /\ restarts = 0 /\ \A r \in AllRoles : ~child[r].tracked
  BY Zenon DEF DInv, Start, Children, Scripts, Advertised, Paid
<1>1. /\ UNCHANGED <<child, sending, exitq, after, armed, down, restarts, rebuilds,
                     netSeq, ready, addr, cancelled>>
      /\ opts' \in ServeOptions
  <2>1. opts' = [opts EXCEPT !.disable = {}, !.strict = FALSE, !.rootKey = ~opts.peers]
    BY Zenon DEF Start
  <2>2. opts' \in ServeOptions
    BY <2>1, Zenon DEF Typed, ServeOptions
  <2> QED
    BY <2>2, Zenon DEF Start
<1>2. CASE StartAccepts(opts) /\ Launchable(PlanOf[FleetOf(opts)])
  <2> DEFINE f == FleetOf(opts)
  <2>1. f \in Fleets
    BY <1>2, DaemonAssumption, Zenon DEF Start
  <2> HIDE DEF f
  <2>2. /\ srv' = [fleet |-> f, peers |-> opts.peers, once |-> opts.once,
                   max |-> IF opts.once THEN 0 ELSE MaxRestarts]
        /\ fab' = [p \in PlanPairs(PlanOf[f]) |-> [gen |-> 1, taken |-> {}]]
        /\ script' = Starts(startRoleChildren[f])
        /\ pc' = "script"
    BY <1>2, Zenon DEF Start, f
  <2>3. /\ srv' \in [fleet : Fleets, peers : BOOLEAN, once : BOOLEAN, max : {0, MaxRestarts}]
        /\ srv'.fleet = f /\ srv'.max \in Nat
    BY <2>1, <2>2, Bounds, Zenon DEF Typed, ServeOptions
  <2>4. script' \in Seq(Step) /\ Fitting(f, script')
    BY <2>1, <2>2, Launches, Zenon
  <2>5. \A e \in DOMAIN fab' : fab'[e] \in [gen : Nat, taken : SUBSET e]
    BY <2>2, Zenon
  <2>6. Typed'
    BY <1>1, <2>2, <2>3, <2>4, <2>5, Zenon DEF Typed, Places
  <2>7. Children'
    BY <1>1, <2>2, Zenon DEF Children
  <2>8. Scripts'
    BY <1>1, <2>2, <2>3, <2>4, Zenon DEF Scripts
  <2>9. Advertised'
    BY <1>1, <2>2, Zenon DEF Advertised
  <2>10. Paid'
    BY <1>1, <2>2, <2>3, SMTT(30) DEF Paid
  <2>11. Wired'
    BY <1>1, Zenon DEF Wired, Children
  <2> QED
    BY <2>6, <2>7, <2>8, <2>9, <2>10, <2>11, Zenon DEF DInv
<1>3. CASE ~(StartAccepts(opts) /\ Launchable(PlanOf[FleetOf(opts)]))
  <2>1. pc' = "refused" /\ UNCHANGED <<srv, fab, script>>
    BY <1>3, Zenon DEF Start
  <2>2. Typed'
    BY <1>1, <2>1, Zenon DEF Typed, Places
  <2>3. Children'
    BY <1>1, <2>1, Zenon DEF Children
  <2>4. Scripts' /\ Advertised'
    BY <2>1, Zenon DEF Scripts, Advertised
  <2>5. Paid'
    BY <1>1, <2>1, Zenon DEF Paid
  <2>6. Wired'
    BY <1>1, Zenon DEF Wired, Children
  <2> QED
    BY <2>2, <2>3, <2>4, <2>5, <2>6, Zenon DEF DInv
<1> QED
  BY <1>2, <1>3, Zenon

-----------------------------------------------------------------------------
(***************************************************************************)
(* The calls of a script.                                                  *)
(***************************************************************************)
\* The calls that remain after the first one.
LEMMA StepTaken ==
  ASSUME DInv, NEW op, Next1(op), op \in {"replace", "start", "confer", "supersede", "same"}
  PROVE  /\ pc = "script" /\ script' = Tail(script) /\ script' \in Seq(Step)
         /\ Head(script) \in Step /\ Head(script).op = op /\ Head(script) \in CallsOf(script)
         /\ CallsOf(script) = {Head(script)} \cup CallsOf(script')
         /\ Fitting(srv.fleet, script) /\ Fitting(srv.fleet, script')
         /\ after = "one" =>
              /\ Selective(CallsOf(script), armed) /\ Selective(CallsOf(script'), armed)
              /\ op # "start" => (Starting(CallsOf(script)) => Starting(CallsOf(script')))
<1> DEFINE h == Head(script)
           S == CallsOf(script)
           T == CallsOf(Tail(script))
<1>1. /\ pc = "script" /\ script # <<>> /\ h.op = op /\ script' = Tail(script)
      /\ script \in Seq(Step) /\ Fitting(srv.fleet, script)
      /\ after = "one" => Selective(S, armed)
  BY Zenon DEF Next1, DInv, Typed, Scripts
<1>2. /\ Tail(script) \in Seq(Step) /\ h \in Step /\ S = {h} \cup T
      /\ InOrder(Tail(script))
      /\ \A s \in T : s.op # "supersede" /\ (s.op = "replace" => h.op = "supersede")
  BY <1>1, Rest1, Zenon DEF Fitting
<1> HIDE DEF h, S, T
<1>3. Renewing(T)
  <2>1. CASE op = "supersede"
    <3>1. \A r, q : ~Renews(h, r, q)
      BY <1>1, <2>1, Zenon DEF Renews
    <3>2. Renewing(S)
      BY <1>1, Zenon DEF Fitting, S
    <3> QED
      BY <1>2, <3>1, <3>2, Zenon DEF Renewing
  <2>2. CASE op # "supersede"
    BY <1>1, <1>2, <2>2, Zenon DEF Renewing
  <2> QED
    BY <2>1, <2>2, Zenon
<1>4. \A s \in S : Suits(srv.fleet, s)
  BY <1>1, Zenon DEF Fitting, S
<1>5. Fitting(srv.fleet, Tail(script))
  BY <1>2, <1>3, <1>4, Zenon DEF Fitting, T
<1>6. after = "one" => Selective(T, armed)
  BY <1>1, <1>2, Zenon DEF Selective
<1>7. op # "start" => (Starting(S) => Starting(T))
  BY <1>1, <1>2, Zenon DEF Starting
<1> QED
  BY <1>1, <1>2, <1>5, <1>6, <1>7, Zenon DEF h, S, T

\* The arguments of a call are roles.
LEMMA Arguments ==
  ASSUME NEW s \in Step
  PROVE  /\ s.op = "replace" => s.pairs \in SUBSET SUBSET AllRoles
         /\ s.op # "replace" => s.role \in AllRoles /\ s.peer \in AllRoles
BY Zenon DEF Step

\* Pairs are replaced: who holds an end of an old pair gets a new one.
LEMMA ReplaceKeeps ==
  ASSUME DInv, ScriptReplace
  PROVE  DInv'
<1> DEFINE h == Head(script)
           S == CallsOf(script)
           T == CallsOf(script')
           f == srv.fleet
<1>   /\ Typed /\ Children /\ Scripts /\ Advertised /\ Paid /\ Wired
      /\ f \in Fleets /\ FleetRoles \subseteq AllRoles
  BY FleetKnown, Zenon DEF DInv
<1>1. /\ UNCHANGED <<opts, srv, child, sending, exitq, pc, after, armed, down, restarts,
                     rebuilds, netSeq, ready, addr, cancelled>>
      /\ fab' = ReplacePair(h.pairs)
  BY Zenon DEF ScriptReplace
<1>2. /\ pc = "script" /\ script' \in Seq(Step) /\ h.op = "replace" /\ h \in S /\ S = {h} \cup T
      /\ Fitting(f, script) /\ Fitting(f, script')
      /\ after = "one" => Selective(T, armed) /\ (Starting(S) => Starting(T))
  BY StepTaken DEF ScriptReplace
<1>3. Typed'
  <2>1. \A e \in DOMAIN fab' : fab'[e] \in [gen : Nat, taken : SUBSET e]
    BY <1>1 DEF Typed, ReplacePair
  <2> QED
    BY <1>1, <1>2, <2>1, Zenon DEF Typed
<1>4. Children'
  BY <1>1, <1>2, Zenon DEF Children, FleetRoles
<1>5. Scripts'
  <2>1. Unwatched' = Unwatched
    BY <1>1, Zenon DEF Unwatched, FleetRoles
  <2> QED
    BY <1>1, <1>2, <2>1, Zenon DEF Scripts
<1>6. Advertised'
  <2>1. script # <<>>
    BY Zenon DEF ScriptReplace, Next1
  <2> QED
    BY <1>1, <1>2, <2>1, Zenon DEF Advertised
<1>7. Paid'
  BY <1>1, <1>2, Zenon DEF Paid
<1>8. Wired'
  <2> SUFFICES ASSUME NEW r \in AllRoles, child[r].up, NEW q \in PlanOf[f][r]
               PROVE  Current(r, q)' \/ \E s \in T : Renews(s, r, q)
    BY <1>1, <1>2, Zenon DEF Wired
  <2>1. r \in Roles(f) /\ q \in AllRoles
    BY Edges, Tables, Zenon DEF Children, FleetRoles, TableFits
  <2>2. Current(r, q) \/ \E s \in S : Renews(s, r, q)
    BY <1>2, Zenon DEF Wired
  <2>3. \A x, y : ~Renews(h, x, y)
    BY <1>2, Zenon DEF Renews
  <2>4. CASE Pair(r, q) \in h.pairs
    <3>1. \E s \in S : Renews(s, r, q)
      BY <1>2, <2>1, <2>4, Zenon DEF Fitting, Renewing
    <3> QED
      BY <1>2, <2>3, <3>1, Zenon
  <2>5. CASE Pair(r, q) \notin h.pairs
    <3>1. Current(r, q) => Current(r, q)'
      BY <1>1, <2>5, Zenon DEF Current, ReplacePair
    <3> QED
      BY <1>2, <2>2, <2>3, <3>1, Zenon
  <2> QED
    BY <2>4, <2>5, Zenon
<1> QED
  BY <1>3, <1>4, <1>5, <1>6, <1>7, <1>8, Zenon DEF DInv

\* Taking an end of a pair leaves the pair as it is.
LEMMA TakeFacts ==
  ASSUME Typed, NEW r, NEW peers, fab' = Take(r, peers)
  PROVE  /\ DOMAIN fab' = DOMAIN fab
         /\ \A e \in DOMAIN fab : fab'[e].gen = fab[e].gen
         /\ \A e \in DOMAIN fab : fab'[e] \in [gen : Nat, taken : SUBSET e]
<1>1. DOMAIN fab' = DOMAIN fab
  BY Zenon DEF Take
<1> SUFFICES ASSUME NEW e \in DOMAIN fab
             PROVE  fab'[e].gen = fab[e].gen /\ fab'[e] \in [gen : Nat, taken : SUBSET e]
  BY <1>1, Zenon
<1>2. fab[e] \in [gen : Nat, taken : SUBSET e]
  BY Zenon DEF Typed
<1>3. fab'[e] = IF \E p \in peers : e = Pair(r, p)
                THEN [fab[e] EXCEPT !.taken = @ \cup {r}] ELSE fab[e]
  BY Zenon DEF Take
<1>4. CASE \E p \in peers : e = Pair(r, p)
  <2>1. r \in e
    BY <1>4, Zenon DEF Pair
  <2> QED
    BY <1>2, <1>3, <1>4, <2>1
<1>5. CASE ~\E p \in peers : e = Pair(r, p)
  BY <1>2, <1>3, <1>5, Zenon
<1> QED
  BY <1>4, <1>5, Zenon

=============================================================================
