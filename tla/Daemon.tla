------------------------------- MODULE Daemon -------------------------------
(***************************************************************************)
(* The supervisor of the privilege-separated receive daemon: Start, the    *)
(* supervise loop and its selective restarts (internal/daemon/             *)
(* serve_unix.go) over the child table and the socket fabric               *)
(* (internal/supervisor/runtime_unix.go, socket_unix.go).                  *)
(*                                                                         *)
(* The processes are the supervise goroutine, one watcher goroutine per    *)
(* armed child, the role processes themselves (which may die at any        *)
(* moment) and a caller that stops the server.  A restart procedure of the *)
(* source is a straight line of ReplacePair, StartChild and conferPeerFD   *)
(* calls that gives up at the first error; here it is a script, a sequence *)
(* of such calls, and one action runs one call.                            *)
(***************************************************************************)
EXTENDS Fleet

CONSTANTS Explored,     \* the fleets this instance starts
          MaxRestarts,  \* ServeOptions.MaxRestarts
          MaxDeaths,    \* bound: role processes that die by themselves
          MaxFaults,    \* bound: calls of a restart that fail by themselves
          MaxLate       \* bound: exits of killed roles that arrive after the flush

ASSUME DaemonAssumption == /\ Explored \subseteq Fleets
                           /\ {MaxRestarts, MaxDeaths, MaxFaults, MaxLate} \subseteq Nat

VARIABLES
  opts,      \* the options given to Start
  srv,       \* [fleet, peers, once, max]: what Start made of them
  child,     \* Runtime.Children: the handle tracked for each role
  fab,       \* SocketFabric.ends: socket pair of each edge
  sending,   \* exits a watcher has reaped and not yet put on exitCh
  exitq,     \* exits buffered in exitCh
  pc,        \* where supervise is
  script,    \* calls of the running restart procedure still to make
  after,     \* "boot", "one" or "full": whose script it is
  armed,     \* roles to re-arm when a selective restart succeeds
  down,      \* roles a selective restart has killed and waits for
  restarts,  \* Server.restarts
  rebuilds,  \* restarts carried out since Start
  netSeq,    \* incarnations of net so far
  ready,     \* the ready file: the net incarnation it names, 0 if absent
  addr,      \* Server.listenAddr, published on Ready
  cancelled, \* "no", "close" (runCtx only) or "parent" (the caller's context too)
  err,       \* Server.err, or the error Start returns
  deaths, faults,
  dropped    \* history: roles an exit of which a selective restart has discarded
             \* since they were last started

vars == <<opts, srv, child, fab, sending, exitq, pc, script, after, armed, down,
          restarts, rebuilds, netSeq, ready, addr, cancelled, err, deaths, faults,
          dropped>>

(* A launcher.Handle in Children: the process, its Wait owner, its sockets. *)
Absent == [tracked |-> FALSE, up |-> FALSE, watched |-> FALSE, ends |-> <<>>]
Handle(ends) == [tracked |-> TRUE, up |-> TRUE, watched |-> FALSE, ends |-> ends]

FleetRoles == Roles(srv.fleet)
Tracked == {r \in FleetRoles : child[r].tracked}

(* childAlive: tracked; a process that died stays tracked until it is reaped. *)
childAlive(r) == child[r].tracked

Killed(S) == [r \in AllRoles |-> IF r \in S THEN [child[r] EXCEPT !.up = FALSE] ELSE child[r]]
killTracked == Killed(Tracked)
Armed(S) == [r \in AllRoles |->
               IF r \in S /\ child[r].tracked THEN [child[r] EXCEPT !.watched = TRUE] ELSE child[r]]
NoExits == [r \in AllRoles |-> 0]
Buffered == {r \in AllRoles : exitq[r] > 0}

(* Runtime.Close: every tracked child is killed and reaped. *)
RuntimeClosed == [r \in AllRoles |-> Absent]

(***************************************************************************)
(* Calls a script is made of.                                              *)
(***************************************************************************)
Replace(pairs)    == [op |-> "replace", pairs |-> pairs]
StartOf(r, p)     == [op |-> "start", role |-> r, peer |-> p]
Confer(to, p)     == [op |-> "confer", role |-> to, peer |-> p]
Supersede(r)      == [op |-> "supersede", role |-> r, peer |-> r]
Starts(order)     == [i \in 1 .. Len(order) |-> StartOf(order[i][1], order[i][2])]

(* ReplacePair closes the supervisor's ends and installs a fresh pair. *)
ReplacePair(pairs) ==
  [p \in DOMAIN fab \cup pairs |->
     IF p \notin pairs THEN fab[p]
     ELSE [gen |-> IF p \in DOMAIN fab THEN fab[p].gen + 1 ELSE 1, taken |-> {}]]

(* The endpoint r - p exists and has not been handed to a process yet. *)
Available(r, p) == Pair(r, p) \in DOMAIN fab /\ r \notin fab[Pair(r, p)].taken

Take(r, peers) ==
  [e \in DOMAIN fab |-> IF \E p \in peers : e = Pair(r, p)
                        THEN [fab[e] EXCEPT !.taken = @ \cup {r}] ELSE fab[e]]

PeersAtStart(r, p) == {p} \cup Extra(srv.fleet, r)

(* Whether the next call can succeed in the present state. *)
StartChildOk(r, p) == /\ ~child[r].tracked
                      /\ \A q \in PeersAtStart(r, p) : Available(r, q)
                      /\ cancelled = "no"

(* The survivor's key channel is kept, and there is an end to send. *)
conferPeerFDSends(to, p) == /\ child[to].tracked /\ keepKeyCh(srv.fleet, to)
                            /\ Available(to, p)
conferPeerFDOk(to, p) == conferPeerFDSends(to, p) /\ child[to].up

Possible(s) == /\ s.op = "start" => StartChildOk(s.role, s.peer)
               /\ s.op = "confer" => conferPeerFDOk(s.role, s.peer)
               /\ s.op = "same" => child[s.role].tracked

(***************************************************************************)
(* The selective restarts.  need: survivors that must be tracked; kill:    *)
(* roles taken down first; calls: what is done once they are gone; arm:    *)
(* the roles that get a new watcher at the end.                            *)
(***************************************************************************)
Procedure(need, kill, calls, arm) ==
  [need |-> need, kill |-> kill, calls |-> calls, arm |-> arm]

If(c, seq) == IF c THEN seq ELSE <<>>

(* The edge auth - audit, when a peer keyring is set. *)
replaceAuthAuditPair == IF srv.peers THEN {Pair("auth", "audit")} ELSE {}
sendAuthAuditPeerFD == If(srv.peers, <<Confer("auth", "audit")>>)

restartAuthPrimary ==
  Procedure({"net"} \cup IF srv.peers THEN {"audit"} ELSE {}, {"auth"},
            <<Replace({Pair("net", "auth")} \cup replaceAuthAuditPair),
              StartOf("auth", "net"), Confer("net", "auth")>>
            \o If(srv.peers, <<Confer("audit", "auth")>>),
            {"auth"})

restartParserDownM2d ==
  Procedure({"net"}, {"parser", "apply"},
            <<Replace({Pair("net", "parser"), Pair("parser", "apply")}),
              StartOf("apply", "parser"), StartOf("parser", "net"),
              Confer("net", "parser")>>,
            {"apply", "parser"})

restartParserDownM2g ==
  Procedure({"net"}, {"parser", "plan", "apply", "journal", "audit"},
            <<Replace({Pair("net", "parser"), Pair("parser", "plan"), Pair("plan", "apply"),
                       Pair("apply", "journal"), Pair("journal", "audit")}),
              StartOf("audit", "journal"), StartOf("journal", "apply"),
              StartOf("apply", "plan"), StartOf("plan", "parser"),
              StartOf("parser", "net"), Confer("net", "parser")>>,
            {"audit", "journal", "apply", "plan", "parser"})

restartParserDownM2h ==
  Procedure({"net"}, {"parser", "plan", "index", "apply", "journal", "audit"},
            <<Replace({Pair("net", "parser"), Pair("parser", "plan"), Pair("plan", "index"),
                       Pair("index", "apply"), Pair("apply", "journal"),
                       Pair("journal", "audit")} \cup replaceAuthAuditPair),
              StartOf("audit", "journal")>>
            \o sendAuthAuditPeerFD
            \o <<StartOf("journal", "apply"), StartOf("apply", "index"),
                 StartOf("index", "plan"), StartOf("plan", "parser"),
                 StartOf("parser", "net"), Confer("net", "parser")>>,
            {"audit", "journal", "apply", "index", "plan", "parser"})

restartApplySubtree(bridge) ==
  Procedure({bridge}, {"apply", "journal", "audit"},
            <<Replace({Pair(bridge, "apply"), Pair("apply", "journal"),
                       Pair("journal", "audit")} \cup replaceAuthAuditPair),
              StartOf("audit", "journal")>>
            \o sendAuthAuditPeerFD
            \o <<StartOf("journal", "apply"), StartOf("apply", bridge),
                 Confer(bridge, "apply")>>
            \o If(srv.peers, << [op |-> "same", role |-> "auth", peer |-> "auth"] >>),
            {"audit", "journal", "apply"})

\* Mutant of RestartOne: the survivor keeps its end of the old pair.
RestartOneNoConfer(dead, live) ==
  Procedure({live}, {},
            <<Supersede(dead), Replace({Pair(dead, live)}), StartOf(dead, live)>>,
            {dead})

(* Runtime.RestartOne drops the dead handle itself and then rebinds live. *)
RestartOne(dead, live) ==
  Procedure({live}, {},
            <<Supersede(dead), Replace({Pair(dead, live)}), StartOf(dead, live),
              Confer(live, dead)>>,
            {dead})

NoProcedure == Procedure({"none"}, {}, <<>>, {})

tryRestartOne(dead) ==
  LET f == srv.fleet
      m2h == f \in {"m2h", "m2j"}
      apply == dead \in {"apply", "journal", "audit"} IN
  IF dead = "auth" /\ (f \in {"m2c", "m2d", "m2g"} \/ m2h)
  THEN IF srv.peers /\ ~m2h THEN NoProcedure ELSE restartAuthPrimary
  ELSE IF f = "m2g" /\ (dead \in {"parser", "plan"}
                          \/ (apply /\ \E r \in {"parser", "plan"} : ~childAlive(r)))
  THEN restartParserDownM2g
  ELSE IF m2h /\ (dead \in {"parser", "plan", "index"}
                    \/ (apply /\ \E r \in {"parser", "plan", "index"} : ~childAlive(r)))
  THEN restartParserDownM2h
  ELSE IF (f = "m2g" \/ m2h) /\ apply
  THEN restartApplySubtree(IF m2h THEN "index" ELSE "plan")
  ELSE IF f = "m2d" /\ (dead = "parser" \/ (dead = "apply" /\ ~childAlive("parser")))
  THEN restartParserDownM2d
  ELSE IF dead = "apply" /\ f \in {"m2a", "m2c"} THEN RestartOne(dead, "net")
  ELSE IF dead = "apply" /\ f = "m2d" THEN RestartOne(dead, "parser")
  ELSE NoProcedure

(* The most upstream role among the exits seen and the roles not alive. *)
escalateRestartTrigger(first, got) ==
  LET seen == {first} \cup got \cup {r \in FleetRoles \ {"net"} : ~childAlive(r)}
      order == <<"parser", "plan", "index", "apply", "journal", "audit", "auth">>
      hits == {i \in 1 .. Len(order) : order[i] \in seen} IN
  IF hits = {} THEN first
  ELSE order[CHOOSE i \in hits : \A j \in hits : i <= j]

(* The script of a full restart. *)
respawnAll == <<Replace(replaceRolePairs[srv.fleet])>> \o Starts(startRoleChildren[srv.fleet])

(***************************************************************************)
(* Start.                                                                  *)
(***************************************************************************)
(* The plan builds, seals and opens: OpenRuntime succeeds. *)
Launchable(p) == BuildPlan(p) /\ MaterializeLaunch(p)

Init ==
  /\ opts \in ServeOptions
  /\ srv = [fleet |-> "m2a", peers |-> FALSE, once |-> FALSE, max |-> 0]
  /\ child = [r \in AllRoles |-> Absent]
  /\ fab = <<>>
  /\ sending = NoExits /\ exitq = NoExits
  /\ pc = "init" /\ script = <<>> /\ after = "boot" /\ armed = {} /\ down = {}
  /\ restarts = 0 /\ rebuilds = 0 /\ netSeq = 0 /\ ready = 0 /\ addr = 0
  /\ cancelled = "no" /\ err = "none" /\ deaths = 0 /\ faults = 0 /\ dropped = {}

(* Options are checked, the plan is sealed, the fabric is opened. *)
Start ==
  /\ pc = "init" /\ (StartAccepts(opts) => FleetOf(opts) \in Explored)
  /\ IF StartAccepts(opts) /\ Launchable(PlanOf[FleetOf(opts)])
     THEN LET f == FleetOf(opts) IN
          /\ srv' = [fleet |-> f, peers |-> opts.peers, once |-> opts.once,
                     max |-> IF opts.once THEN 0 ELSE MaxRestarts]
          /\ fab' = [p \in PlanPairs(PlanOf[f]) |-> [gen |-> 1, taken |-> {}]]
          /\ script' = Starts(startRoleChildren[f])
          /\ pc' = "script" /\ UNCHANGED err
     ELSE /\ pc' = "refused" /\ err' = IF StartAccepts(opts) THEN "plan" ELSE "options"
          /\ UNCHANGED <<srv, fab, script>>
  /\ opts' = [opts EXCEPT !.disable = {}, !.strict = FALSE, !.rootKey = ~opts.peers]
  /\ UNCHANGED <<child, sending, exitq, after, armed, down, restarts, rebuilds,
                 netSeq, ready, addr, cancelled, deaths, faults, dropped>>

(***************************************************************************)
(* Running a script.                                                       *)
(***************************************************************************)
Next1(op) == /\ pc = "script" /\ script # <<>> /\ Head(script).op = op
             /\ script' = Tail(script)

ScriptReplace ==
  /\ Next1("replace")
  /\ fab' = ReplacePair(Head(script).pairs)
  /\ UNCHANGED <<opts, srv, child, sending, exitq, pc, after, armed, down, restarts,
                 rebuilds, netSeq, ready, addr, cancelled, err, deaths, faults, dropped>>

(* Runtime.StartChild: the process gets its ends of the current pairs. *)
StartChild ==
  /\ Next1("start") /\ Possible(Head(script))
  /\ LET r == Head(script).role
         peers == PeersAtStart(r, Head(script).peer) IN
     /\ child' = [child EXCEPT ![r] = Handle([p \in peers |-> fab[Pair(r, p)].gen])]
     /\ fab' = Take(r, peers)
     /\ netSeq' = IF r = "net" THEN netSeq + 1 ELSE netSeq
     /\ dropped' = dropped \ {r}
  /\ UNCHANGED <<opts, srv, sending, exitq, pc, after, armed, down, restarts,
                 rebuilds, ready, addr, cancelled, err, deaths, faults>>

(* conferPeerFD: the new end is sent to a survivor, whose rebind loop       *)
(* swaps it in and acknowledges.  The wait for that ends with the           *)
(* acknowledgement or with the survivor (its deadline has no effect on the  *)
(* blocking key channel), and a missing acknowledgement is ignored: a       *)
(* survivor that dies after the send is not a failure of the call.          *)
conferPeerFD ==
  /\ Next1("confer")
  /\ LET to == Head(script).role
         p == Head(script).peer IN
     /\ conferPeerFDSends(to, p)
     /\ IF child[to].up
        THEN child' = [child EXCEPT ![to].ends =
               [q \in DOMAIN @ \cup {p} |-> IF q = p THEN fab[Pair(to, p)].gen ELSE @[q]]]
        ELSE UNCHANGED child
     /\ fab' = Take(to, {p})
  /\ UNCHANGED <<opts, srv, sending, exitq, pc, after, armed, down, restarts,
                 rebuilds, netSeq, ready, addr, cancelled, err, deaths, faults, dropped>>

ScriptOther ==
  /\ \/ Next1("supersede") /\ child' = [child EXCEPT ![Head(script).role] = Absent]
     \/ Next1("same") /\ Possible(Head(script)) /\ UNCHANGED child
  /\ UNCHANGED <<opts, srv, fab, sending, exitq, pc, after, armed, down, restarts,
                 rebuilds, netSeq, ready, addr, cancelled, err, deaths, faults, dropped>>

(* The first call that fails ends the procedure: a selective restart falls *)
(* back to a full one, a full one ends supervise, Start closes the runtime. *)
ScriptFails ==
  /\ pc = "script" /\ script # <<>>
  /\ \/ ~Possible(Head(script)) /\ UNCHANGED faults
     \/ Possible(Head(script)) /\ faults < MaxFaults /\ faults' = faults + 1
  /\ script' = <<>>
  /\ \/ after = "one" /\ pc' = "full" /\ UNCHANGED <<child, err>>
     \/ after = "full" /\ pc' = "cleanup" /\ err' = "respawn" /\ UNCHANGED child
     \/ after = "boot" /\ pc' = "refused" /\ child' = RuntimeClosed /\ UNCHANGED err
  /\ UNCHANGED <<opts, srv, fab, sending, exitq, after, armed, down, restarts,
                 rebuilds, netSeq, ready, addr, cancelled, deaths, dropped>>

(***************************************************************************)
(* supervise.                                                              *)
(***************************************************************************)
(* The listen address arrives: at boot supervise starts (or, in once mode, *)
(* waits for each role in turn); after a full restart watchers are armed   *)
(* on a fresh channel.                                                     *)
BecomeReady ==
  /\ pc = "script" /\ script = <<>> /\ after \in {"boot", "full"} /\ ready # 0
  /\ addr' = ready
  /\ IF srv.once THEN pc' = "once" /\ UNCHANGED child
     ELSE pc' = "select" /\ child' = Armed(FleetRoles)
  /\ rebuilds' = IF after = "full" THEN rebuilds + 1 ELSE rebuilds
  /\ UNCHANGED <<opts, srv, fab, sending, exitq, script, after, armed, down, restarts,
                 netSeq, ready, cancelled, err, deaths, faults, dropped>>

(* What a net process that is still starting may yet write. *)
LateFile == IF child["net"].up /\ ready = 0 THEN {netSeq} ELSE {}

(* waitReadyFile times out after 30 seconds: net is gone, or slow.  Start  *)
(* closes the runtime and leaves the path to whatever net did with it.     *)
ReadyTimeout ==
  /\ pc = "script" /\ script = <<>> /\ after \in {"boot", "full"}
  /\ ready = 0 /\ err' = "ready"
  /\ IF after = "boot"
     THEN pc' = "refused" /\ child' = RuntimeClosed /\ ready' \in {0} \cup LateFile
     ELSE pc' = "cleanup" /\ UNCHANGED <<child, ready>>
  /\ UNCHANGED <<opts, srv, fab, sending, exitq, script, after, armed, down, restarts,
                 rebuilds, netSeq, addr, cancelled, deaths, faults, dropped>>

BudgetSpent == restarts >= srv.max

(* An exit is received: give up when stopped or out of budget, else choose *)
(* a selective restart or a full one.                                      *)
ReceiveExit(first) ==
  /\ pc = "select" /\ exitq[first] > 0
  /\ LET left == [exitq EXCEPT ![first] = @ - 1] IN
     IF cancelled # "no" \/ BudgetSpent
     THEN /\ pc' = "cleanup" /\ err' = IF cancelled # "no" THEN "cancelled" ELSE "budget"
          /\ exitq' = left
          /\ UNCHANGED <<child, script, after, armed, down, restarts, dropped>>
     ELSE \E got \in SUBSET {r \in AllRoles : left[r] > 0} :
          LET p == tryRestartOne(escalateRestartTrigger(first, got))
              go == p.need \subseteq Tracked IN
          /\ restarts' = restarts + 1
          /\ exitq' = [r \in AllRoles |-> IF r \in got THEN 0 ELSE left[r]]
          /\ pc' = IF ~go THEN "full" ELSE IF p.kill = {} THEN "script" ELSE "await"
          /\ child' = IF go THEN Killed(p.kill) ELSE child
          /\ script' = IF go THEN p.calls ELSE <<>>
          /\ down' = IF go THEN p.kill ELSE {}
          /\ armed' = IF go THEN p.arm ELSE {}
          /\ after' = "one"
          /\ dropped' = dropped \cup {first} \cup got
          /\ UNCHANGED err
  /\ UNCHANGED <<opts, srv, fab, sending, rebuilds, netSeq, ready, addr, cancelled,
                 deaths, faults>>

(* The roles taken down are gone; every exit buffered so far is dropped. *)
AwaitDown ==
  /\ pc = "await" /\ down \cap Tracked = {}
  /\ exitq' = NoExits /\ dropped' = dropped \cup Buffered
  /\ pc' = "script" /\ down' = {}
  /\ UNCHANGED <<opts, srv, child, fab, sending, script, after, armed, restarts,
                 rebuilds, netSeq, ready, addr, cancelled, err, deaths, faults>>

\* Mutant of Settle: every selective restart gives its budget back.
SettleRefunds ==
  /\ pc = "script" /\ script = <<>> /\ after = "one"
  /\ exitq' = NoExits /\ dropped' = dropped \cup Buffered /\ armed' = {}
  /\ restarts' = restarts - 1
  /\ IF childAlive("net")
     THEN pc' = "select" /\ child' = Armed(armed) /\ rebuilds' = rebuilds + 1
     ELSE pc' = "full" /\ UNCHANGED <<child, rebuilds>>
  /\ UNCHANGED <<opts, srv, fab, sending, script, after, down, netSeq, ready, addr,
                 cancelled, err, deaths, faults>>

(* A selective restart ends well: exits are flushed again and, if net is   *)
(* still tracked, the new roles are watched and the address republished;   *)
(* otherwise the budget is given back and the whole fleet is restarted.    *)
Settle ==
  /\ pc = "script" /\ script = <<>> /\ after = "one"
  /\ exitq' = NoExits /\ dropped' = dropped \cup Buffered /\ armed' = {}
  /\ IF childAlive("net")
     THEN /\ pc' = "select" /\ child' = Armed(armed) /\ rebuilds' = rebuilds + 1
          /\ UNCHANGED restarts
     ELSE /\ pc' = "full" /\ restarts' = restarts - 1
          /\ UNCHANGED <<child, rebuilds>>
  /\ UNCHANGED <<opts, srv, fab, sending, script, after, down, netSeq, ready, addr,
                 cancelled, err, deaths, faults>>

(* Full fleet restart: kill what is tracked ... *)
KillFleet ==
  /\ pc = "full"
  /\ child' = killTracked
  /\ pc' = "drain"
  /\ UNCHANGED <<opts, srv, fab, sending, exitq, script, after, armed, down, restarts,
                 rebuilds, netSeq, ready, addr, cancelled, err, deaths, faults, dropped>>

\* Mutant of drainExits: the old ready file stays.
drainExitsKeepsReady ==
  /\ pc = "drain" /\ Tracked = {}
  /\ script' = respawnAll
  /\ after' = "full" /\ pc' = "script"
  /\ exitq' = NoExits /\ sending' = NoExits /\ dropped' = {}
  /\ UNCHANGED <<opts, srv, child, fab, armed, down, restarts, rebuilds, netSeq, ready,
                 addr, cancelled, err, deaths, faults>>

(* ... wait until nothing is tracked, remove the ready file and respawn.   *)
(* Exits still on their way go to the old channel, which nobody reads.     *)
drainExits ==
  /\ pc = "drain" /\ Tracked = {}
  /\ ready' = 0
  /\ script' = respawnAll
  /\ after' = "full" /\ pc' = "script"
  /\ exitq' = NoExits /\ sending' = NoExits /\ dropped' = {}
  /\ UNCHANGED <<opts, srv, child, fab, armed, down, restarts, rebuilds, netSeq, addr,
                 cancelled, err, deaths, faults>>

\* Mutant of drainTimeout: the kill is tried again instead of giving up.
drainTimeoutRetries ==
  /\ pc = "drain" /\ Tracked # {} /\ \A r \in Tracked : ~child[r].watched
  /\ pc' = "full"
  /\ UNCHANGED <<opts, srv, child, fab, sending, exitq, script, after, armed, down, err,
                 restarts, rebuilds, netSeq, ready, addr, cancelled, deaths, faults, dropped>>

(* A killed process is reaped by its watcher well within 15 seconds; a     *)
(* child without a watcher stays tracked and the drain times out.          *)
drainTimeout ==
  /\ pc = "drain" /\ Tracked # {} /\ \A r \in Tracked : ~child[r].watched
  /\ pc' = "cleanup" /\ err' = "tracked"
  /\ UNCHANGED <<opts, srv, child, fab, sending, exitq, script, after, armed, down,
                 restarts, rebuilds, netSeq, ready, addr, cancelled, deaths, faults, dropped>>

(* The other arm of the select. *)
ParentDone ==
  /\ pc = "select" /\ cancelled = "parent"
  /\ pc' = "cleanup" /\ err' = "cancelled"
  /\ UNCHANGED <<opts, srv, child, fab, sending, exitq, script, after, armed, down,
                 restarts, rebuilds, netSeq, ready, addr, cancelled, deaths, faults, dropped>>

(* Once mode: WaitChild for each role of roleList in order. *)
WaitChildren ==
  /\ pc = "once"
  /\ LET left == {i \in 1 .. Len(roleList[srv.fleet]) : child[roleList[srv.fleet][i]].tracked} IN
     IF left = {} THEN pc' = "cleanup" /\ UNCHANGED child
     ELSE LET r == roleList[srv.fleet][CHOOSE i \in left : \A j \in left : i <= j] IN
          /\ ~child[r].up
          /\ child' = [child EXCEPT ![r] = Absent]
          /\ UNCHANGED pc
  /\ UNCHANGED <<opts, srv, fab, sending, exitq, script, after, armed, down, restarts,
                 rebuilds, netSeq, ready, addr, cancelled, err, deaths, faults, dropped>>

(* The deferred part of supervise: the ready file is removed, then the     *)
(* processes are killed.  (A net process that was given up may come        *)
(* between; in every other case it wrote its file long ago or never ran.)  *)
Cleanup ==
  /\ pc = "cleanup"
  /\ ready' \in {0} \cup IF err = "ready" THEN LateFile ELSE {}
  /\ cancelled' = IF cancelled = "no" THEN "close" ELSE cancelled
  /\ child' = killTracked
  /\ pc' = "reap"
  /\ UNCHANGED <<opts, srv, fab, sending, exitq, script, after, armed, down, restarts,
                 rebuilds, netSeq, addr, err, deaths, faults, dropped>>

Finish ==
  /\ pc = "reap" /\ \A r \in Tracked : ~child[r].watched
  /\ pc' = "done"
  /\ sending' = NoExits /\ exitq' = NoExits /\ fab' = <<>>
  /\ UNCHANGED <<opts, srv, child, script, after, armed, down, restarts, rebuilds,
                 netSeq, ready, addr, cancelled, err, deaths, faults, dropped>>

(***************************************************************************)
(* Watchers, role processes, the caller.                                   *)
(***************************************************************************)
Rest == <<opts, srv, fab, script, after, armed, down, restarts, rebuilds, netSeq, addr, err>>

(* armWatcher: Wait returns, the handle is dropped ... *)
Reapable == {r \in FleetRoles : child[r].tracked /\ child[r].watched /\ ~child[r].up}

Dropped(S) == [r \in AllRoles |-> IF r \in S THEN Absent ELSE child[r]]

Reap(r) ==
  /\ r \in Reapable /\ pc \notin {"await", "drain", "reap"} /\ cancelled = "no"
  /\ child' = Dropped({r})
  /\ sending' = [sending EXCEPT ![r] = @ + 1]
  /\ UNCHANGED <<Rest, exitq, pc, ready, cancelled, deaths, faults, dropped>>

(* (Children killed together are reaped in one step.  A loop that waits    *)
(* for them swallows their exits, except the late ones, still on their way *)
(* when it ends.)                                                          *)
ReapKilled ==
  /\ Reapable # {}
  /\ pc \in {"await", "drain", "reap"} \/ cancelled # "no"
  /\ child' = Dropped(Reapable)
  /\ \E late \in SUBSET Reapable :
       /\ IF pc \in {"drain", "reap"} THEN late = {}
          ELSE IF pc = "await" THEN Cardinality(late) <= MaxLate ELSE late = Reapable
       /\ sending' = [r \in AllRoles |-> IF r \in late THEN sending[r] + 1 ELSE sending[r]]
       /\ dropped' = IF pc = "await" THEN dropped \cup (Reapable \ late) ELSE dropped
  /\ UNCHANGED <<Rest, exitq, pc, ready, cancelled, deaths, faults>>

(* ... and the role is put on exitCh. *)
Notify(S) ==
  /\ S # {} /\ \A r \in S : sending[r] > 0
  /\ pc \notin {"done", "refused"}
  /\ sending' = [r \in AllRoles |-> IF r \in S THEN 0 ELSE sending[r]]
  /\ exitq' = [r \in AllRoles |-> IF r \in S THEN exitq[r] + sending[r] ELSE exitq[r]]
  /\ UNCHANGED <<Rest, child, pc, ready, cancelled, deaths, faults, dropped>>

NotifyStep == IF cancelled = "no" THEN \E r \in AllRoles : Notify({r})
              ELSE Notify({r \in AllRoles : sending[r] > 0})

(* A role process crashes, is killed, or leaves because a peer closed. *)
Die(r) ==
  /\ child[r].up /\ cancelled = "no"
  /\ IF pc = "once" THEN UNCHANGED deaths ELSE deaths < MaxDeaths /\ deaths' = deaths + 1
  /\ child' = [child EXCEPT ![r].up = FALSE]
  /\ UNCHANGED <<Rest, sending, exitq, pc, ready, cancelled, faults, dropped>>

(* runNet binds the listener and renames the ready file into place. *)
NetReady ==
  /\ pc = "script" /\ script = <<>> /\ after # "one"
  /\ child["net"].up /\ ready = 0
  /\ ready' = netSeq
  /\ UNCHANGED <<Rest, child, sending, exitq, pc, cancelled, deaths, faults, dropped>>

(* The caller calls Close or cancels its context: runCtx is cancelled ... *)
Stop ==
  /\ pc \notin {"init", "refused", "cleanup", "reap", "done"} /\ cancelled = "no"
  /\ cancelled' \in {"close", "parent"}
  /\ UNCHANGED <<Rest, child, sending, exitq, pc, ready, deaths, faults, dropped>>

(* ... which kills every process started under it. *)
ContextKill ==
  /\ cancelled # "no" /\ \E r \in FleetRoles : child[r].up
  /\ child' = killTracked
  /\ UNCHANGED <<Rest, sending, exitq, pc, ready, cancelled, deaths, faults, dropped>>

Supervise ==
  \/ Start \/ ScriptReplace \/ StartChild \/ conferPeerFD \/ ScriptOther \/ ScriptFails
  \/ BecomeReady \/ ReadyTimeout \/ AwaitDown \/ Settle \/ KillFleet \/ drainExits
  \/ drainTimeout \/ ParentDone \/ WaitChildren \/ Cleanup \/ Finish
  \/ \E r \in AllRoles : ReceiveExit(r)

(* What runs by itself: supervise, the watchers, the context, the net role. *)
Progress == Supervise \/ ReapKilled \/ NotifyStep \/ ContextKill \/ NetReady
            \/ \E r \in AllRoles : Reap(r)

Terminated == /\ \/ pc \in {"done", "refused"}
                 \/ pc = "init" /\ StartAccepts(opts) /\ FleetOf(opts) \notin Explored
              /\ UNCHANGED vars

Next == Progress \/ Stop \/ Terminated \/ \E r \in AllRoles : Die(r)

(* Only that something of it eventually runs, when anything can. *)
Spec == Init /\ [][Next]_vars /\ WF_vars(Progress)

(***************************************************************************)
(* Properties.                                                             *)
(***************************************************************************)
(* The states of supervise, the children it tracks and the fabric.         *)
TypeOK ==
  /\ opts \in ServeOptions
  /\ srv \in [fleet : Fleets, peers : BOOLEAN, once : BOOLEAN, max : {0, MaxRestarts}]
  /\ \A r \in AllRoles : /\ {child[r].tracked, child[r].up, child[r].watched} \subseteq BOOLEAN
                          /\ child[r].up => child[r].tracked
  /\ \A e \in DOMAIN fab : fab[e].gen \in Nat /\ fab[e].taken \subseteq e
  /\ {sending, exitq} \subseteq [AllRoles -> Nat]
  /\ pc \in {"init", "script", "select", "await", "full", "drain", "once", "cleanup",
             "reap", "done", "refused"}
  /\ {armed, down} \subseteq SUBSET AllRoles
  /\ restarts \in 0 .. srv.max

(* armWatchers: "one Wait owner per tracked child".  Whenever supervise    *)
(* waits for exits, every child it tracks has a watcher.  (The exit the    *)
(* watcher reports may still be discarded: see Accounted.)                 *)
WaitOwners == pc = "select" => \A r \in Tracked : child[r].watched

(* After any mix of selective and full restarts, the two live ends of every *)
(* edge of the plan hold the two sides of the same socket pair.             *)
Connected ==
  pc = "select" =>
    \A r \in FleetRoles : \A q \in PlanOf[srv.fleet][r] :
      child[r].up /\ child[q].up =>
        /\ q \in DOMAIN child[r].ends /\ r \in DOMAIN child[q].ends
        /\ child[r].ends[q] = child[q].ends[r]

(* No process ever holds a channel to a role the sealed plan does not give *)
(* it, and none is started without one it does give.                       *)
HoldsItsGrants ==
  \A r \in FleetRoles : child[r].tracked => DOMAIN child[r].ends = PlanOf[srv.fleet][r]

(* Whenever supervise waits for exits, a role that is not running is one   *)
(* whose exit is on its way to it, or one whose exit a selective restart   *)
(* of other roles has discarded (escalateRestartTrigger takes it and acts  *)
(* for a role further upstream, the wait for the killed roles receives it, *)
(* or flushExitPending drops it).  Only those wait unattended, until some  *)
(* later exit; net is re-checked (serve_unix.go:514) and is never one.     *)
Accounted ==
  pc = "select" =>
    \A r \in FleetRoles : \/ child[r].tracked
                          \/ sending[r] > 0
                          \/ exitq[r] > 0
                          \/ r \in dropped /\ r # "net"

(* Whenever supervise waits again, after any sequence of deaths and        *)
(* restarts, every tracked child is watched, holds exactly its granted     *)
(* channels and shares them with its live peers, and a role without a      *)
(* process is accounted for.                                               *)
FleetIsWhole == TypeOK /\ WaitOwners /\ Connected /\ HoldsItsGrants /\ Accounted

(* Options that pass Start's own checks select a fleet whose tables agree: *)
(* the plan builds and seals, every role of it is started once with        *)
(* exactly its peers, and a full restart renews exactly the plan's edges.  *)
AcceptedIsLaunchable ==
  pc = "init" /\ StartAccepts(opts) =>
    LET f == FleetOf(opts)
        order == startRoleChildren[f] IN
    /\ Launchable(PlanOf[f])
    /\ Roles(f) = DOMAIN PlanOf[f]
    /\ \A i \in 1 .. Len(order) : order[i][1] \in Roles(f)
    /\ \A r \in Roles(f) : \E i \in 1 .. Len(order) :
         /\ order[i][1] = r /\ {order[i][2]} \cup Extra(f, r) = PlanOf[f][r]
         /\ \A j \in 1 .. Len(order) : order[j][1] = r => j = i
    /\ replaceRolePairs[f] = PlanPairs(PlanOf[f])

(* A published address belongs to the net process that is running or has   *)
(* just died, never to an earlier incarnation.                             *)
PublishedIsCurrent == pc = "select" => addr = netSeq

(* Once the server has stopped, or Start has failed, no role process runs  *)
(* and no ready file advertises an address, unless it gave up on a net     *)
(* process that was still starting: that one may write the file after the  *)
(* last removal and before it is killed.                                   *)
NoOrphans ==
  pc \in {"done", "refused"} =>
    (\A r \in AllRoles : ~child[r].up) /\ (ready = 0 \/ err = "ready")

(* An address is advertised only for a net process that runs, or whose     *)
(* exit is about to be handled, and nothing outlives the server.           *)
AdvertisedIsRunning == PublishedIsCurrent /\ NoOrphans

(* Close and a cancelled parent context always end supervise, whatever     *)
(* restart is under way.                                                   *)
StopReturns == cancelled # "no" ~> pc \in {"done", "refused"}

(* supervise rebuilds the fleet, in part or in full, at most MaxRestarts   *)
(* times, also where a selective restart gives its budget back and falls   *)
(* through to a full one (serve_unix.go:514).                              *)
BudgetHolds == rebuilds <= srv.max
=============================================================================
