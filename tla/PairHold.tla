------------------------------ MODULE PairHold ------------------------------
(***************************************************************************)
(* The supervisor's two live children of one edge                          *)
(* (internal/supervisor/runtime_unix.go: StartPair, RestartPair,           *)
(* RestartOne, RestartChild, WaitPairHoldReady, WaitChild, Close) and the  *)
(* role stub they run (cmd/integris-role-stub).  A stub in a hold mode     *)
(* does one exchange, reports ready on its key channel, waits there for    *)
(* the socket to a restarted peer, and does a second exchange on it with a *)
(* fresh channel.  The steps of the supervisor interleave with those of    *)
(* the stubs and with kills.                                               *)
(*                                                                         *)
(* StartChild is one step here (Launch has its inside).  The environment   *)
(* calls the operations one at a time and in any order, except that it     *)
(* does not call StartPair over a stub that is still tracked.              *)
(***************************************************************************)
EXTENDS Naturals, Sequences, FiniteSets

CONSTANTS MaxGens,   \* bound: socket pairs of the edge
          MaxKills,  \* bound: stubs killed from outside
          MaxOps     \* bound: operations called on the runtime

VARIABLES
  gen,      \* the socket pair in the fabric: 1 for the first one
  fab,      \* the roles whose end of that pair the fabric still has
  children, \* the roles in Runtime.Children, each with an open KeyChannel
  unclosed, \* key channels of handles dropped without closeSCMKeys
  mode,     \* Runtime.StubMode
  proc,     \* the stub of each role
  wire,     \* <<pair, reader>> -> frames written and not read, by number
  keyCh,    \* sockets (by pair) on their way to a stub over its key channel
  ready,    \* roles whose StubReadyMagic is written and not read
  sup,      \* [op, dead]: the step the supervisor is at
  healed,   \* history: RestartOne succeeded for a waiting stub, no kill since
  kills, ops

pairVars == <<gen, fab, children, unclosed, mode, proc, wire, keyCh, ready, sup, healed,
              kills, ops>>

Ends == {"ini", "res"}   \* the initiator of StartPair and the responder

Other(r) == IF r = "ini" THEN "res" ELSE "ini"

Modes == {"respond", "initiate", "hold_respond", "hold_initiate"}

NoProc == [at |-> "none", hold |-> FALSE, round |-> 0, sock |-> 0, tx |-> 0, rx |-> 0]

Running(r) == proc[r].at \notin {"none", "done", "failed"}

(* The end of pair g that role r reads from is open somewhere. *)
EndOpen(g, r) ==
  \/ Running(r) /\ (proc[r].sock = g \/ g \in {keyCh[r][i] : i \in 1..Len(keyCh[r])})
  \/ gen = g /\ r \in fab

StubAt(m) == IF m \in {"initiate", "hold_initiate"} THEN "send" ELSE "serve"

(* NewAuthenticatedChannel on a socket: both counters start over. *)
Exchange(m, round, g) ==
  [at |-> StubAt(m), hold |-> m \in {"hold_initiate", "hold_respond"},
   round |-> round, sock |-> g, tx |-> 0, rx |-> 0]

Idle == [op |-> "idle", dead |-> ""]

Step(op, dead) == [op |-> op, dead |-> dead]
-----------------------------------------------------------------------------
PairInit ==
  /\ gen = 1 /\ fab = Ends
  /\ children = {} /\ unclosed = 0
  /\ mode = [r \in Ends |-> "respond"]
  /\ proc = [r \in Ends |-> NoProc]
  /\ wire = [e \in (1..MaxGens) \X Ends |-> <<>>]
  /\ keyCh = [r \in Ends |-> <<>>] /\ ready = {}
  /\ sup = Idle /\ healed = FALSE /\ kills = 0 /\ ops = 0

Untrack(R) == children' = children \ R

(* Process.Kill and Wait of the given stubs: with the stub goes what was on its *)
(* way to it.                                                                   *)
KillAndWait(R) ==
  /\ proc' = [r \in Ends |-> IF r \in R THEN NoProc ELSE proc[r]]
  /\ keyCh' = [r \in Ends |-> IF r \in R THEN <<>> ELSE keyCh[r]]
  /\ ready' = ready \ R

(* closeSCMKeys, Kill and Wait of the given stubs, if they are tracked. *)
End(R) == Untrack(R) /\ KillAndWait(R \cap children) /\ UNCHANGED unclosed

(* StartChild: takes the fabric's end and spawns the stub, or fails.  A failure *)
(* may come before or after the fabric's end is closed.                         *)
StartChild(r, m) ==
  /\ r \in fab
  /\ fab' = fab \ {r}
  /\ children' = children \cup {r}
  /\ proc' = [proc EXCEPT ![r] = Exchange(m, 1, gen)]
  /\ keyCh' = [keyCh EXCEPT ![r] = <<>>]
  /\ ready' = ready \ {r}

StartFails(r) == fab' \in {fab, fab \ {r}}

Called == ops < MaxOps /\ sup = Idle /\ ops' = ops + 1

(* StartPair: modes by Runtime.PairHold, which is the caller's; responder first. *)
PairModes(hold) ==
  [r \in Ends |-> IF r = "ini" THEN (IF hold THEN "hold_initiate" ELSE "initiate")
                  ELSE IF hold THEN "hold_respond" ELSE "respond"]

(* SetChild overwrites a handle without a look at it, so a caller has to end a *)
(* stub before it starts another one for the role: no role is both tracked and *)
(* startable when StartPair is called.                                         *)
StartPair(hold) ==
  /\ Called /\ fab \cap children = {}
  /\ mode' = PairModes(hold)
  /\ sup' = Step("pair_res", "")
  /\ UNCHANGED <<gen, fab, children, unclosed, proc, wire, keyCh, ready, healed, kills>>

StartResponder ==
  /\ sup.op = "pair_res"
  /\ \/ StartChild("res", mode["res"]) /\ sup' = Step("pair_ini", "")
     \/ StartFails("res") /\ sup' = Idle /\ UNCHANGED <<children, proc, keyCh, ready>>
  /\ UNCHANGED <<gen, unclosed, mode, wire, healed, kills, ops>>

(* The initiator does not start: the responder is untracked, killed and waited  *)
(* for, and its key channel is left open.                                       *)
AbandonResponder == Untrack({"res"}) /\ KillAndWait({"res"}) /\ unclosed' = unclosed + 1

StartInitiator ==
  /\ sup.op = "pair_ini"
  /\ \/ StartChild("ini", mode["ini"]) /\ UNCHANGED unclosed
     \/ StartFails("ini") /\ AbandonResponder
  /\ sup' = Idle
  /\ UNCHANGED <<gen, mode, wire, healed, kills, ops>>

(* ReplacePair: the old ends in the fabric are closed, a new pair is made. *)
ReplacePair(then) ==
  \/ sup' = Idle /\ UNCHANGED <<gen, fab>>
  \/ gen < MaxGens /\ gen' = gen + 1 /\ fab' = Ends /\ sup' = then

RestartPair ==
  /\ Called /\ gen < MaxGens
  /\ End(Ends)
  /\ healed' = FALSE
  /\ sup' = Step("repair", "")
  /\ UNCHANGED <<gen, fab, mode, wire, kills>>

(* A new pair goes on to StartPair, which sets both modes again. *)
RestartPairReplace ==
  /\ sup.op = "repair"
  /\ ReplacePair(Step("pair_res", ""))
  /\ IF sup'.op = "idle" THEN UNCHANGED mode
     ELSE mode' \in {PairModes(hold) : hold \in BOOLEAN}
  /\ UNCHANGED <<children, unclosed, proc, wire, keyCh, ready, healed, kills, ops>>

(* RestartChild: kill, replace the pair, start; the other role is left alone. *)
RestartChild(r) ==
  /\ Called /\ gen < MaxGens
  /\ End({r})
  /\ healed' = FALSE
  /\ sup' = Step("rechild", r)
  /\ UNCHANGED <<gen, fab, mode, wire, kills>>

RestartChildReplace ==
  /\ sup.op = "rechild"
  /\ ReplacePair(Step("start", sup.dead))
  /\ UNCHANGED <<children, unclosed, mode, proc, wire, keyCh, ready, healed, kills, ops>>

RestartChildStart ==
  /\ sup.op = "start"
  /\ \/ StartChild(sup.dead, mode[sup.dead])
     \/ StartFails(sup.dead) /\ UNCHANGED <<children, proc, keyCh, ready>>
  /\ sup' = Idle
  /\ UNCHANGED <<gen, unclosed, mode, wire, healed, kills, ops>>
-----------------------------------------------------------------------------
(***************************************************************************)
(* RestartOne(dead): the survivor must be tracked with an open key channel. *)
(***************************************************************************)
RestartOne(dead) ==
  /\ Called /\ gen < MaxGens
  /\ Other(dead) \in children
  /\ End({dead})
  /\ healed' = FALSE
  /\ sup' = Step("one", dead)
  /\ UNCHANGED <<gen, fab, mode, wire, kills>>

RestartOneReplace ==
  /\ sup.op = "one"
  /\ ReplacePair(Step("one_start", sup.dead))
  /\ UNCHANGED <<children, unclosed, mode, proc, wire, keyCh, ready, healed, kills, ops>>

(* The restarted stub does a single exchange. *)
SingleMode(dead) == [mode EXCEPT ![dead] = IF dead = "ini" THEN "initiate" ELSE "respond"]

RestartOneStart ==
  /\ sup.op = "one_start"
  /\ mode' = SingleMode(sup.dead)
  /\ \/ /\ StartFails(sup.dead) /\ sup' = Idle
        /\ UNCHANGED <<children, proc, keyCh, ready>>
     \/ /\ StartChild(sup.dead, SingleMode(sup.dead)[sup.dead])
        /\ sup' = Step("one_send", sup.dead)
  /\ UNCHANGED <<gen, unclosed, wire, healed, kills, ops>>

(* SendPeerFDFile: the live role's end goes to the survivor.  A refusal leaves *)
(* the new stub tracked; the socket is closed except when File() itself fails. *)
SendOldEnd(live) == Append(keyCh[live], gen - 1)

SendEnd(live) == Append(keyCh[live], gen)

RestartOneSend ==
  /\ sup.op = "one_send"
  /\ LET live == Other(sup.dead) IN
     \/ /\ Running(live)
        /\ keyCh' = [keyCh EXCEPT ![live] = SendEnd(live)]
        /\ fab' = fab \ {live}
        /\ healed' = /\ proc[live].at = "hold" /\ keyCh[live] = <<>>
                     /\ Running(sup.dead)
     \/ UNCHANGED <<keyCh, healed>> /\ fab' \in {fab, fab \ {live}}
  /\ sup' = Idle
  /\ UNCHANGED <<gen, children, unclosed, mode, proc, wire, ready, kills, ops>>
-----------------------------------------------------------------------------
(***************************************************************************)
(* WaitPairHoldReady for one role.  The key channel is a blocking file, on *)
(* which SetReadDeadline has no effect, and its error is dropped: the call *)
(* returns when the ready bytes are there or the stub has exited (end of   *)
(* file), and at no other time.                                            *)
(***************************************************************************)
WaitPairHoldReady(r) ==
  /\ Called
  /\ r \in children
  /\ r \in ready \/ ~Running(r)
  /\ ready' = ready \ {r}
  /\ UNCHANGED <<gen, fab, children, unclosed, mode, proc, wire, keyCh, sup, healed, kills>>

(* WaitChild returns once the stub has exited; the handle is dropped with its *)
(* key channel open.                                                          *)
WaitChild(r) ==
  /\ Called
  /\ r \in children /\ ~Running(r)
  /\ Untrack({r}) /\ unclosed' = unclosed + 1
  /\ proc' = [proc EXCEPT ![r].at = "none"]
  /\ UNCHANGED <<gen, fab, mode, wire, keyCh, ready, sup, healed, kills>>

(* Close kills every tracked stub and closes the fabric. *)
Close ==
  /\ sup = Idle
  /\ End(Ends)
  /\ fab' = {} /\ healed' = FALSE
  /\ sup' = Step("closed", "")
  /\ UNCHANGED <<gen, mode, wire, kills, ops>>
-----------------------------------------------------------------------------
(***************************************************************************)
(* The stub: initiate, respond, holdExchange.                              *)
(***************************************************************************)
Exits(r, how) == proc' = [proc EXCEPT ![r].at = how]

(* After an exchange a hold stub in its first round reports and waits. *)
Exchanged(p) == IF p.hold /\ p.round = 1 THEN "report" ELSE "done"

stubUnchanged == <<gen, fab, children, unclosed, mode, sup, healed, kills, ops>>

(* initiate: one request; the write fails once the other end is closed. *)
SendRequest(r) ==
  LET p == proc[r] IN
  /\ p.at = "send"
  /\ IF EndOpen(p.sock, Other(r))
       THEN /\ wire' = [wire EXCEPT ![p.sock, Other(r)] = Append(@, p.tx)]
            /\ proc' = [proc EXCEPT ![r].at = "reply", ![r].tx = @ + 1]
       ELSE Exits(r, "failed") /\ UNCHANGED wire
  /\ UNCHANGED <<keyCh, ready, stubUnchanged>>

(* initiate: the answer, which Decode takes only under the expected number. *)
ReadReply(r) ==
  LET p == proc[r] IN
  /\ p.at = "reply" /\ wire[p.sock, r] # <<>>
  /\ wire' = [wire EXCEPT ![p.sock, r] = Tail(@)]
  /\ IF Head(wire[p.sock, r]) = p.rx
       THEN proc' = [proc EXCEPT ![r].at = Exchanged(p), ![r].rx = @ + 1]
       ELSE Exits(r, "failed")
  /\ UNCHANGED <<keyCh, ready, stubUnchanged>>

(* respond: read, decode, answer. *)
Serve(r) ==
  LET p == proc[r] IN
  /\ p.at = "serve" /\ wire[p.sock, r] # <<>>
  /\ IF Head(wire[p.sock, r]) = p.rx /\ EndOpen(p.sock, Other(r))
       THEN /\ wire' = [wire EXCEPT ![p.sock, r] = Tail(@),
                                    ![p.sock, Other(r)] = Append(@, p.tx)]
            /\ proc' = [proc EXCEPT ![r].at = Exchanged(p), ![r].rx = @ + 1,
                                    ![r].tx = @ + 1]
       ELSE /\ wire' = [wire EXCEPT ![p.sock, r] = Tail(@)]
            /\ Exits(r, "failed")
  /\ UNCHANGED <<keyCh, ready, stubUnchanged>>

(* A read meets end of file: the other end is closed everywhere. *)
EndOfFile(r) ==
  /\ proc[r].at \in {"reply", "serve"}
  /\ wire[proc[r].sock, r] = <<>> /\ ~EndOpen(proc[r].sock, Other(r))
  /\ Exits(r, "failed")
  /\ UNCHANGED <<wire, keyCh, ready, stubUnchanged>>

(* StubReadyMagic.  The stub has inherited the other end of its own key channel, *)
(* so the write finds a reader and the wait for a socket never ends in end of    *)
(* file, whatever the supervisor closed.                                         *)
Report(r) ==
  /\ proc[r].at = "report"
  /\ proc' = [proc EXCEPT ![r].at = "hold"] /\ ready' = ready \cup {r}
  /\ UNCHANGED <<wire, keyCh, stubUnchanged>>

(* RecvPeerFDFile, the old socket closed, a fresh channel, the second exchange. *)
RebindOldChannel(r, g) ==
  [proc[r] EXCEPT !.at = StubAt(IF r = "ini" THEN "initiate" ELSE "respond"),
                  !.round = 2, !.sock = g]

Rebound(r, g) ==
  [Exchange(IF r = "ini" THEN "initiate" ELSE "respond", 2, g) EXCEPT !.hold = TRUE]

Rebind(r) ==
  /\ proc[r].at = "hold" /\ keyCh[r] # <<>>
  /\ proc' = [proc EXCEPT ![r] = Rebound(r, Head(keyCh[r]))]
  /\ keyCh' = [keyCh EXCEPT ![r] = Tail(@)]
  /\ UNCHANGED <<wire, ready, stubUnchanged>>

(* A stub is killed from outside. *)
Kill(r) ==
  /\ kills < MaxKills /\ Running(r)
  /\ kills' = kills + 1
  /\ Exits(r, "failed")
  /\ healed' = FALSE
  /\ UNCHANGED <<gen, fab, children, unclosed, mode, wire, keyCh, ready, sup, ops>>

StubStep(r) ==
  SendRequest(r) \/ ReadReply(r) \/ Serve(r) \/ EndOfFile(r) \/ Report(r) \/ Rebind(r)

SupStep ==
  \/ StartResponder \/ StartInitiator
  \/ RestartPairReplace \/ RestartChildReplace \/ RestartChildStart
  \/ RestartOneReplace \/ RestartOneStart \/ RestartOneSend

CallerStep ==
  \/ \E hold \in BOOLEAN : StartPair(hold)
  \/ RestartPair \/ Close
  \/ \E r \in Ends : \/ RestartChild(r) \/ RestartOne(r)
                     \/ WaitPairHoldReady(r) \/ WaitChild(r)

PairNext == SupStep \/ CallerStep \/ \E r \in Ends : StubStep(r) \/ Kill(r)

(* The stubs and a call in progress are scheduled; nobody has to make a call. *)
PairFairness ==
  /\ \A r \in Ends : WF_pairVars(StubStep(r))
  /\ WF_pairVars(SupStep)

PairSpec == PairInit /\ [][PairNext]_pairVars /\ PairFairness
-----------------------------------------------------------------------------
\* The supervisor's tables and the stubs' states.
PairTypeOK ==
  /\ gen \in 1..MaxGens /\ fab \subseteq Ends
  /\ children \subseteq Ends /\ unclosed \in 0..MaxOps
  /\ mode \in [Ends -> Modes]
  /\ \A r \in Ends :
       /\ proc[r].at \in {"none", "send", "reply", "serve", "report", "hold", "done", "failed"}
       /\ proc[r].sock \in 0..gen
  /\ ready \subseteq Ends /\ healed \in BOOLEAN

\* A frame that waits for a running stub on its socket carries the number the stub's channel
\* expects: restarts never pair a counting channel with one that starts over (Decode would
\* refuse the frame and the survivor of RestartOne would exit).
NumbersAgree ==
  \A r \in Ends :
    LET p == proc[r] IN
    Running(r) /\ p.at \in {"reply", "serve"} /\ wire[p.sock, r] # <<>>
      => Head(wire[p.sock, r]) = p.rx

\* Between two calls every stub that runs is tracked, so Close ends it: also when the second
\* half of StartPair or a step of a restart failed.
NoStrayStub == sup.op \in {"idle", "closed"} => {r \in Ends : Running(r)} \subseteq children

\* RestartOne keeps its promise: when it returned without error for a survivor that was
\* waiting for a socket, none being on its way yet, and nobody is killed afterwards, both
\* stubs complete their exchange.
RestartHeals == [](healed => <>(~healed \/ \A r \in Ends : proc[r].at \in {"done", "none"}))
=============================================================================
