------------------------------ MODULE Receive ------------------------------
(***************************************************************************)
(* The role processes of the receive daemon serving pushes: net, auth,     *)
(* parser, plan, index, apply, journal and audit                           *)
(* (internal/daemon/roles_unix.go), each running its loop of               *)
(* internal/remotesync and talking to its peers by one request at a time   *)
(* over a socket pair.  Clients follow each other; a client may            *)
(* vanish and a role may die between any two steps, and the supervisor of  *)
(* module Daemon brings the dead roles back with fresh sockets.            *)
(*                                                                         *)
(* A push offers every file of FileSeq in one version.  A version stands   *)
(* for a content and its digest, and a file is Size chunks long.  The      *)
(* handshake is one step of whoever holds the key; its messages are in     *)
(* module Handshake.  The localsync run of a commit is one publication     *)
(* between an authorization and a confirmation in the journal.             *)
(***************************************************************************)
EXTENDS Fleet, PlanGate

CONSTANTS Served,       \* the fleets this instance explores
          FileSeq,      \* the files of a push, in manifest order
          Versions,     \* versions the clients push, positive numbers
          Size,         \* chunks in a file
          SyncEvery,    \* chunks between two records of the offset
          MaxRestarts,  \* the supervisor's budget
          MaxPushes,    \* bound: pushes begun
          MaxFaults     \* bound: the two kinds of faults below

ASSUME ReceiveAssumption ==
  /\ Served \subseteq Fleets
  /\ Versions \subseteq Nat \ {NoDigest} /\ Versions # {}
  /\ Size \in Nat \ {0} /\ SyncEvery \in Nat \ {0}
  /\ {MaxRestarts, MaxPushes, MaxFaults} \subseteq Nat

VARIABLES
  fleet,          \* which roles run
  cl,             \* the client at the other end of the connection
  c2s, s2c, up,   \* the connection
  at,             \* where each role is in its loop; "down" when it is not running
  link,           \* request and answer on each socket pair
  net,            \* local variables of net's session
  gate,           \* plan: its planGate
  store,          \* apply: its localStore
  stage, part, meta,   \* recv-stage and recv-partial on disk
  dst, txn,       \* the destination and its authorised, unconfirmed transaction
  writer,         \* journal: whether it has the journal open
  sink,           \* events in the audit sink, and confirmed commits
  out,            \* what the last push was told
  restarts,       \* restarts spent; MaxRestarts + 1 once the daemon has stopped
  pushes,         \* pushes begun
  cuts,           \* clients that vanished or sent something unknown, and failed scans
  deaths          \* roles killed from outside, and journal roles that failed

conn == <<cl, c2s, s2c, up>>
disk == <<stage, part, meta>>
dest == <<dst, txn>>
bounds == <<pushes, cuts, deaths>>
vars == <<fleet, cl, c2s, s2c, up, at, link, net, gate, store, stage, part, meta,
          dst, txn, writer, sink, out, restarts, pushes, cuts, deaths>>

FileSet == Range(FileSeq)
None == [k |-> "none"]
EOF == [k |-> "eof"]
Ok == [k |-> "result", ok |-> TRUE]
Failed == [k |-> "result", ok |-> FALSE]
Ack(n) == [k |-> "ack", off |-> n]
Abort == [k |-> "abort"]
Manifest(v) == [i \in DOMAIN FileSeq |-> [rel |-> FileSeq[i], type |-> "file", data |-> v]]
Nothing == [f \in FileSet |-> 0]

(***************************************************************************)
(* Links.  A request stays on its link until it is answered.  A process    *)
(* that exits leaves behind what it has sent, and then end-of-file.        *)
(***************************************************************************)
Quiet == [q |-> None, a |-> None]
Request(m) == [q |-> m, a |-> None]
Answer(m) == [q |-> None, a |-> m]

(* The role a role's requests of the push go to (net, the bridges), or its *)
(* journal or audit peer (apply, journal, auth).                           *)
Below(r) == IF fleet = "m2a" /\ r = "net" THEN "apply" ELSE ExtraPeerFor[fleet][r]
HasBelow(r) == (fleet = "m2a" /\ r = "net") \/ r \in DOMAIN ExtraPeerFor[fleet]

(* The primary peer, whose requests a role serves. *)
PrimaryPeer ==
  [f \in Fleets |-> [r \in Roles(f) |->
     CHOOSE p \in Roles(f) : \E i \in DOMAIN startRoleChildren[f] :
       startRoleChildren[f][i] = <<r, p>>]]
Above(r) == PrimaryPeer[fleet][r]

Links(f) == {<<a, b>> \in Roles(f) \X Roles(f) :
               \/ f = "m2a" /\ a = "net" /\ b = "apply"
               \/ a = "net" /\ b = "auth"
               \/ a # "audit" /\ a \in DOMAIN ExtraPeerFor[f] /\ ExtraPeerFor[f][a] = b}

Has(r) == r \in DOMAIN at
Keyring == fleet = "m2j"

Down(r) == at[r] = "down"

(* wire.request: the request is on the link, or fails at once. *)
Sent(b, m) == IF Down(b) THEN Answer(EOF) ELSE Request(m)

(* The links after the processes of S have exited. *)
Exits(l, S) ==
  [e \in DOMAIN l |->
     IF e[2] \in S /\ e[1] \notin S
     THEN IF Down(e[1]) THEN Quiet ELSE IF l[e].q # None THEN Answer(EOF) ELSE l[e]
     ELSE IF e[2] \in S THEN Quiet
     ELSE IF e[1] \in S THEN Request(l[e].q) ELSE l[e]]

Asked(r) == link[<<Above(r), r>>].q
Told(r) == link[<<r, Below(r)>>].a

Gone(S) == [r \in DOMAIN at |-> IF r \in S THEN "down" ELSE at[r]]

-----------------------------------------------------------------------------
IdleClient == [pc |-> "idle", v |-> 0, i |-> 1, off |-> 0, known |-> TRUE, legacy |-> FALSE]
NoSession == [left |-> 0, off |-> 0, stale |-> FALSE]
NewStore == [active |-> FALSE, rel |-> NoFile, v |-> 0, off |-> 0,
             last |-> <<NoFile, 0>>, man |-> {}]
NoPart == [v |-> 0, n |-> 0]
NoResult == [ok |-> FALSE, v |-> 0, seen |-> Nothing]

Init ==
  /\ fleet \in Served
  /\ cl = IdleClient /\ c2s = <<>> /\ s2c = <<>> /\ up = FALSE
  /\ at = [r \in Roles(fleet) |-> IF r = "net" THEN "accept" ELSE "idle"]
  /\ link = [e \in Links(fleet) |-> Quiet]
  /\ net = NoSession /\ gate = NoGate /\ store = NewStore
  /\ stage = Nothing /\ part = [f \in FileSet |-> NoPart] /\ meta = part
  /\ dst = Nothing /\ txn = {} /\ writer = FALSE
  /\ sink = [ok |-> 0, failed |-> 0, peer |-> 0, commits |-> 0]
  /\ out = NoResult
  /\ restarts = 0 /\ pushes = 0 /\ cuts = 0 /\ deaths = 0
-----------------------------------------------------------------------------
(***************************************************************************)
(* The client: Push, or an older one that sends a file in one message.     *)
(* One message is on its way at a time.                                    *)
(***************************************************************************)
Server == <<fleet, at, link, net, gate, store, stage, part, meta, dst, txn, writer, sink,
            restarts>>
Post(m) == up /\ c2s = <<>> /\ c2s' = <<m>>
Heard(k) == s2c # <<>> /\ Head(s2c).k = k /\ s2c' = Tail(s2c)

Dial ==
  /\ cl.pc = "idle" /\ ~up /\ c2s = <<>> /\ at["net"] = "accept" /\ pushes < MaxPushes
  /\ \E v \in Versions, known, legacy \in BOOLEAN :
       (legacy => known) /\ cl' = [IdleClient EXCEPT !.pc = "hello", !.v = v, !.known = known, !.legacy = legacy]
  /\ up' = TRUE /\ c2s' = <<[k |-> "hello"]>> /\ s2c' = <<>>
  /\ out' = NoResult
  /\ pushes' = pushes + 1
  /\ UNCHANGED <<Server, cuts, deaths>>

SendManifest ==
  /\ cl.pc = "hello" /\ Heard("welcome")
  /\ Post([k |-> "manifest", man |-> Manifest(cl.v)])
  /\ cl' = [cl EXCEPT !.pc = "manifest"]
  /\ UNCHANGED <<Server, up, out, bounds>>

Hear ==
  /\ \/ cl.pc = "manifest" /\ Heard("manifestOK") /\ cl' = [cl EXCEPT !.pc = "file"]
     \/ /\ cl.pc = "ack" /\ Heard("ack")
        /\ cl' = [cl EXCEPT !.pc = "chunk", !.off = Head(s2c).off]
  /\ UNCHANGED <<Server, c2s, up, out, bounds>>

SendFile ==
  /\ cl.pc = "file" /\ cl.i <= Len(FileSeq)
  /\ LET f == FileSeq[cl.i] IN
     IF cl.legacy
     THEN Post([k |-> "file", rel |-> f, v |-> cl.v]) /\ cl' = [cl EXCEPT !.i = @ + 1]
     ELSE Post([k |-> "begin", rel |-> f, v |-> cl.v]) /\ cl' = [cl EXCEPT !.pc = "ack"]
  /\ UNCHANGED <<Server, s2c, up, out, bounds>>

SendChunk ==
  /\ cl.pc = "chunk"
  /\ IF cl.off < Size
     THEN /\ Post([k |-> "chunk", off |-> cl.off, v |-> cl.v])
          /\ cl' = [cl EXCEPT !.off = @ + 1]
     ELSE /\ Post([k |-> "end", rel |-> FileSeq[cl.i], v |-> cl.v])
          /\ cl' = [cl EXCEPT !.pc = "file", !.i = @ + 1]
  /\ UNCHANGED <<Server, s2c, up, out, bounds>>

SendCommit ==
  /\ cl.pc = "file" /\ cl.i > Len(FileSeq)
  /\ Post([k |-> "commit"]) /\ cl' = [cl EXCEPT !.pc = "result"]
  /\ UNCHANGED <<Server, s2c, up, out, bounds>>

(* A client of another version sends a message this server does not know.  *)
SendOther ==
  /\ cl.pc \in {"file", "chunk"} /\ cuts + deaths < MaxFaults
  /\ Post([k |-> "other"]) /\ cl' = [cl EXCEPT !.pc = "result"]
  /\ cuts' = cuts + 1
  /\ UNCHANGED <<Server, s2c, up, out, pushes, deaths>>

Succeed ==
  /\ cl.pc = "result" /\ s2c # <<>> /\ Head(s2c) = Ok
  /\ out' = [ok |-> TRUE, v |-> cl.v, seen |-> dst]
  /\ cl' = IdleClient /\ up' = FALSE /\ s2c' = <<>>
  /\ UNCHANGED <<Server, c2s, bounds>>

(* Push returns an error: a refusal, or the connection is closed. *)
GiveUp ==
  /\ cl.pc # "idle"
  /\ \/ s2c # <<>> /\ Head(s2c) = Failed
     \/ ~up /\ (s2c = <<>> \/ cl.pc \in {"hello", "file", "chunk"})
  /\ cl' = IdleClient /\ up' = FALSE /\ s2c' = <<>>
  /\ UNCHANGED <<Server, c2s, out, bounds>>

(* The client vanishes, with or without the message on its way. *)
Vanish ==
  /\ cl.pc # "idle" /\ up /\ cuts + deaths < MaxFaults
  /\ cl' = IdleClient /\ up' = FALSE /\ s2c' = <<>>
  /\ c2s' \in {c2s, <<>>}
  /\ cuts' = cuts + 1
  /\ UNCHANGED <<Server, out, pushes, deaths>>

-----------------------------------------------------------------------------
(***************************************************************************)
(* net: accept, the handshake with auth's help, then the data plane.       *)
(***************************************************************************)
NetOnly == <<fleet, gate, store, stage, part, meta, dst, txn, writer, sink, out,
             restarts, pushes, cuts, deaths>>

Goto(pc) == at' = [at EXCEPT !["net"] = pc]

(* The session ends and its connection is closed; net accepts the next.    *)
EndSession ==
  /\ Goto("accept") /\ net' = NoSession
  /\ up' = FALSE /\ c2s' = <<>> /\ UNCHANGED <<cl, s2c>>

(* sess.sendData: to a client that has gone it may still seem to succeed.  *)
Reply(m) == s2c' = IF up THEN Append(s2c, m) ELSE s2c
SendFails == ~up

respondErr ==
  /\ Goto("accept") /\ net' = NoSession
  /\ Reply(Failed) /\ up' = FALSE /\ c2s' = <<>> /\ UNCHANGED cl

(* The data socket is the one net saw when it accepted the connection. *)
Forward(m, pc) ==
  /\ link' = [link EXCEPT ![<<"net", Below("net")>>] =
                IF net.stale THEN Answer(EOF) ELSE Sent(Below("net"), m)]
  /\ Goto(pc)

NetAccept ==
  /\ at["net"] = "accept" /\ c2s # <<>>
  /\ IF fleet = "m2a"
     THEN /\ IF up /\ cl.known
             THEN /\ Goto("manifest") /\ net' = NoSession
                  /\ Reply([k |-> "welcome"]) /\ c2s' = <<>> /\ UNCHANGED <<cl, up>>
             ELSE EndSession
          /\ UNCHANGED link
     ELSE /\ link' = [link EXCEPT ![<<"net", "auth">>] = Sent("auth", [k |-> "hsconn"])]
          /\ Goto("hs") /\ net' = NoSession
          /\ c2s' = <<>> /\ UNCHANGED <<cl, s2c, up>>
  /\ UNCHANGED NetOnly

AcceptHandshakeViaAuthIPC ==
  LET a == link[<<"net", "auth">>].a IN
  /\ at["net"] = "hs" /\ a # None
  /\ link' = [link EXCEPT ![<<"net", "auth">>] = Quiet]
  /\ IF a.k = "seal" THEN Goto("manifest") /\ UNCHANGED <<conn, net>> ELSE EndSession
  /\ UNCHANGED NetOnly

Kinds == {"manifest", "file", "begin", "chunk", "end", "commit", "other"}

(* What the data plane passes on in each of its states: for a chunk        *)
(* anything but an end, for the end of a file anything at all.  And where  *)
(* it waits for the answer.                                                *)
Expected == [manifest |-> {"manifest"}, file |-> {"file", "begin"},
             chunk |-> Kinds \ {"end"}, end |-> Kinds, commit |-> {"commit"}]
Waiting(pc, k) ==
  CASE pc = "manifest" -> "manifest?" [] pc = "chunk" -> "chunk?" [] pc = "end" -> "end?"
    [] pc = "commit" -> "commit?" [] k = "file" -> "file?" [] OTHER -> "begin?"

NetReceive ==
  /\ at["net"] \in DOMAIN Expected /\ c2s # <<>>
  /\ LET m == Head(c2s) IN
     IF m.k \in Expected[at["net"]]
     THEN /\ Forward(m, Waiting(at["net"], m.k))
          /\ c2s' = <<>> /\ UNCHANGED <<cl, s2c, up, net>>
     ELSE /\ IF at["net"] \in {"file", "chunk"} THEN respondErr ELSE EndSession
          /\ UNCHANGED link
  /\ UNCHANGED NetOnly

(* Mutant of NetHangup: nobody reads the answer to the abort. *)
NetHangupNoAnswer ==
  /\ at["net"] \in DOMAIN Expected /\ c2s = <<>> /\ ~up
  /\ IF at["net"] \in {"file", "chunk", "end"}
     THEN Forward(Abort, "accept") /\ net' = NoSession /\ UNCHANGED conn
     ELSE EndSession /\ UNCHANGED link
  /\ UNCHANGED NetOnly

(* recvData fails: inside the file loop the roles below are told. *)
NetHangup ==
  /\ at["net"] \in DOMAIN Expected /\ c2s = <<>> /\ ~up
  /\ IF at["net"] \in {"file", "chunk", "end"}
     THEN Forward(Abort, "abort?") /\ UNCHANGED <<conn, net>>
     ELSE EndSession /\ UNCHANGED link
  /\ UNCHANGED NetOnly

Heeded == link[<<"net", Below("net")>>].a
Consumed == link' = [link EXCEPT ![<<"net", Below("net")>>] = Quiet]

(* The file loop goes on with the next file, or with the commit. *)
NextFile(left) == /\ Goto(IF left > 0 THEN "file" ELSE "commit")
                  /\ net' = [net EXCEPT !.left = left, !.off = 0]
NextChunk(off) == /\ Goto(IF off < Size THEN "chunk" ELSE "end")
                  /\ net' = [net EXCEPT !.off = off]

(* The answer to the manifest goes to the client as it is; net then reads  *)
(* files whatever it said.  From parser it comes in a parse bundle.        *)
ManifestAnswered(bundled) ==
  /\ at["net"] = "manifest?" /\ Heeded # None
  /\ IF Heeded = EOF \/ (bundled /\ Heeded.k # "bundle") THEN EndSession
     ELSE \/ SendFails /\ EndSession
          \/ /\ Reply(IF bundled THEN Heeded.answer ELSE Heeded)
             /\ NextFile(IF bundled THEN Heeded.files ELSE Len(FileSeq))
             /\ UNCHANGED <<cl, c2s, up>>

LegacyAnswered ==
  /\ at["net"] = "file?" /\ Heeded # None
  /\ CASE Heeded = EOF    -> EndSession
       [] Heeded = Failed -> respondErr
       [] OTHER           -> NextFile(net.left - 1) /\ UNCHANGED conn

(* The ack goes to the client before net looks at it. *)
BeginAnswered ==
  /\ at["net"] = "begin?" /\ Heeded # None
  /\ IF Heeded = EOF THEN EndSession
     ELSE \/ SendFails /\ EndSession
          \/ /\ Reply(Heeded)
             /\ IF Heeded.k = "ack"
                THEN NextChunk(Heeded.off) /\ UNCHANGED <<cl, c2s, up>>
                ELSE /\ Goto("accept") /\ net' = NoSession
                     /\ up' = FALSE /\ c2s' = <<>> /\ UNCHANGED cl

(* What was passed on is decoded as a chunk unless the answer is an ack.   *)
ChunkAnswered ==
  /\ at["net"] = "chunk?" /\ Heeded # None
  /\ IF Heeded.k = "ack" THEN NextChunk(Heeded.off) /\ UNCHANGED conn
     ELSE IF Heeded = Failed THEN respondErr ELSE EndSession

EndAnswered ==
  /\ at["net"] = "end?" /\ Heeded # None
  /\ CASE Heeded = EOF    -> EndSession
       [] Heeded = Failed -> respondErr
       [] OTHER           -> NextFile(net.left - 1) /\ UNCHANGED conn

CommitAnswered ==
  /\ at["net"] = "commit?" /\ Heeded # None
  /\ IF Heeded = EOF THEN EndSession
     ELSE /\ Goto("accept") /\ net' = NoSession
          /\ Reply(Heeded) /\ up' = FALSE /\ c2s' = <<>> /\ UNCHANGED cl

AbortAnswered == at["net"] = "abort?" /\ Heeded # None /\ EndSession

DataPlane(bundled) ==
  /\ \/ ManifestAnswered(bundled) \/ LegacyAnswered \/ BeginAnswered \/ ChunkAnswered
     \/ EndAnswered \/ CommitAnswered \/ AbortAnswered
  /\ Consumed
  /\ UNCHANGED NetOnly

HandleActiveConnViaApplyIPC == Below("net") = "apply" /\ DataPlane(FALSE)
HandleActiveConnViaParserIPC == Below("net") = "parser" /\ DataPlane(TRUE)

-----------------------------------------------------------------------------
(***************************************************************************)
(* The other roles.  An answer to a role that is gone, or end-of-file on   *)
(* the primary link, makes a role exit.                                    *)
(***************************************************************************)
Backdrop == <<fleet, cl, c2s, up, net, out, restarts, pushes>>
Backstage == <<Backdrop, cuts, deaths>>

(* The role goes to pc and l is its links after the step, unless the peer  *)
(* it has just answered is gone.                                           *)
Serve(r, pc, l) ==
  LET leaves == pc = "down" \/ Down(Above(r)) IN
  /\ at' = [at EXCEPT ![r] = IF leaves THEN "down" ELSE pc]
  /\ link' = IF leaves THEN Exits(l, {r}) ELSE l

Reached(r, m) == IF Down(Above(r)) THEN Quiet ELSE Answer(m)
Answered(r, m) == [link EXCEPT ![<<Above(r), r>>] = Reached(r, m)]
(* The answer m from below is passed up as m2, and the link below is idle. *)
Relayed(r, m2) == [link EXCEPT ![<<Above(r), r>>] = Reached(r, m2),
                               ![<<r, Below(r)>>] = Quiet]

(* auth: the handshake, then for a keyring an event on who was admitted.   *)
Seal(ok) == IF ok THEN [k |-> "seal"] ELSE Failed

AuthHandshake ==
  /\ Has("auth") /\ at["auth"] = "idle" /\ Asked("auth") # None
  /\ LET ok == up /\ cl.known IN
     /\ s2c' = IF ok THEN Append(s2c, [k |-> "welcome"]) ELSE s2c
     /\ IF Keyring /\ up
        THEN /\ at' = [at EXCEPT !["auth"] = IF ok THEN "admit" ELSE "deny"]
             /\ link' = [link EXCEPT ![<<"auth", "audit">>] =
                           Sent("audit", [k |-> "audit", about |-> "peer"])]
        ELSE Serve("auth", "idle", Answered("auth", Seal(ok)))
  /\ UNCHANGED <<Backstage, gate, store, disk, dest, writer, sink>>

bestEffortPeerAudit ==
  /\ Keyring /\ at["auth"] \in {"admit", "deny"} /\ Told("auth") # None
  /\ Serve("auth", "idle", Relayed("auth", Seal(at["auth"] = "admit")))
  /\ UNCHANGED <<Backstage, s2c, gate, store, disk, dest, writer, sink>>

(* parser: decode, forward, return; a manifest comes back in a bundle, and *)
(* what cannot be decoded is refused.                                      *)
Bridged(r) == Has(r) /\ at[r] = "idle" /\ Asked(r) # None
Returned(r) == Has(r) /\ at[r] = "wait" /\ Told(r) # None
PassDown(r, m, pc) ==
  /\ at' = [at EXCEPT ![r] = pc]
  /\ link' = [link EXCEPT ![<<r, Below(r)>>] = Sent(Below(r), m)]
BridgeOnly == <<Backstage, s2c, store, disk, dest, writer, sink>>

validateAppMessage(m) == m.k # "other"

ParserForward ==
  /\ Bridged("parser")
  /\ IF validateAppMessage(Asked("parser")) THEN PassDown("parser", Asked("parser"), "wait")
     ELSE Serve("parser", "idle", Answered("parser", Failed))
  /\ UNCHANGED <<BridgeOnly, gate>>

(* Mutant of ParserReturn: it tries again while the peer below is gone. *)
ParserReturnRetries ==
  /\ Returned("parser")
  /\ Serve("parser", "idle",
           IF Told("parser") = EOF THEN [link EXCEPT ![<<"parser", Below("parser")>>] = Quiet]
           ELSE Relayed("parser", IF Asked("parser").k # "manifest" THEN Told("parser")
                                  ELSE [k |-> "bundle", answer |-> Told("parser"),
                                        files |-> Len(FileEntries(Asked("parser").man))]))
  /\ UNCHANGED <<BridgeOnly, gate>>

ParserReturn ==
  /\ Returned("parser")
  /\ IF Told("parser") = EOF THEN Serve("parser", "down", Relayed("parser", Failed))
     ELSE Serve("parser", "idle", Relayed("parser",
            IF Asked("parser").k = "manifest"
            THEN [k |-> "bundle", files |-> Len(FileEntries(Asked("parser").man)),
                  answer |-> Told("parser")]
            ELSE Told("parser")))
  /\ UNCHANGED <<BridgeOnly, gate>>

(* plan: the gate decides; a refusal is answered without going further. *)
Gated(m) ==
  CASE m.k = "manifest" -> [authorizeManifest(m.man, gate) EXCEPT !.gate = gate]
    [] m.k = "file"     -> checkFile(gate, m.rel, m.v)
    [] m.k = "begin"    -> checkBegin(gate, m.rel, m.v)
    [] m.k = "chunk"    -> checkChunk(gate)
    [] m.k = "end"      -> checkEnd(gate, m.rel, m.v)
    [] m.k = "commit"   -> checkCommit(gate)
    [] m.k = "abort"    -> Pass(NoGate)

PlanForward ==
  /\ Bridged("plan")
  /\ LET g == Gated(Asked("plan")) IN
     /\ gate' = g.gate
     /\ IF g.ok THEN PassDown("plan", Asked("plan"), "wait")
        ELSE Serve("plan", "idle", Answered("plan", Failed))
  /\ UNCHANGED BridgeOnly

PlanReturn ==
  /\ Returned("plan")
  /\ LET q == Asked("plan") IN
     IF Told("plan") = EOF
     THEN Serve("plan", "down", Relayed("plan", Failed)) /\ gate' = NoGate
     ELSE /\ Serve("plan", IF q.k = "abort" THEN "down" ELSE "idle", Relayed("plan", Told("plan")))
          /\ gate' = CASE q.k = "manifest" -> authorizeManifest(q.man, gate).gate
                       [] q.k = "commit" -> NoGate
                       [] OTHER -> gate
  /\ UNCHANGED BridgeOnly

(* index: before a commit it scans the destination and sends apply what it *)
(* saw; whatever apply answers, the commit follows.                        *)
IndexForward ==
  /\ Bridged("index")
  /\ IF Asked("index").k = "commit"
     THEN PassDown("index", [k |-> "destManifest", man |-> dst], "dest")
     ELSE PassDown("index", Asked("index"), "wait")
  /\ UNCHANGED <<BridgeOnly, gate>>

(* scanDestination fails: the commit goes no further. *)
IndexScanFails ==
  /\ Bridged("index") /\ Asked("index").k = "commit"
  /\ cuts + deaths < MaxFaults
  /\ Serve("index", "idle", Answered("index", Failed))
  /\ cuts' = cuts + 1
  /\ UNCHANGED <<Backdrop, deaths, s2c, gate, store, disk, dest, writer, sink>>

IndexConferred ==
  /\ Has("index") /\ at["index"] = "dest" /\ Told("index") # None
  /\ IF Told("index") = EOF THEN Serve("index", "down", Relayed("index", Failed))
     ELSE PassDown("index", Asked("index"), "wait")
  /\ UNCHANGED <<BridgeOnly, gate>>

IndexReturn ==
  /\ Returned("index")
  /\ IF Told("index") = EOF THEN Serve("index", "down", Relayed("index", Failed))
     ELSE Serve("index", "idle", Relayed("index", Told("index")))
  /\ UNCHANGED <<BridgeOnly, gate>>

-----------------------------------------------------------------------------
(***************************************************************************)
(* apply: the receive store.                                               *)
(***************************************************************************)
ApplyOnly == <<Backstage, s2c, gate, writer>>
Requested(k) == at["apply"] = "idle" /\ Asked("apply").k = k
Q == Asked("apply")

(* An error is answered and ends the process; its store goes with it. *)
ApplyRefuses == Serve("apply", "down", Answered("apply", Failed)) /\ store' = NewStore
ApplyAnswers(m) == Serve("apply", "idle", Answered("apply", m))

Offset(s) == [v |-> s.v, n |-> s.off]
persistActive == IF store.active THEN [meta EXCEPT ![store.rel] = Offset(store)] ELSE meta

ApplyManifest ==
  /\ Requested("manifest")
  /\ ApplyAnswers([k |-> "manifestOK"])
  /\ UNCHANGED <<ApplyOnly, store, disk, dest, sink>>

stageLegacy ==
  /\ Requested("file")
  /\ ApplyAnswers(Ok)
  /\ stage' = [stage EXCEPT ![Q.rel] = Q.v]
  /\ UNCHANGED <<ApplyOnly, store, part, meta, dest, sink>>

Staged(f, v) == stage[f] = v

(* A begun file is staged already, resumed from its record, or new. *)
beginFile ==
  /\ Requested("begin")
  /\ LET f == Q.rel
         held == Staged(f, Q.v)
         resumes == meta[f].v = Q.v /\ part[f].n = meta[f].n
         start == IF held THEN Size ELSE IF resumes THEN meta[f].n ELSE 0 IN
     IF store.active THEN ApplyRefuses /\ UNCHANGED disk
     ELSE /\ ApplyAnswers(Ack(start))
          /\ store' = [store EXCEPT !.active = ~held, !.rel = f, !.v = Q.v, !.off = start,
                                    !.last = <<f, Q.v>>]
          /\ part' = [part EXCEPT ![f] = IF held THEN NoPart
                                         ELSE IF start = 0 THEN [v |-> Q.v, n |-> 0] ELSE @]
          /\ meta' = [meta EXCEPT ![f] = IF held \/ ~resumes THEN NoPart ELSE @]
          /\ UNCHANGED stage
  /\ UNCHANGED <<ApplyOnly, dest, sink>>

writeChunk ==
  /\ Requested("chunk")
  /\ IF ~store.active \/ Q.off # store.off THEN ApplyRefuses /\ UNCHANGED disk
     ELSE LET s == [store EXCEPT !.off = @ + 1] IN
          /\ ApplyAnswers(Ack(s.off))
          /\ store' = s
          /\ part' = [part EXCEPT ![s.rel] = [v |-> IF @.v = Q.v THEN Q.v ELSE 0, n |-> s.off]]
          /\ meta' = IF s.off % SyncEvery = 0 THEN [meta EXCEPT ![s.rel] = Offset(s)] ELSE meta
          /\ UNCHANGED stage
  /\ UNCHANGED <<ApplyOnly, dest, sink>>

(* The end of a file: of one that was staged already, or the partial file  *)
(* is complete, hashes to the announced digest and moves to the stage.     *)
endFile ==
  /\ Requested("end")
  /\ LET f == Q.rel
         complete == /\ store.rel = f /\ store.v = Q.v /\ store.off = Size
                     /\ part[f] = [v |-> Q.v, n |-> Size] IN
     IF ~store.active
     THEN /\ IF store.last = <<f, Q.v>> THEN ApplyAnswers(Ok) /\ UNCHANGED store
             ELSE ApplyRefuses
          /\ UNCHANGED disk
     ELSE IF ~complete THEN ApplyRefuses /\ UNCHANGED disk
     ELSE /\ ApplyAnswers(Ok)
          /\ store' = [store EXCEPT !.active = FALSE]
          /\ stage' = [stage EXCEPT ![f] = Q.v]
          /\ part' = [part EXCEPT ![f] = NoPart] /\ meta' = [meta EXCEPT ![f] = NoPart]
  /\ UNCHANGED <<ApplyOnly, dest, sink>>

setDestManifest ==
  /\ Requested("destManifest")
  /\ ApplyAnswers(Ok)
  /\ store' = [store EXCEPT !.man = {Q.man}]
  /\ UNCHANGED <<ApplyOnly, disk, dest, sink>>

ApplyUnknown ==
  /\ Requested("other")
  /\ ApplyRefuses
  /\ UNCHANGED <<ApplyOnly, disk, dest, sink>>

(* The client has gone: the offset is recorded and the process ends. *)
ApplyAbort ==
  /\ Requested("abort")
  /\ meta' = persistActive
  /\ ApplyRefuses
  /\ UNCHANGED <<ApplyOnly, stage, part, dest, sink>>

-----------------------------------------------------------------------------
(***************************************************************************)
(* apply: the commit, localsync.Sync from the stage to the destination     *)
(* with the journal of the journal role, or its own.                       *)
(***************************************************************************)
Journalled == HasBelow("apply") /\ Below("apply") = "journal"
JrnAppend(rec, plan) == [k |-> "jrnAppend", rec |-> rec, plan |-> plan]
CommitEvent(ok) == [k |-> "audit", about |-> IF ok THEN "ok" ELSE "failed"]

(* An event that the commit failed is offered, then the error answered. *)
CommitFails ==
  IF HasBelow("apply")
  THEN PassDown("apply", CommitEvent(FALSE), "audit-") /\ UNCHANGED store
  ELSE ApplyRefuses

(* One operation per staged file the destination does not have; 0 for none. *)
Seen == IF store.man = {} THEN dst ELSE CHOOSE m \in store.man : TRUE
(* Mutant of Plan: a file the destination has in any version needs nothing. *)
PlanNewOnly == [f \in FileSet |-> IF Seen[f] # 0 THEN 0 ELSE stage[f]]
Plan == [f \in FileSet |-> IF stage[f] = Seen[f] THEN 0 ELSE stage[f]]

ApplyCommit ==
  /\ Requested("commit")
  /\ IF store.active THEN CommitFails /\ UNCHANGED txn
     ELSE IF Journalled
     THEN PassDown("apply", [k |-> "jrnOpen"], "open") /\ UNCHANGED <<store, txn>>
     ELSE /\ txn' = IF txn = {} THEN {Plan} ELSE txn
          /\ at' = [at EXCEPT !["apply"] = "publish"]
          /\ UNCHANGED <<link, store>>
  /\ UNCHANGED <<ApplyOnly, disk, dst, sink>>

ApplyHears(pc) == at["apply"] = pc /\ Told("apply") # None
Granted == Told("apply").k # "eof" /\ Told("apply") # Failed

(* The accepted prefix decides: authorise a plan, or resume the open one.  *)
JournalOpened ==
  /\ ApplyHears("open")
  /\ IF ~Granted THEN CommitFails
     ELSE /\ PassDown("apply", IF Told("apply").txn = {} THEN JrnAppend("authorization", Plan)
                               ELSE JrnAppend("recovery", Nothing), "authorise")
          /\ UNCHANGED store
  /\ UNCHANGED <<ApplyOnly, disk, dest, sink>>

JournalAuthorised ==
  /\ ApplyHears("authorise")
  /\ IF ~Granted THEN CommitFails
     ELSE /\ at' = [at EXCEPT !["apply"] = "publish"]
          /\ link' = [link EXCEPT ![<<"apply", "journal">>] = Quiet]
          /\ UNCHANGED store
  /\ UNCHANGED <<ApplyOnly, disk, dest, sink>>

(* Every operation needs the staged content its plan names. *)
Publish ==
  LET t == CHOOSE x \in txn : TRUE IN
  /\ at["apply"] = "publish"
  /\ IF \E f \in FileSet : t[f] \notin {0, stage[f]}
     THEN CommitFails /\ UNCHANGED <<dst, txn, sink>>
     ELSE /\ dst' = [f \in FileSet |-> IF t[f] = 0 THEN dst[f] ELSE t[f]]
          /\ IF Journalled
             THEN PassDown("apply", JrnAppend("confirmation", t), "confirm") /\ UNCHANGED <<txn, sink>>
             ELSE /\ at' = [at EXCEPT !["apply"] = "clear"]
                  /\ txn' = {} /\ sink' = [sink EXCEPT !.commits = @ + 1]
                  /\ UNCHANGED link
          /\ UNCHANGED store
  /\ UNCHANGED <<ApplyOnly, disk>>

JournalConfirmed ==
  /\ ApplyHears("confirm")
  /\ IF Granted THEN PassDown("apply", [k |-> "jrnClose"], "close") /\ UNCHANGED store
     ELSE CommitFails
  /\ UNCHANGED <<ApplyOnly, disk, dest, sink>>

JournalClosed ==
  /\ ApplyHears("close")
  /\ at' = [at EXCEPT !["apply"] = "clear"]
  /\ link' = [link EXCEPT ![<<"apply", "journal">>] = Quiet]
  /\ UNCHANGED <<ApplyOnly, store, disk, dest, sink>>

(* The stage is cleared (by directory handle, the partial files too), the  *)
(* client answered, and then the event offered; a new store follows.       *)
ApplyCommitted ==
  /\ at["apply"] = "clear"
  /\ stage' = Nothing
  /\ \/ part' = [f \in FileSet |-> NoPart] /\ meta' = part'
     \/ UNCHANGED <<part, meta>>
  /\ store' = NewStore
  /\ IF HasBelow("apply")
     THEN Serve("apply", "audit+", [Answered("apply", Ok) EXCEPT ![<<"apply", Below("apply")>>] =
                                      Sent(Below("apply"), CommitEvent(TRUE))])
     ELSE ApplyAnswers(Ok)
  /\ UNCHANGED <<ApplyOnly, dest, sink>>

(* bestEffortAudit: whatever came of the event. *)
ApplyAudited ==
  /\ \/ /\ ApplyHears("audit+")
        /\ at' = [at EXCEPT !["apply"] = "idle"]
        /\ link' = [link EXCEPT ![<<"apply", Below("apply")>>] = Quiet]
        /\ UNCHANGED store
     \/ /\ ApplyHears("audit-")
        /\ Serve("apply", "down", Relayed("apply", Failed))
        /\ store' = NewStore
  /\ UNCHANGED <<ApplyOnly, disk, dest, sink>>

-----------------------------------------------------------------------------
(***************************************************************************)
(* journal and audit.                                                      *)
(***************************************************************************)
JournalOnly == <<Backstage, s2c, gate, store, disk, dst>>

(* The record of request q is in the journal. *)
Recorded(q) ==
  /\ txn' = CASE q.rec = "recovery" -> txn
              [] q.rec = "authorization" -> {q.plan}
              [] q.rec = "confirmation" -> {}
  /\ sink' = IF q.rec = "confirmation" THEN [sink EXCEPT !.commits = @ + 1] ELSE sink

JournalServe ==
  /\ Has("journal") /\ at["journal"] = "idle"
  /\ LET q == Asked("journal") IN
     \/ /\ q.k = "jrnOpen" /\ writer' = TRUE
        /\ Serve("journal", "idle", Answered("journal", [k |-> "prefix", txn |-> txn]))
        /\ UNCHANGED <<txn, sink>>
     \/ /\ q.k = "jrnAppend"
        /\ Serve("journal", "idle", Answered("journal", IF writer THEN Ok ELSE Failed))
        /\ IF writer THEN Recorded(q) ELSE UNCHANGED <<txn, sink>>
        /\ UNCHANGED writer
     \/ /\ q.k = "jrnClose" /\ writer' = FALSE
        /\ Serve("journal", "idle", Answered("journal", Ok))
        /\ UNCHANGED <<txn, sink>>
     \/ /\ q.k = "audit" /\ UNCHANGED <<writer, txn, sink>>
        /\ IF HasBelow("journal") THEN PassDown("journal", q, "relay")
           ELSE Serve("journal", "idle", Answered("journal", Ok))
  /\ UNCHANGED JournalOnly

(* Open fails, or its prefix is over maxJrnPrefixBytes; or Append fails,   *)
(* with or without the record in the file.  The role answers and exits.    *)
JournalFails ==
  /\ Has("journal") /\ at["journal"] = "idle"
  /\ cuts + deaths < MaxFaults
  /\ LET q == Asked("journal") IN
     \/ q.k = "jrnOpen" /\ UNCHANGED <<txn, sink>>
     \/ q.k = "jrnAppend" /\ writer /\ (Recorded(q) \/ UNCHANGED <<txn, sink>>)
  /\ Serve("journal", "down", Answered("journal", Failed)) /\ writer' = FALSE
  /\ deaths' = deaths + 1
  /\ UNCHANGED <<Backdrop, cuts, s2c, gate, store, disk, dst>>

JournalRelayed ==
  /\ Has("journal") /\ at["journal"] = "relay" /\ Told("journal") # None
  /\ Serve("journal", "idle",
           Relayed("journal", IF Told("journal") = EOF THEN Ok ELSE Told("journal")))
  /\ UNCHANGED <<JournalOnly, txn, writer, sink>>

(* serveAuditLoop for one of the peers that write to the sink. *)
AuditServe(peer) ==
  /\ Has("audit") /\ ~Down("audit") /\ <<peer, "audit">> \in DOMAIN link
  /\ link[<<peer, "audit">>].q # None
  /\ sink' = [sink EXCEPT ![link[<<peer, "audit">>].q.about] = @ + 1]
  /\ IF peer = Above("audit") THEN Serve("audit", "idle", Answered("audit", Ok))
     ELSE /\ link' = [link EXCEPT ![<<peer, "audit">>] = IF Down(peer) THEN Quiet ELSE Answer(Ok)]
          /\ UNCHANGED at
  /\ UNCHANGED <<Backstage, s2c, gate, store, disk, dest, writer>>

-----------------------------------------------------------------------------
(***************************************************************************)
(* Exits, deaths and the supervisor.                                       *)
(***************************************************************************)
(* What the processes of S take with them. *)
Forget(S) ==
  /\ gate' = IF "plan" \in S THEN NoGate ELSE gate
  /\ store' = IF "apply" \in S THEN NewStore ELSE store
  /\ writer' = (writer /\ "journal" \notin S)

(* readRequest fails on the primary link: the loop of the role returns, and *)
(* RunRole with it.                                                        *)
Returns(r) ==
  /\ Has(r) /\ at[r] = "idle" /\ Down(Above(r)) /\ Asked(r) = None
  /\ at' = Gone({r}) /\ link' = Exits(link, {r}) /\ Forget({r})
  /\ UNCHANGED <<Backstage, s2c, stage, part, dest, sink>>

AuthReturns == Returns("auth") /\ UNCHANGED meta
BridgeReturns == \E r \in {"parser", "plan", "index"} : Returns(r) /\ UNCHANGED meta
ApplyReturns == Returns("apply") /\ meta' = persistActive
SinkReturns == \E r \in {"journal", "audit"} : Returns(r) /\ UNCHANGED meta

(* A role is killed or crashes; net's connection goes with it. *)
Die(r) ==
  /\ ~Down(r) /\ cuts + deaths < MaxFaults /\ restarts <= MaxRestarts
  /\ at' = Gone({r}) /\ link' = Exits(link, {r}) /\ Forget({r})
  /\ IF r = "net" THEN up' = FALSE /\ c2s' = <<>> /\ net' = NoSession
     ELSE UNCHANGED <<up, c2s, net>>
  /\ deaths' = deaths + 1
  /\ UNCHANGED <<fleet, cl, s2c, disk, dest, sink, out, restarts, pushes, cuts>>

(* tryRestartOne: the roles replaced when those of dead are found gone. *)
RestartSet(dead) ==
  LET data == DOMAIN at \ {"net", "auth"}
      long == fleet \in {"m2g", "m2h", "m2j"} IN
  CASE "net" \in dead -> DOMAIN at
    [] "net" \notin dead /\ dead \cap {"parser", "plan", "index"} # {} ->
         IF fleet = "m2d" \/ long THEN data ELSE DOMAIN at
    [] dead \cap {"net", "parser", "plan", "index"} = {}
       /\ dead \cap {"apply", "journal", "audit"} # {} ->
         IF fleet \in {"m2a", "m2c", "m2d"} THEN {"apply"}
         ELSE IF long THEN {"apply", "journal", "audit"} ELSE DOMAIN at
    [] OTHER -> IF fleet \in {"m2c", "m2d"} \/ long THEN {"auth"} ELSE DOMAIN at

(* The supervisor replaces them: what is left of the set is killed, fresh  *)
(* processes start, and a survivor above the set is handed a new socket.   *)
(* A request it has outstanding, and net's session, are on the old one.    *)
Respawn ==
  LET dead == {r \in DOMAIN at : Down(r)}
      new == RestartSet(dead) IN
  /\ dead # {} /\ restarts < MaxRestarts
  /\ at' = [r \in DOMAIN at |-> IF r \in new THEN IF r = "net" THEN "accept" ELSE "idle"
                                   ELSE at[r]]
  /\ link' = [e \in DOMAIN link |->
                IF e[2] \in new /\ e[1] \notin new
                THEN IF Down(e[1]) \/ link[e] = Quiet THEN Quiet ELSE Answer(EOF)
                ELSE IF e[1] \in new THEN Quiet ELSE link[e]]
  /\ Forget(new)
  /\ IF "net" \in new THEN up' = FALSE /\ c2s' = <<>> /\ net' = NoSession
     ELSE /\ net' = [net EXCEPT !.stale = @ \/ (at["net"] # "accept" /\ Below("net") \in new)]
          /\ UNCHANGED <<up, c2s>>
  /\ restarts' = restarts + 1
  /\ UNCHANGED <<fleet, cl, s2c, disk, dest, sink, out, bounds>>

(* Out of budget: supervise returns and takes every role down. *)
StopDaemon ==
  /\ \E r \in DOMAIN at : Down(r)
  /\ restarts = MaxRestarts
  /\ at' = Gone(DOMAIN at) /\ link' = [e \in DOMAIN link |-> Quiet]
  /\ Forget(DOMAIN at)
  /\ up' = FALSE /\ c2s' = <<>> /\ net' = NoSession
  /\ restarts' = restarts + 1
  /\ UNCHANGED <<fleet, cl, s2c, disk, dest, sink, out, bounds>>

-----------------------------------------------------------------------------
Pushing == SendManifest \/ Hear \/ SendFile \/ SendChunk \/ SendCommit \/ Succeed \/ GiveUp

Fails == Vanish \/ SendOther \/ IndexScanFails \/ JournalFails
         \/ (\E r \in DOMAIN at : Die(r))

NetRole == NetAccept \/ AcceptHandshakeViaAuthIPC \/ NetReceive \/ NetHangup
           \/ HandleActiveConnViaApplyIPC \/ HandleActiveConnViaParserIPC

Bridges == ParserForward \/ ParserReturn \/ PlanForward \/ PlanReturn
           \/ IndexForward \/ IndexConferred \/ IndexReturn

ApplyRole == ApplyManifest \/ stageLegacy \/ beginFile \/ writeChunk \/ endFile
             \/ setDestManifest \/ ApplyUnknown \/ ApplyAbort \/ ApplyCommit \/ JournalOpened
             \/ JournalAuthorised \/ Publish \/ JournalConfirmed \/ JournalClosed
             \/ ApplyCommitted \/ ApplyAudited

Working == NetRole \/ AuthHandshake \/ bestEffortPeerAudit \/ Bridges \/ ApplyRole
           \/ JournalServe \/ JournalRelayed
           \/ (\E p \in {"journal", "apply", "auth"} : AuditServe(p))
           \/ AuthReturns \/ BridgeReturns \/ ApplyReturns \/ SinkReturns \/ Respawn \/ StopDaemon

(* Nothing to do: every push is over and every role waits for a request,   *)
(* or the daemon has stopped.                                              *)
Over ==
  /\ cl.pc = "idle" /\ c2s = <<>>
  /\ \/ at["net"] = "accept" /\ pushes = MaxPushes
        /\ \A r \in DOMAIN at \ {"net"} : at[r] = "idle"
     \/ restarts > MaxRestarts
  /\ UNCHANGED vars

Next == Dial \/ Pushing \/ Working \/ Fails \/ Over

(* The client and every role of the daemon take their next step; nobody    *)
(* has to dial, vanish or fail.                                            *)
Spec == Init /\ [][Next]_vars /\ WF_vars(Pushing) /\ WF_vars(Working)

-----------------------------------------------------------------------------
(***************************************************************************)
(* Properties.                                                             *)
(***************************************************************************)
(* The states of the roles, and what may lie on a link. *)
TypeOK ==
  /\ at["net"] \in {"down", "accept", "hs", "abort?"} \cup DOMAIN Expected
                  \cup {"manifest?", "file?", "begin?", "chunk?", "end?", "commit?"}
  /\ net.left \in 0 .. Len(FileSeq) /\ net.off \in 0 .. Size
  /\ store.off \in 0 .. Size /\ store.active \in BOOLEAN
  /\ {stage, dst} \subseteq [FileSet -> Versions \cup {0}]
  /\ Cardinality(txn) <= 1
  /\ \A e \in DOMAIN link : link[e].q = None \/ link[e].a = None

(* One request at a time, all the way down: a role that waits has its own  *)
(* request outstanding or an answer to read, and one that does not has     *)
(* neither.  So no session reads the answer to a request of another one,   *)
(* whatever died or vanished in between.                                   *)
Idle == {"idle", "accept", "manifest", "file", "chunk", "end", "commit", "publish", "clear"}
InStep ==
  \A e \in DOMAIN link :
    IF Down(e[1]) THEN link[e].a = None
    ELSE IF at[e[1]] \in Idle THEN link[e] = Quiet
    ELSE e[2] = (IF at[e[1]] = "hs" THEN "auth" ELSE Below(e[1])) => link[e] # Quiet

(* net, plan and apply agree on the file in transfer: while no role was    *)
(* killed, the journal took every record and net's socket is current,      *)
(* whenever net reads chunks of a file, apply has it open at net's offset  *)
(* and plan's gate is open for it.                                         *)
Intact == deaths = 0 /\ ~net.stale /\ \A r \in DOMAIN at : ~Down(r)
OneTransfer ==
  at["net"] \in {"chunk", "end"} /\ Intact /\ link = [e \in DOMAIN link |-> Quiet] =>
    \/ store.active /\ store.off = net.off
       /\ (Has("plan") => gate.active = store.rel)
    \/ ~store.active /\ net.off = Size /\ stage[store.rel] = store.v

(* With plan in the chain, apply publishes only when the files the gate    *)
(* authorised are all staged as announced: the gate's books, kept above,   *)
(* agree with the store's, kept on disk.                                   *)
CommitIsAuthorised ==
  Has("plan") /\ at["apply"] = "open" /\ ~Down("plan") =>
    gate.open /\ \A f \in DOMAIN gate.files : stage[f] = gate.files[f]

(* A push that is told "ok" is published and confirmed, if no role was     *)
(* killed and the journal took every record: clients that vanish or send   *)
(* an unknown message, before it or during it, change nothing.             *)
SuccessIsPublished ==
  out.ok /\ deaths = 0 => \A f \in FileSet : out.seen[f] = out.v

(* The audit sink never has more commits than the journal confirmed. *)
AuditIsHonest == sink.ok <= sink.commits

(* The books that net, plan, apply, journal and audit keep of one push     *)
(* agree wherever one of them acts on its own.                             *)
BooksAgree == TypeOK /\ OneTransfer /\ CommitIsAuthorised /\ AuditIsHonest

(* Every session comes to an end, so the next client is served, or the     *)
(* daemon stops: no chain of roles waits on itself for ever.               *)
SessionEnds == (cl.pc # "idle") ~> (cl.pc = "idle")
=============================================================================
