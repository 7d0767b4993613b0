------------------------------- MODULE Launch -------------------------------
(***************************************************************************)
(* Starting one role process: Runtime.StartChild                           *)
(* (internal/supervisor/runtime_unix.go) takes the endpoints out of the    *)
(* fabric and calls launcher.Start (internal/launcher/launcher_unix.go),   *)
(* which opens key files, directories and a key channel and spawns the     *)
(* child; the child gathers the same files again in ClaimChild             *)
(* (internal/daemon/child_unix.go), from descriptor numbers both sides     *)
(* compute on their own, or from the key channel in an order both sides    *)
(* wrote down.  Every call that takes a resource may fail; the child may   *)
(* be killed at any moment.                                                *)
(***************************************************************************)
EXTENDS Naturals, Sequences, SequencesExt, Authority

CONSTANTS Launches   \* the requests explored, a subset of Request

VARIABLES
  req,     \* launcher.Request, as StartChild fills it in
  ppc,     \* the step StartChild is at; "ok" or "failed" once it returned
  held,    \* the files the parent has open for this launch
  conns,   \* the endpoints still in the fabric
  keyCh,   \* files in flight on the key channel, oldest first
  cpc,     \* the step ClaimChild is at
  fds,     \* the child's descriptors from 3 on (ExtraFiles), as a sequence
  also,    \* the files of this launch the child inherits beside ExtraFiles
  got      \* what the child has claimed: name -> file

launchVars == <<req, ppc, held, conns, keyCh, cpc, fds, also, got>>

(* launcher.Request.  Each of the early refusals of Start is one value of flaw. *)
Flaws == {"none", "mode", "path", "role", "key", "deadline", "workdir"}

Request ==
  [role : AllRoles, extra : AllRoles \cup {""}, scm : BOOLEAN, root : BOOLEAN,
   dirs : 0..2, flaw : Flaws]

Dirs(r) == SubSeq(<<"dir1", "dir2">>, 1, r.dirs)

DirFiles(r) == Range(Dirs(r))

When(c, f) == IF c THEN {f} ELSE {}

ThenIf(c, s) == IF c THEN s ELSE <<>>
-----------------------------------------------------------------------------
(***************************************************************************)
(* The two ExtraFiles layouts of Start.  allowRootFDEnv numbers the        *)
(* directories after the files in front of them (FreeBSD; elsewhere no     *)
(* directory is opened, dirs = 0).                                         *)
(***************************************************************************)
ExtraFilesByKey(r) ==
  <<"sock", "mac">> \o ThenIf(r.root, <<"root">>)
                    \o ThenIf(r.extra # "", <<"xsock", "xmac">>)

ExtraFilesByChannel(r) == <<"sock", "chC">> \o ThenIf(r.extra # "", <<"xsock">>)

Ahead(r) == IF r.scm THEN ExtraFilesByChannel(r) ELSE ExtraFilesByKey(r)

allowRootFDEnv(r) == [i \in 1..r.dirs |-> 3 + Len(Ahead(r)) + (i - 1)]

(* The descriptors the child expects: constants and ExtraPeerSocketFD. *)
IPCFileFD == 3

KeyFileFD == 4

KeyChannelFDSCM == 4

RootKeyFileFD == 5

ExtraPeerSocketFDSCM == 5

ExtraPeerSocketFD(hasRootKey) == IF hasRootKey THEN 6 ELSE 5

ExtraPeerKeyFD(hasRootKey) == ExtraPeerSocketFD(hasRootKey) + 1

(* What goes over the key channel, in StartChild's order and in ClaimChild's. *)
SendOrderExtraFirst(r) ==
  <<"mac">> \o ThenIf(r.extra # "", <<"xmac">>) \o ThenIf(r.root, <<"root">>)

SendOrderNoRoot(r) == <<"mac">> \o ThenIf(r.extra # "", <<"xmac">>)

SendOrder(r) ==
  <<"mac">> \o ThenIf(r.root, <<"root">>) \o ThenIf(r.extra # "", <<"xmac">>)

RecvOrder(r) ==
  <<"mac">> \o ThenIf(r.root, <<"root">>) \o ThenIf(r.extra # "", <<"xmac">>)
-----------------------------------------------------------------------------
(***************************************************************************)
(* StartChild.                                                             *)
(***************************************************************************)
LaunchInit ==
  /\ req \in Launches
  /\ ppc = "endpoint" /\ held = {} /\ keyCh = <<>>
  /\ conns = {"ep"} \cup When(req.extra # "", "xep")
  /\ cpc = "none" /\ fds = <<>> /\ also = {} /\ got = <<>>

(* A return with an error, after closing the given files. *)
Return(closing) == ppc' = "failed" /\ held' = held \ closing

(* Endpoint, Conn.File, the channel key and the allow-roots; then the fabric's *)
(* own end is closed.                                                          *)
TakeEndpoint ==
  /\ ppc = "endpoint"
  /\ \/ Return({}) /\ UNCHANGED conns
     \/ /\ ppc' = IF req.extra # "" THEN "extra" ELSE "start"
        /\ held' = held \cup {"sock"}
        /\ conns' = conns \ {"ep"}
  /\ UNCHANGED <<req, keyCh, cpc, fds, also, got>>

TakeExtraEndpoint ==
  /\ ppc = "extra"
  /\ \/ Return({"sock"}) /\ UNCHANGED conns
     \/ /\ ppc' = "start"
        /\ held' = held \cup {"xsock"}
        /\ conns' = conns \ {"xep"}
  /\ UNCHANGED <<req, keyCh, cpc, fds, also, got>>

Sockets == {"sock", "xsock"}

(* The checks at the head of Start; StartChild closes the sockets after Start. *)
CheckRequest ==
  /\ ppc = "start"
  /\ IF req.flaw = "none" THEN ppc' = "mac" /\ UNCHANGED held ELSE Return(Sockets)
  /\ UNCHANGED <<req, conns, keyCh, cpc, fds, also, got>>

(* What Start takes, in order, and the file each step adds.  CreateKeyFD also *)
(* refuses key material that is shorter than 16 bytes or longer than 8192.    *)
StartSteps == <<"mac", "root", "xmac", "dirs", "channel", "spawn">>

Skipped(step) ==
  \/ step = "root" /\ ~req.root
  \/ step = "xmac" /\ req.extra = ""
  \/ step = "dirs" /\ req.dirs = 0
  \/ step = "channel" /\ ~req.scm

After(step) ==
  StartSteps[1 + CHOOSE i \in 1..Len(StartSteps) : StartSteps[i] = step]

Opened(step) ==
  CASE step = "dirs" -> DirFiles(req)
    [] step = "channel" -> {"chP", "chC"}
    [] OTHER -> {step}

(* Start's closing list at the failure of a step (rootFiles by its defer). *)
ClosedOnError(step) ==
  CASE step = "mac" -> {}
    [] step = "root" -> {"mac"}
    [] step = "xmac" -> {"mac", "root"}
    [] step = "dirs" -> {"mac", "root", "xmac"}
    [] step = "channel" -> {"mac", "root", "xmac"} \cup DirFiles(req)
    [] step = "spawn" -> {"mac", "root", "xmac", "chP", "chC"} \cup DirFiles(req)

Open ==
  /\ ppc \in {"mac", "root", "xmac", "dirs", "channel"}
  /\ IF Skipped(ppc) THEN ppc' = After(ppc) /\ UNCHANGED held
     ELSE \/ Return(ClosedOnError(ppc) \cup Sockets)
          \/ ppc' = After(ppc) /\ held' = held \cup Opened(ppc)
  /\ UNCHANGED <<req, conns, keyCh, cpc, fds, also, got>>

(***************************************************************************)
(* cmd.Start duplicates ExtraFiles into the child.  unixSocketpair does    *)
(* not mark the key channel close-on-exec, so the child also inherits both *)
(* ends of its own channel (and the supervisor's ends of the channels of   *)
(* the children started before it, which nobody reads there).  Then each   *)
(* path closes what it no longer needs and StartChild the sockets.         *)
(***************************************************************************)
ClosedAfterSpawn(r) ==
  (IF r.scm THEN {"chC"} ELSE {"mac", "root", "xmac"}) \cup DirFiles(r) \cup Sockets

Spawn ==
  /\ ppc = "spawn"
  /\ \/ Return(ClosedOnError("spawn") \cup Sockets) /\ UNCHANGED <<cpc, fds, also>>
     \/ /\ fds' = Ahead(req) \o Dirs(req)
        /\ also' = IF req.scm THEN {"chP", "chC"} ELSE {}
        /\ cpc' = "claim"
        /\ held' = held \ ClosedAfterSpawn(req)
        /\ ppc' = IF req.scm THEN "send" ELSE "ok"
  /\ UNCHANGED <<req, conns, keyCh, got>>

ChildGone == cpc' = "dead" /\ fds' = <<>> /\ also' = {}

(* ch: the files sent so far are the ones no longer held. *)
NextToSend == SelectSeq(SendOrder(req), LAMBDA f : f \in held)

Send ==
  /\ ppc = "send" /\ NextToSend # <<>> /\ cpc # "dead"
  /\ keyCh' = Append(keyCh, Head(NextToSend))
  /\ held' = held \ {Head(NextToSend)}
  /\ UNCHANGED <<req, ppc, conns, cpc, fds, also, got>>

(* The channel is gone or sendmsg fails: closeSCMKeys and Process.Kill.  The *)
(* bytes already sent stay readable, but their reader is killed.             *)
SendFails ==
  /\ ppc = "send" /\ NextToSend # <<>>
  /\ Return({"chP", "mac", "root", "xmac"})
  /\ ChildGone
  /\ UNCHANGED <<req, conns, keyCh, got>>

(* Nothing is left to send: SetChild. *)
Track ==
  /\ ppc = "send" /\ NextToSend = <<>>
  /\ ppc' = "ok"
  /\ UNCHANGED <<req, held, conns, keyCh, cpc, fds, also, got>>
-----------------------------------------------------------------------------
(***************************************************************************)
(* ClaimChild.                                                             *)
(***************************************************************************)
FileAt(n) == fds[n - 2]

Put(name, file) == [x \in DOMAIN got \cup {name} |-> IF x = name THEN file ELSE got[x]]

PutAll(m) == [x \in DOMAIN got \cup DOMAIN m |-> IF x \in DOMAIN m THEN m[x] ELSE got[x]]

ByName(pairs) == [x \in {p[1] : p \in pairs} |-> (CHOOSE p \in pairs : p[1] = x)[2]]

(* ExtraFiles transport: all descriptors are adopted by number. *)
ClaimKeyFiles ==
  /\ cpc = "claim" /\ ~req.scm
  /\ got' = ByName({<<"sock", FileAt(IPCFileFD)>>, <<"mac", FileAt(KeyFileFD)>>}
                   \cup When(req.root, <<"root", FileAt(RootKeyFileFD)>>)
                   \cup When(req.extra # "",
                             <<"xsock", FileAt(ExtraPeerSocketFD(req.root))>>)
                   \cup When(req.extra # "",
                             <<"xmac", FileAt(ExtraPeerKeyFD(req.root))>>))
  /\ cpc' = "roots"
  /\ UNCHANGED <<req, ppc, held, conns, keyCh, fds, also>>

(***************************************************************************)
(* Key-channel transport: the sockets by number, the keys as they arrive.  *)
(* The child holds the writing end itself (also), so a channel the parent  *)
(* closed never reads as end of file: RecvFDFile waits for a message, and  *)
(* it is SendFails that ends a child the parent gave up on.                *)
(***************************************************************************)
ClaimSockets ==
  /\ cpc = "claim" /\ req.scm
  /\ got' = ByName({<<"sock", FileAt(IPCFileFD)>>, <<"chC", FileAt(KeyChannelFDSCM)>>}
                   \cup When(req.extra # "", <<"xsock", FileAt(ExtraPeerSocketFDSCM)>>))
  /\ cpc' = "recv"
  /\ UNCHANGED <<req, ppc, held, conns, keyCh, fds, also>>

NextToRecv == SelectSeq(RecvOrder(req), LAMBDA f : f \notin DOMAIN got)

RecvKey ==
  /\ cpc = "recv" /\ NextToRecv # <<>> /\ keyCh # <<>>
  /\ got' = Put(Head(NextToRecv), Head(keyCh))
  /\ keyCh' = Tail(keyCh)
  /\ UNCHANGED <<req, ppc, held, conns, cpc, fds, also>>

(* keepKeyCh: the role and the peer it may have to be rebound to. *)
KeepsKeyCh(role, extra) ==
  \/ role = "net" /\ extra \in {"", "apply", "parser"}
  \/ role \in {"parser", "plan", "index"} /\ extra = "apply"
  \/ <<role, extra>> \in {<<"audit", "auth">>, <<"auth", "audit">>}

(* All keys are there; the channel is kept only by the roles that rebind. *)
RecvDone ==
  /\ cpc = "recv" /\ NextToRecv = <<>>
  /\ got' = IF KeepsKeyCh(req.role, req.extra) THEN got
            ELSE [x \in DOMAIN got \ {"chC"} |-> got[x]]
  /\ cpc' = "roots"
  /\ UNCHANGED <<req, ppc, held, conns, keyCh, fds, also>>

(* Allow-roots are normalised, their descriptors adopted, the keys read: a      *)
(* failing step closes everything.                                              *)
ClaimAllowRootFDs ==
  /\ cpc = "roots"
  /\ got' = PutAll(ByName({<<Dirs(req)[i], FileAt(allowRootFDEnv(req)[i])>> : i \in 1..req.dirs}))
  /\ cpc' = "claimed"
  /\ UNCHANGED <<req, ppc, held, conns, keyCh, fds, also>>

(* ClaimChild fails on its own account, or the child is killed. *)
ChildDies ==
  /\ cpc \in {"claim", "recv", "roots", "claimed"}
  /\ ChildGone
  /\ UNCHANGED <<req, ppc, held, conns, keyCh, got>>

ParentStep ==
  \/ TakeEndpoint \/ TakeExtraEndpoint \/ CheckRequest \/ Open \/ Spawn
  \/ Send \/ SendFails \/ Track

ChildStep ==
  ClaimKeyFiles \/ ClaimSockets \/ RecvKey \/ RecvDone \/ ClaimAllowRootFDs

LaunchNext == ParentStep \/ ChildStep \/ ChildDies

(* Both processes are scheduled. *)
LaunchFairness == WF_launchVars(ParentStep) /\ WF_launchVars(ChildStep)

LaunchSpec == LaunchInit /\ [][LaunchNext]_launchVars /\ LaunchFairness
-----------------------------------------------------------------------------
File == {"sock", "xsock", "mac", "root", "xmac", "chP", "chC", "dir1", "dir2"}

\* The files each side holds are files of this launch.
LaunchTypeOK ==
  /\ req \in Request
  /\ ppc \in {"endpoint", "extra", "start", "send", "ok", "failed"} \cup Range(StartSteps)
  /\ held \subseteq File /\ conns \subseteq {"ep", "xep"}
  /\ Range(keyCh) \cup Range(fds) \subseteq File /\ also \subseteq {"chP", "chC"}
  /\ cpc \in {"none", "claim", "recv", "roots", "claimed", "dead"}

\* What ClaimChild hands to the role is what StartChild meant: every name stands for the
\* file of that name (each key with its own channel, each directory in its place), nothing is
\* missing and nothing is handed over in excess but a key channel the role keeps.
ClaimedAsRequested ==
  cpc = "claimed" =>
    /\ \A x \in DOMAIN got : got[x] = x
    /\ DOMAIN got = {"sock", "mac"} \cup When(req.root, "root") \cup DirFiles(req)
                    \cup When(req.extra # "", "xsock") \cup When(req.extra # "", "xmac")
                    \cup When(req.scm /\ KeepsKeyCh(req.role, req.extra), "chC")

\* However StartChild ends, the supervisor keeps no file of the launch open except its end
\* of the key channel of a child it tracks: a leaked key or socket would be there for every
\* restart, and a leaked socket would keep the peer from seeing end of file.
FilesAccounted ==
  ppc \in {"ok", "failed"} => held = When(ppc = "ok" /\ req.scm, "chP")

\* StartChild returns, and a child it started gets all its files or exits: neither side
\* waits for ever for the other.
LaunchSettles ==
  <>[](ppc \in {"ok", "failed"} /\ cpc \in {"none", "claimed", "dead"})
=============================================================================
