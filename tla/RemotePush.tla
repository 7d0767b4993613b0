----------------------------- MODULE RemotePush -----------------------------
(***************************************************************************)
(* internal/remotesync: Push at one end of a connection, Serve with its    *)
(* receive store at the other.  Pushes follow each other to one            *)
(* destination, while the source is edited, connections break and the      *)
(* server is killed.                                                       *)
(*                                                                         *)
(* A content is the sequence of its cells; it stands for its digest, and   *)
(* its length for the size.  Names have no directories above them.  The    *)
(* handshake is part of connecting.  The localsync run inside a commit is  *)
(* taken operation by operation, with the guarantees LocalSync shows.      *)
(***************************************************************************)
EXTENDS Integers, Sequences, FiniteSetsExt

CONSTANTS
  NameSeq,     \* the logical paths in manifest order
  Contents,    \* contents of files
  Chunk,       \* Push's chunk size, in cells
  SyncEvery,   \* cells between two records of the offset: DefaultChunkSize*4
  Edited,      \* the names others edit
  MaxEdits,    \* bound on their edits
  MaxFaults    \* bound on broken connections and kills of the server

Names == {NameSeq[i] : i \in DOMAIN NameSeq}

ASSUME WireAssumption ==
  /\ Contents \subseteq Seq(Nat)
  /\ Chunk \in Nat \ {0} /\ SyncEvery \in Nat \ {0}
  /\ Edited \subseteq Names
  /\ MaxEdits \in Nat /\ MaxFaults \in Nat

VARIABLES
  src,        \* the tree that is pushed
  snd,        \* the running Push, with its local variables
  toServer, toClient,   \* the two directions of the connection
  up,         \* whether the connection is up
  srv,        \* the server process, with the session it serves
  stage,      \* recv-stage
  part,       \* recv-partial: the .part files (at most one for a name)
  meta,       \* recv-partial: the .meta.json files
  dst,        \* the destination tree
  txn,        \* the authorised, unconfirmed transaction of the destination
  out,        \* what the last Push returned, with the tree seen then
  offered,    \* history: contents announced for each name
  cut,        \* history: whether a kill interrupted a transaction
  edits, faults

source == <<src, edits>>
wire == <<toServer, toClient, up>>
store == <<stage, part, meta>>
dest == <<dst, txn, cut>>
vars ==
  <<src, snd, toServer, toClient, up, srv, stage, part, meta, dst, txn, out,
    offered, cut, edits, faults>>

Absent == [type |-> "absent", data |-> <<>>]
Dir == [type |-> "dir", data |-> <<>>]
File(c) == [type |-> "file", data |-> c]
Entry == {Absent, Dir} \cup {File(c) : c \in Contents}
Tree == [Names -> Entry]
Empty == [f \in Names |-> Absent]

Files(tree) == {f \in Names : tree[f].type = "file"}

\* A read-write file may hold what no content of the source is.
Bytes == UNION {[1..n -> UNION {{c[i] : i \in DOMAIN c} : c \in Contents}] :
                n \in 0..(Max({Len(c) : c \in Contents}) + Chunk)}

IdleSender ==
  [pc |-> "idle", man |-> Empty, i |-> 0, off |-> 0, fh |-> <<>>, linked |-> FALSE]

DownServer ==
  [pc |-> "down", man |-> Empty, left |-> 0, rel |-> NameSeq[1], data |-> <<>>,
   off |-> 0]

NoResult == [ok |-> FALSE, man |-> Empty, seen |-> Empty, cut |-> FALSE]

Init ==
  /\ src \in Tree
  /\ snd = IdleSender
  /\ toServer = <<>> /\ toClient = <<>> /\ up = FALSE
  /\ srv = DownServer
  /\ stage = Empty
  /\ part = [f \in Names |-> {}]
  /\ meta = [f \in Names |-> {}]
  /\ dst = Empty
  /\ txn = {}
  /\ out = NoResult
  /\ offered = [f \in Names |-> {}]
  /\ cut = FALSE
  /\ edits = 0 /\ faults = 0

-----------------------------------------------------------------------------
(***************************************************************************)
(* Push.                                                                   *)
(***************************************************************************)

Send(m) == up /\ toServer' = Append(toServer, m)

\* The file after position i of the manifest, or 0.
NextFile(man, i) ==
  LET js == {j \in DOMAIN NameSeq : j > i /\ NameSeq[j] \in Files(man)}
  IN  IF js = {} THEN 0 ELSE Min(js)

Cur == NameSeq[snd.i]
Announced == snd.man[Cur].data

\* Scan, dial, handshake, manifest.
StartPush ==
  /\ snd.pc = "idle"
  /\ srv.pc = "accept"
  /\ snd' = [IdleSender EXCEPT !.pc = "manifest", !.man = src]
  /\ toServer' = <<[kind |-> "manifest", man |-> src]>>
  /\ toClient' = <<>>
  /\ up' = TRUE
  /\ srv' = [srv EXCEPT !.pc = "manifest"]
  /\ offered' = [f \in Names |-> IF f \in Files(src) THEN offered[f] \cup {src[f].data}
                                                     ELSE offered[f]]
  /\ out' = NoResult
  /\ UNCHANGED <<source, store, dest, faults>>

\* The state of the sender that goes on with the file after position i.
Advance(i) ==
  IF NextFile(snd.man, i) = 0
  THEN [IdleSender EXCEPT !.pc = "commit", !.man = snd.man]
  ELSE [IdleSender EXCEPT !.pc = "open", !.man = snd.man, !.i = NextFile(snd.man, i)]

RecvManifestOK ==
  /\ snd.pc = "manifest"
  /\ toClient # <<>> /\ Head(toClient).kind = "ok"
  /\ toClient' = Tail(toClient)
  /\ snd' = Advance(0)
  /\ UNCHANGED <<source, toServer, up, srv, store, dest, out, offered, faults>>

\* sendFileChunked: open and compare the size.
OpenFile ==
  /\ snd.pc = "open"
  /\ src[Cur].type = "file"
  /\ Len(src[Cur].data) = Len(Announced)
  /\ snd' = [snd EXCEPT !.pc = "hash", !.fh = src[Cur].data, !.linked = TRUE]
  /\ UNCHANGED <<source, wire, srv, store, dest, out, offered, faults>>

\* sendFileChunked: hash by path, compare the digest, announce the file.
SendBegin ==
  /\ snd.pc = "hash"
  /\ src[Cur] = File(Announced)
  /\ Send([kind |-> "begin", rel |-> Cur, data |-> Announced])
  /\ snd' = [snd EXCEPT !.pc = "ack"]
  /\ UNCHANGED <<source, toClient, up, srv, store, dest, out, offered, faults>>

RecvAck ==
  /\ snd.pc = "ack"
  /\ toClient # <<>> /\ Head(toClient).kind = "ack"
  /\ Head(toClient).off <= Len(Announced)
  /\ toClient' = Tail(toClient)
  /\ snd' = [snd EXCEPT !.pc = "chunk", !.off = Head(toClient).off]
  /\ UNCHANGED <<source, toServer, up, srv, store, dest, out, offered, faults>>

\* One read of up to Chunk cells; a file that grew is read beyond its size.
Readable == SubSeq(snd.fh, snd.off + 1, Min({snd.off + Chunk, Len(snd.fh)}))

SendChunk ==
  /\ snd.pc = "chunk"
  /\ snd.off < Len(Announced)
  /\ Readable # <<>>
  /\ Send([kind |-> "chunk", off |-> snd.off, data |-> Readable])
  /\ snd' = [snd EXCEPT !.off = snd.off + Len(Readable)]
  /\ UNCHANGED <<source, toClient, up, srv, store, dest, out, offered, faults>>

SendEnd ==
  /\ snd.pc = "chunk"
  /\ snd.off = Len(Announced)
  /\ Send([kind |-> "end", rel |-> Cur, data |-> Announced])
  /\ snd' = Advance(snd.i)
  /\ UNCHANGED <<source, toClient, up, srv, store, dest, out, offered, faults>>

SendCommit ==
  /\ snd.pc = "commit"
  /\ Send([kind |-> "commit"])
  /\ snd' = [snd EXCEPT !.pc = "result"]
  /\ UNCHANGED <<source, toClient, up, srv, store, dest, out, offered, faults>>

RecvResult ==
  /\ snd.pc = "result"
  /\ toClient # <<>> /\ Head(toClient) = [kind |-> "result", ok |-> TRUE]
  /\ out' = [ok |-> TRUE, man |-> snd.man, seen |-> dst, cut |-> cut]
  /\ snd' = IdleSender
  /\ toClient' = <<>>
  /\ up' = FALSE
  /\ UNCHANGED <<source, toServer, srv, store, dest, offered, faults>>

\* Push returns an error: a receive or a send on a broken connection, an
\* answer it does not expect, a file that changed under it.
PushFails ==
  \/ snd.pc \in {"manifest", "ack", "result"} /\ toClient = <<>> /\ ~up
  \/ snd.pc \in {"manifest", "ack", "result"} /\ toClient # <<>>
     /\ Head(toClient) = [kind |-> "result", ok |-> FALSE]
  \/ snd.pc \in {"hash", "chunk", "commit"} /\ ~up
  \/ snd.pc = "open" /\ (src[Cur].type # "file" \/ Len(src[Cur].data) # Len(Announced))
  \/ snd.pc = "hash" /\ src[Cur] # File(Announced)
  \/ snd.pc = "ack" /\ toClient # <<>> /\ Head(toClient).kind = "ack"
     /\ Head(toClient).off > Len(Announced)
  \/ snd.pc = "chunk" /\ snd.off < Len(Announced) /\ Readable = <<>>
  \/ snd.pc = "chunk" /\ snd.off > Len(Announced)

AbortPush ==
  /\ PushFails
  /\ snd' = IdleSender
  /\ up' = FALSE
  /\ toClient' = <<>>
  /\ UNCHANGED <<source, toServer, srv, store, dest, out, offered, faults>>

-----------------------------------------------------------------------------
(***************************************************************************)
(* Serve.                                                                  *)
(***************************************************************************)

\* The operator starts the server; Serve listens.
StartServe ==
  /\ srv.pc = "down"
  /\ srv' = [DownServer EXCEPT !.pc = "accept"]
  /\ UNCHANGED <<source, snd, wire, store, dest, out, offered, faults>>

Received(kind) == toServer # <<>> /\ Head(toServer).kind = kind

Reply(m) ==
  /\ toServer' = Tail(toServer)
  /\ toClient' = IF up THEN Append(toClient, m) ELSE toClient
  /\ up' = up

\* respondErr: HandleConn returns the error and Serve ends.
RespondErr ==
  /\ toServer' = <<>>
  /\ toClient' = IF up THEN Append(toClient, [kind |-> "result", ok |-> FALSE])
                       ELSE toClient
  /\ up' = FALSE
  /\ srv' = DownServer

\* prepareDirs: the directories of the manifest up to the first one that a
\* staged file is in the way of.
BlockedDirs(man) ==
  {i \in DOMAIN NameSeq : man[NameSeq[i]] = Dir /\ stage[NameSeq[i]].type = "file"}

prepareDirs(man) ==
  [f \in Names |->
     IF /\ man[f] = Dir
        /\ \A i \in BlockedDirs(man) : \E j \in 1..(i - 1) : NameSeq[j] = f
     THEN Dir ELSE stage[f]]

ServeManifest ==
  LET man == Head(toServer).man
  IN  /\ srv.pc = "manifest"
      /\ Received("manifest")
      /\ stage' = prepareDirs(man)
      /\ IF BlockedDirs(man) # {}
         THEN RespondErr
         ELSE /\ Reply([kind |-> "ok"])
              /\ srv' = [srv EXCEPT !.pc = "file", !.man = man,
                                    !.left = Cardinality(Files(man))]
      /\ UNCHANGED <<source, snd, part, meta, dest, out, offered, faults>>

Offset(m) == [data |-> srv.data, off |-> m]

\* beginFile: the offset the store can resume from, if its record of the
\* announced file agrees with the length of the partial file.
Resumable(f, c) ==
  \E m \in meta[f] : m.data = c /\ \E p \in part[f] : Len(p) = m.off

beginFile(f, c) ==
  LET start == IF Resumable(f, c) THEN (CHOOSE m \in meta[f] : TRUE).off ELSE 0
  IN  /\ part' = [part EXCEPT ![f] = IF start = 0 THEN {<<>>} ELSE part[f]]
      /\ meta' = [meta EXCEPT ![f] = IF Resumable(f, c) THEN meta[f] ELSE {}]
      /\ Reply([kind |-> "ack", off |-> start])
      /\ srv' = [srv EXCEPT !.pc = IF start < Len(c) THEN "chunk" ELSE "end",
                            !.rel = f, !.data = c, !.off = start]

\* Mutant of Staged: only the sizes are compared.
StagedSameSize(f, c) == stage[f].type = "file" /\ Len(stage[f].data) = Len(c)

\* The announced file is already in the stage.
Staged(f, c) == stage[f] = File(c)

ServeBegin ==
  LET f == Head(toServer).rel
      c == Head(toServer).data
  IN  /\ srv.pc = "file" /\ srv.left > 0
      /\ Received("begin")
      /\ IF Staged(f, c)
         THEN /\ part' = [part EXCEPT ![f] = {}]
              /\ meta' = [meta EXCEPT ![f] = {}]
              /\ Reply([kind |-> "ack", off |-> Len(c)])
              /\ srv' = [srv EXCEPT !.pc = "held", !.rel = f, !.data = c]
         ELSE beginFile(f, c)
      /\ UNCHANGED <<source, snd, stage, dest, out, offered, faults>>

\* writeChunk: at the expected offset, with a record of it every SyncEvery.
ServeChunk ==
  LET m == Head(toServer)
      off == srv.off + Len(m.data)
  IN  /\ srv.pc = "chunk"
      /\ Received("chunk")
      /\ m.off = srv.off
      /\ part' = [part EXCEPT ![srv.rel] = {p \o m.data : p \in part[srv.rel]}]
      /\ meta' = [meta EXCEPT ![srv.rel] = IF off % SyncEvery = 0 THEN {Offset(off)} ELSE @]
      /\ srv' = [srv EXCEPT !.off = off,
                            !.pc = IF off < Len(srv.data) THEN "chunk" ELSE "end"]
      /\ toServer' = Tail(toServer)
      /\ UNCHANGED <<source, snd, toClient, up, stage, dest, out, offered, faults>>

FileDone == [DownServer EXCEPT !.pc = "file", !.man = srv.man, !.left = srv.left - 1]

\* The end of a file that was already staged.
ServeHeldEnd ==
  /\ srv.pc = "held"
  /\ Received("end")
  /\ srv' = FileDone
  /\ toServer' = Tail(toServer)
  /\ UNCHANGED <<source, snd, toClient, up, store, dest, out, offered, faults>>

\* Mutant of Verified: the received bytes are not hashed again.
SizeVerified == srv.off = Len(srv.data)

\* endFile hashes the partial file.
Verified == part[srv.rel] = {srv.data}

\* endFile: verify, then move to the stage, unless a staged directory is in the
\* way; an error leaves the partial file and its record.
ServeEnd ==
  /\ srv.pc = "end"
  /\ Received("end")
  /\ IF srv.off = Len(srv.data) /\ Verified /\ stage[srv.rel] # Dir
     THEN /\ stage' = [stage EXCEPT ![srv.rel] = File(CHOOSE p \in part[srv.rel] : TRUE)]
          /\ part' = [part EXCEPT ![srv.rel] = {}]
          /\ meta' = [meta EXCEPT ![srv.rel] = {}]
          /\ srv' = FileDone
          /\ toServer' = Tail(toServer)
          /\ UNCHANGED <<toClient, up>>
     ELSE RespondErr /\ UNCHANGED store
  /\ UNCHANGED <<source, snd, dest, out, offered, faults>>

\* Mutant of ServeBroken: between two files the server goes on waiting.
ServeBrokenWaits ==
  /\ srv.pc \in {"manifest", "held", "chunk", "end"}
  /\ toServer = <<>> /\ ~up
  /\ meta' = IF srv.pc \in {"chunk", "end"}
             THEN [meta EXCEPT ![srv.rel] = {Offset(srv.off)}]
             ELSE meta
  /\ srv' = DownServer
  /\ UNCHANGED <<source, snd, wire, stage, part, dest, out, offered, faults>>

\* A receive on a broken connection: persistActive records the offset.
ServeBroken ==
  /\ srv.pc \in {"manifest", "file", "held", "chunk", "end"}
  /\ toServer = <<>> /\ ~up
  /\ meta' = IF srv.pc \in {"chunk", "end"}
             THEN [meta EXCEPT ![srv.rel] = {Offset(srv.off)}]
             ELSE meta
  /\ srv' = DownServer
  /\ UNCHANGED <<source, snd, wire, stage, part, dest, out, offered, faults>>

-----------------------------------------------------------------------------
(***************************************************************************)
(* The commit: localsync.Sync from the stage to the destination.  Its plan *)
(* has one operation per staged entry; an interrupted transaction of these *)
(* roots is resumed, whatever the stage holds by then.                     *)
(***************************************************************************)
PlanConflict ==
  \E f \in Names : {stage[f].type, dst[f].type} = {"file", "dir"}

Plan == [f \in Names |-> [want |-> stage[f], skip |-> stage[f] \in {Absent, dst[f]}]]

ServeCommit ==
  /\ srv.pc = "file" /\ srv.left = 0
  /\ Received("commit")
  /\ IF txn = {} /\ PlanConflict
     THEN RespondErr /\ UNCHANGED txn
     ELSE /\ txn' = IF txn = {} THEN {[plan |-> Plan, done |-> 0]} ELSE txn
          /\ srv' = [srv EXCEPT !.pc = "sync"]
          /\ toServer' = Tail(toServer)
          /\ UNCHANGED <<toClient, up>>
  /\ UNCHANGED <<source, snd, store, dst, cut, out, offered, faults>>

Txn == CHOOSE t \in txn : TRUE
OpName == NameSeq[Txn.done + 1]
Op == Txn.plan[OpName]

\* An operation needs the staged content its plan names.
Applicable == Op.skip \/ Op.want = Dir \/ stage[OpName] = Op.want

Applied == IF Op.skip THEN dst ELSE [dst EXCEPT ![OpName] = Op.want]

Syncing == srv.pc = "sync" /\ Txn.done < Len(NameSeq)

SyncOp ==
  /\ Syncing
  /\ Applicable
  /\ dst' = Applied
  /\ txn' = {[plan |-> Txn.plan, done |-> Txn.done + 1]}
  /\ UNCHANGED <<source, snd, wire, srv, store, cut, out, offered, faults>>

SyncRefused ==
  /\ Syncing
  /\ ~Applicable
  /\ RespondErr
  /\ UNCHANGED <<source, snd, store, dest, out, offered, faults>>

\* The confirmation; the stage is still there.
SyncConfirm ==
  /\ srv.pc = "sync"
  /\ Txn.done = Len(NameSeq)
  /\ txn' = {}
  /\ srv' = [srv EXCEPT !.pc = "clear"]
  /\ UNCHANGED <<source, snd, wire, store, dst, cut, out, offered, faults>>

\* The stage is removed and the result sent; Serve accepts again if it could
\* be sent.
ClearStage ==
  /\ srv.pc = "clear"
  /\ stage' = Empty
  /\ toClient' = IF up THEN Append(toClient, [kind |-> "result", ok |-> TRUE]) ELSE toClient
  /\ up' = FALSE
  /\ toServer' = <<>>
  /\ srv' = IF up THEN [DownServer EXCEPT !.pc = "accept"] ELSE DownServer
  /\ UNCHANGED <<source, snd, part, meta, dest, out, offered, faults>>

-----------------------------------------------------------------------------
(***************************************************************************)
(* The environment.                                                        *)
(***************************************************************************)

\* A broken connection loses what was in flight, from some message on.
Disconnect ==
  /\ up
  /\ faults < MaxFaults
  /\ up' = FALSE
  /\ \E i \in 0..Len(toServer), j \in 0..Len(toClient) :
       /\ toServer' = SubSeq(toServer, 1, i)
       /\ toClient' = SubSeq(toClient, 1, j)
  /\ faults' = faults + 1
  /\ UNCHANGED <<source, snd, srv, store, dest, out, offered>>

\* The server is killed: an operation may have taken effect without its
\* progress record, and the removal of the stage may be half done.
KillServer ==
  /\ srv.pc # "down"
  /\ faults < MaxFaults
  /\ srv' = DownServer
  /\ up' = FALSE
  /\ toServer' = <<>>
  /\ dst' \in {dst} \cup IF Syncing /\ Applicable THEN {Applied} ELSE {}
  /\ IF srv.pc = "clear"
     THEN \E gone \in SUBSET Names :
            stage' = [f \in Names |-> IF f \in gone THEN Absent ELSE stage[f]]
     ELSE stage' = stage
  /\ cut' = (cut \/ srv.pc = "sync")
  /\ faults' = faults + 1
  /\ UNCHANGED <<source, snd, toClient, part, meta, txn, out, offered>>

\* Others replace an entry of the source, or rewrite the file in place under
\* the handle Push has open.
EditSource ==
  /\ edits < MaxEdits
  /\ edits' = edits + 1
  /\ \E f \in Names, e \in Entry :
       /\ f \in Edited /\ e # src[f]
       /\ src' = [src EXCEPT ![f] = e]
       /\ LET open == snd.linked /\ Cur = f
          IN  \/ snd' = IF open THEN [snd EXCEPT !.linked = FALSE] ELSE snd
              \/ open /\ e.type = "file" /\ snd' = [snd EXCEPT !.fh = e.data]
  /\ UNCHANGED <<wire, srv, store, dest, out, offered, faults>>

Pushing ==
  \/ RecvManifestOK \/ OpenFile \/ SendBegin \/ RecvAck \/ SendChunk \/ SendEnd
  \/ SendCommit \/ RecvResult \/ AbortPush

Serving ==
  \/ ServeManifest \/ ServeBegin \/ ServeChunk \/ ServeHeldEnd \/ ServeEnd
  \/ ServeBroken \/ ServeCommit \/ SyncOp \/ SyncRefused \/ SyncConfirm
  \/ ClearStage

Next ==
  \/ StartPush \/ StartServe
  \/ Pushing \/ Serving
  \/ Disconnect \/ KillServer \/ EditSource

Spec == Init /\ [][Next]_vars

\* Both programs take their next step when they can, and the operator starts
\* each of them again after it ended.
FairSpec ==
  /\ Spec
  /\ WF_vars(Pushing) /\ WF_vars(Serving)
  /\ WF_vars(StartServe) /\ WF_vars(StartPush)
-----------------------------------------------------------------------------
(***************************************************************************)
(* Properties                                                              *)
(***************************************************************************)

\* Types of both processes, the connection, the store and the destination.
TypeOK ==
  /\ src \in Tree /\ stage \in Tree /\ dst \in Tree
  /\ snd.man \in Tree /\ srv.man \in Tree
  /\ snd.i \in 0..Len(NameSeq) /\ srv.left \in 0..Len(NameSeq)
  /\ \A f \in Names :
       /\ part[f] \subseteq Bytes /\ Cardinality(part[f]) <= 1
       /\ Cardinality(meta[f]) <= 1
       /\ \A m \in meta[f] : m.data \in Contents /\ m.off \in Nat
       /\ offered[f] \subseteq Contents
  /\ \A t \in txn : t.done \in 0..Len(NameSeq)

\* Through resumed transfers, files already held and files that change while
\* they are sent, the next message the server reads is the one its state
\* waits for, at the offset it waits for: no push between these two programs
\* ends in a protocol error (transfer.go:183-234, store.go:162-167).
InStep ==
  LET m == Head(toServer)
  IN  toServer # <<>> =>
        /\ srv.pc = "manifest" => m.kind = "manifest"
        /\ srv.pc = "file" => m.kind = IF srv.left > 0 THEN "begin" ELSE "commit"
        /\ srv.pc = "chunk" => m.kind = "chunk" /\ m.off = srv.off
        /\ srv.pc \in {"held", "end"} =>
             m.kind = "end" /\ m.rel = srv.rel /\ m.data = srv.data

\* Whatever was resumed, edited or interrupted, a file in the stage or in the
\* destination has a content that one manifest announced for its name, never
\* a mixture of two (endFile hashes the assembled file, store.go:226).
OnlyOffered ==
  \A f \in Names : \A tree \in {stage, dst} :
    tree[f].type = "file" => tree[f].data \in offered[f]

\* Interrupted, resumed and overtaken by edits, a transfer stays in step and
\* assembles only what was announced.
TransferIsSound == TypeOK /\ InStep /\ OnlyOffered

Published(man, tree) == \A f \in Names : man[f] # Absent => tree[f] = man[f]

\* As long as no commit was killed, a push that reports success has published
\* its whole manifest, also when files were resumed, already staged by an
\* earlier push, or changed since (push.go:126, store.go:259).
UncutSuccessIsPublished == out.ok /\ ~out.cut => Published(out.man, out.seen)

\* A push that reports success has published its whole manifest
\* (push.go:126), whatever happened to the pushes before it.
SuccessIsPublished == out.ok => Published(out.man, out.seen)

\* If nobody edits the source, pushing again after each failure succeeds in the
\* end: partial files, staged files and an interrupted commit do not stand in
\* the way (remotesync.md:108-110).
EventuallyPushed == [](edits = 0) => <>out.ok
=============================================================================
