---------------------------- MODULE Conversation ----------------------------
(***************************************************************************)
(* The protocol driver under an unreliable transport: a sender that goes   *)
(* through the phases of a session in order, leaving some out, and a       *)
(* receiver to which every frame sent may arrive late, again or never.     *)
(* Both follow the content offsets of their chunks (TrackDataChunks), with *)
(* keyed proofs and sealed data or with the plain steps without keys.      *)
(***************************************************************************)
EXTENDS Driver

CONSTANTS Lengths,       \* lengths of the chunks
          MaxFrames      \* frames sent

VARIABLES tx, rx,          \* the sender's and the receiver's driver
          keyed,         \* proofs and seals are in use
          sent,          \* every frame sent
          stage,         \* the last kind of frame sent
          took,          \* content of the chunks the receiver accepted
          handled        \* numbers of the frames it handled without error

vars == <<tx, rx, keyed, sent, stage, took, handled>>

Root == "root"
Mac == [use |-> "mac", root |-> Root]

Ready(dir) ==
    [NewDriverWithSuites(<<3, 2>>, LocalSuites, "sid", Mac, TRUE)
        EXCEPT !.track = TRUE, !.authDir = dir, !.authKey = PeerAuthKey(Root, "sid"),
               !.archiveKey = ArchiveAuthKey(Root, "sid")]
Plain == [NewDriver(<<3, 2>>, "sid", None, FALSE) EXCEPT !.track = TRUE]

Init ==
    /\ keyed \in BOOLEAN
    /\ tx = IF keyed THEN Ready("i2r") ELSE Plain
    /\ rx = IF keyed THEN Ready("r2i") ELSE Plain
    /\ sent = <<>> /\ stage = 0 /\ took = <<>> /\ handled = <<>>

-----------------------------------------------------------------------------
\* A step of the sender: a frame, if its driver makes one, and the driver it leaves.
Sends(at, r) ==
    /\ Len(sent) < MaxFrames /\ stage <= at /\ r.err = "ok" /\ r.f # None
    /\ tx' = r.d /\ sent' = Append(sent, r.f) /\ stage' = at
    /\ UNCHANGED <<rx, keyed, took, handled>>

Local(r, op) == IF op.err = "ok" THEN [r EXCEPT !.d.s = op.s] ELSE [r EXCEPT !.err = op.err]

SendOffer == stage = 0 /\ Sends(1, LET o == EncodeNegotiateOffer(tx, <<3, 2>>)
                                   IN Local(o, Negotiate(o.d.s)))
SendProof(dir) ==
    /\ keyed /\ (dir = "r2i" => tx.s.i2r)
    /\ Sends(2, EncodePeerAuth([tx EXCEPT !.authDir = dir]))
SendAuth == ~keyed /\ Sends(2, LET f == EncodeFrame(tx, "PeerAuth", Empty)
                               IN Local(f, Authenticate(f.d.s)))
SendArchive == Sends(3, IF keyed THEN EncodeArchiveAuth(tx)
                        ELSE LET f == EncodeFrame(tx, "ArchiveAuth", Empty)
                             IN Local(f, AuthorizeArchive(f.d.s)))
SendActivate ==
    LET f == EncodeFrame(tx, "Activate", Empty)
        s == Local(f, Activate(f.d.s))
    IN stage < 4 /\ Sends(4, IF keyed /\ s.err = "ok"
                             THEN [s EXCEPT !.d = InstallTrafficKey(s.d, Root).d] ELSE s)
SendChunk(n) ==
    tx.s.state = "ACTIVE" /\ Sends(5, EncodeDataChunk(tx, [kind |-> "data", id |-> Len(sent), len |-> n]))
SendLast(type) == stage < 6 /\ Sends(6, EncodeFrame(tx, type, Empty))

\* The receiver reads a frame, and installs the traffic key once it is active.
Deliver(i) ==
    LET f == sent[i]
        h == DecodeAndHandle(rx, f)
        k == IF h.err = "ok" /\ f.type = "Activate" /\ keyed THEN InstallTrafficKey(h.d, Root) ELSE h
    IN /\ rx' = k.d
       /\ handled' = IF h.err = "ok" THEN Append(handled, f.seq) ELSE handled
       /\ took' = IF h.err = "ok" /\ f.type = "Data" THEN Append(took, h.d.plaintext) ELSE took
       /\ UNCHANGED <<tx, keyed, sent, stage>>

\* A caller that noticed a repeated frame gives the session up.
GiveUp ==
    /\ RejectReplay(rx.s).err = "ok" /\ rx' = [rx EXCEPT !.s = RejectReplay(@).s]
    /\ UNCHANGED <<tx, keyed, sent, stage, took, handled>>

Next ==
    \/ SendOffer \/ SendAuth \/ SendArchive \/ SendActivate \/ GiveUp
    \/ \E dir \in {"i2r", "r2i"} : SendProof(dir)
    \/ \E n \in Lengths : SendChunk(n)
    \/ \E type \in {"Close", "Failure"} : SendLast(type)
    \/ \E i \in DOMAIN sent : Deliver(i)

Spec == Init /\ [][Next]_vars

-----------------------------------------------------------------------------
Content == LET chunks == SelectSeq(sent, LAMBDA f : f.type = "Data")
           IN [i \in DOMAIN chunks |-> IF keyed THEN chunks[i].body.pt.data ELSE chunks[i].body.data]

\* Frames are handled once each and in the order of their numbers, however often they arrive.
HandledOnce == handled = [i \in DOMAIN handled |-> i] /\ rx.recv = Len(handled) + 1

\* The accepted content is what was sent up to some point: no chunk skipped, doubled or moved.
ContentIsPrefix == IsPrefix(took, Content)

\* Session.Invariants: an active session is authorised and not downgraded, product changes
\* follow both proofs and the archive authorisation.
Sound(s) ==
    /\ s.state = "ACTIVE" => s.peer /\ s.archive /\ NotDowngraded(s)
    /\ s.mutated => s.peer /\ s.archive
    /\ s.state = "PEER_AUTHENTICATED" \/ s.peer => s.i2r /\ s.r2i
SessionSound == Sound(tx.s) /\ Sound(rx.s) /\ (took # <<>> => rx.s.mutated)
=============================================================================
