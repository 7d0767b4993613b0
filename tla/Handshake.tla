----------------------------- MODULE Handshake -----------------------------
(***************************************************************************)
(* internal/remotesync: the handshake of a push client and a server over   *)
(* one TCP connection, the hand-over of the finished session from the auth *)
(* role to the net role, and the sealed data plane that follows.           *)
(*                                                                         *)
(* An end runs its function from one read to the next in one step.  The    *)
(* connection delivers in order; it can be cut, which loses any part of    *)
(* what was still on its way, and either end can vanish.                   *)
(***************************************************************************)
EXTENDS Driver

CONSTANTS Roots,         \* root keys
          PeerIDs,       \* names a client can give itself
          Keyrings,      \* keyrings a server can hold: functions from names to root keys
          Offers,        \* version lists a client's build may offer
          MaxData,       \* data messages an end sends
          MaxCuts        \* times the connection is cut

VARIABLES conf,          \* what both ends were configured with
          cli, srv,      \* the ends: where they are, their driver, data sent and taken
          wire,          \* what is on its way in each direction
          eof            \* directions whose writer is gone

vars == <<conf, cli, srv, wire, eof>>

Sid == "sid"             \* newSessionID: fresh for every session
NoPeer == ""
offeredVersions == <<3, 2>>

deriveMACKey(root, peer) == [use |-> "mac", root |-> root, peer |-> peer]

\* The root-key blob: one key, or a keyring packed entry by entry.
ValidateKeyring(kr) == DOMAIN kr # {} /\ NoPeer \notin DOMAIN kr
EncodeKeyring(kr) == [magic |-> TRUE, entries |-> {<<id, kr[id]>> : id \in DOMAIN kr}]
DecodeRootMaterial(blob) ==
    IF ~blob.magic THEN [ring |-> FALSE, root |-> blob.root]
    ELSE [ring |-> TRUE,
          keys |-> [id \in {e[1] : e \in blob.entries} |->
                        (CHOOSE e \in blob.entries : e[1] = id)[2]]]

Materials == {[magic |-> FALSE, root |-> r] : r \in Roots}
             \cup {EncodeKeyring(kr) : kr \in {k \in Keyrings : ValidateKeyring(k)}}

WritePeerPrologue(peer) == IF peer = NoPeer THEN <<>> ELSE <<[prologue |-> peer]>>
IsFrame(x) == "type" \in DOMAIN x

-----------------------------------------------------------------------------
End0(pc, d) == [pc |-> pc, d |-> d, out |-> 0, in |-> <<>>]

Init ==
    /\ conf \in [root : Roots, peer : PeerIDs \cup {NoPeer}, offer : Offers,
                 blob : Materials, viaAuth : BOOLEAN]
    /\ cli = End0("dial", NewDriverWithSuites(conf.offer, LocalSuites, Sid,
                                              deriveMACKey(conf.root, conf.peer), TRUE))
    /\ srv = End0(IF DecodeRootMaterial(conf.blob).ring THEN "prologue" ELSE "offer",
                  NewDriver(<<>>, Sid, None, TRUE))
    /\ wire = [c2s |-> <<>>, s2c |-> <<>>]
    /\ eof = [c2s |-> FALSE, s2c |-> FALSE]

Up(e) == e.pc = "up"
Over(e) == e.pc \in {"failed", "closed"}

\* The root the server uses with the peer it was told of.
Root(peer) == LET m == DecodeRootMaterial(conf.blob) IN IF m.ring THEN m.keys[peer] ELSE m.root

Pending(dir) == wire[dir] # <<>>
Got(dir) == Head(wire[dir])
Rest(dir) == [wire EXCEPT ![dir] = Tail(@)]
Put(w, dir, f) == [w EXCEPT ![dir] = IF eof[dir] THEN @ ELSE Append(@, f)]

\* An end returns with an error and its caller closes the connection.
Fails(e, r) == [e EXCEPT !.pc = "failed", !.d = r.d]
ClosesCli == eof' = [eof EXCEPT !.c2s = TRUE]
ClosesSrv == eof' = [eof EXCEPT !.s2c = TRUE]

\* A read on a connection whose writer is gone and that is drained.
CliEof ==
    /\ ~Over(cli) /\ cli.pc # "dial" /\ ~Pending("s2c") /\ eof.s2c
    /\ cli' = [cli EXCEPT !.pc = "failed"] /\ ClosesCli /\ UNCHANGED <<conf, srv, wire>>

SrvEof ==
    /\ ~Over(srv) /\ srv.pc # "seal" /\ ~Pending("c2s") /\ eof.c2s
    /\ srv' = [srv EXCEPT !.pc = "failed"] /\ ClosesSrv /\ UNCHANGED <<conf, cli, wire>>

-----------------------------------------------------------------------------
(* DialHandshake, from read to read.                                       *)
DialOffer ==
    /\ cli.pc = "dial"
    /\ LET n == Negotiate(cli.d.s)
           o == EncodeNegotiateOffer([cli.d EXCEPT !.s = n.s], conf.offer)
       IN IF n.err = "ok" /\ o.err = "ok"
          THEN /\ cli' = [cli EXCEPT !.pc = "accept", !.d = o.d]
               /\ wire' = [wire EXCEPT !.c2s = IF eof.c2s THEN @
                                               ELSE @ \o WritePeerPrologue(conf.peer) \o <<o.f>>]
               /\ UNCHANGED eof
          ELSE /\ cli' = Fails(cli, On(cli.d, n)) /\ ClosesCli
               /\ wire' = Put(wire, "c2s", [prologue |-> conf.peer])
    /\ UNCHANGED <<conf, srv>>

DialProof ==
    /\ cli.pc = "accept" /\ Pending("s2c")
    /\ LET h == DecodeAndHandle(cli.d, Got("s2c"))
           p == EncodePeerAuth([h.d EXCEPT !.authKey = PeerAuthKey(conf.root, Sid),
                                           !.archiveKey = ArchiveAuthKey(conf.root, Sid),
                                           !.authDir = "i2r"])
       IN IF h.err = "ok" /\ p.err = "ok"
          THEN /\ cli' = [cli EXCEPT !.pc = "proof", !.d = p.d]
               /\ wire' = Put(Rest("s2c"), "c2s", p.f) /\ UNCHANGED eof
          ELSE cli' = Fails(cli, h) /\ wire' = Rest("s2c") /\ ClosesCli
    /\ UNCHANGED <<conf, srv>>

\* The client is done as soon as it has sent: it does not wait for the server.
DialActivate ==
    /\ cli.pc = "proof" /\ Pending("s2c")
    /\ LET h == DecodeAndHandle(cli.d, Got("s2c"))
           a == EncodeArchiveAuth(h.d)
           s == Activate(a.d.s)
           t == EncodeFrame([a.d EXCEPT !.s = s.s], "Activate", Empty)
           k == InstallTrafficKey(t.d, conf.root)
       IN IF {h.err, a.err, s.err, t.err, k.err} = {"ok"}
          THEN /\ cli' = [cli EXCEPT !.pc = "up", !.d = k.d]
               /\ wire' = Put(Put(Rest("s2c"), "c2s", a.f), "c2s", t.f) /\ UNCHANGED eof
          ELSE cli' = Fails(cli, h) /\ wire' = Rest("s2c") /\ ClosesCli
    /\ UNCHANGED <<conf, srv>>

-----------------------------------------------------------------------------
(* AcceptHandshakeKeyring, then acceptHandshake, from read to read.        *)
SrvFails(d) == srv' = [srv EXCEPT !.pc = "failed", !.d = d] /\ wire' = Rest("c2s") /\ ClosesSrv

ReadPeerPrologue ==
    /\ srv.pc = "prologue" /\ Pending("c2s")
    /\ LET x == Got("c2s")
       IN IF ~IsFrame(x) /\ x.prologue \in DOMAIN DecodeRootMaterial(conf.blob).keys
          THEN /\ srv' = [srv EXCEPT !.pc = "offer"]
               /\ wire' = Rest("c2s") /\ UNCHANGED eof
          ELSE SrvFails(srv.d)
    /\ UNCHANGED <<conf, cli>>

\* The server's driver takes the session id of the offer.
AcceptOffer ==
    /\ srv.pc = "offer" /\ Pending("c2s")
    /\ LET ring == DecodeRootMaterial(conf.blob).ring
           peer == IF ring THEN conf.peer ELSE NoPeer
           mac  == deriveMACKey(Root(peer), peer)
           x    == Got("c2s")
           new  == NewDriverWithSuites(offeredVersions, LocalSuites, x.sid, mac, TRUE)
           h    == Handle(new, x)
           a    == EncodeNegotiateAccept(h.d)
       IN IF ~IsFrame(x) THEN SrvFails(srv.d)
          ELSE IF ~Decode(x, mac, TRUE).ok THEN SrvFails(srv.d)
          ELSE IF h.err # "ok" \/ a.err # "ok" THEN SrvFails(h.d)
          ELSE /\ srv' = [srv EXCEPT !.pc = "proof",
                             !.d = [a.d EXCEPT !.authKey = PeerAuthKey(Root(peer), x.sid),
                                               !.archiveKey = ArchiveAuthKey(Root(peer), x.sid),
                                               !.authDir = "r2i"]]
               /\ wire' = Put(Rest("c2s"), "s2c", a.f) /\ UNCHANGED eof
    /\ UNCHANGED <<conf, cli>>

\* Mutant of AcceptProof: the answering proof is made but not sent.
AcceptProofSilent ==
    /\ srv.pc = "proof" /\ Pending("c2s")
    /\ LET h == DecodeAndHandle(srv.d, Got("c2s"))
           p == EncodePeerAuth(h.d)
       IN IF h.err # "ok" \/ p.err # "ok" THEN SrvFails(h.d)
          ELSE /\ srv' = [srv EXCEPT !.pc = "archive", !.d = p.d]
               /\ wire' = Rest("c2s") /\ UNCHANGED eof
    /\ UNCHANGED <<conf, cli>>

AcceptProof ==
    /\ srv.pc = "proof" /\ Pending("c2s")
    /\ LET h == DecodeAndHandle(srv.d, Got("c2s"))
           p == EncodePeerAuth(h.d)
       IN IF h.err # "ok" \/ p.err # "ok" THEN SrvFails(h.d)
          ELSE /\ srv' = [srv EXCEPT !.pc = "archive", !.d = p.d]
               /\ wire' = Put(Rest("c2s"), "s2c", p.f) /\ UNCHANGED eof
    /\ UNCHANGED <<conf, cli>>

AcceptArchive ==
    /\ srv.pc = "archive" /\ Pending("c2s")
    /\ LET h == DecodeAndHandle(srv.d, Got("c2s"))
       IN IF h.err # "ok" THEN SrvFails(h.d)
          ELSE srv' = [srv EXCEPT !.pc = "activate", !.d = h.d] /\ wire' = Rest("c2s") /\ UNCHANGED eof
    /\ UNCHANGED <<conf, cli>>

AcceptActivate ==
    /\ srv.pc = "activate" /\ Pending("c2s")
    /\ LET h == DecodeAndHandle(srv.d, Got("c2s"))
           k == InstallTrafficKey(h.d, Root(IF DecodeRootMaterial(conf.blob).ring
                                            THEN conf.peer ELSE NoPeer))
       IN IF h.err # "ok" \/ k.err # "ok" THEN SrvFails(h.d)
          ELSE /\ srv' = [srv EXCEPT !.pc = IF conf.viaAuth THEN "seal" ELSE "up", !.d = k.d]
               /\ wire' = Rest("c2s") /\ UNCHANGED eof
    /\ UNCHANGED <<conf, cli>>

-----------------------------------------------------------------------------
(* The hand-over: auth seals the session and gives up the connection, net  *)
(* rebuilds an active driver without the root key or the transcript.       *)
sealFromDriver(d) ==
    [sid |-> d.sid, mac |-> d.mac, aead |-> d.aead, send |-> d.send, recv |-> d.recv,
     selected |-> d.s.selected, suite |-> d.s.suite]

\* encodeSeal writes the fields in this order, decodeSeal reads them back.
encodeSeal(s) == <<s.sid, s.mac, s.aead, s.send, s.recv, s.selected, s.suite>>
\* Mutant of decodeSeal: the two counters in the wrong order.
decodeSealCounters(p) == [sid |-> p[1], mac |-> p[2], aead |-> p[3], send |-> p[5], recv |-> p[4],
                          selected |-> p[6], suite |-> p[7]]
decodeSeal(p) == [sid |-> p[1], mac |-> p[2], aead |-> p[3], send |-> p[4], recv |-> p[5],
                  selected |-> p[6], suite |-> p[7]]

\* Mutant of SessionFromSeal: the rebuilt session is not made active.
SessionNotActive(raw) ==
    LET seal == decodeSeal(raw)
    IN SetAEADKey([NewDriverWithSuites(offeredVersions, LocalSuites, seal.sid, seal.mac, TRUE)
                      EXCEPT !.s.selected = seal.selected, !.s.suite = seal.suite,
                             !.send = seal.send, !.recv = seal.recv], seal.aead)

SessionFromSeal(raw) ==
    LET seal == decodeSeal(raw)
        new  == NewDriverWithSuites(offeredVersions,
                    IF seal.suite = "" THEN LocalSuites ELSE <<seal.suite>>,
                    seal.sid, seal.mac, TRUE)
    IN SetAEADKey([new EXCEPT !.s.state = "ACTIVE", !.s.selected = seal.selected,
                              !.s.suite = seal.suite, !.s.peer = TRUE, !.s.i2r = TRUE,
                              !.s.r2i = TRUE, !.s.archive = TRUE,
                              !.send = seal.send, !.recv = seal.recv],
                  seal.aead)

Handover ==
    /\ srv.pc = "seal"
    /\ IF srv.d.s.state = "ACTIVE" /\ srv.d.aead # None
       THEN /\ srv' = [srv EXCEPT !.pc = "up", !.d = SessionFromSeal(encodeSeal(sealFromDriver(@)))]
            /\ UNCHANGED eof
       ELSE srv' = [srv EXCEPT !.pc = "failed"] /\ ClosesSrv
    /\ UNCHANGED <<conf, cli, wire>>

-----------------------------------------------------------------------------
(* The data plane: sendData and recvData on either end, and Close.         *)
Sends(e, r) == [e EXCEPT !.d = r.d, !.out = @ + 1]
Payload(n) == [kind |-> "data", id |-> n, len |-> 0]

\* recvData: data is handed to the caller, everything else ends the session.
Takes(e, raw) ==
    LET h == DecodeAndHandle(e.d, raw)
    IN IF h.err = "ok" /\ raw.type = "Data"
       THEN [e EXCEPT !.d = h.d, !.in = Append(@, h.d.plaintext.id)]
       ELSE Fails(e, h)

CliSend ==
    /\ Up(cli) /\ cli.out < MaxData
    /\ LET r == EncodeFrame(cli.d, "Data", Payload(cli.out + 1))
       IN cli' = Sends(cli, r) /\ wire' = Put(wire, "c2s", r.f)
    /\ UNCHANGED <<conf, srv, eof>>

SrvSend ==
    /\ Up(srv) /\ srv.out < MaxData
    /\ LET r == EncodeFrame(srv.d, "Data", Payload(srv.out + 1))
       IN srv' = Sends(srv, r) /\ wire' = Put(wire, "s2c", r.f)
    /\ UNCHANGED <<conf, cli, eof>>

CliReceive ==
    /\ Up(cli) /\ Pending("s2c")
    /\ cli' = Takes(cli, Got("s2c")) /\ wire' = Rest("s2c")
    /\ eof' = [eof EXCEPT !.c2s = @ \/ Over(cli')]
    /\ UNCHANGED <<conf, srv>>

SrvReceive ==
    /\ Up(srv) /\ Pending("c2s")
    /\ srv' = Takes(srv, Got("c2s")) /\ wire' = Rest("c2s")
    /\ eof' = [eof EXCEPT !.s2c = @ \/ Over(srv')]
    /\ UNCHANGED <<conf, cli>>

\* Session.Close: a close frame while active, then the connection.
CliClose ==
    /\ Up(cli) /\ ~eof.c2s
    /\ LET r == EncodeFrame(cli.d, "Close", Empty)
       IN cli' = [cli EXCEPT !.pc = "closed", !.d = r.d] /\ wire' = Put(wire, "c2s", r.f)
    /\ ClosesCli /\ UNCHANGED <<conf, srv>>

SrvClose ==
    /\ Up(srv) /\ ~eof.s2c
    /\ LET r == EncodeFrame(srv.d, "Close", Empty)
       IN srv' = [srv EXCEPT !.pc = "closed", !.d = r.d] /\ wire' = Put(wire, "s2c", r.f)
    /\ ClosesSrv /\ UNCHANGED <<conf, cli>>

\* The connection breaks; what was on its way is lost from some point on.
Cut ==
    /\ MaxCuts > 0 /\ ~(eof.c2s /\ eof.s2c)
    /\ eof' = [c2s |-> TRUE, s2c |-> TRUE]
    /\ \E i \in 0..Len(wire.c2s), j \in 0..Len(wire.s2c) :
           wire' = [c2s |-> SubSeq(wire.c2s, 1, i), s2c |-> SubSeq(wire.s2c, 1, j)]
    /\ UNCHANGED <<conf, cli, srv>>

-----------------------------------------------------------------------------
Client == DialOffer \/ DialProof \/ DialActivate \/ CliReceive \/ CliEof
Server == ReadPeerPrologue \/ AcceptOffer \/ AcceptProof \/ AcceptArchive \/ AcceptActivate
          \/ Handover \/ SrvReceive \/ SrvEof
Finished == Over(cli) /\ Over(srv) /\ UNCHANGED vars

Next == Client \/ Server \/ CliSend \/ SrvSend \/ CliClose \/ SrvClose \/ Cut \/ Finished

\* Weak fairness of Client and Server, with what ENABLED amounts to for them spelled out: an end
\* that has not returned can move when it has something to read, or an end of file.
ClientCan == ~Over(cli) /\ (cli.pc = "dial" \/ Pending("s2c") \/ eof.s2c)
ServerCan == ~Over(srv) /\ (srv.pc = "seal" \/ Pending("c2s") \/ eof.c2s)
Fairness == /\ <>[]ClientCan => []<><<Client>>_vars
            /\ <>[]ServerCan => []<><<Server>>_vars

Spec == Init /\ [][Next]_vars /\ Fairness

-----------------------------------------------------------------------------
Ends == {"dial", "accept", "proof", "prologue", "offer", "archive", "activate", "seal", "up",
         "failed", "closed"}

\* The ends are at one of their reads, and what they count stays within its bounds.
TypeOK ==
    /\ cli.pc \in Ends /\ srv.pc \in Ends
    /\ \A e \in {cli, srv} : e.out \in 0..MaxData /\ e.d.s.received \in 0..MaxAccept
                             /\ e.d.s.received = Len(e.in)
    /\ eof \in [{"c2s", "s2c"} -> BOOLEAN]

\* A server that finished its handshake shares the traffic key, the version and the suite with
\* a client that finished too, and holds the key configured for the peer that named itself.
Agreement ==
    srv.pc \in {"seal", "up"} =>
        /\ cli.pc \in {"up", "closed", "failed"}
        /\ cli.d.aead = srv.d.aead /\ srv.d.aead # None
        /\ cli.d.s.selected = srv.d.s.selected /\ cli.d.s.suite = srv.d.s.suite
        /\ NotDowngraded(cli.d.s)
        /\ conf.root = Root(conf.peer)
        /\ DecodeRootMaterial(conf.blob).ring <=> conf.peer # NoPeer

\* While the connection holds, an end expects exactly the number of the first frame on its way
\* to it: no frame falls between the drivers, also not when net takes over from auth.
NumbersLineUp ==
    LET Frames(q) == Len(SelectSeq(q, IsFrame))
    IN /\ ~eof.c2s /\ ~Over(srv) /\ srv.pc \notin {"prologue", "offer"} =>
              cli.d.send = srv.d.recv + Frames(wire.c2s)
       /\ ~eof.s2c /\ ~Over(cli) => srv.d.send = cli.d.recv + Frames(wire.s2c)

\* What an end has taken is what the other sent, in order, nothing lost or doubled in between.
TakenInOrder ==
    /\ cli.in = [i \in 1..Len(cli.in) |-> i] /\ Len(cli.in) <= srv.out
    /\ srv.in = [i \in 1..Len(srv.in) |-> i] /\ Len(srv.in) <= cli.out

\* Each end keeps the promise of a session: phases in order, data in the active one only.  The
\* server's end is auth's driver up to the hand-over and net's after it.
CliLife == INSTANCE SessionLife WITH phase <- cli.d.s.state, taken <- cli.d.s.received
SrvLife == INSTANCE SessionLife WITH phase <- srv.d.s.state, taken <- srv.d.s.received
EndsKeepPromise == CliLife!Spec /\ SrvLife!Spec

\* No end waits for ever inside the handshake: it finishes, or learns that the other is gone.
HandshakeEnds == <>(\A e \in {cli, srv} : Up(e) \/ Over(e))
=============================================================================
