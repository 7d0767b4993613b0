------------------------------- MODULE Driver -------------------------------
(***************************************************************************)
(* internal/protocol: frames, and the driver that maps received frames to  *)
(* the methods of its session and numbers the frames it sends.  Send and   *)
(* receive numbers are independent; a frame is handled only under the      *)
(* receive number the driver expects next, which advances only when the    *)
(* frame was handled without error.                                        *)
(*                                                                         *)
(* A frame is a record; its authenticator is the key it was computed with  *)
(* and None when it has none.  Byte layout is left out, the limits that    *)
(* Encode and Decode enforce on it are not.                                *)
(***************************************************************************)
EXTENDS Session

CONSTANTS MaxBody,       \* MaxBodyBytes: longest frame body
          MaxOffset      \* largest chunk offset (2^64 - 1)

FrameTypes == {"NegotiateOffer", "NegotiateAccept", "PeerAuth", "ArchiveAuth", "Activate",
               "Data", "Close", "Failure"}
known(type) == type \in FrameTypes

maxNegotiate == 8

\* Lengths are counted in units; a chunk's header and a seal's tag take one.
Unit == 1
Empty == [kind |-> "empty"]
Size(body) == IF body.kind \in {"data", "chunk", "sealed"} THEN body.len ELSE 0
MaxDataChunk == MaxBody - Unit

\* What a codec returns: its value, or nothing and an error.
Value(x) == [ok |-> TRUE, v |-> x]
Bad == [ok |-> FALSE]

\* A driver's method: the driver it leaves, the frame it returns, its error.
Done(d) == [d |-> d, f |-> None, err |-> "ok"]
Returns(d, f) == [d |-> d, f |-> f, err |-> "ok"]
Refuse(d, code) == [d |-> d, f |-> None, err |-> code]
On(d, r) == [d |-> [d EXCEPT !.s = r.s], f |-> None, err |-> r.err]

-----------------------------------------------------------------------------
(* Bodies.                                                                 *)
EncodeNegotiateOfferBody(vers, suites) ==
    IF Len(vers) \in 1..maxNegotiate /\ Len(suites) <= maxNegotiate /\ "" \notin ToSet(suites)
    THEN Value([kind |-> "offer", vers |-> vers, suites |-> suites]) ELSE Bad

ParseNegotiateOfferBody(body) ==
    IF body.kind = "offer" /\ Len(body.vers) \in 1..maxNegotiate
       /\ Len(body.suites) <= maxNegotiate /\ "" \notin ToSet(body.suites)
    THEN Value(body) ELSE Bad

EncodeNegotiateAcceptBody(vers, suite) ==
    IF vers # 0 THEN Value([kind |-> "accept", vers |-> vers, suite |-> suite]) ELSE Bad

ParseNegotiateAcceptBody(body) ==
    IF body.kind = "accept" /\ body.vers # 0 THEN Value(body) ELSE Bad

EncodePeerAuthBody(dir, proof) == [kind |-> "peerauth", dir |-> dir, proof |-> proof]

ParsePeerAuthBody(body) ==
    IF body.kind = "peerauth" /\ body.dir \in {"i2r", "r2i"} THEN Value(body) ELSE Bad

\* A chunk is an offset and a piece of content; offset and end both fit.
EncodeDataChunkBody(offset, data) ==
    IF data.len > MaxDataChunk \/ offset > MaxOffset - data.len THEN Bad
    ELSE Value([kind |-> "chunk", off |-> offset, data |-> data, len |-> data.len + Unit])

ParseDataChunkBody(body) ==
    IF body.kind # "chunk" THEN Bad
    ELSE IF body.data.len > MaxDataChunk \/ body.off > MaxOffset - body.data.len THEN Bad
    ELSE Value(body)

-----------------------------------------------------------------------------
(* Frames.                                                                 *)
Encode(f, macKey) ==
    IF known(f.type) /\ Size(f.body) <= MaxBody /\ (f.flagged => macKey # None)
    THEN Value([f EXCEPT !.mac = macKey, !.flagged = f.flagged \/ macKey # None]) ELSE Bad

Decode(raw, macKey, requireMAC) ==
    LET needMAC == requireMAC \/ raw.flagged \/ macKey # None
    IN IF ~known(raw.type) \/ Size(raw.body) > MaxBody THEN Bad
       ELSE IF needMAC /\ (macKey = None \/ raw.mac # macKey) THEN Bad
       ELSE Value(raw)

\* AEAD: a sealed body opens under its key, number and associated data only.
Seal(d, seq, body) ==
    [kind |-> "sealed", key |-> d.aead, seq |-> seq, sid |-> d.sid, pt |-> body,
     len |-> Size(body) + Unit]
Opens(d, f) ==
    f.body.kind = "sealed" /\ f.body.key = d.aead /\ f.body.seq = f.seq /\ f.body.sid = d.sid

-----------------------------------------------------------------------------
NewDriver(offered, sid, macKey, requireMAC) ==
    [s |-> New(offered), sid |-> sid, send |-> 1, recv |-> 1, mac |-> macKey, aead |-> None,
     authKey |-> None, archiveKey |-> None, authDir |-> "i2r", requireMAC |-> requireMAC,
     plaintext |-> Empty, track |-> FALSE, nextData |-> 0, nextSend |-> 0]

NewDriverWithSuites(offered, suites, sid, macKey, requireMAC) ==
    [NewDriver(offered, sid, macKey, requireMAC)
        EXCEPT !.s = [NewWithSuites(offered, suites) EXCEPT !.bound = TRUE]]

SetAEADKey(d, key) == [d EXCEPT !.aead = key]

\* Only an ACTIVE session with a transcript and a suite has a traffic key.
InstallTrafficKey(d, root) ==
    IF d.s.state # "ACTIVE" THEN Refuse(d, "state")
    ELSE IF ~d.s.bound THEN Refuse(d, "transcript")
    ELSE IF d.s.suite = "" THEN Refuse(d, "suite")
    ELSE Done(SetAEADKey(d, TrafficKey(root, Digest(d.s), d.sid, d.s.suite)))

-----------------------------------------------------------------------------
(* Handle, by the type of the frame.                                       *)

\* An offer is acted on in NEW only, and otherwise counted and ignored.
HandleOffer(d, body) ==
    LET p     == ParseNegotiateOfferBody(body)
        asked == [d.s EXCEPT !.offered = p.v.vers,
                             !.suites = IF p.v.suites # <<>> THEN p.v.suites ELSE @]
    IN IF d.s.state # "NEW" THEN Done(d)
       ELSE IF body = Empty THEN On(d, Negotiate(d.s))
       ELSE IF ~p.ok THEN Refuse(d, "negotiate")
       ELSE On(d, Negotiate(asked))

HandleAccept(d, body) ==
    LET p == ParseNegotiateAcceptBody(body)
        n == IF d.s.state = "NEW" THEN Negotiate(d.s) ELSE Ok(d.s)
    IN IF body # Empty /\ ~p.ok THEN Refuse(d, "negotiate")
       ELSE IF n.err # "ok" \/ body = Empty THEN On(d, n)
       ELSE On(d, ConfirmAccept(n.s, p.v.vers, p.v.suite))

HandlePeerAuth(d, body) ==
    LET p == ParsePeerAuthBody(body)
    IN IF d.authKey = None THEN On(d, Authenticate(d.s))
       ELSE IF ~p.ok THEN Refuse(d, "auth")
       ELSE On(d, AuthenticateProof(d.s, d.authKey, d.sid, p.v.dir, p.v.proof))

HandleArchiveAuth(d, body) ==
    IF d.archiveKey = None THEN On(d, AuthorizeArchive(d.s))
    ELSE IF body.kind # "proof" THEN On(d, AuthorizeArchiveProof(d.s, d.archiveKey, d.sid, None))
    ELSE On(d, AuthorizeArchiveProof(d.s, d.archiveKey, d.sid, body.proof))

\* Mutant of HandleData: LastPlaintext keeps what an earlier chunk left in it.
HandleDataStale(d, f) ==
    LET body == IF d.aead # None THEN f.body.pt ELSE f.body
        p    == ParseDataChunkBody(body)
    IN IF d.aead # None /\ ~Opens(d, f) THEN Refuse(d, "aead")
       ELSE IF ~d.track THEN On([d EXCEPT !.plaintext = body], AcceptNext(d.s))
       ELSE IF ~p.ok \/ p.v.off # d.nextData THEN Refuse(d, "chunk")
       ELSE On([d EXCEPT !.nextData = p.v.off + p.v.data.len], AcceptNext(d.s))

\* The plaintext and the next offset are stored before the session has its say.
HandleData(d, f) ==
    LET body == IF d.aead # None THEN f.body.pt ELSE f.body
        p    == ParseDataChunkBody(body)
        took == IF d.track
                THEN [d EXCEPT !.plaintext = p.v.data, !.nextData = p.v.off + p.v.data.len]
                ELSE [d EXCEPT !.plaintext = body]
    IN IF d.aead # None /\ ~Opens(d, f) THEN Refuse(d, "aead")
       ELSE IF d.track /\ (~p.ok \/ p.v.off # d.nextData) THEN Refuse(d, "chunk")
       ELSE On(took, AcceptNext(d.s))

\* A failure frame fails the session and is an error of its own.
HandleFailure(d) == [Refuse(d, "peer") EXCEPT !.d.s.state = "FAILED"]

\* The frame's effect, by its type.
Dispatch(d, f) ==
    CASE f.type = "NegotiateOffer"  -> HandleOffer(d, f.body)
      [] f.type = "NegotiateAccept" -> HandleAccept(d, f.body)
      [] f.type = "PeerAuth"        -> HandlePeerAuth(d, f.body)
      [] f.type = "ArchiveAuth"     -> HandleArchiveAuth(d, f.body)
      [] f.type = "Activate"        -> On(d, Activate(d.s))
      [] f.type = "Data"            -> HandleData(d, f)
      [] f.type = "Close"           -> On(d, Close(d.s))
      [] f.type = "Failure"         -> HandleFailure(d)

Handle(d, f) ==
    LET r == Dispatch(d, f)
    IN IF f.sid # d.sid THEN Refuse(d, "session")
       ELSE IF f.seq # d.recv THEN Refuse(d, "sequence")
       ELSE IF ~known(f.type) THEN Refuse(d, "critical")
       ELSE IF r.err = "ok" THEN [r EXCEPT !.d.recv = @ + 1]
       ELSE r

DecodeAndHandle(d, raw) ==
    IF Decode(raw, d.mac, d.requireMAC).ok THEN Handle(d, raw) ELSE Refuse(d, "decode")

-----------------------------------------------------------------------------
(* Sending.                                                                *)
EncodeFrame(d, type, body) ==
    LET f == [type |-> type, sid |-> d.sid, seq |-> d.send, mac |-> None,
              flagged |-> d.requireMAC \/ d.mac # None,
              body |-> IF type = "Data" /\ d.aead # None THEN Seal(d, d.send, body) ELSE body]
        e == Encode(f, d.mac)
    IN IF ~e.ok THEN Refuse(d, "encode") ELSE Returns([d EXCEPT !.send = @ + 1], e.v)

EncodeNegotiateOffer(d, vers) ==
    LET b == EncodeNegotiateOfferBody(vers, IF d.s.suites = <<>> THEN LocalSuites ELSE d.s.suites)
    IN IF ~b.ok THEN Refuse(d, "negotiate") ELSE EncodeFrame(d, "NegotiateOffer", b.v)

EncodeNegotiateAccept(d) ==
    LET n == IF d.s.state = "NEW" THEN Negotiate(d.s) ELSE Ok(d.s)
        b == EncodeNegotiateAcceptBody(n.s.selected, n.s.suite)
    IN IF n.err # "ok" THEN On(d, n)
       ELSE IF n.s.state # "NEGOTIATED" THEN Refuse(d, "state")
       ELSE IF ~b.ok THEN Refuse(d, "negotiate")
       ELSE EncodeFrame([d EXCEPT !.s = n.s], "NegotiateAccept", b.v)

EncodeDataChunk(d, data) ==
    LET b == EncodeDataChunkBody(d.nextSend, data)
        e == EncodeFrame(d, "Data", b.v)
    IN IF ~b.ok THEN Refuse(d, "chunk")
       ELSE IF e.err # "ok" THEN e
       ELSE [e EXCEPT !.d.nextSend = @ + data.len]

\* The sender applies its own proof, so that both transcripts stay equal.
EncodePeerAuth(d) ==
    LET proof == MakeAuthProof(d.s, d.authKey, d.sid, d.authDir)
        e     == EncodeFrame(d, "PeerAuth", EncodePeerAuthBody(d.authDir, proof))
        own   == AuthenticateProof(d.s, d.authKey, d.sid, d.authDir, proof)
    IN IF d.authKey = None \/ proof = None THEN Refuse(d, "auth")
       ELSE [e EXCEPT !.d.s = own.s, !.err = own.err]

EncodeArchiveAuth(d) ==
    LET proof == MakeArchiveProof(d.s, d.archiveKey, d.sid)
        e     == EncodeFrame(d, "ArchiveAuth", [kind |-> "proof", proof |-> proof])
        own   == AuthorizeArchiveProof(d.s, d.archiveKey, d.sid, proof)
    IN IF d.archiveKey = None \/ proof = None THEN Refuse(d, "archive")
       ELSE [e EXCEPT !.d.s = own.s, !.err = own.err]
=============================================================================
