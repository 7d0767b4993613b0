------------------------------ MODULE Session ------------------------------
(***************************************************************************)
(* internal/session and the internal/crypto helpers it calls: one end's    *)
(* negotiation, authentication and acceptance record, and the methods that *)
(* change it.  A method returns the session it leaves behind with "ok" or  *)
(* the code of its error; a failing method may still have changed the      *)
(* session, which is why both are returned.                                *)
(*                                                                         *)
(* A digest is the transcript it is taken of, a derived key or a proof the *)
(* record of what it is derived from: equal exactly when the inputs are.   *)
(***************************************************************************)
EXTENDS Integers, Sequences, FiniteSetsExt, SequencesExt

CONSTANT MaxAccept      \* Session.MaxAccept: data messages one session accepts (2^20)

LocalAllowed == <<2, 3>>
SuiteIDAEAD == "chacha20poly1305-v1"
LocalSuites == <<SuiteIDAEAD>>

\* No transcript, digest, key or proof.
None == [none |-> TRUE]

Ok(s) == [s |-> s, err |-> "ok"]
Err(s, code) == [s |-> s, err |-> code]
Failed(s, code) == Err([s EXCEPT !.state = "FAILED"], code)

New(offered) ==
    [state |-> "NEW", offered |-> offered, selected |-> 0, suites |-> <<>>, suite |-> "",
     requireSuite |-> FALSE, i2r |-> FALSE, r2i |-> FALSE, peer |-> FALSE, archive |-> FALSE,
     received |-> 0, mutated |-> FALSE, transcript |-> <<>>, bound |-> FALSE,
     authBase |-> None, archiveBase |-> None]

NewWithSuites(offered, suites) ==
    [New(offered) EXCEPT !.suites = suites, !.requireSuite = TRUE]

highest(c) == IF c = <<>> THEN 0 ELSE Max(ToSet(c))
candidates(offered) == SelectSeq(offered, LAMBDA v : v \in ToSet(LocalAllowed))
NotDowngraded(s) == LET h == highest(candidates(s.offered)) IN h # 0 /\ s.selected = h

\* The first of this end's suites the peer offers too.
SelectSuite(local, offered) ==
    LET common == SelectSeq(local, LAMBDA x : x # "" /\ x \in ToSet(offered))
    IN IF common = <<>> THEN "" ELSE Head(common)

\* crypto.Transcript: labelled fields, appended when the session keeps one.
bind(s, label, data) ==
    IF s.bound THEN [s EXCEPT !.transcript = Append(@, <<label, data>>)] ELSE s

Digest(s) == [digest |-> s.transcript]

freezeAuthBase(s) == IF s.bound THEN [s EXCEPT !.authBase = Digest(s)] ELSE s
freezeArchiveBase(s) == IF s.bound THEN [s EXCEPT !.archiveBase = Digest(s)] ELSE s

\* crypto: what keys, proofs and tags are functions of.
PeerAuthKey(root, sid) == [use |-> "peer-auth", root |-> root, sid |-> sid]
ArchiveAuthKey(root, sid) == [use |-> "archive-auth", root |-> root, sid |-> sid]
TrafficKey(root, digest, sid, suite) ==
    [use |-> "aead", root |-> root, digest |-> digest, sid |-> sid, suite |-> suite]
PeerAuthProof(key, digest, sid, dir) ==
    [key |-> key, digest |-> digest, sid |-> sid, dir |-> dir]
ArchiveAuthProof(key, digest, sid) == [key |-> key, digest |-> digest, sid |-> sid]

-----------------------------------------------------------------------------
Negotiate(s) ==
    LET h     == highest(candidates(s.offered))
        suite == SelectSuite(LocalSuites, s.suites)
        asked == s.requireSuite \/ s.suites # <<>>
        named == bind(bind(bind([s EXCEPT !.selected = h, !.state = "NEGOTIATED"],
                                "negotiate", h),
                           "offered", s.offered),
                      "local_allowed", LocalAllowed)
    IN IF s.state # "NEW" THEN Err(s, "state")
       ELSE IF h = 0 THEN Failed(s, "version")
       ELSE IF ~asked THEN Ok(freezeAuthBase(named))
       ELSE IF suite = "" THEN Failed(named, "suite")
       ELSE Ok(freezeAuthBase(bind([named EXCEPT !.suite = suite], "suite", suite)))

\* The peer's accept must name what this end selected by itself.
ConfirmAccept(s, vers, suite) ==
    IF s.state # "NEGOTIATED" THEN Err(s, "state")
    ELSE IF s.selected # vers THEN Failed(s, "version")
    ELSE IF s.suite # suite THEN Failed(s, "suite")
    ELSE Ok(s)

MakeAuthProof(s, key, sid, dir) ==
    IF s.state = "NEGOTIATED" /\ s.authBase # None /\ NotDowngraded(s)
    THEN PeerAuthProof(key, s.authBase, sid, dir) ELSE None

\* Both directions at once, without a proof.
Authenticate(s) ==
    IF s.state # "NEGOTIATED" THEN Err(s, "state")
    ELSE IF ~NotDowngraded(s) THEN Failed(s, "downgrade")
    ELSE Ok(freezeArchiveBase(bind([s EXCEPT !.i2r = TRUE, !.r2i = TRUE, !.peer = TRUE,
                                             !.state = "PEER_AUTHENTICATED"], "peer_auth", 1)))

\* One direction's proof, over the digest frozen by Negotiate.
AuthenticateProof(s, key, sid, dir, proof) ==
    LET i2r  == s.i2r \/ dir = "i2r"
        r2i  == s.r2i \/ dir = "r2i"
        seen == bind(bind([s EXCEPT !.i2r = i2r, !.r2i = r2i], "peer_auth", proof),
                     "peer_auth_dir", dir)
        again == (dir = "i2r" /\ s.i2r) \/ (dir = "r2i" /\ s.r2i)
    IN IF s.state # "NEGOTIATED" THEN Err(s, "state")
       ELSE IF s.authBase = None THEN Err(s, "transcript")
       ELSE IF ~NotDowngraded(s) THEN Failed(s, "downgrade")
       ELSE IF again \/ proof # PeerAuthProof(key, s.authBase, sid, dir) THEN Failed(s, "auth")
       ELSE IF ~(i2r /\ r2i) THEN Ok(seen)
       ELSE Ok(freezeArchiveBase([seen EXCEPT !.peer = TRUE, !.state = "PEER_AUTHENTICATED"]))

MakeArchiveProof(s, key, sid) ==
    IF s.state = "PEER_AUTHENTICATED" /\ s.peer /\ s.archiveBase # None
    THEN ArchiveAuthProof(key, s.archiveBase, sid) ELSE None

AuthorizeArchive(s) ==
    IF s.state # "PEER_AUTHENTICATED" \/ ~s.peer THEN Err(s, "state")
    ELSE Ok(bind([s EXCEPT !.archive = TRUE, !.state = "ARCHIVE_AUTHORIZED"], "archive_auth", 1))

\* A proof over the digest frozen when both directions had been proved.
AuthorizeArchiveProof(s, key, sid, proof) ==
    IF s.state # "PEER_AUTHENTICATED" \/ ~s.peer THEN Err(s, "state")
    ELSE IF s.archiveBase = None THEN Err(s, "transcript")
    ELSE IF proof # ArchiveAuthProof(key, s.archiveBase, sid) THEN Failed(s, "archive")
    ELSE Ok([bind(s, "archive_auth", proof) EXCEPT !.archive = TRUE,
                                                   !.state = "ARCHIVE_AUTHORIZED"])

Activate(s) ==
    LET on == bind([s EXCEPT !.state = "ACTIVE"], "activate", s.selected)
    IN IF s.state # "ARCHIVE_AUTHORIZED" THEN Err(s, "state")
       ELSE IF ~s.peer \/ ~s.archive THEN Failed(s, "auth")
       ELSE IF ~NotDowngraded(s) THEN Failed(s, "downgrade")
       ELSE IF s.suite # "" THEN Ok(bind(on, "suite_active", s.suite))
       ELSE Ok(on)

AcceptNext(s) ==
    IF s.state # "ACTIVE" THEN Err(s, "state")
    ELSE IF s.received >= MaxAccept THEN Err(s, "limit")
    ELSE Ok([s EXCEPT !.received = @ + 1, !.mutated = TRUE])

RejectReplay(s) == IF s.state # "ACTIVE" THEN Err(s, "state") ELSE Ok([s EXCEPT !.state = "FAILED"])

Close(s) == IF s.state # "ACTIVE" THEN Err(s, "state") ELSE Ok([s EXCEPT !.state = "CLOSED"])
=============================================================================
