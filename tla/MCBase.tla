------------------------------- MODULE MCBase -------------------------------
(***************************************************************************)
(* The parts everything else stands on, one at a time: the journal, the    *)
(* bytes it is kept in, a synchronisation that is run until it is done,    *)
(* the handshake and data plane of a push connection, the protocol driver  *)
(* under an unreliable transport, the normal form of names and the         *)
(* resolution of paths.  A part that is not explored rests in a fixed      *)
(* state.                                                                  *)
(***************************************************************************)
EXTENDS Integers, TLC, Journal, Resolve

CONSTANTS MaxAccept, MaxBody, MaxOffset,
          Roots, PeerIDs, MaxData, MaxCuts,
          Lengths, MaxFrames,
          MaxRunes

VARIABLES part,
          cells, synced, cut, sw, written, sacked, medium, level,
          src, dst, disk, temps, snap, log, flushed, run, out, edited, bare, env,
          conf, cli, srv, wire, eof,
          tx, rx, keyed, sent, stage, took, handled,
          text

Offers == {<<3, 2>>, <<2>>}
Keyrings == {[p \in {"p1"} |-> "k1"]}

\* The paths, policies and tree of the path part: directories with one or two names
\* each, and a place outside.
Dir(v) == [type |-> "dir", volume |-> v]
Other(type) == [type |-> type, volume |-> 1]
MCObject == [root |-> Dir(1), d |-> Dir(1), e |-> Dir(1), mnt |-> Dir(2), f |-> Other("file"),
             g |-> Other("file"), link |-> Other("symlink"), fifo |-> Other("other")]
MCTree0 == (<<"root", "a">> :> "d" @@ <<"d", "b">> :> "f" @@ <<"e", "b">> :> "g"
            @@ <<"out", "w">> :> "e" @@ <<"out", "x">> :> "link" @@ <<"out", "y">> :> "mnt"
            @@ <<"out", "z">> :> "fifo" @@ <<"root", "b">> :> Nothing @@ <<"mnt", "b">> :> Nothing)
MCSlots == DOMAIN MCTree0

Comp(n) == [name |-> n, len |-> 1, form |-> "ok"]
Faults == {"empty", "long", "dot", "dotdot", "nul", "separator", "absolute", "not_utf8",
           "control", "not_nfc", "reserved"}

MCCalls == {<<>>, <<Comp("a")>>, <<Comp("b")>>, <<Comp("a"), Comp("b")>>,
          <<Comp("a"), Comp("b"), Comp("b")>>, <<Comp("b"), Comp("b"), Comp("b"), Comp("b")>>,
          <<[Comp("a") EXCEPT !.len = MaxPathBytes], Comp("b")>>}
         \cup {<<Comp("a"), [Comp("b") EXCEPT !.form = f]>> : f \in Faults}

Opts0 == [volume |-> 1, allowed |-> {}, hardLinks |-> FALSE, requireDir |-> FALSE,
          expect |-> "unknown", winReserved |-> TRUE]
MCOptsOf == {Opts0, [Opts0 EXCEPT !.allowed = {2}], [Opts0 EXCEPT !.volume = 2],
           [Opts0 EXCEPT !.volume = 0], [Opts0 EXCEPT !.hardLinks = TRUE],
           [Opts0 EXCEPT !.requireDir = TRUE], [Opts0 EXCEPT !.expect = "file"],
           [Opts0 EXCEPT !.winReserved = FALSE]}

\* The bytes of records of the minimum and of the maximum length: under faults alone, and
\* with the medium's own, rot and holes after a power loss.
ScanSize == [small |-> 1, large |-> 2]
Intact == [faults |-> 3, rot |-> 0, holes |-> FALSE]
Decaying == [faults |-> 1, rot |-> 2, holes |-> TRUE]

\* A directory with a file in it is synchronised to any destination; nobody edits, and two
\* faults end.
SyncPaths == <<"d", "d/f">>
SyncParent == [p \in {"d", "d/f"} |-> IF p = "d" THEN "." ELSE "d"]
SyncSize == [c1 |-> 1, c2 |-> 2]
Quiet == [sources |-> {"s"}, paths |-> {"d", "d/f"}, limit |-> 18, srcEdits |-> 0,
          dstEdits |-> 0, faults |-> 2, kinds |-> {"kill", "error"}, syncDirFails |-> FALSE]

S == INSTANCE MCJournalScan
       WITH Data <- DOMAIN ScanSize, Size <- ScanSize, MaxRecord <- 5, MaxCells <- 13,
            Scenarios <- {Intact, Decaying},
            dropped <- cut, w <- sw, acked <- sacked, env <- medium
L == INSTANCE LocalSync
       WITH Content <- DOMAIN SyncSize, Size <- SyncSize, PathSeq <- SyncPaths,
            Parent <- SyncParent, Root <- ".", Scenarios <- {Quiet}, durable <- flushed
H == INSTANCE Handshake
V == INSTANCE Conversation
N == INSTANCE NameForm

sVars == <<cells, synced, cut, sw, written, sacked, medium, level>>
lVars == <<src, dst, disk, temps, snap, log, flushed, run, out, edited, bare, env>>
hVars == <<conf, cli, srv, wire, eof>>
vVars == <<tx, rx, keyed, sent, stage, took, handled>>
baseVars == <<part, vars, sVars, lVars, hVars, vVars, text, resolveVars>>

NotConnected ==
  /\ conf = [root |-> "k1", peer |-> "", offer |-> <<2>>, viaAuth |-> FALSE,
             blob |-> [magic |-> FALSE, root |-> "k1"]]
  /\ cli = H!End0("closed", H!NewDriver(<<>>, "sid", H!None, TRUE)) /\ srv = cli
  /\ wire = [c2s |-> <<>>, s2c |-> <<>>] /\ eof = [c2s |-> TRUE, s2c |-> TRUE]

BaseInit ==
  /\ part \in {"journal", "bytes", "sync", "handshake", "driver", "names", "paths"}
  /\ Init
  /\ S!MCInit /\ (part # "bytes" => medium = Intact)
  /\ L!Init
  /\ IF part = "sync" THEN src["s"]["d/f"] = "c1"
     ELSE \A p \in L!Paths : src["s"][p] = "absent" /\ dst[p] = "absent"
  /\ IF part = "handshake" THEN H!Init ELSE NotConnected
  /\ V!Init /\ (part # "driver" => ~ keyed)
  /\ N!NameInit
  /\ ResolveInit /\ (Len(comps) # 2 => opts = Opts0) /\ (part # "paths" => comps = <<>>)

RestOf(p) ==
  /\ p # "journal" => UNCHANGED vars
  /\ p # "bytes" => UNCHANGED sVars
  /\ p # "sync" => UNCHANGED lVars
  /\ p # "handshake" => UNCHANGED hVars
  /\ p # "driver" => UNCHANGED vVars
  /\ p # "names" => UNCHANGED text
  /\ p # "paths" => UNCHANGED resolveVars

BaseNext ==
  /\ \/ part = "journal" /\ Next
     \/ part = "bytes" /\ S!MCNext
     \/ part = "sync" /\ L!Next
     \/ part = "handshake" /\ H!Next
     \/ part = "driver" /\ V!Next
     \/ part = "names" /\ N!NameNext
     \/ part = "paths" /\ ResolveNext
  /\ RestOf(part)
  /\ UNCHANGED part

\* A started Sync goes on unless a fault stops it, and its operator runs Sync again after it
\* returned or died.
SyncFairness ==
  /\ WF_lVars(part = "sync" /\ L!Step)
  /\ \A s \in {"s"} : WF_lVars(part = "sync" /\ L!Start(s))

BaseSpec == BaseInit /\ [][BaseNext]_baseVars /\ H!Fairness /\ SyncFairness

-----------------------------------------------------------------------------
\* Reader and verifier agree on every segment, damaged ones included, and deliver only what
\* was written, each record at its place.
ReadersAgree == part = "bytes" => S!ReadersAgree

\* The bytes of a segment behave as the journal of records, on a medium that keeps what it
\* was given.
ImplementsJournal == S!ImplementsJournal

\* Whoever keeps running Sync gets everything across in the end.
EventuallySynced == L!EventuallySynced

\* The two ends of a push connection agree: on key, version and suite when the server
\* finished, on the number of the next frame while the connection holds (over the sealed
\* hand-over from auth to net too), and on the data taken, in order and once.
EndsAgree ==
  part = "handshake" => H!TypeOK /\ H!Agreement /\ H!NumbersLineUp /\ H!TakenInOrder

\* Each end goes through the phases of a session in order, and takes data in the active one only.
EndsKeepPromise == H!EndsKeepPromise

\* No end waits for ever inside the handshake.
HandshakeEnds == H!HandshakeEnds

\* Under frames that are late, repeated or lost the driver handles each number once and in
\* order, accepts the content as a prefix of what was sent, and keeps Session.Invariants.
DriverIsSound ==
  part = "driver" => V!HandledOnce /\ V!ContentIsPrefix /\ V!SessionSound

\* isNFC accepts every normal name and every normalised one, and decides exactly among names
\* without precomposed runes.
NamesJudged ==
  part = "names" => N!NameTypeOK /\ N!NormalIsAccepted /\ N!DecomposedIsExact
=============================================================================
