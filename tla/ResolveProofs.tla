---------------------------- MODULE ResolveProofs ---------------------------
(***************************************************************************)
(* Proofs about Resolve: PathsResolved holds for every tree, every path,   *)
(* every policy and any number of changes made by others.                  *)
(***************************************************************************)
EXTENDS Resolve, TLAPS, FiniteSetTheorems

Walking == rpc \in {"open", "look", "again"}

\* What checkOpened demands of an object, the last or not, in terms of the object
\* and the number of names it had when it was looked at.
Fits(o, links, last) ==
  /\ ObjType(o) \in {"dir", "file"}
  /\ ~ last \/ opts.requireDir => ObjType(o) = "dir"
  /\ last /\ opts.expect # "unknown" => ObjType(o) = opts.expect
  /\ opts.hardLinks \/ ObjType(o) = "dir" \/ links <= 1
  /\ volumeAllowed(ObjVolume(o))

\* The call, the tree and the chain.
Typed ==
  /\ comps \in Seq([name : STRING, len : Nat, form : STRING])
  /\ tree \in [Slots -> DOMAIN Object \cup {Nothing}]
  /\ rpc \in {"call", "open", "look", "again", "done", "refused", "closed"}
  /\ chain \in Seq([obj : DOMAIN Object \cup {Nothing}, links : Nat])
  /\ changes \in 0 .. MaxChanges

\* One component after the other: a descriptor and a link of the chain for each
\* that is behind, a descriptor for the one being looked at.
InTurn ==
  /\ rpc = "call" => idx = 1 /\ chain = <<>> /\ fdOpen = {}
  /\ Walking =>
       /\ idx \in 1 .. Len(comps) /\ Len(comps) <= MaxComponents /\ Len(chain) = idx - 1
       /\ fdOpen = IF rpc = "open" THEN 1 .. (idx - 1) ELSE 1 .. idx
  /\ rpc \in {"done", "closed"} =>
       /\ Len(comps) <= MaxComponents /\ idx = Len(comps) + 1 /\ Len(chain) = Len(comps)
       /\ fdOpen = IF rpc = "done" THEN 1 .. Len(comps) ELSE {}
  /\ rpc = "refused" => idx \in 1 .. (MaxComponents + 1) /\ chain = <<>> /\ fdOpen = {}

\* What is kept, and what is about to be, satisfied the policy when it was looked at.
Kept ==
  /\ Walking \/ rpc = "done" =>
       \A i \in DOMAIN chain : Fits(chain[i].obj, chain[i].links, i = Len(comps))
  /\ rpc \in {"look", "again"} => cur \in DOMAIN Object \cup {Nothing}
  /\ rpc = "again" => /\ info.id = cur /\ Fits(cur, info.links, idx = Len(comps))

ResolveInv == Typed /\ InTurn /\ Kept

-----------------------------------------------------------------------------
\* The facts of an object fit the policy exactly if the object and the number of its
\* names do (checkOpened, resolve.go).
LEMMA CheckedFits ==
  ASSUME NEW o, NEW last \in BOOLEAN
  PROVE  checkOpened(Facts(o), last) <=> Fits(o, Facts(o).links, last)
BY Zenon DEF checkOpened, Facts, Fits

\* The number of names is a number.
LEMMA LinksNat ==
  ASSUME NEW o PROVE Facts(o).links \in Nat
<1> DEFINE S == {s \in Slots : tree[s] = o}
<1>1. IsFiniteSet(S)
  BY ResolveAssumption, FS_Subset
<1>2. Cardinality(S) \in Nat
  BY <1>1, FS_CardinalityType
<1> QED
  BY <1>2, Zenon DEF Facts

\* The bounds are numbers.
LEMMA ResolveBounds == MaxComponents \in Nat /\ MaxChanges \in Nat
BY ResolveAssumption, Zenon

\* The invariant holds when Resolve is called.
LEMMA ResolveInitInv == ResolveInit => ResolveInv
<1> SUFFICES ASSUME ResolveInit PROVE ResolveInv
  OBVIOUS
<1>1. comps \in Seq([name : STRING, len : Nat, form : STRING])
  BY ResolveAssumption, Zenon DEF ResolveInit
<1>2. Typed
  BY <1>1, ResolveAssumption, ResolveBounds DEF ResolveInit, Typed, Nothing
<1> QED
  BY <1>2, Zenon DEF ResolveInit, ResolveInv, InTurn, Kept, Walking

\* Giving up closes what was opened: the chain, and the file that is not part of it yet.
LEMMA RefuseStep ==
  ASSUME ResolveInv, NEW own, Refuse(own),
         \/ rpc \in {"call", "open"} /\ own = {}
         \/ rpc \in {"look", "again"} /\ own = {idx}
  PROVE  ResolveInv'
<1>1. Typed'
  BY DEF Refuse, ResolveInv, Typed
<1>2. idx \in 1 .. (MaxComponents + 1)
  BY ResolveBounds, SMTT(60) DEF ResolveInv, InTurn, Typed, Walking
<1>3. fdOpen' = {}
  <2>1. DOMAIN chain = 1 .. Len(chain) /\ Len(chain) \in Nat /\ Len(comps) \in Nat
    BY DEF ResolveInv, Typed
  <2>2. fdOpen' = fdOpen \ (DOMAIN chain \cup own)
    BY DEF Refuse
  <2>3. CASE rpc = "call"
    BY <2>2, <2>3 DEF ResolveInv, InTurn
  <2>4. CASE rpc = "open"
    BY <2>1, <2>2, <2>4 DEF ResolveInv, InTurn, Walking
  <2>5. CASE rpc \in {"look", "again"}
    <3>1. idx \in 1 .. Len(comps) /\ Len(chain) = idx - 1 /\ fdOpen = 1 .. idx /\ own = {idx}
      BY <2>5 DEF ResolveInv, InTurn, Walking
    <3> QED
      BY <2>1, <2>2, <3>1
  <2> QED
    BY <2>3, <2>4, <2>5
<1> QED
  BY <1>1, <1>2, <1>3 DEF Refuse, ResolveInv, InTurn, Kept, Walking

\* Every step keeps the invariant.
LEMMA ResolveStep ==
  ASSUME ResolveInv, ResolveNext PROVE ResolveInv'
<1> USE DEF ResolveInv
<1>1. CASE Validate
  <2>1. CASE Refuse({})
    BY <1>1, <2>1, RefuseStep DEF Validate
  <2>2. CASE ~Refuse({})
    <3>1. /\ ValidateComponents(comps) /\ rpc = "call" /\ rpc' = "open"
          /\ UNCHANGED <<comps, opts, tree, idx, cur, info, chain, fdOpen, changes>>
      BY <1>1, <2>2, Zenon DEF Validate
    <3>2. comps # <<>> /\ Len(comps) <= MaxComponents
      BY <3>1, Zenon DEF ValidateComponents
    <3>3. Typed' /\ InTurn'
      BY <3>1, <3>2 DEF Typed, InTurn, Walking
    <3> QED
      BY <3>1, <3>3 DEF InTurn, Kept, Walking
  <2> QED
    BY <2>1, <2>2
<1>2. CASE OpenNext
  <2>1. CASE Refuse({})
    BY <1>2, <2>1, RefuseStep, Zenon DEF OpenNext, Walking
  <2>2. CASE ~Refuse({})
    <3>1. /\ rpc = "open" /\ rpc' = "look" /\ cur' = Found /\ fdOpen' = fdOpen \cup {idx}
          /\ UNCHANGED <<comps, opts, tree, idx, info, chain, changes>>
      BY <1>2, <2>2 DEF OpenNext
    <3>2. cur' \in DOMAIN Object \cup {Nothing}
      BY <3>1 DEF Found, Typed
    <3>3. Typed' /\ InTurn'
      BY <3>1 DEF Typed, InTurn, Walking
    <3>4. \A o, l, b : Fits(o, l, b)' <=> Fits(o, l, b)
      BY <3>1 DEF Fits, volumeAllowed
    <3> QED
      BY <3>1, <3>2, <3>3, <3>4 DEF Kept, Walking
  <2> QED
    BY <2>1, <2>2, Zenon
<1>3. CASE Look
  <2>1. CASE Refuse({idx})
    BY <1>3, <2>1, RefuseStep DEF Look, Walking
  <2>2. CASE ~Refuse({idx})
    <3>1. /\ rpc = "look" /\ rpc' = "again" /\ checkOpened(Facts(cur), idx = Len(comps))
          /\ info' = Facts(cur)
          /\ UNCHANGED <<comps, opts, tree, idx, cur, chain, fdOpen, changes>>
      BY <1>3, <2>2 DEF Look
    <3>2. info'.id = cur /\ Fits(cur, info'.links, idx = Len(comps))
      BY <3>1, CheckedFits, ZenonT(60) DEF Facts
    <3>3. Typed' /\ InTurn'
      BY <3>1, Zenon DEF Typed, InTurn, Walking
    <3>4. \A o, l, b : Fits(o, l, b)' <=> Fits(o, l, b)
      BY <3>1 DEF Fits, volumeAllowed
    <3> QED
      BY <3>1, <3>2, <3>3, <3>4 DEF Kept, Walking
  <2> QED
    BY <2>1, <2>2, Zenon
<1>4. CASE LookAgain
  <2>1. CASE Refuse({idx})
    BY <1>4, <2>1, RefuseStep, Zenon DEF LookAgain, Walking
  <2>2. CASE ~Refuse({idx})
    <3> DEFINE e == [obj |-> cur, links |-> Facts(cur).links]
    <3>1. /\ rpc = "again" /\ sameIdentity(info, Facts(cur)) /\ chain' = Append(chain, e)
          /\ rpc' = IF idx = Len(comps) THEN "done" ELSE "open"
          /\ idx' = idx + 1 /\ UNCHANGED <<comps, opts, tree, fdOpen, changes>>
      BY <1>4, <2>2, Zenon DEF LookAgain
    <3>2. /\ e \in [obj : DOMAIN Object \cup {Nothing}, links : Nat]
          /\ Fits(e.obj, e.links, idx = Len(comps))
      BY <3>1, LinksNat, Zenon DEF Kept, sameIdentity
    <3> HIDE DEF e
    <3>3. Typed'
      BY <3>1, <3>2 DEF Typed
    <3>4. /\ Len(comps) \in Nat /\ Len(chain) = idx - 1 /\ Len(chain') = idx
          /\ DOMAIN chain' = 1 .. idx /\ DOMAIN chain = 1 .. (idx - 1) /\ chain'[idx] = e
          /\ \A i \in 1 .. (idx - 1) : chain'[i] = chain[i]
          /\ idx \in 1 .. Len(comps)
      <4>1. Len(comps) \in Nat /\ chain \in Seq([obj : DOMAIN Object \cup {Nothing}, links : Nat])
        BY DEF Typed
      <4>2. idx \in 1 .. Len(comps) /\ Len(chain) = idx - 1
        BY <3>1, Zenon DEF InTurn, Walking
      <4> QED
        BY <3>1, <3>2, <4>1, <4>2, SMTT(60)
    <3>5. InTurn'
      BY <3>1, <3>4 DEF InTurn, Walking
    <3>6. \A o, l, b : Fits(o, l, b)' <=> Fits(o, l, b)
      BY <3>1 DEF Fits, volumeAllowed
    <3>7. \A i \in DOMAIN chain' : Fits(chain'[i].obj, chain'[i].links, i = Len(comps))
      BY <3>1, <3>2, <3>4 DEF Kept, Walking
    <3> QED
      BY <3>1, <3>3, <3>5, <3>6, <3>7 DEF Kept, Walking
  <2> QED
    BY <2>1, <2>2, Zenon
<1>5. CASE Interrupted
  BY <1>5, RefuseStep, Zenon DEF Interrupted, Walking
<1>6. CASE CloseChain
  <2>1. Typed' /\ InTurn'
    BY <1>6, Zenon DEF CloseChain, Typed, InTurn, Walking
  <2> QED
    BY <1>6, <2>1, Zenon DEF CloseChain, Kept, Walking
<1>7. CASE Change
  <2>1. UNCHANGED <<comps, opts, rpc, idx, cur, info, chain, fdOpen>>
    BY <1>7, Zenon DEF Change
  <2>2. tree' \in [Slots -> DOMAIN Object \cup {Nothing}]
    BY <1>7, Zenon DEF Change, Exchange, AddName, Unlink, Typed
  <2>3. changes' \in 0 .. MaxChanges
    BY <1>7, ResolveBounds DEF Change, Typed
  <2>4. Typed' /\ InTurn'
    BY <2>1, <2>2, <2>3 DEF Typed, InTurn, Walking
  <2>5. \A o, l, b : Fits(o, l, b)' <=> Fits(o, l, b)
    BY <2>1 DEF Fits, volumeAllowed
  <2> QED
    BY <2>1, <2>4, <2>5 DEF Kept, Walking
<1> QED
  BY <1>1, <1>2, <1>3, <1>4, <1>5, <1>6, <1>7 DEF ResolveNext

\* The invariant says what PathsResolved says.
LEMMA InvResolved == ResolveInv => PathsResolved
<1> SUFFICES ASSUME ResolveInv PROVE PathsResolved
  OBVIOUS
<1> USE DEF ResolveInv
<1>1. ResolveTypeOK
  <2>1. /\ Len(comps) \in Nat /\ Len(chain) \in Nat
        /\ rpc \in {"call", "refused", "done", "closed"} \/ Walking
    BY DEF Typed, Walking
  <2>2. idx \in 1 .. (MaxComponents + 1) /\ Len(chain) <= MaxComponents
    BY <2>1, ResolveBounds, SMTT(30) DEF InTurn
  <2>3. fdOpen \subseteq 1 .. MaxComponents
    BY <2>1, ResolveBounds, SMTT(30) DEF InTurn
  <2> QED
    BY <2>2, <2>3, Zenon DEF Typed, ResolveTypeOK
<1>2. DescriptorsAccounted
  BY DEF Typed, InTurn, DescriptorsAccounted
<1>3. ChainFits
  <2> SUFFICES ASSUME rpc = "done", NEW i \in DOMAIN chain
               PROVE  LET o == chain[i].obj
                      IN  /\ i < Len(chain) \/ opts.requireDir => ObjType(o) = "dir"
                          /\ ObjType(o) \in {"dir", "file"}
                          /\ i = Len(chain) /\ opts.expect # "unknown" => ObjType(o) = opts.expect
                          /\ opts.volume # 0 => ObjVolume(o) \in {opts.volume} \cup opts.allowed
                          /\ ~ opts.hardLinks /\ ObjType(o) # "dir" => chain[i].links <= 1
    BY Zenon DEF ChainFits
  <2>1. Fits(chain[i].obj, chain[i].links, i = Len(comps)) /\ Len(chain) = Len(comps)
    BY Zenon DEF Kept, InTurn
  <2>2. i <= Len(chain)
    BY DEF Typed
  <2> QED
    BY <2>1, <2>2 DEF Fits, volumeAllowed
<1> QED
  BY <1>1, <1>2, <1>3, Zenon DEF PathsResolved

\* Whatever others do between two system calls, a path that is resolved satisfies its
\* policy at every component, and a resolution that fails leaves no descriptor open
\* (Resolve, resolve.go; OSFile, osfs_unix.go).
THEOREM Resolved == ResolveSpec => []PathsResolved
<1>1. ResolveInv /\ [ResolveNext]_resolveVars => ResolveInv'
  <2> SUFFICES ASSUME ResolveInv, [ResolveNext]_resolveVars PROVE ResolveInv'
    OBVIOUS
  <2>1. CASE ResolveNext
    BY <2>1, ResolveStep, SMTT(60)
  <2>2. CASE UNCHANGED resolveVars
    <3>1. \A o, l, b : Fits(o, l, b)' <=> Fits(o, l, b)
      BY <2>2 DEF resolveVars, Fits, volumeAllowed
    <3> QED
      BY <2>2, <3>1, SMTT(60) DEF resolveVars, ResolveInv, Typed, InTurn, Kept, Walking
  <2> QED
    BY <2>1, <2>2, Zenon
<1> QED
  BY <1>1, ResolveInitInv, InvResolved, PTL DEF ResolveSpec
=============================================================================
