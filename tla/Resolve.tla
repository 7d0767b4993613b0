------------------------------- MODULE Resolve ------------------------------
(***************************************************************************)
(* Descriptor-relative resolution (internal/path: Resolve over OSFile).    *)
(* The names of a path are checked first; then each is opened in the       *)
(* directory held from the one before, and its facts are looked at twice   *)
(* before the descriptor is kept.  Others exchange, link and unlink names  *)
(* between any two system calls.                                           *)
(***************************************************************************)
EXTENDS Naturals, Sequences, FiniteSets

CONSTANTS MaxComponents,   \* components of a path (1024)
          MaxPathBytes,    \* sum of their lengths (4096)
          MaxChanges,      \* bound: changes made by others
          Calls, OptsOf,   \* the paths asked for, and the policies
          Object,          \* object -> [type, volume]
          Slots, Tree0     \* <<directory, name>>, and what is there at first

ASSUME ResolveAssumption ==
  /\ {MaxComponents, MaxChanges} \subseteq Nat
  /\ Calls \subseteq Seq([name : STRING, len : Nat, form : STRING])
  /\ IsFiniteSet(Slots) /\ Tree0 \in [Slots -> DOMAIN Object \cup {"nothing"}]

VARIABLES comps, opts,     \* the call: components and ResolveOpts
          tree,            \* slot -> object
          rpc, idx,        \* where Resolve is; its component
          cur, info,       \* the object just opened, and the first look at it
          chain,           \* kept: [obj, links] at the second look
          fdOpen,          \* components whose descriptor is open
          changes

resolveVars == <<comps, opts, tree, rpc, idx, cur, info, chain, fdOpen, changes>>

(* The world. *)
Nothing == "nothing"
Root == "root"
ObjType(o) == IF o = Nothing THEN "unknown" ELSE Object[o].type
ObjVolume(o) == Object[o].volume
Dirs == {o \in DOMAIN Object : ObjType(o) = "dir"}

Facts(o) == [type |-> ObjType(o), id |-> o, volume |-> ObjVolume(o),
             links |-> Cardinality({s \in Slots : tree[s] = o})]

(* Others.  A directory does not come to be below itself. *)
Looped(t) == \E ds \in SUBSET Dirs \ {{}} :
               \A d \in ds : \E s \in Slots : s[1] = d /\ t[s] \in ds
Exchange(s, t) ==
  /\ tree' = [tree EXCEPT ![s] = tree[t], ![t] = tree[s]]
  /\ ~ Looped(tree')
AddName(s, t) ==
  /\ tree[t] = Nothing /\ ObjType(tree[s]) = "file"
  /\ tree' = [tree EXCEPT ![t] = tree[s]]
Unlink(s) == ObjType(tree[s]) = "file" /\ tree' = [tree EXCEPT ![s] = Nothing]

Change ==
  /\ changes < MaxChanges /\ changes' = changes + 1
  /\ \/ \E s, t \in Slots : Exchange(s, t) \/ AddName(s, t)
     \/ \E s \in Slots : Unlink(s)
  /\ UNCHANGED <<comps, opts, rpc, idx, cur, info, chain, fdOpen>>

(* A component is its name, its length, and whether the grammar takes it. *)
validateComponent(c) ==
  c.form = "ok" \/ (c.form = "reserved" /\ ~ opts.winReserved)

Bytes(cs) == LET budget[i \in 0 .. Len(cs)] ==
                    IF i = 0 THEN 0 ELSE budget[i - 1] + cs[i].len
             IN  budget[Len(cs)]

ValidateComponents(cs) ==
  /\ cs # <<>> /\ Len(cs) <= MaxComponents
  /\ \A i \in DOMAIN cs : validateComponent(cs[i])
  /\ Bytes(cs) <= MaxPathBytes

volumeAllowed(v) ==
  (opts.volume = 0 /\ opts.allowed = {}) \/ v = opts.volume \/ v \in opts.allowed

checkOpened(f, last) ==
  /\ f.type \in {"dir", "file"}
  /\ ~ last \/ opts.requireDir => f.type = "dir"
  /\ last /\ opts.expect # "unknown" => f.type = opts.expect
  /\ opts.hardLinks \/ f.type = "dir" \/ f.links <= 1
  /\ volumeAllowed(f.volume)

NoInfo == [type |-> "unknown", id |-> Nothing, volume |-> 0, links |-> 0]

ResolveInit ==
  /\ comps \in Calls /\ opts \in OptsOf
  /\ tree = Tree0 /\ rpc = "call" /\ idx = 1
  /\ cur = Nothing /\ info = NoInfo /\ chain = <<>> /\ fdOpen = {} /\ changes = 0

(* fail closes the chain built so far (out) and nothing else; an error path *)
(* that has opened a file closes it itself (own) before it calls fail.      *)
Refuse(own) ==
  /\ rpc' = "refused" /\ fdOpen' = fdOpen \ (DOMAIN chain \cup own)
  /\ cur' = Nothing /\ info' = NoInfo /\ chain' = <<>>
  /\ UNCHANGED <<comps, opts, tree, idx, changes>>

Validate ==
  /\ rpc = "call"
  /\ IF ValidateComponents(comps) /\ (opts.volume # 0 => ObjVolume(Root) = opts.volume)
     THEN rpc' = "open" /\ UNCHANGED <<comps, opts, tree, idx, cur, info, chain, fdOpen, changes>>
     ELSE Refuse({})

Parent == IF idx = 1 THEN Root ELSE chain[idx - 1].obj
Slot == <<Parent, comps[idx].name>>
Found == IF Slot \in Slots THEN tree[Slot] ELSE Nothing

(* OpenNoFollow: openat and fstat of the child; it closes the child itself if *)
(* the fstat fails.                                                           *)
OpenNext ==
  /\ rpc = "open"
  /\ IF Found = Nothing \/ ObjType(Found) = "symlink" THEN Refuse({})
     ELSE /\ cur' = Found /\ fdOpen' = fdOpen \cup {idx} /\ rpc' = "look"
          /\ UNCHANGED <<comps, opts, tree, idx, info, chain, changes>>

Look ==
  /\ rpc = "look"
  /\ IF checkOpened(Facts(cur), idx = Len(comps))
     THEN /\ info' = Facts(cur) /\ rpc' = "again"
          /\ UNCHANGED <<comps, opts, tree, idx, cur, chain, fdOpen, changes>>
     ELSE Refuse({idx})

AnyIdentity(a, b) == a.id = b.id                                  \* for a mutant
sameIdentity(a, b) ==
  a.type = b.type /\ a.id = b.id /\ a.volume = b.volume /\ a.links = b.links

LookAgain ==
  /\ rpc = "again"
  /\ IF sameIdentity(info, Facts(cur))
     THEN /\ chain' = Append(chain, [obj |-> cur, links |-> Facts(cur).links])
          /\ rpc' = IF idx = Len(comps) THEN "done" ELSE "open"
          /\ idx' = idx + 1 /\ cur' = Nothing /\ info' = NoInfo
          /\ UNCHANGED <<comps, opts, tree, fdOpen, changes>>
     ELSE Refuse({idx})

(* The context is cancelled or opening fails; Info of the open file fails. *)
Interrupted ==
  \/ rpc = "open" /\ Refuse({})
  \/ rpc \in {"look", "again"} /\ Refuse({idx})

(* The caller closes the chain. *)
CloseChain ==
  /\ rpc = "done" /\ rpc' = "closed" /\ fdOpen' = {}
  /\ UNCHANGED <<comps, opts, tree, idx, cur, info, chain, changes>>

ResolveNext ==
  Validate \/ OpenNext \/ Look \/ LookAgain \/ Interrupted \/ CloseChain
  \/ (rpc \in {"open", "look", "again"} /\ Change)

ResolveSpec == ResolveInit /\ [][ResolveNext]_resolveVars

ResolveTypeOK ==
  /\ rpc \in {"call", "open", "look", "again", "done", "refused", "closed"}
  /\ idx \in 1..(MaxComponents + 1) /\ Len(chain) <= MaxComponents
  /\ fdOpen \subseteq 1..MaxComponents /\ changes \in 0..MaxChanges

(* "Failure aborts the chain and closes intermediate descriptors": on each *)
(* error path every descriptor opened so far is closed, and a success      *)
(* leaves exactly one for each component.                                  *)
DescriptorsAccounted ==
  /\ rpc \in {"refused", "closed"} => fdOpen = {}
  /\ rpc = "done" => fdOpen = DOMAIN comps /\ Len(chain) = Len(comps)

(* Whatever was exchanged, linked or unlinked in between, a path that is   *)
(* resolved leads through directories of allowed volumes to an object of   *)
(* the expected type, and no file kept had a second name.                  *)
ChainFits ==
  rpc = "done" =>
    \A i \in DOMAIN chain :
      LET o == chain[i].obj
      IN  /\ i < Len(chain) \/ opts.requireDir => ObjType(o) = "dir"
          /\ ObjType(o) \in {"dir", "file"}
          /\ i = Len(chain) /\ opts.expect # "unknown" => ObjType(o) = opts.expect
          /\ opts.volume # 0 => ObjVolume(o) \in {opts.volume} \cup opts.allowed
          /\ ~ opts.hardLinks /\ ObjType(o) # "dir" => chain[i].links <= 1

(* Whatever others rename and link meanwhile, a resolved path satisfies    *)
(* the policy it was resolved under, and no descriptor of a failed         *)
(* resolution stays open.                                                  *)
PathsResolved == ResolveTypeOK /\ DescriptorsAccounted /\ ChainFits
=============================================================================
