--------------------------- MODULE MCEngineering ---------------------------
(***************************************************************************)
(* The components that live beside the transfer itself: recovery and       *)
(* publication (Recovery), the resource budget (Resource), the event sink, *)
(* quarantine, plan building, confinement, starting a role process, and    *)
(* the pair of stubs.  They share no state; `part' is the one explored,    *)
(* the others rest in a fixed state in which none of their steps is        *)
(* possible or taken.                                                      *)
(***************************************************************************)
EXTENDS Recovery, Resource, EventSink, Quarantine

CONSTANTS MaxRows, MaxDefaultEntries, MaxDefaultPlanBytes, MaxDefaultCapabilityComparisons,
          ProbedRoles, Systems,
          MaxGens, MaxKills, MaxOps

VARIABLES
  part,
  rows, policy,
  child, gate,
  req, ppc, held, conns, keyCh, cpc, fds, also, got,
  gen, fab, children, unclosed, mode, proc, wire, peerCh, ready, sup, healed, kills, ops

(* Rows of two capabilities on paths of which one is a prefix of another, with *)
(* every kind of row that validation refuses.                                  *)
Row(p, c, a, r, reps) == [path |-> p, cap |-> c, action |-> a, result |-> r, reps |-> reps]

Classifications ==
  {Row(p, 1, a, r, IF r = 1 THEN <<>> ELSE <<2, 1>>) :
     p \in {<<1>>, <<1, 1>>, <<2>>}, a \in {1, 4}, r \in {1, 2}}
  \cup {Row(<<1>>, 21, 1, 1, <<>>), Row(<<1>>, 0, 1, 1, <<>>), Row(<<1>>, 1, 0, 1, <<>>),
        Row(<<1>>, 1, 1, 0, <<>>), Row(<<2>>, 2, 1, 5, <<>>), Row(<<2>>, 2, 1, 1, <<0>>),
        Row(<<2>>, 1, 1, 1, <<3, 2>>), Row(<<>>, 1, 1, 1, <<>>),
        Row(<<1>>, 1, 1, 1, <<4, 3, 2, 1>>)}

PlanPolicies ==
  {[wrap |-> {}, rep |-> {}, maxComparisons |-> 0, maxEntries |-> 0, maxBytes |-> 0],
   [wrap |-> {1, 2}, rep |-> {2}, maxComparisons |-> 3, maxEntries |-> 3, maxBytes |-> 270],
   [wrap |-> {2, 3}, rep |-> {3}, maxComparisons |-> 3, maxEntries |-> 2, maxBytes |-> 0],
   [wrap |-> {1}, rep |-> {}, maxComparisons |-> 2, maxEntries |-> 3, maxBytes |-> 0]}

Launches ==
  {r \in [role : {"net", "parser", "apply", "auth"}, extra : {"", "apply", "audit"},
          scm : BOOLEAN, root : BOOLEAN, dirs : 0..2, flaw : {"none", "mode"}] :
     r.role # r.extra}

P == INSTANCE PlanBuild WITH Policies <- PlanPolicies
C == INSTANCE Confine
L == INSTANCE Launch
H == INSTANCE PairHold WITH keyCh <- peerCh

planVars == <<rows, policy>>
confineVars == <<child, gate>>
launchVars == <<req, ppc, held, conns, keyCh, cpc, fds, also, got>>
pairVars == <<gen, fab, children, unclosed, mode, proc, wire, peerCh, ready, sup, healed, kills, ops>>

engVars == <<part, vars, budgetVars, sinkVars, quarVars, planVars, confineVars, launchVars,
             pairVars>>

NotLaunching ==   \* StartChild did not find its endpoint
  /\ req = [role |-> "net", extra |-> "", scm |-> TRUE, root |-> TRUE, dirs |-> 0,
            flaw |-> "none"]
  /\ ppc = "failed" /\ held = {} /\ conns = {"ep"} /\ keyCh = <<>>
  /\ cpc = "none" /\ fds = <<>> /\ also = {} /\ got = <<>>

NotConfining ==
  /\ child = [role |-> "net", goos |-> "linux", release |-> TRUE, roots |-> TRUE,
              world |-> C!Healthy]
  /\ gate = "claimed"

Rests(p, InitOfPart, atRest) == InitOfPart /\ (part # p => atRest)

EngInit ==
  /\ part \in {"recovery", "budget", "sink", "quarantine", "plan", "confine", "launch", "pair"}
  /\ Rests("recovery", Init, pub = "none" /\ expected)
  /\ Rests("budget", BudgetInit, limits = [d \in {"bytes", "count"} |-> MaxWord])
  /\ Rests("sink", SinkInit, maxQueue = 1)
  /\ Rests("quarantine", QuarantineInit, request = Base /\ build = "noreplace")
  /\ Rests("plan", P!PlanInit, policy = CHOOSE p \in PlanPolicies : p.wrap = {})
  /\ H!PairInit
  /\ IF part = "launch" THEN L!LaunchInit ELSE NotLaunching
  /\ IF part = "confine" THEN C!ConfineInit ELSE NotConfining

RestOf(p) ==
  /\ p # "recovery" => UNCHANGED vars
  /\ p # "budget" => UNCHANGED budgetVars
  /\ p # "sink" => UNCHANGED sinkVars
  /\ p # "quarantine" => UNCHANGED quarVars
  /\ p # "plan" => UNCHANGED planVars
  /\ p # "confine" => UNCHANGED confineVars
  /\ p # "launch" => UNCHANGED launchVars
  /\ p # "pair" => UNCHANGED pairVars

EngNext ==
  /\ \/ part = "recovery" /\ Next
     \/ part = "budget" /\ BudgetNext
     \/ part = "sink" /\ SinkNext
     \/ part = "quarantine" /\ QuarantineNext
     \/ part = "plan" /\ P!PlanNext
     \/ part = "confine" /\ C!ConfineNext
     \/ part = "launch" /\ L!LaunchNext
     \/ part = "pair" /\ H!PairNext
  /\ RestOf(part)
  /\ UNCHANGED part

(* The fairness of each part, asked for only while the part is explored. *)
EngFairness ==
  /\ <>[](part = "recovery" /\ rec.at # "idle") =>
       []<><<part = "recovery" /\ RecoverStep>>_vars
  /\ <>[](part = "recovery" /\ Pending) =>
       []<><<part = "recovery" /\ \E p \in Policies : RecoverCall(p)>>_vars
  /\ WF_launchVars(part = "launch" /\ L!ParentStep)
  /\ WF_launchVars(part = "launch" /\ L!ChildStep)
  /\ \A r \in H!Ends : WF_pairVars(part = "pair" /\ H!StubStep(r))
  /\ WF_pairVars(part = "pair" /\ H!SupStep)

EngSpec == EngInit /\ [][EngNext]_engVars /\ EngFairness

-----------------------------------------------------------------------------
\* Swapping the order in which two rows were captured changes nothing in what Build returns,
\* and a plan is authorised only with one entry for every row and no blocking row in it.
PlanIsCanonical == P!OrderIrrelevant /\ [](part = "plan" => P!PlanTypeOK /\ P!PlanIsComplete)

\* A child in release mode serves only when every probe came out as its role demands, and
\* the probes ask for every right the inventory denies the role.
ConfinementHolds ==
  part = "confine" => C!ConfineTypeOK /\ C!ReleaseServesConfined /\ C!ProbesMatchInventory

\* The child claims under each name the file the supervisor meant by it, and after StartChild
\* the supervisor keeps only the key channel of a tracked child open.
FilesArrive == part = "launch" => L!LaunchTypeOK /\ L!ClaimedAsRequested /\ L!FilesAccounted

\* StartChild returns, and the child gets all its files or exits.
LaunchSettles == L!LaunchSettles

\* Over kills, restarts and reconnections a waiting frame carries the number its reader
\* expects, and between two calls every running stub is tracked.
PairIsSound == part = "pair" => H!PairTypeOK /\ H!NumbersAgree /\ H!NoStrayStub

\* After a RestartOne that succeeded both stubs complete their exchange.
RestartHeals == H!RestartHeals
=============================================================================
