---------------------------- MODULE DaemonScripts ---------------------------
(***************************************************************************)
(* What the source writes down once per fleet, proved for every fleet: the *)
(* tables of Fleet agree with each other, and the calls of Daemon's launch *)
(* and restart procedures suit the fleet they are made in.  DaemonProofs   *)
(* builds on these facts.                                                  *)
(***************************************************************************)
EXTENDS Daemon, TLAPS

-----------------------------------------------------------------------------
(***************************************************************************)
(* Scripts.                                                                *)
(***************************************************************************)
Step == [op : {"replace"}, pairs : SUBSET SUBSET AllRoles]
          \cup [op : {"start", "confer", "supersede", "same"}, role : AllRoles, peer : AllRoles]

CallsOf(sc) == {sc[i] : i \in DOMAIN sc}

\* A call that suits fleet f: a role is started with exactly the peers of its
\* grant, and an end is conferred only on a role that is granted it.
Suits(f, s) ==
  /\ s.op = "start" => s.role \in Roles(f) /\ {s.peer} \cup Extra(f, s.role) = PlanOf[f][s.role]
  /\ s.op = "confer" => (keepKeyCh(f, s.role) => s.peer \in PlanOf[f][s.role])

\* A call that gives r a new end of the pair r - q.
Renews(s, r, q) ==
  /\ s.op \in {"start", "confer"} /\ s.role = r
  /\ s.op = "confer" => s.peer = q

\* Both sides of a pair that is replaced get their new end.
Renewing(S) ==
  \A s \in S : s.op = "replace" =>
    \A e \in s.pairs : \A r, q \in AllRoles : e = Pair(r, q) => \E t \in S : Renews(t, r, q)

\* Handles are dropped first, then pairs are replaced.
InOrder(sc) ==
  /\ \A i \in DOMAIN sc : sc[i].op = "supersede" => i = 1
  /\ \A i \in DOMAIN sc : sc[i].op = "replace" => \A j \in 1 .. (i - 1) : sc[j].op = "supersede"

Fitting(f, sc) ==
  (\A s \in CallsOf(sc) : Suits(f, s)) /\ Renewing(CallsOf(sc)) /\ InOrder(sc)

Starting(S) == \E s \in S : s.op = "start"

\* A selective restart: the roles it starts are to be watched and net is not among
\* them, and a role is started in place of a handle that is dropped.
Selective(S, arm) ==
  /\ \A s \in S : s.op = "start" => s.role \in arm \ {"net"}
  /\ \A s \in S : s.op = "supersede" => \E t \in S : t.op = "start" /\ t.role = s.role

-----------------------------------------------------------------------------
(***************************************************************************)
(* The tables of serve_unix.go and plan.go, fleet by fleet.                *)
(***************************************************************************)
\* The tables of a fleet belong together: the plan is launchable and names the
\* fleet's roles, every role is started with the peers of its grant, and a full
\* restart renews the edges of the plan.
TableFits(f) ==
  LET order == startRoleChildren[f] IN
  /\ Roles(f) \subseteq AllRoles /\ Roles(f) = DOMAIN PlanOf[f]
  /\ Launchable(PlanOf[f])
  /\ order \in Seq(AllRoles \X AllRoles)
  /\ \A i \in 1 .. Len(order) :
       /\ order[i][1] \in Roles(f)
       /\ {order[i][2]} \cup Extra(f, order[i][1]) = PlanOf[f][order[i][1]]
  /\ \A r \in Roles(f) : \E i \in 1 .. Len(order) :
       order[i][1] = r /\ \A j \in 1 .. Len(order) : order[j][1] = r => j = i
  /\ replaceRolePairs[f] = PlanPairs(PlanOf[f])

\* What a role may hold it is not denied, and its descriptors are allowed it.
LEMMA Granted ==
  ASSUME NEW r \in AllRoles \ {"supervisor"}, NEW peers
  PROVE  /\ ConferOf(r) # {} /\ DeniedProbe(r, ConferOf(r))
         /\ ValidateSlots(r, ConferOf(r), defaultSlots(r, peers))
<1>1. ConferOf(r) # {} /\ DeniedProbe(r, ConferOf(r))
  BY DEF AllRoles, ConferOf, Inventory, Entry, DeniedProbe, Allows
<1>2. \A k \in defaultSlots(r, peers) : slotAllowed(r, k)
  BY DEF AllRoles, defaultSlots, slotAllowed, archiveAuthorityOK, Allows, Inventory, Entry
<1> QED
  BY <1>1, <1>2, Zenon DEF ValidateSlots

\* A plan of roles with mutual edges and no self edge is launchable.
LEMMA LaunchableBy ==
  ASSUME NEW p, DOMAIN p # {}, DOMAIN p \subseteq AllRoles \ {"supervisor"},
         \A r \in DOMAIN p : r \notin p[r] /\ \A q \in p[r] : q \in DOMAIN p /\ r \in p[q]
  PROVE  Launchable(p)
BY Granted, Zenon DEF Launchable, BuildPlan, MaterializeLaunch, ValidateIPCGraph

\* The tables of m2a fit.
LEMMA Table_m2a == TableFits("m2a")
<1> DEFINE p == PlanOf["m2a"]
           order == startRoleChildren["m2a"]
<1>1. Roles("m2a") = {"net", "apply"}
  BY DEF Roles, roleList
<1>2. DOMAIN p = {"net", "apply"}
  BY Zenon DEF PlanOf, NetApplyPlan
<1>3. \A r \in DOMAIN p : r \notin p[r] /\ \A q \in p[r] : q \in DOMAIN p /\ r \in p[q]
  BY <1>2 DEF PlanOf, NetApplyPlan
<1>4. order \in Seq(AllRoles \X AllRoles) /\ Len(order) = 2
  BY DEF startRoleChildren, AllRoles
<1>5. \A i \in 1 .. 2 : /\ order[i][1] \in Roles("m2a")
                        /\ {order[i][2]} \cup Extra("m2a", order[i][1]) = p[order[i][1]]
  BY <1>1 DEF startRoleChildren, Extra, ExtraPeerFor, PlanOf, NetApplyPlan
<1>6. \A r \in Roles("m2a") : \E i \in 1 .. 2 :
        order[i][1] = r /\ \A j \in 1 .. 2 : order[j][1] = r => j = i
  BY <1>1 DEF startRoleChildren
<1>7. replaceRolePairs["m2a"] = PlanPairs(p)
  <2>1. \A e \in replaceRolePairs["m2a"] : \E r \in DOMAIN p : \E q \in p[r] : e = Pair(r, q)
    BY <1>2, Zenon DEF replaceRolePairs, PlanOf, NetApplyPlan
  <2>2. \A r \in DOMAIN p : \A q \in p[r] : Pair(r, q) \in replaceRolePairs["m2a"]
    BY <1>2 DEF replaceRolePairs, PlanOf, NetApplyPlan, Pair
  <2> HIDE DEF p
  <2> QED
    BY <2>1, <2>2 DEF PlanPairs
<1>8. Launchable(p)
  <2> HIDE DEF p
  <2> QED
    BY <1>2, <1>3, LaunchableBy, Zenon DEF AllRoles
<1> HIDE DEF p, order
<1>9. Roles("m2a") \subseteq AllRoles /\ Roles("m2a") = DOMAIN p
  BY <1>1, <1>2, Zenon DEF AllRoles
<1> QED
  BY <1>4, <1>5, <1>6, <1>7, <1>8, <1>9, Zenon DEF TableFits, p, order

\* The tables of m2c fit.
LEMMA Table_m2c == TableFits("m2c")
<1> DEFINE p == PlanOf["m2c"]
           order == startRoleChildren["m2c"]
<1>1. Roles("m2c") = {"auth", "apply", "net"}
  BY DEF Roles, roleList
<1>2. DOMAIN p = {"auth", "apply", "net"}
  BY Zenon DEF PlanOf, AuthNetApplyPlan
<1>3. \A r \in DOMAIN p : r \notin p[r] /\ \A q \in p[r] : q \in DOMAIN p /\ r \in p[q]
  BY <1>2 DEF PlanOf, AuthNetApplyPlan
<1>4. order \in Seq(AllRoles \X AllRoles) /\ Len(order) = 3
  BY DEF startRoleChildren, AllRoles
<1>5. \A i \in 1 .. 3 : /\ order[i][1] \in Roles("m2c")
                        /\ {order[i][2]} \cup Extra("m2c", order[i][1]) = p[order[i][1]]
  BY <1>1 DEF startRoleChildren, Extra, ExtraPeerFor, PlanOf, AuthNetApplyPlan
<1>6. \A r \in Roles("m2c") : \E i \in 1 .. 3 :
        order[i][1] = r /\ \A j \in 1 .. 3 : order[j][1] = r => j = i
  BY <1>1 DEF startRoleChildren
<1>7. replaceRolePairs["m2c"] = PlanPairs(p)
  <2>1. \A e \in replaceRolePairs["m2c"] : \E r \in DOMAIN p : \E q \in p[r] : e = Pair(r, q)
    BY <1>2, Zenon DEF replaceRolePairs, PlanOf, AuthNetApplyPlan
  <2>2. \A r \in DOMAIN p : \A q \in p[r] : Pair(r, q) \in replaceRolePairs["m2c"]
    BY <1>2 DEF replaceRolePairs, PlanOf, AuthNetApplyPlan, Pair
  <2> HIDE DEF p
  <2> QED
    BY <2>1, <2>2 DEF PlanPairs
<1>8. Launchable(p)
  <2> HIDE DEF p
  <2> QED
    BY <1>2, <1>3, LaunchableBy, Zenon DEF AllRoles
<1> HIDE DEF p, order
<1>9. Roles("m2c") \subseteq AllRoles /\ Roles("m2c") = DOMAIN p
  <2>1. Roles("m2c") = DOMAIN p
    BY <1>1, <1>2, Zenon
  <2>2. Roles("m2c") \subseteq AllRoles
    BY <1>1, Zenon DEF AllRoles
  <2> QED
    BY <2>1, <2>2, Zenon
<1> QED
  BY <1>4, <1>5, <1>6, <1>7, <1>8, <1>9, Zenon DEF TableFits, p, order

\* The tables of m2d fit.
LEMMA Table_m2d == TableFits("m2d")
<1> DEFINE p == PlanOf["m2d"]
           order == startRoleChildren["m2d"]
<1>1. Roles("m2d") = {"auth", "parser", "apply", "net"}
  BY DEF Roles, roleList
<1>2. DOMAIN p = {"auth", "parser", "apply", "net"}
  BY Zenon DEF PlanOf, AuthParserNetApplyPlan
<1>3. \A r \in DOMAIN p : r \notin p[r] /\ \A q \in p[r] : q \in DOMAIN p /\ r \in p[q]
  BY <1>2 DEF PlanOf, AuthParserNetApplyPlan
<1>4. order \in Seq(AllRoles \X AllRoles) /\ Len(order) = 4
  BY DEF startRoleChildren, AllRoles
<1>5. \A i \in 1 .. 4 : /\ order[i][1] \in Roles("m2d")
                        /\ {order[i][2]} \cup Extra("m2d", order[i][1]) = p[order[i][1]]
  BY <1>1 DEF startRoleChildren, Extra, ExtraPeerFor, PlanOf, AuthParserNetApplyPlan
<1>6. \A r \in Roles("m2d") : \E i \in 1 .. 4 :
        order[i][1] = r /\ \A j \in 1 .. 4 : order[j][1] = r => j = i
  BY <1>1 DEF startRoleChildren
<1>7. replaceRolePairs["m2d"] = PlanPairs(p)
  <2>1. \A e \in replaceRolePairs["m2d"] : \E r \in DOMAIN p : \E q \in p[r] : e = Pair(r, q)
    BY <1>2, ZenonT(60) DEF replaceRolePairs, PlanOf, AuthParserNetApplyPlan
  <2>2. \A r \in DOMAIN p : \A q \in p[r] : Pair(r, q) \in replaceRolePairs["m2d"]
    BY <1>2 DEF replaceRolePairs, PlanOf, AuthParserNetApplyPlan, Pair
  <2> HIDE DEF p
  <2> QED
    BY <2>1, <2>2 DEF PlanPairs
<1>8. Launchable(p)
  <2> HIDE DEF p
  <2> QED
    BY <1>2, <1>3, LaunchableBy, Zenon DEF AllRoles
<1> HIDE DEF p, order
<1>9. Roles("m2d") \subseteq AllRoles /\ Roles("m2d") = DOMAIN p
  <2>1. Roles("m2d") = DOMAIN p
    BY <1>1, <1>2, Zenon
  <2>2. Roles("m2d") \subseteq AllRoles
    BY <1>1, Zenon DEF AllRoles
  <2> QED
    BY <2>1, <2>2, Zenon
<1> QED
  BY <1>4, <1>5, <1>6, <1>7, <1>8, <1>9, ZenonT(60) DEF TableFits, p, order

\* The tables of m2e fit.
LEMMA Table_m2e == TableFits("m2e")
<1> DEFINE p == PlanOf["m2e"]
           order == startRoleChildren["m2e"]
<1>1. Roles("m2e") = {"auth", "audit", "apply", "parser", "net"}
  BY DEF Roles, roleList
<1>2. DOMAIN p = {"auth", "audit", "apply", "parser", "net"}
  BY Zenon DEF PlanOf, AuthParserNetApplyAuditPlan
<1>3. \A r \in DOMAIN p : r \notin p[r] /\ \A q \in p[r] : q \in DOMAIN p /\ r \in p[q]
  BY <1>2 DEF PlanOf, AuthParserNetApplyAuditPlan
<1>4. order \in Seq(AllRoles \X AllRoles) /\ Len(order) = 5
  BY DEF startRoleChildren, AllRoles
<1>5. \A i \in 1 .. 5 : /\ order[i][1] \in Roles("m2e")
                        /\ {order[i][2]} \cup Extra("m2e", order[i][1]) = p[order[i][1]]
  BY <1>1 DEF startRoleChildren, Extra, ExtraPeerFor, PlanOf, AuthParserNetApplyAuditPlan
<1>6. \A r \in Roles("m2e") : \E i \in 1 .. 5 :
        order[i][1] = r /\ \A j \in 1 .. 5 : order[j][1] = r => j = i
  BY <1>1 DEF startRoleChildren
<1>7. replaceRolePairs["m2e"] = PlanPairs(p)
  <2>1. \A e \in replaceRolePairs["m2e"] : \E r \in DOMAIN p : \E q \in p[r] : e = Pair(r, q)
    BY <1>2, Zenon DEF replaceRolePairs, PlanOf, AuthParserNetApplyAuditPlan
  <2>2. \A r \in DOMAIN p : \A q \in p[r] : Pair(r, q) \in replaceRolePairs["m2e"]
    BY <1>2 DEF replaceRolePairs, PlanOf, AuthParserNetApplyAuditPlan, Pair
  <2> HIDE DEF p
  <2> QED
    BY <2>1, <2>2 DEF PlanPairs
<1>8. Launchable(p)
  <2> HIDE DEF p
  <2> QED
    BY <1>2, <1>3, LaunchableBy, Zenon DEF AllRoles
<1> HIDE DEF p, order
<1>9. Roles("m2e") \subseteq AllRoles /\ Roles("m2e") = DOMAIN p
  <2>1. Roles("m2e") = DOMAIN p
    BY <1>1, <1>2, Zenon
  <2>2. Roles("m2e") \subseteq AllRoles
    BY <1>1, Zenon DEF AllRoles
  <2> QED
    BY <2>1, <2>2, Zenon
<1> QED
  BY <1>4, <1>5, <1>6, <1>7, <1>8, <1>9, Zenon DEF TableFits, p, order

\* The tables of m2fj fit.
LEMMA Table_m2fj == TableFits("m2fj")
<1> DEFINE p == PlanOf["m2fj"]
           order == startRoleChildren["m2fj"]
<1>1. Roles("m2fj") = {"auth", "journal", "apply", "parser", "net"}
  BY DEF Roles, roleList
<1>2. DOMAIN p = {"auth", "journal", "apply", "parser", "net"}
  BY ZenonT(60) DEF PlanOf, AuthParserNetApplyJournalPlan
<1>3. \A r \in DOMAIN p : r \notin p[r] /\ \A q \in p[r] : q \in DOMAIN p /\ r \in p[q]
  BY <1>2 DEF PlanOf, AuthParserNetApplyJournalPlan
<1>4. order \in Seq(AllRoles \X AllRoles) /\ Len(order) = 5
  BY DEF startRoleChildren, AllRoles
<1>5. \A i \in 1 .. 5 : /\ order[i][1] \in Roles("m2fj")
                        /\ {order[i][2]} \cup Extra("m2fj", order[i][1]) = p[order[i][1]]
  BY <1>1 DEF startRoleChildren, Extra, ExtraPeerFor, PlanOf, AuthParserNetApplyJournalPlan
<1>6. \A r \in Roles("m2fj") : \E i \in 1 .. 5 :
        order[i][1] = r /\ \A j \in 1 .. 5 : order[j][1] = r => j = i
  BY <1>1 DEF startRoleChildren
<1>7. replaceRolePairs["m2fj"] = PlanPairs(p)
  <2>1. \A e \in replaceRolePairs["m2fj"] : \E r \in DOMAIN p : \E q \in p[r] : e = Pair(r, q)
    BY <1>2, ZenonT(60) DEF replaceRolePairs, PlanOf, AuthParserNetApplyJournalPlan
  <2>2. \A r \in DOMAIN p : \A q \in p[r] : Pair(r, q) \in replaceRolePairs["m2fj"]
    BY <1>2 DEF replaceRolePairs, PlanOf, AuthParserNetApplyJournalPlan, Pair
  <2> HIDE DEF p
  <2> QED
    BY <2>1, <2>2 DEF PlanPairs
<1>8. Launchable(p)
  <2> HIDE DEF p
  <2> QED
    BY <1>2, <1>3, LaunchableBy, Zenon DEF AllRoles
<1> HIDE DEF p, order
<1>9. Roles("m2fj") \subseteq AllRoles /\ Roles("m2fj") = DOMAIN p
  <2>1. Roles("m2fj") = DOMAIN p
    BY <1>1, <1>2, Zenon
  <2>2. Roles("m2fj") \subseteq AllRoles
    BY <1>1, Zenon DEF AllRoles
  <2> QED
    BY <2>1, <2>2, Zenon
<1> QED
  BY <1>4, <1>5, <1>6, <1>7, <1>8, <1>9, ZenonT(60) DEF TableFits, p, order

\* The tables of m2f fit.
LEMMA Table_m2f == TableFits("m2f")
<1> DEFINE p == PlanOf["m2f"]
           order == startRoleChildren["m2f"]
<1>1. Roles("m2f") = {"auth", "audit", "journal", "apply", "parser", "net"}
  BY DEF Roles, roleList
<1>2. DOMAIN p = {"auth", "audit", "journal", "apply", "parser", "net"}
  BY Zenon DEF PlanOf, AuthParserNetApplyJournalAuditPlan
<1>3. \A r \in DOMAIN p : r \notin p[r] /\ \A q \in p[r] : q \in DOMAIN p /\ r \in p[q]
  BY <1>2 DEF PlanOf, AuthParserNetApplyJournalAuditPlan
<1>4. order \in Seq(AllRoles \X AllRoles) /\ Len(order) = 6
  BY DEF startRoleChildren, AllRoles
<1>5. \A i \in 1 .. 6 : /\ order[i][1] \in Roles("m2f")
                        /\ {order[i][2]} \cup Extra("m2f", order[i][1]) = p[order[i][1]]
  BY <1>1 DEF startRoleChildren, Extra, ExtraPeerFor, PlanOf, AuthParserNetApplyJournalAuditPlan
<1>6. \A r \in Roles("m2f") : \E i \in 1 .. 6 :
        order[i][1] = r /\ \A j \in 1 .. 6 : order[j][1] = r => j = i
  BY <1>1 DEF startRoleChildren
<1>7. replaceRolePairs["m2f"] = PlanPairs(p)
  <2>1. \A e \in replaceRolePairs["m2f"] : \E r \in DOMAIN p : \E q \in p[r] : e = Pair(r, q)
    BY <1>2, Zenon DEF replaceRolePairs, PlanOf, AuthParserNetApplyJournalAuditPlan
  <2>2. \A r \in DOMAIN p : \A q \in p[r] : Pair(r, q) \in replaceRolePairs["m2f"]
    BY <1>2 DEF replaceRolePairs, PlanOf, AuthParserNetApplyJournalAuditPlan, Pair
  <2> HIDE DEF p
  <2> QED
    BY <2>1, <2>2, SMTT(30) DEF PlanPairs
<1>8. Launchable(p)
  <2> HIDE DEF p
  <2> QED
    BY <1>2, <1>3, LaunchableBy, Zenon DEF AllRoles
<1> HIDE DEF p, order
<1>9. Roles("m2f") \subseteq AllRoles /\ Roles("m2f") = DOMAIN p
  <2>1. Roles("m2f") = DOMAIN p
    BY <1>1, <1>2, Zenon
  <2>2. Roles("m2f") \subseteq AllRoles
    BY <1>1, Zenon DEF AllRoles
  <2> QED
    BY <2>1, <2>2, Zenon
<1> QED
  BY <1>4, <1>5, <1>6, <1>7, <1>8, <1>9, ZenonT(60) DEF TableFits, p, order

\* The tables of m2g fit.
LEMMA Table_m2g == TableFits("m2g")
<1> DEFINE p == PlanOf["m2g"]
           order == startRoleChildren["m2g"]
<1>1. Roles("m2g") = {"auth", "audit", "journal", "apply", "plan", "parser", "net"}
  BY DEF Roles, roleList
<1>2. DOMAIN p = {"auth", "audit", "journal", "apply", "plan", "parser", "net"}
  BY Zenon DEF PlanOf, AuthParserNetPlanApplyJournalAuditPlan
<1>3. \A r \in DOMAIN p : r \notin p[r] /\ \A q \in p[r] : q \in DOMAIN p /\ r \in p[q]
  BY <1>2 DEF PlanOf, AuthParserNetPlanApplyJournalAuditPlan
<1>4. order \in Seq(AllRoles \X AllRoles) /\ Len(order) = 7
  BY DEF startRoleChildren, AllRoles
<1>5. \A i \in 1 .. 7 : /\ order[i][1] \in Roles("m2g")
                        /\ {order[i][2]} \cup Extra("m2g", order[i][1]) = p[order[i][1]]
  BY <1>1 DEF startRoleChildren, Extra, ExtraPeerFor, PlanOf, AuthParserNetPlanApplyJournalAuditPlan
<1>6. \A r \in Roles("m2g") : \E i \in 1 .. 7 :
        order[i][1] = r /\ \A j \in 1 .. 7 : order[j][1] = r => j = i
  BY <1>1 DEF startRoleChildren
<1>7. replaceRolePairs["m2g"] = PlanPairs(p)
  <2>1. \A e \in replaceRolePairs["m2g"] : \E r \in DOMAIN p : \E q \in p[r] : e = Pair(r, q)
    BY <1>2, Zenon DEF replaceRolePairs, PlanOf, AuthParserNetPlanApplyJournalAuditPlan
  <2>2. \A r \in DOMAIN p : \A q \in p[r] : Pair(r, q) \in replaceRolePairs["m2g"]
    BY <1>2 DEF replaceRolePairs, PlanOf, AuthParserNetPlanApplyJournalAuditPlan, Pair
  <2> HIDE DEF p
  <2> QED
    BY <2>1, <2>2, SMTT(30) DEF PlanPairs
<1>8. Launchable(p)
  <2> HIDE DEF p
  <2> QED
    BY <1>2, <1>3, LaunchableBy, Zenon DEF AllRoles
<1> HIDE DEF p, order
<1>9. Roles("m2g") \subseteq AllRoles /\ Roles("m2g") = DOMAIN p
  <2>1. Roles("m2g") = DOMAIN p
    BY <1>1, <1>2, Zenon
  <2>2. Roles("m2g") \subseteq AllRoles
    BY <1>1, Zenon DEF AllRoles
  <2> QED
    BY <2>1, <2>2, Zenon
<1>10. \A i \in 1 .. Len(order) : /\ order[i][1] \in Roles("m2g")
                                   /\ {order[i][2]} \cup Extra("m2g", order[i][1]) = p[order[i][1]]
  BY <1>4, <1>5, Zenon
<1>11. \A r \in Roles("m2g") : \E i \in 1 .. Len(order) :
         order[i][1] = r /\ \A j \in 1 .. Len(order) : order[j][1] = r => j = i
  BY <1>4, <1>6, Zenon
<1> QED
  BY <1>4, <1>7, <1>8, <1>9, <1>10, <1>11, Zenon DEF TableFits, p, order

\* The tables of m2h fit.
LEMMA Table_m2h == TableFits("m2h")
<1> DEFINE p == PlanOf["m2h"]
           order == startRoleChildren["m2h"]
<1>1. Roles("m2h") = {"auth", "audit", "journal", "apply", "index", "plan", "parser", "net"}
  BY DEF Roles, roleList
<1>2. DOMAIN p = {"auth", "audit", "journal", "apply", "index", "plan", "parser", "net"}
  BY Zenon DEF PlanOf, m2hReceivePlan
<1>3. \A r \in DOMAIN p : r \notin p[r] /\ \A q \in p[r] : q \in DOMAIN p /\ r \in p[q]
  BY <1>2 DEF PlanOf, m2hReceivePlan
<1>4. order \in Seq(AllRoles \X AllRoles) /\ Len(order) = 8
  BY DEF startRoleChildren, AllRoles
<1>5. \A i \in 1 .. 8 : /\ order[i][1] \in Roles("m2h")
                        /\ {order[i][2]} \cup Extra("m2h", order[i][1]) = p[order[i][1]]
  BY <1>1 DEF startRoleChildren, Extra, ExtraPeerFor, PlanOf, m2hReceivePlan
<1>6. \A r \in Roles("m2h") : \E i \in 1 .. 8 :
        order[i][1] = r /\ \A j \in 1 .. 8 : order[j][1] = r => j = i
  BY <1>1 DEF startRoleChildren
<1>7. replaceRolePairs["m2h"] = PlanPairs(p)
  <2>1. \A e \in replaceRolePairs["m2h"] : \E r \in DOMAIN p : \E q \in p[r] : e = Pair(r, q)
    BY <1>2, Zenon DEF replaceRolePairs, PlanOf, m2hReceivePlan
  <2>2. \A r \in DOMAIN p : \A q \in p[r] : Pair(r, q) \in replaceRolePairs["m2h"]
    BY <1>2 DEF replaceRolePairs, PlanOf, m2hReceivePlan, Pair
  <2> HIDE DEF p
  <2> QED
    BY <2>1, <2>2, SMTT(30) DEF PlanPairs
<1>8. Launchable(p)
  <2> HIDE DEF p
  <2> QED
    BY <1>2, <1>3, LaunchableBy, Zenon DEF AllRoles
<1> HIDE DEF p, order
<1>9. Roles("m2h") \subseteq AllRoles /\ Roles("m2h") = DOMAIN p
  <2>1. Roles("m2h") = DOMAIN p
    BY <1>1, <1>2, Zenon
  <2>2. Roles("m2h") \subseteq AllRoles
    BY <1>1, Zenon DEF AllRoles
  <2> QED
    BY <2>1, <2>2, Zenon
<1> QED
  BY <1>4, <1>5, <1>6, <1>7, <1>8, <1>9, Zenon DEF TableFits, p, order

\* The tables of m2j fit.
LEMMA Table_m2j == TableFits("m2j")
<1> DEFINE p == PlanOf["m2j"]
           order == startRoleChildren["m2j"]
<1>1. Roles("m2j") = {"auth", "audit", "journal", "apply", "index", "plan", "parser", "net"}
  BY DEF Roles, roleList
<1>2. DOMAIN p = {"auth", "audit", "journal", "apply", "index", "plan", "parser", "net"}
  BY Zenon DEF PlanOf, m2hReceivePlan
<1>3. \A r \in DOMAIN p : r \notin p[r] /\ \A q \in p[r] : q \in DOMAIN p /\ r \in p[q]
  BY <1>2 DEF PlanOf, m2hReceivePlan
<1>4. order \in Seq(AllRoles \X AllRoles) /\ Len(order) = 8
  BY DEF startRoleChildren, AllRoles
<1>5. \A i \in 1 .. 8 : /\ order[i][1] \in Roles("m2j")
                        /\ {order[i][2]} \cup Extra("m2j", order[i][1]) = p[order[i][1]]
  BY <1>1 DEF startRoleChildren, Extra, ExtraPeerFor, PlanOf, m2hReceivePlan
<1>6. \A r \in Roles("m2j") : \E i \in 1 .. 8 :
        order[i][1] = r /\ \A j \in 1 .. 8 : order[j][1] = r => j = i
  BY <1>1 DEF startRoleChildren
<1>7. replaceRolePairs["m2j"] = PlanPairs(p)
  <2>1. \A e \in replaceRolePairs["m2j"] : \E r \in DOMAIN p : \E q \in p[r] : e = Pair(r, q)
    BY <1>2, Zenon DEF replaceRolePairs, PlanOf, m2hReceivePlan
  <2>2. \A r \in DOMAIN p : \A q \in p[r] : Pair(r, q) \in replaceRolePairs["m2j"]
    BY <1>2 DEF replaceRolePairs, PlanOf, m2hReceivePlan, Pair
  <2> HIDE DEF p
  <2> QED
    BY <2>1, <2>2, SMTT(30) DEF PlanPairs
<1>8. Launchable(p)
  <2> HIDE DEF p
  <2> QED
    BY <1>2, <1>3, LaunchableBy, Zenon DEF AllRoles
<1> HIDE DEF p, order
<1>9. Roles("m2j") \subseteq AllRoles /\ Roles("m2j") = DOMAIN p
  BY <1>1, <1>2, Zenon DEF AllRoles
<1>10. \A i \in 1 .. Len(order) : /\ order[i][1] \in Roles("m2j")
                                   /\ {order[i][2]} \cup Extra("m2j", order[i][1]) = p[order[i][1]]
  BY <1>4, <1>5, Zenon
<1>11. \A r \in Roles("m2j") : \E i \in 1 .. Len(order) :
         order[i][1] = r /\ \A j \in 1 .. Len(order) : order[j][1] = r => j = i
  BY <1>4, <1>6, Zenon
<1> QED
  BY <1>4, <1>7, <1>8, <1>9, <1>10, <1>11, Zenon DEF TableFits, p, order

\* The tables of every fleet fit.
LEMMA Tables == \A f \in Fleets : TableFits(f)
BY Table_m2a, Table_m2c, Table_m2d, Table_m2e, Table_m2fj, Table_m2f, Table_m2g, Table_m2h,
   Table_m2j, Zenon DEF Fleets

-----------------------------------------------------------------------------
(***************************************************************************)
(* The restart procedures.                                                 *)
(***************************************************************************)
\* What a concatenation of calls consists of.
LEMMA Concat ==
  ASSUME NEW a \in Seq(Step), NEW b \in Seq(Step)
  PROVE  /\ a \o b \in Seq(Step)
         /\ CallsOf(a \o b) = CallsOf(a) \cup CallsOf(b)
         /\ InOrder(a) /\ (\A s \in CallsOf(b) : s.op \notin {"replace", "supersede"})
              => InOrder(a \o b)
<1>1. a \o b \in Seq(Step)
  OBVIOUS
<1>2. DOMAIN (a \o b) = 1 .. Len(a) + Len(b) /\ DOMAIN a = 1 .. Len(a) /\ DOMAIN b = 1 .. Len(b)
      /\ Len(a) \in Nat /\ Len(b) \in Nat
  OBVIOUS
<1>3. \A i \in 1 .. Len(a) + Len(b) : (a \o b)[i] = IF i <= Len(a) THEN a[i] ELSE b[i - Len(a)]
  OBVIOUS
<1>4. CallsOf(a \o b) = CallsOf(a) \cup CallsOf(b)
  <2>1. \A i \in DOMAIN b : (a \o b)[i + Len(a)] = b[i] /\ i + Len(a) \in DOMAIN (a \o b)
    BY <1>2, <1>3
  <2>2. \A i \in DOMAIN a : (a \o b)[i] = a[i] /\ i \in DOMAIN (a \o b)
    BY <1>2, <1>3
  <2>3. \A i \in DOMAIN (a \o b) : i \in DOMAIN a \/ i - Len(a) \in DOMAIN b
    BY <1>2
  <2> DEFINE c == a \o b
  <2>4. \A i \in DOMAIN c : c[i] = IF i \in DOMAIN a THEN a[i] ELSE b[i - Len(a)]
    BY <1>2, <1>3
  <2> HIDE DEF c
  <2>5. \A s \in CallsOf(c) : s \in CallsOf(a) \cup CallsOf(b)
    BY <2>3, <2>4, Zenon DEF CallsOf, c
  <2>6. \A s \in CallsOf(a) : s \in CallsOf(c)
    BY <2>2, Zenon DEF CallsOf, c
  <2>7. \A s \in CallsOf(b) : s \in CallsOf(c)
    BY <2>1, Zenon DEF CallsOf, c
  <2> QED
    BY <2>5, <2>6, <2>7, Zenon DEF c
<1>5. ASSUME InOrder(a), \A s \in CallsOf(b) : s.op \notin {"replace", "supersede"}
      PROVE  InOrder(a \o b)
  <2>1. \A i \in DOMAIN b : b[i].op \notin {"replace", "supersede"}
    BY <1>5, Zenon DEF CallsOf
  <2> DEFINE c == a \o b
  <2>2. \A i \in DOMAIN c : c[i].op \in {"replace", "supersede"} => i \in DOMAIN a /\ c[i] = a[i]
    BY <1>2, <1>3, <2>1
  <2>3. \A i \in DOMAIN a : \A j \in 1 .. (i - 1) : j \in DOMAIN a /\ c[j] = a[j]
    BY <1>2, <1>3
  <2> HIDE DEF c
  <2>4. InOrder(c)
    BY <2>2, <2>3, <1>5 DEF InOrder
  <2> QED
    BY <2>4, Zenon DEF c
<1> QED
  BY <1>1, <1>4, <1>5, Zenon

\* It is enough to look at one orientation of each replaced pair.
LEMMA RenewingBy ==
  ASSUME NEW S,
         \A s \in S : s.op = "replace" => \A e \in s.pairs : \E x, y \in AllRoles :
           /\ e = Pair(x, y) /\ (\E t \in S : Renews(t, x, y)) /\ (\E t \in S : Renews(t, y, x))
  PROVE  Renewing(S)
BY DEF Renewing, Pair

\* The call that only looks whether r is still tracked.
Same(r) == [op |-> "same", role |-> r, peer |-> r]

\* A procedure that suits fleet f.
ProcedureFits(f, p) ==
  /\ p.calls \in Seq(Step) /\ Fitting(f, p.calls)
  /\ Selective(CallsOf(p.calls), p.arm) /\ Starting(CallsOf(p.calls))
  /\ p.kill \subseteq AllRoles /\ p.arm \subseteq AllRoles

\* Its obligations, call by call.
LEMMA Fits ==
  ASSUME NEW f, NEW p, NEW S, NEW pairs, p.calls \in Seq(Step), InOrder(p.calls),
         CallsOf(p.calls) = S,
         \A s \in S : Suits(f, s),
         \A s \in S : s.op = "replace" => s.pairs = pairs,
         \A e \in pairs : \E x, y \in AllRoles :
           e = Pair(x, y) /\ (\E t \in S : Renews(t, x, y)) /\ (\E t \in S : Renews(t, y, x)),
         Selective(S, p.arm), Starting(S),
         p.kill \subseteq AllRoles, p.arm \subseteq AllRoles
  PROVE  ProcedureFits(f, p)
BY RenewingBy, Zenon DEF ProcedureFits, Fitting

\* The calls of restartParserDownM2d suit its fleet.
LEMMA ParserM2dCalls ==
  \A s \in {StartOf("apply", "parser"), StartOf("parser", "net"),
                    Confer("net", "parser")} : Suits("m2d", s)
BY DEF Suits, StartOf, Confer, Supersede, Same, Extra, ExtraPeerFor, keepKeyCh, PlanOf, Roles, roleList,
       AuthParserNetApplyPlan

\* restartParserDownM2d suits m2d.
LEMMA ParserM2d ==
  ProcedureFits("m2d", restartParserDownM2d)
<1> DEFINE p == restartParserDownM2d
<1> DEFINE pairs == {Pair("net", "parser"), Pair("parser", "apply")}
           S == {Replace(pairs), StartOf("apply", "parser"),
                  StartOf("parser", "net"), Confer("net", "parser")}
<1>1. p.calls \in Seq(Step) /\ InOrder(p.calls)
  BY DEF restartParserDownM2d, Procedure, Replace, StartOf, Confer, Supersede, Same, Step, AllRoles, Pair, InOrder
<1>2. CallsOf(p.calls) = S
  BY DEF restartParserDownM2d, Procedure, CallsOf
<1>3. p.arm = {"apply", "parser"} /\ p.kill = {"parser", "apply"}
  BY Zenon DEF restartParserDownM2d, Procedure
<1>4. \A s \in S : Suits("m2d", s)
  BY ParserM2dCalls DEF Replace, Suits
<1>5. \A s \in S : s.op = "replace" => s.pairs = pairs
  BY DEF Replace, StartOf, Confer, Supersede, Same
<1>6. \A e \in pairs : \E x, y \in AllRoles :
       e = Pair(x, y) /\ (\E t \in S : Renews(t, x, y)) /\ (\E t \in S : Renews(t, y, x))
  BY Zenon DEF Replace, StartOf, Confer, Supersede, Same, Renews, AllRoles
<1>7. Selective(S, p.arm) /\ Starting(S)
  BY <1>3 DEF Replace, StartOf, Confer, Supersede, Same, Selective, Starting
<1>8. p.kill \subseteq AllRoles /\ p.arm \subseteq AllRoles
  BY <1>3, Zenon DEF AllRoles
<1> HIDE DEF p, S, pairs
<1>9. ProcedureFits("m2d", p)
  BY <1>1, <1>2, <1>4, <1>5, <1>6, <1>7, <1>8, Fits, Zenon
<1> QED
  BY <1>9, Zenon DEF p

\* The calls of restartParserDownM2g suit its fleet.
LEMMA ParserM2gCalls ==
  \A s \in {StartOf("audit", "journal"), StartOf("journal", "apply"),
                    StartOf("apply", "plan"), StartOf("plan", "parser"),
                    StartOf("parser", "net"), Confer("net", "parser")} : Suits("m2g", s)
BY DEF Suits, StartOf, Confer, Supersede, Same, Extra, ExtraPeerFor, keepKeyCh, PlanOf, Roles, roleList,
       AuthParserNetPlanApplyJournalAuditPlan

\* restartParserDownM2g suits m2g.
LEMMA ParserM2g ==
  ProcedureFits("m2g", restartParserDownM2g)
<1> DEFINE p == restartParserDownM2g
<1> DEFINE pairs == {Pair("net", "parser"), Pair("parser", "plan"),
                      Pair("plan", "apply"), Pair("apply", "journal"),
                      Pair("journal", "audit")}
           S == {Replace(pairs), StartOf("audit", "journal"),
                  StartOf("journal", "apply"), StartOf("apply", "plan"),
                  StartOf("plan", "parser"), StartOf("parser", "net"),
                  Confer("net", "parser")}
<1>1. p.calls \in Seq(Step) /\ InOrder(p.calls)
  BY DEF restartParserDownM2g, Procedure, Replace, StartOf, Confer, Supersede, Same, Step, AllRoles, Pair, InOrder
<1>2. CallsOf(p.calls) = S
  BY DEF restartParserDownM2g, Procedure, CallsOf
<1>3. p.arm = {"audit", "journal", "apply", "plan", "parser"} /\ p.kill = {"parser", "plan", "apply", "journal", "audit"}
  BY Zenon DEF restartParserDownM2g, Procedure
<1>4. \A s \in S : Suits("m2g", s)
  BY ParserM2gCalls DEF Replace, Suits
<1>5. \A s \in S : s.op = "replace" => s.pairs = pairs
  BY DEF Replace, StartOf, Confer, Supersede, Same
<1>6. \A e \in pairs : \E x, y \in AllRoles :
       e = Pair(x, y) /\ (\E t \in S : Renews(t, x, y)) /\ (\E t \in S : Renews(t, y, x))
  BY ZenonT(60) DEF Replace, StartOf, Confer, Supersede, Same, Renews, AllRoles
<1>7. Selective(S, p.arm) /\ Starting(S)
  BY <1>3 DEF Replace, StartOf, Confer, Supersede, Same, Selective, Starting
<1>8. p.kill \subseteq AllRoles /\ p.arm \subseteq AllRoles
  BY <1>3, Zenon DEF AllRoles
<1> HIDE DEF p, S, pairs
<1>9. ProcedureFits("m2g", p)
  BY <1>1, <1>2, <1>4, <1>5, <1>6, <1>7, <1>8, Fits, Zenon
<1> QED
  BY <1>9, Zenon DEF p

\* The calls of RestartOne suit its fleets.
LEMMA OneNetCalls ==
  ASSUME NEW f \in {"m2a", "m2c"}
  PROVE  \A s \in {Supersede("apply"), StartOf("apply", "net"),
                    Confer("net", "apply")} : Suits(f, s)
<1>1. CASE f = "m2a"
  BY <1>1 DEF Suits, StartOf, Confer, Supersede, Same, Extra, ExtraPeerFor, keepKeyCh, PlanOf, Roles, roleList,
         NetApplyPlan
<1>2. CASE f = "m2c"
  BY <1>2 DEF Suits, StartOf, Confer, Supersede, Same, Extra, ExtraPeerFor, keepKeyCh, PlanOf, Roles, roleList,
         AuthNetApplyPlan
<1> QED
  BY <1>1, <1>2, Zenon

\* RestartOne rebinds net in m2a and m2c.
LEMMA OneNet ==
  ASSUME NEW f \in {"m2a", "m2c"}
  PROVE  ProcedureFits(f, RestartOne("apply", "net"))
<1> DEFINE p == RestartOne("apply", "net")
<1> DEFINE pairs == {Pair("apply", "net")}
           S == {Supersede("apply"), Replace(pairs), StartOf("apply", "net"),
                  Confer("net", "apply")}
<1>1. p.calls \in Seq(Step) /\ InOrder(p.calls)
  BY DEF RestartOne, Procedure, Replace, StartOf, Confer, Supersede, Same, Step, AllRoles, Pair, InOrder
<1>2. CallsOf(p.calls) = S
  BY DEF RestartOne, Procedure, CallsOf
<1>3. p.arm = {"apply"} /\ p.kill = {}
  BY Zenon DEF RestartOne, Procedure
<1>4. \A s \in S : Suits(f, s)
  BY OneNetCalls DEF Replace, Suits
<1>5. \A s \in S : s.op = "replace" => s.pairs = pairs
  BY DEF Replace, StartOf, Confer, Supersede, Same
<1>6. \A e \in pairs : \E x, y \in AllRoles :
       e = Pair(x, y) /\ (\E t \in S : Renews(t, x, y)) /\ (\E t \in S : Renews(t, y, x))
  BY Zenon DEF Replace, StartOf, Confer, Supersede, Same, Renews, AllRoles
<1>7. Selective(S, p.arm) /\ Starting(S)
  BY <1>3 DEF Replace, StartOf, Confer, Supersede, Same, Selective, Starting
<1>8. p.kill \subseteq AllRoles /\ p.arm \subseteq AllRoles
  BY <1>3, Zenon DEF AllRoles
<1> HIDE DEF p, S, pairs
<1>9. ProcedureFits(f, p)
  BY <1>1, <1>2, <1>4, <1>5, <1>6, <1>7, <1>8, Fits, Zenon
<1> QED
  BY <1>9, Zenon DEF p

\* The calls of RestartOne suit its fleet.
LEMMA OneParserCalls ==
  \A s \in {Supersede("apply"), StartOf("apply", "parser"),
                    Confer("parser", "apply")} : Suits("m2d", s)
BY DEF Suits, StartOf, Confer, Supersede, Same, Extra, ExtraPeerFor, keepKeyCh, PlanOf, Roles, roleList,
       AuthParserNetApplyPlan

\* RestartOne rebinds parser in m2d.
LEMMA OneParser ==
  ProcedureFits("m2d", RestartOne("apply", "parser"))
<1> DEFINE p == RestartOne("apply", "parser")
<1> DEFINE pairs == {Pair("apply", "parser")}
           S == {Supersede("apply"), Replace(pairs), StartOf("apply", "parser"),
                  Confer("parser", "apply")}
<1>1. p.calls \in Seq(Step) /\ InOrder(p.calls)
  BY DEF RestartOne, Procedure, Replace, StartOf, Confer, Supersede, Same, Step, AllRoles, Pair, InOrder
<1>2. CallsOf(p.calls) = S
  BY DEF RestartOne, Procedure, CallsOf
<1>3. p.arm = {"apply"} /\ p.kill = {}
  BY Zenon DEF RestartOne, Procedure
<1>4. \A s \in S : Suits("m2d", s)
  BY OneParserCalls DEF Replace, Suits
<1>5. \A s \in S : s.op = "replace" => s.pairs = pairs
  BY DEF Replace, StartOf, Confer, Supersede, Same
<1>6. \A e \in pairs : \E x, y \in AllRoles :
       e = Pair(x, y) /\ (\E t \in S : Renews(t, x, y)) /\ (\E t \in S : Renews(t, y, x))
  BY Zenon DEF Replace, StartOf, Confer, Supersede, Same, Renews, AllRoles
<1>7. Selective(S, p.arm) /\ Starting(S)
  BY <1>3 DEF Replace, StartOf, Confer, Supersede, Same, Selective, Starting
<1>8. p.kill \subseteq AllRoles /\ p.arm \subseteq AllRoles
  BY <1>3, Zenon DEF AllRoles
<1> HIDE DEF p, S, pairs
<1>9. ProcedureFits("m2d", p)
  BY <1>1, <1>2, <1>4, <1>5, <1>6, <1>7, <1>8, Fits, Zenon
<1> QED
  BY <1>9, Zenon DEF p

\* The calls of restartAuthPrimary suit its fleets.
LEMMA AuthCalls ==
  ASSUME NEW f \in {"m2c", "m2d", "m2g", "m2h", "m2j"}
  PROVE  \A s \in {StartOf("auth", "net"), Confer("net", "auth"),
                    Confer("audit", "auth")} : Suits(f, s)
<1>1. CASE f = "m2c"
  BY <1>1 DEF Suits, StartOf, Confer, Supersede, Same, Extra, ExtraPeerFor, keepKeyCh, PlanOf, Roles, roleList,
         AuthNetApplyPlan
<1>2. CASE f = "m2d"
  BY <1>2 DEF Suits, StartOf, Confer, Supersede, Same, Extra, ExtraPeerFor, keepKeyCh, PlanOf, Roles, roleList,
         AuthParserNetApplyPlan
<1>3. CASE f = "m2g"
  BY <1>3 DEF Suits, StartOf, Confer, Supersede, Same, Extra, ExtraPeerFor, keepKeyCh, PlanOf, Roles, roleList,
         AuthParserNetPlanApplyJournalAuditPlan
<1>4. CASE f = "m2h"
  BY <1>4, SMTT(60) DEF Suits, StartOf, Confer, Supersede, Same, Extra, ExtraPeerFor, keepKeyCh, PlanOf, Roles, roleList,
         m2hReceivePlan
<1>5. CASE f = "m2j"
  BY <1>5 DEF Suits, StartOf, Confer, Supersede, Same, Extra, ExtraPeerFor, keepKeyCh, PlanOf, Roles, roleList,
         m2hReceivePlan
<1> QED
  BY <1>1, <1>2, <1>3, <1>4, <1>5, Zenon

\* restartAuthPrimary suits every fleet it is called in.
LEMMA Auth ==
  ASSUME NEW f \in {"m2c", "m2d", "m2g", "m2h", "m2j"}
  PROVE  ProcedureFits(f, restartAuthPrimary)
<1> DEFINE p == restartAuthPrimary
<1>1. CASE srv.peers
  <2> DEFINE pairs == {Pair("net", "auth"), Pair("auth", "audit")}
             S == {Replace(pairs), StartOf("auth", "net"), Confer("net", "auth"),
                    Confer("audit", "auth")}
  <2> DEFINE s1 == <<Replace(pairs), StartOf("auth", "net"), Confer("net", "auth")>>
  <2> DEFINE s2 == <<Confer("audit", "auth")>>
  <2>1a. s1 \in Seq(Step)
    BY DEF Replace, StartOf, Confer, Supersede, Same, Step, AllRoles, Pair
  <2>1b. CallsOf(s1) = {Replace(pairs), StartOf("auth", "net"), Confer("net", "auth")}
    BY DEF CallsOf
  <2>1c. InOrder(s1)
    BY <2>1b DEF Replace, StartOf, Confer, Supersede, Same, InOrder
  <2>2a. s2 \in Seq(Step)
    BY DEF Replace, StartOf, Confer, Supersede, Same, Step, AllRoles, Pair
  <2>2b. CallsOf(s2) = {Confer("audit", "auth")}
    BY DEF CallsOf
  <2>2c. \A s \in CallsOf(s2) : s.op \notin {"replace", "supersede"}
    BY <2>2b DEF Replace, StartOf, Confer, Supersede, Same, InOrder
  <2>0. p.calls = s1 \o s2
    <3>1. replaceAuthAuditPair = {Pair("auth", "audit")}
      BY <1>1, Zenon DEF replaceAuthAuditPair
    <3>2. {Pair("net", "auth")} \cup replaceAuthAuditPair = pairs
      BY <3>1, Zenon
    <3> QED
      BY <1>1, <3>2, Zenon DEF restartAuthPrimary, Procedure, If, sendAuthAuditPeerFD, Same
  <2> HIDE DEF p, S, pairs, s1, s2
  <2>2d. /\ s1 \o s2 \in Seq(Step) /\ InOrder(s1 \o s2)
        /\ CallsOf(s1 \o s2) = CallsOf(s1) \cup CallsOf(s2)
    BY <2>1a, <2>1c, <2>2a, <2>2c, Concat, Zenon
  <2>1. p.calls \in Seq(Step) /\ InOrder(p.calls)
    BY <2>0, <2>2d, Zenon
  <2>2. CallsOf(p.calls) = S
    BY <2>0, <2>1b, <2>2b, <2>2d, Zenon DEF S
  <2> USE DEF p, S, pairs
  <2>3. p.arm = {"auth"} /\ p.kill = {"auth"}
    BY ZenonT(60) DEF restartAuthPrimary, Procedure
  <2>4. \A s \in S : Suits(f, s)
    BY AuthCalls DEF Replace, Suits
  <2>5. \A s \in S : s.op = "replace" => s.pairs = pairs
    BY DEF Replace, StartOf, Confer, Supersede, Same
  <2>6. \A e \in pairs : \E x, y \in AllRoles :
         e = Pair(x, y) /\ (\E t \in S : Renews(t, x, y)) /\ (\E t \in S : Renews(t, y, x))
    BY Zenon DEF Replace, StartOf, Confer, Supersede, Same, Renews, AllRoles
  <2>7. Selective(S, p.arm) /\ Starting(S)
    BY <2>3 DEF Replace, StartOf, Confer, Supersede, Same, Selective, Starting
  <2>8. p.kill \subseteq AllRoles /\ p.arm \subseteq AllRoles
    BY <2>3, Zenon DEF AllRoles
  <2> HIDE DEF p, S, pairs
  <2>9. ProcedureFits(f, p)
    BY <2>1, <2>2, <2>4, <2>5, <2>6, <2>7, <2>8, Fits, Zenon
  <2> QED
    BY <2>9, Zenon DEF p
<1>2. CASE ~srv.peers
  <2> DEFINE pairs == {Pair("net", "auth")}
             S == {Replace(pairs), StartOf("auth", "net"), Confer("net", "auth")}
  <2> DEFINE s1 == <<Replace(pairs), StartOf("auth", "net"), Confer("net", "auth")>>
  <2> DEFINE s2 == <<>>
  <2>1a. s1 \in Seq(Step)
    BY DEF Replace, StartOf, Confer, Supersede, Same, Step, AllRoles, Pair
  <2>1b. CallsOf(s1) = {Replace(pairs), StartOf("auth", "net"), Confer("net", "auth")}
    BY DEF CallsOf
  <2>1c. InOrder(s1)
    BY <2>1b DEF Replace, StartOf, Confer, Supersede, Same, InOrder
  <2>2a. s2 \in Seq(Step)
    BY DEF Replace, StartOf, Confer, Supersede, Same, Step, AllRoles, Pair
  <2>2b. CallsOf(s2) = {}
    BY DEF CallsOf
  <2>2c. \A s \in CallsOf(s2) : s.op \notin {"replace", "supersede"}
    BY <2>2b, Zenon DEF Replace, StartOf, Confer, Supersede, Same, InOrder
  <2>0. p.calls = s1 \o s2
    <3>1. replaceAuthAuditPair = {}
      BY <1>2, Zenon DEF replaceAuthAuditPair
    <3>2. {Pair("net", "auth")} \cup replaceAuthAuditPair = pairs
      BY <3>1, Zenon
    <3> QED
      BY <1>2, <3>2, Zenon DEF restartAuthPrimary, Procedure, If, sendAuthAuditPeerFD, Same
  <2> HIDE DEF p, S, pairs, s1, s2
  <2>2d. /\ s1 \o s2 \in Seq(Step) /\ InOrder(s1 \o s2)
        /\ CallsOf(s1 \o s2) = CallsOf(s1) \cup CallsOf(s2)
    BY <2>1a, <2>1c, <2>2a, <2>2c, Concat, Zenon
  <2>1. p.calls \in Seq(Step) /\ InOrder(p.calls)
    BY <2>0, <2>2d, Zenon
  <2>2. CallsOf(p.calls) = S
    BY <2>0, <2>1b, <2>2b, <2>2d, Zenon DEF S
  <2> USE DEF p, S, pairs
  <2>3. p.arm = {"auth"} /\ p.kill = {"auth"}
    BY ZenonT(60) DEF restartAuthPrimary, Procedure
  <2>4. \A s \in S : Suits(f, s)
    BY AuthCalls DEF Replace, Suits
  <2>5. \A s \in S : s.op = "replace" => s.pairs = pairs
    BY DEF Replace, StartOf, Confer, Supersede, Same
  <2>6. \A e \in pairs : \E x, y \in AllRoles :
         e = Pair(x, y) /\ (\E t \in S : Renews(t, x, y)) /\ (\E t \in S : Renews(t, y, x))
    BY Zenon DEF Replace, StartOf, Confer, Supersede, Same, Renews, AllRoles
  <2>7. Selective(S, p.arm) /\ Starting(S)
    BY <2>3 DEF Replace, StartOf, Confer, Supersede, Same, Selective, Starting
  <2>8. p.kill \subseteq AllRoles /\ p.arm \subseteq AllRoles
    BY <2>3, Zenon DEF AllRoles
  <2> HIDE DEF p, S, pairs
  <2>9. ProcedureFits(f, p)
    BY <2>1, <2>2, <2>4, <2>5, <2>6, <2>7, <2>8, Fits, Zenon
  <2> QED
    BY <2>9, Zenon DEF p
<1> QED
  BY <1>1, <1>2, Zenon

\* The calls of restartParserDownM2h suit its fleets.
LEMMA ParserM2hCalls ==
  ASSUME NEW f \in {"m2h", "m2j"}
  PROVE  \A s \in {StartOf("audit", "journal"), Confer("auth", "audit"),
                    StartOf("journal", "apply"), StartOf("apply", "index"),
                    StartOf("index", "plan"), StartOf("plan", "parser"),
                    StartOf("parser", "net"), Confer("net", "parser")} : Suits(f, s)
<1>1. CASE f = "m2h"
  BY <1>1 DEF Suits, StartOf, Confer, Supersede, Same, Extra, ExtraPeerFor, keepKeyCh, PlanOf, Roles, roleList,
         m2hReceivePlan
<1>2. CASE f = "m2j"
  BY <1>2 DEF Suits, StartOf, Confer, Supersede, Same, Extra, ExtraPeerFor, keepKeyCh, PlanOf, Roles, roleList,
         m2hReceivePlan
<1> QED
  BY <1>1, <1>2, Zenon

\* restartParserDownM2h suits m2h and m2j.
LEMMA ParserM2h ==
  ASSUME NEW f \in {"m2h", "m2j"}
  PROVE  ProcedureFits(f, restartParserDownM2h)
<1> DEFINE p == restartParserDownM2h
<1>1. CASE srv.peers
  <2> DEFINE pairs == {Pair("net", "parser"), Pair("parser", "plan"),
                        Pair("plan", "index"), Pair("index", "apply"),
                        Pair("apply", "journal"), Pair("journal", "audit"),
                        Pair("auth", "audit")}
             S == {Replace(pairs), StartOf("audit", "journal"),
                    Confer("auth", "audit"), StartOf("journal", "apply"),
                    StartOf("apply", "index"), StartOf("index", "plan"),
                    StartOf("plan", "parser"), StartOf("parser", "net"),
                    Confer("net", "parser")}
  <2> DEFINE s1 == <<Replace(pairs), StartOf("audit", "journal")>>
  <2> DEFINE s2 == <<Confer("auth", "audit")>>
  <2> DEFINE s3 == <<StartOf("journal", "apply"), StartOf("apply", "index"), StartOf("index", "plan"), StartOf("plan", "parser"), StartOf("parser", "net"), Confer("net", "parser")>>
  <2>1a. s1 \in Seq(Step)
    BY DEF Replace, StartOf, Confer, Supersede, Same, Step, AllRoles, Pair
  <2>1b. CallsOf(s1) = {Replace(pairs), StartOf("audit", "journal")}
    BY SMTT(60) DEF CallsOf
  <2>1c. InOrder(s1)
    BY <2>1b DEF Replace, StartOf, Confer, Supersede, Same, InOrder
  <2>2a. s2 \in Seq(Step)
    BY DEF Replace, StartOf, Confer, Supersede, Same, Step, AllRoles, Pair
  <2>2b. CallsOf(s2) = {Confer("auth", "audit")}
    BY DEF CallsOf
  <2>2c. \A s \in CallsOf(s2) : s.op \notin {"replace", "supersede"}
    BY <2>2b DEF Replace, StartOf, Confer, Supersede, Same, InOrder
  <2>3a. s3 \in Seq(Step)
    BY DEF Replace, StartOf, Confer, Supersede, Same, Step, AllRoles, Pair
  <2>3b. CallsOf(s3) = {StartOf("journal", "apply"), StartOf("apply", "index"), StartOf("index", "plan"), StartOf("plan", "parser"), StartOf("parser", "net"), Confer("net", "parser")}
    BY DEF CallsOf
  <2>3c. \A s \in CallsOf(s3) : s.op \notin {"replace", "supersede"}
    BY <2>3b DEF Replace, StartOf, Confer, Supersede, Same, InOrder
  <2>0. p.calls = s1 \o s2 \o s3
    <3>1. replaceAuthAuditPair = {Pair("auth", "audit")}
      BY <1>1, Zenon DEF replaceAuthAuditPair
    <3>2. {Pair("net", "parser"), Pair("parser", "plan"), Pair("plan", "index"), Pair("index", "apply"), Pair("apply", "journal"), Pair("journal", "audit")} \cup replaceAuthAuditPair = pairs
      BY <3>1, Zenon
    <3> QED
      BY <1>1, <3>2, Zenon DEF restartParserDownM2h, Procedure, If, sendAuthAuditPeerFD, Same
  <2> HIDE DEF p, S, pairs, s1, s2, s3
  <2>2d. /\ s1 \o s2 \in Seq(Step) /\ InOrder(s1 \o s2)
        /\ CallsOf(s1 \o s2) = CallsOf(s1) \cup CallsOf(s2)
    BY <2>1a, <2>1c, <2>2a, <2>2c, Concat, Zenon
  <2>3d. /\ s1 \o s2 \o s3 \in Seq(Step) /\ InOrder(s1 \o s2 \o s3)
        /\ CallsOf(s1 \o s2 \o s3) = CallsOf(s1 \o s2) \cup CallsOf(s3)
    BY <2>2d, <2>3a, <2>3c, Concat, Zenon
  <2>1. p.calls \in Seq(Step) /\ InOrder(p.calls)
    BY <2>0, <2>3d, Zenon
  <2>2. CallsOf(p.calls) = S
    BY <2>0, <2>1b, <2>2b, <2>3b, <2>2d, <2>3d, Zenon DEF S
  <2> USE DEF p, S, pairs
  <2>3. p.arm = {"audit", "journal", "apply", "index", "plan", "parser"} /\ p.kill = {"parser", "plan", "index", "apply", "journal", "audit"}
    BY ZenonT(60) DEF restartParserDownM2h, Procedure
  <2>4. \A s \in S : Suits(f, s)
    BY ParserM2hCalls, SMTT(60) DEF Replace, Suits
  <2>5. \A s \in S : s.op = "replace" => s.pairs = pairs
    BY DEF Replace, StartOf, Confer, Supersede, Same
  <2>6. \A e \in pairs : \E x, y \in AllRoles :
         e = Pair(x, y) /\ (\E t \in S : Renews(t, x, y)) /\ (\E t \in S : Renews(t, y, x))
    BY DEF Replace, StartOf, Confer, Supersede, Same, Renews, AllRoles
  <2>7. Selective(S, p.arm) /\ Starting(S)
    BY <2>3 DEF Replace, StartOf, Confer, Supersede, Same, Selective, Starting
  <2>8. p.kill \subseteq AllRoles /\ p.arm \subseteq AllRoles
    BY <2>3, Zenon DEF AllRoles
  <2> HIDE DEF p, S, pairs
  <2>9. ProcedureFits(f, p)
    BY <2>1, <2>2, <2>4, <2>5, <2>6, <2>7, <2>8, Fits, Zenon
  <2> QED
    BY <2>9, Zenon DEF p
<1>2. CASE ~srv.peers
  <2> DEFINE pairs == {Pair("net", "parser"), Pair("parser", "plan"),
                        Pair("plan", "index"), Pair("index", "apply"),
                        Pair("apply", "journal"), Pair("journal", "audit")}
             S == {Replace(pairs), StartOf("audit", "journal"),
                    StartOf("journal", "apply"), StartOf("apply", "index"),
                    StartOf("index", "plan"), StartOf("plan", "parser"),
                    StartOf("parser", "net"), Confer("net", "parser")}
  <2> DEFINE s1 == <<Replace(pairs), StartOf("audit", "journal")>>
  <2> DEFINE s2 == <<>>
  <2> DEFINE s3 == <<StartOf("journal", "apply"), StartOf("apply", "index"), StartOf("index", "plan"), StartOf("plan", "parser"), StartOf("parser", "net"), Confer("net", "parser")>>
  <2>1a. s1 \in Seq(Step)
    BY DEF Replace, StartOf, Confer, Supersede, Same, Step, AllRoles, Pair
  <2>1b. CallsOf(s1) = {Replace(pairs), StartOf("audit", "journal")}
    BY DEF CallsOf
  <2>1c. InOrder(s1)
    BY <2>1b DEF Replace, StartOf, Confer, Supersede, Same, InOrder
  <2>2a. s2 \in Seq(Step)
    BY DEF Replace, StartOf, Confer, Supersede, Same, Step, AllRoles, Pair
  <2>2b. CallsOf(s2) = {}
    BY DEF CallsOf
  <2>2c. \A s \in CallsOf(s2) : s.op \notin {"replace", "supersede"}
    BY <2>2b, Zenon DEF Replace, StartOf, Confer, Supersede, Same, InOrder
  <2>3a. s3 \in Seq(Step)
    BY DEF Replace, StartOf, Confer, Supersede, Same, Step, AllRoles, Pair
  <2>3b. CallsOf(s3) = {StartOf("journal", "apply"), StartOf("apply", "index"), StartOf("index", "plan"), StartOf("plan", "parser"), StartOf("parser", "net"), Confer("net", "parser")}
    BY DEF CallsOf
  <2>3c. \A s \in CallsOf(s3) : s.op \notin {"replace", "supersede"}
    BY <2>3b DEF Replace, StartOf, Confer, Supersede, Same, InOrder
  <2>0. p.calls = s1 \o s2 \o s3
    <3>1. replaceAuthAuditPair = {}
      BY <1>2, Zenon DEF replaceAuthAuditPair
    <3>2. {Pair("net", "parser"), Pair("parser", "plan"), Pair("plan", "index"), Pair("index", "apply"), Pair("apply", "journal"), Pair("journal", "audit")} \cup replaceAuthAuditPair = pairs
      BY <3>1, Zenon
    <3> QED
      BY <1>2, <3>2, Zenon DEF restartParserDownM2h, Procedure, If, sendAuthAuditPeerFD, Same
  <2> HIDE DEF p, S, pairs, s1, s2, s3
  <2>2d. /\ s1 \o s2 \in Seq(Step) /\ InOrder(s1 \o s2)
        /\ CallsOf(s1 \o s2) = CallsOf(s1) \cup CallsOf(s2)
    BY <2>1a, <2>1c, <2>2a, <2>2c, Concat, Zenon
  <2>3d. /\ s1 \o s2 \o s3 \in Seq(Step) /\ InOrder(s1 \o s2 \o s3)
        /\ CallsOf(s1 \o s2 \o s3) = CallsOf(s1 \o s2) \cup CallsOf(s3)
    BY <2>2d, <2>3a, <2>3c, Concat, Zenon
  <2>1. p.calls \in Seq(Step) /\ InOrder(p.calls)
    BY <2>0, <2>3d, Zenon
  <2>2. CallsOf(p.calls) = S
    BY <2>0, <2>1b, <2>2b, <2>3b, <2>2d, <2>3d, Zenon DEF S
  <2> USE DEF p, S, pairs
  <2>3. p.arm = {"audit", "journal", "apply", "index", "plan", "parser"} /\ p.kill = {"parser", "plan", "index", "apply", "journal", "audit"}
    BY ZenonT(60) DEF restartParserDownM2h, Procedure
  <2>4. \A s \in S : Suits(f, s)
    BY ParserM2hCalls DEF Replace, Suits
  <2>5. \A s \in S : s.op = "replace" => s.pairs = pairs
    BY DEF Replace, StartOf, Confer, Supersede, Same
  <2>6. \A e \in pairs : \E x, y \in AllRoles :
         e = Pair(x, y) /\ (\E t \in S : Renews(t, x, y)) /\ (\E t \in S : Renews(t, y, x))
    BY ZenonT(60) DEF Replace, StartOf, Confer, Supersede, Same, Renews, AllRoles
  <2>7. Selective(S, p.arm) /\ Starting(S)
    BY <2>3 DEF Replace, StartOf, Confer, Supersede, Same, Selective, Starting
  <2>8. p.kill \subseteq AllRoles /\ p.arm \subseteq AllRoles
    BY <2>3, Zenon DEF AllRoles
  <2> HIDE DEF p, S, pairs
  <2>9. ProcedureFits(f, p)
    BY <2>1, <2>2, <2>4, <2>5, <2>6, <2>7, <2>8, Fits, Zenon
  <2> QED
    BY <2>9, Zenon DEF p
<1> QED
  BY <1>1, <1>2, Zenon

\* The calls of restartApplySubtree suit its fleet.
LEMMA ApplyPlanCalls ==
  \A s \in {StartOf("audit", "journal"), Confer("auth", "audit"),
                    StartOf("journal", "apply"), StartOf("apply", "plan"),
                    Confer("plan", "apply"), Same("auth")} : Suits("m2g", s)
BY DEF Suits, StartOf, Confer, Supersede, Same, Extra, ExtraPeerFor, keepKeyCh, PlanOf, Roles, roleList,
       AuthParserNetPlanApplyJournalAuditPlan

\* restartApplySubtree rebinds plan in m2g.
LEMMA ApplyPlan ==
  ProcedureFits("m2g", restartApplySubtree("plan"))
<1> DEFINE p == restartApplySubtree("plan")
<1>1. CASE srv.peers
  <2> DEFINE pairs == {Pair("plan", "apply"), Pair("apply", "journal"),
                        Pair("journal", "audit"), Pair("auth", "audit")}
             S == {Replace(pairs), StartOf("audit", "journal"),
                    Confer("auth", "audit"), StartOf("journal", "apply"),
                    StartOf("apply", "plan"), Confer("plan", "apply"), Same("auth")}
  <2> DEFINE s1 == <<Replace(pairs), StartOf("audit", "journal")>>
  <2> DEFINE s2 == <<Confer("auth", "audit")>>
  <2> DEFINE s3 == <<StartOf("journal", "apply"), StartOf("apply", "plan"), Confer("plan", "apply")>>
  <2> DEFINE s4 == <<Same("auth")>>
  <2>1a. s1 \in Seq(Step)
    BY DEF Replace, StartOf, Confer, Supersede, Same, Step, AllRoles, Pair
  <2>1b. CallsOf(s1) = {Replace(pairs), StartOf("audit", "journal")}
    BY DEF CallsOf
  <2>1c. InOrder(s1)
    BY <2>1b DEF Replace, StartOf, Confer, Supersede, Same, InOrder
  <2>2a. s2 \in Seq(Step)
    BY DEF Replace, StartOf, Confer, Supersede, Same, Step, AllRoles, Pair
  <2>2b. CallsOf(s2) = {Confer("auth", "audit")}
    BY DEF CallsOf
  <2>2c. \A s \in CallsOf(s2) : s.op \notin {"replace", "supersede"}
    BY <2>2b DEF Replace, StartOf, Confer, Supersede, Same, InOrder
  <2>3a. s3 \in Seq(Step)
    BY DEF Replace, StartOf, Confer, Supersede, Same, Step, AllRoles, Pair
  <2>3b. CallsOf(s3) = {StartOf("journal", "apply"), StartOf("apply", "plan"), Confer("plan", "apply")}
    BY DEF CallsOf
  <2>3c. \A s \in CallsOf(s3) : s.op \notin {"replace", "supersede"}
    BY <2>3b DEF Replace, StartOf, Confer, Supersede, Same, InOrder
  <2>4a. s4 \in Seq(Step)
    BY DEF Replace, StartOf, Confer, Supersede, Same, Step, AllRoles, Pair
  <2>4b. CallsOf(s4) = {Same("auth")}
    BY DEF CallsOf
  <2>4c. \A s \in CallsOf(s4) : s.op \notin {"replace", "supersede"}
    BY <2>4b DEF Replace, StartOf, Confer, Supersede, Same, InOrder
  <2>0. p.calls = s1 \o s2 \o s3 \o s4
    <3>1. replaceAuthAuditPair = {Pair("auth", "audit")}
      BY <1>1, Zenon DEF replaceAuthAuditPair
    <3>2. {Pair("plan", "apply"), Pair("apply", "journal"), Pair("journal", "audit")} \cup replaceAuthAuditPair = pairs
      BY <3>1, Zenon
    <3> QED
      BY <1>1, <3>2, Zenon DEF restartApplySubtree, Procedure, If, sendAuthAuditPeerFD, Same
  <2> HIDE DEF p, S, pairs, s1, s2, s3, s4
  <2>2d. /\ s1 \o s2 \in Seq(Step) /\ InOrder(s1 \o s2)
        /\ CallsOf(s1 \o s2) = CallsOf(s1) \cup CallsOf(s2)
    BY <2>1a, <2>1c, <2>2a, <2>2c, Concat, Zenon
  <2>3d. /\ s1 \o s2 \o s3 \in Seq(Step) /\ InOrder(s1 \o s2 \o s3)
        /\ CallsOf(s1 \o s2 \o s3) = CallsOf(s1 \o s2) \cup CallsOf(s3)
    BY <2>2d, <2>3a, <2>3c, Concat, Zenon
  <2>4d. /\ s1 \o s2 \o s3 \o s4 \in Seq(Step) /\ InOrder(s1 \o s2 \o s3 \o s4)
        /\ CallsOf(s1 \o s2 \o s3 \o s4) = CallsOf(s1 \o s2 \o s3) \cup CallsOf(s4)
    BY <2>3d, <2>4a, <2>4c, Concat, Zenon
  <2>1. p.calls \in Seq(Step) /\ InOrder(p.calls)
    BY <2>0, <2>4d, Zenon
  <2>2. CallsOf(p.calls) = S
    BY <2>0, <2>1b, <2>2b, <2>3b, <2>4b, <2>2d, <2>3d, <2>4d, Zenon DEF S
  <2> USE DEF p, S, pairs
  <2>3. p.arm = {"audit", "journal", "apply"} /\ p.kill = {"apply", "journal", "audit"}
    BY ZenonT(60) DEF restartApplySubtree, Procedure
  <2>4. \A s \in S : Suits("m2g", s)
    BY ApplyPlanCalls DEF Replace, Suits
  <2>5. \A s \in S : s.op = "replace" => s.pairs = pairs
    BY DEF Replace, StartOf, Confer, Supersede, Same
  <2>6. \A e \in pairs : \E x, y \in AllRoles :
         e = Pair(x, y) /\ (\E t \in S : Renews(t, x, y)) /\ (\E t \in S : Renews(t, y, x))
    BY Zenon DEF Replace, StartOf, Confer, Supersede, Same, Renews, AllRoles
  <2>7. Selective(S, p.arm) /\ Starting(S)
    BY <2>3 DEF Replace, StartOf, Confer, Supersede, Same, Selective, Starting
  <2>8. p.kill \subseteq AllRoles /\ p.arm \subseteq AllRoles
    BY <2>3, Zenon DEF AllRoles
  <2> HIDE DEF p, S, pairs
  <2>9. ProcedureFits("m2g", p)
    BY <2>1, <2>2, <2>4, <2>5, <2>6, <2>7, <2>8, Fits, Zenon
  <2> QED
    BY <2>9, Zenon DEF p
<1>2. CASE ~srv.peers
  <2> DEFINE pairs == {Pair("plan", "apply"), Pair("apply", "journal"),
                        Pair("journal", "audit")}
             S == {Replace(pairs), StartOf("audit", "journal"),
                    StartOf("journal", "apply"), StartOf("apply", "plan"),
                    Confer("plan", "apply")}
  <2> DEFINE s1 == <<Replace(pairs), StartOf("audit", "journal")>>
  <2> DEFINE s2 == <<>>
  <2> DEFINE s3 == <<StartOf("journal", "apply"), StartOf("apply", "plan"), Confer("plan", "apply")>>
  <2> DEFINE s4 == <<>>
  <2>1a. s1 \in Seq(Step)
    BY DEF Replace, StartOf, Confer, Supersede, Same, Step, AllRoles, Pair
  <2>1b. CallsOf(s1) = {Replace(pairs), StartOf("audit", "journal")}
    BY DEF CallsOf
  <2>1c. InOrder(s1)
    BY <2>1b DEF Replace, StartOf, Confer, Supersede, Same, InOrder
  <2>2a. s2 \in Seq(Step)
    BY DEF Replace, StartOf, Confer, Supersede, Same, Step, AllRoles, Pair
  <2>2b. CallsOf(s2) = {}
    BY DEF CallsOf
  <2>2c. \A s \in CallsOf(s2) : s.op \notin {"replace", "supersede"}
    BY <2>2b, Zenon DEF Replace, StartOf, Confer, Supersede, Same, InOrder
  <2>3a. s3 \in Seq(Step)
    BY DEF Replace, StartOf, Confer, Supersede, Same, Step, AllRoles, Pair
  <2>3b. CallsOf(s3) = {StartOf("journal", "apply"), StartOf("apply", "plan"), Confer("plan", "apply")}
    BY DEF CallsOf
  <2>3c. \A s \in CallsOf(s3) : s.op \notin {"replace", "supersede"}
    BY <2>3b DEF Replace, StartOf, Confer, Supersede, Same, InOrder
  <2>4a. s4 \in Seq(Step)
    BY DEF Replace, StartOf, Confer, Supersede, Same, Step, AllRoles, Pair
  <2>4b. CallsOf(s4) = {}
    BY DEF CallsOf
  <2>4c. \A s \in CallsOf(s4) : s.op \notin {"replace", "supersede"}
    BY <2>4b, Zenon DEF Replace, StartOf, Confer, Supersede, Same, InOrder
  <2>0. p.calls = s1 \o s2 \o s3 \o s4
    <3>1. replaceAuthAuditPair = {}
      BY <1>2, Zenon DEF replaceAuthAuditPair
    <3>2. {Pair("plan", "apply"), Pair("apply", "journal"), Pair("journal", "audit")} \cup replaceAuthAuditPair = pairs
      BY <3>1, Zenon
    <3> QED
      BY <1>2, <3>2, Zenon DEF restartApplySubtree, Procedure, If, sendAuthAuditPeerFD, Same
  <2> HIDE DEF p, S, pairs, s1, s2, s3, s4
  <2>2d. /\ s1 \o s2 \in Seq(Step) /\ InOrder(s1 \o s2)
        /\ CallsOf(s1 \o s2) = CallsOf(s1) \cup CallsOf(s2)
    BY <2>1a, <2>1c, <2>2a, <2>2c, Concat, Zenon
  <2>3d. /\ s1 \o s2 \o s3 \in Seq(Step) /\ InOrder(s1 \o s2 \o s3)
        /\ CallsOf(s1 \o s2 \o s3) = CallsOf(s1 \o s2) \cup CallsOf(s3)
    BY <2>2d, <2>3a, <2>3c, Concat, Zenon
  <2>4d. /\ s1 \o s2 \o s3 \o s4 \in Seq(Step) /\ InOrder(s1 \o s2 \o s3 \o s4)
        /\ CallsOf(s1 \o s2 \o s3 \o s4) = CallsOf(s1 \o s2 \o s3) \cup CallsOf(s4)
    BY <2>3d, <2>4a, <2>4c, Concat, Zenon
  <2>1. p.calls \in Seq(Step) /\ InOrder(p.calls)
    BY <2>0, <2>4d, Zenon
  <2>2. CallsOf(p.calls) = S
    BY <2>0, <2>1b, <2>2b, <2>3b, <2>4b, <2>2d, <2>3d, <2>4d, Zenon DEF S
  <2> USE DEF p, S, pairs
  <2>3. p.arm = {"audit", "journal", "apply"} /\ p.kill = {"apply", "journal", "audit"}
    BY Zenon DEF restartApplySubtree, Procedure
  <2>4. \A s \in S : Suits("m2g", s)
    BY ApplyPlanCalls DEF Replace, Suits
  <2>5. \A s \in S : s.op = "replace" => s.pairs = pairs
    BY DEF Replace, StartOf, Confer, Supersede, Same
  <2>6. \A e \in pairs : \E x, y \in AllRoles :
         e = Pair(x, y) /\ (\E t \in S : Renews(t, x, y)) /\ (\E t \in S : Renews(t, y, x))
    BY Zenon DEF Replace, StartOf, Confer, Supersede, Same, Renews, AllRoles
  <2>7. Selective(S, p.arm) /\ Starting(S)
    BY <2>3 DEF Replace, StartOf, Confer, Supersede, Same, Selective, Starting
  <2>8. p.kill \subseteq AllRoles /\ p.arm \subseteq AllRoles
    BY <2>3, Zenon DEF AllRoles
  <2> HIDE DEF p, S, pairs
  <2>9. ProcedureFits("m2g", p)
    BY <2>1, <2>2, <2>4, <2>5, <2>6, <2>7, <2>8, Fits, Zenon
  <2> QED
    BY <2>9, Zenon DEF p
<1> QED
  BY <1>1, <1>2, Zenon

\* The calls of restartApplySubtree suit its fleets.
LEMMA ApplyIndexCalls ==
  ASSUME NEW f \in {"m2h", "m2j"}
  PROVE  \A s \in {StartOf("audit", "journal"), Confer("auth", "audit"),
                    StartOf("journal", "apply"), StartOf("apply", "index"),
                    Confer("index", "apply"), Same("auth")} : Suits(f, s)
<1>1. CASE f = "m2h"
  BY <1>1 DEF Suits, StartOf, Confer, Supersede, Same, Extra, ExtraPeerFor, keepKeyCh, PlanOf, Roles, roleList,
         m2hReceivePlan
<1>2. CASE f = "m2j"
  BY <1>2 DEF Suits, StartOf, Confer, Supersede, Same, Extra, ExtraPeerFor, keepKeyCh, PlanOf, Roles, roleList,
         m2hReceivePlan
<1> QED
  BY <1>1, <1>2, Zenon

\* restartApplySubtree rebinds index in m2h and m2j.
LEMMA ApplyIndex ==
  ASSUME NEW f \in {"m2h", "m2j"}
  PROVE  ProcedureFits(f, restartApplySubtree("index"))
<1> DEFINE p == restartApplySubtree("index")
<1>1. CASE srv.peers
  <2> DEFINE pairs == {Pair("index", "apply"), Pair("apply", "journal"),
                        Pair("journal", "audit"), Pair("auth", "audit")}
             S == {Replace(pairs), StartOf("audit", "journal"),
                    Confer("auth", "audit"), StartOf("journal", "apply"),
                    StartOf("apply", "index"), Confer("index", "apply"), Same("auth")}
  <2> DEFINE s1 == <<Replace(pairs), StartOf("audit", "journal")>>
  <2> DEFINE s2 == <<Confer("auth", "audit")>>
  <2> DEFINE s3 == <<StartOf("journal", "apply"), StartOf("apply", "index"), Confer("index", "apply")>>
  <2> DEFINE s4 == <<Same("auth")>>
  <2>1a. s1 \in Seq(Step)
    BY DEF Replace, StartOf, Confer, Supersede, Same, Step, AllRoles, Pair
  <2>1b. CallsOf(s1) = {Replace(pairs), StartOf("audit", "journal")}
    BY DEF CallsOf
  <2>1c. InOrder(s1)
    BY <2>1b DEF Replace, StartOf, Confer, Supersede, Same, InOrder
  <2>2a. s2 \in Seq(Step)
    BY DEF Replace, StartOf, Confer, Supersede, Same, Step, AllRoles, Pair
  <2>2b. CallsOf(s2) = {Confer("auth", "audit")}
    BY DEF CallsOf
  <2>2c. \A s \in CallsOf(s2) : s.op \notin {"replace", "supersede"}
    BY <2>2b DEF Replace, StartOf, Confer, Supersede, Same, InOrder
  <2>3a. s3 \in Seq(Step)
    BY DEF Replace, StartOf, Confer, Supersede, Same, Step, AllRoles, Pair
  <2>3b. CallsOf(s3) = {StartOf("journal", "apply"), StartOf("apply", "index"), Confer("index", "apply")}
    BY DEF CallsOf
  <2>3c. \A s \in CallsOf(s3) : s.op \notin {"replace", "supersede"}
    BY <2>3b DEF Replace, StartOf, Confer, Supersede, Same, InOrder
  <2>4a. s4 \in Seq(Step)
    BY DEF Replace, StartOf, Confer, Supersede, Same, Step, AllRoles, Pair
  <2>4b. CallsOf(s4) = {Same("auth")}
    BY DEF CallsOf
  <2>4c. \A s \in CallsOf(s4) : s.op \notin {"replace", "supersede"}
    BY <2>4b DEF Replace, StartOf, Confer, Supersede, Same, InOrder
  <2>0. p.calls = s1 \o s2 \o s3 \o s4
    <3>1. replaceAuthAuditPair = {Pair("auth", "audit")}
      BY <1>1, Zenon DEF replaceAuthAuditPair
    <3>2. {Pair("index", "apply"), Pair("apply", "journal"), Pair("journal", "audit")} \cup replaceAuthAuditPair = pairs
      BY <3>1, Zenon
    <3> QED
      BY <1>1, <3>2, Zenon DEF restartApplySubtree, Procedure, If, sendAuthAuditPeerFD, Same
  <2> HIDE DEF p, S, pairs, s1, s2, s3, s4
  <2>2d. /\ s1 \o s2 \in Seq(Step) /\ InOrder(s1 \o s2)
        /\ CallsOf(s1 \o s2) = CallsOf(s1) \cup CallsOf(s2)
    BY <2>1a, <2>1c, <2>2a, <2>2c, Concat, Zenon
  <2>3d. /\ s1 \o s2 \o s3 \in Seq(Step) /\ InOrder(s1 \o s2 \o s3)
        /\ CallsOf(s1 \o s2 \o s3) = CallsOf(s1 \o s2) \cup CallsOf(s3)
    BY <2>2d, <2>3a, <2>3c, Concat, Zenon
  <2>4d. /\ s1 \o s2 \o s3 \o s4 \in Seq(Step) /\ InOrder(s1 \o s2 \o s3 \o s4)
        /\ CallsOf(s1 \o s2 \o s3 \o s4) = CallsOf(s1 \o s2 \o s3) \cup CallsOf(s4)
    BY <2>3d, <2>4a, <2>4c, Concat, Zenon
  <2>1. p.calls \in Seq(Step) /\ InOrder(p.calls)
    BY <2>0, <2>4d, Zenon
  <2>2. CallsOf(p.calls) = S
    BY <2>0, <2>1b, <2>2b, <2>3b, <2>4b, <2>2d, <2>3d, <2>4d, Zenon DEF S
  <2> USE DEF p, S, pairs
  <2>3. p.arm = {"audit", "journal", "apply"} /\ p.kill = {"apply", "journal", "audit"}
    BY ZenonT(60) DEF restartApplySubtree, Procedure
  <2>4. \A s \in S : Suits(f, s)
    BY ApplyIndexCalls DEF Replace, Suits
  <2>5. \A s \in S : s.op = "replace" => s.pairs = pairs
    BY DEF Replace, StartOf, Confer, Supersede, Same
  <2>6. \A e \in pairs : \E x, y \in AllRoles :
         e = Pair(x, y) /\ (\E t \in S : Renews(t, x, y)) /\ (\E t \in S : Renews(t, y, x))
    BY SMTT(30) DEF Replace, StartOf, Confer, Supersede, Same, Renews, AllRoles
  <2>7. Selective(S, p.arm) /\ Starting(S)
    BY <2>3 DEF Replace, StartOf, Confer, Supersede, Same, Selective, Starting
  <2>8. p.kill \subseteq AllRoles /\ p.arm \subseteq AllRoles
    BY <2>3, Zenon DEF AllRoles
  <2> HIDE DEF p, S, pairs
  <2>9. ProcedureFits(f, p)
    BY <2>1, <2>2, <2>4, <2>5, <2>6, <2>7, <2>8, Fits, Zenon
  <2> QED
    BY <2>9, Zenon DEF p
<1>2. CASE ~srv.peers
  <2> DEFINE pairs == {Pair("index", "apply"), Pair("apply", "journal"),
                        Pair("journal", "audit")}
             S == {Replace(pairs), StartOf("audit", "journal"),
                    StartOf("journal", "apply"), StartOf("apply", "index"),
                    Confer("index", "apply")}
  <2> DEFINE s1 == <<Replace(pairs), StartOf("audit", "journal")>>
  <2> DEFINE s2 == <<>>
  <2> DEFINE s3 == <<StartOf("journal", "apply"), StartOf("apply", "index"), Confer("index", "apply")>>
  <2> DEFINE s4 == <<>>
  <2>1a. s1 \in Seq(Step)
    BY DEF Replace, StartOf, Confer, Supersede, Same, Step, AllRoles, Pair
  <2>1b. CallsOf(s1) = {Replace(pairs), StartOf("audit", "journal")}
    BY DEF CallsOf
  <2>1c. InOrder(s1)
    BY <2>1b DEF Replace, StartOf, Confer, Supersede, Same, InOrder
  <2>2a. s2 \in Seq(Step)
    BY DEF Replace, StartOf, Confer, Supersede, Same, Step, AllRoles, Pair
  <2>2b. CallsOf(s2) = {}
    BY DEF CallsOf
  <2>2c. \A s \in CallsOf(s2) : s.op \notin {"replace", "supersede"}
    BY <2>2b, Zenon DEF Replace, StartOf, Confer, Supersede, Same, InOrder
  <2>3a. s3 \in Seq(Step)
    BY DEF Replace, StartOf, Confer, Supersede, Same, Step, AllRoles, Pair
  <2>3b. CallsOf(s3) = {StartOf("journal", "apply"), StartOf("apply", "index"), Confer("index", "apply")}
    BY DEF CallsOf
  <2>3c. \A s \in CallsOf(s3) : s.op \notin {"replace", "supersede"}
    BY <2>3b DEF Replace, StartOf, Confer, Supersede, Same, InOrder
  <2>4a. s4 \in Seq(Step)
    BY DEF Replace, StartOf, Confer, Supersede, Same, Step, AllRoles, Pair
  <2>4b. CallsOf(s4) = {}
    BY DEF CallsOf
  <2>4c. \A s \in CallsOf(s4) : s.op \notin {"replace", "supersede"}
    BY <2>4b, Zenon DEF Replace, StartOf, Confer, Supersede, Same, InOrder
  <2>0. p.calls = s1 \o s2 \o s3 \o s4
    <3>1. replaceAuthAuditPair = {}
      BY <1>2, Zenon DEF replaceAuthAuditPair
    <3>2. {Pair("index", "apply"), Pair("apply", "journal"), Pair("journal", "audit")} \cup replaceAuthAuditPair = pairs
      BY <3>1, Zenon
    <3> QED
      BY <1>2, <3>2, Zenon DEF restartApplySubtree, Procedure, If, sendAuthAuditPeerFD, Same
  <2> HIDE DEF p, S, pairs, s1, s2, s3, s4
  <2>2d. /\ s1 \o s2 \in Seq(Step) /\ InOrder(s1 \o s2)
        /\ CallsOf(s1 \o s2) = CallsOf(s1) \cup CallsOf(s2)
    BY <2>1a, <2>1c, <2>2a, <2>2c, Concat, Zenon
  <2>3d. /\ s1 \o s2 \o s3 \in Seq(Step) /\ InOrder(s1 \o s2 \o s3)
        /\ CallsOf(s1 \o s2 \o s3) = CallsOf(s1 \o s2) \cup CallsOf(s3)
    BY <2>2d, <2>3a, <2>3c, Concat, Zenon
  <2>4d. /\ s1 \o s2 \o s3 \o s4 \in Seq(Step) /\ InOrder(s1 \o s2 \o s3 \o s4)
        /\ CallsOf(s1 \o s2 \o s3 \o s4) = CallsOf(s1 \o s2 \o s3) \cup CallsOf(s4)
    BY <2>3d, <2>4a, <2>4c, Concat, Zenon
  <2>1. p.calls \in Seq(Step) /\ InOrder(p.calls)
    BY <2>0, <2>4d, Zenon
  <2>2. CallsOf(p.calls) = S
    BY <2>0, <2>1b, <2>2b, <2>3b, <2>4b, <2>2d, <2>3d, <2>4d, Zenon DEF S
  <2> USE DEF p, S, pairs
  <2>3. p.arm = {"audit", "journal", "apply"} /\ p.kill = {"apply", "journal", "audit"}
    BY ZenonT(60) DEF restartApplySubtree, Procedure
  <2>4. \A s \in S : Suits(f, s)
    BY ApplyIndexCalls DEF Replace, Suits
  <2>5. \A s \in S : s.op = "replace" => s.pairs = pairs
    BY SMTT(30) DEF Replace, StartOf, Confer, Supersede, Same
  <2>6. \A e \in pairs : \E x, y \in AllRoles :
         e = Pair(x, y) /\ (\E t \in S : Renews(t, x, y)) /\ (\E t \in S : Renews(t, y, x))
    BY Zenon DEF Replace, StartOf, Confer, Supersede, Same, Renews, AllRoles
  <2>7. Selective(S, p.arm) /\ Starting(S)
    BY <2>3 DEF Replace, StartOf, Confer, Supersede, Same, Selective, Starting
  <2>8. p.kill \subseteq AllRoles /\ p.arm \subseteq AllRoles
    BY <2>3, Zenon DEF AllRoles
  <2> HIDE DEF p, S, pairs
  <2>9. ProcedureFits(f, p)
    BY <2>1, <2>2, <2>4, <2>5, <2>6, <2>7, <2>8, Fits, Zenon
  <2> QED
    BY <2>9, Zenon DEF p
<1> QED
  BY <1>1, <1>2, Zenon

\* A role that dies is answered by a procedure that suits the fleet, or by none.
LEMMA Procedures ==
  ASSUME srv.fleet \in Fleets, NEW dead
  PROVE  \/ "none" \in tryRestartOne(dead).need
         \/ ProcedureFits(srv.fleet, tryRestartOne(dead))
<1>1. "none" \in NoProcedure.need
  BY Zenon DEF NoProcedure, Procedure
<1> QED
  BY <1>1, Auth, ParserM2d, ParserM2g, ParserM2h, ApplyPlan, ApplyIndex, OneNet, OneParser, Zenon
     DEF tryRestartOne

\* The first start, and every full restart, start each role with its grant.
LEMMA Launches ==
  ASSUME NEW f \in Fleets
  PROVE  /\ Starts(startRoleChildren[f]) \in Seq(Step)
         /\ \A s \in CallsOf(Starts(startRoleChildren[f])) : s.op = "start" /\ Suits(f, s)
         /\ \A r \in Roles(f) : \E s \in CallsOf(Starts(startRoleChildren[f])) :
              s.op = "start" /\ s.role = r
         /\ Fitting(f, Starts(startRoleChildren[f]))
<1> DEFINE order == startRoleChildren[f]
           sc == Starts(order)
<1>1. TableFits(f)
  BY Tables, Zenon
<1>2. /\ order \in Seq(AllRoles \X AllRoles) /\ DOMAIN order = 1 .. Len(order)
      /\ \A i \in DOMAIN order : /\ order[i][1] \in Roles(f)
                                 /\ {order[i][2]} \cup Extra(f, order[i][1]) = PlanOf[f][order[i][1]]
      /\ \A r \in Roles(f) : \E i \in DOMAIN order : order[i][1] = r
  <2>1. order \in Seq(AllRoles \X AllRoles)
    BY <1>1, Zenon DEF TableFits
  <2> HIDE DEF order
  <2>2. DOMAIN order = 1 .. Len(order)
    BY <2>1
  <2> QED
    BY <1>1, <2>1, <2>2, Zenon DEF TableFits, order
<1> HIDE DEF order
<1>3. DOMAIN sc = DOMAIN order /\ \A i \in DOMAIN order : sc[i] = StartOf(order[i][1], order[i][2])
  BY <1>2, Zenon DEF Starts
<1>4. \A i \in DOMAIN order : order[i][1] \in AllRoles /\ order[i][2] \in AllRoles
  BY <1>2
<1>5. sc \in Seq(Step)
  <2>1. \A i \in 1 .. Len(order) : StartOf(order[i][1], order[i][2]) \in Step
    BY <1>2, <1>4, Zenon DEF StartOf, Step
  <2> QED
    BY <1>2, <2>1 DEF Starts
<1> HIDE DEF sc
<1>6. \A i \in DOMAIN sc : sc[i].op = "start" /\ sc[i].role = order[i][1] /\ sc[i].peer = order[i][2]
  BY <1>3 DEF StartOf
<1>7. \A s \in CallsOf(sc) : s.op = "start" /\ Suits(f, s)
  <2>1. \A i \in DOMAIN sc : sc[i].op = "start" /\ Suits(f, sc[i])
    <3> SUFFICES ASSUME NEW i \in DOMAIN sc
                 PROVE  sc[i].op = "start" /\ Suits(f, sc[i])
      OBVIOUS
    <3>1. order[i][1] \in Roles(f) /\ {order[i][2]} \cup Extra(f, order[i][1]) = PlanOf[f][order[i][1]]
      BY <1>2, <1>3, Zenon
    <3>2. sc[i].op = "start" /\ sc[i].role = order[i][1] /\ sc[i].peer = order[i][2]
      BY <1>6, Zenon
    <3> QED
      BY <3>1, <3>2, Zenon DEF Suits
  <2> QED
    BY <2>1, Zenon DEF CallsOf
<1>8. \A r \in Roles(f) : \E s \in CallsOf(sc) : s.op = "start" /\ s.role = r
  <2> SUFFICES ASSUME NEW r \in Roles(f)
               PROVE  \E s \in CallsOf(sc) : s.op = "start" /\ s.role = r
    OBVIOUS
  <2>1. PICK i \in DOMAIN order : order[i][1] = r
    BY <1>2, Zenon
  <2>2. sc[i].op = "start" /\ sc[i].role = r /\ i \in DOMAIN sc
    BY <1>3, <1>6, <2>1, Zenon
  <2> QED
    BY <2>2, Zenon DEF CallsOf
<1>9. Fitting(f, sc)
  <2>1. InOrder(sc)
    BY <1>6, Zenon DEF InOrder
  <2>2. Renewing(CallsOf(sc))
    BY <1>7, Zenon DEF Renewing
  <2> QED
    BY <1>7, <2>1, <2>2, Zenon DEF Fitting
<1> QED
  BY <1>5, <1>7, <1>8, <1>9, Zenon DEF sc, order

\* The edges of a plan join roles of the fleet and are mutual.
LEMMA Edges ==
  ASSUME NEW f \in Fleets
  PROVE  /\ \A r \in Roles(f) : \A q \in PlanOf[f][r] : q \in Roles(f) /\ r \in PlanOf[f][q]
         /\ \A e \in PlanPairs(PlanOf[f]) : e \subseteq Roles(f)
<1>1. Roles(f) = DOMAIN PlanOf[f] /\ ValidateIPCGraph(PlanOf[f])
  BY Tables, Zenon DEF TableFits, Launchable, MaterializeLaunch
<1>2. \A r \in Roles(f) : \A q \in PlanOf[f][r] : q \in Roles(f) /\ r \in PlanOf[f][q]
  BY <1>1, Zenon DEF ValidateIPCGraph
<1> QED
  BY <1>1, <1>2 DEF PlanPairs, Pair

\* The script of a full restart suits the fleet.
LEMMA Respawn ==
  ASSUME srv.fleet \in Fleets
  PROVE  /\ respawnAll \in Seq(Step) /\ Fitting(srv.fleet, respawnAll)
         /\ \A r \in Roles(srv.fleet) : \E s \in CallsOf(respawnAll) : s.op = "start" /\ s.role = r
         /\ \A s \in CallsOf(respawnAll) : s.op # "supersede"
<1> DEFINE f == srv.fleet
           pairs == replaceRolePairs[f]
           a == <<Replace(pairs)>>
           b == Starts(startRoleChildren[f])
<1>1. /\ b \in Seq(Step)
      /\ \A s \in CallsOf(b) : s.op = "start" /\ Suits(f, s)
      /\ \A r \in Roles(f) : \E s \in CallsOf(b) : s.op = "start" /\ s.role = r
  BY Launches, ZenonT(60)
<1>2. /\ \A e \in pairs : e \subseteq Roles(f)
      /\ Roles(f) \subseteq AllRoles
  BY Tables, Edges DEF TableFits
<1> HIDE DEF b, pairs
<1>3. Replace(pairs) \in Step /\ Replace(pairs).op = "replace" /\ Replace(pairs).pairs = pairs
  BY <1>2, Zenon DEF Replace, Step
<1>4. a \in Seq(Step) /\ CallsOf(a) = {Replace(pairs)} /\ InOrder(a)
  BY <1>3 DEF CallsOf, InOrder
<1> HIDE DEF a
<1>5. a \o b \in Seq(Step) /\ CallsOf(a \o b) = {Replace(pairs)} \cup CallsOf(b) /\ InOrder(a \o b)
  BY <1>1, <1>4, Concat, Zenon
<1>6. \A s \in CallsOf(a \o b) : Suits(f, s)
  BY <1>1, <1>3, <1>5, Zenon DEF Suits
<1>7. Renewing(CallsOf(a \o b))
  <2> SUFFICES ASSUME NEW s \in CallsOf(a \o b), s.op = "replace", NEW e \in s.pairs,
                      NEW r \in AllRoles, NEW q \in AllRoles, e = Pair(r, q)
               PROVE  \E t \in CallsOf(a \o b) : Renews(t, r, q)
    BY Zenon DEF Renewing
  <2>1. s.pairs = pairs
    BY <1>1, <1>3, <1>5, Zenon
  <2>2. r \in Roles(f)
    BY <1>2, <2>1, ZenonT(60) DEF Pair
  <2> QED
    BY <1>1, <1>5, <2>2, Zenon DEF Renews
<1>8. /\ \A r \in Roles(f) : \E s \in CallsOf(a \o b) : s.op = "start" /\ s.role = r
      /\ \A s \in CallsOf(a \o b) : s.op # "supersede"
  BY <1>1, <1>3, <1>5, Zenon
<1> QED
  BY <1>5, <1>6, <1>7, <1>8, Zenon DEF Fitting, respawnAll, a, b, pairs

\* What is left of a script after its first call.
LEMMA Rest1 ==
  ASSUME NEW sc \in Seq(Step), sc # <<>>
  PROVE  /\ Tail(sc) \in Seq(Step) /\ Head(sc) \in Step
         /\ CallsOf(sc) = {Head(sc)} \cup CallsOf(Tail(sc))
         /\ InOrder(sc) => InOrder(Tail(sc))
         /\ InOrder(sc) => \A s \in CallsOf(Tail(sc)) :
              /\ s.op # "supersede"
              /\ s.op = "replace" => Head(sc).op = "supersede"
<1>1. Tail(sc) \in Seq(Step) /\ Head(sc) = sc[1] /\ Len(sc) \in Nat \ {0}
      /\ DOMAIN sc = 1 .. Len(sc) /\ sc[1] \in Step
  OBVIOUS
<1>2. DOMAIN Tail(sc) = 1 .. (Len(sc) - 1) /\ \A i \in 1 .. (Len(sc) - 1) : Tail(sc)[i] = sc[i + 1]
  OBVIOUS
<1>3. CallsOf(sc) = {Head(sc)} \cup CallsOf(Tail(sc))
  <2> DEFINE t == Tail(sc)
  <2>1. \A i \in DOMAIN sc : i = 1 \/ (i - 1 \in DOMAIN t /\ t[i - 1] = sc[i])
    BY <1>1, <1>2
  <2>2. \A i \in DOMAIN t : i + 1 \in DOMAIN sc /\ t[i] = sc[i + 1]
    BY <1>1, <1>2
  <2>3. 1 \in DOMAIN sc
    BY <1>1
  <2> HIDE DEF t
  <2>4. \A s \in CallsOf(sc) : s \in {Head(sc)} \cup CallsOf(t)
    BY <1>1, <2>1 DEF CallsOf
  <2>5. \A s \in CallsOf(t) : s \in CallsOf(sc)
    BY <2>2, Zenon DEF CallsOf
  <2>6. Head(sc) \in CallsOf(sc)
    BY <1>1, <2>3, Zenon DEF CallsOf
  <2> QED
    BY <2>4, <2>5, <2>6, Zenon DEF t
<1>4. ASSUME InOrder(sc)
      PROVE  /\ InOrder(Tail(sc))
             /\ \A i \in DOMAIN Tail(sc) : /\ Tail(sc)[i].op # "supersede"
                                           /\ Tail(sc)[i].op = "replace" => Head(sc).op = "supersede"
  <2> DEFINE t == Tail(sc)
  <2>1. \A i \in DOMAIN t : t[i].op # "supersede"
    BY <1>1, <1>2, <1>4 DEF InOrder
  <2>2. \A i \in DOMAIN t : t[i].op = "replace" => i = 1 /\ sc[1].op = "supersede"
    <3> SUFFICES ASSUME NEW i \in DOMAIN t, t[i].op = "replace"
                 PROVE  i = 1 /\ sc[1].op = "supersede"
      OBVIOUS
    <3>1. i \in Nat /\ i >= 1 /\ i + 1 \in DOMAIN sc /\ sc[i + 1].op = "replace"
      BY <1>1, <1>2
    <3>2. \A j \in 1 .. i : sc[j].op = "supersede" /\ j \in DOMAIN sc
      BY <1>1, <1>4, <3>1 DEF InOrder
    <3>3. sc[i].op = "supersede" /\ i \in DOMAIN sc
      BY <3>1, <3>2
    <3> QED
      BY <1>4, <3>1, <3>2, <3>3, Zenon DEF InOrder
  <2> HIDE DEF t
  <2>3. InOrder(t)
    BY <2>1, <2>2 DEF InOrder
  <2> QED
    BY <1>1, <2>1, <2>2, <2>3, Zenon DEF t
<1>5. ASSUME InOrder(sc), NEW s \in CallsOf(Tail(sc))
      PROVE  s.op # "supersede" /\ (s.op = "replace" => Head(sc).op = "supersede")
  <2>1. PICK i \in DOMAIN Tail(sc) : s = Tail(sc)[i]
    BY <1>5, Zenon DEF CallsOf
  <2> QED
    BY <1>4, <1>5, <2>1, Zenon
<1>6. Head(sc) \in Step
  BY <1>1, Zenon
<1> QED
  BY <1>1, <1>3, <1>4, <1>5, <1>6, Zenon
=============================================================================
