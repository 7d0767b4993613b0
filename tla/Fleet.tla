------------------------------- MODULE Fleet -------------------------------
(***************************************************************************)
(* The static side of the receive daemon: which serve options Start        *)
(* accepts (internal/daemon/serve_unix.go), which fleet of roles they      *)
(* select, and the tables the source writes down once per fleet: the grant *)
(* plan (plan.go), the roles, the socket pairs, the start order and the    *)
(* second peer of each role.  The tables are independent of each other in  *)
(* the source, so they are here, and Daemon checks that they agree.        *)
(***************************************************************************)
EXTENDS Authority

(***************************************************************************)
(* Options.  A fleet is named after the increment that introduced it; m2j  *)
(* is m2h with a peer keyring, which adds the edge auth - audit.           *)
(***************************************************************************)
ServeOptions ==
  [disable : SUBSET {"auth", "parser", "audit", "journal", "plan", "index"},
   peers : BOOLEAN, rootKey : BOOLEAN, strict : BOOLEAN, once : BOOLEAN]

(* "index requires plan": disabling plan disables index. *)
Normalised(o) ==
  [o EXCEPT !.disable = @ \cup IF "plan" \in @ THEN {"index"} ELSE {}]

StartAccepts(o) ==
  LET off == Normalised(o).disable IN
  /\ o.strict => o.disable = {}
  /\ o.peers # o.rootKey
  /\ o.peers => "auth" \notin off
  /\ "auth" \in off => {"parser", "audit", "journal", "plan"} \subseteq off
  /\ "parser" \in off => {"audit", "journal", "plan"} \subseteq off
  /\ "plan" \notin off => {"journal", "audit"} \cap off = {}
  /\ "index" \notin off => {"journal", "audit", "plan"} \cap off = {}

Fleets == {"m2a", "m2c", "m2d", "m2e", "m2fj", "m2f", "m2g", "m2h", "m2j"}

FleetOf(o) ==
  LET off == Normalised(o).disable IN
  IF "auth" \in off THEN "m2a"
  ELSE IF "parser" \in off THEN "m2c"
  ELSE IF "index" \notin off THEN IF o.peers /\ "audit" \notin off THEN "m2j" ELSE "m2h"
  ELSE IF "plan" \notin off THEN "m2g"
  ELSE IF {"journal", "audit"} \subseteq off THEN "m2d"
  ELSE IF "journal" \in off THEN "m2e"
  ELSE IF "audit" \in off THEN "m2fj"
  ELSE "m2f"

(***************************************************************************)
(* Grant plans: the peers of each role.                                    *)
(***************************************************************************)
(* Every plan grants a role exactly what the inventory lets it hold. *)
ConferOf(r) == Inventory[r].mayHold

NetApplyPlan == [net |-> {"apply"}, apply |-> {"net"}]

AuthNetApplyPlan ==
  [net |-> {"auth", "apply"}, auth |-> {"net"}, apply |-> {"net"}]

AuthParserNetApplyPlan ==
  [net |-> {"auth", "parser"}, auth |-> {"net"},
   parser |-> {"net", "apply"}, apply |-> {"parser"}]

AuthParserNetApplyAuditPlan ==
  [net |-> {"auth", "parser"}, auth |-> {"net"}, parser |-> {"net", "apply"},
   apply |-> {"parser", "audit"}, audit |-> {"apply"}]

AuthParserNetApplyJournalPlan ==
  [net |-> {"auth", "parser"}, auth |-> {"net"}, parser |-> {"net", "apply"},
   apply |-> {"parser", "journal"}, journal |-> {"apply"}]

AuthParserNetApplyJournalAuditPlan ==
  [net |-> {"auth", "parser"}, auth |-> {"net"}, parser |-> {"net", "apply"},
   apply |-> {"parser", "journal"}, journal |-> {"apply", "audit"},
   audit |-> {"journal"}]

AuthParserNetPlanApplyJournalAuditPlan ==
  [net |-> {"auth", "parser"}, auth |-> {"net"}, parser |-> {"net", "plan"},
   plan |-> {"parser", "apply"}, apply |-> {"plan", "journal"},
   journal |-> {"apply", "audit"}, audit |-> {"journal"}]

\* Mutant of m2hReceivePlan: only auth names the edge auth - audit.
m2hReceivePlanOneSided(authAudit) ==
  [net |-> {"auth", "parser"},
   auth |-> {"net"} \cup IF authAudit THEN {"audit"} ELSE {},
   parser |-> {"net", "plan"}, plan |-> {"parser", "index"},
   index |-> {"plan", "apply"}, apply |-> {"index", "journal"},
   journal |-> {"apply", "audit"}, audit |-> {"journal"}]

m2hReceivePlan(authAudit) ==
  [net |-> {"auth", "parser"},
   auth |-> {"net"} \cup IF authAudit THEN {"audit"} ELSE {},
   parser |-> {"net", "plan"}, plan |-> {"parser", "index"},
   index |-> {"plan", "apply"}, apply |-> {"index", "journal"},
   journal |-> {"apply", "audit"},
   audit |-> {"journal"} \cup IF authAudit THEN {"auth"} ELSE {}]

PlanOf ==
  [m2a |-> NetApplyPlan, m2c |-> AuthNetApplyPlan,
   m2d |-> AuthParserNetApplyPlan, m2e |-> AuthParserNetApplyAuditPlan,
   m2fj |-> AuthParserNetApplyJournalPlan,
   m2f |-> AuthParserNetApplyJournalAuditPlan,
   m2g |-> AuthParserNetPlanApplyJournalAuditPlan,
   m2h |-> m2hReceivePlan(FALSE), m2j |-> m2hReceivePlan(TRUE)]

(* The peers MinimalRuntimePlan gives the nine roles. *)
defaultPeers ==
  [supervisor |-> {"net", "auth", "journal", "audit"},
   net |-> {"supervisor", "parser", "auth"},
   auth |-> {"supervisor", "net", "plan", "apply"},
   parser |-> {"net", "plan"}, index |-> {"plan", "apply"},
   plan |-> {"auth", "apply", "parser", "index"},
   apply |-> {"auth", "plan", "journal", "index"},
   journal |-> {"apply", "audit", "supervisor"},
   audit |-> {"journal", "supervisor"}]

(* BuildPlan refuses an empty plan, an unauthorised grant and a self edge. *)
BuildPlan(p) ==
  /\ DOMAIN p # {}
  /\ \A r \in DOMAIN p : /\ ConferOf(r) # {}
                         /\ DeniedProbe(r, ConferOf(r))
                         /\ r \notin p[r]

(* Every IPC edge is mutual and joins two roles of the plan. *)
ValidateIPCGraph(p) ==
  \A r \in DOMAIN p : \A q \in p[r] : q \in DOMAIN p /\ r \in p[q]

(* MaterializeLaunch seals a token only for roles whose slots are allowed. *)
MaterializeLaunch(p) ==
  /\ ValidateIPCGraph(p)
  /\ \A r \in DOMAIN p : ValidateSlots(r, ConferOf(r), defaultSlots(r, p[r]))

Pair(a, b) == {a, b}

(* OpenSocketFabric makes one socket pair per edge of the plan. *)
PlanPairs(p) == UNION {{Pair(r, q) : q \in p[r]} : r \in DOMAIN p}

(***************************************************************************)
(* The fleet tables of serve_unix.go.                                      *)
(***************************************************************************)
roleList ==
  [m2a |-> <<"net", "apply">>,
   m2c |-> <<"auth", "apply", "net">>,
   m2d |-> <<"auth", "parser", "apply", "net">>,
   m2e |-> <<"auth", "audit", "apply", "parser", "net">>,
   m2fj |-> <<"auth", "journal", "apply", "parser", "net">>,
   m2f |-> <<"auth", "audit", "journal", "apply", "parser", "net">>,
   m2g |-> <<"auth", "audit", "journal", "apply", "plan", "parser", "net">>,
   m2h |-> <<"auth", "audit", "journal", "apply", "index", "plan", "parser", "net">>,
   m2j |-> <<"auth", "audit", "journal", "apply", "index", "plan", "parser", "net">>]

Roles(f) == {roleList[f][i] : i \in 1 .. Len(roleList[f])}

replaceRolePairs ==
  LET front == {Pair("net", "auth"), Pair("net", "parser")} IN
  [m2a |-> {Pair("net", "apply")},
   m2c |-> {Pair("net", "auth"), Pair("net", "apply")},
   m2d |-> front \cup {Pair("parser", "apply")},
   m2e |-> front \cup {Pair("parser", "apply"), Pair("apply", "audit")},
   m2fj |-> front \cup {Pair("parser", "apply"), Pair("apply", "journal")},
   m2f |-> front \cup {Pair("parser", "apply"), Pair("apply", "journal"),
                       Pair("journal", "audit")},
   m2g |-> front \cup {Pair("parser", "plan"), Pair("plan", "apply"),
                       Pair("apply", "journal"), Pair("journal", "audit")},
   m2h |-> front \cup {Pair("parser", "plan"), Pair("plan", "index"), Pair("index", "apply"),
                       Pair("apply", "journal"), Pair("journal", "audit")},
   m2j |-> front \cup {Pair("parser", "plan"), Pair("plan", "index"), Pair("index", "apply"),
                       Pair("apply", "journal"), Pair("journal", "audit"),
                       Pair("auth", "audit")}]

(* <<role, primary peer>> in the order the roles are started. *)
startRoleChildren ==
  LET m2hOrder == << <<"audit", "journal">>, <<"auth", "net">>, <<"journal", "apply">>,
                     <<"apply", "index">>, <<"index", "plan">>, <<"plan", "parser">>,
                     <<"parser", "net">>, <<"net", "auth">> >> IN
  [m2a |-> << <<"apply", "net">>, <<"net", "apply">> >>,
   m2c |-> << <<"auth", "net">>, <<"apply", "net">>, <<"net", "auth">> >>,
   m2d |-> << <<"auth", "net">>, <<"apply", "parser">>, <<"parser", "net">>, <<"net", "auth">> >>,
   m2e |-> << <<"auth", "net">>, <<"audit", "apply">>, <<"apply", "parser">>,
              <<"parser", "net">>, <<"net", "auth">> >>,
   m2fj |-> << <<"auth", "net">>, <<"journal", "apply">>, <<"apply", "parser">>,
               <<"parser", "net">>, <<"net", "auth">> >>,
   m2f |-> << <<"audit", "journal">>, <<"auth", "net">>, <<"journal", "apply">>,
              <<"apply", "parser">>, <<"parser", "net">>, <<"net", "auth">> >>,
   m2g |-> << <<"audit", "journal">>, <<"auth", "net">>, <<"journal", "apply">>,
              <<"apply", "plan">>, <<"plan", "parser">>, <<"parser", "net">>,
              <<"net", "auth">> >>,
   m2h |-> m2hOrder, m2j |-> m2hOrder]

(* The second peer a role is launched with; a role absent here has none. *)
ExtraPeerFor ==
  LET m2h == [net |-> "parser", parser |-> "plan", plan |-> "index",
              index |-> "apply", apply |-> "journal", journal |-> "audit"]
      none == [r \in {} |-> ""] IN
  [m2a |-> none,
   m2c |-> [net |-> "apply"],
   m2d |-> [net |-> "parser", parser |-> "apply"],
   m2e |-> [net |-> "parser", parser |-> "apply", apply |-> "audit"],
   m2fj |-> [net |-> "parser", parser |-> "apply", apply |-> "journal"],
   m2f |-> [net |-> "parser", parser |-> "apply", apply |-> "journal", journal |-> "audit"],
   m2g |-> [net |-> "parser", parser |-> "plan", plan |-> "apply",
            apply |-> "journal", journal |-> "audit"],
   m2h |-> m2h,
   m2j |-> [r \in DOMAIN m2h \cup {"auth", "audit"} |->
              CASE r = "auth" -> "audit" [] r = "audit" -> "auth" [] OTHER -> m2h[r]]]

Extra(f, r) == IF r \in DOMAIN ExtraPeerFor[f] THEN {ExtraPeerFor[f][r]} ELSE {}

(* ClaimChild keeps the key channel open only for roles that rebind a peer. *)
keepKeyCh(f, r) ==
  LET x == Extra(f, r) IN
  \/ r = "net" /\ x \subseteq {"apply", "parser"}
  \/ r \in {"parser", "plan", "index"} /\ x = {"apply"}
  \/ r = "audit" /\ x = {"auth"}
  \/ r = "auth" /\ x = {"audit"}
============================================================================
