------------------------------- MODULE Confine ------------------------------
(***************************************************************************)
(* What a child checks of itself before it serves (internal/confine and    *)
(* ChildEnv.Confine): the role-semantic probes compare what it was given   *)
(* with the authority inventory, the operating-system probes observe what  *)
(* the kernel lets it do, and release mode refuses to serve unless every   *)
(* requirement is met.  How the kernel enforces a control is not modelled: *)
(* `world` says what each probe would meet.                                *)
(***************************************************************************)
EXTENDS Authority

CONSTANTS ProbedRoles,   \* roles whose gate is explored
          Systems        \* runtime.GOOS values

VARIABLES child,         \* [role, goos, release, roots, world]
          gate           \* "claimed", "serving" or "exited"

confineVars == <<child, gate>>

(***************************************************************************)
(* Role-semantic probes (negative_role.go), one table per role.            *)
(***************************************************************************)
KeyCaps == {"permanent_keys", "keys", "long_term_keys", "identity_keys", "identity_handle"}
NetworkCaps == {"network_sockets", "network", "network_accept_loop"}
ArchiveCaps == {"archive_descriptors", "archive_staging_quarantine_roots", "archives"}
ReadCaps == ArchiveCaps \cup {"readonly_archive_root", "archive_contents"}

(* caps: what must not be conferred; slots: archive slots are refused too; *)
(* denied: what the inventory itself must deny.                            *)
Probe(denied, caps, slots) == [denied |-> denied, caps |-> caps, slots |-> slots]

negNet == {Probe("archive_descriptors", ArchiveCaps \cup {"readonly_archive_root"}, TRUE),
           Probe("permanent_keys", KeyCaps, FALSE),
           Probe("journal_writes", {"journal_writes", "journal_descriptor",
                                    "authenticated_record_input"}, FALSE)}

negParser == {Probe("network_sockets", NetworkCaps, FALSE),
              Probe("permanent_keys", KeyCaps, FALSE),
              Probe("archives", ReadCaps, TRUE)}

negAuth == {Probe("network_accept_loop", NetworkCaps, FALSE),
            Probe("archive_contents", ReadCaps, TRUE),
            Probe("publication_rights", {"publication_rights", "publication"}, FALSE)}

negIndex == {Probe("publication", {"publication", "publication_rights"}, FALSE),
             Probe("deletion", {"deletion"}, FALSE)}

negApply == {Probe("identity_keys", KeyCaps, FALSE),
             Probe("arbitrary_path_lookup", {"arbitrary_path_lookup"}, FALSE)}

negPlan == {Probe("filesystem_writes", ArchiveCaps \cup {"filesystem_writes"}, TRUE),
            Probe("keys", KeyCaps, FALSE),
            Probe("network", NetworkCaps, FALSE)}

negAudit == {Probe("operation_decisions", {"operation_decisions", "policy_decisions",
                                           "authorization_policy"}, FALSE),
             Probe("archives", ReadCaps \cup {"archive_mutation"}, TRUE),
             Probe("secrets", KeyCaps \cup {"secrets"}, FALSE)}

negJournal == {Probe("network", NetworkCaps, FALSE),
               Probe("policy_decisions", {"policy_decisions", "operation_decisions",
                                          "authorization_policy"}, FALSE),
               Probe("archive_mutation", ArchiveCaps \cup {"archive_mutation",
                                          "archive_contents", "deletion"}, TRUE)}

negSup == {Probe("remote_content_parser", {"remote_content_parser", "bounded_message_ipc"}, FALSE),
           Probe("archive_traversal", ReadCaps \cup {"archive_traversal",
                                          "arbitrary_path_lookup"}, TRUE),
           Probe("long_term_keys", KeyCaps, FALSE)}

(* The other roles' probes are skipped. *)
ProbesOf ==
  [net |-> negNet, parser |-> negParser, auth |-> negAuth, index |-> negIndex,
   apply |-> negApply, plan |-> negPlan, audit |-> negAudit,
   journal |-> negJournal, supervisor |-> negSup]

hasArchiveSlot(kinds) == kinds \cap {"archive_root", "staging_root", "quarantine_root"} # {}

UnexpectedAllow(p, role, confer, kinds) ==
  \/ p.caps \cap confer # {}
  \/ p.slots /\ hasArchiveSlot(kinds)
  \/ Allows(role, p.denied)

NegativeRoleSemantic(role, confer, kinds) ==
  {p \in ProbesOf[role] : UnexpectedAllow(p, role, confer, kinds)}

(***************************************************************************)
(* Operating-system probes (negative.go, negative_unix.go).                *)
(***************************************************************************)
Confined == {"linux", "openbsd", "freebsd", "darwin"}

RoleMayHoldNetwork(role) == Allows(role, "network_sockets")

RoleArchiveFSMode(role) ==
  IF Allows(role, "archive_staging_quarantine_roots") \/ Allows(role, "journal_descriptor")
  THEN "readwrite"
  ELSE IF Allows(role, "readonly_archive_root") \/ Allows(role, "readonly_journal")
  THEN "readonly" ELSE "none"

Denied == "denied_as_expected"

(* A check that takes every failure for a denial. *)
CollisionIsDenial(met) == IF met = "ok" THEN "unexpected_allow" ELSE Denied

(* Creating a new file: a name that exists says nothing about confinement. *)
CreateStatus(met) ==
  CASE met = "ok" -> "unexpected_allow" [] met = "exists" -> "unavailable" [] OTHER -> Denied
NegativeFSOpen(c) == IF c.goos = "openbsd" THEN Denied ELSE CreateStatus(c.world.create)

NegativeFSRead(c) ==
  IF c.goos \notin Confined THEN "skipped"
  ELSE IF ~ c.world.hosts THEN "unavailable"
  ELSE IF c.world.read THEN "unexpected_allow" ELSE Denied

NoRoots(c) == RoleArchiveFSMode(c.role) = "none" \/ ~ c.roots \/ c.goos \notin Confined

NegativeFSPath(c) ==
  IF NoRoots(c) THEN "skipped" ELSE IF c.world.rootOpen THEN "available" ELSE "unavailable"

NegativeFSPathWrite(c) ==
  IF NoRoots(c) THEN "skipped"
  ELSE IF RoleArchiveFSMode(c.role) = "readonly"
  THEN IF c.goos = "openbsd" THEN Denied ELSE CreateStatus(c.world.rootCreate)
  ELSE IF c.world.rootCreate = "ok" THEN "available" ELSE "unavailable"

(* A successful exec replaces the image: the child is gone. *)
NegativeExec(c) ==
  IF c.goos = "openbsd" THEN Denied
  ELSE IF c.goos \notin Confined THEN "skipped"
  ELSE CASE c.world.exec = "missing" -> "unavailable"
         [] c.world.exec = "runs"    -> "replaced"
         [] OTHER                    -> Denied

NegativeRoleNet(c) ==
  IF c.goos \notin Confined \/ RoleMayHoldNetwork(c.role) THEN "skipped"
  ELSE IF c.goos = "openbsd" THEN Denied
  ELSE IF c.world.net THEN "unexpected_allow" ELSE Denied

(***************************************************************************)
(* ChildEnv.Confine                                                        *)
(***************************************************************************)
(* Kernel settings with a probe of their own, and where they exist. *)
Controls == [conferred |-> {"freebsd"}, allow_roots |-> {"freebsd"},
             cap_mode |-> {"freebsd"}, cap_ambient |-> {"linux"},
             no_new_privs |-> {"linux"}, seccomp |-> {"linux"}, dumpable |-> {"linux"},
             rlimit_core |-> Confined, trace_ctl |-> {"freebsd"}]

ControlStatus(k, c) ==
  IF c.goos \notin Controls[k] THEN "skipped"
  ELSE IF k \in c.world.unset THEN "unavailable" ELSE "available"

(* The Require*Finding rules: what counts as met. *)
Met(status) == status \in {"available", "skipped"}
DenialMet(status) == status \in {Denied, "skipped"}
RequireApplyAvailable(c) == c.goos \in Confined /\ "apply" \notin c.world.unset

RequireArchiveFSWrite(c) ==
  /\ RoleArchiveFSMode(c.role) = "readonly" => DenialMet(NegativeFSPathWrite(c))
  /\ RoleArchiveFSMode(c.role) = "readwrite" => Met(NegativeFSPathWrite(c))

ReleaseGate(c) ==
  /\ RequireApplyAvailable(c)
  /\ \A k \in DOMAIN Controls : Met(ControlStatus(k, c))
  /\ DenialMet(NegativeFSRead(c))
  /\ DenialMet(NegativeFSOpen(c))
  /\ c.goos = "freebsd" \/ DenialMet(NegativeRoleNet(c))
  /\ DenialMet(NegativeExec(c))
  /\ RoleArchiveFSMode(c.role) = "none" \/ Met(NegativeFSPath(c))
  /\ RequireArchiveFSWrite(c)

Healthy == [unset |-> {}, create |-> "denied", hosts |-> TRUE, read |-> FALSE,
            rootOpen |-> TRUE, rootCreate |-> "denied", exec |-> "denied", net |-> FALSE]

Worlds ==
  {[Healthy EXCEPT !.unset = {k}, !.rootCreate = w] :
      k \in DOMAIN Controls \cup {"apply"}, w \in {"denied", "ok"}}
  \cup {[Healthy EXCEPT !.create = x, !.rootCreate = y, !.rootOpen = o, !.net = n] :
         x \in {"denied", "ok", "exists"}, y \in {"denied", "ok", "exists"},
         o \in BOOLEAN, n \in BOOLEAN}
  \cup {[Healthy EXCEPT !.hosts = h, !.read = r, !.exec = e, !.rootCreate = y] :
         h \in BOOLEAN, r \in BOOLEAN, e \in {"denied", "missing", "runs"},
         y \in {"denied", "ok"}}

ConfineInit ==
  /\ child \in [role : ProbedRoles, goos : Systems, release : BOOLEAN,
                roots : BOOLEAN, world : Worlds]
  /\ gate = "claimed"

(* Engineering mode is best effort: the findings are not looked at. *)
RunConfine ==
  /\ gate = "claimed"
  /\ gate' = IF ~ child.release \/ ReleaseGate(child) THEN "serving" ELSE "exited"
  /\ UNCHANGED child

ConfineNext == RunConfine

ConfineSpec == ConfineInit /\ [][ConfineNext]_confineVars

ConfineTypeOK == gate \in {"claimed", "serving", "exited"} /\ child.role \in AllRoles

(* A release child that serves really is confined, where its probes can    *)
(* observe the kernel (OpenBSD aborts on a probe and is not observed): no  *)
(* control is unset, nothing can be created or read outside its roots, no  *)
(* exec, no network unless its role holds it, a read-only role cannot      *)
(* write and a read-write role can, and no collision or missing probe      *)
(* target was mistaken for a denial.                                       *)
ReleaseServesConfined ==
  gate = "serving" /\ child.release /\ child.goos # "openbsd" =>
    /\ child.goos \in Confined
    /\ \A k \in child.world.unset \ {"apply"} : child.goos \notin Controls[k]
    /\ child.world.create = "denied" /\ child.world.hosts /\ ~ child.world.read
    /\ child.world.exec = "denied"
    /\ child.role = "net" \/ child.goos = "freebsd" \/ ~ child.world.net
    /\ child.roots =>
         CASE RoleArchiveFSMode(child.role) = "readonly"  ->
                child.world.rootOpen /\ child.world.rootCreate = "denied"
           [] RoleArchiveFSMode(child.role) = "readwrite" ->
                child.world.rootOpen /\ child.world.rootCreate = "ok"
           [] OTHER -> TRUE

(* The two tables agree, for every role: what the inventory lets a         *)
(* supervisor plan confer, with the slots it launches the role with, no    *)
(* probe reports as unexpected_allow; and every capability the inventory   *)
(* forbids is reported when conferred, except the network of index and     *)
(* apply, which only the socket probe looks at.                            *)
ProbesMatchInventory ==
  \A role \in AllRoles :
    /\ \A confer \in SUBSET Inventory[role].mayHold :
          NegativeRoleSemantic(role, confer, defaultSlots(role, {"peer"})) = {}
    /\ \A cap \in Inventory[role].mustNot :
          \/ NegativeRoleSemantic(role, {cap}, {}) # {}
          \/ cap = "network" /\ role \in {"index", "apply"} /\ ~ RoleMayHoldNetwork(role)
=============================================================================
