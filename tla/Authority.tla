----------------------------- MODULE Authority -----------------------------
(***************************************************************************)
(* The process authority inventory (internal/authority) and the slot rules *)
(* of the supervisor (internal/supervisor/slots.go): which capability and  *)
(* which descriptor a privilege-separated role may hold.  Roles and        *)
(* capabilities are the strings of the source without their prefixes.      *)
(***************************************************************************)
EXTENDS Naturals, FiniteSets, Sequences

AllRoles == {"supervisor", "net", "auth", "parser", "index", "plan", "apply",
             "journal", "audit"}

(* One row per role: what it may hold and what it must never hold. *)
Entry(may, mustNot) == [mayHold |-> may, mustNot |-> mustNot]

Inventory ==
  [supervisor |-> Entry({"child_lifecycle", "preopened_ipc", "policy_identity"},
                        {"remote_content_parser", "archive_traversal", "long_term_keys"}),
   net        |-> Entry({"network_sockets", "encrypted_frames"},
                        {"archive_descriptors", "permanent_keys", "journal_writes"}),
   auth       |-> Entry({"identity_handle", "session_key_derive", "authorization_policy"},
                        {"network_accept_loop", "archive_contents", "publication_rights"}),
   parser     |-> Entry({"bounded_message_ipc"},
                        {"permanent_keys", "archives", "network_sockets"}),
   index      |-> Entry({"readonly_archive_root", "bounded_index_output"},
                        {"network", "publication", "deletion"}),
   plan       |-> Entry({"canonical_manifests", "plan_output"},
                        {"filesystem_writes", "network", "keys"}),
   apply      |-> Entry({"archive_staging_quarantine_roots"},
                        {"network", "identity_keys", "arbitrary_path_lookup"}),
   journal    |-> Entry({"journal_descriptor", "authenticated_record_input"},
                        {"policy_decisions", "network", "archive_mutation"}),
   audit      |-> Entry({"readonly_journal", "redacted_event_sink"},
                        {"operation_decisions", "archives", "secrets"})]

(* Complete, and no capability both granted and denied. *)
ValidateInventory(inv) ==
  /\ DOMAIN inv = AllRoles
  /\ \A r \in AllRoles : /\ inv[r].mayHold # {}
                         /\ inv[r].mustNot # {}
                         /\ inv[r].mayHold \cap inv[r].mustNot = {}

(* Listed as may-hold and not denied; anything unlisted is denied. *)
Allows(role, cap) ==
  /\ role \in AllRoles
  /\ cap \notin Inventory[role].mustNot
  /\ cap \in Inventory[role].mayHold

DeniedProbe(role, conferred) == \A c \in conferred : Allows(role, c)

(* Directory descriptors go only to roles with an archive capability. *)
archiveAuthorityOK(role) ==
  \E c \in {"archive_descriptors", "archive_staging_quarantine_roots",
            "readonly_archive_root", "archives"} : Allows(role, c)

slotAllowed(role, kind) ==
  \/ kind \in {"ipc_endpoint", "policy_identity", "journal_segment",
               "readonly_journal", "event_sink"}
  \/ /\ kind \in {"archive_root", "staging_root", "quarantine_root"}
     /\ archiveAuthorityOK(role)

ValidateSlots(role, confer, slots) ==
  /\ DeniedProbe(role, confer)
  /\ \A k \in slots : slotAllowed(role, k)

(* The descriptors a role is launched with. *)
defaultSlots(role, peers) ==
  (IF peers = {} THEN {} ELSE {"ipc_endpoint"})
  \cup CASE role = "supervisor" -> {"policy_identity"}
         [] role = "apply"   -> {"archive_root", "staging_root", "quarantine_root"}
         [] role = "journal" -> {"journal_segment"}
         [] role = "audit"   -> {"readonly_journal", "event_sink"}
         [] role = "index"   -> {"archive_root"}
         [] OTHER            -> {}
============================================================================
