-------------------------- MODULE CredentialLedger --------------------------
(***************************************************************************)
(* What the chain promises to the rest of the system, without contracts,   *)
(* handles or roles: each user has at most one credential, a showcase      *)
(* badge, and a set of firms that have been let in on a verdict about the  *)
(* user.  CrivacyKYC together with CrivacyKycNFT implements this (see      *)
(* CrivacyKYC!Ledger); the backend modules issue their transactions        *)
(* against it.                                                             *)
(***************************************************************************)
CONSTANTS
  Users,      \* holders
  Firms,      \* relying parties
  Contents,   \* what a credential attests
  NoContent   \* no credential

ASSUME LedgerAssumption == NoContent \notin Contents

VARIABLES
  status,    \* user -> lifecycle of the credential
  content,   \* user -> what the current credential attests
  badge,     \* user -> holds a showcase token
  readers    \* user -> firms that can decrypt some verdict about the user

ledgerVars == <<status, content, badge, readers>>

LedgerTypeOK ==
  /\ status \in [Users -> {"None", "Active", "Revoked"}]
  /\ content \in [Users -> Contents \cup {NoContent}]
  /\ badge \in [Users -> BOOLEAN]
  /\ readers \in [Users -> SUBSET Firms]

LedgerInit ==
  /\ status = [u \in Users |-> "None"]
  /\ content = [u \in Users |-> NoContent]
  /\ badge = [u \in Users |-> FALSE]
  /\ readers = [u \in Users |-> {}]

\* A new credential replaces whatever the user had.
Issue(u, c) ==
  /\ status' = [status EXCEPT ![u] = "Active"]
  /\ content' = [content EXCEPT ![u] = c]
  /\ UNCHANGED <<badge, readers>>

\* A firm is let in only on a credential that is active.
Admit(u, f) ==
  /\ status[u] = "Active"
  /\ readers' = [readers EXCEPT ![u] = @ \cup {f}]
  /\ UNCHANGED <<status, content, badge>>

\* Revocation, with or without the badge.
Revoke(u, burn) ==
  /\ status[u] # "None"
  /\ status' = [status EXCEPT ![u] = "Revoked"]
  /\ badge' = [badge EXCEPT ![u] = @ /\ ~burn]
  /\ UNCHANGED <<content, readers>>

Erase(u, burn) ==
  /\ status[u] # "None"
  /\ status' = [status EXCEPT ![u] = "None"]
  /\ content' = [content EXCEPT ![u] = NoContent]
  /\ badge' = [badge EXCEPT ![u] = @ /\ ~burn]
  /\ UNCHANGED readers

MintBadge(u) ==
  /\ ~badge[u]
  /\ badge' = [badge EXCEPT ![u] = TRUE]
  /\ UNCHANGED <<status, content, readers>>

BurnBadge(u) ==
  /\ badge[u]
  /\ badge' = [badge EXCEPT ![u] = FALSE]
  /\ UNCHANGED <<status, content, readers>>

LedgerNext ==
  \E u \in Users :
    \/ \E c \in Contents : Issue(u, c)
    \/ \E f \in Firms : Admit(u, f)
    \/ \E burn \in BOOLEAN : Revoke(u, burn) \/ Erase(u, burn)
    \/ MintBadge(u)
    \/ BurnBadge(u)

LedgerSpec == LedgerInit /\ [][LedgerNext]_ledgerVars
=============================================================================
