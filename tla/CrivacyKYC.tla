----------------------------- MODULE CrivacyKYC -----------------------------
(***************************************************************************)
(* The confidential credential registry (fhevm/contracts/CrivacyKYC.sol)   *)
(* together with the showcase token it burns in cascade.  One action per   *)
(* external function that changes state; the guard is the conjunction of   *)
(* the requires, and a call that would revert is not a step.               *)
(*                                                                         *)
(* Ciphertext handles are records that say what they encrypt and where     *)
(* they came from.  The six encrypted fields of a credential are always    *)
(* written and permitted together, so one "fields" handle stands for the   *)
(* six; of the plaintexts only the level and the sanctioned flag feed a    *)
(* computation.  `serial' makes every handle new, as the FHE coprocessor   *)
(* does.  userRefHash, proofHash and the events are opaque data that no    *)
(* other operation reads.                                                  *)
(***************************************************************************)
EXTENDS CrivacyKycNFT

CONSTANTS
  Firms,      \* relying parties
  Validators, \* ValidatorType, "Didit" the zero value
  NftAddr,    \* address of the CrivacyKycNFT contract
  NoHandle,   \* the zero handle, ebool.wrap(bytes32(0))
  MaxTime,    \* bound on block.timestamp
  MaxSerial   \* bound on the handles ever created

Levels == 1..2                          \* 1 = Basic, 2 = Enhanced
Statuses == {"None", "Active", "Revoked", "Expired"}
Parties == Users \cup Operators \cup Firms \cup {KycAddr}

Serials == 1..MaxSerial
FieldsHandles ==
  [kind : {"fields"}, user : Users, issuer : Operators,
   level : Levels, sanctioned : BOOLEAN, serial : Serials]
VerdictHandles ==
  [kind : {"verdict"}, user : Users, firm : Firms,
   of : Serials, eligible : BOOLEAN, serial : Serials]
Handles == FieldsHandles \cup VerdictHandles

ASSUME KycAssumption ==
  /\ MaxTime \in Nat /\ MaxSerial \in Nat
  /\ NftAddr # NoAddr
  /\ "Didit" \in Validators
  /\ KycAddr \notin Firms
  /\ NoHandle \notin Handles

VARIABLES
  kycOperator,   \* operator
  nft,           \* the linked token contract, NoAddr before linkNft
  cred,          \* _cred
  grant,         \* _grant
  acl,           \* the coprocessor's ACL: who may use or decrypt which handle
  now,           \* block.timestamp
  serial         \* handles created so far

kycVars == <<kycOperator, nft, cred, grant, acl, now, serial>>
vars == <<nftVars, kycVars>>

Credentials ==
  [exists : BOOLEAN, status : Statuses, validator : Validators,
   validUntil : 0..(MaxTime + 1), issuedAt : 0..MaxTime,
   fields : FieldsHandles \cup {NoHandle}]

NoCredential ==
  [exists |-> FALSE, status |-> "None", validator |-> "Didit",
   validUntil |-> 0, issuedAt |-> 0, fields |-> NoHandle]

KycTypeOK ==
  /\ kycOperator \in Operators
  /\ nft \in {NoAddr, NftAddr}
  /\ cred \in [Users -> Credentials]
  /\ grant \in [Users -> [Firms -> VerdictHandles \cup {NoHandle}]]
  /\ acl \subseteq Handles \X Parties
  /\ now \in 0..MaxTime
  /\ serial \in 0..MaxSerial

TypeOK == NftTypeOK /\ KycTypeOK

Init ==
  /\ NftInit
  /\ kycOperator = nftOperator          \* deploy.ts deploys both from one key
  /\ nft = NoAddr
  /\ cred = [u \in Users |-> NoCredential]
  /\ grant = [u \in Users |-> [f \in Firms |-> NoHandle]]
  /\ acl = {}
  /\ now = 0
  /\ serial = 0

Tick ==
  /\ now < MaxTime
  /\ now' = now + 1
  /\ UNCHANGED <<nftVars, kycOperator, nft, cred, grant, acl, serial>>

-----------------------------------------------------------------------------
(* Roles and wiring *)

LinkNft(caller, addr) ==
  /\ caller = kycOperator
  /\ nft' = addr
  /\ UNCHANGED <<nftVars, kycOperator, cred, grant, acl, now, serial>>

SetOperator(caller, new) ==
  /\ caller = kycOperator
  /\ kycOperator' = new
  /\ UNCHANGED <<nftVars, nft, cred, grant, acl, now, serial>>

-----------------------------------------------------------------------------
(* Issuance *)

\* _allowSelfAndUser: the contract computes; the owner and the issuing
\* operator decrypt.
AllowUserOnly(h, user) == {h} \X {user, kycOperator}   \* mutation: no allowThis
AllowSelfAndUser(h, user) == {h} \X {KycAddr, user, kycOperator}

SetCredential(caller, user, validUntil, validator, level, sanctioned) ==
  LET h == [kind |-> "fields", user |-> user, issuer |-> kycOperator,
            level |-> level, sanctioned |-> sanctioned, serial |-> serial + 1]
  IN /\ caller = kycOperator
     /\ serial < MaxSerial
     /\ serial' = serial + 1
     /\ cred' = [cred EXCEPT ![user] =
          [exists |-> TRUE, status |-> "Active", validator |-> validator,
           validUntil |-> validUntil, issuedAt |-> now, fields |-> h]]
     /\ acl' = acl \cup AllowSelfAndUser(h, user)
     /\ UNCHANGED <<nftVars, kycOperator, nft, grant, now>>

-----------------------------------------------------------------------------
(* Eligibility and per-firm grants *)

\* require(c.exists)
AnyRecord(user) == TRUE                                 \* mutation: not required
HasRecord(user) == cred[user].exists

\* The coprocessor computes on a ciphertext only for a contract in its ACL.
Computable(h) == <<h, KycAddr>> \in acl

\* _eligible: ge(level, minLevel) and not sanctioned, as a fresh ciphertext.
RawFields(user, firm, minLevel) == cred[user].fields    \* mutation: no verdict
EligibleByLevel(user, firm, minLevel) ==                \* mutation: sanctions ignored
  [kind |-> "verdict", user |-> user, firm |-> firm, of |-> cred[user].fields.serial,
   eligible |-> cred[user].fields.level >= minLevel, serial |-> serial + 1]
Eligible(user, firm, minLevel) ==
  LET h == cred[user].fields
  IN [kind |-> "verdict", user |-> user, firm |-> firm, of |-> h.serial,
      eligible |-> h.level >= minLevel /\ ~h.sanctioned, serial |-> serial + 1]

\* What grantAccess requires of the record.
Grantable(user) == HasRecord(user) /\ cred[user].status = "Active"

\* The registry keeps the verdict, the firm may decrypt it.
AllowWithFields(verdict, user, firm) ==                 \* mutation: raw fields too
  {verdict, cred[user].fields} \X {KycAddr, firm}
AllowVerdict(verdict, user, firm) == {verdict} \X {KycAddr, firm}

GrantAccess(caller, user, firm, minLevel) ==
  /\ caller = kycOperator
  /\ Grantable(user)
  /\ Computable(cred[user].fields)
  /\ serial < MaxSerial
  /\ LET verdict == Eligible(user, firm, minLevel)
     IN /\ grant' = [grant EXCEPT ![user][firm] = verdict]
        /\ acl' = acl \cup AllowVerdict(verdict, user, firm)
  /\ serial' = serial + 1
  /\ UNCHANGED <<nftVars, kycOperator, nft, cred, now>>

RevokeAccess(caller, user, firm) ==
  /\ caller = kycOperator
  /\ grant' = [grant EXCEPT ![user][firm] = NoHandle]
  /\ UNCHANGED <<nftVars, kycOperator, nft, cred, acl, now, serial>>

-----------------------------------------------------------------------------
(* Reads *)

\* _buildView, as far as a caller acts on it.
View(user, viewer) ==
  [status |-> cred[user].status,
   isActive |-> cred[user].status = "Active" /\ now <= cred[user].validUntil,
   eligible |-> grant[user][viewer]]

\* eligibilityFor returns a handle the firm can decrypt.
ReadsVerdict(user, firm) ==
  /\ grant[user][firm] # NoHandle
  /\ <<grant[user][firm], firm>> \in acl

-----------------------------------------------------------------------------
(* Revocation and erasure *)

\* _maybeBurnNft, a nested call: if the token refuses, everything reverts.
MaybeBurnNft(user, burnNft) ==
  IF burnNft /\ nft # NoAddr /\ tokenOfCustomer[user] # 0
  THEN Burn(KycAddr, tokenOfCustomer[user])
  ELSE UNCHANGED nftVars

Revoked(user, burnNft) ==
  /\ HasRecord(user)
  /\ cred' = [cred EXCEPT ![user].status = "Revoked"]
  /\ MaybeBurnNft(user, burnNft)
  /\ UNCHANGED <<kycOperator, nft, grant, acl, now, serial>>

RevokeCredential(caller, user, burnNft) ==
  caller = kycOperator /\ Revoked(user, burnNft)

RevokeMine(user) == Revoked(user, TRUE)

EraseCredential(caller, user) ==
  /\ caller = kycOperator
  /\ HasRecord(user)
  /\ MaybeBurnNft(user, TRUE)
  /\ cred' = [cred EXCEPT ![user] = NoCredential]
  /\ UNCHANGED <<kycOperator, nft, grant, acl, now, serial>>

MigrateValidator(caller, user, new) ==
  /\ caller = kycOperator
  /\ HasRecord(user)
  /\ cred' = [cred EXCEPT ![user].validator = new]
  /\ UNCHANGED <<nftVars, kycOperator, nft, grant, acl, now, serial>>

-----------------------------------------------------------------------------
\* What the operator can send about one user.
CredentialTransaction(c, user) ==
  \/ \E v \in 0..(MaxTime + 1), val \in Validators, l \in Levels, s \in BOOLEAN :
       SetCredential(c, user, v, val, l, s)
  \/ \E f \in Firms, m \in Levels : GrantAccess(c, user, f, m)
  \/ \E f \in Firms : RevokeAccess(c, user, f)
  \/ \E b \in BOOLEAN : RevokeCredential(c, user, b)
  \/ EraseCredential(c, user)
  \/ \E val \in Validators : MigrateValidator(c, user, val)

Next ==
  \/ Tick
  \/ NftTransaction /\ UNCHANGED kycVars
  \/ \E c \in Operators, a \in {NoAddr, NftAddr} : LinkNft(c, a)
  \/ \E c, new \in Operators : SetOperator(c, new)
  \/ \E c \in Operators, u \in Users : CredentialTransaction(c, u)
  \/ \E u \in Users : RevokeMine(u)

Spec == Init /\ [][Next]_vars
-----------------------------------------------------------------------------
(* What anybody may ever decrypt.  The fields of a credential are open to  *)
(* the registry, the holder and the operator that issued it, and to nobody *)
(* else; a verdict is open to the registry and the one firm it was         *)
(* computed for.  ACL entries are never withdrawn, so a single wrong       *)
(* allow() in any call would leak for good.                                *)
OnlyTheVerdictReachesAFirm ==
  \A p \in acl :
    IF p[1].kind = "fields" THEN p[2] \in {KycAddr, p[1].user, p[1].issuer}
                            ELSE p[2] \in {KycAddr, p[1].firm}

(* Every handle the registry stores can be used by those it is stored for: *)
(* the registry can compute on it (a fresh ciphertext is usable only in    *)
(* the transaction that made it unless allowThis is called), the holder    *)
(* and issuer can decrypt the fields, and the firm its verdict.  A missing *)
(* allow shows only in a later transaction, when grantAccess reverts.      *)
StoredHandlesAreUsable ==
  /\ \A u \in Users : cred[u].exists =>
       /\ cred[u].fields \in FieldsHandles /\ cred[u].fields.user = u
       /\ {cred[u].fields} \X {KycAddr, u, cred[u].fields.issuer} \subseteq acl
  /\ \A u \in Users, f \in Firms : grant[u][f] # NoHandle =>
       /\ grant[u][f].user = u /\ grant[u][f].firm = f
       /\ {grant[u][f]} \X {KycAddr, f} \subseteq acl

(* Every verdict anybody can decrypt was computed from a credential issued *)
(* for the same user before it, and a positive one from a credential that  *)
(* was not sanctioned: overwriting, revoking, erasing and re-issuing       *)
(* records in any order never pairs a verdict with another user's fields.  *)
VerdictsComeFromTheirUser ==
  \A p \in acl : p[1].kind = "verdict" =>
    \E q \in acl :
      /\ q[1].kind = "fields" /\ q[2] = KycAddr
      /\ q[1].user = p[1].user /\ q[1].serial = p[1].of
      /\ q[1].serial < p[1].serial
      /\ p[1].eligible => ~q[1].sanctioned

(* A firm is let in on a verdict only in a transaction that finds the      *)
(* user's credential Active, and the verdict is about the fields stored at *)
(* that moment: no grant is issued for a revoked or deleted record.        *)
GrantsOnlyOnActive ==
  [][\A p \in acl' \ acl : p[1].kind = "verdict" =>
       /\ cred[p[1].user].status = "Active"
       /\ p[1].of = cred[p[1].user].fields.serial]_vars

(* What verify() reports as inactive, revoked, erased or past validUntil,  *)
(* becomes active again only by a new issuance: never by the passing of    *)
(* time, a validator migration, a grant or a role change.                  *)
RevivedOnlyByIssuance ==
  [][\A u \in Users, f \in Firms :
       ~View(u, f).isActive /\ View(u, f)'.isActive =>
         cred'[u].fields.serial = serial + 1]_vars

(* Erasure and self-revocation take the token with them in the same        *)
(* transaction whenever the token contract is linked.                      *)
NoTokenOutlivesErasure ==
  [][\A u \in Users :
       /\ nft = NftAddr
       /\ \/ cred[u].exists /\ ~cred'[u].exists
          \/ RevokeMine(u)
       => tokenOfCustomer'[u] = 0]_vars

\* Who has been let in on a verdict about u, as the ledger counts it.
ReadersOf(u) == {f \in Firms : \E p \in acl : p[1].kind = "verdict" /\ p[1].user = u /\ p[2] = f}

(* The two contracts implement the ledger the backend modules rely on.     *)
Ledger == INSTANCE CredentialLedger WITH
  Contents <- FieldsHandles, NoContent <- NoHandle,
  status <- [u \in Users |-> cred[u].status],
  content <- [u \in Users |-> cred[u].fields],
  badge <- [u \in Users |-> tokenOfCustomer[u] # 0],
  readers <- [u \in Users |-> ReadersOf(u)]

LedgerImplemented == Ledger!LedgerSpec

-----------------------------------------------------------------------------
(* Statements of the documentation the runs confront with the code. *)

(* README, Case C: after the holder revokes the whole credential, the      *)
(* firm's next read returns an empty handle and its decryption fails.      *)
RevokedReadsEmpty ==
  \A u \in Users, f \in Firms : cred[u].status = "Revoked" => ~ReadsVerdict(u, f)

=============================================================================
