-------------------------- MODULE CrivacyKYCProofs --------------------------
(***************************************************************************)
(* Theorems about CrivacyKYC for every set of holders, operators and       *)
(* firms and every bound.  Each invariant is carried through the actions   *)
(* one by one; the token contract's part is a lemma of its own because     *)
(* both its own transactions and the registry's cascade burn go through    *)
(* it.                                                                     *)
(***************************************************************************)
EXTENDS CrivacyKYC, TLAPS

-----------------------------------------------------------------------------
(* Types *)

LEMMA MintType ==
  ASSUME NftAssumption, NftTypeOK, NEW c, NEW u \in Users, Mint(c, u)
  PROVE  NftTypeOK'
BY DEF NftAssumption, NftTypeOK, Mint, Move, TokenIds

LEMMA BurnType ==
  ASSUME NftAssumption, NftTypeOK, NEW c, NEW id \in TokenIds, Burn(c, id)
  PROVE  NftTypeOK'
BY DEF NftAssumption, NftTypeOK, Burn, Move, TokenIds

(* Every transaction an account can send to the token contract keeps the   *)
(* types of its state.                                                     *)
LEMMA NftTransactionType ==
  ASSUME NftAssumption, NftTypeOK, NftTransaction
  PROVE  NftTypeOK'
<1>1. ASSUME NEW c \in Operators, NEW r \in {NoAddr, KycAddr}, SetRegistry(c, r)
      PROVE  NftTypeOK'
  BY <1>1 DEF NftTypeOK, SetRegistry
<1>2. ASSUME NEW c \in Operators, NEW new \in Operators, SetNftOperator(c, new)
      PROVE  NftTypeOK'
  BY <1>2 DEF NftTypeOK, SetNftOperator
<1>3. ASSUME NEW c \in Operators, NEW u \in Users, Mint(c, u)
      PROVE  NftTypeOK'
  BY <1>3, MintType
<1>4. ASSUME NEW c \in Operators, NEW id \in TokenIds, Burn(c, id)
      PROVE  NftTypeOK'
  BY <1>4, BurnType
<1>5. ASSUME NEW u \in Users, NEW v \in Users, NEW id \in TokenIds, TransferFrom(u, v, id)
      PROVE  NftTypeOK'
  BY <1>5 DEF NftTypeOK, TransferFrom, Move, MayMove, nftVars
<1>6. QED
  BY <1>1, <1>2, <1>3, <1>4, <1>5 DEF NftTransaction

(* The cascade burn keeps them too, whether or not there is anything to    *)
(* burn.                                                                   *)
LEMMA MaybeBurnType ==
  ASSUME NftAssumption, NftTypeOK, NEW u \in Users, NEW b \in BOOLEAN, MaybeBurnNft(u, b)
  PROVE  NftTypeOK'
<1>1. CASE UNCHANGED nftVars
  BY <1>1 DEF NftTypeOK, nftVars
<1>2. CASE ~ UNCHANGED nftVars
  <2>1. tokenOfCustomer[u] # 0 /\ Burn(KycAddr, tokenOfCustomer[u])
    BY <1>2 DEF MaybeBurnNft
  <2>2. tokenOfCustomer[u] \in TokenIds
    BY <2>1 DEF NftTypeOK, NftAssumption, TokenIds
  <2>3. QED
    BY <2>1, <2>2, BurnType
<1>3. QED
  BY <1>1, <1>2

LEMMA SetCredentialType ==
  ASSUME NftAssumption, KycAssumption, TypeOK,
         NEW c \in Operators, NEW u \in Users, NEW v \in 0..(MaxTime + 1),
         NEW val \in Validators, NEW l \in Levels, NEW s \in BOOLEAN,
         SetCredential(c, u, v, val, l, s)
  PROVE  TypeOK'
<1> DEFINE h == [kind |-> "fields", user |-> u, issuer |-> kycOperator,
                 level |-> l, sanctioned |-> s, serial |-> serial + 1]
<1> DEFINE rec == [exists |-> TRUE, status |-> "Active", validator |-> val,
                   validUntil |-> v, issuedAt |-> now, fields |-> h]
<1>1. serial' \in 0..MaxSerial /\ serial + 1 \in Serials
  BY DEF SetCredential, TypeOK, KycTypeOK, KycAssumption, Serials
<1>2. h \in FieldsHandles
  BY <1>1 DEF FieldsHandles, TypeOK, KycTypeOK
<1>3. rec \in Credentials
  BY <1>2 DEF Credentials, TypeOK, KycTypeOK, Statuses
<1>4. cred' = [cred EXCEPT ![u] = rec] /\ acl' = acl \cup AllowSelfAndUser(h, u)
  BY DEF SetCredential
<1> HIDE DEF h, rec
<1>5. cred' \in [Users -> Credentials]
  BY <1>3, <1>4 DEF TypeOK, KycTypeOK
<1>6. acl' \subseteq Handles \X Parties
  <2>1. AllowSelfAndUser(h, u) \subseteq Handles \X Parties
    BY <1>2 DEF AllowSelfAndUser, Handles, Parties, TypeOK, KycTypeOK
  <2>2. QED
    BY <1>4, <2>1 DEF TypeOK, KycTypeOK
<1>7. NftTypeOK'
  BY DEF SetCredential, TypeOK, NftTypeOK, nftVars
<1>8. QED
  BY <1>1, <1>5, <1>6, <1>7 DEF SetCredential, TypeOK, KycTypeOK

LEMMA VerdictType ==
  ASSUME NftAssumption, KycAssumption, TypeOK, NEW u \in Users, NEW f \in Firms,
         NEW m \in Levels, HasRecord(u), cred[u].fields # NoHandle, serial < MaxSerial
  PROVE  Eligible(u, f, m) \in VerdictHandles
<1>1. cred[u].fields \in FieldsHandles
  BY DEF TypeOK, KycTypeOK, Credentials
<1>2. /\ cred[u].fields.serial \in Serials
      /\ (cred[u].fields.level >= m /\ ~cred[u].fields.sanctioned) \in BOOLEAN
  BY <1>1 DEF FieldsHandles
<1>3. serial + 1 \in Serials
  BY DEF TypeOK, KycTypeOK, KycAssumption, Serials
<1>4. QED
  BY <1>2, <1>3 DEF Eligible, VerdictHandles

LEMMA GrantAccessType ==
  ASSUME NftAssumption, KycAssumption, TypeOK,
         NEW c \in Operators, NEW u \in Users, NEW f \in Firms, NEW m \in Levels,
         GrantAccess(c, u, f, m)
  PROVE  TypeOK'
<1> DEFINE verdict == Eligible(u, f, m)
<1>1. <<cred[u].fields, KycAddr>> \in acl /\ HasRecord(u) /\ serial < MaxSerial
  BY DEF GrantAccess, Grantable, Computable
<1>2. cred[u].fields # NoHandle
  BY <1>1 DEF TypeOK, KycTypeOK, KycAssumption
<1>3. verdict \in VerdictHandles
  BY <1>1, <1>2, VerdictType
<1>4. /\ grant' = [grant EXCEPT ![u][f] = verdict]
      /\ acl' = acl \cup ({verdict} \X {KycAddr, f})
  BY DEF GrantAccess, AllowVerdict
<1> HIDE DEF verdict
<1>5. grant' \in [Users -> [Firms -> VerdictHandles \cup {NoHandle}]]
  BY <1>3, <1>4 DEF TypeOK, KycTypeOK
<1>6. acl' \subseteq Handles \X Parties
  BY <1>3, <1>4 DEF TypeOK, KycTypeOK, Handles, Parties
<1>7. NftTypeOK'
  BY DEF GrantAccess, TypeOK, NftTypeOK, nftVars
<1>8. serial' \in 0..MaxSerial
  BY <1>1 DEF GrantAccess, TypeOK, KycTypeOK, KycAssumption
<1>9. QED
  BY <1>5, <1>6, <1>7, <1>8 DEF GrantAccess, TypeOK, KycTypeOK

LEMMA RevokedType ==
  ASSUME NftAssumption, KycAssumption, TypeOK,
         NEW u \in Users, NEW b \in BOOLEAN, Revoked(u, b)
  PROVE  TypeOK'
<1>1. NftTypeOK'
  BY MaybeBurnType DEF Revoked, TypeOK
<1>2. cred' \in [Users -> Credentials]
  <2>1. [cred[u] EXCEPT !.status = "Revoked"] \in Credentials
    BY DEF TypeOK, KycTypeOK, Credentials, Statuses
  <2>2. cred' = [cred EXCEPT ![u] = [cred[u] EXCEPT !.status = "Revoked"]]
    BY DEF Revoked
  <2>3. QED
    BY <2>1, <2>2 DEF TypeOK, KycTypeOK
<1>3. QED
  BY <1>1, <1>2 DEF Revoked, TypeOK, KycTypeOK

LEMMA EraseCredentialType ==
  ASSUME NftAssumption, KycAssumption, TypeOK,
         NEW c \in Operators, NEW u \in Users, EraseCredential(c, u)
  PROVE  TypeOK'
<1>1. NftTypeOK'
  BY MaybeBurnType DEF EraseCredential, TypeOK
<1>2. NoCredential \in Credentials
  BY DEF NoCredential, Credentials, Statuses, KycAssumption
<1>3. cred' \in [Users -> Credentials]
  BY <1>2 DEF EraseCredential, TypeOK, KycTypeOK
<1>4. QED
  BY <1>1, <1>3 DEF EraseCredential, TypeOK, KycTypeOK

LEMMA MigrateValidatorType ==
  ASSUME NftAssumption, KycAssumption, TypeOK,
         NEW c \in Operators, NEW u \in Users, NEW val \in Validators,
         MigrateValidator(c, u, val)
  PROVE  TypeOK'
<1>1. NftTypeOK'
  BY DEF MigrateValidator, TypeOK, NftTypeOK, nftVars
<1>2. [cred[u] EXCEPT !.validator = val] \in Credentials
  BY DEF TypeOK, KycTypeOK, Credentials
<1>3. cred' = [cred EXCEPT ![u] = [cred[u] EXCEPT !.validator = val]]
  BY DEF MigrateValidator
<1>4. QED
  BY <1>1, <1>2, <1>3 DEF MigrateValidator, TypeOK, KycTypeOK

LEMMA TypeInit == ASSUME NftAssumption, KycAssumption, Init PROVE TypeOK
<1>1. NoCredential \in Credentials
  BY DEF NoCredential, Credentials, Statuses, KycAssumption
<1>2. QED
  BY <1>1 DEF Init, NftInit, TypeOK, NftTypeOK, KycTypeOK, NftAssumption, KycAssumption, TokenIds

LEMMA TypeStep ==
  ASSUME NftAssumption, KycAssumption, TypeOK, [Next]_vars
  PROVE  TypeOK'
<1>1. CASE Tick
  BY <1>1 DEF Tick, TypeOK, NftTypeOK, nftVars, KycTypeOK, KycAssumption
<1>2. CASE NftTransaction /\ UNCHANGED kycVars
  BY <1>2, NftTransactionType DEF TypeOK, KycTypeOK, kycVars
<1>3. ASSUME NEW c \in Operators, NEW a \in {NoAddr, NftAddr}, LinkNft(c, a)
      PROVE  TypeOK'
  BY <1>3 DEF LinkNft, TypeOK, NftTypeOK, nftVars, KycTypeOK
<1>4. ASSUME NEW c \in Operators, NEW new \in Operators, SetOperator(c, new)
      PROVE  TypeOK'
  BY <1>4 DEF SetOperator, TypeOK, NftTypeOK, nftVars, KycTypeOK
<1>5. ASSUME NEW c \in Operators, NEW u \in Users, CredentialTransaction(c, u)
      PROVE  TypeOK'
  <2>1. ASSUME NEW f \in Firms, RevokeAccess(c, u, f)
        PROVE  TypeOK'
    BY <2>1 DEF RevokeAccess, TypeOK, NftTypeOK, nftVars, KycTypeOK
  <2>2. ASSUME NEW b \in BOOLEAN, RevokeCredential(c, u, b)
        PROVE  TypeOK'
    BY <2>2, RevokedType DEF RevokeCredential
  <2>3. QED
    BY <1>5, <2>1, <2>2, SetCredentialType, GrantAccessType, EraseCredentialType,
       MigrateValidatorType DEF CredentialTransaction
<1>6. ASSUME NEW u \in Users, RevokeMine(u)
      PROVE  TypeOK'
  BY <1>6, RevokedType DEF RevokeMine
<1>7. CASE UNCHANGED vars
  BY <1>7 DEF vars, nftVars, kycVars, TypeOK, NftTypeOK, KycTypeOK
<1>8. QED
  BY <1>1, <1>2, <1>3, <1>4, <1>5, <1>6, <1>7 DEF Next

(* Every reachable state of the two contracts is well typed: in particular *)
(* the handle stored in a grant is a verdict, never a raw field, and the   *)
(* handle and token counters stay within their bounds.                     *)
THEOREM TypeCorrect == Spec => []TypeOK
<1>1. Init => TypeOK
  BY TypeInit, NftAssumption, KycAssumption
<1>2. TypeOK /\ [Next]_vars => TypeOK'
  BY TypeStep, NftAssumption, KycAssumption
<1>3. QED
  BY <1>1, <1>2, PTL DEF Spec
-----------------------------------------------------------------------------
(* Handles.  OnlyTheVerdictReachesAFirm and StoredHandlesAreUsable are     *)
(* inductive; the provenance of verdicts needs to know also that no handle *)
(* is ahead of the counter, so that a new one is later than all others.    *)

HandlesBelowCounter == \A p \in acl : p[1].serial <= serial

HandleInv ==
  /\ OnlyTheVerdictReachesAFirm
  /\ StoredHandlesAreUsable
  /\ VerdictsComeFromTheirUser
  /\ HandlesBelowCounter

(* A step that touches neither the ACL nor the counter, keeps the grants   *)
(* or empties some of them, and changes of a record at most its lifecycle  *)
(* or the whole of it.                                                     *)
LEMMA HandleInvQuiet ==
  ASSUME TypeOK, HandleInv, acl' = acl, serial' = serial,
         \A u \in Users : cred'[u].exists =>
            cred[u].exists /\ cred'[u].fields = cred[u].fields,
         \A u \in Users, f \in Firms : grant'[u][f] \in {grant[u][f], NoHandle}
  PROVE  HandleInv'
<1>1. OnlyTheVerdictReachesAFirm' /\ HandlesBelowCounter' /\ VerdictsComeFromTheirUser'
  BY DEF HandleInv, OnlyTheVerdictReachesAFirm, HandlesBelowCounter, VerdictsComeFromTheirUser
<1>2. StoredHandlesAreUsable'
  BY DEF HandleInv, StoredHandlesAreUsable
<1>3. QED
  BY <1>1, <1>2 DEF HandleInv

LEMMA SetCredentialHandles ==
  ASSUME NftAssumption, KycAssumption, TypeOK, HandleInv,
         NEW c \in Operators, NEW u \in Users, NEW v \in 0..(MaxTime + 1),
         NEW val \in Validators, NEW l \in Levels, NEW s \in BOOLEAN,
         SetCredential(c, u, v, val, l, s)
  PROVE  HandleInv'
<1> DEFINE h == [kind |-> "fields", user |-> u, issuer |-> kycOperator,
                 level |-> l, sanctioned |-> s, serial |-> serial + 1]
<1> DEFINE new == {h} \X {KycAddr, u, kycOperator}
<1>1. h \in FieldsHandles
  BY DEF SetCredential, TypeOK, KycTypeOK, KycAssumption, Serials, FieldsHandles
<1>2. /\ h.kind = "fields" /\ h.user = u /\ h.issuer = kycOperator
      /\ h.serial = serial + 1
  OBVIOUS
<1>3. /\ acl' = acl \cup new /\ serial' = serial + 1 /\ grant' = grant
      /\ cred' = [cred EXCEPT ![u] =
           [exists |-> TRUE, status |-> "Active", validator |-> val,
            validUntil |-> v, issuedAt |-> now, fields |-> h]]
  BY DEF SetCredential, AllowSelfAndUser
<1> HIDE DEF h
<1>4. serial \in Nat
  BY DEF TypeOK, KycTypeOK
<1>5. OnlyTheVerdictReachesAFirm'
  BY <1>2, <1>3 DEF HandleInv, OnlyTheVerdictReachesAFirm
<1>6. HandlesBelowCounter'
  <2>1. \A p \in acl : p[1].serial \in Nat
    BY DEF TypeOK, KycTypeOK, Handles, FieldsHandles, VerdictHandles, Serials
  <2>2. QED
    BY <1>2, <1>3, <1>4, <2>1 DEF HandleInv, HandlesBelowCounter
<1>7. VerdictsComeFromTheirUser'
  <2>1. ASSUME NEW p \in acl', p[1].kind = "verdict" PROVE p \in acl
    BY <1>2, <1>3, <2>1
  <2>2. QED
    BY <1>3, <2>1 DEF HandleInv, VerdictsComeFromTheirUser
<1>8. StoredHandlesAreUsable'
  <2>1. ASSUME NEW w \in Users, cred'[w].exists
        PROVE  /\ cred'[w].fields \in FieldsHandles /\ cred'[w].fields.user = w
               /\ {cred'[w].fields} \X {KycAddr, w, cred'[w].fields.issuer} \subseteq acl'
    <3>1. CASE w = u
      <4>1. cred'[u].fields = h
        BY <1>3 DEF TypeOK, KycTypeOK
      <4>2. QED
        BY <1>1, <1>2, <1>3, <3>1, <4>1
    <3>2. CASE w # u
      <4>1. cred'[w] = cred[w]
        BY <1>3, <3>2 DEF TypeOK, KycTypeOK
      <4>2. QED
        BY <1>3, <2>1, <4>1 DEF HandleInv, StoredHandlesAreUsable
    <3>3. QED
      BY <3>1, <3>2
  <2>2. QED
    BY <1>3, <2>1 DEF HandleInv, StoredHandlesAreUsable
<1>9. QED
  BY <1>5, <1>6, <1>7, <1>8 DEF HandleInv

LEMMA GrantAccessHandles ==
  ASSUME NftAssumption, KycAssumption, TypeOK, HandleInv,
         NEW c \in Operators, NEW u \in Users, NEW f \in Firms, NEW m \in Levels,
         GrantAccess(c, u, f, m)
  PROVE  HandleInv'
<1> DEFINE h == cred[u].fields
<1> DEFINE verdict == Eligible(u, f, m)
<1>1. /\ HasRecord(u) /\ <<h, KycAddr>> \in acl /\ serial < MaxSerial
      /\ acl' = acl \cup ({verdict} \X {KycAddr, f}) /\ serial' = serial + 1
      /\ grant' = [grant EXCEPT ![u][f] = verdict] /\ cred' = cred
  BY DEF GrantAccess, Grantable, Computable, AllowVerdict
<1>2. h \in FieldsHandles /\ h.user = u
  BY <1>1 DEF HandleInv, StoredHandlesAreUsable, HasRecord
<1>3. h.serial <= serial /\ h.serial \in Nat /\ serial \in Nat /\ h.kind = "fields"
  BY <1>1, <1>2 DEF HandleInv, HandlesBelowCounter, FieldsHandles, Serials, TypeOK, KycTypeOK
<1>4. verdict \in VerdictHandles
  BY <1>1, <1>2, VerdictType DEF KycAssumption, Handles
<1>5. /\ verdict.kind = "verdict" /\ verdict.user = u /\ verdict.firm = f
      /\ verdict.of = h.serial /\ verdict.serial = serial + 1
      /\ verdict.eligible => ~h.sanctioned
  BY DEF Eligible
<1> HIDE DEF verdict, h
<1>6. OnlyTheVerdictReachesAFirm'
  BY <1>1, <1>5 DEF HandleInv, OnlyTheVerdictReachesAFirm
<1>7. HandlesBelowCounter'
  <2>1. \A p \in acl : p[1].serial \in Nat
    BY DEF TypeOK, KycTypeOK, Handles, FieldsHandles, VerdictHandles, Serials
  <2>2. QED
    BY <1>1, <1>3, <1>5, <2>1 DEF HandleInv, HandlesBelowCounter
<1>8. VerdictsComeFromTheirUser'
  <2>1. ASSUME NEW p \in {verdict} \X {KycAddr, f}
        PROVE  \E q \in acl :
                 /\ q[1].kind = "fields" /\ q[2] = KycAddr
                 /\ q[1].user = p[1].user /\ q[1].serial = p[1].of
                 /\ q[1].serial < p[1].serial
                 /\ p[1].eligible => ~q[1].sanctioned
    <3>1. p[1] = verdict
      BY <2>1
    <3>2. <<h, KycAddr>> \in acl
      BY <1>1
    <3>3. QED
      BY <1>2, <1>3, <1>5, <3>1, <3>2
  <2>2. QED
    BY <1>1, <2>1 DEF HandleInv, VerdictsComeFromTheirUser
<1>9. StoredHandlesAreUsable'
  <2>1. ASSUME NEW w \in Users, NEW g \in Firms, grant'[w][g] # NoHandle
        PROVE  /\ grant'[w][g].user = w /\ grant'[w][g].firm = g
               /\ {grant'[w][g]} \X {KycAddr, g} \subseteq acl'
    <3>1. CASE w = u /\ g = f
      <4>1. grant'[u][f] = verdict
        BY <1>1 DEF TypeOK, KycTypeOK
      <4>2. QED
        BY <1>1, <1>5, <3>1, <4>1
    <3>2. CASE ~(w = u /\ g = f)
      <4>1. grant'[w][g] = grant[w][g]
        BY <1>1, <3>2 DEF TypeOK, KycTypeOK
      <4>2. QED
        BY <1>1, <2>1, <4>1 DEF HandleInv, StoredHandlesAreUsable
    <3>3. QED
      BY <3>1, <3>2
  <2>2. QED
    BY <1>1, <2>1 DEF HandleInv, StoredHandlesAreUsable
<1>10. QED
  BY <1>6, <1>7, <1>8, <1>9 DEF HandleInv

LEMMA HandleStep ==
  ASSUME NftAssumption, KycAssumption, TypeOK, HandleInv, [Next]_vars
  PROVE  HandleInv'
<1>1. ASSUME acl' = acl, serial' = serial, cred' = cred, grant' = grant
      PROVE  HandleInv'
  BY <1>1, HandleInvQuiet
<1>2. ASSUME NEW u \in Users, NEW b \in BOOLEAN, Revoked(u, b)
      PROVE  HandleInv'
  <2>1. \A w \in Users : cred'[w].exists = cred[w].exists /\ cred'[w].fields = cred[w].fields
    BY <1>2 DEF Revoked, TypeOK, KycTypeOK, Credentials
  <2>2. QED
    BY <1>2, <2>1, HandleInvQuiet DEF Revoked
<1>3. ASSUME NEW c \in Operators, NEW u \in Users, CredentialTransaction(c, u)
      PROVE  HandleInv'
  <2>1. ASSUME NEW f \in Firms, RevokeAccess(c, u, f)
        PROVE  HandleInv'
    <3>1. \A w \in Users, g \in Firms : grant'[w][g] \in {grant[w][g], NoHandle}
      BY <2>1 DEF RevokeAccess, TypeOK, KycTypeOK
    <3>2. QED
      BY <2>1, <3>1, HandleInvQuiet DEF RevokeAccess
  <2>2. CASE EraseCredential(c, u)
    <3>1. \A w \in Users : cred'[w].exists => cred'[w] = cred[w]
      BY <2>2 DEF EraseCredential, NoCredential, TypeOK, KycTypeOK
    <3>2. QED
      BY <2>2, <3>1, HandleInvQuiet DEF EraseCredential
  <2>3. ASSUME NEW val \in Validators, MigrateValidator(c, u, val)
        PROVE  HandleInv'
    <3>1. \A w \in Users : cred'[w].exists = cred[w].exists /\ cred'[w].fields = cred[w].fields
      BY <2>3 DEF MigrateValidator, TypeOK, KycTypeOK, Credentials
    <3>2. QED
      BY <2>3, <3>1, HandleInvQuiet DEF MigrateValidator
  <2>4. ASSUME NEW b \in BOOLEAN, RevokeCredential(c, u, b)
        PROVE  HandleInv'
    BY <2>4, <1>2 DEF RevokeCredential
  <2>5. QED
    BY <1>3, <2>1, <2>2, <2>3, <2>4, SetCredentialHandles, GrantAccessHandles
       DEF CredentialTransaction
<1>4. ASSUME NEW u \in Users, RevokeMine(u)
      PROVE  HandleInv'
  BY <1>4, <1>2 DEF RevokeMine
<1>5. CASE \/ Tick
           \/ NftTransaction /\ UNCHANGED kycVars
           \/ \E c \in Operators, a \in {NoAddr, NftAddr} : LinkNft(c, a)
           \/ \E c, new \in Operators : SetOperator(c, new)
           \/ UNCHANGED vars
  BY <1>5, <1>1 DEF Tick, LinkNft, SetOperator, vars, kycVars
<1>6. QED
  BY <1>3, <1>4, <1>5 DEF Next

LEMMA HandlesCorrect == Spec => []HandleInv
<1>1. Init => HandleInv
  BY DEF Init, HandleInv, OnlyTheVerdictReachesAFirm, StoredHandlesAreUsable,
     VerdictsComeFromTheirUser, HandlesBelowCounter, NoCredential
<1>2. TypeOK /\ HandleInv /\ [Next]_vars => HandleInv'
  BY HandleStep, NftAssumption, KycAssumption
<1>3. QED
  BY <1>1, <1>2, TypeCorrect, PTL DEF Spec

(* Whatever the operator, the holders and time do, in any order and for    *)
(* any number of firms, the ACL opens a credential's fields to its holder  *)
(* and issuer alone and a verdict to one firm alone.                       *)
THEOREM FirmsLearnVerdictsOnly == Spec => []OnlyTheVerdictReachesAFirm
BY HandlesCorrect, PTL DEF HandleInv

(* Stored handles stay usable: the registry can compute on every stored    *)
(* credential, its holder can decrypt it, and a firm its own grant.        *)
THEOREM HandlesStayUsable == Spec => []StoredHandlesAreUsable
BY HandlesCorrect, PTL DEF HandleInv

(* No sequence of overwrites, revocations and erasures pairs a verdict     *)
(* with another user's fields or turns a sanctioned record eligible.       *)
THEOREM VerdictProvenance == Spec => []VerdictsComeFromTheirUser
BY HandlesCorrect, PTL DEF HandleInv
-----------------------------------------------------------------------------
(* Tokens.  OneTokenPerCustomer is inductive over the typed states. *)

LEMMA MintTokens ==
  ASSUME NftAssumption, NftTypeOK, OneTokenPerCustomer,
         NEW c, NEW u \in Users, Mint(c, u)
  PROVE  OneTokenPerCustomer'
<1>1. nextId \in TokenIds /\ nextId \in Nat /\ u # NoAddr
  BY DEF Mint, NftTypeOK, NftAssumption, TokenIds
<1>2. /\ nextId' = nextId + 1
      /\ meta' = [meta EXCEPT ![nextId] = u]
      /\ ownerOf' = [ownerOf EXCEPT ![nextId] = u]
      /\ tokenOfCustomer' = [tokenOfCustomer EXCEPT ![u] = nextId]
      /\ tokenOfCustomer[u] = 0
  BY DEF Mint, Move
<1>3. QED
  BY <1>1, <1>2 DEF NftTypeOK, OneTokenPerCustomer, TokenIds, NftAssumption

LEMMA BurnTokens ==
  ASSUME NftAssumption, NftTypeOK, OneTokenPerCustomer,
         NEW c, NEW id \in TokenIds, Burn(c, id)
  PROVE  OneTokenPerCustomer'
<1>1. meta[id] \in Users /\ ownerOf[id] = meta[id] /\ tokenOfCustomer[meta[id]] = id
  BY DEF Burn, NftTypeOK, OneTokenPerCustomer
<1>2. /\ nextId' = nextId
      /\ meta' = [meta EXCEPT ![id] = NoAddr]
      /\ ownerOf' = [ownerOf EXCEPT ![id] = NoAddr]
      /\ tokenOfCustomer' = [tokenOfCustomer EXCEPT ![meta[id]] = 0]
  BY DEF Burn, Move
<1>3. QED
  BY <1>1, <1>2 DEF NftTypeOK, OneTokenPerCustomer, TokenIds, NftAssumption

LEMMA TokenStep ==
  ASSUME NftAssumption, KycAssumption, TypeOK, OneTokenPerCustomer, [Next]_vars
  PROVE  OneTokenPerCustomer'
<1> USE DEF TypeOK
<1>1. ASSUME UNCHANGED nftVars PROVE OneTokenPerCustomer'
  BY <1>1 DEF nftVars, OneTokenPerCustomer
<1>2. ASSUME NEW u \in Users, NEW b \in BOOLEAN, MaybeBurnNft(u, b)
      PROVE  OneTokenPerCustomer'
  <2>1. CASE UNCHANGED nftVars
    BY <1>1, <2>1
  <2>2. CASE ~ UNCHANGED nftVars
    <3>1. tokenOfCustomer[u] # 0 /\ Burn(KycAddr, tokenOfCustomer[u])
      BY <1>2, <2>2 DEF MaybeBurnNft
    <3>2. tokenOfCustomer[u] \in TokenIds
      BY <3>1 DEF NftTypeOK, NftAssumption, TokenIds
    <3>3. QED
      BY <3>1, <3>2, BurnTokens
  <2>3. QED
    BY <2>1, <2>2
<1>3. CASE NftTransaction
  <2>1. ASSUME NEW c \in Operators, NEW r \in {NoAddr, KycAddr}, SetRegistry(c, r)
        PROVE  OneTokenPerCustomer'
    BY <2>1 DEF SetRegistry, OneTokenPerCustomer
  <2>2. ASSUME NEW c \in Operators, NEW new \in Operators, SetNftOperator(c, new)
        PROVE  OneTokenPerCustomer'
    BY <2>2 DEF SetNftOperator, OneTokenPerCustomer
  <2>3. ASSUME NEW u \in Users, NEW v \in Users, NEW id \in TokenIds, TransferFrom(u, v, id)
        PROVE  OneTokenPerCustomer'
    BY <2>3, <1>1 DEF TransferFrom, MayMove, NftAssumption
  <2>4. QED
    BY <1>3, <2>1, <2>2, <2>3, MintTokens, BurnTokens DEF NftTransaction
<1>4. ASSUME NEW c \in Operators, NEW u \in Users, CredentialTransaction(c, u)
      PROVE  OneTokenPerCustomer'
  BY <1>4, <1>1, <1>2 DEF CredentialTransaction, SetCredential, GrantAccess, RevokeAccess,
     RevokeCredential, Revoked, EraseCredential, MigrateValidator
<1>5. QED
  BY <1>1, <1>2, <1>3, <1>4 DEF Next, Tick, LinkNft, SetOperator, RevokeMine, Revoked, vars

(* Under any interleaving of mints, burns by either authority, transfers   *)
(* and rewiring, the token contract's maps agree about who holds what.     *)
THEOREM TokensStayConsistent == Spec => []OneTokenPerCustomer
<1>1. Init => OneTokenPerCustomer
  BY DEF Init, NftInit, OneTokenPerCustomer
<1>2. TypeOK /\ OneTokenPerCustomer /\ [Next]_vars => OneTokenPerCustomer'
  BY TokenStep, NftAssumption, KycAssumption
<1>3. QED
  BY <1>1, <1>2, TypeCorrect, PTL DEF Spec

-----------------------------------------------------------------------------
(* Grants *)

(* A firm gains the right to decrypt a verdict only in a step that finds   *)
(* the credential Active, and only on the fields stored at that moment.    *)
THEOREM GrantsNeedActive == Spec => GrantsOnlyOnActive
<1> DEFINE Granted == \A p \in acl' \ acl : p[1].kind = "verdict" =>
                        /\ cred[p[1].user].status = "Active"
                        /\ p[1].of = cred[p[1].user].fields.serial
<1>1. ASSUME [Next]_vars PROVE [Granted]_vars
  <2>1. ASSUME NEW c \in Operators, NEW u \in Users, CredentialTransaction(c, u)
        PROVE  Granted
    <3>1. ASSUME NEW v \in 0..(MaxTime + 1), NEW val \in Validators, NEW l \in Levels,
                 NEW s \in BOOLEAN, SetCredential(c, u, v, val, l, s)
          PROVE  Granted
      BY <3>1 DEF SetCredential, AllowSelfAndUser
    <3>2. ASSUME NEW f \in Firms, NEW m \in Levels, GrantAccess(c, u, f, m)
          PROVE  Granted
      BY <3>2 DEF GrantAccess, Grantable, AllowVerdict, Eligible
    <3>3. ASSUME acl' = acl PROVE Granted
      BY <3>3
    <3>4. QED
      BY <2>1, <3>1, <3>2, <3>3 DEF CredentialTransaction, RevokeAccess, RevokeCredential,
         Revoked, EraseCredential, MigrateValidator
  <2>2. ASSUME acl' = acl PROVE Granted
    BY <2>2
  <2>3. QED
    BY <1>1, <2>1, <2>2 DEF Next, Tick, LinkNft, SetOperator, RevokeMine, Revoked, kycVars
<1>2. QED
  BY <1>1, PTL DEF Spec, GrantsOnlyOnActive
-----------------------------------------------------------------------------
(* The two contracts implement the ledger.  A step of theirs is a step of  *)
(* the ledger or leaves its four maps alone; which one depends on whether  *)
(* the cascade burned a token.                                             *)

StatusMap == [u \in Users |-> cred[u].status]
ContentMap == [u \in Users |-> cred[u].fields]
BadgeMap == [u \in Users |-> tokenOfCustomer[u] # 0]
ReaderMap == [u \in Users |-> ReadersOf(u)]

LedgerStep == Ledger!LedgerNext \/ UNCHANGED <<StatusMap, ContentMap, BadgeMap, ReaderMap>>

\* What a burn, or the decision not to, does to the badges.
LEMMA BurnBadges ==
  ASSUME NftAssumption, NftTypeOK, OneTokenPerCustomer, NEW c, NEW id \in TokenIds, Burn(c, id)
  PROVE  /\ meta[id] \in Users /\ BadgeMap[meta[id]]
         /\ BadgeMap' = [BadgeMap EXCEPT ![meta[id]] = FALSE]
<1>1. meta[id] \in Users /\ tokenOfCustomer[meta[id]] = id /\ id # 0
  BY DEF Burn, NftTypeOK, OneTokenPerCustomer, TokenIds
<1>2. tokenOfCustomer' = [tokenOfCustomer EXCEPT ![meta[id]] = 0]
  BY DEF Burn
<1>3. QED
  BY <1>1, <1>2 DEF BadgeMap, NftTypeOK

LEMMA MaybeBurnBadges ==
  ASSUME NftAssumption, NftTypeOK, OneTokenPerCustomer,
         NEW u \in Users, NEW b \in BOOLEAN, MaybeBurnNft(u, b)
  PROVE  \E burn \in BOOLEAN : BadgeMap' = [BadgeMap EXCEPT ![u] = @ /\ ~burn]
<1>1. CASE UNCHANGED nftVars
  <2>1. tokenOfCustomer' = tokenOfCustomer
    BY <1>1 DEF nftVars
  <2>2. BadgeMap' = [BadgeMap EXCEPT ![u] = @ /\ ~FALSE]
    BY <2>1 DEF BadgeMap
  <2>3. QED
    BY <2>2
<1>2. CASE ~ UNCHANGED nftVars
  <2>1. tokenOfCustomer[u] # 0 /\ Burn(KycAddr, tokenOfCustomer[u])
    BY <1>2 DEF MaybeBurnNft
  <2>2. tokenOfCustomer[u] \in TokenIds
    BY <2>1 DEF NftTypeOK, NftAssumption, TokenIds
  <2>3. meta[tokenOfCustomer[u]] = u
    BY <2>1, <2>2 DEF OneTokenPerCustomer
  <2>4. BadgeMap' = [BadgeMap EXCEPT ![u] = FALSE]
    BY <2>1, <2>2, <2>3, BurnBadges
  <2>5. [BadgeMap EXCEPT ![u] = FALSE] = [BadgeMap EXCEPT ![u] = @ /\ ~TRUE]
    OBVIOUS
  <2>6. QED
    BY <2>4, <2>5
<1>3. QED
  BY <1>1, <1>2

LEMMA IssueStep ==
  ASSUME NftAssumption, KycAssumption, TypeOK,
         NEW c \in Operators, NEW u \in Users, NEW v \in 0..(MaxTime + 1),
         NEW val \in Validators, NEW l \in Levels, NEW s \in BOOLEAN,
         SetCredential(c, u, v, val, l, s)
  PROVE  LedgerStep
<1> DEFINE h == [kind |-> "fields", user |-> u, issuer |-> kycOperator,
                 level |-> l, sanctioned |-> s, serial |-> serial + 1]
<1>1. h \in FieldsHandles
  BY DEF SetCredential, TypeOK, KycTypeOK, KycAssumption, Serials, FieldsHandles
<1>2. /\ cred' = [cred EXCEPT ![u] =
           [exists |-> TRUE, status |-> "Active", validator |-> val,
            validUntil |-> v, issuedAt |-> now, fields |-> h]]
      /\ acl' = acl \cup ({h} \X {KycAddr, u, kycOperator})
      /\ tokenOfCustomer' = tokenOfCustomer
  BY DEF SetCredential, AllowSelfAndUser, nftVars
<1>3. h.kind # "verdict"
  OBVIOUS
<1> HIDE DEF h
<1>4. PICK k \in FieldsHandles : k = h
  BY <1>1
<1>5. StatusMap' = [StatusMap EXCEPT ![u] = "Active"] /\ ContentMap' = [ContentMap EXCEPT ![u] = k]
  BY <1>2, <1>4 DEF StatusMap, ContentMap, TypeOK, KycTypeOK
<1>6. BadgeMap' = BadgeMap
  BY <1>2 DEF BadgeMap
<1>7. ReaderMap' = ReaderMap
  BY <1>2, <1>3 DEF ReaderMap, ReadersOf
<1>8. Ledger!Issue(u, k)
  BY <1>5, <1>6, <1>7 DEF Ledger!Issue, StatusMap, ContentMap, BadgeMap, ReaderMap
<1>9. QED
  BY <1>8 DEF LedgerStep, Ledger!LedgerNext

LEMMA AdmitStep ==
  ASSUME NftAssumption, KycAssumption, TypeOK,
         NEW c \in Operators, NEW u \in Users, NEW f \in Firms, NEW m \in Levels,
         GrantAccess(c, u, f, m)
  PROVE  LedgerStep
<1> DEFINE verdict == Eligible(u, f, m)
<1>1. /\ cred' = cred /\ cred[u].status = "Active" /\ tokenOfCustomer' = tokenOfCustomer
      /\ acl' = acl \cup ({verdict} \X {KycAddr, f})
  BY DEF GrantAccess, Grantable, AllowVerdict, nftVars
<1>2. verdict.kind = "verdict" /\ verdict.user = u
  BY DEF Eligible
<1> HIDE DEF verdict
<1>3. KycAddr \notin Firms
  BY DEF KycAssumption
<1>4. \A w \in Users : ReadersOf(w)' = IF w = u THEN ReadersOf(w) \cup {f} ELSE ReadersOf(w)
  <2>1. ASSUME NEW w \in Users, NEW g \in Firms
        PROVE  g \in ReadersOf(w)' <=> g \in ReadersOf(w) \/ (w = u /\ g = f)
    <3>1. CASE w = u /\ g = f
      <4>1. <<verdict, f>> \in acl'
        BY <1>1
      <4>2. QED
        BY <1>2, <3>1, <4>1 DEF ReadersOf
    <3>2. CASE ~(w = u /\ g = f)
      <4>1. ASSUME NEW p \in acl', p[1].kind = "verdict", p[1].user = w, p[2] = g
            PROVE  p \in acl
        BY <1>1, <1>2, <1>3, <3>2, <4>1
      <4>2. acl \subseteq acl'
        BY <1>1
      <4>3. QED
        BY <3>2, <4>1, <4>2 DEF ReadersOf
    <3>3. QED
      BY <3>1, <3>2
  <2>2. \A w \in Users : ReadersOf(w) \subseteq Firms /\ ReadersOf(w)' \subseteq Firms
    BY DEF ReadersOf
  <2>3. QED
    BY <2>1, <2>2
<1>5. ReaderMap' = [ReaderMap EXCEPT ![u] = @ \cup {f}]
  BY <1>4 DEF ReaderMap
<1>6. StatusMap' = StatusMap /\ ContentMap' = ContentMap /\ BadgeMap' = BadgeMap
  BY <1>1 DEF StatusMap, ContentMap, BadgeMap
<1>7. StatusMap[u] = "Active"
  BY <1>1 DEF StatusMap
<1>8. Ledger!Admit(u, f)
  BY <1>5, <1>6, <1>7 DEF Ledger!Admit, StatusMap, ContentMap, BadgeMap, ReaderMap
<1>9. QED
  BY <1>8 DEF LedgerStep, Ledger!LedgerNext

LEMMA RevokeStep ==
  ASSUME NftAssumption, KycAssumption, TypeOK, OneTokenPerCustomer,
         \A w \in Users : cred[w].exists <=> cred[w].status # "None",
         NEW u \in Users, NEW b \in BOOLEAN, Revoked(u, b)
  PROVE  LedgerStep
<1>1. PICK burn \in BOOLEAN : BadgeMap' = [BadgeMap EXCEPT ![u] = @ /\ ~burn]
  BY MaybeBurnBadges DEF Revoked, TypeOK
<1>2. cred' = [cred EXCEPT ![u] = [cred[u] EXCEPT !.status = "Revoked"]] /\ acl' = acl
  BY DEF Revoked
<1>3. StatusMap' = [StatusMap EXCEPT ![u] = "Revoked"] /\ ContentMap' = ContentMap
  BY <1>2 DEF StatusMap, ContentMap, TypeOK, KycTypeOK, Credentials
<1>4. ReaderMap' = ReaderMap
  BY <1>2 DEF ReaderMap, ReadersOf
<1>5. StatusMap[u] # "None"
  BY DEF Revoked, HasRecord, StatusMap
<1>6. Ledger!Revoke(u, burn)
  BY <1>1, <1>3, <1>4, <1>5 DEF Ledger!Revoke, StatusMap, ContentMap, BadgeMap, ReaderMap
<1>7. QED
  BY <1>1, <1>6 DEF LedgerStep, Ledger!LedgerNext

LEMMA EraseStep ==
  ASSUME NftAssumption, KycAssumption, TypeOK, OneTokenPerCustomer,
         \A w \in Users : cred[w].exists <=> cred[w].status # "None",
         NEW c \in Operators, NEW u \in Users, EraseCredential(c, u)
  PROVE  LedgerStep
<1>1. PICK burn \in BOOLEAN : BadgeMap' = [BadgeMap EXCEPT ![u] = @ /\ ~burn]
  BY MaybeBurnBadges DEF EraseCredential, TypeOK
<1>2. cred' = [cred EXCEPT ![u] = NoCredential] /\ acl' = acl
  BY DEF EraseCredential
<1>3. StatusMap' = [StatusMap EXCEPT ![u] = "None"] /\ ContentMap' = [ContentMap EXCEPT ![u] = NoHandle]
  BY <1>2 DEF StatusMap, ContentMap, TypeOK, KycTypeOK, NoCredential
<1>4. ReaderMap' = ReaderMap
  BY <1>2 DEF ReaderMap, ReadersOf
<1>5. StatusMap[u] # "None"
  BY DEF EraseCredential, HasRecord, StatusMap
<1>6. Ledger!Erase(u, burn)
  BY <1>1, <1>3, <1>4, <1>5 DEF Ledger!Erase, StatusMap, ContentMap, BadgeMap, ReaderMap
<1>7. QED
  BY <1>1, <1>6 DEF LedgerStep, Ledger!LedgerNext

\* A record exists exactly while its status says so.
RecordHasStatus == \A w \in Users : cred[w].exists <=> cred[w].status # "None"

LEMMA RecordStatusCorrect == Spec => []RecordHasStatus
<1>1. Init => RecordHasStatus
  BY DEF Init, NoCredential, RecordHasStatus
<1>2. ASSUME TypeOK, RecordHasStatus, [Next]_vars PROVE RecordHasStatus'
  <2>1. ASSUME cred' = cred PROVE RecordHasStatus'
    BY <1>2, <2>1 DEF RecordHasStatus
  <2>2. ASSUME NEW u \in Users, NEW b \in BOOLEAN, Revoked(u, b) PROVE RecordHasStatus'
    BY <1>2, <2>2 DEF Revoked, HasRecord, RecordHasStatus, TypeOK, KycTypeOK, Credentials
  <2>3. ASSUME NEW c \in Operators, NEW u \in Users, CredentialTransaction(c, u)
        PROVE  RecordHasStatus'
    <3>1. ASSUME NEW v \in 0..(MaxTime + 1), NEW val \in Validators, NEW l \in Levels,
                 NEW s \in BOOLEAN, SetCredential(c, u, v, val, l, s)
          PROVE  RecordHasStatus'
      BY <1>2, <3>1 DEF SetCredential, RecordHasStatus, TypeOK, KycTypeOK
    <3>2. CASE EraseCredential(c, u)
      BY <1>2, <3>2 DEF EraseCredential, NoCredential, RecordHasStatus, TypeOK, KycTypeOK
    <3>3. ASSUME NEW val \in Validators, MigrateValidator(c, u, val)
          PROVE  RecordHasStatus'
      BY <1>2, <3>3 DEF MigrateValidator, RecordHasStatus, TypeOK, KycTypeOK, Credentials
    <3>4. QED
      BY <2>1, <2>2, <2>3, <3>1, <3>2, <3>3 DEF CredentialTransaction, GrantAccess,
         RevokeAccess, RevokeCredential
  <2>4. QED
    BY <1>2, <2>1, <2>2, <2>3 DEF Next, Tick, LinkNft, SetOperator, RevokeMine, vars, kycVars
<1>3. QED
  BY <1>1, <1>2, TypeCorrect, PTL DEF Spec

LEMMA TokenLedgerStep ==
  ASSUME NftAssumption, KycAssumption, TypeOK, OneTokenPerCustomer,
         NftTransaction, UNCHANGED kycVars
  PROVE  LedgerStep
<1>1. StatusMap' = StatusMap /\ ContentMap' = ContentMap /\ ReaderMap' = ReaderMap
  BY DEF kycVars, StatusMap, ContentMap, ReaderMap, ReadersOf
<1>2. ASSUME NEW c \in Operators, NEW u \in Users, Mint(c, u)
      PROVE  LedgerStep
  <2>1. nextId # 0 /\ tokenOfCustomer' = [tokenOfCustomer EXCEPT ![u] = nextId]
    BY <1>2 DEF Mint, TypeOK, NftTypeOK
  <2>2. ~BadgeMap[u] /\ BadgeMap' = [BadgeMap EXCEPT ![u] = TRUE]
    BY <1>2, <2>1 DEF Mint, BadgeMap, TypeOK, NftTypeOK
  <2>3. Ledger!MintBadge(u)
    BY <1>1, <2>2 DEF Ledger!MintBadge, StatusMap, ContentMap, BadgeMap, ReaderMap
  <2>4. QED
    BY <2>3 DEF LedgerStep, Ledger!LedgerNext
<1>3. ASSUME NEW c \in Operators, NEW id \in TokenIds, Burn(c, id)
      PROVE  LedgerStep
  <2>1. PICK u \in Users : u = meta[id]
    BY <1>3, BurnBadges DEF TypeOK
  <2>2. BadgeMap[u] /\ BadgeMap' = [BadgeMap EXCEPT ![u] = FALSE]
    BY <1>3, <2>1, BurnBadges DEF TypeOK
  <2>3. Ledger!BurnBadge(u)
    BY <1>1, <2>2 DEF Ledger!BurnBadge, StatusMap, ContentMap, BadgeMap, ReaderMap
  <2>4. QED
    BY <2>3 DEF LedgerStep, Ledger!LedgerNext
<1>4. ASSUME tokenOfCustomer' = tokenOfCustomer PROVE LedgerStep
  BY <1>1, <1>4 DEF LedgerStep, BadgeMap
<1>5. ASSUME NEW u \in Users, NEW v \in Users, NEW id \in TokenIds, TransferFrom(u, v, id)
      PROVE  LedgerStep
  BY <1>4, <1>5 DEF TransferFrom, nftVars
<1>6. QED
  BY <1>2, <1>3, <1>4, <1>5 DEF NftTransaction, SetRegistry, SetNftOperator

LEMMA EveryStepIsALedgerStep ==
  ASSUME NftAssumption, KycAssumption, TypeOK, OneTokenPerCustomer,
         RecordHasStatus, [Next]_vars
  PROVE  LedgerStep
<1>1. ASSUME cred' = cred, acl' = acl, tokenOfCustomer' = tokenOfCustomer
      PROVE  LedgerStep
  BY <1>1 DEF LedgerStep, StatusMap, ContentMap, BadgeMap, ReaderMap, ReadersOf
<1>2. ASSUME NEW c \in Operators, NEW u \in Users, CredentialTransaction(c, u)
      PROVE  LedgerStep
  <2>1. ASSUME NEW f \in Firms, RevokeAccess(c, u, f)
        PROVE  LedgerStep
    BY <2>1, <1>1 DEF RevokeAccess, nftVars
  <2>2. ASSUME NEW val \in Validators, MigrateValidator(c, u, val)
        PROVE  LedgerStep
    <3>1. /\ cred' = [cred EXCEPT ![u] = [cred[u] EXCEPT !.validator = val]]
          /\ acl' = acl /\ tokenOfCustomer' = tokenOfCustomer
      BY <2>2 DEF MigrateValidator, nftVars
    <3>2. StatusMap' = StatusMap /\ ContentMap' = ContentMap
      BY <3>1 DEF StatusMap, ContentMap, TypeOK, KycTypeOK, Credentials
    <3>3. BadgeMap' = BadgeMap /\ ReaderMap' = ReaderMap
      BY <3>1 DEF BadgeMap, ReaderMap, ReadersOf
    <3>4. QED
      BY <3>2, <3>3 DEF LedgerStep
  <2>3. ASSUME NEW b \in BOOLEAN, RevokeCredential(c, u, b)
        PROVE  LedgerStep
    BY <2>3, RevokeStep DEF RevokeCredential, RecordHasStatus
  <2>4. CASE EraseCredential(c, u)
    BY <2>4, EraseStep DEF RecordHasStatus
  <2>5. QED
    BY <1>2, <2>1, <2>2, <2>3, <2>4, IssueStep, AdmitStep DEF CredentialTransaction
<1>3. ASSUME NEW u \in Users, RevokeMine(u)
      PROVE  LedgerStep
  BY <1>3, RevokeStep DEF RevokeMine, RecordHasStatus
<1>4. CASE NftTransaction /\ UNCHANGED kycVars
  BY <1>4, TokenLedgerStep
<1>5. CASE \/ Tick
           \/ \E c \in Operators, a \in {NoAddr, NftAddr} : LinkNft(c, a)
           \/ \E c, new \in Operators : SetOperator(c, new)
           \/ UNCHANGED vars
  BY <1>1, <1>5 DEF Tick, LinkNft, SetOperator, vars, nftVars, kycVars
<1>6. QED
  BY <1>2, <1>3, <1>4, <1>5 DEF Next

(* The two contracts implement the ledger the backend relies on: whatever  *)
(* is sent to them, a user's credential, badge and readers change only in  *)
(* the ways CredentialLedger allows.                                       *)
THEOREM ContractsImplementLedger == Spec => LedgerImplemented
<1>1. ASSUME Init PROVE Ledger!LedgerInit
  <2>1. /\ [u \in Users |-> cred[u].status] = [u \in Users |-> "None"]
        /\ [u \in Users |-> cred[u].fields] = [u \in Users |-> NoHandle]
    BY <1>1 DEF Init, NoCredential
  <2>2. [u \in Users |-> ReadersOf(u)] = [u \in Users |-> {}]
    BY <1>1 DEF Init, ReadersOf
  <2>3. \A u \in Users : (tokenOfCustomer[u] # 0) = FALSE
    BY <1>1 DEF Init, NftInit
  <2>4. [u \in Users |-> tokenOfCustomer[u] # 0] = [u \in Users |-> FALSE]
    BY <2>3, Zenon
  <2>5. QED
    BY <2>1, <2>2, <2>4 DEF Ledger!LedgerInit
<1>2. ASSUME TypeOK, HandleInv, OneTokenPerCustomer, RecordHasStatus, [Next]_vars
      PROVE  [Ledger!LedgerNext]_(Ledger!ledgerVars)
  <2>1. LedgerStep
    BY <1>2, EveryStepIsALedgerStep, NftAssumption, KycAssumption DEF HandleInv
  <2>2. QED
    BY <2>1 DEF LedgerStep, Ledger!ledgerVars, StatusMap, ContentMap, BadgeMap, ReaderMap
<1>3. QED
  BY <1>1, <1>2, TypeCorrect, HandlesCorrect, TokensStayConsistent, RecordStatusCorrect, PTL
     DEF Spec, LedgerImplemented, Ledger!LedgerSpec

-----------------------------------------------------------------------------
(* What a step may never do, for every value of the constants.             *)

\* A step that leaves u's status and expiry alone, or revokes or erases,
\* does not bring the credential back: time only runs forward.
LEMMA NotRevivedByAnythingElse ==
  ASSUME KycAssumption, TypeOK, NEW u \in Users, NEW f \in Firms,
         now' \in Nat, now <= now',
         \/ cred'[u].status # "Active"
         \/ cred'[u].status = cred[u].status /\ cred'[u].validUntil = cred[u].validUntil,
         ~View(u, f).isActive
  PROVE  ~View(u, f)'.isActive
<1>1. cred[u].validUntil \in 0..(MaxTime + 1) /\ now \in 0..MaxTime
  BY DEF TypeOK, KycTypeOK, Credentials
<1>2. ~(cred[u].status = "Active" /\ now <= cred[u].validUntil)
  BY Zenon DEF View
<1>3. ~(cred'[u].status = "Active" /\ now' <= cred'[u].validUntil)
  BY <1>1, <1>2 DEF KycAssumption
<1>4. QED
  BY <1>3, Zenon DEF View

(* Nothing but a new issuance makes an inactive credential active again.   *)
THEOREM OnlyIssuanceRevives == Spec => RevivedOnlyByIssuance
<1>1. ASSUME KycAssumption, TypeOK, [Next]_vars,
             NEW u \in Users, NEW f \in Firms,
             ~View(u, f).isActive, View(u, f)'.isActive
      PROVE  cred'[u].fields.serial = serial + 1
  <2> DEFINE Idle == /\ now' \in Nat /\ now <= now'
                     /\ \/ cred'[u].status # "Active"
                        \/ cred'[u].status = cred[u].status /\ cred'[u].validUntil = cred[u].validUntil
  <2>1. ~Idle
    BY <1>1, NotRevivedByAnythingElse
  <2>2. now \in Nat /\ now <= now /\ now <= now + 1 /\ now + 1 \in Nat
    BY <1>1 DEF TypeOK, KycTypeOK, KycAssumption
  <2>3. ASSUME NEW x \in Users, NEW b \in BOOLEAN, Revoked(x, b) PROVE Idle
    BY <1>1, <2>2, <2>3 DEF Revoked, TypeOK, KycTypeOK, Credentials
  <2>4. ASSUME NEW c \in Operators, NEW x \in Users, CredentialTransaction(c, x)
        PROVE  Idle \/ cred'[u].fields.serial = serial + 1
    <3>1. ASSUME NEW v \in 0..(MaxTime + 1), NEW val \in Validators, NEW l \in Levels,
                 NEW s \in BOOLEAN, SetCredential(c, x, v, val, l, s)
          PROVE  Idle \/ cred'[u].fields.serial = serial + 1
      BY <1>1, <2>2, <3>1 DEF SetCredential, TypeOK, KycTypeOK
    <3>2. CASE EraseCredential(c, x)
      BY <1>1, <2>2, <3>2 DEF EraseCredential, NoCredential, TypeOK, KycTypeOK
    <3>3. ASSUME NEW val \in Validators, MigrateValidator(c, x, val) PROVE Idle
      BY <1>1, <2>2, <3>3 DEF MigrateValidator, TypeOK, KycTypeOK, Credentials
    <3>4. ASSUME NEW g \in Firms, NEW m \in Levels, GrantAccess(c, x, g, m) PROVE Idle
      BY <2>2, <3>4 DEF GrantAccess
    <3>5. ASSUME NEW g \in Firms, RevokeAccess(c, x, g) PROVE Idle
      BY <2>2, <3>5 DEF RevokeAccess
    <3>6. QED
      BY <2>3, <2>4, <3>1, <3>2, <3>3, <3>4, <3>5 DEF CredentialTransaction, RevokeCredential
  <2>5. ASSUME Tick PROVE Idle
    BY <2>2, <2>5 DEF Tick
  <2>6. ASSUME NftTransaction, UNCHANGED kycVars PROVE Idle
    BY <2>2, <2>6 DEF kycVars
  <2>7. ASSUME \/ \E c \in Operators, a \in {NoAddr, NftAddr} : LinkNft(c, a)
               \/ \E c, new \in Operators : SetOperator(c, new)
               \/ UNCHANGED vars
        PROVE  Idle
    BY <2>2, <2>7 DEF LinkNft, SetOperator, vars, kycVars
  <2>8. ASSUME NEW x \in Users, RevokeMine(x) PROVE Idle
    BY <2>3, <2>8 DEF RevokeMine
  <2> HIDE DEF Idle
  <2>9. Idle \/ cred'[u].fields.serial = serial + 1
    BY <1>1, <2>4, <2>5, <2>6, <2>7, <2>8 DEF Next
  <2>10. QED
    BY <2>1, <2>9
<1>2. ASSUME TypeOK, [Next]_vars
      PROVE  [\A u \in Users, f \in Firms :
                ~View(u, f).isActive /\ View(u, f)'.isActive =>
                  cred'[u].fields.serial = serial + 1]_vars
  BY <1>1, <1>2, KycAssumption
<1>3. QED
  BY <1>2, TypeCorrect, PTL DEF Spec, RevivedOnlyByIssuance

\* The tokens a step moves, it moves as Soulbound allows.
Bound ==
  \A id \in TokenIds :
    /\ ownerOf[id] # NoAddr => ownerOf'[id] \in {ownerOf[id], NoAddr}
    /\ ownerOf[id] = NoAddr /\ ownerOf'[id] # NoAddr => id = nextId

LEMMA BurnIsBound ==
  ASSUME NftAssumption, NftTypeOK, NEW c, NEW id \in TokenIds, Burn(c, id)
  PROVE  Bound
BY DEF Bound, Burn, Move, NftTypeOK

LEMMA MaybeBurnIsBound ==
  ASSUME NftAssumption, NftTypeOK, NEW u \in Users, NEW b \in BOOLEAN, MaybeBurnNft(u, b)
  PROVE  Bound
<1>1. CASE UNCHANGED nftVars
  BY <1>1 DEF Bound, nftVars
<1>2. CASE ~ UNCHANGED nftVars
  <2>1. tokenOfCustomer[u] # 0 /\ Burn(KycAddr, tokenOfCustomer[u])
    BY <1>2 DEF MaybeBurnNft
  <2>2. tokenOfCustomer[u] \in TokenIds
    BY <2>1 DEF NftTypeOK, NftAssumption, TokenIds
  <2>3. QED
    BY <2>1, <2>2, BurnIsBound
<1>3. QED
  BY <1>1, <1>2

LEMMA NftTransactionIsBound ==
  ASSUME NftAssumption, NftTypeOK, NftTransaction
  PROVE  Bound
<1>1. ASSUME NEW c \in Operators, NEW u \in Users, Mint(c, u)
      PROVE  Bound
  BY <1>1 DEF Bound, Mint, Move, MayMove, NftTypeOK, NftAssumption, TokenIds
<1>2. ASSUME NEW u \in Users, NEW v \in Users, NEW id \in TokenIds, TransferFrom(u, v, id)
      PROVE  Bound
  BY <1>2 DEF Bound, TransferFrom, Move, MayMove, NftTypeOK, NftAssumption, nftVars
<1>3. ASSUME ownerOf' = ownerOf PROVE Bound
  BY <1>3 DEF Bound
<1>4. QED
  BY <1>1, <1>2, <1>3, BurnIsBound DEF NftTransaction, SetRegistry, SetNftOperator

(* A token never passes from one customer to another, and no burnt id is   *)
(* minted again, through either contract.                                  *)
THEOREM TokensAreSoulbound == Spec => Soulbound
<1>1. ASSUME NftAssumption, TypeOK, Next PROVE Bound
  <2>1. ASSUME ownerOf' = ownerOf PROVE Bound
    BY <2>1 DEF Bound
  <2>2. ASSUME NEW c \in Operators, NEW u \in Users, CredentialTransaction(c, u)
        PROVE  Bound
    BY <1>1, <2>1, <2>2, MaybeBurnIsBound DEF CredentialTransaction, SetCredential, GrantAccess,
       RevokeAccess, RevokeCredential, Revoked, EraseCredential, MigrateValidator, TypeOK, nftVars
  <2>3. ASSUME NEW u \in Users, RevokeMine(u) PROVE Bound
    BY <1>1, <2>3, MaybeBurnIsBound DEF RevokeMine, Revoked, TypeOK
  <2>4. QED
    BY <1>1, <2>1, <2>2, <2>3, NftTransactionIsBound DEF Next, Tick, LinkNft, SetOperator,
       TypeOK, nftVars
<1>2. ASSUME TypeOK, [Next]_vars
      PROVE  [Bound]_nftVars
  BY <1>1, <1>2, NftAssumption DEF vars
<1>3. QED
  BY <1>2, TypeCorrect, PTL DEF Spec, Soulbound, Bound

LEMMA CascadeTakesTheToken ==
  ASSUME NftAssumption, KycAssumption, NftTypeOK, OneTokenPerCustomer,
         NEW u \in Users, nft = NftAddr, MaybeBurnNft(u, TRUE)
  PROVE  tokenOfCustomer'[u] = 0
<1>1. CASE tokenOfCustomer[u] = 0
  BY <1>1 DEF MaybeBurnNft, nftVars
<1>2. CASE tokenOfCustomer[u] # 0
  <2>1. Burn(KycAddr, tokenOfCustomer[u])
    BY <1>2 DEF MaybeBurnNft, KycAssumption
  <2>2. tokenOfCustomer[u] \in TokenIds
    BY <1>2 DEF NftTypeOK, NftAssumption, TokenIds
  <2>3. meta[tokenOfCustomer[u]] = u
    BY <1>2, <2>2 DEF OneTokenPerCustomer
  <2>4. QED
    BY <2>1, <2>3 DEF Burn, NftTypeOK
<1>3. QED
  BY <1>1, <1>2

\* A record disappears only by being erased.
LEMMA OnlyErasureDeletes ==
  ASSUME TypeOK, NEW u \in Users, Next, cred[u].exists, ~cred'[u].exists
  PROVE  \E c \in Operators : EraseCredential(c, u)
<1>1. cred'[u] # cred[u]
  OBVIOUS
<1>2. ASSUME NEW x \in Users, NEW b \in BOOLEAN, Revoked(x, b) PROVE FALSE
  BY <1>2 DEF Revoked, TypeOK, KycTypeOK, Credentials
<1>3. ASSUME NEW c \in Operators, NEW x \in Users, CredentialTransaction(c, x)
      PROVE  EraseCredential(c, u)
  <2>1. ASSUME NEW v \in 0..(MaxTime + 1), NEW val \in Validators, NEW l \in Levels,
               NEW s \in BOOLEAN, SetCredential(c, x, v, val, l, s)
        PROVE  FALSE
    BY <2>1 DEF SetCredential, TypeOK, KycTypeOK
  <2>2. ASSUME NEW val \in Validators, MigrateValidator(c, x, val) PROVE FALSE
    BY <2>2 DEF MigrateValidator, TypeOK, KycTypeOK, Credentials
  <2>3. ASSUME EraseCredential(c, x), x # u PROVE FALSE
    BY <1>1, <2>3 DEF EraseCredential, TypeOK, KycTypeOK
  <2>4. QED
    BY <1>1, <1>2, <1>3, <2>1, <2>2, <2>3 DEF CredentialTransaction, RevokeCredential,
       GrantAccess, RevokeAccess
<1>4. QED
  BY <1>1, <1>2, <1>3 DEF Next, Tick, LinkNft, SetOperator, RevokeMine, kycVars

(* Erasing a credential, or revoking one's own, leaves no token behind     *)
(* while the token contract is linked.                                     *)
THEOREM ErasureTakesTheToken == Spec => NoTokenOutlivesErasure
<1>1. ASSUME TypeOK, OneTokenPerCustomer, [Next]_vars,
             NEW u \in Users, nft = NftAddr,
             \/ cred[u].exists /\ ~cred'[u].exists
             \/ RevokeMine(u)
      PROVE  tokenOfCustomer'[u] = 0 \/ UNCHANGED vars
  <2>1. CASE RevokeMine(u)
    BY <1>1, <2>1, CascadeTakesTheToken, NftAssumption, KycAssumption DEF RevokeMine, Revoked, TypeOK
  <2>2. CASE Next /\ cred[u].exists /\ ~cred'[u].exists
    BY <1>1, <2>2, OnlyErasureDeletes, CascadeTakesTheToken, NftAssumption, KycAssumption
       DEF EraseCredential, TypeOK
  <2>3. QED
    BY <1>1, <2>1, <2>2
<1>2. ASSUME TypeOK, OneTokenPerCustomer, [Next]_vars
      PROVE  [\A u \in Users :
                 /\ nft = NftAddr
                 /\ \/ cred[u].exists /\ ~cred'[u].exists
                    \/ RevokeMine(u)
                 => tokenOfCustomer'[u] = 0]_vars
  BY <1>1, <1>2
<1>3. QED
  BY <1>2, TypeCorrect, TokensStayConsistent, PTL DEF Spec, NoTokenOutlivesErasure
=============================================================================
