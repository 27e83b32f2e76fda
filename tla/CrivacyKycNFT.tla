--------------------------- MODULE CrivacyKycNFT ---------------------------
(***************************************************************************)
(* The soulbound "KYC verified" token (fhevm/contracts/CrivacyKycNFT.sol). *)
(* A transaction that reverts changes nothing, so every action is the      *)
(* successful call; its guard is the conjunction of the requires.  The     *)
(* serial number, display name, URI and issue time of a token are display  *)
(* data no property is about: Meta is abstracted to its customer field.    *)
(* Customers are externally owned accounts, so the receiver hook of        *)
(* _safeMint accepts.                                                      *)
(***************************************************************************)
EXTENDS Naturals, FiniteSets

CONSTANTS
  Users,       \* addresses that can hold a credential and a token
  Operators,   \* keys that are, or may become, the Crivacy operator
  KycAddr,     \* address of the CrivacyKYC registry contract
  NoAddr,      \* address(0)
  MaxTokenId   \* bound on the tokens ever minted

ASSUME NftAssumption ==
  /\ MaxTokenId \in Nat \ {0}
  /\ NoAddr \notin Users \cup Operators \cup {KycAddr}
  /\ KycAddr \notin Users \cup Operators

TokenIds == 1..MaxTokenId

VARIABLES
  nftOperator,       \* operator
  registry,          \* registry: the contract allowed to cascade burns
  nextId,            \* _nextId
  meta,              \* _meta[id].customer, NoAddr when deleted
  tokenOfCustomer,   \* 0 means none
  ownerOf            \* ERC721 _owners

nftVars == <<nftOperator, registry, nextId, meta, tokenOfCustomer, ownerOf>>

NftTypeOK ==
  /\ nftOperator \in Operators
  /\ registry \in {NoAddr, KycAddr}
  /\ nextId \in 1..(MaxTokenId + 1)
  /\ meta \in [TokenIds -> Users \cup {NoAddr}]
  /\ tokenOfCustomer \in [Users -> 0..MaxTokenId]
  /\ ownerOf \in [TokenIds -> Users \cup {NoAddr}]

NftInit ==
  /\ nftOperator \in Operators
  /\ registry = NoAddr
  /\ nextId = 1
  /\ meta = [id \in TokenIds |-> NoAddr]
  /\ tokenOfCustomer = [u \in Users |-> 0]
  /\ ownerOf = [id \in TokenIds |-> NoAddr]

\* onlyAuthorized
Authorized(caller) == caller \in {nftOperator, registry}

\* The override of ERC721._update: only a mint or a burn moves a token.
MayMove(from, to) == from = NoAddr \/ to = NoAddr

Move(id, to) ==
  /\ MayMove(ownerOf[id], to)
  /\ ownerOf' = [ownerOf EXCEPT ![id] = to]

SetRegistry(caller, r) ==
  /\ caller = nftOperator
  /\ registry' = r
  /\ UNCHANGED <<nftOperator, nextId, meta, tokenOfCustomer, ownerOf>>

SetNftOperator(caller, new) ==
  /\ caller = nftOperator
  /\ nftOperator' = new
  /\ UNCHANGED <<registry, nextId, meta, tokenOfCustomer, ownerOf>>

Mint(caller, customer) ==
  /\ Authorized(caller)
  /\ tokenOfCustomer[customer] = 0
  /\ nextId <= MaxTokenId
  /\ nextId' = nextId + 1
  /\ meta' = [meta EXCEPT ![nextId] = customer]
  /\ tokenOfCustomer' = [tokenOfCustomer EXCEPT ![customer] = nextId]
  /\ Move(nextId, customer)
  /\ UNCHANGED <<nftOperator, registry>>

BurnKeepsIndex(caller, id) ==               \* mutation: tokenOfCustomer not deleted
  /\ Authorized(caller)
  /\ meta[id] # NoAddr
  /\ ownerOf[id] # NoAddr
  /\ meta' = [meta EXCEPT ![id] = NoAddr]
  /\ Move(id, NoAddr)
  /\ UNCHANGED <<nftOperator, registry, nextId, tokenOfCustomer>>
Burn(caller, id) ==
  /\ Authorized(caller)
  /\ meta[id] # NoAddr
  /\ ownerOf[id] # NoAddr
  /\ tokenOfCustomer' = [tokenOfCustomer EXCEPT ![meta[id]] = 0]
  /\ meta' = [meta EXCEPT ![id] = NoAddr]
  /\ Move(id, NoAddr)
  /\ UNCHANGED <<nftOperator, registry, nextId>>

\* transferFrom by the owner to another account; it reverts when the token
\* may not move.
TransferFrom(from, to, id) ==
  /\ from # NoAddr /\ ownerOf[id] = from
  /\ IF MayMove(from, to)
     THEN Move(id, to) /\ UNCHANGED <<nftOperator, registry, nextId, meta, tokenOfCustomer>>
     ELSE UNCHANGED nftVars

\* What externally owned accounts can send to the token contract.
NftTransaction ==
  \/ \E c \in Operators, r \in {NoAddr, KycAddr} : SetRegistry(c, r)
  \/ \E c, new \in Operators : SetNftOperator(c, new)
  \/ \E c \in Operators, u \in Users : Mint(c, u)
  \/ \E c \in Operators, id \in TokenIds : Burn(c, id)
  \/ \E u, v \in Users, id \in TokenIds : TransferFrom(u, v, id)

-----------------------------------------------------------------------------
(* The three maps that say who holds what agree, although they are written *)
(* by two contracts' worth of code (ours and OpenZeppelin's): a token's    *)
(* ERC721 owner is the customer it was issued to, that customer's index    *)
(* points back at it, no other token belongs to them, and no id at or      *)
(* above _nextId is in use.  A stale index entry would make the registry's *)
(* cascade burn somebody else's token or revert for ever.                  *)
OneTokenPerCustomer ==
  /\ \A id \in TokenIds :
       /\ ownerOf[id] = meta[id]
       /\ ownerOf[id] # NoAddr => tokenOfCustomer[ownerOf[id]] = id /\ id < nextId
  /\ \A u \in Users :
       tokenOfCustomer[u] # 0 => ownerOf[tokenOfCustomer[u]] = u

(* Soulbound: a token goes from nobody to its customer and from its        *)
(* customer to nobody, never from one customer to another, and an id that  *)
(* was burnt is never minted again.                                        *)
Soulbound ==
  [][\A id \in TokenIds :
       /\ ownerOf[id] # NoAddr => ownerOf'[id] \in {ownerOf[id], NoAddr}
       /\ ownerOf[id] = NoAddr /\ ownerOf'[id] # NoAddr => id = nextId]_nftVars
=============================================================================
