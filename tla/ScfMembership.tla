---------------------------- MODULE ScfMembership ----------------------------
(***************************************************************************)
(* The membership token of the Stellar Community Fund                      *)
(* (contracts/scf-membership/src): tokens that only the admin mints and    *)
(* claws back, each with a role.  The owner of a token and the balance of  *)
(* an account are kept side by side.  One action is one successful call; a *)
(* call that panics changes nothing.                                       *)
(***************************************************************************)
EXTENDS Integers, FiniteSets

CONSTANTS
  Account,    \* addresses
  Admin,      \* the admin, to whom tokens are clawed back
  Wasm,       \* hashes of contract code
  FirstWasm,  \* the code the contract was deployed with
  None        \* an absent key of the storage

CONSTANTS     \* the bounds of the model
  MaxToken,   \* last id of a token
  Values      \* values tried for a role

Token == 0..MaxToken

Role == 0..4  \* the values that set_trait accepts

\* What is assumed of these (by MCOperations).
ScfAssumption ==
  /\ MaxToken \in Nat
  /\ Admin \in Account /\ FirstWasm \in Wasm
  /\ Values \subseteq Int
  /\ None \notin Account /\ None \notin Int

VARIABLES
  next_token_id,  \* DataKey::NextTokenId
  owner,          \* NFTStorageKey::Owner: token -> account, or None
  balances,       \* NFTStorageKey::Balance: account -> number, 0 if absent
  roles,          \* NFTStorageKey::Role: token -> role, or None
  wasm            \* the code of the contract

vars == <<next_token_id, owner, balances, roles, wasm>>

-----------------------------------------------------------------------------
(* Faulty variants of definitions below, each a slip the code could contain; *)
(* nothing here is part of the model.                                        *)

BothReadFirst(from) ==
  [balances EXCEPT ![from] = @ - 1, ![Admin] = balances[Admin] + 1]

-----------------------------------------------------------------------------
Exists(id) == owner[id] # None

\* set_trait: the values of a role.
Settable == Role

\* mint: the counter after a token was minted.
NextId == next_token_id + 1

\* mint: the role of a new token, whatever was stored for its id.
InitialRole(id) == 0

\* clawback: whoever a token is clawed back to.
Recipient(id) == Admin

\* clawback: the balance of the owner is written before that of the admin is
\* read, so that an admin that claws back its own token keeps its balance.
Moved(from) ==
  LET taken == [balances EXCEPT ![from] = @ - 1] IN [taken EXCEPT ![Admin] = @ + 1]

\* governance: the role of a token as the enumeration; None where it panics.
governance(id) == IF Exists(id) /\ roles[id] \in 0..3 THEN roles[id] ELSE None

Init ==
  /\ next_token_id = 0
  /\ owner = [id \in Token |-> None]
  /\ balances = [a \in Account |-> 0]
  /\ roles = [id \in Token |-> None]
  /\ wasm = FirstWasm

-----------------------------------------------------------------------------
Mint(admin, to) ==
  LET id == next_token_id IN
  /\ admin = Admin
  /\ id \in Token
  /\ next_token_id' = NextId
  /\ owner' = [owner EXCEPT ![id] = to]
  /\ balances' = [balances EXCEPT ![to] = @ + 1]
  /\ roles' = [roles EXCEPT ![id] = InitialRole(id)]
  /\ UNCHANGED wasm

Clawback(admin, id) ==
  /\ admin = Admin
  /\ Exists(id)
  /\ owner' = [owner EXCEPT ![id] = Recipient(id)]
  /\ balances' = Moved(owner[id])
  /\ UNCHANGED <<next_token_id, roles, wasm>>

\* The existence of the token is not looked up.
SetTrait(admin, id, value) ==
  /\ admin = Admin
  /\ value \in Settable
  /\ roles' = [roles EXCEPT ![id] = value]
  /\ UNCHANGED <<next_token_id, owner, balances, wasm>>

Upgrade(admin, hash) ==
  /\ admin = Admin
  /\ wasm' = hash
  /\ UNCHANGED <<next_token_id, owner, balances, roles>>

Next ==
  \E admin \in Account :
    \/ \E to \in Account : Mint(admin, to)
    \/ \E id \in Token : Clawback(admin, id)
    \/ \E id \in Token, value \in Values : SetTrait(admin, id, value)
    \/ \E hash \in Wasm : Upgrade(admin, hash)

Spec == Init /\ [][Next]_vars

-----------------------------------------------------------------------------
\* Every variable has the type of its storage key; balances are unsigned, so
\* that no clawback can panic on a balance below zero.
TypeOK ==
  /\ next_token_id \in Nat
  /\ owner \in [Token -> Account \cup {None}]
  /\ balances \in [Account -> Nat]
  /\ roles \in [Token -> Role \cup {None}]
  /\ wasm \in Wasm

Owned(a) == {id \in Token : owner[id] = a}

\* The balance of an account is the number of tokens it owns, after any
\* sequence of mints and clawbacks, of the admin's own tokens and twice of the
\* same token too.
BalancesMatchOwners == \A a \in Account : balances[a] = Cardinality(Owned(a))

\* The tokens that exist are those below the counter, and each has a role.
IdsDense == \A id \in Token :
  /\ Exists(id) <=> id < next_token_id
  /\ Exists(id) => roles[id] # None

\* A token never changes hands but to the admin, and is never burned.
Soulbound ==
  [][\A id \in Token : Exists(id) => owner'[id] \in {owner[id], Admin}]_vars
=============================================================================
