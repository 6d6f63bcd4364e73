------------------------------ MODULE Upgrade ------------------------------
(***************************************************************************)
(* Administration of the Tansu contract (contracts/tansu/src/              *)
(* contract_tansu.rs): the emergency stop, and the replacement of the      *)
(* contract's code and administrators by a motion that enough of them      *)
(* approve and that lies open for TIMELOCK_DELAY.  One action is one       *)
(* successful contract call; a call that panics changes nothing.           *)
(***************************************************************************)
EXTENDS Integers, FiniteSets, SequencesExt

CONSTANTS
  Account,         \* addresses that call the contract
  Founder,         \* the admin given to the constructor
  Wasm,            \* hashes of contract code
  FirstWasm,       \* the code the contract was deployed with
  Uploaded,        \* hashes whose code is on the ledger
  TIMELOCK_DELAY,
  None             \* an absent option or motion

CONSTANTS          \* the bounds of the model
  Configs,         \* configurations that admins propose
  MaxMotions,      \* motions ever made
  MaxTime          \* last instant of ledger time

AdminsConfig    == [threshold : Nat, admins : Seq(Account)]
UpgradeProposal == [wasm_hash : Wasm, executable_at : Nat, approvals : Seq(Account),
                    admins_config : AdminsConfig]

ASSUME UpgradeAssumption ==
  /\ IsFiniteSet(Account)
  /\ Founder \in Account /\ FirstWasm \in Wasm /\ Uploaded \subseteq Wasm
  /\ Configs \subseteq AdminsConfig
  /\ {TIMELOCK_DELAY, MaxMotions, MaxTime} \subseteq Nat
  /\ None \notin AdminsConfig \cup UpgradeProposal

VARIABLES
  now,      \* ledger timestamp
  paused,   \* DataKey::Paused
  config,   \* DataKey::AdminsConfig
  wasm,     \* the code of the contract
  motion,   \* DataKey::UpgradeProposal, or None
  motions,  \* history: how many motions were made
  opened,   \* history: when the last of them was made
  consent   \* history: account -> the last motion it made or approved

vars == <<now, paused, config, wasm, motion, motions, opened, consent>>

-----------------------------------------------------------------------------
(* Faulty variants of definitions below, each a slip the code could contain; *)
(* nothing here is part of the model.                                        *)

AnyAdminYet(admin) == TRUE
IncomingQuorum(m) == Len(m.approvals) >= m.admins_config.threshold

-----------------------------------------------------------------------------
IsAdmin(a) == a \in ToSet(config.admins)

\* Validate that threshold is reasonable: it counts entries of the list.
Reasonable(c) == c.threshold >= 1 /\ c.threshold <= Len(c.admins)

NoMotion == motion = None

NotApprovedBy(admin) == admin \notin ToSet(motion.approvals)

ExecutableAt == now + TIMELOCK_DELAY

\* Current governance rules apply, not those the motion would bring.
Approved(m) == Len(m.approvals) >= config.threshold
Unlocked(m) == now >= m.executable_at

Init ==
  /\ now = 0
  /\ paused = TRUE
  /\ config = [threshold |-> 1, admins |-> <<Founder>>]
  /\ wasm = FirstWasm
  /\ motion = None
  /\ motions = 0
  /\ opened = 0
  /\ consent = [a \in Account |-> 0]

Tick ==
  /\ now < MaxTime
  /\ now' = now + 1
  /\ UNCHANGED <<paused, config, wasm, motion, motions, opened, consent>>

\* Pausing neither stops nor is stopped by an upgrade.
Pause(admin, value) ==
  /\ IsAdmin(admin)
  /\ paused' = value
  /\ UNCHANGED <<now, config, wasm, motion, motions, opened, consent>>

\* The proposer approves; new = None keeps the configuration of this moment.
ProposeUpgrade(admin, hash, new) ==
  LET proposed == IF new = None THEN config ELSE new IN
  /\ motions < MaxMotions
  /\ IsAdmin(admin)
  /\ NoMotion
  /\ Reasonable(proposed)
  /\ motion' = [wasm_hash |-> hash, executable_at |-> ExecutableAt,
                approvals |-> <<admin>>, admins_config |-> proposed]
  /\ motions' = motions + 1
  /\ opened' = now
  /\ consent' = [consent EXCEPT ![admin] = motions + 1]
  /\ UNCHANGED <<now, paused, config, wasm>>

\* The call names no motion: it approves the one that is pending.
ApproveUpgrade(admin) ==
  /\ IsAdmin(admin)
  /\ motion # None
  /\ NotApprovedBy(admin)
  /\ motion' = [motion EXCEPT !.approvals = Append(@, admin)]
  /\ consent' = [consent EXCEPT ![admin] = motions]
  /\ UNCHANGED <<now, paused, config, wasm, motions, opened>>

\* One admin can cancel at any time; code that is not on the ledger cannot be
\* installed, and the call is rolled back.
FinalizeUpgrade(admin, accept) ==
  /\ IsAdmin(admin)
  /\ motion # None
  /\ IF accept
     THEN /\ Approved(motion) /\ Unlocked(motion)
          /\ motion.wasm_hash \in Uploaded
          /\ config' = motion.admins_config
          /\ wasm' = motion.wasm_hash
     ELSE UNCHANGED <<config, wasm>>
  /\ motion' = None
  /\ UNCHANGED <<now, paused, motions, opened, consent>>

Next ==
  \/ Tick
  \/ \E admin \in Account :
       \/ \E value \in BOOLEAN : Pause(admin, value)
       \/ \E hash \in Wasm, new \in Configs \cup {None} : ProposeUpgrade(admin, hash, new)
       \/ ApproveUpgrade(admin)
       \/ \E accept \in BOOLEAN : FinalizeUpgrade(admin, accept)

Spec == Init /\ [][Next]_vars

-----------------------------------------------------------------------------
(* Correctness. *)

\* Every stored value has the type of its storage key, and the bounds are kept.
TypeOK ==
  /\ now \in Nat /\ paused \in BOOLEAN
  /\ config \in AdminsConfig
  /\ wasm \in Wasm
  /\ motion \in UpgradeProposal \cup {None}
  /\ motions \in 0 .. MaxMotions /\ opened \in 0 .. now
  /\ consent \in [Account -> 0 .. motions]

\* The administrators who stand behind the last motion.
Supporters == {a \in ToSet(config.admins) : consent[a] = motions}

\* A quorum of the present administrators exists.  A list may name an
\* administrator twice, who still approves once.
Reachable == config.threshold <= Cardinality(ToSet(config.admins))

\* The approvals of a pending motion are those of present administrators, one
\* each, given to this very motion: neither a change of administrators nor a
\* cancelled motion leaves an approval behind (propose_upgrade,
\* approve_upgrade, finalize_upgrade).
ApprovalsGenuine ==
  motion # None =>
    /\ IsInjective(motion.approvals)
    /\ ToSet(motion.approvals) = Supporters
    /\ motion.executable_at = opened + TIMELOCK_DELAY

\* Code and administrators change only by a motion that as many different
\* administrators in office stand behind as their threshold asks for, and
\* that lay open for the whole timelock.
QuorumUpgrades ==
  [][config' # config \/ wasm' # wasm =>
       /\ Cardinality(Supporters) >= config.threshold
       /\ now >= opened + TIMELOCK_DELAY
       /\ config' = motion.admins_config /\ wasm' = motion.wasm_hash]_vars

\* The contract always has an administrator, and never a threshold that is
\* zero or longer than the list: this is what propose_upgrade validates.
Governable ==
  /\ config.threshold \in 1 .. Len(config.admins)
  /\ motion # None => motion.admins_config.threshold \in 1 .. Len(motion.admins_config.admins)

\* A motion is never exchanged under the approvals it has: while one is
\* pending its content stays, and its approvals grow at the end.
MotionIntact ==
  [][motion # None /\ motion' # None =>
       /\ motions' = motions
       /\ motion'.wasm_hash = motion.wasm_hash
       /\ motion'.admins_config = motion.admins_config
       /\ motion'.executable_at = motion.executable_at
       /\ IsPrefix(motion.approvals, motion'.approvals)]_vars

\* Where the threshold exceeds the number of different administrators the
\* contract is never upgraded again: no order of calls counts anyone twice.
FrozenWhenUnreachable ==
  [][~Reachable => config' = config /\ wasm' = wasm]_vars
=============================================================================
