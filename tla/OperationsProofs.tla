-------------------------- MODULE OperationsProofs --------------------------
(***************************************************************************)
(* Administrators, event server and membership token: what Upgrade         *)
(* satisfies for every finite set of accounts, every delay and every set   *)
(* of configurations that admins may propose; what the server's database   *)
(* holds, for any events, any number of backfills and of faults, every     *)
(* size of a page and every interval of checkpoints; and what balances of  *)
(* the token are, for any accounts and any number of tokens.               *)
(***************************************************************************)
EXTENDS MCOperations, FiniteSetTheorems, TLAPS

\* The inductive invariant: approvals stay genuine because administrators
\* are only replaced when the motion that carried them is gone.
Inv == TypeOK /\ ApprovalsGenuine /\ Governable

\* A call that administrators make, or the passing of time.
LEMMA StepCases ==
  ASSUME Next
  PROVE  \/ Tick
         \/ \E admin \in Account, value \in BOOLEAN : Pause(admin, value)
         \/ \E admin \in Account, hash \in Wasm, new \in Configs \cup {None} :
              ProposeUpgrade(admin, hash, new)
         \/ \E admin \in Account : ApproveUpgrade(admin)
         \/ \E admin \in Account, accept \in BOOLEAN : FinalizeUpgrade(admin, accept)
BY DEF Next

-----------------------------------------------------------------------------
(* Lists without repetitions. *)

\* Such a list has as many entries as elements.
LEMMA InjectiveList ==
  ASSUME NEW S, NEW s \in Seq(S), IsInjective(s)
  PROVE  IsFiniteSet(ToSet(s)) /\ Cardinality(ToSet(s)) = Len(s)
<1>1. Len(s) \in Nat /\ DOMAIN s = 1 .. Len(s)
  OBVIOUS
<1>2. IsFiniteSet(1 .. Len(s)) /\ Cardinality(1 .. Len(s)) = Len(s)
  BY <1>1, FS_Interval
<1>3. s \in [1 .. Len(s) -> ToSet(s)]
  BY <1>1 DEF ToSet
<1>4. s \in Surjection(1 .. Len(s), ToSet(s))
  BY <1>1, <1>3 DEF Surjection, ToSet
<1>5. s \in Injection(1 .. Len(s), ToSet(s))
  BY <1>1, <1>3 DEF Injection, IsInjective
<1>6. QED  BY <1>2, <1>4, <1>5, FS_Surjection

\* A new entry at the end keeps the list free of repetitions and intact.
LEMMA NewEntry ==
  ASSUME NEW S, NEW s \in Seq(S), NEW e \in S, IsInjective(s), e \notin ToSet(s)
  PROVE  /\ IsInjective(Append(s, e))
         /\ ToSet(Append(s, e)) = ToSet(s) \cup {e}
         /\ IsPrefix(s, Append(s, e))
<1> DEFINE t == Append(s, e)
<1>1. /\ t \in Seq(S) /\ Len(s) \in Nat /\ Len(t) = Len(s) + 1
      /\ DOMAIN s = 1 .. Len(s) /\ DOMAIN t = 1 .. Len(s) + 1
      /\ \A i \in 1 .. Len(s) : t[i] = s[i]
      /\ t[Len(s) + 1] = e
  OBVIOUS
<1> HIDE DEF t
<1>2. \A i \in 1 .. Len(s) : s[i] # e
  BY <1>1 DEF ToSet
<1>3. IsInjective(t)
  BY <1>1, <1>2 DEF IsInjective
<1>4. ToSet(t) = ToSet(s) \cup {e}
  BY <1>1 DEF ToSet
<1>5. SubSeq(s, 1, Len(s)) = SubSeq(t, 1, Len(s))
  BY <1>1
<1>6. IsPrefix(s, t)
  BY <1>1, <1>5 DEF IsPrefix
<1>7. QED  BY <1>3, <1>4, <1>6 DEF t

LEMMA SingleEntry ==
  ASSUME NEW e
  PROVE  IsInjective(<<e>>) /\ ToSet(<<e>>) = {e}
BY DEF IsInjective, ToSet

-----------------------------------------------------------------------------
(* Types. *)

LEMMA ProposeTypes ==
  ASSUME TypeOK, NEW admin \in Account, NEW hash \in Wasm, NEW new \in Configs \cup {None},
         ProposeUpgrade(admin, hash, new)
  PROVE  TypeOK'
<1> DEFINE proposed == IF new = None THEN config ELSE new
           made == [wasm_hash |-> hash, executable_at |-> now + TIMELOCK_DELAY,
                    approvals |-> <<admin>>, admins_config |-> proposed]
<1>1. proposed \in AdminsConfig
  BY UpgradeAssumption DEF TypeOK
<1>2. now + TIMELOCK_DELAY \in Nat
  BY UpgradeAssumption DEF TypeOK
<1>3. made \in UpgradeProposal
  BY <1>1, <1>2 DEF UpgradeProposal
<1>4. motion' = made
  BY DEF ProposeUpgrade, ExecutableAt
<1>5. motions' \in 0 .. MaxMotions /\ motions' = motions + 1 /\ motions \in Nat
  BY UpgradeAssumption DEF ProposeUpgrade, TypeOK
<1>6. consent' \in [Account -> 0 .. motions']
  <2>1. consent \in [Account -> 0 .. motions']
    BY <1>5 DEF TypeOK
  <2>2. consent' = [consent EXCEPT ![admin] = motions']
    BY <1>5 DEF ProposeUpgrade
  <2>3. motions' \in 0 .. motions'
    BY <1>5
  <2>4. QED  BY <2>1, <2>2, <2>3
<1>7. opened' \in 0 .. now'
  BY DEF ProposeUpgrade, TypeOK
<1>8. UNCHANGED <<now, paused, config, wasm>>
  BY DEF ProposeUpgrade
<1>9. QED  BY <1>3, <1>4, <1>5, <1>6, <1>7, <1>8 DEF TypeOK

LEMMA ApproveTypes ==
  ASSUME TypeOK, NEW admin \in Account, ApproveUpgrade(admin)
  PROVE  TypeOK'
<1>1. motion \in UpgradeProposal
  BY DEF ApproveUpgrade, TypeOK
<1>2. motion' = [motion EXCEPT !.approvals = Append(motion.approvals, admin)]
  BY DEF ApproveUpgrade
<1>3. Append(motion.approvals, admin) \in Seq(Account)
  BY <1>1 DEF UpgradeProposal
<1>4. motion' \in UpgradeProposal
  BY <1>1, <1>2, <1>3 DEF UpgradeProposal
<1>5. motions \in Nat /\ motions \in 0 .. motions
  BY UpgradeAssumption DEF TypeOK
<1>6. consent' \in [Account -> 0 .. motions]
  BY <1>5 DEF ApproveUpgrade, TypeOK
<1>7. UNCHANGED <<now, paused, config, wasm, motions, opened>>
  BY DEF ApproveUpgrade
<1>8. QED  BY <1>4, <1>6, <1>7 DEF TypeOK

LEMMA FinalizeTypes ==
  ASSUME TypeOK, NEW admin \in Account, NEW accept \in BOOLEAN, FinalizeUpgrade(admin, accept)
  PROVE  TypeOK'
<1>1. motion \in UpgradeProposal
  BY DEF FinalizeUpgrade, TypeOK
<1>2. config' \in AdminsConfig /\ wasm' \in Wasm
  BY <1>1 DEF FinalizeUpgrade, TypeOK, UpgradeProposal
<1>3. UNCHANGED <<now, paused, motions, opened, consent>> /\ motion' = None
  BY DEF FinalizeUpgrade
<1>4. QED  BY <1>2, <1>3 DEF TypeOK

LEMMA TypeStep ==
  ASSUME TypeOK, [Next]_vars
  PROVE  TypeOK'
<1>1. CASE UNCHANGED vars
  BY <1>1 DEF vars, TypeOK
<1>2. CASE Tick
  <2>1. now \in Nat /\ now' = now + 1 /\ opened \in 0 .. now
    BY <1>2 DEF Tick, TypeOK
  <2>2. now' \in Nat /\ opened \in 0 .. now'
    BY <2>1
  <2>3. QED  BY <1>2, <2>2 DEF Tick, TypeOK
<1>3. CASE \E admin \in Account, value \in BOOLEAN : Pause(admin, value)
  BY <1>3 DEF Pause, TypeOK
<1>4. QED  BY <1>1, <1>2, <1>3, StepCases, ProposeTypes, ApproveTypes, FinalizeTypes

-----------------------------------------------------------------------------
(* Approvals, and the administrators behind them. *)

LEMMA ProposeGenuine ==
  ASSUME Inv, NEW admin \in Account, NEW hash \in Wasm, NEW new \in Configs \cup {None},
         ProposeUpgrade(admin, hash, new)
  PROVE  ApprovalsGenuine' /\ Governable'
<1> DEFINE proposed == IF new = None THEN config ELSE new
<1>1. /\ motion' # None => /\ motion'.approvals = <<admin>>
                           /\ motion'.executable_at = now + TIMELOCK_DELAY
                           /\ motion'.admins_config = proposed
      /\ config' = config /\ opened' = now /\ motions' = motions + 1
  BY DEF ProposeUpgrade, ExecutableAt
<1>2. Supporters' = {admin}
  <2>1. /\ motions \in Nat /\ consent \in [Account -> 0 .. motions]
        /\ ToSet(config.admins) \subseteq Account
    BY UpgradeAssumption DEF Inv, TypeOK, AdminsConfig, ToSet
  <2>2. admin \in ToSet(config.admins)
    BY DEF ProposeUpgrade, IsAdmin
  <2>3. consent' = [consent EXCEPT ![admin] = motions + 1]
    BY DEF ProposeUpgrade
  <2>4. \A a \in ToSet(config.admins) : consent'[a] = motions + 1 <=> a = admin
    <3>1. \A a \in Account : consent[a] # motions + 1
      BY <2>1
    <3>2. QED  BY <2>1, <2>3, <3>1
  <2>5. QED  BY <1>1, <2>2, <2>4 DEF Supporters
<1>3. ApprovalsGenuine'
  BY <1>1, <1>2, SingleEntry DEF ApprovalsGenuine
<1>4. Governable'
  <2>1. Reasonable(proposed) /\ proposed \in AdminsConfig
    BY UpgradeAssumption DEF ProposeUpgrade, Inv, TypeOK
  <2>2. proposed.threshold \in 1 .. Len(proposed.admins)
    BY <2>1 DEF Reasonable, AdminsConfig
  <2>3. QED  BY <1>1, <2>2 DEF Inv, Governable
<1>5. QED  BY <1>3, <1>4

LEMMA ApproveGenuine ==
  ASSUME Inv, NEW admin \in Account, ApproveUpgrade(admin)
  PROVE  ApprovalsGenuine' /\ Governable'
<1>1. /\ motion # None /\ motion \in UpgradeProposal
      /\ motion.approvals \in Seq(Account)
  BY DEF ApproveUpgrade, Inv, TypeOK, UpgradeProposal
<1>2. /\ motion' = [motion EXCEPT !.approvals = Append(motion.approvals, admin)]
      /\ UNCHANGED <<config, motions, opened>>
  BY DEF ApproveUpgrade
<1>3. /\ motion'.approvals = Append(motion.approvals, admin)
      /\ motion'.executable_at = motion.executable_at
      /\ motion'.admins_config = motion.admins_config
  BY <1>1, <1>2 DEF UpgradeProposal
<1>4. /\ IsInjective(motion.approvals) /\ ToSet(motion.approvals) = Supporters
      /\ motion.executable_at = opened + TIMELOCK_DELAY
  BY <1>1 DEF Inv, ApprovalsGenuine
<1>5. admin \notin ToSet(motion.approvals) /\ admin \in ToSet(config.admins)
  BY DEF ApproveUpgrade, NotApprovedBy, IsAdmin
<1>6. Supporters' = Supporters \cup {admin}
  <2>1. consent \in [Account -> 0 .. motions] /\ ToSet(config.admins) \subseteq Account
    BY DEF Inv, TypeOK, AdminsConfig, ToSet
  <2>2. consent' = [consent EXCEPT ![admin] = motions]
    BY DEF ApproveUpgrade
  <2>3. QED  BY <1>2, <1>5, <2>1, <2>2 DEF Supporters
<1>7. /\ IsInjective(motion'.approvals)
      /\ ToSet(motion'.approvals) = ToSet(motion.approvals) \cup {admin}
  BY <1>1, <1>3, <1>4, <1>5, NewEntry
<1>8. ApprovalsGenuine'
  BY <1>2, <1>3, <1>4, <1>6, <1>7 DEF ApprovalsGenuine
<1>9. Governable'
  BY <1>1, <1>2, <1>3 DEF Inv, Governable
<1>10. QED  BY <1>8, <1>9

LEMMA FinalizeGenuine ==
  ASSUME Inv, NEW admin \in Account, NEW accept \in BOOLEAN, FinalizeUpgrade(admin, accept)
  PROVE  ApprovalsGenuine' /\ Governable'
<1>1. motion' = None /\ motion # None
  BY DEF FinalizeUpgrade
<1>2. config' = config \/ config' = motion.admins_config
  BY DEF FinalizeUpgrade
<1>3. QED  BY <1>1, <1>2 DEF Inv, ApprovalsGenuine, Governable

LEMMA StepInv ==
  ASSUME Inv, [Next]_vars
  PROVE  Inv'
<1>1. TypeOK'
  BY TypeStep DEF Inv
<1>2. ApprovalsGenuine' /\ Governable'
  <2>1. CASE UNCHANGED <<config, motion, motions, opened, consent>>
    BY <2>1 DEF Inv, ApprovalsGenuine, Governable, Supporters
  <2>2. CASE UNCHANGED vars \/ Tick
             \/ \E admin \in Account, value \in BOOLEAN : Pause(admin, value)
    BY <2>1, <2>2 DEF vars, Tick, Pause
  <2>3. QED  BY <2>2, StepCases, ProposeGenuine, ApproveGenuine, FinalizeGenuine
<1>3. QED  BY <1>1, <1>2 DEF Inv

LEMMA InitInv ==
  ASSUME Init
  PROVE  Inv
<1>1. config \in AdminsConfig /\ config.threshold \in 1 .. Len(config.admins)
  <2>1. Founder \in Account /\ <<Founder>> \in Seq(Account) /\ Len(<<Founder>>) = 1
    BY UpgradeAssumption
  <2>2. QED  BY <2>1 DEF Init, AdminsConfig
<1>2. TypeOK
  BY <1>1, UpgradeAssumption DEF Init, TypeOK
<1>3. QED  BY <1>1, <1>2 DEF Init, Inv, ApprovalsGenuine, Governable

\* The invariant of every behaviour.
THEOREM Invariance == Spec => []Inv
<1>1. Init => Inv
  BY InitInv
<1>2. Inv /\ [Next]_vars => Inv'
  BY StepInv
<1>3. QED  BY <1>1, <1>2, PTL DEF Spec

\* Every stored value has the type of its storage key.
THEOREM TypeCorrect == Spec => []TypeOK
<1>1. Inv => TypeOK
  BY DEF Inv
<1>2. QED  BY <1>1, Invariance, PTL

\* The approvals of a pending motion are those of administrators in office,
\* one each, given to this motion, whatever was cancelled or replaced before.
THEOREM ApprovalsAreGenuine == Spec => []ApprovalsGenuine
<1>1. Inv => ApprovalsGenuine
  BY DEF Inv
<1>2. QED  BY <1>1, Invariance, PTL

\* There is always an administrator and a threshold within the list.
THEOREM AlwaysGovernable == Spec => []Governable
<1>1. Inv => Governable
  BY DEF Inv
<1>2. QED  BY <1>1, Invariance, PTL

-----------------------------------------------------------------------------
(* What a step may do to the code, the administrators and the motion. *)

\* Only a finalized motion replaces code or administrators.
LEMMA Replaces ==
  ASSUME [Next]_vars, config' # config \/ wasm' # wasm
  PROVE  /\ motion # None
         /\ Approved(motion) /\ Unlocked(motion)
         /\ config' = motion.admins_config /\ wasm' = motion.wasm_hash
<1>1. PICK admin \in Account, accept \in BOOLEAN : FinalizeUpgrade(admin, accept)
  <2>1. ~ UNCHANGED vars /\ ~ Tick
    BY DEF vars, Tick
  <2>2. \A admin \in Account :
          /\ \A value \in BOOLEAN : ~ Pause(admin, value)
          /\ \A hash \in Wasm, new \in Configs \cup {None} : ~ ProposeUpgrade(admin, hash, new)
          /\ ~ ApproveUpgrade(admin)
    BY DEF Pause, ProposeUpgrade, ApproveUpgrade
  <2>3. QED  BY <2>1, <2>2, StepCases
<1>2. QED  BY <1>1 DEF FinalizeUpgrade

\* Whoever stands behind a motion is one of finitely many administrators.
LEMMA SupportersBound ==
  ASSUME TypeOK
  PROVE  /\ IsFiniteSet(Supporters) /\ IsFiniteSet(ToSet(config.admins))
         /\ Cardinality(Supporters) \in Nat /\ Cardinality(ToSet(config.admins)) \in Nat
         /\ Cardinality(Supporters) <= Cardinality(ToSet(config.admins))
<1>1. ToSet(config.admins) \subseteq Account
  BY DEF TypeOK, AdminsConfig, ToSet
<1>2. IsFiniteSet(ToSet(config.admins))
  BY <1>1, FS_Subset, UpgradeAssumption
<1>3. Supporters \subseteq ToSet(config.admins)
  BY DEF Supporters
<1>4. QED  BY <1>2, <1>3, FS_Subset, FS_CardinalityType

LEMMA QuorumStep ==
  ASSUME Inv, [Next]_vars, config' # config \/ wasm' # wasm
  PROVE  /\ Cardinality(Supporters) >= config.threshold
         /\ now >= opened + TIMELOCK_DELAY
         /\ config' = motion.admins_config /\ wasm' = motion.wasm_hash
<1>1. /\ motion # None /\ motion \in UpgradeProposal
      /\ Approved(motion) /\ Unlocked(motion)
      /\ config' = motion.admins_config /\ wasm' = motion.wasm_hash
  BY Replaces DEF Inv, TypeOK
<1>2. Cardinality(Supporters) = Len(motion.approvals)
  <2>1. /\ IsInjective(motion.approvals) /\ ToSet(motion.approvals) = Supporters
        /\ motion.approvals \in Seq(Account)
    BY <1>1 DEF Inv, ApprovalsGenuine, UpgradeProposal
  <2>2. QED  BY <2>1, InjectiveList
<1>3. motion.executable_at = opened + TIMELOCK_DELAY
  BY <1>1 DEF Inv, ApprovalsGenuine
<1>4. QED  BY <1>1, <1>2, <1>3 DEF Approved, Unlocked

\* Code and administrators change only by a motion that lay open for the
\* timelock and that enough different administrators in office approved.
THEOREM QuorumRequired == Spec => QuorumUpgrades
<1>1. Inv /\ [Next]_vars =>
        [config' # config \/ wasm' # wasm =>
           /\ Cardinality(Supporters) >= config.threshold
           /\ now >= opened + TIMELOCK_DELAY
           /\ config' = motion.admins_config /\ wasm' = motion.wasm_hash]_vars
  BY QuorumStep
<1>2. QED  BY <1>1, Invariance, PTL DEF Spec, QuorumUpgrades

\* A motion keeps its content, and its approvals only grow at the end.
THEOREM MotionKept == Spec => MotionIntact
<1>1. ASSUME Inv, [Next]_vars, motion # None, motion' # None
      PROVE  /\ motions' = motions
             /\ motion'.wasm_hash = motion.wasm_hash
             /\ motion'.admins_config = motion.admins_config
             /\ motion'.executable_at = motion.executable_at
             /\ IsPrefix(motion.approvals, motion'.approvals)
  <2>1. /\ motion \in UpgradeProposal /\ motion.approvals \in Seq(Account)
        /\ IsInjective(motion.approvals)
    BY <1>1 DEF Inv, TypeOK, ApprovalsGenuine, UpgradeProposal
  <2>2. CASE UNCHANGED <<motion, motions>>
    <3>1. IsPrefix(motion.approvals, motion.approvals)
      BY <2>1 DEF IsPrefix
    <3>2. QED  BY <2>2, <3>1
  <2>3. CASE \E admin \in Account : ApproveUpgrade(admin)
    <3>1. PICK admin \in Account : ApproveUpgrade(admin)
      BY <2>3
    <3>2. /\ motion' = [motion EXCEPT !.approvals = Append(motion.approvals, admin)]
          /\ admin \notin ToSet(motion.approvals) /\ motions' = motions
      BY <3>1 DEF ApproveUpgrade, NotApprovedBy
    <3>3. /\ motion'.approvals = Append(motion.approvals, admin)
          /\ motion'.wasm_hash = motion.wasm_hash
          /\ motion'.admins_config = motion.admins_config
          /\ motion'.executable_at = motion.executable_at
      BY <2>1, <3>2 DEF UpgradeProposal
    <3>4. QED  BY <2>1, <3>2, <3>3, NewEntry
  <2>4. CASE UNCHANGED vars \/ Tick
             \/ \E admin \in Account, value \in BOOLEAN : Pause(admin, value)
    BY <2>2, <2>4 DEF vars, Tick, Pause
  <2>5. \A admin \in Account, hash \in Wasm, new \in Configs \cup {None} :
          ~ ProposeUpgrade(admin, hash, new)
    BY <1>1 DEF ProposeUpgrade, NoMotion
  <2>6. \A admin \in Account, accept \in BOOLEAN : ~ FinalizeUpgrade(admin, accept)
    BY <1>1 DEF FinalizeUpgrade
  <2>7. QED  BY <1>1, <2>3, <2>4, <2>5, <2>6, StepCases
<1>2. QED  BY <1>1, Invariance, PTL DEF Spec, MotionIntact

\* A threshold beyond the number of different administrators freezes the
\* contract: no order of calls counts an administrator twice.
THEOREM UnreachableIsFrozen == Spec => FrozenWhenUnreachable
<1>1. ASSUME Inv, [Next]_vars, ~Reachable
      PROVE  config' = config /\ wasm' = wasm
  <2>1. config.threshold \in Nat
    BY <1>1 DEF Inv, TypeOK, AdminsConfig
  <2>2. ~(config.threshold <= Cardinality(Supporters))
    BY <1>1, <2>1, SupportersBound DEF Inv, Reachable
  <2>3. QED  BY <1>1, <2>1, <2>2, QuorumStep, SupportersBound DEF Inv
<1>2. QED  BY <1>1, Invariance, PTL DEF Spec, FrozenWhenUnreachable

-----------------------------------------------------------------------------
(***************************************************************************)
(* The event server (Indexer).                                             *)
(***************************************************************************)

(* Events ch up to ledger n are in their places, and rows tb hold the i-th.       *)
Event == [ledger : Nat, content : Content]
ChainOK(ch, n) ==
  /\ n \in Nat /\ ch \in Seq(Event)
  /\ Len(ch) \in Nat /\ DOMAIN ch = 1 .. Len(ch)
  /\ \A i \in DOMAIN ch : ch[i].ledger \in Nat /\ ch[i].ledger <= n
Holds(tb, ch, i) == ch[i].content \in tb

(* Nothing before the cursor of a checkpoint is missing, or nothing at all.       *)
Covers(c, ch, tb, n) ==
  /\ c.tip \in Nat /\ c.tip <= n
  /\ IF c.completed
     THEN /\ c.last \in Nat /\ c.last <= n
          /\ \A i \in DOMAIN ch : ch[i].ledger <= c.last => Holds(tb, ch, i)
     ELSE c.cursor \in DOMAIN ch /\ \A i \in 1 .. c.cursor : Holds(tb, ch, i)

(* A run has stored, or in its hands, what comes before the page that it asks for *)
(* next, and after the last page everything up to its tip.                        *)
IsRun(r) == r = [at |-> r.at, loaded |-> r.loaded, tip |-> r.tip, start |-> r.start,
                 pending |-> r.pending, seen |-> r.seen, done |-> r.done, attempt |-> r.attempt]
Follows(r, ch, tb, n) ==
  /\ r.at = "loaded" /\ r.loaded # None =>
       ~r.loaded.completed /\ Covers(r.loaded, ch, tb, n)
  /\ r.at \in {"fetch", "commit"} => r.tip \in Nat /\ r.tip <= n
  /\ r.at = "fetch" => r.start # None
  /\ r.at \in {"fetch", "commit"} /\ r.start = None =>
       \A i \in DOMAIN ch : ch[i].ledger <= r.tip => Holds(tb \union r.pending, ch, i)
  /\ r.at \in {"fetch", "commit"} /\ r.start # None =>
       /\ r.start \in DOMAIN ch \/ (r.at = "fetch" /\ r.start = 0)
       /\ \A i \in 1 .. r.start : Holds(tb \union r.pending, ch, i)

(* The inductive invariant: a checkpoint covers what it says because it is        *)
(* written by a run that had all of that in hand, together with the rows.         *)
IndexInv ==
  /\ ChainOK(chain, latest)
  /\ checkpoint # None => Covers(checkpoint, chain, table, latest)
  /\ runs = [p \in Run |-> runs[p]]
  /\ \A p \in Run : IsRun(runs[p]) /\ Follows(runs[p], chain, table, latest)

-------------------------------------------------------------------------------
(* What the ledger, and the other processes, do to what was known before.        *)
Extends(ch, n, ch2, n2) ==
  /\ n <= n2 /\ DOMAIN ch \subseteq DOMAIN ch2
  /\ \A i \in DOMAIN ch : ch2[i] = ch[i]
  /\ \A i \in DOMAIN ch2 \ DOMAIN ch : ch2[i].ledger > n

(* More events and more rows leave what was covered covered. *)
LEMMA CoversMore ==
  ASSUME NEW ch, NEW n, NEW ch2, NEW n2, NEW tb, NEW tb2, NEW c,
         ChainOK(ch, n), ChainOK(ch2, n2), Extends(ch, n, ch2, n2), tb \subseteq tb2,
         Covers(c, ch, tb, n)
  PROVE  Covers(c, ch2, tb2, n2)
<1>1. c.tip \in Nat /\ c.tip <= n2
  BY DEF Covers, ChainOK, Extends
<1>2. CASE c.completed
  <2>1. ASSUME NEW i \in DOMAIN ch2, ch2[i].ledger <= c.last
        PROVE  Holds(tb2, ch2, i)
    <3>1. i \in DOMAIN ch
      <4>1. ch2[i].ledger \in Nat /\ c.last \in Nat /\ c.last <= n /\ n \in Nat
        BY <1>2, <2>1 DEF Covers, ChainOK
      <4>2. QED  BY <2>1, <4>1 DEF Extends
    <3>2. QED  BY <1>2, <2>1, <3>1 DEF Covers, Extends, Holds
  <2>2. c.last \in Nat /\ c.last <= n2
    BY <1>2 DEF Covers, ChainOK, Extends
  <2>3. QED  BY <1>1, <1>2, <2>1, <2>2 DEF Covers
<1>3. CASE ~c.completed
  <2>1. c.cursor \in DOMAIN ch2 /\ 1 .. c.cursor \subseteq DOMAIN ch
    BY <1>3 DEF Covers, ChainOK, Extends
  <2>2. QED  BY <1>1, <1>3, <2>1 DEF Covers, Extends, Holds
<1>4. QED  BY <1>2, <1>3

LEMMA FollowsMore ==
  ASSUME NEW ch, NEW n, NEW ch2, NEW n2, NEW tb, NEW tb2, NEW r,
         ChainOK(ch, n), ChainOK(ch2, n2), Extends(ch, n, ch2, n2), tb \subseteq tb2,
         Follows(r, ch, tb, n)
  PROVE  Follows(r, ch2, tb2, n2)
<1>1. r.at = "loaded" /\ r.loaded # None => ~r.loaded.completed /\ Covers(r.loaded, ch2, tb2, n2)
  BY CoversMore DEF Follows
<1>2. r.at \in {"fetch", "commit"} => r.tip \in Nat /\ r.tip <= n2
  BY DEF Follows, ChainOK, Extends
<1>3. ASSUME r.at \in {"fetch", "commit"}, r.start = None, NEW i \in DOMAIN ch2,
             ch2[i].ledger <= r.tip
      PROVE  Holds(tb2 \union r.pending, ch2, i)
  <2>1. i \in DOMAIN ch
    <3>1. ch2[i].ledger \in Nat /\ r.tip \in Nat /\ r.tip <= n /\ n \in Nat
      BY <1>3 DEF Follows, ChainOK
    <3>2. QED  BY <1>3, <3>1 DEF Extends
  <2>2. QED  BY <1>3, <2>1 DEF Follows, Extends, Holds
<1>4. ASSUME r.at \in {"fetch", "commit"}, r.start # None
      PROVE  /\ r.start \in DOMAIN ch2 \/ (r.at = "fetch" /\ r.start = 0)
             /\ \A i \in 1 .. r.start : Holds(tb2 \union r.pending, ch2, i)
  <2>1. 1 .. r.start \subseteq DOMAIN ch
    BY <1>4 DEF Follows, ChainOK
  <2>2. QED  BY <1>4, <2>1 DEF Follows, Extends, Holds
<1>5. r.at = "fetch" => r.start # None
  BY DEF Follows
<1>6. QED  BY <1>1, <1>2, <1>3, <1>4, <1>5 DEF Follows

(* A step after which the ledger is the same or longer, and nothing is gone from  *)
(* the table, has to be looked at for the process that takes it alone.            *)
LEMMA OneStep ==
  ASSUME IndexInv, NEW p \in Run, NEW r, IsRun(r), runs' = [runs EXCEPT ![p] = r],
         chain' = chain, latest' = latest, table \subseteq table',
         Follows(r, chain, table', latest),
         checkpoint' # None => Covers(checkpoint', chain, table', latest)
  PROVE  IndexInv'
<1>1. Extends(chain, latest, chain, latest)
  BY DEF IndexInv, ChainOK, Extends
<1>2. \A q \in Run : runs'[q] = IF q = p THEN r ELSE runs[q]
  BY DEF IndexInv
<1>3. \A q \in Run : IsRun(runs'[q]) /\ Follows(runs'[q], chain, table', latest)
  BY <1>1, <1>2, FollowsMore DEF IndexInv
<1>4. runs' = [q \in Run |-> runs'[q]]
  BY DEF IndexInv
<1>5. QED  BY <1>3, <1>4 DEF IndexInv

LEMMA OtherStep ==
  ASSUME IndexInv, runs' = runs, checkpoint' = checkpoint, table \subseteq table',
         ChainOK(chain', latest'), Extends(chain, latest, chain', latest')
  PROVE  IndexInv'
<1>1. checkpoint # None => Covers(checkpoint, chain', table', latest')
  BY CoversMore DEF IndexInv
<1>2. \A q \in Run : Follows(runs[q], chain', table', latest')
  BY FollowsMore DEF IndexInv
<1>3. QED  BY <1>1, <1>2 DEF IndexInv

-------------------------------------------------------------------------------
(* Each step. *)

LEMMA IdleFollows == IsRun(I!Idle) /\ \A ch, tb, n : Follows(I!Idle, ch, tb, n)
BY DEF IsRun, I!Idle, Follows

LEMMA StepEnds ==
  ASSUME IndexInv, NEW p \in Run, I!Ends(p), UNCHANGED <<I!ledgers, I!database>>
  PROVE  IndexInv'
BY OneStep, IdleFollows DEF I!Ends, I!Becomes, I!ledgers, I!database, IndexInv

LEMMA StepStart ==
  ASSUME IndexInv, NEW p \in Run, I!Start(p)
  PROVE  IndexInv'
<1> DEFINE r == [I!Idle EXCEPT !.at = "loaded", !.loaded = checkpoint]
<1>1. IsRun(r) /\ Follows(r, chain, table, latest)
  <2> HIDE DEF r
  <2>1. IsRun(r) /\ r.at = "loaded" /\ r.loaded = checkpoint
    <3>1. IsRun(I!Idle) /\ r = [I!Idle EXCEPT !.at = "loaded", !.loaded = checkpoint]
      BY IdleFollows DEF r
    <3>2. r = [at |-> "loaded", loaded |-> checkpoint, tip |-> I!Idle.tip, start |-> I!Idle.start,
               pending |-> I!Idle.pending, seen |-> I!Idle.seen, done |-> I!Idle.done,
               attempt |-> I!Idle.attempt]
      BY <3>1 DEF IsRun
    <3>3. QED  BY <3>2 DEF IsRun
  <2>2. checkpoint # None => ~checkpoint.completed /\ Covers(checkpoint, chain, table, latest)
    BY DEF I!Start, I!IsCompleted, IndexInv
  <2>3. QED  BY <2>1, <2>2 DEF Follows
<1>2. runs' = [runs EXCEPT ![p] = r]
  BY DEF I!Start, I!Becomes
<1>3. QED  BY <1>1, <1>2, OneStep DEF I!Start, I!ledgers, I!database, IndexInv

LEMMA StepLocked ==
  ASSUME IndexInv, NEW p \in Run, I!Locked(p), None \notin Nat
  PROVE  IndexInv'
<1> DEFINE c == runs[p].loaded
           r == IF c = None
                THEN [runs[p] EXCEPT !.at = "fetch", !.tip = latest, !.start = 0]
                ELSE [runs[p] EXCEPT !.at = "fetch", !.tip = c.tip, !.start = c.cursor,
                                     !.seen = c.last, !.done = c.last]
<1>1. runs' = [runs EXCEPT ![p] = r] /\ runs[p].at = "loaded"
  BY DEF I!Locked, I!Becomes
<1>2. IsRun(runs[p]) /\ Follows(runs[p], chain, table, latest) /\ ChainOK(chain, latest)
  BY DEF IndexInv
<1>3. CASE c = None
  <2>1. r = [runs[p] EXCEPT !.at = "fetch", !.tip = latest, !.start = 0]
    BY <1>3
  <2>2. IsRun(r) /\ r.at = "fetch" /\ r.tip = latest /\ r.start = 0
    BY <1>2, <2>1 DEF IsRun
  <2>3. Follows(r, chain, table, latest)
    BY <1>2, <2>2 DEF Follows, ChainOK
  <2>4. QED  BY <1>1, <2>2, <2>3, OneStep DEF I!Locked, I!ledgers, I!database, IndexInv
<1>4. CASE c # None
  <2>1. r = [runs[p] EXCEPT !.at = "fetch", !.tip = c.tip, !.start = c.cursor,
                            !.seen = c.last, !.done = c.last]
    BY <1>4
  <2>2. IsRun(r) /\ r.at = "fetch" /\ r.tip = c.tip /\ r.start = c.cursor
    BY <1>2, <2>1 DEF IsRun
  <2>3. ~c.completed /\ Covers(c, chain, table, latest)
    BY <1>1, <1>2, <1>4 DEF Follows
  <2>4. c.cursor # None
    BY <1>2, <2>3 DEF Covers, ChainOK
  <2>5. Follows(r, chain, table, latest)
    BY <2>2, <2>3, <2>4 DEF Follows, Covers, Holds
  <2>6. QED  BY <1>1, <2>2, <2>5, OneStep DEF I!Locked, I!ledgers, I!database, IndexInv
<1>5. QED  BY <1>3, <1>4
LEMMA StepPage ==
  ASSUME IndexInv, NEW p \in Run, I!PageArrives(p), None \notin Nat, page_limit \in Nat
  PROVE  IndexInv'
<1> DEFINE s == runs[p]
<1>1. PICK n \in 0 .. page_limit :
        LET positions == s.start + 1 .. s.start + n
            seen      == I!Max({s.seen} \union {chain[i].ledger : i \in positions})
            cursor    == IF I!Asked(s) \subseteq positions THEN None ELSE s.start + n
        IN  /\ positions \subseteq I!Asked(s) /\ (n = 0 => I!Asked(s) = {})
            /\ I!Becomes(p, [s EXCEPT !.start = cursor, !.seen = seen, !.attempt = 0,
                                    !.pending = I!Pending(s, positions),
                                    !.at = IF cursor = None \/ seen - s.done >= checkpoint_interval
                                           THEN "commit" ELSE "fetch"])
  BY DEF I!PageArrives
<1> DEFINE positions == s.start + 1 .. s.start + n
           seen      == I!Max({s.seen} \union {chain[i].ledger : i \in positions})
           cursor    == IF I!Asked(s) \subseteq positions THEN None ELSE s.start + n
           at        == IF cursor = None \/ seen - s.done >= checkpoint_interval
                        THEN "commit" ELSE "fetch"
           r         == [s EXCEPT !.start = cursor, !.seen = seen, !.attempt = 0,
                                  !.pending = I!Pending(s, positions), !.at = at]
<1>2. runs' = [runs EXCEPT ![p] = r] /\ s.at = "fetch"
      /\ positions \subseteq I!Asked(s) /\ (n = 0 => I!Asked(s) = {})
  BY <1>1 DEF I!PageArrives, I!Becomes
<1>3. IsRun(s) /\ Follows(s, chain, table, latest) /\ ChainOK(chain, latest)
  BY DEF IndexInv
<1>4. /\ s.start \in Nat /\ s.tip \in Nat /\ s.tip <= latest
      /\ s.start \in DOMAIN chain \/ s.start = 0
      /\ \A i \in 1 .. s.start : Holds(table \union s.pending, chain, i)
  <2>1. s.start \in DOMAIN chain \/ s.start = 0
    BY <1>2, <1>3 DEF Follows
  <2>2. s.tip \in Nat /\ s.tip <= latest /\ \A i \in 1 .. s.start : Holds(table \union s.pending, chain, i)
    BY <1>2, <1>3 DEF Follows
  <2>3. DOMAIN chain \subseteq Nat
    BY <1>3 DEF ChainOK
  <2>4. s.start \in Nat
    BY <2>1, <2>3
  <2> HIDE DEF s
  <2>5. QED  BY <2>1, <2>2, <2>4
<1> HIDE DEF seen, at, cursor
<1>5. /\ IsRun(r) /\ r.at = at /\ r.start = cursor /\ r.tip = s.tip
      /\ r.pending = s.pending \union I!Contents(positions)
  <2> DEFINE pending == s.pending \union I!Contents(positions)
  <2>1. r = [s EXCEPT !.start = cursor, !.seen = seen, !.attempt = 0,
                      !.pending = pending, !.at = at]
    BY DEF I!Pending
  <2> HIDE DEF pending, s, r
  <2>2. r = [at |-> at, loaded |-> s.loaded, tip |-> s.tip, start |-> cursor,
             pending |-> pending, seen |-> seen, done |-> s.done, attempt |-> 0]
    BY <1>3, <2>1 DEF IsRun
  <2>3. IsRun(r) /\ r.at = at /\ r.start = cursor /\ r.tip = s.tip /\ r.pending = pending
    BY <2>2 DEF IsRun
  <2>4. QED  BY <2>3 DEF pending
<1>6. at \in {"fetch", "commit"} /\ (cursor = None => at = "commit")
  BY DEF at
<1> USE DEF cursor
<1>7. \A i \in 1 .. s.start + n : i \in DOMAIN chain => Holds(table \union r.pending, chain, i)
  <2>1. ASSUME NEW i \in 1 .. s.start + n
        PROVE  i \in 1 .. s.start \/ i \in positions
    BY <1>4
  <2>2. \A i \in positions : Holds(table \union r.pending, chain, i)
    BY <1>5 DEF I!Contents, Holds
  <2>3. \A i \in 1 .. s.start : Holds(table \union r.pending, chain, i)
    BY <1>4, <1>5 DEF Holds
  <2>4. QED  BY <2>1, <2>2, <2>3
<1>8. CASE I!Asked(s) \subseteq positions
  <2>1. ASSUME NEW i \in DOMAIN chain, chain[i].ledger <= s.tip
        PROVE  i \in 1 .. s.start + n
    <3>1. i > s.start => i \in positions
      BY <1>3, <1>8, <2>1 DEF I!Asked, ChainOK
    <3>2. i \in Nat \ {0}
      BY <1>3, <2>1 DEF ChainOK
    <3>3. QED  BY <1>4, <3>1, <3>2
  <2>2. r.start = None
    BY <1>5, <1>8
  <2>3. Follows(r, chain, table, latest)
    BY <1>4, <1>5, <1>6, <1>7, <2>1, <2>2 DEF Follows
  <2>4. QED  BY <1>2, <1>5, <2>3, OneStep DEF I!PageArrives, I!ledgers, I!database, IndexInv
<1>9. CASE ~(I!Asked(s) \subseteq positions)
  <2>1. n \in Nat \ {0} /\ r.start = s.start + n
    BY <1>2, <1>5, <1>9
  <2>2. r.start \in DOMAIN chain
    BY <1>2, <1>4, <2>1 DEF I!Asked
  <2>3. r.start # None
    BY <1>4, <2>1
  <2>4. \A i \in 1 .. r.start : Holds(table \union r.pending, chain, i)
    <3>1. r.start = s.start + n /\ s.start + n \in 1 .. Len(chain) /\ Len(chain) \in Nat
      BY <1>3, <2>1, <2>2 DEF ChainOK
    <3>2. \A i \in 1 .. s.start + n : i \in DOMAIN chain
      BY <1>3, <1>4, <2>1, <3>1 DEF ChainOK
    <3>3. QED  BY <1>7, <3>1, <3>2
  <2>5. Follows(r, chain, table, latest)
    BY <1>4, <1>5, <1>6, <2>2, <2>3, <2>4 DEF Follows
  <2>6. QED  BY <1>2, <1>5, <2>5, OneStep DEF I!PageArrives, I!ledgers, I!database, IndexInv
<1>10. QED  BY <1>8, <1>9

LEMMA StepPageFails ==
  ASSUME IndexInv, NEW p \in Run, I!PageFails(p)
  PROVE  IndexInv'
<1> DEFINE r == [runs[p] EXCEPT !.attempt = @ + 1]
<1>1. CASE I!Ends(p)
  BY <1>1, StepEnds DEF I!PageFails
<1>2. CASE I!Becomes(p, r)
  <2>1. IsRun(r) /\ Follows(r, chain, table, latest)
    <3>1. IsRun(runs[p]) /\ Follows(runs[p], chain, table, latest)
      BY DEF IndexInv
    <3>2. r = [at |-> runs[p].at, loaded |-> runs[p].loaded, tip |-> runs[p].tip,
               start |-> runs[p].start, pending |-> runs[p].pending, seen |-> runs[p].seen,
               done |-> runs[p].done, attempt |-> runs[p].attempt + 1]
      BY <3>1 DEF IsRun
    <3>3. /\ IsRun(r) /\ r.at = runs[p].at /\ r.loaded = runs[p].loaded /\ r.tip = runs[p].tip
          /\ r.start = runs[p].start /\ r.pending = runs[p].pending
      BY <3>2 DEF IsRun
    <3>4. QED  BY <3>1, <3>3 DEF Follows
  <2>2. QED  BY <1>2, <2>1, OneStep DEF I!Becomes, I!PageFails, I!ledgers, I!database, IndexInv
<1>3. QED  BY <1>1, <1>2 DEF I!PageFails

(* Rows and checkpoint are one transaction, which is all that keeps them together *)
(* when another run, without the lock, writes its own in between.                 *)
LEMMA StepCommit ==
  ASSUME IndexInv, NEW p \in Run, I!CommitProgress(p), None \notin Nat
  PROVE  IndexInv'
<1> DEFINE s    == runs[p]
           last == IF I!Completed(s) THEN s.tip ELSE s.seen
           at   == IF I!Completed(s) THEN "end" ELSE "fetch"
           r    == [s EXCEPT !.pending = {}, !.done = last, !.at = at]
           tip  == IF checkpoint = None THEN s.tip ELSE checkpoint.tip
<1>1. /\ s.at = "commit" /\ runs' = [runs EXCEPT ![p] = r]
      /\ table' = table \union s.pending
      /\ checkpoint' = [tip |-> tip, last |-> last, cursor |-> s.start, completed |-> I!Completed(s)]
      /\ chain' = chain /\ latest' = latest
  BY DEF I!CommitProgress, I!Becomes, I!ledgers
<1>2. IsRun(s) /\ Follows(s, chain, table, latest) /\ ChainOK(chain, latest)
  BY DEF IndexInv
<1>3. tip \in Nat /\ tip <= latest
  BY <1>1, <1>2 DEF IndexInv, Covers, Follows
<1>4. Covers(checkpoint', chain, table', latest)
  <2>1. /\ checkpoint'.tip = tip /\ checkpoint'.last = last
        /\ checkpoint'.cursor = s.start /\ checkpoint'.completed = I!Completed(s)
    BY <1>1
  <2>2. CASE I!Completed(s)
    BY <1>1, <1>2, <1>3, <2>1, <2>2 DEF Covers, Follows, I!Completed
  <2>3. CASE ~I!Completed(s)
    BY <1>1, <1>2, <1>3, <2>1, <2>3 DEF Covers, Follows, I!Completed
  <2>4. QED  BY <2>2, <2>3
<1>5. IsRun(r) /\ r.at = at /\ r.start = s.start /\ r.tip = s.tip
  <2> DEFINE empty == {}
  <2>1. r = [s EXCEPT !.pending = empty, !.done = last, !.at = at]
    OBVIOUS
  <2> HIDE DEF s, last, at, empty, r
  <2>2. r = [at |-> at, loaded |-> s.loaded, tip |-> s.tip, start |-> s.start,
             pending |-> empty, seen |-> s.seen, done |-> last, attempt |-> s.attempt]
    BY <1>2, <2>1 DEF IsRun
  <2>3. QED  BY <2>2 DEF IsRun
<1>6. Follows(r, chain, table', latest)
  BY <1>1, <1>2, <1>5 DEF Follows, I!Completed, Holds
<1>7. QED  BY <1>1, <1>4, <1>5, <1>6, OneStep

(* The events of one ledger. *)
EmittedOK(new, m, n) ==
  /\ new \in Seq(Event) /\ Len(new) = m
  /\ \A i \in 1 .. m : new[i].ledger = n
LEMMA EventsEmitted ==
  ASSUME NEW n \in Nat, NEW m \in 0 .. 2, NEW contents \in [1 .. m -> Content]
  PROVE  EmittedOK(I!Emitted(contents, n), m, n)
<1> DEFINE new == I!Emitted(contents, n)
<1>1. new = [i \in 1 .. m |-> [ledger |-> n, content |-> contents[i]]]
  BY DEF I!Emitted
<1>2. \A i \in 1 .. m : new[i] = [ledger |-> n, content |-> contents[i]]
  BY <1>1
<1> HIDE DEF new
<1>3. \A i \in 1 .. m : new[i] \in Event /\ new[i].ledger = n
  <2>1. TAKE i \in 1 .. m
  <2>2. contents[i] \in Content
    OBVIOUS
  <2>3. new[i] = [ledger |-> n, content |-> contents[i]]
    BY <1>2
  <2>4. [ledger |-> n, content |-> contents[i]] \in Event
    BY <2>2 DEF Event
  <2>5. new[i].ledger = n
    BY <2>3
  <2>6. QED  BY <2>3, <2>4, <2>5
<1>4. new \in [1 .. m -> Event]
  BY <1>1, <1>3
<1>5. new \in Seq(Event) /\ Len(new) = m
  BY <1>4
<1>6. QED  BY <1>3, <1>5 DEF EmittedOK, new

LEMMA StepClose ==
  ASSUME IndexInv, I!Close
  PROVE  IndexInv'
<1>1. PICK contents \in I!SeqOf(Content, 2) : chain' = chain \o I!Emitted(contents, latest + 1)
  BY DEF I!Close
<1>2. ChainOK(chain, latest) /\ latest' = latest + 1
  BY DEF IndexInv, I!Close
<1>3. PICK m \in 0 .. 2 : contents \in [1 .. m -> Content]
  BY <1>1 DEF I!SeqOf
<1> DEFINE new == I!Emitted(contents, latest + 1)
<1>4. EmittedOK(new, m, latest + 1)
  <2>1. latest + 1 \in Nat
    BY <1>2 DEF ChainOK
  <2>2. QED  BY <1>3, <2>1, EventsEmitted
<1> HIDE DEF new
<1>5. /\ chain' \in Seq(Event)
      /\ Len(chain') = Len(chain) + m
      /\ \A i \in 1 .. Len(chain) : chain'[i] = chain[i]
      /\ \A i \in Len(chain) + 1 .. Len(chain) + m : chain'[i] = new[i - Len(chain)]
  BY <1>1, <1>2, <1>4 DEF ChainOK, EmittedOK, new
<1>6. Len(chain') \in Nat /\ DOMAIN chain' = 1 .. Len(chain')
  BY <1>2, <1>5 DEF ChainOK
<1>7. \A i \in Len(chain) + 1 .. Len(chain) + m : chain'[i].ledger = latest + 1
  <2>1. TAKE i \in Len(chain) + 1 .. Len(chain) + m
  <2>2. i - Len(chain) \in 1 .. m
    BY <1>2 DEF ChainOK
  <2>3. QED  BY <1>4, <1>5, <2>2 DEF EmittedOK
<1>8. \A i \in DOMAIN chain' : i \in DOMAIN chain \/ i \in Len(chain) + 1 .. Len(chain) + m
  BY <1>2, <1>5, <1>6 DEF ChainOK
<1>9. ChainOK(chain', latest')
  <2>1. ASSUME NEW i \in DOMAIN chain'
        PROVE  chain'[i].ledger \in Nat /\ chain'[i].ledger <= latest + 1
    <3>1. CASE i \in DOMAIN chain
      BY <1>2, <1>5, <3>1 DEF ChainOK
    <3>2. CASE i \in Len(chain) + 1 .. Len(chain) + m
      BY <1>2, <1>7, <3>2 DEF ChainOK
    <3>3. QED  BY <1>8, <2>1, <3>1, <3>2
  <2>2. QED  BY <1>2, <1>5, <1>6, <2>1 DEF ChainOK
<1>10. Extends(chain, latest, chain', latest')
  <2>1. latest <= latest' /\ DOMAIN chain \subseteq DOMAIN chain'
    BY <1>2, <1>5, <1>6 DEF ChainOK
  <2>2. \A i \in DOMAIN chain : chain'[i] = chain[i]
    BY <1>2, <1>5 DEF ChainOK
  <2>3. \A i \in DOMAIN chain' \ DOMAIN chain : chain'[i].ledger > latest
    BY <1>2, <1>7, <1>8 DEF ChainOK
  <2>4. QED  BY <2>1, <2>2, <2>3 DEF Extends
<1>11. QED  BY <1>9, <1>10, OtherStep DEF I!Close, I!database

LEMMA StepOthers ==
  ASSUME IndexInv, I!ConnectionLost \/ I!Poll \/ I!Insert \/ I!PollFails \/ UNCHANGED I!vars
  PROVE  IndexInv'
<1>1. Extends(chain, latest, chain, latest) /\ ChainOK(chain, latest)
  BY DEF IndexInv, ChainOK, Extends
<1>2. /\ runs' = runs /\ checkpoint' = checkpoint /\ table \subseteq table'
      /\ chain' = chain /\ latest' = latest
  BY DEF I!ConnectionLost, I!Poll, I!Insert, I!PollFails, I!vars, I!ledgers, I!database
<1>3. QED  BY <1>1, <1>2, OtherStep

-------------------------------------------------------------------------------

LEMMA IndexInit ==
  ASSUME I!Init
  PROVE  IndexInv
<1>1. PICK contents \in I!SeqOf(Content, 2) : chain = I!Emitted(contents, 1)
  BY DEF I!Init
<1>2. PICK m \in 0 .. 2 : contents \in [1 .. m -> Content]
  BY <1>1 DEF I!SeqOf
<1>3. EmittedOK(chain, m, 1)
  BY <1>1, <1>2, EventsEmitted
<1>4. ChainOK(chain, latest)
  <2>1. chain \in Seq(Event) /\ Len(chain) \in Nat /\ DOMAIN chain = 1 .. m /\ Len(chain) = m
    BY <1>3 DEF EmittedOK
  <2>2. QED  BY <1>3, <2>1 DEF ChainOK, EmittedOK, I!Init
<1>5. QED  BY <1>4, IdleFollows DEF I!Init, IndexInv

LEMMA NextInv ==
  ASSUME IndexInv, [I!Next]_(I!vars), IndexerAssumption
  PROVE  IndexInv'
<1>1. ASSUME NEW p \in Run, I!Backfill(p)
      PROVE  IndexInv'
  <2>1. CASE I!Start(p)           BY <2>1, StepStart DEF IndexerAssumption
  <2>2. CASE I!Refused(p)         BY <2>2, StepEnds DEF I!Refused
  <2>3. CASE I!Locked(p)          BY <2>3, StepLocked DEF IndexerAssumption
  <2>4. CASE I!PageArrives(p)     BY <2>4, StepPage DEF IndexerAssumption
  <2>5. CASE I!CommitProgress(p)  BY <2>5, StepCommit DEF IndexerAssumption
  <2>6. CASE I!Unlock(p)          BY <2>6, StepEnds DEF I!Unlock
  <2>7. QED  BY <1>1, <2>1, <2>2, <2>3, <2>4, <2>5, <2>6 DEF I!Backfill
<1>2. ASSUME NEW p \in Run, I!Fails(p)
      PROVE  IndexInv'
  <2>1. CASE I!PageFails(p)       BY <2>1, StepPageFails DEF IndexerAssumption
  <2>2. CASE I!Crash(p)           BY <2>2, StepEnds DEF I!Crash
  <2>3. QED  BY <1>2, <2>1, <2>2 DEF I!Fails
<1>3. QED  BY <1>1, <1>2, StepClose, StepOthers DEF I!Next, IndexerAssumption

(* What a checkpoint says is done is stored (_commit_progress of backfill.py),    *)
(* whatever crashed in between, and also if two runs write at a time.             *)
THEOREM CheckpointsCover == I!Spec => []I!CheckpointCovers
<1>1. IndexInv => I!CheckpointCovers
  BY DEF IndexInv, Covers, Holds, I!CheckpointCovers, I!Stored
<1>2. I!Init => IndexInv
  BY IndexInit
<1>3. IndexInv /\ [I!Next]_(I!vars) => IndexInv'
  BY IndexerAssumption, NextInv
<1>4. QED  BY <1>1, <1>2, <1>3, PTL DEF I!Spec

-------------------------------------------------------------------------------
(* The membership token: the balances are the numbers of tokens owned, and tokens *)
(* stay where they are or go to the admin.                                        *)

ScfInv == T!TypeOK /\ T!BalancesMatchOwners /\ T!IdsDense

\* The module of the token counts as this one does.
LEMMA SameCount == \A S : T!Cardinality(S) = Cardinality(S)
<1>1. \A S : T!IsFiniteSet(S) <=> IsFiniteSet(S)
  BY DEF T!IsFiniteSet, IsFiniteSet
<1> QED BY <1>1 DEF T!Cardinality, Cardinality

\* The tokens of an account are finitely many.
LEMMA OwnedFinite ==
  ASSUME T!ScfAssumption, NEW a
  PROVE  IsFiniteSet(T!Owned(a)) /\ Cardinality(T!Owned(a)) \in Nat
<1>1. IsFiniteSet(T!Token)
  BY FS_Interval DEF T!Token, T!ScfAssumption
<1>2. T!Owned(a) \subseteq T!Token
  BY DEF T!Owned
<1> QED BY <1>1, <1>2, FS_Subset, FS_CardinalityType

\* When a token goes to an account, its new owner has it more, and nobody else.
LEMMA OwnedAfter ==
  ASSUME T!TypeOK, NEW id \in T!Token, NEW to \in Account, owner' = [owner EXCEPT ![id] = to]
  PROVE  \A a \in Account : T!Owned(a)' = IF a = to THEN T!Owned(a) \cup {id} ELSE T!Owned(a) \ {id}
  BY DEF T!TypeOK, T!Owned

LEMMA ScfInit ==
  ASSUME T!ScfAssumption, T!Init
  PROVE  ScfInv
<1>1. T!TypeOK
  BY DEF T!Init, T!TypeOK, T!ScfAssumption
<1>2. T!BalancesMatchOwners
  <2>1. \A a \in Account : T!Owned(a) = {}
    BY DEF T!Init, T!Owned, T!ScfAssumption
  <2> QED BY <2>1, SameCount, FS_EmptySet DEF T!Init, T!BalancesMatchOwners
<1>3. T!IdsDense
  BY DEF T!Init, T!IdsDense, T!Exists, T!Token
<1> QED BY <1>1, <1>2, <1>3 DEF ScfInv

LEMMA MintPreserves ==
  ASSUME T!ScfAssumption, ScfInv, NEW admin \in Account, NEW to \in Account, T!Mint(admin, to)
  PROVE  ScfInv'
<1> DEFINE id == next_token_id
<1>1. id \in T!Token /\ ~T!Exists(id)
  BY DEF T!Mint, ScfInv, T!IdsDense, T!TypeOK
<1>2. owner' = [owner EXCEPT ![id] = to] /\ to # None
  BY DEF T!Mint, T!ScfAssumption
<1>3. T!TypeOK'
  BY <1>1 DEF T!Mint, T!NextId, T!InitialRole, T!Role, ScfInv, T!TypeOK
<1>4. T!BalancesMatchOwners'
  <2> SUFFICES ASSUME NEW a \in Account PROVE balances'[a] = Cardinality(T!Owned(a)')
    BY SameCount DEF T!BalancesMatchOwners
  <2>1. T!Owned(a)' = IF a = to THEN T!Owned(a) \cup {id} ELSE T!Owned(a) \ {id}
    BY <1>1, <1>2, OwnedAfter DEF ScfInv
  <2>2. id \notin T!Owned(a)
    BY <1>1 DEF T!Exists, T!Owned, T!ScfAssumption
  <2>3. balances[a] = Cardinality(T!Owned(a)) /\ IsFiniteSet(T!Owned(a))
    BY OwnedFinite, SameCount DEF ScfInv, T!BalancesMatchOwners
  <2>4. balances'[a] = IF a = to THEN balances[a] + 1 ELSE balances[a]
    BY DEF T!Mint, ScfInv, T!TypeOK
  <2>5. Cardinality(T!Owned(a) \cup {id}) = Cardinality(T!Owned(a)) + 1
    BY <2>2, <2>3, FS_AddElement
  <2>6. T!Owned(a) \ {id} = T!Owned(a)
    BY <2>2
  <2> QED BY <2>1, <2>3, <2>4, <2>5, <2>6
<1>5. T!IdsDense'
  <2> SUFFICES ASSUME NEW t \in T!Token
               PROVE  /\ owner'[t] # None <=> t < next_token_id'
                      /\ owner'[t] # None => roles'[t] # None
    BY DEF T!IdsDense, T!Exists
  <2>1. /\ owner[t] # None <=> t < next_token_id
        /\ owner[t] # None => roles[t] # None
    BY DEF ScfInv, T!IdsDense, T!Exists
  <2>2. next_token_id' = next_token_id + 1 /\ next_token_id \in Nat /\ t \in Nat
    BY DEF T!Mint, T!NextId, ScfInv, T!TypeOK, T!Token
  <2>3. CASE t = id
    BY <1>1, <1>2, <2>2, <2>3 DEF T!Mint, T!InitialRole, ScfInv, T!TypeOK, T!ScfAssumption
  <2>4. CASE t # id
    <3>1. owner'[t] = owner[t] /\ roles'[t] = roles[t]
      BY <2>4 DEF T!Mint, ScfInv, T!TypeOK
    <3> QED BY <2>1, <2>2, <2>4, <3>1
  <2> QED BY <2>3, <2>4
<1> QED BY <1>3, <1>4, <1>5 DEF ScfInv

LEMMA ClawbackPreserves ==
  ASSUME T!ScfAssumption, ScfInv, NEW admin \in Account, NEW id \in T!Token, T!Clawback(admin, id)
  PROVE  ScfInv'
<1> DEFINE from == owner[id]
           taken == [balances EXCEPT ![from] = @ - 1]
<1>1. from \in Account /\ Admin \in Account /\ owner' = [owner EXCEPT ![id] = Admin]
  BY DEF T!Clawback, T!Recipient, T!Exists, ScfInv, T!TypeOK, T!ScfAssumption
<1>2. \A a \in Account : /\ balances[a] = Cardinality(T!Owned(a)) /\ balances[a] \in Nat
                        /\ IsFiniteSet(T!Owned(a))
  BY OwnedFinite, SameCount DEF ScfInv, T!BalancesMatchOwners, T!TypeOK
<1>3. id \in T!Owned(from) /\ \A a \in Account : a # from => id \notin T!Owned(a)
  BY DEF T!Owned
<1>4. \A a \in Account : T!Owned(a)' = IF a = Admin THEN T!Owned(a) \cup {id} ELSE T!Owned(a) \ {id}
  BY <1>1, OwnedAfter DEF ScfInv
<1>5. balances[from] >= 1
  <2>1. Cardinality(T!Owned(from) \ {id}) = Cardinality(T!Owned(from)) - 1
    BY <1>1, <1>2, <1>3, FS_RemoveElement
  <2>2. Cardinality(T!Owned(from) \ {id}) \in Nat
    BY <1>1, <1>2, FS_RemoveElement, FS_CardinalityType
  <2> HIDE DEF from
  <2> QED BY <1>1, <1>2, <2>1, <2>2
<1>6. /\ taken \in [Account -> Nat]
      /\ \A a \in Account : taken[a] = IF a = from THEN balances[a] - 1 ELSE balances[a]
  <2> HIDE DEF from
  <2> QED BY <1>1, <1>2, <1>5 DEF ScfInv, T!TypeOK
<1>7. balances' = [taken EXCEPT ![Admin] = @ + 1]
  BY DEF T!Clawback, T!Moved
<1>8. /\ balances' \in [Account -> Nat]
      /\ \A a \in Account : balances'[a] = IF a = Admin THEN taken[a] + 1 ELSE taken[a]
  <2> HIDE DEF taken
  <2> QED BY <1>1, <1>6, <1>7
<1>9. T!TypeOK'
  BY <1>1, <1>8 DEF T!Clawback, ScfInv, T!TypeOK
<1>10. T!BalancesMatchOwners'
  <2> SUFFICES ASSUME NEW a \in Account PROVE balances'[a] = Cardinality(T!Owned(a)')
    BY SameCount DEF T!BalancesMatchOwners
  <2>1. T!Owned(a)' = IF a = Admin THEN T!Owned(a) \cup {id} ELSE T!Owned(a) \ {id}
    BY <1>4
  <2>2. /\ Cardinality(T!Owned(a) \cup {id}) =
              IF id \in T!Owned(a) THEN balances[a] ELSE balances[a] + 1
        /\ Cardinality(T!Owned(a) \ {id}) =
              IF id \in T!Owned(a) THEN balances[a] - 1 ELSE balances[a]
    <3>1. balances[a] = Cardinality(T!Owned(a)) /\ IsFiniteSet(T!Owned(a))
      BY <1>2
    <3>2. Cardinality(T!Owned(a) \cup {id}) =
            IF id \in T!Owned(a) THEN Cardinality(T!Owned(a)) ELSE Cardinality(T!Owned(a)) + 1
      BY <3>1, FS_AddElement
    <3>3. CASE id \in T!Owned(a)
      <4>1. Cardinality(T!Owned(a) \ {id}) = Cardinality(T!Owned(a)) - 1
        BY <3>1, <3>3, FS_RemoveElement
      <4> QED BY <3>1, <3>2, <3>3, <4>1
    <3>4. CASE id \notin T!Owned(a)
      <4>1. T!Owned(a) \ {id} = T!Owned(a)
        BY <3>4
      <4> QED BY <3>1, <3>2, <3>4, <4>1
    <3> QED BY <3>3, <3>4
  <2>3. id \in T!Owned(a) <=> a = from
    BY <1>3
  <2>4. balances[a] \in Nat
    BY <1>2
  <2> HIDE DEF taken, from
  <2> QED BY <1>6, <1>8, <2>1, <2>2, <2>3, <2>4
<1>11. T!IdsDense'
  <2>1. \A t \in T!Token : owner'[t] # None <=> owner[t] # None
    BY <1>1 DEF T!Clawback, T!Exists, ScfInv, T!TypeOK, T!ScfAssumption
  <2> QED BY <2>1 DEF T!Clawback, ScfInv, T!IdsDense, T!Exists
<1> QED BY <1>9, <1>10, <1>11 DEF ScfInv

\* Calls that change no owner, balance or counter.
LEMMA OthersPreserve ==
  ASSUME ScfInv, UNCHANGED <<next_token_id, owner, balances>>,
         roles' \in [T!Token -> T!Role \cup {None}], token_wasm' \in Wasm,
         \A id \in T!Token : roles[id] # None => roles'[id] # None
  PROVE  ScfInv'
<1>1. \A a \in Account : T!Owned(a)' = T!Owned(a)
  BY DEF T!Owned
<1> QED BY <1>1 DEF ScfInv, T!TypeOK, T!BalancesMatchOwners, T!IdsDense, T!Exists

LEMMA SetTraitPreserves ==
  ASSUME T!ScfAssumption, ScfInv, NEW admin \in Account, NEW id \in T!Token, NEW value \in Values,
         T!SetTrait(admin, id, value)
  PROVE  ScfInv'
<1>1. roles \in [T!Token -> T!Role \cup {None}] /\ roles' = [roles EXCEPT ![id] = value]
      /\ value \in T!Role /\ value # None /\ token_wasm' \in Wasm
  BY DEF T!SetTrait, T!Settable, ScfInv, T!TypeOK, T!Role, T!ScfAssumption
<1>2. /\ roles' \in [T!Token -> T!Role \cup {None}]
      /\ \A t \in T!Token : roles[t] # None => roles'[t] # None
  BY <1>1
<1> QED BY <1>1, <1>2, OthersPreserve DEF T!SetTrait

LEMMA ScfNext ==
  ASSUME T!ScfAssumption, ScfInv, [T!Next]_(T!vars)
  PROVE  ScfInv'
<1>1. CASE UNCHANGED T!vars
  BY <1>1, OthersPreserve DEF T!vars, ScfInv, T!TypeOK
<1>2. ASSUME NEW admin \in Account, NEW hash \in Wasm, T!Upgrade(admin, hash)  PROVE ScfInv'
  BY <1>2, OthersPreserve DEF T!Upgrade, ScfInv, T!TypeOK
<1> QED BY <1>1, <1>2, MintPreserves, ClawbackPreserves, SetTraitPreserves DEF T!Next

LEMMA ScfInvariance == T!Spec => []ScfInv
  BY ScfInit, ScfNext, TokenAssumption, PTL DEF T!Spec

\* The variables have the types of their storage keys; balances are not negative.
THEOREM ScfTypeCorrect == T!Spec => []T!TypeOK
  BY ScfInvariance, PTL DEF ScfInv

\* The balance of an account is the number of tokens it owns.
THEOREM BalancesOfToken == T!Spec => []T!BalancesMatchOwners
  BY ScfInvariance, PTL DEF ScfInv

\* The tokens that exist are those below the counter, and each has a role.
THEOREM IdsAreDense == T!Spec => []T!IdsDense
  BY ScfInvariance, PTL DEF ScfInv

\* Tokens stay with their owner or go to the admin.
THEOREM TokensAreSoulbound == T!Spec => T!Soulbound
<1>1. ScfInv /\ [T!Next]_(T!vars)
        => [\A id \in T!Token : T!Exists(id) => owner'[id] \in {owner[id], Admin}]_(T!vars)
  <2> SUFFICES ASSUME ScfInv, T!Next, NEW t \in T!Token, T!Exists(t)
               PROVE  owner'[t] \in {owner[t], Admin}
    OBVIOUS
  <2>1. ASSUME NEW admin \in Account, NEW to \in Account, T!Mint(admin, to)
        PROVE  owner'[t] = owner[t]
    <3>1. t # next_token_id
      BY DEF ScfInv, T!IdsDense, T!TypeOK
    <3> QED BY <2>1, <3>1 DEF T!Mint, ScfInv, T!TypeOK
  <2>2. ASSUME NEW admin \in Account, NEW id \in T!Token, T!Clawback(admin, id)
        PROVE  owner'[t] \in {owner[t], Admin}
    BY <2>2 DEF T!Clawback, T!Recipient, ScfInv, T!TypeOK
  <2>3. UNCHANGED owner => owner'[t] = owner[t]
    OBVIOUS
  <2> QED BY <2>1, <2>2, <2>3 DEF T!Next, T!SetTrait, T!Upgrade
<1> QED BY <1>1, ScfInvariance, PTL DEF T!Spec, T!Soulbound

-------------------------------------------------------------------------------
(* All together.                                                                 *)

(* A step of an installation is one of the contract, of the server or of the     *)
(* token, and leaves the other two as they are.                                  *)
LEMMA EitherSteps ==
  [Upgrading \/ Indexing \/ Minting]_all
    => [Next]_vars /\ [I!Next]_(I!vars) /\ [T!Next]_(T!vars)
<1>1. ASSUME Upgrading  PROVE Next /\ I!vars' = I!vars /\ T!vars' = T!vars
  BY <1>1 DEF Upgrading, OnUpgrade, Next, index, token, I!vars, I!ledgers, I!database, T!vars
<1>2. ASSUME Indexing  PROVE I!Next /\ vars' = vars /\ T!vars' = T!vars
  BY <1>2 DEF Indexing, OnIndex, I!Next, I!Backfill, I!Fails, token, T!vars
<1>3. ASSUME Minting  PROVE T!Next /\ vars' = vars /\ I!vars' = I!vars
  BY <1>3 DEF Minting, OnToken, T!Next, index, I!vars, I!ledgers, I!database
<1>4. ASSUME all' = all  PROVE vars' = vars /\ I!vars' = I!vars /\ T!vars' = T!vars
  BY <1>4 DEF all, vars, index, token, I!vars, I!ledgers, I!database, T!vars
<1>5. QED  BY <1>1, <1>2, <1>3, <1>4

(* An installation does nothing that the contract's administrators, the server    *)
(* and the token's admin do not each do by themselves.                            *)
THEOREM OperationsAreEach ==
  OperationsSpec => Spec /\ I!Init /\ [][I!Next]_(I!vars) /\ T!Spec
<1>1. OperationsInit => Init /\ I!Init /\ T!Init
  BY DEF OperationsInit
<1>2. QED  BY <1>1, EitherSteps, PTL DEF OperationsSpec, Spec, T!Spec

(* What a checkpoint says is done is stored, of the installation as a whole.      *)
THEOREM StoredAsCheckpointed == OperationsSpec => []CheckpointCovers
<1>1. IndexInv => CheckpointCovers
  BY DEF CheckpointCovers, IndexInv, Covers, Holds, I!CheckpointCovers, I!Stored
<1>2. OperationsInit => IndexInv
  BY IndexInit DEF OperationsInit
<1>3. IndexInv /\ [Upgrading \/ Indexing \/ Minting]_all => IndexInv'
  BY IndexerAssumption, EitherSteps, NextInv
<1>4. QED  BY <1>1, <1>2, <1>3, PTL DEF OperationsSpec

(* Every balance is the number of tokens the account owns, of the installation    *)
(* as a whole (mint and clawback of scf_token.rs).                                *)
THEOREM BalancesAreTotals == OperationsSpec => []BalancesMatchOwners
<1>1. T!BalancesMatchOwners => BalancesMatchOwners
  BY DEF BalancesMatchOwners
<1>2. QED  BY <1>1, OperationsAreEach, BalancesOfToken, PTL
=============================================================================
