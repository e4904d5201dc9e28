---------------------------- MODULE WalletStorage ----------------------------
(***************************************************************************)
(* The storage of InstantWallet.sol as one record, and the functions that  *)
(* read it and produce its next value.  Nothing here has state of its own: *)
(* InstantWallet.tla says when each function runs.                         *)
(*                                                                         *)
(* A key is identified by its signerId, address(0) is NoOne, a role of     *)
(* "none" says the key is not in _signerIds.  A call of a batch is a       *)
(* record whose "op" names the self-call, or "send" (an ETH send or an     *)
(* ERC-20 transfer) or "call" (any other call of an outside contract).     *)
(***************************************************************************)
EXTENDS Integers, Sequences, FiniteSets

CONSTANTS
  Key,                 \* signerIds
  Guardian,            \* addresses that can be guardians
  NoOne,               \* address(0)
  Asset, ETH, USDC,    \* assets, and the two the code names
  FirstKey, FirstGuardians, FirstRecoveryDelay,  \* arguments of initialize
  Batch,               \* the batches of calls that keys may sign
  WINDOW, MIN_RECOVERY_DELAY, MAX_COLD_DELAY, MAX_RECOVERY_DELAY,
  SEVEN_DAYS,          \* length of a freeze when there is no recovery delay
  GAS_ALLOWANCE,       \* the paymaster's USDC allowance after a refill
  Holding,             \* bound: the first and the largest balance of each asset
  MaxQueue             \* bound: actions ever queued

Role == {"spender", "owner"}
QueueId == 0 .. MaxQueue - 1

(***************************************************************************)
(* What a batch may contain.                                               *)
(***************************************************************************)
Call ==
       [op: {"send"}, asset: Asset, amount: Nat]
  \cup [op: {"call", "cancelRecovery", "freeze", "unfreeze"}]
  \cup [op: {"addSigner", "updateSigner"}, key: Key, role: Role]
  \cup [op: {"removeSigner"}, key: Key]
  \cup [op: {"setLimit"}, key: Key, asset: Asset, limit: Nat]
  \cup [op: {"setGuardians"}, guardians: SUBSET Guardian, delay: Nat]
  \cup [op: {"setColdDelay"}, delay: Nat]
  \cup [op: {"setNoTwoKeySkip"}, off: BOOLEAN]
  \cup [op: {"cancelQueued", "skipWait", "executeQueued"}, id: QueueId]

ASSUME IdentityAssumption ==
  /\ FirstKey \in Key /\ NoOne \notin Key \cup Guardian
  /\ {ETH, USDC} \subseteq Asset
  /\ FirstGuardians \subseteq Guardian
  /\ IsFiniteSet(Key)

ASSUME TimingAssumption ==
  /\ {WINDOW, MIN_RECOVERY_DELAY, SEVEN_DAYS} \subseteq Nat \ {0}
  /\ {MAX_COLD_DELAY, MAX_RECOVERY_DELAY, GAS_ALLOWANCE, MaxQueue} \subseteq Nat
  /\ Holding \in [Asset -> Nat]
  /\ FirstRecoveryDelay \in 0 .. MAX_RECOVERY_DELAY
  /\ FirstGuardians # {} => FirstRecoveryDelay >= MIN_RECOVERY_DELAY

ASSUME BatchAssumption == Batch \subseteq Seq(Call)

-----------------------------------------------------------------------------
(***************************************************************************)
(* The record types.                                                       *)
(***************************************************************************)
Allowance == [limit: Nat, spent: Nat, windowStart: Nat]

NoAllowance == [limit |-> 0, spent |-> 0, windowStart |-> 0]

Recovery == [replaces: Key \cup {NoOne}, key: Key \cup {NoOne},
             proposer: Guardian \cup {NoOne}, executeAfter: Nat]

NoRecovery == [replaces |-> NoOne, key |-> NoOne,
               proposer |-> NoOne, executeAfter |-> 0]

Queued == [executeAfter: Nat, proposer: Key \cup {NoOne}, calls: Seq(Call)]

NotQueued == [executeAfter |-> 0, proposer |-> NoOne, calls |-> <<>>]

Storage ==
  [role: [Key -> Role \cup {"none"}],
   ownerCount: Int,
   nonces: [Key -> Nat],
   allowance: [Key -> [Asset -> Allowance]],
   guardians: SUBSET Guardian,
   recoveryDelay: Nat,
   recovery: Recovery,
   coldDelay: Nat,
   frozenUntil: Nat,
   noTwoKeySkip: BOOLEAN,
   queueCount: Nat,
   queued: [QueueId -> Queued],
   balance: [Asset -> Nat],      \* what the wallet holds
   gasAllowance: Nat]            \* what the paymaster may still pull

Signers(s) == {k \in Key : s.role[k] # "none"}
Owners(s) == {k \in Key : s.role[k] = "owner"}

\* initialize: the first key is the owner, the factory's guardians are set.
Initialized ==
  [role |-> [k \in Key |-> IF k = FirstKey THEN "owner" ELSE "none"],
   ownerCount |-> 1,
   nonces |-> [k \in Key |-> 0],
   allowance |-> [k \in Key |-> [a \in Asset |-> NoAllowance]],
   guardians |-> FirstGuardians,
   recoveryDelay |-> FirstRecoveryDelay,
   recovery |-> NoRecovery,
   coldDelay |-> 0,
   frozenUntil |-> 0,
   noTwoKeySkip |-> FALSE,
   queueCount |-> 0,
   queued |-> [i \in QueueId |-> NotQueued],
   balance |-> Holding,
   gasAllowance |-> 0]

-----------------------------------------------------------------------------
(***************************************************************************)
(* Signers.                                                                *)
(***************************************************************************)
AddSigner(s, k, role) ==
  [s EXCEPT !.role[k] = role,
            !.ownerCount = IF role = "owner" THEN @ + 1 ELSE @]

\* Mutant: off by one.
IsLastOwnerTooLate(s, k) == s.role[k] = "owner" /\ s.ownerCount = 0

\* LastOwner: the only owner can be neither demoted nor removed.
IsLastOwner(s, k) == s.role[k] = "owner" /\ s.ownerCount = 1

UpdateSigner(s, k, role) ==
  [s EXCEPT !.role[k] = role,
            !.ownerCount = CASE s.role[k] = "owner" /\ role # "owner" -> @ - 1
                             [] s.role[k] # "owner" /\ role = "owner" -> @ + 1
                             [] OTHER -> @]

\* Mutant: the key goes, its limits stay.
RemoveSignerKeepsLimits(s, k) ==
  [s EXCEPT !.role[k] = "none",
            !.ownerCount = IF s.role[k] = "owner" THEN @ - 1 ELSE @]

\* Only the assets on the key's list (those with a limit) are cleared.
RemoveSigner(s, k) ==
  [s EXCEPT !.role[k] = "none",
            !.ownerCount = IF s.role[k] = "owner" THEN @ - 1 ELSE @,
            !.allowance[k] = [a \in Asset |-> IF @[a].limit # 0 THEN NoAllowance
                                                                ELSE @[a]]]

(***************************************************************************)
(* Limits.  A window opens with the first spend after the last one ended.  *)
(***************************************************************************)
SetLimit(s, k, a, limit) == [s EXCEPT !.allowance[k][a].limit = limit]

WindowOver(al, now) == now >= al.windowStart + WINDOW

Remaining(s, k, a, now) ==
  LET al == s.allowance[k][a] IN
    CASE WindowOver(al, now) -> al.limit
      [] ~WindowOver(al, now) /\ al.limit > al.spent -> al.limit - al.spent
      [] OTHER -> 0

Frozen(s, now) == now < s.frozenUntil

CanSpend(s, k, a, n, now) ==
  n = 0 \/ (~Frozen(s, now) /\ n <= Remaining(s, k, a, now))

\* Mutant: the window is renewed after the charge, which forgets it.
SpendThenRenew(s, k, a, n, now) ==
  LET al == s.allowance[k][a]
      charged == IF WindowOver(al, now) THEN [al EXCEPT !.spent = 0, !.windowStart = now]
                                        ELSE [al EXCEPT !.spent = @ + n]
  IN  IF n = 0 THEN s ELSE [s EXCEPT !.allowance[k][a] = charged]

Spend(s, k, a, n, now) ==
  LET al == s.allowance[k][a]
      charged == IF WindowOver(al, now) THEN [al EXCEPT !.spent = n, !.windowStart = now]
                                        ELSE [al EXCEPT !.spent = @ + n]
  IN  IF n = 0 THEN s ELSE [s EXCEPT !.allowance[k][a] = charged]

-----------------------------------------------------------------------------
(***************************************************************************)
(* Guardians, recovery, freeze, queue.                                     *)
(***************************************************************************)
CancelRecovery(s) == [s EXCEPT !.recovery = NoRecovery]

\* Mutant: a pending recovery survives the guardian who proposed it.
SetGuardiansKeepsRecovery(s, gs, delay) ==
  [s EXCEPT !.guardians = gs, !.recoveryDelay = delay]

SetGuardians(s, gs, delay) ==
  [CancelRecovery(s) EXCEPT !.guardians = gs, !.recoveryDelay = delay]

Freeze(s, now) ==
  LET until == now + (IF s.recoveryDelay = 0 THEN SEVEN_DAYS ELSE s.recoveryDelay)
  IN  [s EXCEPT !.frozenUntil = IF until > @ THEN until ELSE @]

Enqueue(s, k, calls, now) ==
  [s EXCEPT !.queueCount = @ + 1,
            !.queued[s.queueCount] = [executeAfter |-> now + s.coldDelay,
                                      proposer |-> k, calls |-> calls]]

\* Mutant: the action stays queued after it ran.
DequeueForgets(s, id) == s

Dequeue(s, id) == [s EXCEPT !.queued[id] = NotQueued]

(***************************************************************************)
(* The rules of _dispatch: which batches never wait, which a spender may   *)
(* sign.                                                                   *)
(***************************************************************************)
IsUnfreeze(calls) == Len(calls) = 1 /\ calls[1].op = "unfreeze"

IsProtect(s, c, k, owner) ==
  \/ c.op \in {"cancelQueued", "freeze", "skipWait", "executeQueued"}
  \/ /\ c.op = "setLimit"
     /\ owner \/ c.key = k
     /\ c.key \in Signers(s)
     /\ c.limit <= s.allowance[c.key][c.asset].limit
  \/ /\ c.op = "removeSigner"
     /\ c.key = k \/ (owner /\ c.key \in Signers(s) \ Owners(s))
  \/ /\ owner
     /\ \/ c.op = "cancelRecovery"
        \/ /\ c.op = "setColdDelay"
           /\ s.coldDelay # 0 /\ c.delay \in s.coldDelay .. MAX_COLD_DELAY
        \/ c.op = "setNoTwoKeySkip" /\ c.off

AllProtect(s, calls, k) ==
  calls # <<>> /\ \A i \in 1 .. Len(calls) : IsProtect(s, calls[i], k, TRUE)

SpenderCall(s, c, k) ==
  \/ IsProtect(s, c, k, FALSE)
  \/ c.op = "send" /\ (c.asset = ETH \/ c.amount # 0)

\* What _spenderCall reports for the call: a protecting self-call costs nothing.
Cost(c) == IF c.op = "send" THEN c.amount ELSE 0

\* Mutant: the wait is not checked.
CanRunEarly(s, id, now) ==
  LET q == s.queued[id] IN
    /\ q.executeAfter # 0
    /\ q.proposer \in Signers(s)
    /\ Frozen(s, now) => IsUnfreeze(q.calls)

CanRun(s, id, now) ==
  LET q == s.queued[id] IN
    /\ q.executeAfter # 0 /\ now >= q.executeAfter
    /\ q.proposer \in Signers(s)
    /\ Frozen(s, now) => IsUnfreeze(q.calls)

\* _refillGas: the standing allowance back to GAS_ALLOWANCE once half is used.
\* Mutant: a spender's refill is checked against its limit and not charged to it.
RefillGasFree(s, k, now) ==
  LET need == GAS_ALLOWANCE - s.gasAllowance
      full == [s EXCEPT !.gasAllowance = GAS_ALLOWANCE]
  IN  CASE 2 * s.gasAllowance >= GAS_ALLOWANCE -> s
        [] 2 * s.gasAllowance < GAS_ALLOWANCE /\ s.role[k] = "owner" ->
             IF s.coldDelay # 0 THEN s ELSE full
        [] OTHER ->
             IF s.role[k] = "none" \/ ~CanSpend(s, k, USDC, need, now) THEN s ELSE full

RefillGas(s, k, now) ==
  LET need == GAS_ALLOWANCE - s.gasAllowance
      full == [s EXCEPT !.gasAllowance = GAS_ALLOWANCE]
  IN  CASE 2 * s.gasAllowance >= GAS_ALLOWANCE -> s
        [] 2 * s.gasAllowance < GAS_ALLOWANCE /\ s.role[k] = "owner" ->
             IF s.coldDelay # 0 THEN s ELSE full
        [] OTHER ->
             IF s.role[k] = "none" \/ ~CanSpend(s, k, USDC, need, now) THEN s
             ELSE Spend(full, k, USDC, need, now)
=============================================================================
