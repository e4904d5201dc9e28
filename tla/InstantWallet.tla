---------------------------- MODULE InstantWallet ----------------------------
(***************************************************************************)
(* InstantWallet.sol (v3.2.2) as a machine that runs one call at a time.   *)
(*                                                                         *)
(* A transaction is a stack of frames.  The bottom frame is the sender;    *)
(* an entry point pushes a frame that holds the calls still to run; a call *)
(* of an outside contract pushes an "outside" frame, from which the        *)
(* callee may enter the wallet again.  A failing call undoes everything    *)
(* since the wallet was last entered from outside, as the EVM does, so     *)
(* the outside frame below it keeps a copy of the state to go back to.     *)
(*                                                                         *)
(* Time passes and user operations are bundled only between transactions.  *)
(***************************************************************************)
EXTENDS WalletStorage

CONSTANTS
  TransferAmount,  \* amounts of metaTransfer and of pulls by permit
  Fee,             \* what a user operation may cost
  MaxTime, MaxNonce, MaxDepth, MaxBundle   \* bounds

ASSUME BoundAssumption ==
  /\ TransferAmount \cup Fee \subseteq Nat
  /\ {MaxTime, MaxNonce, MaxDepth, MaxBundle} \subseteq Nat

VARIABLES
  now,      \* block.timestamp
  w,        \* the wallet's storage and balances
  actor,    \* _actor (transient): who signed the call being run
  locked,   \* the transient reentrancy guard
  stack,    \* the frames of the running transaction
  bundle,   \* user operations of the running bundle that are still to execute
  g         \* history, read by properties only

vars == <<now, w, actor, locked, stack, bundle, g>>

(***************************************************************************)
(* History: how often each queued action ran, which key skipped its wait   *)
(* (the key whose batch really did it), whether no owner has signed        *)
(* anything since the pending recovery was proposed, and the actions whose *)
(* proposer was removed while they waited.                                 *)
(***************************************************************************)
History == [runs: [QueueId -> Nat], cosigner: [QueueId -> Key \cup {NoOne}],
            quiet: BOOLEAN, orphaned: SUBSET QueueId]

Orphans(s) ==
  {i \in QueueId : s.queued[i].executeAfter # 0 /\ s.queued[i].proposer \notin Signers(s)}

NoteOrphans == g' = [g EXCEPT !.orphaned = @ \cup Orphans(w')]

Snapshot == [w: Storage, actor: Key \cup {NoOne}, locked: BOOLEAN, g: History]

RunningFrame ==
  [kind: {"dispatch", "queued"}, who: Key, calls: Seq(Call),
   charge: Seq(Call),            \* spender's calls still to be charged
   sponsored: BOOLEAN,           \* gas paid by the USDC paymaster
   outer: Key \cup {NoOne}]      \* _actor to go back to

OutsideFrame == [kind: {"outside"}, saved: Seq(Snapshot)]

Op == [who: Key, calls: Seq(Call), sponsored: BOOLEAN]

TypeOK ==
  /\ now \in Nat
  /\ w \in Storage
  /\ actor \in Key \cup {NoOne}
  /\ locked \in BOOLEAN
  /\ stack \in Seq(RunningFrame \cup OutsideFrame)
  /\ bundle \in [open: BOOLEAN, ops: Seq(Op)]
  /\ g \in History

-----------------------------------------------------------------------------
(***************************************************************************)
(* Frames.                                                                 *)
(***************************************************************************)
Outside(saved) == [kind |-> "outside", saved |-> saved]

Top == stack[Len(stack)]
Running == Top.kind \in {"dispatch", "queued"}
BetweenTransactions == Len(stack) = 1

\* The wallet can be entered by the sender or by an outside contract it calls.
CanEnter == Top.kind = "outside" /\ (BetweenTransactions => bundle.ops = <<>>)

\* Enter the wallet: remember what a failure goes back to (storage s).
Enter(frame, s) ==
  LET n == Len(stack)
      snapshot == [w |-> s, actor |-> actor, locked |-> locked, g |-> g]
  IN  stack' = Append([stack EXCEPT ![n] = Outside(<<snapshot>>)], frame)

Truncate(n) ==
  LET s == SubSeq(stack, 1, n) IN
    IF s[n].kind = "outside" THEN [s EXCEPT ![n] = Outside(<<>>)] ELSE s

Leave == stack' = Truncate(Len(stack) - 1)

\* The head call of the top frame is done, calls \o rest remain.
Advance == stack' = [stack EXCEPT ![Len(stack)].calls = Tail(@)]

Frame(kind, k, calls, charge, sponsored) ==
  [kind |-> kind, who |-> k, calls |-> calls, charge |-> charge,
   sponsored |-> sponsored, outer |-> actor]

-----------------------------------------------------------------------------
Init ==
  /\ now = WINDOW
  /\ w = Initialized
  /\ actor = NoOne
  /\ locked = FALSE
  /\ stack = <<Outside(<<>>)>>
  /\ bundle = [open |-> TRUE, ops |-> <<>>]
  /\ g = [runs |-> [i \in QueueId |-> 0],
          cosigner |-> [i \in QueueId |-> NoOne],
          quiet |-> TRUE,
          orphaned |-> {}]

(***************************************************************************)
(* _dispatch: what happens to calls signed by k, from storage s.           *)
(* A failure goes back to storage `undo`.                                  *)
(***************************************************************************)
MustWait(s, k, calls) == s.coldDelay # 0 /\ ~AllProtect(s, calls, k)

CanDispatch(s, k, calls) ==
  s.role[k] = "owner" =>
    \/ s.coldDelay # 0 \/ AllProtect(s, calls, k)
    \/ ~Frozen(s, now) \/ IsUnfreeze(calls)

OwnerQueues(s, k, calls) ==
  /\ s.role[k] = "owner" /\ MustWait(s, k, calls)
  /\ s.queueCount < MaxQueue
  /\ w' = Enqueue(CancelRecovery(s), k, calls, now)
  /\ actor' = NoOne
  /\ g' = [g EXCEPT !.quiet = FALSE]
  /\ UNCHANGED <<locked, stack>>

OwnerRuns(s, undo, k, calls, sponsored) ==
  /\ s.role[k] = "owner" /\ ~MustWait(s, k, calls) /\ CanDispatch(s, k, calls)
  /\ w' = CancelRecovery(s)
  /\ Enter(Frame("dispatch", k, calls, <<>>, sponsored), undo)
  /\ actor' = k /\ locked' = TRUE
  /\ g' = [g EXCEPT !.quiet = FALSE]

SpenderRuns(s, undo, k, calls, sponsored) ==
  /\ s.role[k] = "spender"
  /\ w' = s
  /\ Enter(Frame("dispatch", k, calls, calls, sponsored), undo)
  /\ actor' = k /\ locked' = TRUE
  /\ UNCHANGED g

Dispatch(s, undo, k, calls, sponsored) ==
  \/ OwnerQueues(s, k, calls)
  \/ OwnerRuns(s, undo, k, calls, sponsored)
  \/ SpenderRuns(s, undo, k, calls, sponsored)

-----------------------------------------------------------------------------
(***************************************************************************)
(* Signed messages: anyone submits, the key authorizes (_authorize).       *)
(***************************************************************************)
Meta(k, calls) ==
  /\ CanEnter /\ ~locked
  /\ k \in Signers(w) /\ w.nonces[k] < MaxNonce
  /\ Dispatch([w EXCEPT !.nonces[k] = @ + 1], w, k, calls, FALSE)
  /\ UNCHANGED <<now, bundle>>

MetaExecute == \E k \in Key, calls \in Batch : Meta(k, calls)

MetaTransfer ==
  \E k \in Key, a \in Asset, n \in TransferAmount :
    Meta(k, <<[op |-> "send", asset |-> a, amount |-> n]>>)

(***************************************************************************)
(* User operations.  The EntryPoint validates a bundle, collecting the     *)
(* fees, and then executes it; it is not reentrant.  A key that is limited *)
(* or has to wait pays only through the USDC paymaster.  A permit to the   *)
(* paymaster may ride along when ERC-1271 accepts the key.                 *)
(***************************************************************************)
CanSignMessages(s, k) == s.role[k] = "owner" /\ s.coldDelay = 0

PayInEth(fee) ==
  /\ w.balance[ETH] >= fee
  /\ w' = [w EXCEPT !.balance[ETH] = @ - fee]

\* Mutant: the fee is not held against the allowance.
PayInUsdcUnchecked(k, fee, permit) ==
  LET standing == IF permit THEN GAS_ALLOWANCE ELSE w.gasAllowance IN
    /\ permit => CanSignMessages(w, k)
    /\ fee <= w.balance[USDC]
    /\ w' = [w EXCEPT !.balance[USDC] = @ - fee, !.gasAllowance = standing - fee]

PayInUsdc(k, fee, permit) ==
  LET standing == IF permit THEN GAS_ALLOWANCE ELSE w.gasAllowance IN
    /\ permit => CanSignMessages(w, k)
    /\ fee <= standing /\ fee <= w.balance[USDC]
    /\ w' = [w EXCEPT !.balance[USDC] = @ - fee, !.gasAllowance = standing - fee]

ValidateUserOp(k, calls, sponsored, permit, fee) ==
  /\ BetweenTransactions /\ bundle.open /\ Len(bundle.ops) < MaxBundle
  /\ k \in Signers(w)
  /\ \/ sponsored /\ PayInUsdc(k, fee, permit)
     \/ ~sponsored /\ ~permit /\ CanSignMessages(w, k) /\ PayInEth(fee)
  /\ bundle' = [bundle EXCEPT
       !.ops = Append(@, [who |-> k, calls |-> calls, sponsored |-> sponsored])]
  /\ UNCHANGED <<now, actor, locked, stack, g>>

NextOp == bundle.ops[1]

BundleAdvances ==
  bundle' = [open |-> Len(bundle.ops) = 1, ops |-> Tail(bundle.ops)]

ExecuteUserOp ==
  /\ BetweenTransactions /\ bundle.ops # <<>>
  /\ NextOp.who \in Signers(w)
  /\ Dispatch(w, w, NextOp.who, NextOp.calls, NextOp.sponsored)
  /\ BundleAdvances
  /\ UNCHANGED now

\* UnknownSigner (removed by an earlier operation of the bundle), WalletFrozen, or
\* a gas limit too low for the call: the fee is spent all the same.
UserOpFails ==
  /\ BetweenTransactions /\ bundle.ops # <<>>
  /\ BundleAdvances
  /\ UNCHANGED <<now, w, actor, locked, stack, g>>

-----------------------------------------------------------------------------
(***************************************************************************)
(* What anyone, and what a guardian, may call directly.                    *)
(***************************************************************************)
\* Mutant: _actor is not set to the key that queued the action.
StartQueuedAnonymous(id) ==
  /\ w' = Dequeue(w, id)
  /\ actor' = actor
  /\ g' = [g EXCEPT !.runs[id] = @ + 1]

StartQueued(id) ==
  /\ w' = Dequeue(w, id)
  /\ actor' = w.queued[id].proposer
  /\ g' = [g EXCEPT !.runs[id] = @ + 1]

QueuedFrame(id) ==
  Frame("queued", w.queued[id].proposer, w.queued[id].calls, <<>>, FALSE)

ExecuteQueued ==
  \E id \in QueueId :
    /\ CanEnter /\ CanRun(w, id, now)
    /\ StartQueued(id)
    /\ Enter(QueuedFrame(id), w)
    /\ UNCHANGED <<now, locked, bundle>>

GuardianCancel ==
  \E id \in QueueId :
    /\ CanEnter /\ w.guardians # {} /\ w.queued[id].executeAfter # 0
    /\ w' = Dequeue(w, id)
    /\ UNCHANGED <<now, actor, locked, stack, bundle, g>>

GuardianFreeze ==
  /\ CanEnter /\ w.guardians # {}
  /\ w' = Freeze(w, now)
  /\ UNCHANGED <<now, actor, locked, stack, bundle, g>>

StartRecovery ==
  \E gd \in w.guardians, k \in Key \ Signers(w), old \in Signers(w) \cup {NoOne} :
    /\ CanEnter
    /\ w' = [w EXCEPT !.recovery = [replaces |-> old, key |-> k, proposer |-> gd,
                                    executeAfter |-> now + w.recoveryDelay]]
    /\ g' = [g EXCEPT !.quiet = TRUE]
    /\ UNCHANGED <<now, actor, locked, stack, bundle>>

\* Mutant: the delay is not checked.
FinalizeRecoveryEarly ==
  LET r == w.recovery
      s == CancelRecovery(w)
  IN  /\ CanEnter /\ ~locked
      /\ r.executeAfter # 0
      /\ r.key \notin Signers(w) /\ r.replaces \notin Signers(w)
      /\ w' = AddSigner(s, r.key, "owner")
      /\ UNCHANGED <<now, actor, locked, stack, bundle, g>>

\* The replaced key may have gone since the proposal: then the new key is an owner.
FinalizeRecovery ==
  LET r == w.recovery
      s == CancelRecovery(w)
  IN  /\ CanEnter /\ ~locked
      /\ r.executeAfter # 0 /\ now >= r.executeAfter
      /\ r.key \notin Signers(w)
      /\ \/ /\ r.replaces \in Signers(w)
            /\ w' = RemoveSigner(AddSigner(s, r.key, w.role[r.replaces]), r.replaces)
         \/ /\ r.replaces \notin Signers(w)
            /\ w' = AddSigner(s, r.key, "owner")
      /\ NoteOrphans
      /\ UNCHANGED <<now, actor, locked, stack, bundle>>

(***************************************************************************)
(* The world around the wallet: ETH and tokens arrive; a token or an order *)
(* book that asks isValidSignature moves what an owner signed away.        *)
(***************************************************************************)
Receive ==
  \E a \in Asset :
    /\ CanEnter /\ w.balance[a] < Holding[a]
    /\ w' = [w EXCEPT !.balance[a] = @ + 1]
    /\ UNCHANGED <<now, actor, locked, stack, bundle, g>>

SignedPull ==
  \E k \in Key, a \in Asset \ {ETH}, n \in TransferAmount :
    /\ CanEnter /\ CanSignMessages(w, k) /\ n <= w.balance[a]
    /\ w' = [w EXCEPT !.balance[a] = @ - n]
    /\ UNCHANGED <<now, actor, locked, stack, bundle, g>>

Tick ==
  /\ BetweenTransactions /\ bundle.ops = <<>> /\ now < MaxTime
  /\ now' = now + 1
  /\ UNCHANGED <<w, actor, locked, stack, bundle, g>>

-----------------------------------------------------------------------------
(***************************************************************************)
(* The running batch.                                                      *)
(***************************************************************************)
Charging == Running /\ Top.charge # <<>>
Calling == Running /\ Top.charge = <<>> /\ Top.calls # <<>>
NextCharge == Top.charge[1]
NextCall == Top.calls[1]

\* A spender's calls are all charged before the first one runs.
CanCharge(c) ==
  /\ SpenderCall(w, c, Top.who)
  /\ c.op = "send" => CanSpend(w, Top.who, c.asset, Cost(c), now)

Charge ==
  /\ Charging /\ CanCharge(NextCharge)
  /\ \/ NextCharge.op # "send" /\ w' = w
     \/ /\ NextCharge.op = "send"
        /\ w' = Spend(w, Top.who, NextCharge.asset, Cost(NextCharge), now)
  /\ stack' = [stack EXCEPT ![Len(stack)].charge = Tail(@)]
  /\ UNCHANGED <<now, actor, locked, bundle, g>>

(***************************************************************************)
(* The checks of each self-call: a call that fails one reverts.            *)
(***************************************************************************)
Allowed(c) ==
  /\ c.op = "send" => c.amount <= w.balance[c.asset]
  /\ c.op = "addSigner" => c.key \notin Signers(w)
  /\ c.op = "updateSigner" =>
       c.key \in Signers(w) /\ ~(IsLastOwner(w, c.key) /\ c.role # "owner")
  /\ c.op = "removeSigner" => c.key \in Signers(w) /\ ~IsLastOwner(w, c.key)
  /\ c.op = "setLimit" => c.key \in Signers(w)
  /\ c.op = "setGuardians" =>
       /\ c.delay <= MAX_RECOVERY_DELAY
       /\ c.guardians # {} => c.delay >= MIN_RECOVERY_DELAY
  /\ c.op = "setColdDelay" =>
       c.delay = 0 \/ c.delay \in MIN_RECOVERY_DELAY .. MAX_COLD_DELAY
  /\ c.op \in {"cancelQueued", "skipWait"} => w.queued[c.id].executeAfter # 0
  /\ c.op = "skipWait" =>
       /\ ~w.noTwoKeySkip
       /\ actor \in Signers(w) \ {w.queued[c.id].proposer}
  /\ c.op = "executeQueued" => CanRun(w, c.id, now)

SelfCall(c) ==
  \/ c.op = "addSigner" /\ w' = AddSigner(w, c.key, c.role)
  \/ c.op = "updateSigner" /\ w' = UpdateSigner(w, c.key, c.role)
  \/ c.op = "removeSigner" /\ w' = RemoveSigner(w, c.key)
  \/ c.op = "setLimit" /\ w' = SetLimit(w, c.key, c.asset, c.limit)
  \/ c.op = "setGuardians" /\ w' = SetGuardians(w, c.guardians, c.delay)
  \/ c.op = "cancelRecovery" /\ w' = CancelRecovery(w)
  \/ c.op = "setColdDelay" /\ w' = [w EXCEPT !.coldDelay = c.delay]
  \/ c.op = "setNoTwoKeySkip" /\ w' = [w EXCEPT !.noTwoKeySkip = c.off]
  \/ c.op = "cancelQueued" /\ w' = Dequeue(w, c.id)
  \/ c.op = "freeze" /\ w' = Freeze(w, now)
  \/ c.op = "unfreeze" /\ w' = [w EXCEPT !.frozenUntil = 0]

RunSelfCall ==
  /\ Calling /\ Allowed(NextCall) /\ SelfCall(NextCall)
  /\ NoteOrphans
  /\ Advance
  /\ UNCHANGED <<now, actor, locked, bundle>>

\* The second key lets a queued action run now.
SkipWait ==
  /\ Calling /\ NextCall.op = "skipWait" /\ Allowed(NextCall)
  /\ w' = [w EXCEPT !.queued[NextCall.id].executeAfter = now]
  /\ g' = [g EXCEPT !.cosigner[NextCall.id] = Top.who]
  /\ Advance
  /\ UNCHANGED <<now, actor, locked, bundle>>

\* A batch runs a ready queued action: its calls run before the rest of the batch.
RunQueued ==
  /\ Calling /\ NextCall.op = "executeQueued" /\ Allowed(NextCall)
  /\ StartQueued(NextCall.id)
  /\ stack' = Append([stack EXCEPT ![Len(stack)].calls = Tail(@)],
                     QueuedFrame(NextCall.id))
  /\ UNCHANGED <<now, locked, bundle>>

\* Value or a call leaves for an outside address, whose code may enter again
\* (only below MaxDepth frames) before it returns.
CallOutside ==
  /\ Calling /\ NextCall.op \in {"send", "call"} /\ Allowed(NextCall)
  /\ \/ NextCall.op = "call" /\ w' = w
     \/ /\ NextCall.op = "send"
        /\ w' = [w EXCEPT !.balance[NextCall.asset] = @ - NextCall.amount]
  /\ \/ Advance
     \/ /\ Len(stack) < MaxDepth
        /\ stack' = Append([stack EXCEPT ![Len(stack)].calls = Tail(@)],
                           Outside(<<>>))
  /\ UNCHANGED <<now, actor, locked, bundle, g>>

CalleeReturns ==
  /\ Top.kind = "outside" /\ ~BetweenTransactions
  /\ Leave
  /\ UNCHANGED <<now, w, actor, locked, bundle, g>>

\* The batch is done: a sponsored operation refills the paymaster's allowance.
Return ==
  /\ Running /\ Top.charge = <<>> /\ Top.calls = <<>>
  /\ \/ Top.kind = "queued" /\ actor' = Top.outer /\ UNCHANGED <<w, locked>>
     \/ /\ Top.kind = "dispatch" /\ actor' = NoOne /\ locked' = FALSE
        /\ w' = IF Top.sponsored THEN RefillGas(w, Top.who, now) ELSE w
  /\ Leave
  /\ UNCHANGED <<now, bundle, g>>

Fails ==
  \/ Charging /\ ~CanCharge(NextCharge)
  \/ Calling /\ ~Allowed(NextCall)
  \/ Top.kind = "outside" /\ ~BetweenTransactions   \* the callee reverts

Revert ==
  /\ Fails
  /\ \E n \in 1 .. Len(stack) - 1 :
       /\ stack[n].kind = "outside"
       /\ \A m \in n + 1 .. Len(stack) - 1 : stack[m].kind # "outside"
       /\ LET undo == stack[n].saved[1] IN
            /\ w' = undo.w /\ actor' = undo.actor
            /\ locked' = undo.locked /\ g' = undo.g
       /\ stack' = Truncate(n)
  /\ UNCHANGED <<now, bundle>>

-----------------------------------------------------------------------------
UserOp ==
  \E k \in Key, calls \in Batch, sponsored, permit \in BOOLEAN, fee \in Fee :
    ValidateUserOp(k, calls, sponsored, permit, fee)

Enters ==
  \/ MetaExecute \/ MetaTransfer
  \/ UserOp \/ ExecuteUserOp \/ UserOpFails
  \/ ExecuteQueued \/ GuardianCancel \/ GuardianFreeze
  \/ StartRecovery \/ FinalizeRecovery

Runs ==
  \/ Charge \/ RunSelfCall \/ SkipWait \/ RunQueued \/ CallOutside
  \/ CalleeReturns \/ Return \/ Revert

World == Receive \/ SignedPull \/ Tick

Next == Enters \/ Runs \/ World

Spec == Init /\ [][Next]_vars

-----------------------------------------------------------------------------
(***************************************************************************)
(* Properties.                                                             *)
(***************************************************************************)

\* The number the code keeps to refuse the loss of the last owner (LastOwner) is
\* the number of owners, at every step of every batch, and never falls to zero:
\* some key can always sign for the wallet.
OwnersCounted ==
  w.ownerCount = Cardinality(Owners(w)) /\ w.ownerCount >= 1

\* Whatever runs inside whatever, a self-call is never attributed to a key other
\* than the one whose batch it is in: _actor is that key, or nobody after an inner
\* dispatch reset it.
ActorIsAuthor ==
  Running => actor \in {Top.who, NoOne}

\* A pending recovery can still be traced to a current guardian, falls due within
\* the current recovery delay, and no owner has signed anything since it was
\* proposed ("any owner action cancels it").
PendingRecoveryIsLive ==
  w.recovery.executeAfter # 0 =>
    /\ w.recovery.proposer \in w.guardians
    /\ w.recovery.executeAfter <= now + w.recoveryDelay
    /\ g.quiet

\* A key that is not a signer has no limit left to spend, so adding it back never
\* revives one.
StrangersHaveNoLimit ==
  \A k \in Key \ Signers(w), a \in Asset : w.allowance[k][a].limit = 0

\* executeQueued: "Dropped if the key that queued it has since been removed".
OrphansNeverRun ==
  \A i \in g.orphaned : g.runs[i] = 0

(***************************************************************************)
(* The wallet keeps the promise of ColdStorage.tla, seen from between the  *)
(* transactions: a running one has changed nothing yet.                    *)
(***************************************************************************)
Committed ==
  IF BetweenTransactions THEN [w |-> w, actor |-> actor, locked |-> locked, g |-> g]
  ELSE stack[1].saved[1]

\* What the promise is about, of storage s.
Shown(s) ==
  [role |-> s.role,
   limit |-> [k \in Key |-> [a \in Asset |-> s.allowance[k][a].limit]],
   guardians |-> s.guardians, recoveryDelay |-> s.recoveryDelay,
   coldDelay |-> s.coldDelay, frozenUntil |-> s.frozenUntil,
   noTwoKeySkip |-> s.noTwoKeySkip,
   balance |-> s.balance, gas |-> s.gasAllowance]

Announced(s) ==
  [i \in QueueId |-> [due |-> s.queued[i].executeAfter, by |-> s.queued[i].proposer]]

Promise == INSTANCE ColdStorage WITH
  Id <- QueueId,
  wallet <- Shown(Committed.w),
  pending <- Announced(Committed.w),
  cosigner <- Committed.g.cosigner,
  runs <- Committed.g.runs,
  proposal <- Committed.w.recovery.executeAfter

\* docs/COLD-STORAGE.md, "The one idea": with a cold delay, whatever weakens the
\* wallet or moves more than a limit was announced a cold delay ago, or wanted by
\* two keys, or is a recovery that waited; no action runs twice.
KeepsPromise == Promise!Spec

\* A transaction that began with a spender's batch ends, or fails.
SpenderIsDone ==
  Len(stack) = 2 /\ Len(stack') = 1 /\ Committed.w.role[Top.who] = "spender"

Used(s, k, a) == IF WindowOver(s.allowance[k][a], now) THEN 0 ELSE s.allowance[k][a].spent

\* n of asset a was left of k's allowance, and counts against it from now on.
ChargedTo(k, a, n) ==
  n > 0 =>
    /\ CanSpend(Committed.w, k, a, n, now)
    /\ \/ Committed'.w.role[k] = "none"
       \/ Used(Committed'.w, k, a) >= Used(Committed.w, k, a) + n

WithinItsLimit(k) ==
  /\ Promise!Protected
  /\ Owners(Committed.w) \subseteq Owners(Committed'.w)
  /\ \A a \in Asset :
       Committed.w.coldDelay # 0 \/ a = ETH => ChargedTo(k, a, Promise!Leaves(a))
  /\ ChargedTo(k, USDC, Committed'.w.gasAllowance - Committed.w.gasAllowance)

\* "Spenders may move an asset only up to the rolling 24h limit an owner set for
\* them on it": in any wallet, whatever the contracts that a batch pays come back to
\* do between its charge and its last transfer, a spender's transaction changes no
\* rule, and what leaves (without a cold delay, when an owner's signature may move
\* tokens too: the ETH), or may leave as gas, was charged to that one key; unless an
\* action that had been announced ran in it.
SpenderKeepsToItsLimit ==
  [][SpenderIsDone => Promise!Waited \/ WithinItsLimit(Top.who)]_vars
=============================================================================
