# InstantWallet verification

TLA+ models of the instant-wallet repository, the TLC configurations that
check them on small instances, and TLAPS proofs for any instance.  Paths are
relative to the repository's root.

## The system

| Part | Where | State it keeps | Operations | Talks to | Module |
|---|---|---|---|---|---|
| InstantWallet | `packages/foundry/contracts/InstantWallet.sol` | signers and roles, limits, guardians and a pending recovery, cold delay, freeze, queue, nonces; transient `_actor` and reentrancy guard | metaExecute, metaTransfer, user operations, executeQueued, recovery, guardian calls, self-calls of a batch | EntryPoint, paymaster, guardians, any contract it calls (which may call back) | InstantWallet, KeyRing |
| Drops | `web/lib/drops.ts`, `web/app/api/drop/` | KV: settings, holds, count, log; chain: the pot | claim, settings, take back | KV store, relay key, chain | Drops |
| Relay | `web/app/api/safe/relay/route.ts`, `web/lib/safe/relayGuard.ts` | KV: marks, locks, refusals, last nonces | relay a signed transaction, pay a claim | KV store, RPC, chain | Relay |
| Device queue | `packages/nextjs/services/`, `app/api/requests/`, `firmware/wallet.py` | KV or a file: requests with a nonce, a deadline and a status; the device: what it has dealt with | create, list, sign, reject, expire, relay | the device, the browser, the chain | DeviceQueue |
| Safe queue | `web/app/api/safe/queue/route.ts` | KV: one JSON value of waiting transactions per Safe, one of dropped ones | add signatures, list, delete | pages of a Safe's owners | SafeQueue |
| Safe sends | `web/lib/safe/send.ts`, `share.ts` | browser storage | pick a number, sign, share, reject, execute | Safe queue, chain | SafeQueue |
| Alerts | `web/lib/alerts.ts`, `web/app/api/alerts/` | KV: contacts per wallet, wallets to watch, what was told | change contacts, link a chat, check for recoveries | chain, mail, Telegram, push services | Alerts |
| HybridPQSigner, SphincsC11Asm | `packages/foundry/contracts/pq/` | rolling hash key, index, transient mark | prove, isValidSignature | Safe, the device | - |
| Factory, RelayTip | `packages/foundry/contracts/` | none | createWallet; sweep | | - |
| Pending signatures, browser wallet, claim cards, swaps, prices, UI, firmware apps, emulator, hardware | `web/lib/`, `web/components/`, `firmware/`, `emu/`, `hardware/` | browser storage, or none | | | - |

What is hard in each, and what makes it correct:

* **InstantWallet.**  A batch runs arbitrary calls one after the other; a
  callee can enter the wallet again; reverts undo part of a transaction; a
  bundle validates every operation before it executes the first; guardians,
  owners, spenders and strangers act in any order around three kinds of wait.
  Correct: with a cold delay nothing that weakens the wallet happens without a
  wait or a second key; nothing queued runs twice; a call is never attributed
  to a key that did not author it; an owner is always left; limits die with
  their keys; a pending recovery is void as soon as an owner acts.
* **Drops.**  Concurrent requests on a server that may be stopped at any
  `await`; a chain that lands transactions later or never; settings written
  back whole.  Correct: a hold (a card's code, a wallet's place) is paid once,
  the cap is kept, failures give back what they took, and a claim made after an
  end that no open session can undo is not paid.
* **Relay.**  One key that many handlers send from: the lock runs out while
  its holder is still at work, nodes lag, a broadcast's answer is lost, the
  revert that should ban a wallet is seen only after the response.  Correct:
  one send at a time, no nonce used twice, none left out, nothing signed is
  sent twice.
* **Device queue.**  Nonces are handed out ahead of the chain by counting the
  requests in flight; a status is read, awaited on, then overwritten; posts get
  lost and the device restarts.  Correct: nothing runs that was not approved on
  the device, nothing twice, nothing that is over and that nobody is sending;
  what is called confirmed ran; every request ends.
* **Safe queue and sends.**  POST, GET and DELETE read a JSON value and write
  it back whole; a page numbers its send from a list that moves on.  Correct:
  signatures are not lost, what was removed stays removed, a send is numbered
  after everything the queue had when its page looked.
* **Alerts.**  Contacts are read, messages sent, and the contacts written back;
  the list of wallets to watch is a second key.  Correct: a wallet with
  contacts is watched, no contact goes without having been told, a recovery
  reaches every contact.
* **HybridPQSigner.**  The device's idea of the key index and the chain's part
  when a proof is lost.

## Modules

```
WalletStorage         InstantWallet.sol's storage and its pure functions
  InstantWallet         the contract as a machine of frames; refines ColdStorage
    MCInstantWallet       batches and keys for TLC
    InstantWalletProofs   type correctness, owners, limits, recovery, authors
      PromiseProofs         the refinement of ColdStorage
ColdStorage           what the wallet promises its owner, one step a transaction
KeyRing               arrays, mappings and daily windows behind keys and limits
  MCKeyRing, KeyRingProofs
Drops                 a drop's claims, settings and pot, call by call
  MCDrops, DropsProofs
Relay                 one key, many senders: locks, marks, nonces
  RelayProofs
DeviceQueue           requests on their way to the chain; refines DeviceLedger
  DeviceQueueProofs     with the refinement
DeviceLedger          what the queue owes the holder of the device
SafeQueue             a Safe's waiting transactions, and its owners' pages
  MCSafeQueue, SafeQueueProofs
Alerts                contacts, the list of watched wallets, checks
  AlertsProofs
```

In all of the server's modules a handler is a record with the point it has
reached; one `await` is one step, and handlers interleave between their steps.
Steps that nobody else can tell apart are joined, where the module says so.

### WalletStorage, InstantWallet

`w` is the contract's storage as a record with the source's names, plus the
balances and the paymaster's allowance.  `role[k] = "none"` stands for a key
that is not in `_signerIds`; arrays are left to KeyRing.  Keys are model
values, a signature is the choice of a key that signs, and a batch is one of
the sequences of calls the configuration allows.

`stack` is the running transaction.  The bottom frame is its sender; an entry
point (`MetaExecute`, `MetaTransfer`, `ExecuteUserOp`, `ExecuteQueued`, ...)
pushes a frame with the calls still to run, checked in the order of
`_dispatch`; each call is a step (`Charge`, `RunSelfCall`, `SkipWait`,
`RunQueued`, `CallOutside`).  A call to an outside contract may push an
"outside" frame, from which every entry point can be entered again.  `Revert`
goes back to the copy taken at the last entry from outside, as the EVM does.
`bundle` holds validated user operations that wait for their execution.  A
user operation's validation, fee and permit happen while no frame runs, its
execution later: keys may be gone by then.

`g` is history that only properties read: how often a queued action ran, who
really skipped its wait, whether an owner signed since a proposal, and which
actions lost their proposer.

### ColdStorage

The sentence "Anything that weakens the wallet is slow. Anything that protects
it is instant" (docs/COLD-STORAGE.md) as a specification with one step per
transaction.  A transaction either leaves the wallet as protected as it was
and takes out at most one spender's limit (`Alone`), or runs an announced
action that was due or co-signed (`Waited`), or belongs to a wallet without a
cold delay (`Simple`), or is a recovery that waited (`Recover`), or pays gas
(`FeeOrPermit`).  `InstantWallet!KeepsPromise` maps the state at the last
point between transactions onto it; three runs check it and PromiseProofs
proves it.  `Simple` allows a wallet without a cold delay everything, a
spender too, so `SpenderKeepsToItsLimit` says of a spender's transaction in
any wallet what ColdStorage says only of a protected one.  Its limit on tokens
holds with a cold delay only: without one, an owner's signature may move
tokens in the middle of a spender's batch, and the model does not tell whose
call moved them.  The ETH and the gas allowance have no such second way out.

The third case of `WithinOneLimit` came out of the proof: in a frozen wallet
without a cold delay a contract that a batch calls may use what an owner signed
for a token (ERC-1271 does not look at the freeze), so tokens may leave in a
transaction that is otherwise harmless; never ETH, and the gas allowance does
not grow.  The run `reentry` fails without that case.

### KeyRing

The swap-and-pop arrays with their one-based mappings, and the fixed windows of
allowances over several days.  `sent` and `peak` are history.

### Drops

`claim` cut at every `await`: `Read` (byCode), `Admit` (closed), `Reserve`
(SET NX), `Count` (INCR and the second look at the cap), `CheckPot`, `Send`,
`Landed`, `Record`, `Log`, and for a failure `Free` (DEL) and `Uncount`
(DECR).  `snap` is the copy of the settings a request, or a giver, read
before.  `Crash` stops a request anywhere, as a server's time limit or a
failed call to the store does; "lost answer" is a send whose transaction goes
out while the sender sees an error, which also stands for the store refusing
the pot's nonce right after the send.  The chain pays a transfer from what the
pot holds when it lands, in any order.  Amounts are whole claims; `Card` is
the set of codes that `createDrop` made, at most `Cap`.

A giver's session reads the whole drop (`OpenDrop`), changes it and writes it
back (`UpdateDrop`).  Of two sessions, one that read before the end and saves
after it reopens the drop, and claims are paid again.  So `EndedPaysNoOne` does
not start at the end but at `EndedForGood`: the drop has ended and no session
holds it as it was before.  `BooksBalance` looks at moments with no claim under
way: then the count and the holds are those of the logged claims and of the
ones that stopped on their way, and, if no answer was lost, no other claim's
transfer is out.  It says nothing of what the pot should hold.

### Relay

What happens between a post and the chain, for one of two keys: the relay's,
whose nonce is the node's pending count, and a pot's, which also remembers its
last nonce for an hour (`NonceOf`).  A post goes through `Admit`, `Estimate`,
`Once` (the mark of an hour), `Takes` or `GivesUp` (withLock), `PickNonce`,
`Broadcast`, `Note`, `Unlock` and, after its answer, `Confirmed`, `Reverted` or
`StopsWatching`; a claim of a drop starts at the lock.  `slot` is the
transaction broadcast at each nonce, `mined` the chain's nonce.  `LockExpires`
may come while its holder is still inside; that is the fault "slow".  `Lags` is
a node that misses some of what was broadcast in this hour.

### DeviceQueue, DeviceLedger

`status` and `body` are the store's rows; `calls` are the handlers of
`api/requests` (create, list, sign, reject), `tx` the transactions they sent,
`nonce` the wallet's on the chain.  There are two clocks: `now` is the servers'
`Date.now()`, by which a row is expired and a late signature refused;
`blockTime` is the time of the latest block, by which the contract refuses a
transaction after its deadline.  Each moves on its own, so blocks may lag behind
the servers or run ahead of them.  `dev` is the device: its screen, the call
it waits for and, in `seen`, the requests it will not show again before it
restarts.  Every list first expires what is stale (`ExpireOne`), one await per
row.  `PickNonce` is the chain's nonce plus what `CountInFlight` found.  A
signature that arrives is checked (`Verify`), marked relaying, sent, and the
outcome patched (`Receipt`); a failure also fails what was made after it
(`FailLater`).  The faults are a stopped server, a lost post, a device that
stops waiting or restarts, and a passkey that uses the nonce.

A handler keeps the row's status as it read it, and the chain does not ask the
store: a request whose signature was taken in time can be called expired, or
rejected, and be carried out nevertheless (the first needs blocks that lag).
What holds is `OverStaysOver`: once a request is expired, rejected or failed
while nobody sends it (`Unsent`: no handler with its signature, no transaction
of it in the air), it stays so and is never carried out.

To save states, a new block time comes only while a signature or a transaction
is on its way, as nothing else looks at it; a list or a failure that has made
its last patch answers in the same step; and a device's poll that would find
nothing to expire or to show is left out.

`DeviceLedger` is the promise: asked, approved, done, in this order, each done
request at the nonce it was made for.  `ImplementsLedger` maps the queue's
history and chain onto it.  Done requests are a set, so that a request is not
done twice shows in the nonce: the ledger uses it up with the first landing.

### SafeQueue

`queue` and `dropped` are the two values of `api/safe/queue`, entries as the
set of owners who signed.  GET is `StartGet`, `AskChain`, `DropQueue`,
`DropDropped`; POST is `ReadAndMerge`, `StashMerged`; DELETE is `ReadBoth`,
`StashWithout`, `StashDropped`.  A page looks at the list and numbers a send
(`Look`, `FreshNonce`), opens a link, which carries the signatures of the
browser it comes from (`Open`), signs and shares, rejects, removes, executes.
`clobbered` is history: some handler wrote a value that had changed since it
read it.  Properties that the code keeps only for one handler at a time say so
with `~clobbered`: they do not catch the overwriting itself, which happens (see
below), but that nothing else loses what was taken.  `NumberedAfterTheQueue`
compares a send's number with what the queue had taken before the page began to
look; of two owners who look at once both pick the same number, which nothing
in the code prevents and no property rules out.

### Alerts

`contacts` is the wallet's value, `listed` its place on the list.  A change
decides on the contacts as it reads them (`Decides`) whom to tell first, what
to write and whom to greet; `Telling` and `Onward` then lead it through
notify's messages (`Tell`, `Told`), its pruning of subscriptions that are gone,
and putContacts' two writes (`Set`, `List`).  A check goes `Check`, `Scan`,
then for each recovery `Mark` (once) and `Read`, and tells.  `stale` in a
handler and `torn` are history: the contacts changed under it; two writes
crossed, or one stopped halfway.

## Runs

| Run | Question | Bounds |
|---|---|---|
| cold_rules | Do waits, skips, cancels, freezes, delay changes, fees, permits and refills implement ColdStorage, and does a spender pay for its refills? | 2 keys, 1 queued action, bundles of 2, allowance 1, time 0..3 with delays up to 2: long enough to queue, change the delay, freeze, thaw and run late |
| recovery | Do guardians replace keys only while owners stay silent, and is an owner always left? | 3 keys, 1 guardian, delays up to 2; one more key than signers at the start so that a replacement can clash with an addition |
| reentry | Does any nesting confuse authors, run an action twice, skip a wait, or let a spender take more than its limit, frozen or not? | 2 keys, 2 queued actions (one that reenters, one that is reentered), 3 frames, 3 nonces: enough to queue or freeze, wait, and send; limits of 1 on each asset, a holding of 1 |
| key_ring | Do arrays and mappings stay in step, and what can a key move in a window, and in any day? | 2 keys and 2 assets, symmetric; windows of 2 in times 2 to 5, limits 0 and 1, so that a window closes and another opens |
| orphans (violated) | Is an action dropped when its proposer is removed? | 2 keys, 2 queued actions |
| drop_crash | Is a hold one request's and paid once, is the count the places taken, and is the cap kept, when servers stop? | 3 requests, two of them on one hold, cap 1, a pot of up to 2 |
| drop_edits | Do pending holds settle, and is a claim after the end never paid, while two givers' sessions overwrite each other? | 1 request, 2 sessions, windows of 1 in 2 ticks, so that one closes |
| relay | One send at a time, no nonce twice, none left out, nothing sent twice? | 3 calls, 2 at once, 3 nonces, two signed transactions, one of them a swap, 2 faults, 1 passing hour or day; swaps refused from the second revert on (3 in the code) |
| device | Does the queue implement the ledger, and does every request end? | 2 requests, 2 calls at once, 1 wallet, 1 fault of any of five kinds; the servers' clock is 0, then 2, the blocks' 0, then 2, and a deadline 1 after the servers' time, so that either clock passes it before the other |
| device_nonce (violated) | Does every waiting request have a nonce of its own? | 3 requests, 1 call at a time, no fault |
| safe_queue | What do handlers that interleave, and pages that go on without them, lose? | 2 owners of a 2-of-2, 3 transactions, 2 handlers at once, 7 in all, 1 fault, a queue of 2 and a dropped list of 1, so that both fill |
| alerts | Does the list follow the contacts, does anyone leave untold, is every recovery heard? | an email, a chat, a device (and room for one), 1 recovery, 2 handlers, 2 changes, 1 fault |

Two requests on one hold cover two taps, a retry after a failure and a retry
after a crash; a third on another hold competes for the cap, which is 1, so
every claim is at the limit.  Two handlers are enough for a lost update, an
overstayed lock and a check that overlaps a change; a third only adds to who
may lose, and the proofs below cover any number.  Where the bound leaves a
case out, the proof has it: PUSH_MAX subscriptions are never exceeded with one
device, and `AlertsTyped` proves it for any number; with one email none is
replaced by another, and `NoneIsRemovedUntold` covers that it is told first.

`CHECK_DEADLOCK FALSE` is set where the modelled system may really stop: in
`ColdRules` a wallet with a cold delay whose paymaster allowance is used up
cannot pay for another operation, in `Reentry` the nonces run out, and drops,
requests, relayed calls, the Safe's calls and the changes of contacts are
bounded and all answered at some point.  The other runs check for deadlock.

**Fairness.**  None is assumed for the contract: a chain owes nobody a
transaction, and every property of it is a safety property.

* `Drops!FairSpec`: a request whose server stays up takes its next step, since
  every call it makes (fetch to the store, RPC calls with a timeout, the wait
  of 45 s for a receipt) answers or fails.  The chain and the givers get no
  fairness: `PendingSettles` holds although a transfer may never land.
* `DeviceQueue!FairSpec`: handlers run on, time passes, and pages poll every
  two seconds, so that a poll starts again and again (strong fairness, since
  the places for calls fill and empty).  Nobody owes a press or a landing.
* `Relay!Spec`: handlers run on, the chain mines what is next, the lock's key
  runs out by itself after 20 s.
* `Alerts!Spec`: handlers run on or stop, a check comes every five minutes
  (.github/workflows/alerts.yaml), and a recovery's last day comes.

Handlers that stop are faults, counted and bounded; fairness never forces a
fault or forbids one.

### Where code and comments part

Two sentences are refuted by a run:

* An action whose proposer was removed is not dropped (InstantWallet.sol:571):
  it runs, without a new wait, when the key is added back (orphans).
* Several requests do not always queue (docs/PROTOCOL.md:166): when the first
  of two is rejected, the second and the next share a nonce, and none has the
  one the chain waits for (device_nonce).

Others were met while modelling.  They have no run of their own; the
properties above are stated so as to hold beside them, which means that they
exempt what is listed here (`clobbered`, `torn`, `slow`, a crash, a lost answer)
and say what is left.

* The contract.  The "rolling 24h limit" (InstantWallet.sol:26) is a fixed
  window that opens with a spend: twice the limit can leave within 24 hours,
  and `DayWithinTwoLimits` is what holds.  `isValidSignature` does not look at
  `frozenUntil`, so a permit that an owner signed moves tokens out of a frozen
  wallet without a cold delay (:165 says "nothing leaves").  A wallet with a
  cold delay never refills its gas allowance.  A spender made owner and spender
  again has its old limits back.
* Drops.  A claim that stops between the reservation and the send burns its
  code, and a transfer that goes out while its sender gets an error is paid
  again by a retry (drops.ts:208 says neither happens); `PaidAtMostOnce` and
  `WithinCap` hold, and are proved, for servers that stop but without lost
  answers.  `updateDrop` writes back
  what it read: with two sessions, a pause that was read before the end and
  saved after it reopens the drop.
* Relay.  After any failure past the mark a retry is answered "Already sent."
  for an hour, though nothing was sent (route.ts:185).  A holder slower than
  20 s shares the lock, and then deletes the lock of whoever came after it.
  INCR and EXPIRE are two calls, so a counter may live for good.  A pot's last
  nonce makes it skip a number, for up to an hour, if a chain's pool forgets a
  transaction; this last case is outside the model.
* Device queue.  A row may go from pending straight to failed, and from expired
  or rejected back to relaying, beside the lifecycle of docs/PROTOCOL.md:164: a
  handler that took the signature before goes on.  So a request that the page
  already calls expired or rejected can be carried out; after its deadline it
  takes a block time behind the servers' clock.  A server that stops at
  "relaying" leaves the row there for good, and it counts for every later nonce:
  `EveryRequestEnds` exempts it.
* Safe queue.  Two handlers at once lose signatures and removals they have
  answered ok for; a GET's clean-up is one of them.  Browsers and links keep
  the signatures (`KeptByItsSigner`), nobody keeps the removals.  Removing a
  transaction in the middle leaves a number that no later send fills
  (send.ts:257 means to free it), two owners who number a send at once clash, a
  number is stale if its predecessor is
  executed while the list is fetched, and a full dropped list is an error after
  the queue was already written.
* Alerts.  A greeting to a device that is gone writes back only the greeting's
  contacts, none, so that a new subscription that fails deletes email and chat
  without a word (route.ts:13: "tells the old contacts first").  Two changes at
  once bring back what was turned off, or drop what was added.  A recovery is
  marked before anyone is told, so a lost message is not repeated before the
  last day; two faults lose it.  One that starts with less than a day left gets
  a second alert from the next check, though check/route.ts:21 says "gets one".

## Proofs

| Theorem | Module | Says, for any constants |
|---|---|---|
| TypeCorrect | InstantWalletProofs | `[]TypeOK`: no balance or allowance is drawn below zero, no frame is malformed |
| SomeOwnerIsLeft | InstantWalletProofs | `[]OwnersCounted` |
| NoLimitOutlivesItsKey | InstantWalletProofs | `[]StrangersHaveNoLimit` |
| RecoveryIsLive | InstantWalletProofs | `[]PendingRecoveryIsLive` |
| NoCallIsMisattributed | InstantWalletProofs | `[]ActorIsAuthor` |
| ThePromiseIsKept | PromiseProofs | `KeepsPromise`: the refinement of ColdStorage |
| SpendersKeepToTheirLimits | PromiseProofs | `SpenderKeepsToItsLimit`: in any wallet, what a spender's transaction takes was left of its limits and counts against them |
| RingTyped, ArraysAreSets, ListsAreComplete | KeyRingProofs | `[]TypeOK`, `[]ArraysMatchMappings`, `[]ListedIffLimited` |
| WindowsAreLimited, DaysAreLimited | KeyRingProofs | `[]WindowWithinLimit`, `[]DayWithinTwoLimits`: the sums over a key's history |
| TypesKept, CountIsRight, HoldsAreUnique | DropsProofs | `[]TypeOK`, `[]CountIsPlaces`, `[]HolderIsUnique` |
| NoHoldIsPaidTwice, TheCapIsKept | DropsProofs | `[]PaidAtMostOnce`, `[]WithinCap`, if no answer to a send is lost |
| BooksAreKept | DropsProofs | `[]BooksBalance`: with no claim under way, count, holds and (without lost answers) transfers are those of logged and stopped claims |
| NothingAfterTheEnd | DropsProofs | `EndedPaysNoOne`, for any number of sessions |
| RelayTyped, OneSendAtATime, NoncesAreUsedOnce, NoncesLeaveNoGap, SignedIsSentOnce | RelayProofs | `[]TypeOK`, `[]OneAtATime`, `[]NonceOnce`, `[]NoGap`, `NoReplay`, with every fault |
| QueueTyped, ConfirmedWasCarriedOut, CarriedOutWasApproved, OverIsOver, ApprovedIsShownOnce | DeviceQueueProofs | `[]TypeOK`, `[]ConfirmedRan`, `[]OnlyApprovedRuns`, `OverStaysOver` whatever either clock says, `ShownOnce` |
| QueueImplementsLedger | DeviceQueueProofs | `ImplementsLedger`: the refinement |
| SafeQueueTyped, SignaturesStayHome, TakenSignaturesStay, RemovalsStay, SendsFollowTheQueue | SafeQueueProofs | `[]TypeOK`, `[]KeptByItsSigner`, `[]TakenIsKept`, `[]RemovedStaysHidden`, `[]NumberedAfterTheQueue` |
| AlertsTyped, ContactsStayWatched, NoneIsRemovedUntold | AlertsProofs | `[]TypeOK`, `[]ContactsAreWatched`, `NoneLeavesUntold` |

The assumptions are those the modules declare about their constants
(`IdentityAssumption`, `TimingAssumption`, `BatchAssumption`,
`BoundAssumption`, `KeyRingAssumption`, `DropsAssumption`, `RelayAssumption`,
`QueueAssumption`, `SafeAssumption`, `AlertsAssumption`); TLC evaluates them in
every run.

**The wallet.**  `OwnersCounted`, `StrangersHaveNoLimit` and
`PendingRecoveryIsLive` are about `w`, but a revert replaces `w` by a copy in
some outside frame, so none is inductive alone.  `IInv` demands the same of
every copy on the stack (`SoundStack`), with the proposal's deadline measured
against the present time, which only grows.  One lemma per storage function
says that it keeps a sound wallet sound; the step lemma then has one case per
action.

**Authors.**  `_actor` after a nested frame returns is what the frame below
left, so the invariant carries the author that each frame expects down the
stack (`Authors`): a frame's saved `_actor` is the author of the frame under
it, or nobody.

**The promise.**  A transaction is a stack of frames, any of which can fail
and go back to the copy taken at its entry.  `PromiseInv` therefore speaks of
the storage as it is now and of the copy in each outside frame alike: against
the storage at the transaction's start, the frames up to that point `Stand`.
They stand if an announced action ran that was due or co-signed (`HasWaited`);
or if an owner's batch is lifting a freeze (`Unfreezing`); or if one key has
acted `Alone`: nothing is weakened (`Shielded`), no action ran or lost its
wait (`Kept`), and the batch is either an owner's and protects, or a
spender's, of which every call charged so far is paid for by the allowance
(`Afforded`, `Charged`): what left, and what the charged calls will still
send, is within what the counter holds.  Below a spender's frame an outside
contract may enter again while the wallet is locked; what it can do is
`Disturbed` (cancel, freeze, propose a recovery, pull what was signed for),
and `Alone` survives it.  An owner's frame in an unguarded wallet, one without
a cold delay that is not frozen, stands for nothing; a spender's is bound by
its limits in every wallet.  `StandsBelow` and `StandsAbove` carry the frames
that a step does not touch; each action has one lemma for its own frame; and
when the stack is empty again, `CommitStep` turns what stands into a step of
ColdStorage.  `SpenderCommits` reads the same invariant for one key: a batch
that began as a spender's has stayed one (`Bound`), so what it took is what
the counter holds more than at the start.  An owner of a guarded wallet never
sends with its own key, so only a spender's limit is left to leave by.

**KeyRing.**  Arrays and mappings are inductive with the types; the heart is a
lemma on one swap and pop, for an array of any length: what is left is the
array without the element, and the mapping points to every element's place.
The signers' array and each signer's assets both cite it.

The windows are sums over what a key sent at each time.  `Meter` says of one
allowance: the counter covers what left since the window began, nothing left
later than the window reaches, and any interval no longer than a window is
within the highest limit if it ends before this window, and within two if not;
spending, renewing the window and lowering or raising the limit keep it.  What
the proof needs of sums (a part is no more than the whole, an update adds its
difference) is shown for any finite set through the least element of a set of
numbers, which replaces an induction.

**Drops.**  `HolderIsUnique` is restated request by request (`Held`, `Alone`,
`Backed`, `Told`); a move that stays within the holders keeps it, and the three
calls that write a hold change the hold and its holder together.  A transfer
is live only while its request is between the send and the end of its claim
(`LiveIsSent`), which fails exactly at a lost answer.  Holders are distinct, so
payments are; for a crowd the INCR admits at most `Cap` (`CrowdFits`), for
cards the holds are codes that were made (`OnlyCards`), of which there are at
most `Cap`: an injection from live transfers to codes.  A request is in the log
from the step that calls it claimed (`Logged`), so with no claim under way the
places and holds in use belong to the log or to stopped claims.  `EndedForGood`
is inductive by itself: every session that is left, and every one that opens the
drop from then on, has an ended drop to write back.  A request that begins then
is `TurnedAway`: what it reads has ended, so `Admit` refuses it.

**Relay.**  `Alone` is mutual exclusion without a slow holder.  The used nonces
are a prefix (`Contiguous`), and what a handler inside has picked is no further
than its end (`Reached`), which gives `NoGap`; without lag it is the first free
one (`FreeNonce`), for a pot also by its last nonce (`Noted`), which gives
`NonceOnce`.  `NoReplay` follows from `Marked`, `Unsent` and `Remembered`: what
was sent carries its mark for the hour, and what was caught is refused for the
day.

**DeviceQueue.**  `Made` bounds ids, `CallsOK` says what each point of a
handler has already checked, `RanOK` that what ran was approved at a nonce now
used up, `ConfirmedRan` that a confirmed row ran, `DeviceOK` that everything
approved stays seen until a restart.  `OverStaysOver` needs that a signature is
taken up only for a pending row (`OnlyPendingTakenUp`), that only its holder
sends (`OnlySignersSend`) and that nobody else revives a row
(`OverIsNotUndone`); deadlines and clocks play no part.  For the refinement, a landing
is `CarryOut`, a press is `Approve`, a row's creation is `Ask`; all else
stutters.

**SafeQueue.**  Two sides change apart: the page's (`Tabs`, who waits for which
call) and the store's (`Handlers`: what a handler holds is current unless
marked stale, and what it decided to drop had passed).  `Linked` ties them.
Each action is proved for the side it moves, and one lemma keeps the other.
The maximum of a set, `FreshNonce`, is bounded by `MaxOfBounded`.

**Alerts.**  `Good` says of one handler what it knows: of any handler, that
what it writes before its change is only contacts it told, and that it greets
nobody, one contact, or what it just wrote (`Own`); of one that nobody
overtook, that everything its change takes away has been told or is about to
be, or is a device (`Fresh`).  A write by another handler turns `Fresh` off
through `stale`; a handler between its two writes whose value is no longer the
one written implies `torn`, so that the last one alone restores the list.

**Only model-checked.**  The liveness properties `PendingSettles`,
`EveryRequestEnds`, `LockComesFree` and `EveryRecoveryIsHeard`: liveness under
fairness, like ENABLED, is beyond the prover.  Every other property of a run
is proved.  Induction over data is beyond the prover too where the library
states it for a predicate; the sums of KeyRing go around it, as said above.
`TypeOK` of KeyRing, Drops, DeviceQueue, Relay and Alerts is proved, as part of
their inductive invariants, and no run checks it.

## Not modelled, and what is left

Left out of InstantWallet: `upgradeToAndCall` (it replaces the code that is
modelled), hashing and signature schemes (a key that signs is chosen), the
`credentialIdToSigner` index.  Left out of Drops: logging in, making a drop,
prices and fees, the hourly limit as a number.  Of Relay: the shapes of the
calls it takes, quotes, fees and rate limits, transactions that a pool forgets.
Of the device queue: the store's limit of 300 rows, labels and display.  Of the
Safe queue: Safe's own service, the 30 days a value lives, ten signatures a
post, lagging nodes.  Of Alerts: the passkey's signature on a change, channels
that are not set up.

Most of the repository's lines hold no state that steps could disagree about:
screens and their components, generated ABIs and addresses, encodings, price
and portfolio reads, vendored tools, the device's drawing code, printed parts.
They are not modelled, and the share of lines the models stand for stays small
for that reason.  Pending signatures are values written once under a random id
and read once.  SPHINCS+ verification is hashing.

Left, in this order:

1. `HybridPQSigner`: the rolling index on both sides, with proofs that are lost.
2. `SignedMessages`: signed messages that wait in a relayer, nonces per key
   that outlive a removal; composed with WalletStorage.
3. Liveness of the wallet: an owner who keeps trying gets its action through;
   a freeze by guardians ends.
