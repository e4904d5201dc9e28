---------------------------- MODULE DeviceQueue ----------------------------
(***************************************************************************)
(* A wallet's requests on their way to the chain: the page that asks       *)
(* (components/ConfirmSheet.tsx, utils/meta.ts), the server's handlers     *)
(* (services/requests.ts, services/relay.ts, app/api/requests/) over their *)
(* store (services/store.ts), the device that shows the requests and signs *)
(* (firmware/wallet.py), and the wallet's nonce on the chain.              *)
(*                                                                         *)
(* Every HTTP call in progress is a member of Call; one `await' of its     *)
(* handler is one step, so handlers interleave wherever the code lets      *)
(* them.  patchRequest's read and write are one step, at the write: it     *)
(* sets the status whatever it read.  Request numbers stand for ids and    *)
(* grow with createdAt.                                                    *)
(***************************************************************************)
EXTENDS Integers, FiniteSets

CONSTANTS
  MaxMade,     \* bound: requests ever made; below the 300 rows the store keeps
  Wallet,
  MaxCalls,    \* bound: HTTP calls in progress, and transactions in the air, at once
  TTL,         \* DEADLINE_SECONDS
  None,        \* no wallet
  MaxFaults,   \* bound: kinds of Trouble, each of which comes once
  ServerTime,  \* bound: the times at which something happens on a server
  BlockTime    \* bound: the times that blocks have

ASSUME QueueAssumption ==
  /\ MaxMade \in Nat /\ MaxCalls \in Nat /\ TTL \in Nat \ {0}
  /\ MaxFaults \in Nat
  /\ ServerTime \subseteq Nat /\ BlockTime \subseteq Nat
  /\ None \notin Wallet

Request == 1..MaxMade
Call == 1..MaxCalls

InFlightStatus == {"pending", "signed", "relaying"}
Terminal == {"confirmed", "failed", "rejected", "expired"}
Status == {"absent"} \cup InFlightStatus \cup Terminal

Trouble == {"passkey", "crash", "lost", "timeout", "restart"}

VARIABLES
  status,   \* the store: each request's status, "absent" = not made yet
  body,     \* the rest of its row: wallet, nonce, deadline
  last,     \* the last request made
  pairing,  \* iw:<chain>:pairings: the wallet the device's key is paired with
  calls,    \* the calls in progress, each at a point of its handler
  tx,       \* the transaction each call sent
  nonce,    \* chain: wallet-wide, one up for every successful meta call
  blockTime, \* chain: the time of its latest block
  now,      \* the servers' clock
  dev,      \* the device
  seen,     \* the device: the requests it has dealt with since it started
  yes,      \* history: requests approved on the device
  ran,      \* history: requests carried out on the chain
  faults    \* history: what has gone wrong

store == <<status, body, last, pairing>>
chain == <<tx, nonce, blockTime>>
device == <<dev, seen, yes>>
vars == <<store, calls, chain, now, device, ran, faults>>

NoCall == [kind |-> "none", at |-> "idle", req |-> 0, wallet |-> None,
           n |-> 0, due |-> 0, todo |-> {}]
NoTx == [state |-> "none", req |-> 0]
Booted == [screen |-> "home", req |-> 0, wallet |-> None,
           call |-> 0]

Points == {"idle", "late", "start", "expire", "listed", "flight", "nonce", "put",
           "signed", "relaying", "sent", "broken", "failing", "behind"}

Row == [wallet : Wallet \cup {None}, nonce : Nat, deadline : Nat]
HttpCall == [kind : {"none", "create", "list", "sign", "reject"}, at : Points,
             req : {0} \cup Request, wallet : Wallet \cup {None},
             n : Nat, due : Nat, todo : SUBSET Request]
Transaction == [state : {"none", "sent", "success", "reverted"}, req : {0} \cup Request]
DeviceState == [screen : {"home", "confirm", "working"}, req : {0} \cup Request,
                wallet : Wallet \cup {None}, call : {0} \cup Call]

TypeOK ==
  /\ status \in [Request -> Status] /\ body \in [Request -> Row]
  /\ last \in {0} \cup Request /\ pairing \in Wallet
  /\ calls \in [Call -> HttpCall] /\ tx \in [Call -> Transaction]
  /\ nonce \in [Wallet -> Nat]
  /\ now \in Nat /\ blockTime \in Nat /\ faults \subseteq Trouble
  /\ dev \in DeviceState
  /\ seen \subseteq Request /\ yes \subseteq Request /\ ran \subseteq Request

Init ==
  /\ status = [r \in Request |-> "absent"]
  /\ body = [r \in Request |-> [wallet |-> None, nonce |-> 0, deadline |-> 0]]
  /\ last = 0
  /\ pairing \in Wallet
  /\ calls = [c \in Call |-> NoCall]
  /\ tx = [c \in Call |-> NoTx]
  /\ nonce = [w \in Wallet |-> 0]
  /\ now = 0 /\ blockTime = 0 /\ faults = {}
  /\ dev = Booted
  /\ seen = {} /\ yes = {} /\ ran = {}

-----------------------------------------------------------------------------
(***************************************************************************)
(* Calls: a client starts one; a step takes it on, or ends it with an      *)
(* answer.  The device waits for the answers to its own.  A call arrives   *)
(* together with its first read of the store or the chain, and one that    *)
(* ends there, having changed nothing, is not begun.                       *)
(***************************************************************************)
Idle == {c \in Call : calls[c] = NoCall}
Free == {c \in Idle : tx[c].state # "sent"}

\* A new call takes the first free place; places have no other meaning.
Start(c, call) ==
  /\ c \in IF Free # {} THEN Free ELSE Idle
  /\ \A d \in IF Free # {} THEN Free ELSE Idle : c <= d
  /\ calls' = [calls EXCEPT ![c] = call]

At(c, kind, point) == calls[c].kind = kind /\ calls[c].at = point
Goes(c, point) == calls' = [calls EXCEPT ![c].at = point]

Waits(c) == dev.call = c

Answer(c) ==
  /\ calls' = [calls EXCEPT ![c] = NoCall]
  /\ dev' = IF Waits(c) THEN [dev EXCEPT !.call = 0, !.screen = "home"] ELSE dev

Keep(c, point) == Goes(c, point) /\ UNCHANGED dev

-----------------------------------------------------------------------------
(***************************************************************************)
(* The store.                                                              *)
(***************************************************************************)
Patch(r, s) == status' = [status EXCEPT ![r] = s]

\* inFlightFor: the requests of a wallet that count for the next nonce.
InFlight(w) == {r \in Request : status[r] \in InFlightStatus /\ body[r].wallet = w}

\* Mutant: the deadline is taken for milliseconds.
StaleInMillis == {r \in Request : status[r] = "pending" /\ body[r].deadline * 1000 < now}

\* What expireStale looks for, by the server's clock.
Stale == {r \in Request : status[r] = "pending" /\ body[r].deadline < now}

\* The requests that a failed one takes down with it.
LaterThan(r) ==
  {q \in Request : /\ body[q].wallet = body[r].wallet
                   /\ status[q] \in {"pending", "signed"}
                   /\ body[q].nonce > body[r].nonce}

Oldest(S) == {r \in S : \A q \in S : r <= q}

-----------------------------------------------------------------------------
(***************************************************************************)
(* expireStale, which lists the stale requests once and then patches each  *)
(* of them, whatever it is by then.  Lists and creations begin with it.    *)
(***************************************************************************)
AfterStale(kind, todo) == IF todo # {} THEN "expire"
                          ELSE IF kind = "create" THEN "flight" ELSE "listed"

StartStale(c, kind, w) ==
  LET todo == Stale IN
  Start(c, [NoCall EXCEPT !.kind = kind, !.wallet = w, !.todo = todo,
                          !.at = AfterStale(kind, todo)])

\* A list that no device waits for; it changes nothing after its last patch.
PageList(c) == calls[c].kind = "list" /\ ~Waits(c)

ExpireOne(c) ==
  /\ calls[c].at = "expire"
  /\ \E r \in calls[c].todo :
       LET left == calls[c].todo \ {r} IN
       /\ Patch(r, "expired")
       /\ calls' = [calls EXCEPT ![c] =
            IF left = {} /\ PageList(c) THEN NoCall
            ELSE [@ EXCEPT !.at = AfterStale(calls[c].kind, left), !.todo = left]]
  /\ UNCHANGED <<body, last, pairing, chain, now, device, ran, faults>>

\* GET: the list of a device that has restarted meanwhile.
List(c) ==
  /\ At(c, "list", "listed")
  /\ ~Waits(c)
  /\ calls' = [calls EXCEPT ![c] = NoCall]
  /\ UNCHANGED <<store, chain, now, device, ran, faults>>

-----------------------------------------------------------------------------
(***************************************************************************)
(* createRequest.                                                          *)
(***************************************************************************)
\* Bound: no request is made that could not expire.
CanExpire(t) == \E u \in ServerTime : t + TTL < u

Asked == last + Cardinality({c \in Call : calls[c].kind = "create"})

\* The page asks (DeviceWait), for a key that is a signer.
Ask(c, w) ==
  /\ Asked < MaxMade /\ CanExpire(now)
  /\ StartStale(c, "create", w)
  /\ UNCHANGED <<store, chain, now, device, ran, faults>>

CountInFlight(c) ==
  /\ At(c, "create", "flight")
  /\ calls' = [calls EXCEPT ![c].at = "nonce",
                            ![c].n = Cardinality(InFlight(calls[c].wallet))]
  /\ UNCHANGED <<store, chain, now, device, ran, faults>>

PickNonce(c) ==
  /\ At(c, "create", "nonce")
  /\ calls' = [calls EXCEPT ![c].at = "put", ![c].n = nonce[calls[c].wallet] + @,
                            ![c].due = now + TTL]
  /\ UNCHANGED <<store, chain, now, device, ran, faults>>

AddRequest(c) ==
  /\ At(c, "create", "put") /\ last < MaxMade
  /\ last' = last + 1
  /\ body' = [body EXCEPT ![last'] = [wallet |-> calls[c].wallet, nonce |-> calls[c].n,
                                      deadline |-> calls[c].due]]
  /\ Patch(last', "pending")
  /\ Answer(c)
  /\ UNCHANGED <<pairing, chain, now, seen, yes, ran, faults>>

-----------------------------------------------------------------------------
(***************************************************************************)
(* POST signature.  relayMeta's simulation and its send are one step.      *)
(***************************************************************************)
\* The status and the deadline are those of the row as it was read.
Signature(r) ==
  [NoCall EXCEPT !.kind = "sign", !.req = r,
                 !.at = IF body[r].deadline < now THEN "late" ELSE "start"]

\* The signer, its signature; the wallet is deployed if need be.
Verify(c) ==
  LET r == calls[c].req IN
  /\ \/ At(c, "sign", "late") /\ Patch(r, "expired") /\ Answer(c)
     \/ At(c, "sign", "start") /\ Patch(r, "failed") /\ Answer(c)
     \/ At(c, "sign", "start") /\ Patch(r, "signed") /\ Keep(c, "signed")
  /\ UNCHANGED <<body, last, pairing, chain, now, seen, yes, ran, faults>>

MarkRelaying(c) ==
  /\ At(c, "sign", "signed")
  /\ Patch(calls[c].req, "relaying") /\ Keep(c, "relaying")
  /\ UNCHANGED <<body, last, pairing, chain, now, seen, yes, ran, faults>>

\* What the contract asks of a request's transaction: its nonce, and a deadline
\* that the block's time has not passed.
Admissible(r) ==
  /\ nonce[body[r].wallet] = body[r].nonce
  /\ blockTime <= body[r].deadline

Relay(c) ==
  LET r == calls[c].req IN
  /\ At(c, "sign", "relaying") /\ tx[c].state # "sent"
  /\ Admissible(r)
  /\ tx' = [tx EXCEPT ![c] = [state |-> "sent", req |-> r]]
  /\ Goes(c, "sent")
  /\ UNCHANGED <<store, nonce, blockTime, now, device, ran, faults>>

\* The simulation refuses, an RPC call fails, or the receipt does not come in time.
RelayThrows(c) ==
  /\ \/ calls[c].at = "relaying"
     \/ calls[c].at = "sent" /\ tx[c].state = "sent"
  /\ Goes(c, "broken")
  /\ UNCHANGED <<store, chain, now, device, ran, faults>>

\* Mutant: a receipt is a success.
OutcomeIgnoresRevert(t) == "confirmed"

Outcome(t) == IF t.state = "success" THEN "confirmed" ELSE "failed"

Receipt(c) ==
  LET r == calls[c].req IN
  /\ calls[c].at = "sent" /\ tx[c].state \in {"success", "reverted"}
  /\ Patch(r, Outcome(tx[c])) /\ Answer(c)
  /\ tx' = [tx EXCEPT ![c] = NoTx]
  /\ UNCHANGED <<body, last, pairing, nonce, blockTime, now, seen, yes, ran, faults>>

\* The catch: the request fails, and the ones behind it with it.
FailThis(c) ==
  /\ At(c, "sign", "broken")
  /\ Patch(calls[c].req, "failed") /\ Keep(c, "failing")
  /\ UNCHANGED <<body, last, pairing, chain, now, seen, yes, ran, faults>>

ReadLater(c) ==
  LET later == LaterThan(calls[c].req) IN
  /\ At(c, "sign", "failing")
  /\ \/ later = {} /\ Answer(c)
     \/ /\ later # {}
        /\ calls' = [calls EXCEPT ![c].at = "behind", ![c].todo = later]
        /\ UNCHANGED dev
  /\ UNCHANGED <<store, chain, now, seen, yes, ran, faults>>

FailLater(c) ==
  /\ At(c, "sign", "behind")
  /\ \E r \in calls[c].todo :
       /\ Patch(r, "failed")
       /\ \/ calls[c].todo = {r} /\ Answer(c)
          \/ /\ calls[c].todo # {r}
             /\ calls' = [calls EXCEPT ![c].todo = @ \ {r}]
             /\ UNCHANGED dev
  /\ UNCHANGED <<body, last, pairing, chain, now, seen, yes, ran, faults>>

-----------------------------------------------------------------------------
(***************************************************************************)
(* POST reject, from the device or from the page's Cancel.                 *)
(***************************************************************************)
StartReject(c, r) ==
  /\ status[r] = "pending"
  /\ Start(c, [NoCall EXCEPT !.kind = "reject", !.at = "put", !.req = r])

Reject(c) ==
  /\ At(c, "reject", "put")
  /\ Patch(calls[c].req, "rejected")
  /\ Answer(c)
  /\ UNCHANGED <<body, last, pairing, chain, now, seen, yes, ran, faults>>

Happens(t) ==
  /\ t \notin faults /\ Cardinality(faults) < MaxFaults
  /\ faults' = faults \cup {t}

-----------------------------------------------------------------------------
(***************************************************************************)
(* The page.                                                               *)
(***************************************************************************)
Cancel(c, r) ==
  /\ StartReject(c, r)
  /\ UNCHANGED <<store, chain, now, device, ran, faults>>

\* DeviceWait polls its request, which expires what is stale.
Refresh(c) ==
  /\ Stale # {}
  /\ StartStale(c, "list", None)
  /\ UNCHANGED <<store, chain, now, device, ran, faults>>

\* GET /api/device?wallet=w remembers the pairing.
OpenWallet(w) ==
  /\ pairing' = w
  /\ UNCHANGED <<status, body, last, calls, chain, now, device, ran, faults>>

\* signAndFacilitate: a passkey's call reads the nonce and takes it when it
\* lands first; to the queue it is the landing that matters.
PasskeySend(w) ==
  /\ Happens("passkey")
  /\ nonce' = [nonce EXCEPT ![w] = @ + 1]
  /\ UNCHANGED <<store, calls, tx, blockTime, now, device, ran>>

-----------------------------------------------------------------------------
(***************************************************************************)
(* The chain.  A transaction that was sent lands at any later time, or     *)
(* never; it reverts when the contract refuses it or the call it makes     *)
(* fails.                                                                  *)
(***************************************************************************)
Settled(c, s) ==
  tx' = [tx EXCEPT ![c] = IF calls[c].at = "sent" THEN [@ EXCEPT !.state = s] ELSE NoTx]

Lands(c) ==
  /\ tx[c].state = "sent"
  /\ Admissible(tx[c].req)
  /\ Settled(c, "success")
  /\ nonce' = [nonce EXCEPT ![body[tx[c].req].wallet] = @ + 1]
  /\ ran' = ran \cup {tx[c].req}
  /\ UNCHANGED <<store, calls, blockTime, now, device, faults>>

Reverts(c) ==
  /\ tx[c].state = "sent"
  /\ Settled(c, "reverted")
  /\ UNCHANGED <<store, calls, nonce, blockTime, now, device, ran, faults>>

\* Blocks have times of their own, ahead of the servers' clock or behind it.
\* Bound: one with a new time comes while a signature is on its way, as only
\* then it matters.
NextBlock ==
  /\ \E c \in Call : calls[c].kind = "sign" \/ tx[c].state = "sent"
  /\ \E t \in BlockTime : t > blockTime /\ blockTime' = t
  /\ UNCHANGED <<store, calls, tx, nonce, now, device, ran, faults>>

Tick ==
  /\ \E t \in ServerTime :
       /\ t > now /\ now' = t
       /\ CanExpire(t) \/ \A c \in Call : calls[c].kind # "create"
  /\ UNCHANGED <<store, calls, chain, device, ran, faults>>

-----------------------------------------------------------------------------
(***************************************************************************)
(* The device.  While it waits for an answer it does nothing else.  Every  *)
(* screen but confirm and working lets net_work run, and counts as home;   *)
(* the pairing screen is home while not paired.                            *)
(***************************************************************************)
Awake == dev.call = 0

\* net_work: announce, when it is due.
Announce ==
  /\ Awake /\ dev.screen = "home"
  /\ dev' = [dev EXCEPT !.wallet = pairing]
  /\ UNCHANGED <<store, calls, chain, now, seen, yes, ran, faults>>

\* What the device would look at.
Fresh == {r \in Request : status[r] = "pending"} \ seen

\* A poll begins when there is something to expire or to show.
Poll(c) ==
  /\ Awake /\ dev.wallet # None /\ dev.screen = "home"
  /\ Stale # {} \/ Fresh # {}
  /\ StartStale(c, "list", None)
  /\ dev' = [dev EXCEPT !.call = c]
  /\ UNCHANGED <<store, chain, now, seen, yes, ran, faults>>

Listed(c) == At(c, "list", "listed") /\ Waits(c)

\* Mutant: a request counts as dealt with once a key is pressed on it.
ShowUnseen(c) ==
  /\ Listed(c)
  /\ \E r \in Oldest(Fresh) :
       /\ body[r].wallet = dev.wallet
       /\ dev' = [dev EXCEPT !.call = 0, !.req = r, !.screen = "confirm"]
  /\ calls' = [calls EXCEPT ![c] = NoCall]
  /\ UNCHANGED <<store, chain, now, seen, yes, ran, faults>>

\* poll_requests: of the pending ones the oldest it has not seen.  One of its
\* own wallet goes to the screen.
Show(c) ==
  /\ Listed(c)
  /\ \E r \in Oldest(Fresh) :
       /\ body[r].wallet = dev.wallet
       /\ seen' = seen \cup {r}
       /\ dev' = [dev EXCEPT !.call = 0, !.req = r, !.screen = "confirm"]
  /\ calls' = [calls EXCEPT ![c] = NoCall]
  /\ UNCHANGED <<store, chain, now, yes, ran, faults>>

\* check_request: one of another wallet is refused, as is one that fails a check
\* of data the model leaves out.  The next one is looked at in the next poll;
\* the code goes on with the list it has.
Refuse(c) ==
  /\ Listed(c)
  /\ \E r \in Oldest(Fresh) :
       /\ seen' = seen \cup {r}
       /\ calls' = [calls EXCEPT ![c] = [NoCall EXCEPT !.kind = "reject", !.at = "put", !.req = r]]
  /\ UNCHANGED <<store, chain, now, dev, yes, ran, faults>>

Nothing(c) ==
  /\ Listed(c) /\ Fresh = {}
  /\ Answer(c)
  /\ UNCHANGED <<store, chain, now, seen, yes, ran, faults>>

\* Mutant: the signature goes to the oldest pending request, not to the one shown.
ApproveOldest(c) ==
  LET pending == {r \in Request : status[r] = "pending"} IN
  /\ Awake /\ dev.screen = "confirm"
  /\ yes' = yes \cup {dev.req}
  /\ \E r \in Oldest(pending) : Start(c, Signature(r))
  /\ dev' = [dev EXCEPT !.screen = "working", !.call = c]
  /\ UNCHANGED <<store, chain, now, seen, ran, faults>>

\* Mutant: a signature is taken whatever became of its request.
ApproveAnyway(c) ==
  /\ Awake /\ dev.screen = "confirm"
  /\ yes' = yes \cup {dev.req}
  /\ Start(c, Signature(dev.req))
  /\ dev' = [dev EXCEPT !.screen = "working", !.call = c]
  /\ UNCHANGED <<store, chain, now, seen, ran, faults>>

\* approve: A or Y on the confirm screen.
Approve(c) ==
  /\ Awake /\ dev.screen = "confirm"
  /\ yes' = yes \cup {dev.req}
  /\ \/ /\ status[dev.req] = "pending"
        /\ Start(c, Signature(dev.req))
        /\ dev' = [dev EXCEPT !.screen = "working", !.call = c]
     \/ /\ status[dev.req] # "pending"
        /\ dev' = [dev EXCEPT !.screen = "home"]
        /\ UNCHANGED calls
  /\ UNCHANGED <<store, chain, now, seen, ran, faults>>

Decline(c) ==
  /\ Awake /\ dev.screen = "confirm"
  /\ \/ StartReject(c, dev.req) /\ dev' = [dev EXCEPT !.screen = "home", !.call = c]
     \/ /\ status[dev.req] # "pending"
        /\ dev' = [dev EXCEPT !.screen = "home"]
        /\ UNCHANGED calls
  /\ UNCHANGED <<store, chain, now, seen, yes, ran, faults>>

-----------------------------------------------------------------------------
(***************************************************************************)
(* What goes wrong.                                                        *)
(***************************************************************************)
\* A server stops in the middle of a handler.
Crash(c) ==
  /\ Happens("crash") /\ calls[c].kind \in {"create", "sign", "reject"}
  /\ Answer(c)
  /\ UNCHANGED <<store, chain, now, seen, yes, ran>>

\* The device's post never reaches the server: what was pressed is not said again.
PostLost ==
  /\ Happens("lost") /\ Awake /\ dev.screen = "confirm"
  /\ yes' \in {yes, yes \cup {dev.req}}
  /\ dev' = [dev EXCEPT !.screen = "home"]
  /\ UNCHANGED <<store, calls, chain, now, seen, ran>>

\* The device stops waiting; the server goes on.
DeviceTimeout ==
  /\ Happens("timeout") /\ dev.screen = "working"
  /\ dev' = [dev EXCEPT !.call = 0, !.screen = "home"]
  /\ UNCHANGED <<store, calls, chain, now, seen, yes, ran>>

Reboot ==
  /\ Happens("restart")
  /\ dev' = Booted /\ seen' = {}
  /\ UNCHANGED <<store, calls, chain, now, yes, ran>>

-----------------------------------------------------------------------------
\* A handler whose server stays up goes on.
Handler(c) ==
  \/ ExpireOne(c) \/ List(c) \/ Show(c) \/ Refuse(c) \/ Nothing(c)
  \/ CountInFlight(c) \/ PickNonce(c) \/ AddRequest(c)
  \/ Verify(c) \/ MarkRelaying(c) \/ Relay(c) \/ RelayThrows(c) \/ Receipt(c)
  \/ FailThis(c) \/ ReadLater(c) \/ FailLater(c) \/ Reject(c)

Device ==
  \/ Announce
  \/ \E c \in Call : Poll(c) \/ Approve(c) \/ Decline(c)

Page ==
  \E c \in Call :
    \/ Refresh(c)
    \/ \E w \in Wallet : Ask(c, w)
    \/ \E r \in Request : Cancel(c, r)

World ==
  \/ \E c \in Call : Lands(c) \/ Reverts(c) \/ Crash(c)
  \/ \E w \in Wallet : OpenWallet(w) \/ PasskeySend(w)
  \/ Tick \/ NextBlock \/ PostLost \/ DeviceTimeout \/ Reboot

Next == (\E c \in Call : Handler(c)) \/ Device \/ Page \/ World

Spec == Init /\ [][Next]_vars

(***************************************************************************)
(* Handlers run on; pages poll every two seconds, so that a poll is due    *)
(* again and again; time passes.  Nobody owes a press, a request or a      *)
(* landing.                                                                *)
(***************************************************************************)
FairSpec ==
  /\ Spec
  /\ \A c \in Call : WF_vars(Handler(c))
  /\ SF_vars(\E c \in Call : Refresh(c))
  /\ WF_vars(Tick)

-----------------------------------------------------------------------------
\* What runs on the chain was approved on the device, whoever answered what to whom.
OnlyApprovedRuns == ran \subseteq yes

\* What the page calls confirmed was carried out.
ConfirmedRan == \A r \in Request : status[r] = "confirmed" => r \in ran

\* Nobody is sending the request: no handler has a signature of it, and none of
\* its transactions is in the air.
Unsent(r) ==
  \A c \in Call :
    /\ calls[c].kind = "sign" => calls[c].req # r
    /\ tx[c].state = "sent" => tx[c].req # r

Over(r) == status[r] \in {"expired", "rejected", "failed"} /\ Unsent(r)

\* A request that was called expired, rejected or failed, and that nobody is
\* sending, is over: it is not taken up again and never carried out, whatever
\* the device still shows and however far the chain's clock is behind.  One
\* whose signature was taken before may still run.
OverStaysOver ==
  [][\A r \in Request : Over(r) => Over(r)' /\ (r \in ran' => r \in ran)]_vars

\* Until it restarts, the device never asks again for what was approved on it, not
\* even when its post was lost: a second signature could be relayed beside the first.
ShownOnce ==
  [][\A r \in yes :
       dev'.screen = "confirm" /\ dev'.req = r /\ dev.screen # "confirm" => "restart" \in faults]_vars

\* Every request comes to an end, unless a server stopped:
\* carried out, refused, out of time, or failed, with one before it or alone.
EveryRequestEnds ==
  \A r \in Request : status[r] = "pending" ~> (status[r] \in Terminal \/ "crash" \in faults)

\* "assigns nonce = onchainNonce + inFlight.length so several can queue", and a
\* rejection "frees the nonce slot right away": no two waiting requests share one.
SeveralCanQueue ==
  \A r, q \in InFlight(body[1].wallet) : body[r].nonce = body[q].nonce => r = q

-----------------------------------------------------------------------------
\* The ledger of the device's holder, as the queue keeps it.
Fate(r) ==
  IF r \in ran THEN "done"
  ELSE IF r \in yes THEN "approved"
  ELSE IF r <= last THEN "asked" ELSE "unasked"

Ledger == INSTANCE DeviceLedger WITH
  fate <- [r \in Request |-> Fate(r)],
  made <- [r \in Request |-> [wallet |-> body[r].wallet, nonce |-> body[r].nonce]]

\* The queue carries out what the ledger allows, and nothing else.
ImplementsLedger == Ledger!Spec
=============================================================================
