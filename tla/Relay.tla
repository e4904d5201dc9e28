------------------------------- MODULE Relay -------------------------------
(***************************************************************************)
(* Two keys of the server that many handlers send from at once, on one     *)
(* chain: the relay's, which pays for users' signed transactions           *)
(* (web/app/api/safe/relay/route.ts) and for claims of drops in USDC, and  *)
(* a drop's pot, which pays claims in ETH itself (web/lib/drops.ts).       *)
(*                                                                         *)
(* Their defences (web/lib/safe/relayGuard.ts) are keys with a time to     *)
(* live in one store: a mark per signed transaction, a lock around nonce   *)
(* and broadcast, a refusal after a revert, the last nonce of a pot.       *)
(* Every call that reaches the store or the chain is a step.               *)
(*                                                                         *)
(* A wallet and the address it calls from are one here.  Left out: shapes  *)
(* of calls, fees, rate limits, transactions that a chain's pool forgets.  *)
(***************************************************************************)
EXTENDS Integers, FiniteSets

CONSTANTS
  Signed,       \* what users sign and post, as often as they like
  Swaps,        \* those that may revert honestly
  Usdc, Eth,    \* transfers for drops, by the relay and by a pot, each sent once
  MaxCalls,     \* bound: handlers at once
  SwapReverts,  \* reverted swaps in a day that count, 3
  None,
  MaxAsked,     \* bound: calls ever begun
  MaxSent,      \* bound: nonces
  MaxPasses,    \* bound: hours and days that pass
  MaxFaults     \* bound

Call == 1..MaxCalls
Tx == Signed \cup Usdc \cup Eth

ASSUME RelayAssumption ==
  /\ Swaps \subseteq Signed /\ Signed \cap (Usdc \cup Eth) = {} /\ None \notin Tx
  /\ SwapReverts \in Nat \ {0}
  /\ MaxCalls \in Nat /\ MaxAsked \in Nat /\ MaxSent \in Nat /\ MaxPasses \in Nat /\ MaxFaults \in Nat

VARIABLES
  pot,     \* whose key: a pot's, or the relay's
  calls,   \* the handlers
  asked,   \* calls ever begun
  lock,    \* the lock's key is there
  mark,    \* tx:<chain>:<hash>
  last,    \* nonce:<chain>:<pot>
  bad,     \* bad:<safe>, badip:<ip>
  swaprev, \* swaprev:<safe>
  slot,    \* chain: the transaction broadcast at each nonce
  mined,   \* chain: nonces used
  failed,  \* chain: the nonces whose transaction reverted
  settled, \* nonces every node knows of
  sent,    \* history: broadcast in this hour
  caught,  \* history: reverted, and refused for it, in this day
  clash,   \* history: a nonce was broadcast at twice
  passes, faults

store == <<lock, mark, last, bad, swaprev>>
chain == <<slot, mined, failed>>
history == <<settled, sent, caught, clash>>
vars == <<pot, calls, asked, store, chain, history, passes, faults>>

Nonce == 0..MaxSent - 1
Idle == [at |-> "idle", tx |-> None, nonce |-> 0, ok |-> FALSE]
Inside == {"pick", "send", "note", "unlock"}

Handler == [at : {"idle", "admit", "estimate", "mark", "lock", "watch"} \cup Inside,
            tx : Tx \cup {None}, nonce : Nat, ok : BOOLEAN]

TypeOK ==
  /\ pot \in BOOLEAN
  /\ calls \in [Call -> Handler]
  /\ asked \in 0..MaxAsked
  /\ lock \in BOOLEAN /\ mark \subseteq Signed /\ last \in Nonce \cup {-1} /\ bad \in BOOLEAN
  /\ swaprev \in Nat /\ (swaprev >= SwapReverts => bad)
  /\ slot \in [Nonce -> Tx \cup {None}] /\ mined \in 0..MaxSent /\ failed \subseteq Nonce
  /\ settled \in 0..MaxSent /\ sent \subseteq Signed /\ caught \subseteq Signed
  /\ clash \in BOOLEAN /\ passes \in 0..MaxPasses
  /\ faults \subseteq {"slow", "lag", "crash", "lost"}

Init ==
  /\ pot \in BOOLEAN
  /\ calls = [c \in Call |-> Idle] /\ asked = 0
  /\ lock = FALSE /\ mark = {} /\ last = -1 /\ bad = FALSE /\ swaprev = 0
  /\ slot = [n \in Nonce |-> None] /\ mined = 0 /\ failed = {} /\ settled = 0
  /\ sent = {} /\ caught = {} /\ clash = FALSE
  /\ passes = 0 /\ faults = {}

-----------------------------------------------------------------------------
At(c, s) == calls[c].at = s
To(c, s) == calls' = [calls EXCEPT ![c].at = s]
Ends(c) == calls' = [calls EXCEPT ![c] = Idle]

\* What went through.
Done == {slot[n] : n \in (0..mined - 1) \ failed}

Happens(f) ==
  /\ f \notin faults /\ Cardinality(faults) < MaxFaults
  /\ faults' = faults \cup {f}

-----------------------------------------------------------------------------
(***************************************************************************)
(* What calls the relay.                                                   *)
(***************************************************************************)
\* A call takes the first free place; places have no other meaning.
Begins(c, call) ==
  /\ At(c, "idle") /\ \A d \in Call : At(d, "idle") => c <= d
  /\ asked < MaxAsked
  /\ asked' = asked + 1
  /\ calls' = [calls EXCEPT ![c] = call]
  /\ UNCHANGED <<pot, store, chain, history, passes, faults>>

\* A user posts, or posts again, from anywhere.
Post(c, t) == ~pot /\ Begins(c, [Idle EXCEPT !.at = "admit", !.tx = t])

\* A claim goes to one handler, and to another only if that one did not send it.
Claim(c, t) ==
  /\ t \in IF pot THEN Eth ELSE Usdc
  /\ \A d \in Call : calls[d].tx # t
  /\ \A n \in Nonce : slot[n] # t
  /\ Begins(c, [Idle EXCEPT !.at = "lock", !.tx = t])

\* admit: a wallet that was refused, is.
Admit(c) ==
  /\ At(c, "admit")
  /\ IF bad THEN Ends(c) ELSE To(c, "estimate")
  /\ UNCHANGED <<pot, asked, store, chain, history, passes, faults>>

\* What went through would fail if it ran again; anything else may, or its fee is low.
Estimate(c) ==
  /\ At(c, "estimate")
  /\ \/ Ends(c)
     \/ calls[c].tx \notin Done /\ To(c, "mark")
  /\ UNCHANGED <<pot, asked, store, chain, history, passes, faults>>

Fresh(t) == t \notin mark

\* Mutant: the mark is looked for, and set only with the broadcast.
Unmarked(c) ==
  /\ At(c, "mark")
  /\ IF Fresh(calls[c].tx) THEN To(c, "lock") ELSE Ends(c)
  /\ UNCHANGED <<pot, asked, store, chain, history, passes, faults>>

\* once: one submission per signed transaction, or "Already sent".
Once(c) ==
  /\ At(c, "mark")
  /\ IF Fresh(calls[c].tx)
       THEN mark' = mark \cup {calls[c].tx} /\ To(c, "lock")
       ELSE Ends(c) /\ UNCHANGED mark
  /\ UNCHANGED <<pot, asked, lock, last, bad, swaprev, chain, history, passes, faults>>

-----------------------------------------------------------------------------
(***************************************************************************)
(* withLock, and what is done inside.                                      *)
(***************************************************************************)
\* Mutant: whoever gives up deletes the lock on its way out.
GivesUpTheLock(c) ==
  /\ At(c, "lock")
  /\ Ends(c)
  /\ lock' = FALSE
  /\ UNCHANGED <<pot, asked, mark, last, bad, swaprev, chain, history, passes, faults>>

\* A call whose fees do not come, or that finds the lock taken for 10 seconds.
GivesUp(c) ==
  /\ At(c, "lock")
  /\ Ends(c)
  /\ UNCHANGED <<pot, asked, store, chain, history, passes, faults>>

Takes(c) ==
  /\ At(c, "lock") /\ ~lock
  /\ lock' = TRUE
  /\ To(c, "pick")
  /\ UNCHANGED <<pot, asked, mark, last, bad, swaprev, chain, history, passes, faults>>

\* What a node that has seen everything answers as the pending count.
Pending == CHOOSE n \in 0..MaxSent :
             /\ n < MaxSent => slot[n] = None
             /\ \A k \in 0..n - 1 : slot[k] # None

\* Mutant: a pot that never sent counts from its absent last nonce, 0.
NonceAfterZero(n) == IF pot THEN IF last + 1 > n THEN last + 1 ELSE IF last = -1 THEN 1 ELSE n ELSE n

\* Mutant: a pot believes the chain.
NonceOfChain(n) == n

\* The relay's nonce is the chain's; a pot's is after its last, if that is later.
NonceOf(n) == IF pot /\ last # -1 /\ last + 1 > n THEN last + 1 ELSE n

Pick(c, n) ==
  /\ At(c, "pick")
  /\ calls' = [calls EXCEPT ![c].at = "send", ![c].nonce = NonceOf(n)]
  /\ UNCHANGED <<pot, asked, store, chain, history, passes>>

PickNonce(c) == Pick(c, Pending) /\ UNCHANGED faults

\* An error before anything went out: no node, an empty pot.
CannotSend(c) ==
  /\ calls[c].at \in {"pick", "send"}
  /\ To(c, "unlock")
  /\ UNCHANGED <<pot, asked, store, chain, history, passes, faults>>

\* A node takes a transaction at a free nonce; at one that waits it may replace what is there.
Taken(c) ==
  LET n == calls[c].nonce
      t == calls[c].tx IN
  /\ n \in Nonce
  /\ n >= mined
  /\ slot' = [slot EXCEPT ![n] = t]
  /\ clash' = (clash \/ slot[n] # None)
  /\ sent' = sent \cup ({t} \cap Signed)

Broadcast(c) ==
  /\ At(c, "send")
  /\ Taken(c)
  /\ calls' = [calls EXCEPT ![c].at = IF pot THEN "note" ELSE "unlock", ![c].ok = TRUE]
  /\ UNCHANGED <<pot, asked, store, mined, failed, settled, caught, passes, faults>>

\* A pot's last nonce, kept for an hour.
Note(c) ==
  /\ At(c, "note")
  /\ last' = calls[c].nonce
  /\ To(c, "unlock")
  /\ UNCHANGED <<pot, asked, lock, mark, bad, swaprev, chain, history, passes, faults>>

\* The key is deleted, whoever set it; a user has a hash now, or an error.
Unlock(c) ==
  /\ At(c, "unlock")
  /\ lock' = FALSE
  /\ IF calls[c].ok /\ calls[c].tx \in Signed THEN To(c, "watch") ELSE Ends(c)
  /\ UNCHANGED <<pot, asked, mark, last, bad, swaprev, chain, history, passes, faults>>

-----------------------------------------------------------------------------
(***************************************************************************)
(* After the answer.                                                       *)
(***************************************************************************)
Mined(c) == calls[c].nonce < mined /\ slot[calls[c].nonce] = calls[c].tx

Confirmed(c) ==
  /\ At(c, "watch") /\ Mined(c) /\ calls[c].nonce \notin failed
  /\ Ends(c)
  /\ UNCHANGED <<pot, asked, store, chain, history, passes, faults>>

\* A swap can revert honestly: the third in a day counts.
Forgiven(t) == t \in Swaps /\ swaprev + 1 < SwapReverts

\* reverted: the wallet is refused for a day; for a swap, from the third on.
Reverted(c) ==
  LET t == calls[c].tx IN
  /\ At(c, "watch") /\ Mined(c) /\ calls[c].nonce \in failed
  /\ swaprev' = IF t \in Swaps THEN swaprev + 1 ELSE swaprev
  /\ bad' = (bad \/ ~Forgiven(t))
  /\ caught' = IF Forgiven(t) THEN caught ELSE caught \cup {t}
  /\ Ends(c)
  /\ UNCHANGED <<pot, asked, lock, mark, last, chain, settled, sent, clash, passes, faults>>

\* The receipt does not come in time.
StopsWatching(c) ==
  /\ At(c, "watch")
  /\ Ends(c)
  /\ UNCHANGED <<pot, asked, store, chain, history, passes, faults>>

-----------------------------------------------------------------------------
(***************************************************************************)
(* The chain and the clock.                                                *)
(***************************************************************************)
Mine ==
  /\ mined < MaxSent /\ slot[mined] # None
  /\ mined' = mined + 1
  /\ \/ slot[mined] \notin Done /\ UNCHANGED failed
     \/ failed' = failed \cup {mined}
  /\ UNCHANGED <<pot, calls, asked, store, slot, history, passes, faults>>

\* Mutant: the lock is set without a time to live.
LockStays == FALSE

\* Twenty seconds after it was set, the lock is gone.
LockExpires ==
  /\ lock
  /\ lock' = FALSE
  /\ IF \E c \in Call : calls[c].at \in Inside THEN Happens("slow") ELSE UNCHANGED faults
  /\ UNCHANGED <<pot, calls, asked, mark, last, bad, swaprev, chain, history, passes>>

Quiet == \A c \in Call : At(c, "idle")

\* An hour without a call: marks and last nonces run out.
HourPasses ==
  /\ Quiet /\ ~lock /\ passes < MaxPasses
  /\ passes' = passes + 1
  /\ mark' = {} /\ last' = -1 /\ UNCHANGED bad
  /\ settled' = Pending /\ sent' = {}
  /\ UNCHANGED <<pot, calls, asked, lock, swaprev, chain, caught, clash, faults>>

DayPasses ==
  /\ Quiet /\ ~lock /\ passes < MaxPasses
  /\ passes' = passes + 1
  /\ mark' = {} /\ last' = -1 /\ bad' = FALSE /\ swaprev' = 0
  /\ settled' = Pending /\ sent' = {} /\ caught' = {}
  /\ UNCHANGED <<pot, calls, asked, lock, chain, clash, faults>>

-----------------------------------------------------------------------------
(***************************************************************************)
(* What goes wrong.                                                        *)
(***************************************************************************)
\* "RPC nodes lag": a count that misses some of what was broadcast lately.
Lags(c) ==
  /\ \E n \in settled..Pending - 1 : Pick(c, n)
  /\ Happens("lag")

\* The transaction went out, and the sender sees an error.
AnswerLost(c) ==
  /\ Happens("lost") /\ At(c, "send")
  /\ Taken(c)
  /\ To(c, "unlock")
  /\ UNCHANGED <<pot, asked, store, mined, failed, settled, caught, passes>>

Crash(c) ==
  /\ Happens("crash") /\ ~At(c, "idle")
  /\ Ends(c)
  /\ UNCHANGED <<pot, asked, store, chain, history, passes>>

-----------------------------------------------------------------------------
Works(c) ==
  \/ Admit(c) \/ Estimate(c) \/ Once(c) \/ GivesUp(c) \/ Takes(c)
  \/ PickNonce(c) \/ CannotSend(c) \/ Broadcast(c) \/ Note(c) \/ Unlock(c)
  \/ Confirmed(c) \/ Reverted(c) \/ StopsWatching(c)

Next ==
  \/ \E c \in Call : Works(c) \/ Lags(c) \/ AnswerLost(c) \/ Crash(c)
  \/ \E c \in Call, t \in Signed : Post(c, t)
  \/ \E c \in Call, t \in Usdc \cup Eth : Claim(c, t)
  \/ Mine \/ LockExpires \/ HourPasses \/ DayPasses

\* A handler that runs goes on or stops; the chain mines; keys run out.
Fairness ==
  /\ \A c \in Call : WF_vars(Works(c))
  /\ WF_vars(Mine) /\ WF_vars(LockExpires)

Spec == Init /\ [][Next]_vars /\ Fairness

-----------------------------------------------------------------------------
(***************************************************************************)
(* Properties.                                                             *)
(***************************************************************************)
\* "One send at a time per chain": two are inside only if one overstayed the lock.
OneAtATime ==
  "slow" \notin faults => Cardinality({c \in Call : calls[c].at \in Inside}) <= 1

\* "Never reuse a nonce": it takes a call that overstays the lock, or a node that lags;
\* for a pot, a node that lags behind a send that was never noted.
NonceOnce ==
  clash => \/ "slow" \in faults
           \/ "lag" \in faults /\ (pot => faults \cap {"crash", "lost"} # {})

Slots(t) == {n \in Nonce : slot[n] = t}

\* "One submission per signed tx": what was broadcast is not broadcast again in its
\* hour, however often and from however many places it is posted; and what reverted,
\* and was seen to, not in the day after, whatever else the wallet asked.
NoReplay == [][\A t \in sent \cup caught : Slots(t)' \subseteq Slots(t)]_vars

\* The lock comes free again, with no one to free it.
LockComesFree == lock ~> ~lock

\* Nothing waits behind a nonce that nobody used, where it could wait for good.
NoGap == \A n \in Nonce : slot[n] # None => \A k \in 0..n : slot[k] # None
=============================================================================
