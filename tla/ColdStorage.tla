----------------------------- MODULE ColdStorage -----------------------------
(***************************************************************************)
(* What InstantWallet promises its owner, one step per transaction:        *)
(* "Anything that weakens the wallet is slow.  Anything that protects it   *)
(* is instant."  InstantWallet.tla implements this specification.          *)
(*                                                                         *)
(* The promise does not say which protecting or weakening step a           *)
(* transaction takes: only what must have come before it.                  *)
(***************************************************************************)
EXTENDS Integers

CONSTANTS Key, NoOne, Asset, USDC, ETH, Id

VARIABLES
  now,
  wallet,    \* role, limit, guardians, recoveryDelay, coldDelay, frozenUntil,
             \* noTwoKeySkip, balance, and gas: what the paymaster may pull
  pending,   \* announced actions: when they are due (0: none) and who queued them
  cosigner,  \* the key that skipped the wait of an action
  runs,      \* how often each action ran
  proposal   \* when the guardians' pending replacement of a key is due (0: none)

vars == <<now, wallet, pending, cosigner, runs, proposal>>

Signers == {k \in Key : wallet.role[k] # "none"}
Owners == {k \in Key : wallet.role[k] = "owner"}
Frozen == now < wallet.frozenUntil

Init ==
  /\ wallet.coldDelay = 0 /\ wallet.frozenUntil = 0 /\ ~wallet.noTwoKeySkip
  /\ \E k \in Key : Owners = {k} /\ Signers = {k}
  /\ pending = [i \in Id |-> [due |-> 0, by |-> NoOne]]
  /\ cosigner = [i \in Id |-> NoOne]
  /\ runs = [i \in Id |-> 0]
  /\ proposal = 0

(***************************************************************************)
(* The new wallet is at least as well protected: no key gained, no role or *)
(* limit raised, no wait shortened, no freeze lifted, the same guardians.  *)
(* A key may remove itself, so at most one owner goes.                     *)
(***************************************************************************)
AsProtected ==
  /\ \A k \in Key : wallet'.role[k] \in {wallet.role[k], "none"}
  /\ \A j, k \in Owners : wallet'.role[j] = "none" /\ wallet'.role[k] = "none" => j = k
  /\ \A k \in Key, a \in Asset : wallet'.limit[k][a] <= wallet.limit[k][a]
  /\ wallet'.guardians = wallet.guardians
  /\ wallet'.recoveryDelay = wallet.recoveryDelay
  /\ wallet'.coldDelay >= wallet.coldDelay
  /\ wallet'.frozenUntil >= wallet.frozenUntil
  /\ wallet.noTwoKeySkip => wallet'.noTwoKeySkip

\* What a step takes out of the wallet, and what it takes out or lets the
\* paymaster take later.
Drop(a) == wallet.balance[a] - wallet'.balance[a]
Leaves(a) == Drop(a) + (IF a = USDC THEN wallet'.gas - wallet.gas ELSE 0)

\* At most one spender's limit leaves, and nothing while frozen; without a cold
\* delay a contract that is called may also use what an owner signed for a token
\* or an order book (ERC-1271).
WithinOneLimit ==
  \/ \A a \in Asset : Leaves(a) <= 0
  \/ /\ ~Frozen
     /\ \E k \in Signers \ Owners :
          \A a \in Asset : Leaves(a) <= wallet.limit[k][a]
  \/ wallet.coldDelay = 0 /\ Drop(ETH) <= 0 /\ wallet'.gas <= wallet.gas

(***************************************************************************)
(* An announced action keeps its wait: it is announced by an owner for     *)
(* coldDelay from now, it may be cancelled, and only a second key makes it *)
(* due at once, unless the wallet rules that out.                          *)
(***************************************************************************)
Cosigned(i) ==
  /\ ~wallet.noTwoKeySkip
  /\ cosigner'[i] \in Signers \ {pending[i].by}

KeepsItsWait(i) ==
  \/ pending'[i] = pending[i] /\ cosigner'[i] = cosigner[i]
  \/ pending'[i].due = 0
  \/ pending[i].due = 0 /\ pending'[i].due >= now + wallet.coldDelay
       /\ pending'[i].by \in Owners /\ cosigner'[i] = cosigner[i]
  \/ pending[i].due # 0 /\ pending'[i].by = pending[i].by /\ Cosigned(i)

\* Nothing runs twice, and what ran is gone.
RunsOnce ==
  \A i \in Id :
    \/ runs'[i] = runs[i]
    \/ runs[i] = 0 /\ runs'[i] = 1 /\ pending'[i].due = 0

KeepsProposal ==
  \/ proposal' \in {0, proposal}
  \/ wallet.guardians # {} /\ proposal' = now + wallet.recoveryDelay

-----------------------------------------------------------------------------
Tick == now' > now /\ UNCHANGED <<wallet, pending, cosigner, runs, proposal>>

\* Nothing was weakened, and nothing that waited ran.
Protected ==
  /\ AsProtected /\ KeepsProposal
  /\ \A i \in Id : KeepsItsWait(i)
  /\ runs' = runs

\* One key acting on its own.
Alone == Protected /\ WithinOneLimit

\* A step that runs an announced action: it was due, or two keys wanted it.
Waited ==
  /\ \E i \in Id :
       /\ runs'[i] = runs[i] + 1 /\ pending[i].due # 0
       /\ now >= pending[i].due \/ Cosigned(i)
  /\ RunsOnce

\* A wallet without a cold delay: an owner does as it likes, except that nothing
\* leaves while the wallet stays frozen.
Simple ==
  /\ wallet.coldDelay = 0
  /\ Frozen /\ wallet'.frozenUntil > now => \A a \in Asset : Drop(a) <= 0
  /\ RunsOnce

\* The guardians' proposal, left alone for the recovery delay, replaces one key.
Recover ==
  /\ proposal # 0 /\ now >= proposal /\ proposal' = 0
  /\ \E new \in Key \ Signers, old \in Signers \cup {NoOne} :
       /\ wallet'.role[new] = IF old = NoOne THEN "owner" ELSE wallet.role[old]
       /\ \A k \in Key \ {new} :
            wallet'.role[k] = IF k = old THEN "none" ELSE wallet.role[k]
       /\ \A k \in Key, a \in Asset : wallet'.limit[k][a] <= wallet.limit[k][a]
       /\ wallet' = [wallet EXCEPT !.role = wallet'.role, !.limit = wallet'.limit]
  /\ UNCHANGED <<pending, cosigner, runs>>

\* The gas of one user operation, out of what the paymaster was already allowed;
\* and, in a wallet without a cold delay, gas in ETH and whatever an owner signed
\* for a token or an order book (ERC-1271 is off under a cold delay).
FeeOrPermit ==
  /\ wallet.coldDelay = 0 \/ \A a \in Asset : Leaves(a) <= 0
  /\ wallet' = [wallet EXCEPT !.balance = wallet'.balance, !.gas = wallet'.gas]
  /\ UNCHANGED <<pending, cosigner, runs, proposal>>

Transaction == Alone \/ Waited \/ Simple \/ Recover \/ FeeOrPermit

Next == Tick \/ (now' = now /\ Transaction)

Spec == Init /\ [][Next]_vars
=============================================================================
