--------------------------- MODULE MCInstantWallet ---------------------------
(***************************************************************************)
(* Small instances of InstantWallet.  A passkey creates the wallet; an     *)
(* owner's batch (Pair) hands the owner's role to a wedgie under a cold    *)
(* delay and leaves the passkey a daily limit.  There is a spare key, and  *)
(* the dao is the guardian.                                                *)
(***************************************************************************)
EXTENDS InstantWallet

CONSTANTS passkey, wedgie, spare, dao, usdc, eth

Send(a, amount) == <<[op |-> "send", asset |-> a, amount |-> amount]>>
Self(op) == <<[op |-> op]>>
On(op, id) == <<[op |-> op, id |-> id]>>
Delay(t) == <<[op |-> "setColdDelay", delay |-> t]>>
Limit(k, a, amount) == <<[op |-> "setLimit", key |-> k, asset |-> a, limit |-> amount]>>
Add(k, role) == <<[op |-> "addSigner", key |-> k, role |-> role]>>
Change(k, role) == <<[op |-> "updateSigner", key |-> k, role |-> role]>>
Remove(k) == <<[op |-> "removeSigner", key |-> k]>>
NoSkip(off) == <<[op |-> "setNoTwoKeySkip", off |-> off]>>
Guard(gs, t) == <<[op |-> "setGuardians", guardians |-> gs, delay |-> t]>>

Pair(amount) ==
  Add(wedgie, "owner") \o Change(passkey, "spender") \o Limit(passkey, usdc, amount) \o Delay(1)

OneDollar == [a \in Asset |-> IF a = usdc THEN 1 ELSE 0]
OneOfEach == [a \in Asset |-> 1]

(***************************************************************************)
(* One queued action under every rule of the cold delay, in bundles of two *)
(* operations that pay gas, with permits and refills.                      *)
(***************************************************************************)
ColdBatch ==
  {Pair(1), Send(usdc, 1), Delay(0), Delay(2), Limit(passkey, usdc, 2), Remove(passkey),
   On("cancelQueued", 0), On("skipWait", 0) \o On("executeQueued", 0),
   Self("freeze"), Self("unfreeze"), NoSkip(TRUE), NoSkip(FALSE)}

ColdHolding == [a \in Asset |-> IF a = usdc THEN 3 ELSE 1]

(***************************************************************************)
(* Guardians replace keys while owners cancel, remove and change guardians. *)
(***************************************************************************)
RecoveryBatch ==
  {Pair(1), Guard({}, 0), Guard({dao}, 2), Remove(passkey), Remove(wedgie), Add(spare, "owner")}

(***************************************************************************)
(* Two queued actions, and outside contracts that call back: from a batch, *)
(* from a queued action, and from what the spender of a wallet without a   *)
(* cold delay pays, while it is frozen and after.                          *)
(***************************************************************************)
ReentryBatch ==
  {Add(wedgie, "owner") \o Delay(1),
   Self("call") \o On("skipWait", 1) \o On("executeQueued", 1),
   Self("call") \o Send(usdc, 1),
   On("executeQueued", 0) \o On("cancelQueued", 1),
   Add(wedgie, "spender") \o Limit(wedgie, usdc, 1) \o Limit(wedgie, eth, 1) \o Self("freeze"),
   Self("freeze") \o Send(eth, 0), Send(eth, 1) \o Send(usdc, 1)}

(***************************************************************************)
(* A queued action whose proposer goes and comes back.                     *)
(***************************************************************************)
OrphanBatch ==
  {Add(wedgie, "owner") \o Delay(1), Send(usdc, 1), Remove(wedgie), Add(wedgie, "owner")}

=============================================================================
