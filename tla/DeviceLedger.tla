---------------------------- MODULE DeviceLedger ----------------------------
(***************************************************************************)
(* What the device queue owes the holder of the device: a request is       *)
(* carried out only after its holder approved it, at most once, under the  *)
(* wallet's nonce it was made for, whatever servers, radios and retries    *)
(* do.  A nonce is used up once, by a request or by another key.           *)
(***************************************************************************)
EXTENDS Integers

CONSTANTS Request, Wallet

VARIABLES
  fate,    \* "unasked", "asked", "approved" or "done"
  made,    \* the wallet and the nonce each request was made for
  nonce    \* each wallet's

ledger == <<fate, made, nonce>>

Init ==
  /\ fate = [r \in Request |-> "unasked"]
  /\ nonce = [w \in Wallet |-> 0]

Ask(r) ==
  /\ fate[r] = "unasked"
  /\ fate' = [fate EXCEPT ![r] = "asked"]
  /\ made'[r] \in [wallet : Wallet, nonce : Nat]
  /\ made' = [made EXCEPT ![r] = made'[r]]
  /\ UNCHANGED nonce

Approve(r) ==
  /\ fate[r] = "asked"
  /\ fate' = [fate EXCEPT ![r] = "approved"]
  /\ UNCHANGED <<made, nonce>>

CarryOut(r) ==
  /\ fate[r] = "approved"
  /\ nonce[made[r].wallet] = made[r].nonce
  /\ fate' = [fate EXCEPT ![r] = "done"]
  /\ nonce' = [nonce EXCEPT ![made[r].wallet] = @ + 1]
  /\ UNCHANGED made

OtherKey(w) ==
  /\ nonce' = [nonce EXCEPT ![w] = @ + 1]
  /\ UNCHANGED <<fate, made>>

Next ==
  \/ \E r \in Request : Ask(r) \/ Approve(r) \/ CarryOut(r)
  \/ \E w \in Wallet : OtherKey(w)

Spec == Init /\ [][Next]_ledger
=============================================================================
