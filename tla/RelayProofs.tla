----------------------------- MODULE RelayProofs -----------------------------
(***************************************************************************)
(* Proofs about Relay: for any set of transactions and any number of       *)
(* handlers, calls, nonces and hours.                                      *)
(***************************************************************************)
EXTENDS Relay, FiniteSetTheorems, TLAPS

-----------------------------------------------------------------------------
(***************************************************************************)
(* The inductive invariant.                                                *)
(***************************************************************************)
\* A handler past the mark that has not sent yet.
Armed(c) == calls[c].at \in {"lock", "pick", "send"}

\* A handler that sent, and knows.
Told(c) == calls[c].at \in {"note", "watch"} \/ (calls[c].at = "unlock" /\ calls[c].ok)

Shape ==
  \A c \in Call :
    /\ calls[c].at # "idle" => calls[c].tx \in Tx
    /\ calls[c].at \in {"admit", "estimate", "mark", "watch"} => calls[c].tx \in Signed
    /\ calls[c].at = "note" => pot /\ calls[c].nonce \in Nonce
    /\ calls[c].ok => calls[c].at \in {"note", "unlock", "watch"}

\* Past the mark, a signed transaction is marked.
Marked ==
  \A c \in Call :
    calls[c].at \in {"lock", "watch"} \cup Inside /\ calls[c].tx \in Signed => calls[c].tx \in mark

\* One handler at most is about to send it, and nobody did before.
Unsent ==
  /\ \A c \in Call : Armed(c) /\ calls[c].tx \in Signed => calls[c].tx \notin sent \cup caught
  /\ \A c, d \in Call :
       Armed(c) /\ Armed(d) /\ calls[c].tx = calls[d].tx /\ calls[c].tx \in Signed => c = d

ToldIsSent == \A c \in Call : Told(c) /\ calls[c].tx \in Signed => calls[c].tx \in sent

\* What was caught is marked still, or no handler gets past the refusal with it.
Remembered ==
  /\ sent \subseteq mark
  /\ \A t \in caught :
       bad /\ (t \in mark \/ \A c \in Call : calls[c].tx = t => calls[c].at \in {"idle", "admit"})

Alone ==
  "slow" \notin faults =>
    /\ \A c, d \in Call : calls[c].at \in Inside /\ calls[d].at \in Inside => c = d
    /\ \A c \in Call : calls[c].at \in Inside => lock

\* Every nonce below n was broadcast at; none from n on was.
Below(n) == \A k \in Nonce : k < n => slot[k] # None
NoneFrom(n) == \A k \in Nonce : k >= n => slot[k] = None

Contiguous == \E p \in 0..MaxSent : Below(p) /\ NoneFrom(p)

\* No handler, and no memory, is ahead of the chain.
Reached ==
  /\ \A c \in Call : calls[c].at = "send" => Below(calls[c].nonce)
  /\ \A c \in Call : calls[c].at = "note" => Below(calls[c].nonce + 1)
  /\ Below(last + 1) /\ Below(settled)

Excused ==
  \/ "slow" \in faults
  \/ "lag" \in faults /\ (pot => faults \cap {"crash", "lost"} # {})

FreeNonce ==
  Excused \/ \A c \in Call : calls[c].at = "send" => NoneFrom(calls[c].nonce)

\* A pot knows its last nonce, unless one of its sends got lost.
Noted ==
  pot /\ faults \cap {"slow", "crash", "lost"} = {} =>
    /\ \A c \in Call : calls[c].at = "note" => NoneFrom(calls[c].nonce + 1)
    /\ \/ \E c \in Call : calls[c].at = "note"
       \/ NoneFrom(last + 1) \/ NoneFrom(settled)

IInv ==
  /\ TypeOK /\ Shape
  /\ Marked /\ Unsent /\ ToldIsSent /\ Remembered
  /\ Alone
  /\ Contiguous /\ Reached /\ FreeNonce /\ Noted
  /\ NonceOnce

-----------------------------------------------------------------------------
(***************************************************************************)
(* Handlers keep their shape.                                              *)
(***************************************************************************)
LEMMA IdleIsTyped == Idle \in Handler
  BY DEF Idle, Handler

LEMMA EndsTyped ==
  ASSUME calls \in [Call -> Handler], NEW c \in Call, Ends(c)
  PROVE  calls' \in [Call -> Handler]
  BY IdleIsTyped DEF Ends

LEMMA ToTyped ==
  ASSUME calls \in [Call -> Handler], NEW c \in Call,
         NEW s \in {"idle", "admit", "estimate", "mark", "lock", "watch"} \cup Inside, To(c, s)
  PROVE  calls' \in [Call -> Handler]
<1>1. [calls[c] EXCEPT !.at = s] \in Handler
  BY DEF Handler
<1> QED BY <1>1 DEF To

LEMMA PickTyped ==
  ASSUME calls \in [Call -> Handler], NEW c \in Call, last \in Nat \cup {-1}, NEW n \in Nat, Pick(c, n)
  PROVE  /\ calls' \in [Call -> Handler]
         /\ calls' = [calls EXCEPT ![c].at = "send", ![c].nonce = NonceOf(n)]
         /\ NonceOf(n) \in Nat
<1>1. NonceOf(n) \in Nat
  BY DEF NonceOf
<1>2. [calls[c] EXCEPT !.at = "send", !.nonce = NonceOf(n)] \in Handler
  BY <1>1 DEF Handler, Inside
<1> QED BY <1>1, <1>2 DEF Pick

-----------------------------------------------------------------------------
(***************************************************************************)
(* The pending count.                                                      *)
(***************************************************************************)
LEMMA PendingIsFirstFree ==
  ASSUME TypeOK, Contiguous
  PROVE  /\ Pending \in 0..MaxSent
         /\ Below(Pending) /\ NoneFrom(Pending)
<1> DEFINE First(n) == /\ n < MaxSent => slot[n] = None
                      /\ \A k \in 0..n - 1 : slot[k] # None
<1>1. PICK p \in 0..MaxSent : Below(p) /\ NoneFrom(p)
  BY DEF Contiguous
<1>2. First(p)
  BY <1>1, RelayAssumption DEF Below, NoneFrom, Nonce
<1>3. Pending \in 0..MaxSent /\ First(Pending)
  BY <1>2 DEF Pending
<1>4. Pending = p
  BY <1>1, <1>3, RelayAssumption DEF Below, NoneFrom, Nonce
<1> QED BY <1>1, <1>4

\* A broadcast fills the nonce it is for, and leaves no gap below it.
Fills(n) ==
  /\ n \in Nonce
  /\ \A k \in Nonce : slot[k] # None => slot'[k] # None
  /\ \A k \in Nonce : k <= n => slot'[k] # None
  /\ NoneFrom(n) => \A k \in Nonce : k > n => slot'[k] = None
  /\ Contiguous'
  /\ clash' = (clash \/ slot[n] # None)

LEMMA TakenFills ==
  ASSUME NEW c \in Call, IInv, calls[c].at = "send", Taken(c), NEW n, n = calls[c].nonce
  PROVE  Fills(n)
<1> USE RelayAssumption DEF Nonce
<1>1. n \in Nonce /\ calls[c].tx \in Tx /\ calls[c].tx # None /\ Below(n)
  BY DEF Taken, IInv, Shape, Reached
<1>2. slot \in [Nonce -> Tx \cup {None}] /\ slot' = [slot EXCEPT ![n] = calls[c].tx]
  BY DEF Taken, IInv, TypeOK
<1>3. \A k \in Nonce : slot'[k] = IF k = n THEN calls[c].tx ELSE slot[k]
  BY <1>1, <1>2
<1>4. \A k \in Nonce : slot[k] # None => slot'[k] # None
  BY <1>1, <1>3
<1>5. \A k \in Nonce : k <= n => slot'[k] # None
  BY <1>1, <1>3 DEF Below
<1>6. NoneFrom(n) => \A k \in Nonce : k > n => slot'[k] = None
  BY <1>1, <1>3 DEF NoneFrom
<1>7. Contiguous'
  <2>1. PICK p \in 0..MaxSent : Below(p) /\ NoneFrom(p)
    BY DEF IInv, Contiguous
  <2>2. n <= p
    BY <1>1, <2>1 DEF Below, NoneFrom
  <2>3. CASE n = p
    <3>1. n + 1 \in 0..MaxSent /\ Below(n + 1)' /\ NoneFrom(n + 1)'
      BY <1>1, <1>5, <1>6, <2>1, <2>3 DEF Below, NoneFrom
    <3> QED BY <3>1 DEF Contiguous
  <2>4. CASE n < p
    <3>1. Below(p)' /\ NoneFrom(p)'
      BY <1>1, <1>3, <2>1, <2>4 DEF Below, NoneFrom
    <3> QED BY <2>1, <3>1 DEF Contiguous
  <2> QED BY <1>1, <2>1, <2>2, <2>3, <2>4
<1> QED BY <1>1, <1>4, <1>5, <1>6, <1>7 DEF Fills, Taken

-----------------------------------------------------------------------------
(***************************************************************************)
(* Every step keeps the invariant: one lemma per action, one step per      *)
(* conjunct.                                                               *)
(***************************************************************************)
LEMMA AdmitKeeps ==
  ASSUME NEW c \in Call, IInv, Admit(c)
  PROVE  IInv'
<1> USE RelayAssumption DEF IInv, TypeOK, Handler, Inside
<1>1. calls' \in [Call -> Handler]
  BY EndsTyped, ToTyped DEF Admit
<1>2. TypeOK'
  BY <1>1 DEF Shape, Admit, Ends, To, At, Idle, Inside, store, chain, history
<1>3. Shape'
  BY <1>1 DEF Shape, Tx, Admit, Ends, To, At, Idle, Inside, store, chain, history
<1>4. Marked'
  BY <1>1 DEF Marked, Admit, Ends, To, At, Idle, Inside, store, chain, history
<1>5. Unsent'
  BY <1>1 DEF Unsent, Armed, Shape, Remembered, Marked, ToldIsSent, Told, Admit, Ends, To, At, Idle, Inside, store, chain, history
<1>6. ToldIsSent'
  BY <1>1 DEF ToldIsSent, Told, Shape, Admit, Ends, To, At, Idle, Inside, store, chain, history
<1>7. Remembered'
  BY <1>1 DEF Remembered, Marked, Shape, Admit, Ends, To, At, Idle, Inside, store, chain, history
<1>8. Alone'
  BY <1>1 DEF Alone, Admit, Ends, To, At, Idle, Inside, store, chain, history
<1>9. Contiguous'
  BY <1>1 DEF Contiguous, Below, NoneFrom, Admit, Ends, To, At, Idle, Inside, store, chain, history
<1>10. Reached'
  BY <1>1 DEF Reached, Below, Admit, Ends, To, At, Idle, Inside, store, chain, history
<1>11. FreeNonce'
  BY <1>1 DEF FreeNonce, Excused, NoneFrom, Alone, Admit, Ends, To, At, Idle, Inside, store, chain, history
<1>12. Noted'
  BY <1>1 DEF Noted, NoneFrom, Alone, Admit, Ends, To, At, Idle, Inside, store, chain, history
<1>13. NonceOnce'
  BY <1>1 DEF NonceOnce, Admit, Ends, To, At, Idle, Inside, store, chain, history
<1> QED BY <1>2, <1>3, <1>4, <1>5, <1>6, <1>7, <1>8, <1>9, <1>10, <1>11, <1>12, <1>13 DEF IInv

LEMMA EstimateKeeps ==
  ASSUME NEW c \in Call, IInv, Estimate(c)
  PROVE  IInv'
<1> USE RelayAssumption DEF IInv, TypeOK, Handler, Inside
<1>1. calls' \in [Call -> Handler]
  BY EndsTyped, ToTyped DEF Estimate
<1>2. TypeOK'
  BY <1>1 DEF Shape, Estimate, Ends, To, At, Idle, Inside, store, chain, history
<1>3. Shape'
  BY <1>1 DEF Shape, Tx, Estimate, Ends, To, At, Idle, Inside, store, chain, history
<1>4. Marked'
  BY <1>1 DEF Marked, Estimate, Ends, To, At, Idle, Inside, store, chain, history
<1>5. Unsent'
<2>1. \A d \in Call : Armed(d)' => Armed(d) /\ calls'[d].tx = calls[d].tx
  BY <1>1 DEF Armed, Estimate, Ends, To, At, Idle
<2> QED BY <2>1 DEF Unsent, Estimate, history, store
<1>6. ToldIsSent'
  BY <1>1 DEF ToldIsSent, Told, Shape, Estimate, Ends, To, At, Idle, Inside, store, chain, history
<1>7. Remembered'
  BY <1>1 DEF Remembered, Marked, Shape, Estimate, Ends, To, At, Idle, Inside, store, chain, history
<1>8. Alone'
  BY <1>1 DEF Alone, Estimate, Ends, To, At, Idle, Inside, store, chain, history
<1>9. Contiguous'
  BY <1>1 DEF Contiguous, Below, NoneFrom, Estimate, Ends, To, At, Idle, Inside, store, chain, history
<1>10. Reached'
  BY <1>1 DEF Reached, Below, Estimate, Ends, To, At, Idle, Inside, store, chain, history
<1>11. FreeNonce'
  BY <1>1 DEF FreeNonce, Excused, NoneFrom, Alone, Estimate, Ends, To, At, Idle, Inside, store, chain, history
<1>12. Noted'
  BY <1>1 DEF Noted, NoneFrom, Alone, Estimate, Ends, To, At, Idle, Inside, store, chain, history
<1>13. NonceOnce'
  BY <1>1 DEF NonceOnce, Estimate, Ends, To, At, Idle, Inside, store, chain, history
<1> QED BY <1>2, <1>3, <1>4, <1>5, <1>6, <1>7, <1>8, <1>9, <1>10, <1>11, <1>12, <1>13 DEF IInv

LEMMA OnceKeeps ==
  ASSUME NEW c \in Call, IInv, Once(c)
  PROVE  IInv'
<1> USE RelayAssumption DEF IInv, TypeOK, Handler, Inside
<1>1. calls' \in [Call -> Handler]
  BY EndsTyped, ToTyped DEF Once, Fresh
<1>2. TypeOK'
  BY <1>1 DEF Shape, Once, Fresh, Ends, To, At, Idle, Inside, store, chain, history
<1>3. Shape'
  BY <1>1 DEF Shape, Tx, Once, Fresh, Ends, To, At, Idle, Inside, store, chain, history
<1>4. Marked'
  BY <1>1 DEF Marked, Once, Fresh, Ends, To, At, Idle, Inside, store, chain, history
<1>5. Unsent'
  BY <1>1 DEF Unsent, Armed, Shape, Remembered, Marked, ToldIsSent, Told, Once, Fresh, Ends, To, At, Idle, Inside, store, chain, history
<1>6. ToldIsSent'
  BY <1>1 DEF ToldIsSent, Told, Shape, Once, Fresh, Ends, To, At, Idle, Inside, store, chain, history
<1>7. Remembered'
  BY <1>1 DEF Remembered, Marked, Shape, Once, Fresh, Ends, To, At, Idle, Inside, store, chain, history
<1>8. Alone'
  BY <1>1 DEF Alone, Once, Fresh, Ends, To, At, Idle, Inside, store, chain, history
<1>9. Contiguous'
  BY <1>1 DEF Contiguous, Below, NoneFrom, Once, Fresh, Ends, To, At, Idle, Inside, store, chain, history
<1>10. Reached'
  BY <1>1 DEF Reached, Below, Once, Fresh, Ends, To, At, Idle, Inside, store, chain, history
<1>11. FreeNonce'
  BY <1>1 DEF FreeNonce, Excused, NoneFrom, Alone, Once, Fresh, Ends, To, At, Idle, Inside, store, chain, history
<1>12. Noted'
  BY <1>1 DEF Noted, NoneFrom, Alone, Once, Fresh, Ends, To, At, Idle, Inside, store, chain, history
<1>13. NonceOnce'
  BY <1>1 DEF NonceOnce, Once, Fresh, Ends, To, At, Idle, Inside, store, chain, history
<1> QED BY <1>2, <1>3, <1>4, <1>5, <1>6, <1>7, <1>8, <1>9, <1>10, <1>11, <1>12, <1>13 DEF IInv

LEMMA GivesUpKeeps ==
  ASSUME NEW c \in Call, IInv, GivesUp(c)
  PROVE  IInv'
<1> USE RelayAssumption DEF IInv, TypeOK, Handler, Inside
<1>1. calls' \in [Call -> Handler]
  BY EndsTyped, ToTyped DEF GivesUp
<1>2. TypeOK'
  BY <1>1 DEF Shape, GivesUp, Ends, To, At, Idle, Inside, store, chain, history
<1>3. Shape'
  BY <1>1 DEF Shape, Tx, GivesUp, Ends, To, At, Idle, Inside, store, chain, history
<1>4. Marked'
  BY <1>1 DEF Marked, GivesUp, Ends, To, At, Idle, Inside, store, chain, history
<1>5. Unsent'
  BY <1>1 DEF Unsent, Armed, Shape, Remembered, Marked, ToldIsSent, Told, GivesUp, Ends, To, At, Idle, Inside, store, chain, history
<1>6. ToldIsSent'
  BY <1>1 DEF ToldIsSent, Told, Shape, GivesUp, Ends, To, At, Idle, Inside, store, chain, history
<1>7. Remembered'
  BY <1>1 DEF Remembered, Marked, Shape, GivesUp, Ends, To, At, Idle, Inside, store, chain, history
<1>8. Alone'
  BY <1>1 DEF Alone, GivesUp, Ends, To, At, Idle, Inside, store, chain, history
<1>9. Contiguous'
  BY <1>1 DEF Contiguous, Below, NoneFrom, GivesUp, Ends, To, At, Idle, Inside, store, chain, history
<1>10. Reached'
  BY <1>1 DEF Reached, Below, GivesUp, Ends, To, At, Idle, Inside, store, chain, history
<1>11. FreeNonce'
  BY <1>1 DEF FreeNonce, Excused, NoneFrom, Alone, GivesUp, Ends, To, At, Idle, Inside, store, chain, history
<1>12. Noted'
  BY <1>1 DEF Noted, NoneFrom, Alone, GivesUp, Ends, To, At, Idle, Inside, store, chain, history
<1>13. NonceOnce'
  BY <1>1 DEF NonceOnce, GivesUp, Ends, To, At, Idle, Inside, store, chain, history
<1> QED BY <1>2, <1>3, <1>4, <1>5, <1>6, <1>7, <1>8, <1>9, <1>10, <1>11, <1>12, <1>13 DEF IInv

LEMMA TakesKeeps ==
  ASSUME NEW c \in Call, IInv, Takes(c)
  PROVE  IInv'
<1> USE RelayAssumption DEF IInv, TypeOK, Handler, Inside
<1>1. calls' \in [Call -> Handler]
  BY EndsTyped, ToTyped DEF Takes
<1>2. TypeOK'
  BY <1>1 DEF Shape, Takes, Ends, To, At, Idle, Inside, store, chain, history
<1>3. Shape'
  BY <1>1 DEF Shape, Tx, Takes, Ends, To, At, Idle, Inside, store, chain, history
<1>4. Marked'
  BY <1>1 DEF Marked, Takes, Ends, To, At, Idle, Inside, store, chain, history
<1>5. Unsent'
  BY <1>1 DEF Unsent, Armed, Shape, Remembered, Marked, ToldIsSent, Told, Takes, Ends, To, At, Idle, Inside, store, chain, history
<1>6. ToldIsSent'
  BY <1>1 DEF ToldIsSent, Told, Shape, Takes, Ends, To, At, Idle, Inside, store, chain, history
<1>7. Remembered'
  BY <1>1 DEF Remembered, Marked, Shape, Takes, Ends, To, At, Idle, Inside, store, chain, history
<1>8. Alone'
  BY <1>1 DEF Alone, Takes, Ends, To, At, Idle, Inside, store, chain, history
<1>9. Contiguous'
  BY <1>1 DEF Contiguous, Below, NoneFrom, Takes, Ends, To, At, Idle, Inside, store, chain, history
<1>10. Reached'
  BY <1>1 DEF Reached, Below, Takes, Ends, To, At, Idle, Inside, store, chain, history
<1>11. FreeNonce'
  BY <1>1 DEF FreeNonce, Excused, NoneFrom, Alone, Takes, Ends, To, At, Idle, Inside, store, chain, history
<1>12. Noted'
  BY <1>1 DEF Noted, NoneFrom, Alone, Takes, Ends, To, At, Idle, Inside, store, chain, history
<1>13. NonceOnce'
  BY <1>1 DEF NonceOnce, Takes, Ends, To, At, Idle, Inside, store, chain, history
<1> QED BY <1>2, <1>3, <1>4, <1>5, <1>6, <1>7, <1>8, <1>9, <1>10, <1>11, <1>12, <1>13 DEF IInv

LEMMA CannotSendKeeps ==
  ASSUME NEW c \in Call, IInv, CannotSend(c)
  PROVE  IInv'
<1> USE RelayAssumption DEF IInv, TypeOK, Handler, Inside
<1>1. calls' \in [Call -> Handler]
  BY EndsTyped, ToTyped DEF CannotSend
<1>2. TypeOK'
  BY <1>1 DEF Shape, CannotSend, Ends, To, At, Idle, Inside, store, chain, history
<1>3. Shape'
  BY <1>1 DEF Shape, Tx, CannotSend, Ends, To, At, Idle, Inside, store, chain, history
<1>4. Marked'
  BY <1>1 DEF Marked, CannotSend, Ends, To, At, Idle, Inside, store, chain, history
<1>5. Unsent'
  BY <1>1 DEF Unsent, Armed, Shape, Remembered, Marked, ToldIsSent, Told, CannotSend, Ends, To, At, Idle, Inside, store, chain, history
<1>6. ToldIsSent'
  BY <1>1 DEF ToldIsSent, Told, Shape, CannotSend, Ends, To, At, Idle, Inside, store, chain, history
<1>7. Remembered'
  BY <1>1 DEF Remembered, Marked, Shape, CannotSend, Ends, To, At, Idle, Inside, store, chain, history
<1>8. Alone'
  BY <1>1 DEF Alone, CannotSend, Ends, To, At, Idle, Inside, store, chain, history
<1>9. Contiguous'
  BY <1>1 DEF Contiguous, Below, NoneFrom, CannotSend, Ends, To, At, Idle, Inside, store, chain, history
<1>10. Reached'
  BY <1>1 DEF Reached, Below, CannotSend, Ends, To, At, Idle, Inside, store, chain, history
<1>11. FreeNonce'
  BY <1>1 DEF FreeNonce, Excused, NoneFrom, Alone, CannotSend, Ends, To, At, Idle, Inside, store, chain, history
<1>12. Noted'
  BY <1>1 DEF Noted, NoneFrom, Alone, CannotSend, Ends, To, At, Idle, Inside, store, chain, history
<1>13. NonceOnce'
  BY <1>1 DEF NonceOnce, CannotSend, Ends, To, At, Idle, Inside, store, chain, history
<1> QED BY <1>2, <1>3, <1>4, <1>5, <1>6, <1>7, <1>8, <1>9, <1>10, <1>11, <1>12, <1>13 DEF IInv

LEMMA NoteKeeps ==
  ASSUME NEW c \in Call, IInv, Note(c)
  PROVE  IInv'
<1> USE RelayAssumption DEF IInv, TypeOK, Handler, Inside
<1>1. calls' \in [Call -> Handler]
  BY EndsTyped, ToTyped DEF Note
<1>2. TypeOK'
  BY <1>1 DEF Shape, Note, Ends, To, At, Idle, Inside, store, chain, history
<1>3. Shape'
  BY <1>1 DEF Shape, Tx, Note, Ends, To, At, Idle, Inside, store, chain, history
<1>4. Marked'
  BY <1>1 DEF Marked, Note, Ends, To, At, Idle, Inside, store, chain, history
<1>5. Unsent'
  BY <1>1 DEF Unsent, Armed, Shape, Remembered, Marked, ToldIsSent, Told, Note, Ends, To, At, Idle, Inside, store, chain, history
<1>6. ToldIsSent'
  BY <1>1 DEF ToldIsSent, Told, Shape, Note, Ends, To, At, Idle, Inside, store, chain, history
<1>7. Remembered'
  BY <1>1 DEF Remembered, Marked, Shape, Note, Ends, To, At, Idle, Inside, store, chain, history
<1>8. Alone'
  BY <1>1 DEF Alone, Note, Ends, To, At, Idle, Inside, store, chain, history
<1>9. Contiguous'
  BY <1>1 DEF Contiguous, Below, NoneFrom, Note, Ends, To, At, Idle, Inside, store, chain, history
<1>10. Reached'
  BY <1>1 DEF Reached, Below, Note, Ends, To, At, Idle, Inside, store, chain, history
<1>11. FreeNonce'
  BY <1>1 DEF FreeNonce, Excused, NoneFrom, Alone, Note, Ends, To, At, Idle, Inside, store, chain, history
<1>12. Noted'
  BY <1>1 DEF Noted, NoneFrom, Alone, Note, Ends, To, At, Idle, Inside, store, chain, history
<1>13. NonceOnce'
  BY <1>1 DEF NonceOnce, Note, Ends, To, At, Idle, Inside, store, chain, history
<1> QED BY <1>2, <1>3, <1>4, <1>5, <1>6, <1>7, <1>8, <1>9, <1>10, <1>11, <1>12, <1>13 DEF IInv

LEMMA UnlockKeeps ==
  ASSUME NEW c \in Call, IInv, Unlock(c)
  PROVE  IInv'
<1> USE RelayAssumption DEF IInv, TypeOK, Handler, Inside
<1>1. calls' \in [Call -> Handler]
  BY EndsTyped, ToTyped DEF Unlock
<1>2. TypeOK'
  BY <1>1 DEF Shape, Unlock, Ends, To, At, Idle, Inside, store, chain, history
<1>3. Shape'
  BY <1>1 DEF Shape, Tx, Unlock, Ends, To, At, Idle, Inside, store, chain, history
<1>4. Marked'
  BY <1>1 DEF Marked, Unlock, Ends, To, At, Idle, Inside, store, chain, history
<1>5. Unsent'
  BY <1>1 DEF Unsent, Armed, Shape, Remembered, Marked, ToldIsSent, Told, Unlock, Ends, To, At, Idle, Inside, store, chain, history
<1>6. ToldIsSent'
  BY <1>1 DEF ToldIsSent, Told, Shape, Unlock, Ends, To, At, Idle, Inside, store, chain, history
<1>7. Remembered'
  BY <1>1 DEF Remembered, Marked, Shape, Unlock, Ends, To, At, Idle, Inside, store, chain, history
<1>8. Alone'
  BY <1>1 DEF Alone, Unlock, Ends, To, At, Idle, Inside, store, chain, history
<1>9. Contiguous'
  BY <1>1 DEF Contiguous, Below, NoneFrom, Unlock, Ends, To, At, Idle, Inside, store, chain, history
<1>10. Reached'
  BY <1>1 DEF Reached, Below, Unlock, Ends, To, At, Idle, Inside, store, chain, history
<1>11. FreeNonce'
  BY <1>1 DEF FreeNonce, Excused, NoneFrom, Alone, Unlock, Ends, To, At, Idle, Inside, store, chain, history
<1>12. Noted'
  BY <1>1 DEF Noted, NoneFrom, Alone, Unlock, Ends, To, At, Idle, Inside, store, chain, history
<1>13. NonceOnce'
  BY <1>1 DEF NonceOnce, Unlock, Ends, To, At, Idle, Inside, store, chain, history
<1> QED BY <1>2, <1>3, <1>4, <1>5, <1>6, <1>7, <1>8, <1>9, <1>10, <1>11, <1>12, <1>13 DEF IInv

LEMMA ConfirmedKeeps ==
  ASSUME NEW c \in Call, IInv, Confirmed(c)
  PROVE  IInv'
<1> USE RelayAssumption DEF IInv, TypeOK, Handler, Inside
<1>1. calls' \in [Call -> Handler]
  BY EndsTyped, ToTyped DEF Confirmed
<1>2. TypeOK'
  BY <1>1 DEF Shape, Confirmed, Ends, To, At, Idle, Inside, store, chain, history
<1>3. Shape'
  BY <1>1 DEF Shape, Tx, Confirmed, Ends, To, At, Idle, Inside, store, chain, history
<1>4. Marked'
  BY <1>1 DEF Marked, Confirmed, Ends, To, At, Idle, Inside, store, chain, history
<1>5. Unsent'
  BY <1>1 DEF Unsent, Armed, Shape, Remembered, Marked, ToldIsSent, Told, Confirmed, Ends, To, At, Idle, Inside, store, chain, history
<1>6. ToldIsSent'
  BY <1>1 DEF ToldIsSent, Told, Shape, Confirmed, Ends, To, At, Idle, Inside, store, chain, history
<1>7. Remembered'
  BY <1>1 DEF Remembered, Marked, Shape, Confirmed, Ends, To, At, Idle, Inside, store, chain, history
<1>8. Alone'
  BY <1>1 DEF Alone, Confirmed, Ends, To, At, Idle, Inside, store, chain, history
<1>9. Contiguous'
  BY <1>1 DEF Contiguous, Below, NoneFrom, Confirmed, Ends, To, At, Idle, Inside, store, chain, history
<1>10. Reached'
  BY <1>1 DEF Reached, Below, Confirmed, Ends, To, At, Idle, Inside, store, chain, history
<1>11. FreeNonce'
  BY <1>1 DEF FreeNonce, Excused, NoneFrom, Alone, Confirmed, Ends, To, At, Idle, Inside, store, chain, history
<1>12. Noted'
  BY <1>1 DEF Noted, NoneFrom, Alone, Confirmed, Ends, To, At, Idle, Inside, store, chain, history
<1>13. NonceOnce'
  BY <1>1 DEF NonceOnce, Confirmed, Ends, To, At, Idle, Inside, store, chain, history
<1> QED BY <1>2, <1>3, <1>4, <1>5, <1>6, <1>7, <1>8, <1>9, <1>10, <1>11, <1>12, <1>13 DEF IInv

LEMMA StopsWatchingKeeps ==
  ASSUME NEW c \in Call, IInv, StopsWatching(c)
  PROVE  IInv'
<1> USE RelayAssumption DEF IInv, TypeOK, Handler, Inside
<1>1. calls' \in [Call -> Handler]
  BY EndsTyped, ToTyped DEF StopsWatching
<1>2. TypeOK'
  BY <1>1 DEF Shape, StopsWatching, Ends, To, At, Idle, Inside, store, chain, history
<1>3. Shape'
  BY <1>1 DEF Shape, Tx, StopsWatching, Ends, To, At, Idle, Inside, store, chain, history
<1>4. Marked'
  BY <1>1 DEF Marked, StopsWatching, Ends, To, At, Idle, Inside, store, chain, history
<1>5. Unsent'
  BY <1>1 DEF Unsent, Armed, Shape, Remembered, Marked, ToldIsSent, Told, StopsWatching, Ends, To, At, Idle, Inside, store, chain, history
<1>6. ToldIsSent'
  BY <1>1 DEF ToldIsSent, Told, Shape, StopsWatching, Ends, To, At, Idle, Inside, store, chain, history
<1>7. Remembered'
  BY <1>1 DEF Remembered, Marked, Shape, StopsWatching, Ends, To, At, Idle, Inside, store, chain, history
<1>8. Alone'
  BY <1>1 DEF Alone, StopsWatching, Ends, To, At, Idle, Inside, store, chain, history
<1>9. Contiguous'
  BY <1>1 DEF Contiguous, Below, NoneFrom, StopsWatching, Ends, To, At, Idle, Inside, store, chain, history
<1>10. Reached'
  BY <1>1 DEF Reached, Below, StopsWatching, Ends, To, At, Idle, Inside, store, chain, history
<1>11. FreeNonce'
  BY <1>1 DEF FreeNonce, Excused, NoneFrom, Alone, StopsWatching, Ends, To, At, Idle, Inside, store, chain, history
<1>12. Noted'
  BY <1>1 DEF Noted, NoneFrom, Alone, StopsWatching, Ends, To, At, Idle, Inside, store, chain, history
<1>13. NonceOnce'
  BY <1>1 DEF NonceOnce, StopsWatching, Ends, To, At, Idle, Inside, store, chain, history
<1> QED BY <1>2, <1>3, <1>4, <1>5, <1>6, <1>7, <1>8, <1>9, <1>10, <1>11, <1>12, <1>13 DEF IInv

LEMMA RevertedKeeps ==
  ASSUME NEW c \in Call, IInv, Reverted(c)
  PROVE  IInv'
<1> USE RelayAssumption DEF IInv, TypeOK, Handler, Inside
<1>1. calls' \in [Call -> Handler]
  BY EndsTyped, ToTyped DEF Reverted, Forgiven, Mined
<1>2. TypeOK'
<2>1. calls[c].tx \in Signed
  BY DEF Shape, Reverted, At
<2>2. swaprev' \in Nat /\ (swaprev' >= SwapReverts => bad')
  <3>1. CASE Forgiven(calls[c].tx)
    BY <3>1 DEF Reverted, Forgiven
  <3>2. CASE ~Forgiven(calls[c].tx)
    <4>1. bad'
      BY <3>2, Zenon DEF Reverted
    <4>2. swaprev' \in Nat
      BY DEF Reverted
    <4> QED BY <4>1, <4>2
  <3> QED BY <3>1, <3>2
<2>3. caught' \subseteq Signed /\ bad' \in BOOLEAN
  BY <2>1 DEF Reverted
<2> QED BY <1>1, <2>2, <2>3 DEF Reverted, chain
<1>3. Shape'
  BY <1>1 DEF Shape, Tx, Reverted, Forgiven, Mined, Ends, To, At, Idle, Inside, store, chain, history
<1>4. Marked'
  BY <1>1 DEF Marked, Reverted, Forgiven, Mined, Ends, To, At, Idle, Inside, store, chain, history
<1>5. Unsent'
  BY <1>1 DEF Unsent, Armed, Shape, Remembered, Marked, ToldIsSent, Told, Reverted, Forgiven, Mined, Ends, To, At, Idle, Inside, store, chain, history
<1>6. ToldIsSent'
  BY <1>1 DEF ToldIsSent, Told, Shape, Reverted, Forgiven, Mined, Ends, To, At, Idle, Inside, store, chain, history
<1>7. Remembered'
<2>1. calls[c].tx \in Signed /\ calls[c].tx \in mark
  BY DEF Shape, Marked, Reverted, At
<2>2. \A t \in caught' : bad' /\ (t \in caught \/ t \in mark)
  <3>1. CASE Forgiven(calls[c].tx)
    BY <3>1 DEF Reverted, Remembered
  <3>2. CASE ~Forgiven(calls[c].tx)
    <4>1. bad' /\ caught' = caught \cup {calls[c].tx}
      BY <3>2 DEF Reverted
    <4> QED BY <2>1, <4>1 DEF Remembered
  <3> QED BY <3>1, <3>2
<2>3. \A d \in Call : calls'[d] = calls[d] \/ calls'[d].at = "idle"
  BY DEF Reverted, Ends, Idle
<2>4. mark' = mark /\ sent' = sent
  BY DEF Reverted
<2> QED BY <2>2, <2>3, <2>4 DEF Remembered
<1>8. Alone'
  BY <1>1 DEF Alone, Reverted, Forgiven, Mined, Ends, To, At, Idle, Inside, store, chain, history
<1>9. Contiguous'
  BY <1>1 DEF Contiguous, Below, NoneFrom, Reverted, Forgiven, Mined, Ends, To, At, Idle, Inside, store, chain, history
<1>10. Reached'
  BY <1>1 DEF Reached, Below, Reverted, Forgiven, Mined, Ends, To, At, Idle, Inside, store, chain, history
<1>11. FreeNonce'
  BY <1>1 DEF FreeNonce, Excused, NoneFrom, Alone, Reverted, Forgiven, Mined, Ends, To, At, Idle, Inside, store, chain, history
<1>12. Noted'
  BY <1>1 DEF Noted, NoneFrom, Alone, Reverted, Forgiven, Mined, Ends, To, At, Idle, Inside, store, chain, history
<1>13. NonceOnce'
  BY <1>1 DEF NonceOnce, Reverted, Forgiven, Mined, Ends, To, At, Idle, Inside, store, chain, history
<1> QED BY <1>2, <1>3, <1>4, <1>5, <1>6, <1>7, <1>8, <1>9, <1>10, <1>11, <1>12, <1>13 DEF IInv

LEMMA CrashKeeps ==
  ASSUME NEW c \in Call, IInv, Crash(c)
  PROVE  IInv'
<1> USE RelayAssumption DEF IInv, TypeOK, Handler, Inside
<1>1. calls' \in [Call -> Handler]
  BY EndsTyped, ToTyped DEF Crash, Happens
<1>2. TypeOK'
  BY <1>1 DEF Shape, Crash, Happens, Ends, To, At, Idle, Inside, store, chain, history
<1>3. Shape'
  BY <1>1 DEF Shape, Tx, Crash, Happens, Ends, To, At, Idle, Inside, store, chain, history
<1>4. Marked'
  BY <1>1 DEF Marked, Crash, Happens, Ends, To, At, Idle, Inside, store, chain, history
<1>5. Unsent'
  BY <1>1 DEF Unsent, Armed, Shape, Remembered, Marked, ToldIsSent, Told, Crash, Happens, Ends, To, At, Idle, Inside, store, chain, history
<1>6. ToldIsSent'
  BY <1>1 DEF ToldIsSent, Told, Shape, Crash, Happens, Ends, To, At, Idle, Inside, store, chain, history
<1>7. Remembered'
  BY <1>1 DEF Remembered, Marked, Shape, Crash, Happens, Ends, To, At, Idle, Inside, store, chain, history
<1>8. Alone'
  BY <1>1 DEF Alone, Crash, Happens, Ends, To, At, Idle, Inside, store, chain, history
<1>9. Contiguous'
  BY <1>1 DEF Contiguous, Below, NoneFrom, Crash, Happens, Ends, To, At, Idle, Inside, store, chain, history
<1>10. Reached'
  BY <1>1 DEF Reached, Below, Crash, Happens, Ends, To, At, Idle, Inside, store, chain, history
<1>11. FreeNonce'
  BY <1>1 DEF FreeNonce, Excused, NoneFrom, Alone, Crash, Happens, Ends, To, At, Idle, Inside, store, chain, history
<1>12. Noted'
  BY <1>1 DEF Noted, NoneFrom, Alone, Crash, Happens, Ends, To, At, Idle, Inside, store, chain, history
<1>13. NonceOnce'
  BY <1>1 DEF NonceOnce, Crash, Happens, Ends, To, At, Idle, Inside, store, chain, history
<1> QED BY <1>2, <1>3, <1>4, <1>5, <1>6, <1>7, <1>8, <1>9, <1>10, <1>11, <1>12, <1>13 DEF IInv

LEMMA PostKeeps ==
  ASSUME NEW c \in Call, NEW t \in Signed, IInv, Post(c, t)
  PROVE  IInv'
<1> USE RelayAssumption DEF IInv, TypeOK, Handler, Inside
<1>1. calls' \in [Call -> Handler]
<2>1. [Idle EXCEPT !.at = "admit", !.tx = t] \in Handler
  BY DEF Idle, Tx
<2> QED BY <2>1 DEF Post, Begins
<1>2. TypeOK'
  BY <1>1 DEF Shape, Post, Begins, Ends, To, At, Idle, Inside, store, chain, history
<1>3. Shape'
  BY <1>1 DEF Shape, Tx, Post, Begins, Ends, To, At, Idle, Inside, store, chain, history
<1>4. Marked'
  BY <1>1 DEF Marked, Post, Begins, Ends, To, At, Idle, Inside, store, chain, history
<1>5. Unsent'
  BY <1>1 DEF Unsent, Armed, Shape, Remembered, Marked, ToldIsSent, Told, Post, Begins, Ends, To, At, Idle, Inside, store, chain, history
<1>6. ToldIsSent'
  BY <1>1 DEF ToldIsSent, Told, Shape, Post, Begins, Ends, To, At, Idle, Inside, store, chain, history
<1>7. Remembered'
  BY <1>1 DEF Remembered, Marked, Shape, Post, Begins, Ends, To, At, Idle, Inside, store, chain, history
<1>8. Alone'
  BY <1>1 DEF Alone, Post, Begins, Ends, To, At, Idle, Inside, store, chain, history
<1>9. Contiguous'
  BY <1>1 DEF Contiguous, Below, NoneFrom, Post, Begins, Ends, To, At, Idle, Inside, store, chain, history
<1>10. Reached'
  BY <1>1 DEF Reached, Below, Post, Begins, Ends, To, At, Idle, Inside, store, chain, history
<1>11. FreeNonce'
  BY <1>1 DEF FreeNonce, Excused, NoneFrom, Alone, Post, Begins, Ends, To, At, Idle, Inside, store, chain, history
<1>12. Noted'
  BY <1>1 DEF Noted, NoneFrom, Alone, Post, Begins, Ends, To, At, Idle, Inside, store, chain, history
<1>13. NonceOnce'
  BY <1>1 DEF NonceOnce, Post, Begins, Ends, To, At, Idle, Inside, store, chain, history
<1> QED BY <1>2, <1>3, <1>4, <1>5, <1>6, <1>7, <1>8, <1>9, <1>10, <1>11, <1>12, <1>13 DEF IInv

LEMMA ClaimKeeps ==
  ASSUME NEW c \in Call, NEW t \in Usdc \cup Eth, IInv, Claim(c, t)
  PROVE  IInv'
<1> USE RelayAssumption DEF IInv, TypeOK, Handler, Inside
<1>1. calls' \in [Call -> Handler]
<2>1. [Idle EXCEPT !.at = "lock", !.tx = t] \in Handler
  BY DEF Idle, Tx
<2> QED BY <2>1 DEF Claim, Begins
<1>2. TypeOK'
  BY <1>1 DEF Shape, Claim, Begins, Ends, To, At, Idle, Inside, store, chain, history
<1>3. Shape'
  BY <1>1 DEF Shape, Tx, Claim, Begins, Ends, To, At, Idle, Inside, store, chain, history
<1>4. Marked'
  BY <1>1 DEF Marked, Claim, Begins, Ends, To, At, Idle, Inside, store, chain, history
<1>5. Unsent'
  BY <1>1 DEF Unsent, Armed, Shape, Remembered, Marked, ToldIsSent, Told, Claim, Begins, Ends, To, At, Idle, Inside, store, chain, history
<1>6. ToldIsSent'
  BY <1>1 DEF ToldIsSent, Told, Shape, Claim, Begins, Ends, To, At, Idle, Inside, store, chain, history
<1>7. Remembered'
  BY <1>1 DEF Remembered, Marked, Shape, Claim, Begins, Ends, To, At, Idle, Inside, store, chain, history
<1>8. Alone'
  BY <1>1 DEF Alone, Claim, Begins, Ends, To, At, Idle, Inside, store, chain, history
<1>9. Contiguous'
  BY <1>1 DEF Contiguous, Below, NoneFrom, Claim, Begins, Ends, To, At, Idle, Inside, store, chain, history
<1>10. Reached'
  BY <1>1 DEF Reached, Below, Claim, Begins, Ends, To, At, Idle, Inside, store, chain, history
<1>11. FreeNonce'
  BY <1>1 DEF FreeNonce, Excused, NoneFrom, Alone, Claim, Begins, Ends, To, At, Idle, Inside, store, chain, history
<1>12. Noted'
  BY <1>1 DEF Noted, NoneFrom, Alone, Claim, Begins, Ends, To, At, Idle, Inside, store, chain, history
<1>13. NonceOnce'
  BY <1>1 DEF NonceOnce, Claim, Begins, Ends, To, At, Idle, Inside, store, chain, history
<1> QED BY <1>2, <1>3, <1>4, <1>5, <1>6, <1>7, <1>8, <1>9, <1>10, <1>11, <1>12, <1>13 DEF IInv

LEMMA BroadcastKeeps ==
  ASSUME NEW c \in Call, IInv, Broadcast(c)
  PROVE  IInv'
<1>0. Fills(calls[c].nonce)
  BY TakenFills DEF Broadcast, At
<1> USE RelayAssumption DEF IInv, TypeOK, Handler, Inside
<1>1. calls' \in [Call -> Handler]
<2>1. [calls[c] EXCEPT !.at = IF pot THEN "note" ELSE "unlock", !.ok = TRUE] \in Handler
  OBVIOUS
<2> QED BY <2>1 DEF Broadcast
<1>2. TypeOK'
  BY <1>1 DEF Shape, Broadcast, Taken, Ends, To, At, Idle, Inside, store, chain, history
<1>3. Shape'
  BY <1>1 DEF Shape, Tx, Broadcast, Taken, Ends, To, At, Idle, Inside, store, chain, history
<1>4. Marked'
  BY <1>1 DEF Marked, Broadcast, Taken, Ends, To, At, Idle, Inside, store, chain, history
<1>5. Unsent'
  BY <1>1 DEF Unsent, Armed, Shape, Remembered, Marked, ToldIsSent, Told, Broadcast, Taken, Ends, To, At, Idle, Inside, store, chain, history
<1>6. ToldIsSent'
  BY <1>1 DEF ToldIsSent, Told, Shape, Broadcast, Taken, Ends, To, At, Idle, Inside, store, chain, history
<1>7. Remembered'
  BY <1>1 DEF Remembered, Marked, Shape, Broadcast, Taken, Ends, To, At, Idle, Inside, store, chain, history
<1>8. Alone'
  BY <1>1 DEF Alone, Broadcast, Taken, Ends, To, At, Idle, Inside, store, chain, history
<1>9. Contiguous'
  BY <1>0 DEF Fills
<1>10. Reached'
<2>1. \A d \in Call : d # c => calls'[d] = calls[d]
  BY DEF Broadcast
<2>2. calls'[c].nonce = calls[c].nonce /\ calls'[c].at \in {"note", "unlock"}
  BY DEF Broadcast
<2>3. UNCHANGED <<last, settled, faults, pot>>
  BY DEF Broadcast, store
<2>4. calls[c].nonce \in Nonce /\ \A d \in Call : calls[d].nonce \in Nat
  BY <1>0 DEF Fills
<2>5. Reached
  OBVIOUS
<2> HIDE DEF IInv, TypeOK, Handler, Inside
<2>6. \A d \in Call : calls'[d].at = "send" => \A k \in Nonce : k < calls'[d].nonce => slot'[k] # None
  BY <1>0, <2>1, <2>2, <2>5 DEF Fills, Reached, Below
<2>7. \A d \in Call : calls'[d].at = "note" => \A k \in Nonce : k < calls'[d].nonce + 1 => slot'[k] # None
  <3>1. \A k \in Nonce : k < calls'[c].nonce + 1 => slot'[k] # None
    BY <1>0, <2>2, <2>4 DEF Fills, Nonce
  <3>2. \A d \in Call : d # c /\ calls'[d].at = "note" => \A k \in Nonce : k < calls'[d].nonce + 1 => slot'[k] # None
    BY <1>0, <2>1, <2>5 DEF Fills, Reached, Below
  <3> QED BY <3>1, <3>2
<2>8. \A k \in Nonce : (k < last' + 1 => slot'[k] # None) /\ (k < settled' => slot'[k] # None)
  BY <1>0, <2>3, <2>5 DEF Fills, Reached, Below
<2> QED BY <2>6, <2>7, <2>8 DEF Reached, Below
<1>11. FreeNonce'
  BY <1>1 DEF FreeNonce, Excused, NoneFrom, Alone, Broadcast, Taken, Ends, To, At, Idle, Inside, store, chain, history
<1>12. Noted'
<2>1. \A d \in Call : d # c => calls'[d] = calls[d]
  BY DEF Broadcast
<2>2. calls'[c].nonce = calls[c].nonce /\ calls'[c].at \in {"note", "unlock"}
  BY DEF Broadcast
<2>3. UNCHANGED <<last, settled, faults, pot>>
  BY DEF Broadcast, store
<2>4. calls[c].nonce \in Nonce /\ \A d \in Call : calls[d].nonce \in Nat
  BY <1>0 DEF Fills
<2>5. pot /\ faults \cap {"slow", "crash", "lost"} = {} => NoneFrom(calls[c].nonce)
  BY DEF FreeNonce, Excused, Broadcast, At
<2>6. pot => calls'[c].at = "note"
  BY DEF Broadcast
<2>7. calls[c].at \in Inside /\ Alone
  BY DEF Broadcast, At
<2> HIDE DEF IInv, TypeOK, Handler
<2>8. "slow" \notin faults => \A d \in Call : calls'[d].at = "note" => d = c
  BY <2>1, <2>7 DEF Alone
<2>9. NoneFrom(calls[c].nonce) => \A k \in Nonce : k >= calls'[c].nonce + 1 => slot'[k] = None
  BY <1>0, <2>2, <2>4 DEF Fills, Nonce
<2> QED BY <2>3, <2>5, <2>6, <2>8, <2>9 DEF Noted, NoneFrom
<1>13. NonceOnce'
<2>1. clash' => clash \/ Excused
  BY <1>0 DEF Fills, FreeNonce, NoneFrom, Broadcast, At
<2> QED BY <2>1 DEF NonceOnce, Excused, Broadcast, Happens
<1> QED BY <1>2, <1>3, <1>4, <1>5, <1>6, <1>7, <1>8, <1>9, <1>10, <1>11, <1>12, <1>13 DEF IInv

LEMMA AnswerLostKeeps ==
  ASSUME NEW c \in Call, IInv, AnswerLost(c)
  PROVE  IInv'
<1>0. Fills(calls[c].nonce)
  BY TakenFills DEF AnswerLost, At
<1> USE RelayAssumption DEF IInv, TypeOK, Handler, Inside
<1>1. calls' \in [Call -> Handler]
  BY EndsTyped, ToTyped DEF AnswerLost, Taken, Happens
<1>2. TypeOK'
  BY <1>1 DEF Shape, AnswerLost, Taken, Happens, Ends, To, At, Idle, Inside, store, chain, history
<1>3. Shape'
  BY <1>1 DEF Shape, Tx, AnswerLost, Taken, Happens, Ends, To, At, Idle, Inside, store, chain, history
<1>4. Marked'
  BY <1>1 DEF Marked, AnswerLost, Taken, Happens, Ends, To, At, Idle, Inside, store, chain, history
<1>5. Unsent'
  BY <1>1 DEF Unsent, Armed, Shape, Remembered, Marked, ToldIsSent, Told, AnswerLost, Taken, Happens, Ends, To, At, Idle, Inside, store, chain, history
<1>6. ToldIsSent'
  BY <1>1 DEF ToldIsSent, Told, Shape, AnswerLost, Taken, Happens, Ends, To, At, Idle, Inside, store, chain, history
<1>7. Remembered'
  BY <1>1 DEF Remembered, Marked, Shape, AnswerLost, Taken, Happens, Ends, To, At, Idle, Inside, store, chain, history
<1>8. Alone'
  BY <1>1 DEF Alone, AnswerLost, Taken, Happens, Ends, To, At, Idle, Inside, store, chain, history
<1>9. Contiguous'
  BY <1>0 DEF Fills
<1>10. Reached'
  BY <1>0, <1>1 DEF Fills, Reached, Below, AnswerLost, To, store
<1>11. FreeNonce'
  BY <1>1 DEF FreeNonce, Excused, NoneFrom, Alone, AnswerLost, Taken, Happens, Ends, To, At, Idle, Inside, store, chain, history
<1>12. Noted'
  BY <1>1 DEF Noted, NoneFrom, Alone, AnswerLost, Taken, Happens, Ends, To, At, Idle, Inside, store, chain, history
<1>13. NonceOnce'
<2>1. clash' => clash \/ Excused
  BY <1>0 DEF Fills, FreeNonce, NoneFrom, AnswerLost, At
<2> QED BY <2>1 DEF NonceOnce, Excused, AnswerLost, Happens
<1> QED BY <1>2, <1>3, <1>4, <1>5, <1>6, <1>7, <1>8, <1>9, <1>10, <1>11, <1>12, <1>13 DEF IInv

LEMMA MineKeeps ==
  ASSUME IInv, Mine
  PROVE  IInv'
<1> USE RelayAssumption DEF IInv, TypeOK, Handler, Inside
<1>1. calls' \in [Call -> Handler]
  BY DEF Mine
<1>2. TypeOK'
<2>1. mined' \in 0..MaxSent
  BY DEF Mine
<2>2. mined \in Nonce
  BY DEF Mine, Nonce
<2>3. failed' \subseteq Nonce
  BY <2>2 DEF Mine
<2> QED BY <1>1, <2>1, <2>3 DEF Mine, history, store
<1>3. Shape'
  BY <1>1 DEF Shape, Tx, Mine, Ends, To, At, Idle, Inside, store, chain, history
<1>4. Marked'
  BY <1>1 DEF Marked, Mine, Ends, To, At, Idle, Inside, store, chain, history
<1>5. Unsent'
  BY <1>1 DEF Unsent, Armed, Shape, Remembered, Marked, ToldIsSent, Told, Mine, Ends, To, At, Idle, Inside, store, chain, history
<1>6. ToldIsSent'
  BY <1>1 DEF ToldIsSent, Told, Shape, Mine, Ends, To, At, Idle, Inside, store, chain, history
<1>7. Remembered'
  BY <1>1 DEF Remembered, Marked, Shape, Mine, Ends, To, At, Idle, Inside, store, chain, history
<1>8. Alone'
  BY <1>1 DEF Alone, Mine, Ends, To, At, Idle, Inside, store, chain, history
<1>9. Contiguous'
  BY <1>1 DEF Contiguous, Below, NoneFrom, Mine, Ends, To, At, Idle, Inside, store, chain, history
<1>10. Reached'
  BY <1>1 DEF Reached, Below, Mine, Ends, To, At, Idle, Inside, store, chain, history
<1>11. FreeNonce'
  BY <1>1 DEF FreeNonce, Excused, NoneFrom, Alone, Mine, Ends, To, At, Idle, Inside, store, chain, history
<1>12. Noted'
  BY <1>1 DEF Noted, NoneFrom, Alone, Mine, Ends, To, At, Idle, Inside, store, chain, history
<1>13. NonceOnce'
  BY <1>1 DEF NonceOnce, Mine, Ends, To, At, Idle, Inside, store, chain, history
<1> QED BY <1>2, <1>3, <1>4, <1>5, <1>6, <1>7, <1>8, <1>9, <1>10, <1>11, <1>12, <1>13 DEF IInv

LEMMA LockExpiresKeeps ==
  ASSUME IInv, LockExpires
  PROVE  IInv'
<1> USE RelayAssumption DEF IInv, TypeOK, Handler, Inside
<1>1. calls' \in [Call -> Handler]
  BY DEF LockExpires
<1>2. TypeOK'
  BY <1>1 DEF Shape, LockExpires, Happens, Ends, To, At, Idle, Inside, store, chain, history
<1>3. Shape'
  BY <1>1 DEF Shape, Tx, LockExpires, Happens, Ends, To, At, Idle, Inside, store, chain, history
<1>4. Marked'
  BY <1>1 DEF Marked, LockExpires, Happens, Ends, To, At, Idle, Inside, store, chain, history
<1>5. Unsent'
  BY <1>1 DEF Unsent, Armed, Shape, Remembered, Marked, ToldIsSent, Told, LockExpires, Happens, Ends, To, At, Idle, Inside, store, chain, history
<1>6. ToldIsSent'
  BY <1>1 DEF ToldIsSent, Told, Shape, LockExpires, Happens, Ends, To, At, Idle, Inside, store, chain, history
<1>7. Remembered'
  BY <1>1 DEF Remembered, Marked, Shape, LockExpires, Happens, Ends, To, At, Idle, Inside, store, chain, history
<1>8. Alone'
  BY <1>1 DEF Alone, LockExpires, Happens, Ends, To, At, Idle, Inside, store, chain, history
<1>9. Contiguous'
  BY <1>1 DEF Contiguous, Below, NoneFrom, LockExpires, Happens, Ends, To, At, Idle, Inside, store, chain, history
<1>10. Reached'
  BY <1>1 DEF Reached, Below, LockExpires, Happens, Ends, To, At, Idle, Inside, store, chain, history
<1>11. FreeNonce'
  BY <1>1 DEF FreeNonce, Excused, NoneFrom, Alone, LockExpires, Happens, Ends, To, At, Idle, Inside, store, chain, history
<1>12. Noted'
  BY <1>1 DEF Noted, NoneFrom, Alone, LockExpires, Happens, Ends, To, At, Idle, Inside, store, chain, history
<1>13. NonceOnce'
  BY <1>1 DEF NonceOnce, LockExpires, Happens, Ends, To, At, Idle, Inside, store, chain, history
<1> QED BY <1>2, <1>3, <1>4, <1>5, <1>6, <1>7, <1>8, <1>9, <1>10, <1>11, <1>12, <1>13 DEF IInv

LEMMA HourPassesKeeps ==
  ASSUME IInv, HourPasses
  PROVE  IInv'
<1> USE RelayAssumption DEF IInv, TypeOK, Handler, Inside
<1>0. Pending \in 0..MaxSent /\ Below(Pending) /\ NoneFrom(Pending)
  BY PendingIsFirstFree
<1>1. calls' \in [Call -> Handler]
  BY DEF HourPasses
<1>2. TypeOK'
<2>1. last' \in Nonce \cup {-1} /\ settled' \in 0..MaxSent
  BY <1>0 DEF HourPasses
<2>2. swaprev' \in Nat /\ bad' \in BOOLEAN
  BY DEF HourPasses
<2>3. swaprev' >= SwapReverts => bad'
  BY DEF HourPasses
<2> QED BY <1>1, <2>1, <2>2, <2>3 DEF HourPasses, chain
<1>3. Shape'
  BY <1>0, <1>1 DEF Shape, Tx, HourPasses, Quiet, Ends, To, At, Idle, Inside, store, chain, history
<1>4. Marked'
  BY <1>0, <1>1 DEF Marked, HourPasses, Quiet, Ends, To, At, Idle, Inside, store, chain, history
<1>5. Unsent'
  BY <1>0, <1>1 DEF Unsent, Armed, Shape, Remembered, Marked, ToldIsSent, Told, HourPasses, Quiet, Ends, To, At, Idle, Inside, store, chain, history
<1>6. ToldIsSent'
  BY <1>0, <1>1 DEF ToldIsSent, Told, Shape, HourPasses, Quiet, Ends, To, At, Idle, Inside, store, chain, history
<1>7. Remembered'
  BY <1>0, <1>1 DEF Remembered, Marked, Shape, HourPasses, Quiet, Ends, To, At, Idle, Inside, store, chain, history
<1>8. Alone'
  BY <1>0, <1>1 DEF Alone, HourPasses, Quiet, Ends, To, At, Idle, Inside, store, chain, history
<1>9. Contiguous'
  BY <1>0, <1>1 DEF Contiguous, Below, NoneFrom, HourPasses, Quiet, Ends, To, At, Idle, Inside, store, chain, history
<1>10. Reached'
  BY <1>0, <1>1 DEF Reached, Below, Nonce, HourPasses, Quiet, At, chain
<1>11. FreeNonce'
  BY <1>0, <1>1 DEF FreeNonce, Excused, NoneFrom, Alone, HourPasses, Quiet, Ends, To, At, Idle, Inside, store, chain, history
<1>12. Noted'
  BY <1>0, <1>1 DEF Noted, NoneFrom, Alone, HourPasses, Quiet, Ends, To, At, Idle, Inside, store, chain, history
<1>13. NonceOnce'
  BY <1>0, <1>1 DEF NonceOnce, HourPasses, Quiet, Ends, To, At, Idle, Inside, store, chain, history
<1> QED BY <1>2, <1>3, <1>4, <1>5, <1>6, <1>7, <1>8, <1>9, <1>10, <1>11, <1>12, <1>13 DEF IInv

LEMMA DayPassesKeeps ==
  ASSUME IInv, DayPasses
  PROVE  IInv'
<1> USE RelayAssumption DEF IInv, TypeOK, Handler, Inside
<1>0. Pending \in 0..MaxSent /\ Below(Pending) /\ NoneFrom(Pending)
  BY PendingIsFirstFree
<1>1. calls' \in [Call -> Handler]
  BY DEF DayPasses
<1>2. TypeOK'
<2>1. last' \in Nonce \cup {-1} /\ settled' \in 0..MaxSent
  BY <1>0 DEF DayPasses
<2>2. swaprev' \in Nat /\ bad' \in BOOLEAN
  BY DEF DayPasses
<2>3. swaprev' >= SwapReverts => bad'
  BY DEF DayPasses
<2> QED BY <1>1, <2>1, <2>2, <2>3 DEF DayPasses, chain
<1>3. Shape'
  BY <1>0, <1>1 DEF Shape, Tx, DayPasses, Quiet, Ends, To, At, Idle, Inside, store, chain, history
<1>4. Marked'
  BY <1>0, <1>1 DEF Marked, DayPasses, Quiet, Ends, To, At, Idle, Inside, store, chain, history
<1>5. Unsent'
  BY <1>0, <1>1 DEF Unsent, Armed, Shape, Remembered, Marked, ToldIsSent, Told, DayPasses, Quiet, Ends, To, At, Idle, Inside, store, chain, history
<1>6. ToldIsSent'
  BY <1>0, <1>1 DEF ToldIsSent, Told, Shape, DayPasses, Quiet, Ends, To, At, Idle, Inside, store, chain, history
<1>7. Remembered'
  BY <1>0, <1>1 DEF Remembered, Marked, Shape, DayPasses, Quiet, Ends, To, At, Idle, Inside, store, chain, history
<1>8. Alone'
  BY <1>0, <1>1 DEF Alone, DayPasses, Quiet, Ends, To, At, Idle, Inside, store, chain, history
<1>9. Contiguous'
  BY <1>0, <1>1 DEF Contiguous, Below, NoneFrom, DayPasses, Quiet, Ends, To, At, Idle, Inside, store, chain, history
<1>10. Reached'
  BY <1>0, <1>1 DEF Reached, Below, Nonce, DayPasses, Quiet, At, chain
<1>11. FreeNonce'
  BY <1>0, <1>1 DEF FreeNonce, Excused, NoneFrom, Alone, DayPasses, Quiet, Ends, To, At, Idle, Inside, store, chain, history
<1>12. Noted'
  BY <1>0, <1>1 DEF Noted, NoneFrom, Alone, DayPasses, Quiet, Ends, To, At, Idle, Inside, store, chain, history
<1>13. NonceOnce'
  BY <1>0, <1>1 DEF NonceOnce, DayPasses, Quiet, Ends, To, At, Idle, Inside, store, chain, history
<1> QED BY <1>2, <1>3, <1>4, <1>5, <1>6, <1>7, <1>8, <1>9, <1>10, <1>11, <1>12, <1>13 DEF IInv

-----------------------------------------------------------------------------
(***************************************************************************)
(* The choice of a nonce.                                                  *)
(***************************************************************************)
\* A handler that is told a count may pick a nonce that is taken only where it is excused.
LEMMA PickKeeps ==
  ASSUME NEW c \in Call, NEW n \in 0..MaxSent, IInv, Pick(c, n), Below(n),
         faults \subseteq faults', faults' \subseteq faults \cup {"lag"},
         Excused' \/ NoneFrom(NonceOf(n))
  PROVE  IInv'
<1> USE RelayAssumption
<1>0. TypeOK /\ last \in Nat \cup {-1} /\ n \in Nat
  BY DEF IInv, TypeOK, Nonce
<1>1. calls' \in [Call -> Handler] /\ calls' = [calls EXCEPT ![c].at = "send", ![c].nonce = NonceOf(n)]
  BY <1>0, PickTyped DEF TypeOK
<1>2. calls \in [Call -> Handler] /\ calls[c].at = "pick"
  BY <1>0 DEF TypeOK, Pick, At
<1>3. /\ \A d \in Call : d # c => calls'[d] = calls[d]
      /\ calls'[c].at = "send" /\ calls'[c].nonce = NonceOf(n)
      /\ calls'[c].tx = calls[c].tx /\ calls'[c].ok = calls[c].ok
  BY <1>1, <1>2 DEF Handler
<1>4. /\ UNCHANGED <<pot, asked, lock, mark, last, bad, swaprev, slot, mined, failed>>
      /\ UNCHANGED <<settled, sent, caught, clash, passes>>
  BY DEF Pick, store, chain, history
<1>5. TypeOK'
  <2>1. faults' \subseteq {"slow", "lag", "crash", "lost"}
    BY <1>0 DEF TypeOK
  <2> QED BY <1>0, <1>1, <1>4, <2>1 DEF TypeOK
<1>6. Shape'
  BY <1>2, <1>3, <1>4 DEF IInv, Shape
<1>7. Marked'
  BY <1>2, <1>3, <1>4 DEF IInv, Marked, Inside
<1>8. Unsent'
  <2>1. \A d \in Call : Armed(d)' => Armed(d) /\ calls'[d].tx = calls[d].tx
    BY <1>2, <1>3 DEF Armed
  <2> QED BY <1>4, <2>1 DEF IInv, Unsent
<1>9. ToldIsSent'
  BY <1>2, <1>3, <1>4 DEF IInv, ToldIsSent, Told
<1>10. Remembered'
  BY <1>2, <1>3, <1>4 DEF IInv, Remembered
<1>11. Alone'
  BY <1>2, <1>3, <1>4 DEF IInv, Alone, Inside
<1>12. Contiguous'
  BY <1>4 DEF IInv, Contiguous, Below, NoneFrom
<1>13. Reached'
  <2>1. \A k \in Nonce : k < NonceOf(n) => slot[k] # None
    BY DEF NonceOf, IInv, Reached, Below
  <2> QED BY <1>2, <1>3, <1>4, <2>1 DEF IInv, Reached, Below
<1>14. Excused => Excused'
  BY <1>4 DEF Excused
<1>15. FreeNonce'
  BY <1>3, <1>4, <1>14 DEF IInv, FreeNonce, NoneFrom
<1>16. Noted'
  BY <1>2, <1>3, <1>4 DEF IInv, Noted, NoneFrom
<1>17. NonceOnce'
  BY <1>4, <1>14 DEF IInv, NonceOnce, Excused
<1> QED BY <1>5, <1>6, <1>7, <1>8, <1>9, <1>10, <1>11, <1>12, <1>13, <1>15, <1>16, <1>17 DEF IInv

\* No memory is ahead of the pending count.
LEMMA LastIsBehind ==
  ASSUME IInv
  PROVE  last \in Nonce \cup {-1} /\ Pending \in 0..MaxSent /\ last + 1 <= Pending
<1>1. Pending \in 0..MaxSent /\ NoneFrom(Pending)
  BY PendingIsFirstFree DEF IInv
<1>2. last \in Nonce \cup {-1} /\ Below(last + 1)
  BY DEF IInv, TypeOK, Reached
<1> QED BY <1>1, <1>2, RelayAssumption DEF Below, NoneFrom, Nonce

LEMMA PickNonceKeeps ==
  ASSUME NEW c \in Call, IInv, PickNonce(c)
  PROVE  IInv'
<1>1. Pending \in 0..MaxSent /\ Below(Pending) /\ NoneFrom(Pending)
  BY PendingIsFirstFree DEF IInv
<1>2. NonceOf(Pending) = Pending
  BY <1>1, LastIsBehind, RelayAssumption DEF NonceOf, Nonce
<1>3. Pick(c, Pending) /\ faults' = faults
  BY DEF PickNonce
<1> QED BY <1>1, <1>2, <1>3, PickKeeps

LEMMA LagsKeeps ==
  ASSUME NEW c \in Call, IInv, Lags(c)
  PROVE  IInv'
<1> USE RelayAssumption
<1>1. Pending \in 0..MaxSent /\ Below(Pending)
  BY PendingIsFirstFree DEF IInv
<1>2. settled \in 0..MaxSent /\ last \in Nonce \cup {-1} /\ Reached /\ Alone /\ Noted
  BY DEF IInv, TypeOK
<1>3. PICK n \in settled..Pending - 1 : Pick(c, n)
  BY DEF Lags
<1>4. faults' = faults \cup {"lag"} /\ pot' = pot
  BY <1>3 DEF Lags, Happens, Pick
<1>5. n \in 0..MaxSent /\ settled <= n /\ n < Pending /\ settled \in Nonce /\ n \in Nonce
  BY <1>1, <1>2, <1>3 DEF Nonce
<1>6. Below(n)
  BY <1>1, <1>5 DEF Below, Nonce
<1>7. calls[c].at = "pick"
  BY <1>3 DEF Pick, At
<1>8. ASSUME ~Excused' PROVE NoneFrom(NonceOf(n))
  <2>1. pot /\ faults \cap {"slow", "crash", "lost"} = {}
    BY <1>4, <1>8 DEF Excused
  <2>2. ~ \E d \in Call : calls[d].at = "note"
    BY <1>2, <1>7, <2>1 DEF Alone, Inside
  <2>3. ~NoneFrom(settled)
    BY <1>1, <1>5 DEF Below, NoneFrom, Nonce
  <2>4. NoneFrom(last + 1)
    BY <1>2, <2>1, <2>2, <2>3 DEF Noted
  <2>5. last + 1 > n
    BY <1>1, <1>2, <1>5, <2>4 DEF Below, NoneFrom, Nonce
  <2>6. NonceOf(n) = last + 1
    BY <1>2, <1>5, <2>1, <2>5 DEF NonceOf, Nonce
  <2> QED BY <2>4, <2>6
<1>9. faults \subseteq faults' /\ faults' \subseteq faults \cup {"lag"}
  BY <1>4
<1> QED BY <1>3, <1>5, <1>6, <1>8, <1>9, PickKeeps

-----------------------------------------------------------------------------
(***************************************************************************)
(* The invariant.                                                          *)
(***************************************************************************)
LEMMA InitHolds == Init => IInv
<1> SUFFICES ASSUME Init PROVE IInv
  OBVIOUS
<1> USE RelayAssumption DEF Init
<1>1. \A c \in Call : calls[c] = Idle
  OBVIOUS
<1>2. \A c \in Call : calls[c].at = "idle" /\ calls[c].ok = FALSE
  BY <1>1 DEF Idle
<1>3. TypeOK
  <2>1. calls \in [Call -> Handler]
    BY IdleIsTyped
  <2>2. slot \in [Nonce -> Tx \cup {None}]
    BY None \in Tx \cup {None}
  <2>3. swaprev \in Nat /\ ~(swaprev >= SwapReverts)
    OBVIOUS
  <2>4. mined \in 0..MaxSent /\ settled \in 0..MaxSent /\ asked \in 0..MaxAsked /\ passes \in 0..MaxPasses
    OBVIOUS
  <2>5. last \in Nonce \cup {-1} /\ failed \subseteq Nonce /\ mark \subseteq Signed
    OBVIOUS
  <2>6. /\ {pot, lock, bad, clash} \subseteq BOOLEAN
        /\ sent \subseteq Signed /\ caught \subseteq Signed
        /\ faults \subseteq {"slow", "lag", "crash", "lost"}
    OBVIOUS
  <2> HIDE DEF Init
  <2> QED BY <2>1, <2>2, <2>3, <2>4, <2>5, <2>6 DEF TypeOK
<1>4. Shape /\ Marked /\ Unsent /\ ToldIsSent /\ Remembered /\ Alone
  BY <1>2 DEF Shape, Marked, Unsent, ToldIsSent, Remembered, Alone, Armed, Told, Inside
<1>5. Below(0) /\ NoneFrom(0)
  BY DEF Below, NoneFrom, Nonce
<1>6. Contiguous
  <2>1. 0 \in 0..MaxSent
    OBVIOUS
  <2> QED BY <1>5, <2>1 DEF Contiguous
<1>7. Reached /\ FreeNonce /\ Noted /\ NonceOnce
  <2>1. last + 1 = 0 /\ settled = 0
    OBVIOUS
  <2> QED BY <1>2, <1>5, <2>1 DEF Reached, FreeNonce, Noted, NonceOnce
<1> QED BY <1>3, <1>4, <1>6, <1>7 DEF IInv

LEMMA WorksKeeps ==
  ASSUME NEW c \in Call, IInv, Works(c)
  PROVE  IInv'
<1>1. CASE Admit(c) \/ Estimate(c) \/ Once(c)
  BY <1>1, AdmitKeeps, EstimateKeeps, OnceKeeps
<1>2. CASE GivesUp(c) \/ Takes(c) \/ PickNonce(c)
  BY <1>2, GivesUpKeeps, TakesKeeps, PickNonceKeeps
<1>3. CASE CannotSend(c) \/ Broadcast(c) \/ Note(c) \/ Unlock(c)
  BY <1>3, CannotSendKeeps, BroadcastKeeps, NoteKeeps, UnlockKeeps
<1>4. CASE Confirmed(c) \/ Reverted(c) \/ StopsWatching(c)
  BY <1>4, ConfirmedKeeps, RevertedKeeps, StopsWatchingKeeps
<1> QED BY <1>1, <1>2, <1>3, <1>4 DEF Works

LEMMA StepKeeps ==
  ASSUME IInv, [Next]_vars
  PROVE  IInv'
<1>1. ASSUME NEW c \in Call, Works(c) \/ Lags(c) \/ AnswerLost(c) \/ Crash(c) PROVE IInv'
  BY <1>1, WorksKeeps, LagsKeeps, AnswerLostKeeps, CrashKeeps
<1>2. ASSUME NEW c \in Call, NEW t \in Signed, Post(c, t) PROVE IInv'
  BY <1>2, PostKeeps
<1>3. ASSUME NEW c \in Call, NEW t \in Usdc \cup Eth, Claim(c, t) PROVE IInv'
  BY <1>3, ClaimKeeps
<1>4. CASE Mine \/ LockExpires \/ HourPasses \/ DayPasses
  BY <1>4, MineKeeps, LockExpiresKeeps, HourPassesKeeps, DayPassesKeeps
<1>5. CASE UNCHANGED vars
  BY <1>5 DEF vars, store, chain, history, IInv, TypeOK, Shape, Marked, Unsent, ToldIsSent, Remembered,
              Alone, Contiguous, Reached, FreeNonce, Noted, NonceOnce, Armed, Told, Below, NoneFrom, Excused
<1> QED BY <1>1, <1>2, <1>3, <1>4, <1>5 DEF Next

\* Every state any number of handlers can reach has the invariant's parts.
LEMMA Invariant == Spec => []IInv
<1>1. Init => IInv
  BY InitHolds
<1>2. IInv /\ [Next]_vars => IInv'
  BY StepKeeps
<1> QED BY <1>1, <1>2, PTL DEF Spec

-----------------------------------------------------------------------------
(***************************************************************************)
(* What follows.                                                           *)
(***************************************************************************)
\* Every variable keeps its type: the counts of reverted swaps and the refusal agree.
THEOREM RelayTyped == Spec => []TypeOK
<1>1. IInv => TypeOK
  BY DEF IInv
<1> QED BY <1>1, Invariant, PTL

\* withLock keeps its word, "one send at a time per chain", as long as nobody inside
\* takes longer than the lock lives.
THEOREM OneSendAtATime == Spec => []OneAtATime
<1>1. IInv => OneAtATime
  <2> SUFFICES ASSUME IInv, "slow" \notin faults
               PROVE  Cardinality({c \in Call : calls[c].at \in Inside}) <= 1
    BY DEF OneAtATime
  <2> DEFINE S == {c \in Call : calls[c].at \in Inside}
  <2>1. \A c, d \in S : c = d
    BY DEF IInv, Alone
  <2>2. CASE S = {}
    BY <2>2, FS_EmptySet
  <2>3. CASE S # {}
    <3>1. PICK c : c \in S
      BY <2>3
    <3>2. S = {c}
      BY <2>1, <3>1
    <3> HIDE DEF S
    <3>3. Cardinality(S) = 1
      BY <3>2, FS_Singleton
    <3> QED BY <3>3 DEF S
  <2> QED BY <2>2, <2>3
<1> QED BY <1>1, Invariant, PTL

\* "Never reuse a nonce": two transactions meet at one only where a handler overstayed
\* the lock or a node lagged; at a pot, only a node that lagged after a send that was lost.
THEOREM NoncesAreUsedOnce == Spec => []NonceOnce
<1>1. IInv => NonceOnce
  BY DEF IInv
<1> QED BY <1>1, Invariant, PTL

\* No transaction waits behind a nonce that nobody used, whatever crashes, lags or expires.
THEOREM NoncesLeaveNoGap == Spec => []NoGap
<1>1. IInv => NoGap
  <2> SUFFICES ASSUME IInv, NEW n \in Nonce, slot[n] # None, NEW k \in 0..n
               PROVE  slot[k] # None
    BY DEF NoGap
  <2>1. PICK p \in 0..MaxSent : Below(p) /\ NoneFrom(p)
    BY DEF IInv, Contiguous
  <2>2. n < p
    BY <2>1, RelayAssumption DEF NoneFrom, Nonce
  <2> QED BY <2>1, <2>2, RelayAssumption DEF Below, Nonce
<1> QED BY <1>1, Invariant, PTL

\* Only a handler that was about to send adds to the chain, and what it adds was neither
\* sent in this hour nor caught in this day.
LEMMA OnlyNewIsSent ==
  ASSUME IInv, [Next]_vars, NEW t \in sent \cup caught
  PROVE  Slots(t)' \subseteq Slots(t)
<1>1. CASE slot' = slot
  BY <1>1 DEF Slots
<1>2. ASSUME NEW c \in Call, Broadcast(c) \/ AnswerLost(c) PROVE Slots(t)' \subseteq Slots(t)
  <2>1. calls[c].at = "send" /\ slot' = [slot EXCEPT ![calls[c].nonce] = calls[c].tx]
    BY <1>2 DEF Broadcast, AnswerLost, Taken, At
  <2>2. t \in Signed /\ slot \in [Nonce -> Tx \cup {None}]
    BY DEF IInv, TypeOK
  <2>3. calls[c].tx # t
    BY <2>1, <2>2 DEF IInv, Unsent, Armed
  <2> QED BY <2>1, <2>2, <2>3 DEF Slots
<1>3. ASSUME NEW c \in Call, Works(c), ~Broadcast(c) PROVE slot' = slot
  BY <1>3 DEF Works, Admit, Estimate, Once, GivesUp, Takes, PickNonce, Pick, CannotSend, Note, Unlock,
              Confirmed, Reverted, StopsWatching, chain
<1>4. ASSUME NEW c \in Call, Lags(c) \/ Crash(c) PROVE slot' = slot
  BY <1>4 DEF Lags, Pick, Crash, chain
<1>5. ASSUME NEW c \in Call, \/ \E u \in Signed : Post(c, u)
                             \/ \E u \in Usdc \cup Eth : Claim(c, u)
      PROVE  slot' = slot
  BY <1>5 DEF Post, Claim, Begins, chain
<1>6. CASE Mine \/ LockExpires \/ HourPasses \/ DayPasses \/ UNCHANGED vars
  BY <1>1, <1>6 DEF Mine, LockExpires, HourPasses, DayPasses, vars, chain
<1> QED BY <1>1, <1>2, <1>3, <1>4, <1>5, <1>6 DEF Next

\* "One submission per signed tx": what was broadcast in this hour, or reverted and was
\* refused for it in this day, reaches no further nonce.
THEOREM SignedIsSentOnce == Spec => NoReplay
<1>1. IInv /\ [Next]_vars => [\A t \in sent \cup caught : Slots(t)' \subseteq Slots(t)]_vars
  BY OnlyNewIsSent
<1> QED BY <1>1, Invariant, PTL DEF Spec, NoReplay
=============================================================================
