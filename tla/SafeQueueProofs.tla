-------------------------- MODULE SafeQueueProofs --------------------------
(***************************************************************************)
(* Proofs about SafeQueue: for any owners and threshold, any length of the *)
(* two lists, any number of transactions, calls and faults.                *)
(***************************************************************************)
EXTENDS SafeQueue, WellFoundedInduction, TLAPS

-----------------------------------------------------------------------------
(***************************************************************************)
(* The inductive invariant.                                                *)
(***************************************************************************)
\* Nothing is known of a transaction that is not made, and only what an owner
\* asked to remove is dropped.
Made ==
  /\ nonce <= made
  /\ \A t \in Tx : t > made => signed[t] = {} /\ acked[t] = {} /\ queue[t] = {}
  /\ \A t \in Tx, p \in Owner : t > made => local[p][t] = {}
  /\ \A t \in Tx : Asked(t) => t <= made
  /\ \A t \in dropped : Asked(t)
  /\ \A t \in removed : t <= made

Tabs ==
  \A p \in Owner :
    /\ page[p].at \in {"opening", "ready", "sharing", "removing"} => page[p].tx \in 1..made
    /\ page[p].n <= nonce
    /\ page[p].at = "removing" => <<page[p].tx, p>> \in asked
    /\ page[p].known # {} => page[p].at \in {"picking", "ready"}
    /\ \A t \in page[p].known : t <= made

\* A page waits for a handler of its own, that does what it asked.
Linked ==
  /\ \A p \in Owner : page[p].call # 0 =>
       \/ calls[page[p].call].kind = "get" /\ page[p].at \in {"picking", "opening"}
       \/ calls[page[p].call].kind = "post" /\ page[p].at = "sharing"
       \/ calls[page[p].call].kind = "delete" /\ page[p].at = "removing"
  /\ \A p, q \in Owner : page[p].call # 0 /\ page[p].call = page[q].call => p = q

HandlerOK(c) ==
  /\ calls[c].kind \in {"post", "delete"} => calls[c].tx \in 1..made
  /\ calls[c].kind = "delete" => Asked(calls[c].tx)
  /\ calls[c].n <= nonce
  /\ \A t \in calls[c].d : Asked(t)
  /\ \A t \in Tx : t > made => calls[c].q[t] = {}

\* What a handler read is what the store has, unless it is marked as old.
CurrentOK(c) ==
  /\ "queue" \notin calls[c].stale =>
       /\ calls[c].kind = "get" /\ calls[c].at \in {"chain", "queue"} => calls[c].q = queue
       /\ calls[c].kind = "post" /\ calls[c].at = "queue" =>
            \A t \in Tx : num[t] >= calls[c].n => queue[t] \subseteq calls[c].q[t]
       /\ calls[c].kind = "delete" /\ calls[c].at = "queue" => calls[c].q = queue
  /\ "dropped" \notin calls[c].stale =>
       /\ calls[c].kind = "get" /\ calls[c].at \in {"chain", "queue", "dropped"} => calls[c].d = dropped
       /\ calls[c].kind = "delete" /\ calls[c].at \in {"queue", "dropped"} => calls[c].d = dropped

\* What a handler is about to write.
DecidedOK(c) ==
  /\ calls[c].kind = "get" /\ calls[c].at = "queue" =>
       \A t \in Tx : calls[c].q[t] # {} => num[t] < calls[c].n
  /\ calls[c].kind = "get" /\ calls[c].at = "dropped" =>
       \A t \in calls[c].d : num[t] < calls[c].n
  /\ calls[c].kind = "post" /\ calls[c].at = "queue" =>
       calls[c].by \subseteq calls[c].q[calls[c].tx]

Handlers == \A c \in Call : HandlerOK(c) /\ CurrentOK(c) /\ DecidedOK(c)

\* A send that waits for the list gets what the queue had taken when it began.
Listed ==
  ~clobbered => \A p \in Owner : page[p].at = "picking" /\ page[p].call # 0 =>
    \A t \in page[p].known : Ahead(t) /\ ~Asked(t) => calls[page[p].call].q[t] # {}

IInv ==
  /\ TypeOK
  /\ Made /\ Tabs /\ Linked
  /\ Handlers /\ Listed
  /\ KeptByItsSigner /\ TakenIsKept /\ RemovedStaysHidden /\ NumberedAfterTheQueue

-----------------------------------------------------------------------------
(***************************************************************************)
(* The number of a new send.                                               *)
(***************************************************************************)
\* A set of naturals with a bound has a greatest one.
LEMMA MaxOfBounded ==
  ASSUME NEW K \in Nat, NEW S, S \subseteq 0..K, S # {}
  PROVE  Max(S) \in S /\ \A x \in S : x <= Max(S)
<1> DEFINE T == {K - x : x \in S}
<1>1. T \subseteq Nat /\ T # {}
  <2>1. \A x \in S : K - x \in Nat
    OBVIOUS
  <2>2. PICK x : x \in S
    OBVIOUS
  <2>3. K - x \in T
    BY <2>2
  <2> QED BY <2>1, <2>3
<1> DEFINE R == OpToRel(<, Nat)
<1>2. IsWellFoundedOn(R, Nat)
  BY NatLessThanWellFounded
<1>3. PICK m \in T : \A y \in T : ~(<<y, m>> \in R)
  <2> HIDE DEF R, T
  <2> QED BY <1>1, <1>2, WFMin
<1>4. PICK a \in S : m = K - a
  OBVIOUS
<1>5. \A x \in S : x <= a
  <2> SUFFICES ASSUME NEW x \in S PROVE x <= a
    OBVIOUS
  <2>1. K - x \in T /\ K - x \in Nat /\ m \in Nat /\ x \in Int /\ a \in Int
    BY <1>1, <1>4
  <2>2. ~(K - x < m)
    BY <1>3, <2>1 DEF OpToRel
  <2> QED BY <1>4, <2>1, <2>2
<1>6. \A x \in S : a >= x
  BY <1>5, a \in 0..K
<1> QED BY <1>6 DEF Max

\* A fresh number is beyond every transaction of the list, and follows one that is made.
LEMMA FreshNonceIsBeyond ==
  ASSUME IInv, NEW p \in Owner, NEW n \in Nat, n <= nonce, NEW ts \in Sigs, NEW ds,
         \A t \in Tx : t > made => ts[t] = {}
  PROVE  /\ FreshNonce(p, n, ts, ds) \in 0..made
         /\ \A t \in Entries(Waiting(p, n, ts, ds)) : num[t] < FreshNonce(p, n, ts, ds)
<1> DEFINE E == Entries(Waiting(p, n, ts, ds))
          S == {n} \cup {num[t] + 1 : t \in E}
<1>1. made \in Nat /\ n \in 0..made
  BY SafeAssumption DEF IInv, TypeOK, Made, Tx
<1>2. \A t \in E : num[t] + 1 \in 0..made
  <2> SUFFICES ASSUME NEW t \in E PROVE num[t] + 1 \in 0..made
    OBVIOUS
  <2>1. t \in Tx /\ ts[t] \cup local[p][t] # {}
    BY DEF Entries, Waiting
  <2>2. t \in 1..made
    BY <1>1, <2>1, SafeAssumption DEF IInv, Made, Tx
  <2>3. num[t] \in 0..MaxTx /\ num[t] < made
    BY <2>1, <2>2 DEF IInv, TypeOK
  <2> QED BY <1>1, <2>3, SafeAssumption
<1> HIDE DEF E
<1>3. S \subseteq 0..made /\ S # {}
  BY <1>1, <1>2
<1>4. \A t \in E : num[t] + 1 \in S
  OBVIOUS
<1> HIDE DEF S
<1>5. Max(S) \in S /\ \A x \in S : x <= Max(S)
  BY <1>1, <1>3, MaxOfBounded
<1>6. Max(S) \in 0..made
  BY <1>3, <1>5
<1>7. \A t \in E : num[t] < Max(S)
  <2> SUFFICES ASSUME NEW t \in E PROVE num[t] < Max(S)
    OBVIOUS
  <2>1. num[t] + 1 <= Max(S) /\ num[t] + 1 \in 0..made
    BY <1>2, <1>4, <1>5
  <2>2. num[t] \in Int
    BY DEF IInv, TypeOK, E, Entries
  <2> QED BY <1>1, <1>6, <2>1, <2>2
<1> QED BY <1>6, <1>7 DEF FreshNonce, S, E

-----------------------------------------------------------------------------
(***************************************************************************)
(* What a page does with an answer, or without one.                        *)
(***************************************************************************)
\* One transaction may be made, and the numbers of the others stay.
Grows ==
  /\ made' \in made..made + 1 /\ made' \in {0} \cup Tx
  /\ num' \in [Tx -> 0..MaxTx]
  /\ \A t \in 1..made : num'[t] = num[t]
  /\ \A t \in 1..made' : num'[t] < made'

\* Page p stops waiting; its browser forgets only what has passed or was removed here.
Goes(p) ==
  /\ Grows
  /\ page' \in [Owner -> Page] /\ local' \in [Owner -> Sigs]
  /\ \A q \in Owner : q # p => page'[q] = page[q] /\ local'[q] = local[q]
  /\ \A t \in Tx : \/ local'[p][t] = local[p][t]
                   \/ local'[p][t] = {} /\ (num[t] < nonce \/ <<t, p>> \in asked)
  /\ page'[p].call = 0 /\ page'[p].n <= nonce
  /\ \/ page'[p].at = "idle" /\ page'[p].known = {}
     \/ page'[p].at = "ready" /\ page'[p].tx \in 1..made' /\ page'[p].known \subseteq page[p].known

\* What is new is numbered after the list.
Beyond(p, ts, ds) ==
  page'[p].at = "ready" =>
    \A t \in page'[p].known :
      t \notin ds /\ ts[t] # {} /\ num[t] >= page[p].n => num[t] < num'[page'[p].tx]

LEMMA Counted ==
  ASSUME TypeOK
  PROVE  /\ made \in Nat /\ nonce \in Nat
         /\ \A t \in Tx : t \in Nat /\ num[t] \in Nat
         /\ \A p \in Owner : page[p].n \in Nat /\ page[p].known \subseteq Tx
<1>1. Tx \subseteq Nat /\ MaxTx \in Nat
  BY SafeAssumption DEF Tx
<1>2. made \in Nat
  BY <1>1 DEF TypeOK
<1>3. nonce \in Nat /\ \A t \in Tx : num[t] \in Nat
  BY <1>1 DEF TypeOK
<1>4. \A p \in Owner : page[p].n \in Nat /\ page[p].known \subseteq Tx
  BY DEF TypeOK, Page
<1> QED BY <1>1, <1>2, <1>3, <1>4

LEMMA IdleIsTyped == Idle \in Page
  BY DEF Idle, Page

LEMMA SigsTyped ==
  ASSUME IInv, NEW p \in Owner, NEW n \in Nat
  PROVE  /\ Prune(p, n) \in Sigs
         /\ \A t \in Tx : Prune(p, n)[t] = IF num[t] < n THEN {} ELSE local[p][t]
         /\ Nothing \in Sigs /\ \A t \in Tx : Nothing[t] = {}
  BY DEF IInv, TypeOK, Prune, Sigs, Nothing

LEMMA DoneGoes ==
  ASSUME IInv, NEW p \in Owner, Done(p)
  PROVE  Goes(p) /\ page'[p].at = "idle"
<1>1. TypeOK /\ Made /\ nonce \in Nat /\ made \in Nat
  BY SafeAssumption DEF IInv, TypeOK, Tx
<1>2. Grows
  BY <1>1, SafeAssumption DEF Grows, Done, TypeOK, Tx
<1>3. page' = [page EXCEPT ![p] = Idle] /\ local' = local
  BY DEF Done
<1>4. page' \in [Owner -> Page]
  BY <1>1, <1>3, IdleIsTyped DEF TypeOK
<1>5. page'[p] = Idle /\ \A q \in Owner : q # p => page'[q] = page[q]
  BY <1>1, <1>3 DEF TypeOK
<1> QED BY <1>1, <1>2, <1>3, <1>4, <1>5 DEF Goes, TypeOK, Idle

LEMMA ForgetGoes ==
  ASSUME IInv, NEW p \in Owner, Forget(p), page[p].at = "removing"
  PROVE  Goes(p) /\ page'[p].at = "idle"
<1>1. TypeOK /\ Made /\ nonce \in Nat /\ made \in Nat
  BY SafeAssumption DEF IInv, TypeOK, Tx
<1>2. Grows
  BY <1>1, SafeAssumption DEF Grows, Forget, TypeOK, Tx
<1>3. page' = [page EXCEPT ![p] = Idle] /\ local' = [local EXCEPT ![p][page[p].tx] = {}]
  BY DEF Forget
<1>4. page' \in [Owner -> Page]
  BY <1>1, <1>3, IdleIsTyped DEF TypeOK
<1>5. page'[p] = Idle /\ \A q \in Owner : q # p => page'[q] = page[q]
  BY <1>1, <1>3 DEF TypeOK
<1>6. <<page[p].tx, p>> \in asked
  BY DEF IInv, Tabs
<1>7. local[p] \in Sigs /\ \A q \in Owner : local[q] \in Sigs
  BY <1>1 DEF TypeOK
<1>8. [local[p] EXCEPT ![page[p].tx] = {}] \in Sigs
  BY <1>7 DEF Sigs
<1>9. local' = [local EXCEPT ![p] = [local[p] EXCEPT ![page[p].tx] = {}]]
  BY <1>3
<1>10. local' \in [Owner -> Sigs] /\ \A q \in Owner : q # p => local'[q] = local[q]
  BY <1>1, <1>8, <1>9 DEF TypeOK
<1>11. \A t \in Tx : local'[p][t] = local[p][t] \/ (local'[p][t] = {} /\ <<t, p>> \in asked)
  <2>1. local'[p] = [local[p] EXCEPT ![page[p].tx] = {}]
    BY <1>1, <1>9 DEF TypeOK
  <2> QED BY <1>6, <1>7, <2>1 DEF Sigs
<1> QED BY <1>1, <1>2, <1>4, <1>5, <1>10, <1>11 DEF Goes, Idle

LEMMA OpenedGoes ==
  ASSUME IInv, NEW p \in Owner, NEW ts, NEW ds, ts \in Sigs, Opened(p, ts, ds), page[p].at = "opening"
  PROVE  Goes(p) /\ Beyond(p, ts, ds)
<1>1. TypeOK /\ nonce \in Nat /\ made \in Nat
  BY SafeAssumption DEF IInv, TypeOK, Tx
<1>2. Grows
  BY <1>1, SafeAssumption DEF Grows, Opened, TypeOK, Tx
<1>3. page[p] \in Page /\ page[p].tx \in 1..made /\ page[p].known = {} /\ page[p].n <= nonce
  BY <1>1 DEF TypeOK, IInv, Tabs
<1>4. page[p].tx \in Tx
  BY <1>1, <1>3, SafeAssumption DEF TypeOK, Tx
<1> DEFINE v == page[p].view \cup Waiting(p, 0, ts, ds)[page[p].tx]
           new == [page[p] EXCEPT !.at = "ready", !.call = 0, !.view = v]
<1>5. v \in SUBSET Owner
  BY <1>1, <1>3, <1>4 DEF TypeOK, Waiting, Sigs, Page
<1>6. new \in Page /\ new.at = "ready" /\ new.call = 0 /\ new.known = {} /\ new.n <= nonce
      /\ new.tx \in 1..made
  <2> HIDE DEF v
  <2> QED BY <1>3, <1>5 DEF Page
<1>7. page' = [page EXCEPT ![p] = new] /\ local' = local /\ made' = made /\ num' = num
  BY <1>1 DEF Opened, TypeOK
<1> HIDE DEF new
<1>8. page' \in [Owner -> Page] /\ page'[p] = new /\ \A q \in Owner : q # p => page'[q] = page[q]
  BY <1>1, <1>6, <1>7 DEF TypeOK
<1> QED BY <1>1, <1>2, <1>6, <1>7, <1>8 DEF Goes, Beyond, TypeOK

LEMMA PickedGoes ==
  ASSUME IInv, NEW p \in Owner, NEW ts \in Sigs, NEW ds, NEW known, Picked(p, ts, ds, known),
         known \subseteq page[p].known, \A t \in Tx : t > made => ts[t] = {}
  PROVE  Goes(p) /\ (page'[p].at = "ready" => page'[p].known = known) /\ Beyond(p, ts, ds)
<1> DEFINE n == page[p].n
           m == FreshNonce(p, n, ts, ds)
<1>1. TypeOK /\ Made /\ nonce \in Nat /\ made \in Nat /\ made <= MaxTx
  BY SafeAssumption DEF IInv, TypeOK, Tx
<1>2. page[p] \in Page /\ n \in Nat /\ n <= nonce
  BY <1>1 DEF TypeOK, IInv, Tabs, Page
<1>3. m \in 0..made /\ \A t \in Entries(Waiting(p, n, ts, ds)) : num[t] < m
  BY <1>2, FreshNonceIsBeyond
<1>4. local' = [local EXCEPT ![p] = Prune(p, n)]
  BY DEF Picked
<1>5. /\ local' \in [Owner -> Sigs]
      /\ \A q \in Owner : q # p => local'[q] = local[q]
      /\ \A t \in Tx : \/ local'[p][t] = local[p][t]
                       \/ local'[p][t] = {} /\ num[t] < nonce
  <2>1. local'[p] = Prune(p, n)
    BY <1>1, <1>4 DEF TypeOK
  <2>2. \A t \in Tx : num[t] \in Nat
    BY <1>1 DEF TypeOK
  <2>3. \A t \in Tx : num[t] < n => num[t] < nonce
    BY <1>1, <1>2, <2>2
  <2> HIDE DEF n
  <2> QED BY <1>1, <1>2, <1>4, <2>1, <2>3, SigsTyped DEF TypeOK
<1>6. CASE page' = [page EXCEPT ![p] = Idle] /\ UNCHANGED <<made, num>>
  <2>1. Grows
    BY <1>1, <1>6, SafeAssumption DEF Grows, TypeOK, Tx
  <2>2. page' \in [Owner -> Page] /\ page'[p] = Idle /\ \A q \in Owner : q # p => page'[q] = page[q]
    BY <1>1, <1>6, IdleIsTyped DEF TypeOK
  <2> QED BY <1>1, <1>5, <2>1, <2>2 DEF Goes, Beyond, Idle
<1>7. CASE /\ made < MaxTx
           /\ made' = made + 1
           /\ num' = [num EXCEPT ![made'] = m]
           /\ page' = [page EXCEPT ![p] = [Idle EXCEPT !.at = "ready", !.tx = made', !.n = n,
                                                       !.known = known]]
  <2>1. made' \in Tx /\ made' \in 1..made'
    BY <1>1, <1>7, SafeAssumption DEF Tx
  <2> HIDE DEF m, n
  <2>2. \A t \in Tx : num'[t] = IF t = made' THEN m ELSE num[t]
    BY <1>1, <1>7, <2>1 DEF TypeOK
  <2>3. Grows
    <3>1. num' \in [Tx -> 0..MaxTx]
      BY <1>1, <1>3, <1>7, <2>1, SafeAssumption DEF TypeOK
    <3>2. \A t \in 1..made : t \in Tx /\ t # made'
      BY <1>1, <1>7, SafeAssumption DEF Tx
    <3>3. \A t \in 1..made : num'[t] = num[t]
      BY <2>2, <3>2
    <3>4. \A t \in 1..made' : num'[t] < made'
      <4> SUFFICES ASSUME NEW t \in 1..made' PROVE num'[t] < made'
        OBVIOUS
      <4>1. CASE t = made'
        BY <1>1, <1>3, <1>7, <2>1, <2>2, <4>1
      <4>2. CASE t # made'
        <5>1. t \in 1..made
          BY <1>1, <1>7, <4>2
        <5>2. num[t] < made /\ num[t] \in Nat
          BY <1>1, <3>2, <5>1 DEF TypeOK
        <5> QED BY <1>1, <1>7, <3>3, <5>1, <5>2
      <4> QED BY <4>1, <4>2
    <3> QED BY <1>1, <1>7, <2>1, <3>1, <3>3, <3>4 DEF Grows
  <2> DEFINE new == [Idle EXCEPT !.at = "ready", !.tx = made', !.n = n, !.known = known]
  <2>4. known \subseteq Tx
    BY <1>2 DEF Page
  <2>5. /\ new \in Page /\ new.at = "ready" /\ new.tx = made' /\ new.n = n
        /\ new.known = known /\ new.call = 0
    BY <1>2, <2>1, <2>4 DEF Idle, Page
  <2>6. page' = [page EXCEPT ![p] = new]
    BY <1>7
  <2> HIDE DEF new
  <2>7. page' \in [Owner -> Page] /\ page'[p] = new /\ \A q \in Owner : q # p => page'[q] = page[q]
    BY <1>1, <2>5, <2>6 DEF TypeOK
  <2>8. Goes(p)
    BY <1>2, <1>5, <2>1, <2>3, <2>5, <2>7 DEF Goes
  <2>9. num'[made'] = m
    BY <2>1, <2>2
  <2>10. Beyond(p, ts, ds)
    <3> SUFFICES ASSUME NEW t \in known, t \notin ds, ts[t] # {}, num[t] >= n
                 PROVE  num[t] < m
      BY <2>5, <2>7, <2>9 DEF Beyond, n
    <3>1. t \in Tx /\ num[t] \in Nat
      BY <1>1, <2>4 DEF TypeOK
    <3>2. Waiting(p, n, ts, ds)[t] = ts[t] \cup local[p][t]
      BY <1>2, <3>1 DEF Waiting
    <3>3. t \in Entries(Waiting(p, n, ts, ds))
      BY <3>1, <3>2 DEF Entries
    <3> QED BY <1>3, <3>3
  <2> QED BY <2>5, <2>7, <2>8, <2>10
<1> QED BY <1>6, <1>7 DEF Picked

LEMMA GotListGoes ==
  ASSUME IInv, NEW p \in Owner, NEW ts \in Sigs, NEW ds, GotList(p, ts, ds),
         \A t \in Tx : t > made => ts[t] = {}
  PROVE  Goes(p) /\ Beyond(p, ts, ds)
<1>1. CASE page[p].at = "picking" /\ Picked(p, ts, ds, page[p].known)
  BY <1>1, PickedGoes
<1>2. CASE page[p].at = "opening" /\ Opened(p, ts, ds)
  BY <1>2, OpenedGoes
<1> QED BY <1>1, <1>2 DEF GotList

LEMMA WithoutGoes ==
  ASSUME IInv, NEW p \in Owner, GoesWithout(p)
  PROVE  Goes(p) /\ (page'[p].at = "ready" => page'[p].known = {})
<1>1. Nothing \in Sigs /\ \A t \in Tx : Nothing[t] = {}
  BY DEF Nothing, Sigs
<1>2. CASE page[p].at = "picking" /\ Picked(p, Nothing, {}, {})
  BY <1>1, <1>2, PickedGoes
<1>3. CASE page[p].at = "opening" /\ Opened(p, Nothing, {})
  <2>1. page[p].known = {}
    BY <1>3 DEF IInv, Tabs
  <2> QED BY <1>1, <1>3, <2>1, OpenedGoes DEF Goes
<1>4. CASE Done(p)
  BY <1>4, DoneGoes
<1> QED BY <1>2, <1>3, <1>4 DEF GoesWithout

\* Call c answers with a list, or its page goes on without.
Answers(c, ts, ds) ==
  \/ \E p \in Owner : page[p].call = c /\ Goes(p) /\ Beyond(p, ts, ds)
  \/ (\A p \in Owner : page[p].call # c) /\ UNCHANGED <<made, num, page, local>>

LEMMA AnswersGrow ==
  ASSUME IInv, NEW c, NEW ts, NEW ds, Answers(c, ts, ds)
  PROVE  Grows
<1>1. CASE UNCHANGED <<made, num, page, local>>
  BY <1>1, SafeAssumption DEF IInv, TypeOK, Grows, Tx
<1> QED BY <1>1 DEF Answers, Goes

-----------------------------------------------------------------------------
(***************************************************************************)
(* What an answer leaves of the pages' side of the invariant.              *)
(***************************************************************************)
\* The handlers other than c stay what they are, but for what they are told is old.
Others(c) ==
  \A d \in Call : d # c =>
    /\ calls'[d].kind = calls[d].kind /\ calls'[d].at = calls[d].at /\ calls'[d].tx = calls[d].tx
    /\ calls'[d].by = calls[d].by /\ calls'[d].n = calls[d].n
    /\ calls'[d].q = calls[d].q /\ calls'[d].d = calls[d].d
    /\ calls[d].stale \subseteq calls'[d].stale

\* What is ahead was ahead, as far as it was made.
LEMMA AheadStays ==
  ASSUME IInv, Grows, nonce' \in Nat, nonce <= nonce'
  PROVE  \A t \in 1..made : t \in Tx /\ (Ahead(t)' => Ahead(t))
<1>1. TypeOK
  BY DEF IInv
<1>2. made \in Nat /\ nonce \in Nat /\ made <= MaxTx /\ \A t \in Tx : num[t] \in Nat
  BY <1>1, Counted, SafeAssumption DEF TypeOK, Tx
<1>3. \A t \in 1..made : t \in Tx
  BY <1>2, SafeAssumption DEF Tx
<1> QED BY <1>2, <1>3 DEF Grows, Ahead

LEMMA PagesGo ==
  ASSUME IInv, NEW p \in Owner, Goes(p), nonce' = nonce, signed' = signed, asked' = asked,
         NEW c \in Call, page[p].call = c, Others(c)
  PROVE  /\ Tabs' /\ Linked' /\ KeptByItsSigner'
         /\ nonce' <= made'
         /\ \A t \in Tx : t > made' => signed'[t] = {} /\ (\A q \in Owner : local'[q][t] = {})
         /\ \A t \in Tx : Asked(t)' => t <= made'
<1>0. TypeOK /\ Made /\ Tabs /\ Linked /\ KeptByItsSigner /\ Grows
  BY DEF IInv, Goes
<1>1. /\ TypeOK /\ Made /\ Tabs /\ Linked /\ KeptByItsSigner /\ Grows
      /\ nonce \in Nat /\ made \in Nat /\ made' \in Nat
  <2>1. nonce \in Nat /\ made \in Nat
    BY <1>0, SafeAssumption DEF TypeOK, Tx
  <2> QED BY <1>0, <2>1 DEF Grows
<1>2. made <= made'
  BY <1>1 DEF Grows
<1>3. \A q \in Owner : q # p => page'[q] = page[q] /\ local'[q] = local[q]
  BY DEF Goes
<1>4. Tabs'
  <2> SUFFICES ASSUME NEW q \in Owner
               PROVE /\ page'[q].at \in {"opening", "ready", "sharing", "removing"} => page'[q].tx \in 1..made'
                     /\ page'[q].n <= nonce
                     /\ page'[q].at = "removing" => <<page'[q].tx, q>> \in asked
                     /\ page'[q].known # {} => page'[q].at \in {"picking", "ready"}
                     /\ \A t \in page'[q].known : t <= made'
    BY DEF Tabs
  <2>1. CASE q = p
    <3>1. \A t \in page'[p].known : t \in page[p].known
      BY DEF Goes
    <3>3. \A t \in page[p].known : t \in Nat
      BY <1>0, Counted
    <3>2. \A t \in page[p].known : t <= made /\ t \in Nat
      BY <1>0, <3>3 DEF Tabs
    <3> QED BY <1>1, <1>2, <2>1, <3>1, <3>2 DEF Goes
  <2>2. CASE q # p
    <3>1. page'[q] = page[q] /\ page[q].tx \in Nat /\ \A t \in page[q].known : t \in Nat
      BY <1>1, <1>3, <2>2, SafeAssumption DEF TypeOK, Page, Tx
    <3> QED BY <1>1, <1>2, <3>1 DEF Tabs
  <2> QED BY <2>1, <2>2
<1>5. Linked'
  <2>1. page'[p].call = 0
    BY DEF Goes
  <2>2. c # 0
    BY DEF Call
  <2>3. \A q \in Owner : q # p => page[q].call # c
    BY <1>1, <2>2 DEF Linked
  <2>4. \A q \in Owner : page[q].call # 0 => page[q].call \in Call
    BY <1>1 DEF TypeOK, Page
  <2>5. \A q \in Owner : page'[q].call # 0 =>
          /\ q # p /\ page'[q] = page[q] /\ page[q].call \in Call
          /\ calls'[page[q].call].kind = calls[page[q].call].kind
    BY <1>3, <2>1, <2>3, <2>4 DEF Others
  <2> QED BY <1>1, <2>5 DEF Linked
<1>6. \A t \in Tx : t > made' => signed'[t] = {} /\ (\A q \in Owner : local'[q][t] = {})
  <2>1. \A t \in Tx : t > made' => t > made
    BY <1>1, <1>2, SafeAssumption DEF Tx
  <2> QED BY <1>1, <1>3, <2>1 DEF Made, Goes
<1>7. \A t \in Tx : Asked(t)' => t <= made'
  BY <1>1, <1>2, SafeAssumption DEF Made, Asked, Tx
<1>8. KeptByItsSigner'
  <2> SUFFICES ASSUME NEW t \in Tx, NEW q \in signed[t], Ahead(t)', <<t, q>> \notin asked
               PROVE  q \in local'[q][t]
    BY DEF KeptByItsSigner
  <2>1. q \in Owner
    BY <1>1 DEF TypeOK, Sigs
  <2>2. t \in 1..made
    BY <1>1, SafeAssumption DEF Made, Tx
  <2>6. nonce <= nonce' /\ nonce' \in Nat
    BY <1>1
  <2>3. Ahead(t)
    BY <1>1, <2>2, <2>6, AheadStays
  <2>4. q \in local[q][t]
    BY <1>1, <2>3 DEF KeptByItsSigner
  <2>5. ~(num[t] < nonce)
    BY <1>1, <2>3 DEF Ahead, TypeOK
  <2> QED BY <1>3, <2>1, <2>4, <2>5 DEF Goes
<1> QED BY <1>1, <1>2, <1>4, <1>5, <1>6, <1>7, <1>8 DEF Made

LEMMA PagesAnswered ==
  ASSUME IInv, NEW c \in Call, NEW ts, NEW ds, Answers(c, ts, ds),
         nonce' = nonce, signed' = signed, asked' = asked, Others(c)
  PROVE  /\ Tabs' /\ Linked' /\ KeptByItsSigner'
         /\ nonce' <= made'
         /\ \A t \in Tx : t > made' => signed'[t] = {} /\ (\A q \in Owner : local'[q][t] = {})
         /\ \A t \in Tx : Asked(t)' => t <= made'
<1>1. CASE \E p \in Owner : page[p].call = c /\ Goes(p) /\ Beyond(p, ts, ds)
  BY <1>1, PagesGo
<1>2. CASE (\A p \in Owner : page[p].call # c) /\ UNCHANGED <<made, num, page, local>>
  <2>1. Tabs' /\ KeptByItsSigner'
    BY <1>2 DEF IInv, Tabs, KeptByItsSigner, Ahead
  <2>4. TypeOK /\ Linked
    BY DEF IInv
  <2>5. \A q \in Owner : page[q].call # 0 => page[q].call \in Call
    BY <2>4 DEF TypeOK, Page
  <2>6. \A q \in Owner : page[q].call # 0 => calls'[page[q].call].kind = calls[page[q].call].kind
    BY <1>2, <2>5 DEF Others
  <2>2. Linked'
    BY <1>2, <2>4, <2>6 DEF Linked
  <2>3. Made
    BY DEF IInv
  <2> QED BY <1>2, <2>1, <2>2, <2>3 DEF Made, Asked
<1> QED BY <1>1, <1>2 DEF Answers

\* The numbers that were promised.
LEMMA NumbersGo ==
  ASSUME IInv, NEW p \in Owner, NEW ts, NEW ds, Goes(p), Beyond(p, ts, ds),
         nonce' = nonce, asked' = asked, clobbered => clobbered',
         NEW c \in Call, page[p].call = c, Others(c),
         ~clobbered' => \A t \in page'[p].known :
           Ahead(t) /\ ~Asked(t) => t \notin ds /\ ts[t] # {}
  PROVE  Listed' /\ NumberedAfterTheQueue'
<1>1. TypeOK /\ Tabs /\ Linked /\ Listed /\ NumberedAfterTheQueue /\ Grows
  BY DEF IInv, Goes
<1>2. \A q \in Owner : q # p => page'[q] = page[q]
  BY DEF Goes
<1>3. \A t \in 1..made : num'[t] = num[t] /\ (Ahead(t)' => Ahead(t))
  <2>1. nonce' \in Nat /\ nonce <= nonce'
    BY <1>1, Counted
  <2> QED BY <1>1, <2>1, AheadStays DEF Grows
<1>4. \A q \in Owner, t \in Tx : t \in page[q].known => t \in 1..made
  <2>1. TypeOK
    BY DEF IInv
  <2>2. made \in Nat
    BY <2>1, Counted
  <2>3. \A t \in Tx : t <= made => t \in 1..made
    BY <2>2, SafeAssumption DEF Tx
  <2> QED BY <1>1, <2>3 DEF Tabs
<1>5. \A q \in Owner : page[q].known \subseteq Tx
  BY <1>1 DEF TypeOK, Page
<1>6. \A t : Asked(t)' <=> Asked(t)
  BY DEF Asked
<1>7. Listed'
  <2> SUFFICES ASSUME ~clobbered', NEW q \in Owner, page'[q].at = "picking", page'[q].call # 0,
                      NEW t \in page'[q].known, Ahead(t)', ~Asked(t)'
               PROVE  calls'[page'[q].call].q[t] # {}
    BY DEF Listed
  <2>1. q # p /\ page'[q] = page[q]
    BY <1>2 DEF Goes
  <2>2. t \in 1..made /\ Ahead(t) /\ ~Asked(t)
    BY <1>3, <1>4, <1>5, <1>6, <2>1
  <2>3. calls[page[q].call].q[t] # {}
    BY <1>1, <2>1, <2>2 DEF Listed
  <2>4. page[q].call # c
    BY <1>1, <2>1 DEF Linked
  <2>5. page[q].call \in Call
    BY <1>1, <2>1 DEF TypeOK, Page
  <2>6. calls'[page[q].call].q = calls[page[q].call].q
    BY <2>4, <2>5 DEF Others
  <2> QED BY <2>1, <2>3, <2>6
<1>8. NumberedAfterTheQueue'
  <2> SUFFICES ASSUME ~clobbered', NEW q \in Owner, page'[q].at = "ready",
                      NEW t \in page'[q].known, Ahead(t)', ~Asked(t)'
               PROVE  num'[t] < num'[page'[q].tx]
    BY DEF NumberedAfterTheQueue
  <2>1. CASE q # p
    <3>1. t \in 1..made /\ Ahead(t) /\ ~Asked(t) /\ page'[q] = page[q]
      BY <1>2, <1>3, <1>4, <1>5, <1>6, <2>1
    <3>2. page[q].tx \in 1..made
      BY <1>1, <3>1 DEF Tabs
    <3> QED BY <1>1, <1>3, <3>1, <3>2 DEF NumberedAfterTheQueue
  <2>2. CASE q = p
    <3>1. t \in page[p].known
      BY <2>2 DEF Goes
    <3>2. t \in 1..made /\ Ahead(t) /\ ~Asked(t) /\ num'[t] = num[t]
      BY <1>3, <1>4, <1>5, <1>6, <3>1
    <3>4. num[t] \in Nat /\ nonce \in Nat /\ page[p].n \in Nat
      <4>1. t \in Tx
        BY <1>5, <3>1
      <4> QED BY <1>1, <4>1, Counted
    <3>5. num[t] >= nonce /\ page[p].n <= nonce
      BY <1>1, <3>2 DEF Tabs, Ahead
    <3>3. num[t] >= page[p].n
      BY <3>4, <3>5
    <3> QED BY <2>2, <3>2, <3>3 DEF Beyond
  <2> QED BY <2>1, <2>2
<1> QED BY <1>7, <1>8

-----------------------------------------------------------------------------
(***************************************************************************)
(* What a handler's step leaves of the server's side of the invariant.     *)
(***************************************************************************)
LEMMA NoCallIsTyped == NoCall \in Handler
  BY DEF NoCall, Handler, Nothing, Sigs

\* A handler is replaced, and no value is written.
LEMMA SetLeavesOthers ==
  ASSUME TypeOK, NEW c \in Call, NEW next \in Handler, calls' = [calls EXCEPT ![c] = next]
  PROVE  /\ calls' \in [Call -> Handler] /\ calls'[c] = next /\ Others(c)
  BY DEF TypeOK, Others

\* A value is written: who read it before has an old one.
LEMMA WriteLeavesOthers ==
  ASSUME TypeOK, NEW c \in Call, NEW value \in {"queue", "dropped"}, NEW next \in Handler,
         Write(c, value, next)
  PROVE  /\ calls' \in [Call -> Handler] /\ calls'[c] = next /\ Others(c)
         /\ clobbered' \in BOOLEAN
         /\ ~clobbered' => ~clobbered /\ value \notin calls[c].stale
         /\ \A d \in Call : d # c => value \in calls'[d].stale \/ calls[d].at \in {"idle", "read"}
<1>1. calls \in [Call -> Handler] /\ clobbered \in BOOLEAN
  BY DEF TypeOK
<1> DEFINE old(d) == [calls[d] EXCEPT !.stale = @ \cup {value}]
<1>2. \A d \in Call : /\ old(d) \in Handler /\ old(d).kind = calls[d].kind /\ old(d).at = calls[d].at
                      /\ old(d).tx = calls[d].tx /\ old(d).by = calls[d].by /\ old(d).n = calls[d].n
                      /\ old(d).q = calls[d].q /\ old(d).d = calls[d].d
                      /\ old(d).stale = calls[d].stale \cup {value}
  BY <1>1 DEF Handler
<1> HIDE DEF old
<1>3. calls' = [d \in Call |-> IF d = c THEN next
                               ELSE IF calls[d].at \in {"idle", "read"} THEN calls[d] ELSE old(d)]
  BY DEF Write, old
<1>4. calls' \in [Call -> Handler] /\ calls'[c] = next
  BY <1>1, <1>2, <1>3
<1>5. \A d \in Call : d # c => calls'[d] = IF calls[d].at \in {"idle", "read"} THEN calls[d] ELSE old(d)
  BY <1>3
<1>6. Others(c)
  BY <1>2, <1>5 DEF Others
<1>7. \A d \in Call : d # c => value \in calls'[d].stale \/ calls[d].at \in {"idle", "read"}
  BY <1>2, <1>5
<1>8. clobbered' = (clobbered \/ value \in calls[c].stale)
  BY DEF Write
<1> QED BY <1>1, <1>4, <1>6, <1>7, <1>8

\* A handler that does not step keeps its part of the invariant.
LEMMA OthersStay ==
  ASSUME IInv, NEW c, Others(c), Grows, nonce <= nonce', nonce' \in Nat, asked \subseteq asked',
         queue' = queue \/ \A d \in Call : d # c => "queue" \in calls'[d].stale \/ calls[d].at \in {"idle", "read"},
         dropped' = dropped \/ \A d \in Call : d # c => "dropped" \in calls'[d].stale \/ calls[d].at \in {"idle", "read"}
  PROVE  \A d \in Call : d # c => HandlerOK(d)' /\ CurrentOK(d)' /\ DecidedOK(d)'
<1> SUFFICES ASSUME NEW d \in Call, d # c PROVE HandlerOK(d)' /\ CurrentOK(d)' /\ DecidedOK(d)'
  OBVIOUS
<1>1. TypeOK /\ HandlerOK(d) /\ CurrentOK(d) /\ DecidedOK(d) /\ Made
  BY DEF IInv, Handlers
<1>2. /\ made \in Nat /\ nonce \in Nat /\ \A t \in Tx : t \in Nat /\ num[t] \in Nat
      /\ calls[d].n \in Nat /\ calls[d].d \subseteq Tx
  BY <1>1, Counted DEF TypeOK, Handler
<1>3. made' \in Nat /\ made <= made' /\ \A t \in 1..made : num'[t] = num[t]
  BY <1>2 DEF Grows
<1>4. /\ calls'[d].kind = calls[d].kind /\ calls'[d].at = calls[d].at /\ calls'[d].tx = calls[d].tx
      /\ calls'[d].by = calls[d].by /\ calls'[d].n = calls[d].n
      /\ calls'[d].q = calls[d].q /\ calls'[d].d = calls[d].d
      /\ calls[d].stale \subseteq calls'[d].stale
  BY DEF Others
<1>5. \A t : Asked(t) => Asked(t)'
  BY DEF Asked
<1>6. \A t \in Tx : t > made \/ t \in 1..made
  BY <1>2, SafeAssumption DEF Tx
<1>7. HandlerOK(d)'
  <2>1. calls[d].tx \in 1..made => calls[d].tx \in 1..made'
    BY <1>2, <1>3
  <2>2. \A t \in Tx : t > made' => t > made
    BY <1>2, <1>3
  <2>3. calls[d].n <= nonce'
    BY <1>1, <1>2 DEF HandlerOK
  <2> QED BY <1>1, <1>4, <1>5, <2>1, <2>2, <2>3 DEF HandlerOK
<1>8. DecidedOK(d)'
  <2>1. \A t \in Tx : calls[d].q[t] # {} => num'[t] = num[t]
    BY <1>1, <1>3, <1>6 DEF HandlerOK
  <2>2. \A t \in calls[d].d : num'[t] = num[t]
    <3>1. \A t \in calls[d].d : t \in Tx /\ t <= made
      BY <1>1, <1>2 DEF HandlerOK, Made
    <3> QED BY <1>2, <1>3, <1>6, <3>1
  <2> QED BY <1>1, <1>4, <2>1, <2>2 DEF DecidedOK
<1>9. CurrentOK(d)'
  <2>1. \A t \in Tx : queue[t] # {} => num'[t] = num[t]
    BY <1>1, <1>3, <1>6 DEF Made
  <2>2. queue' = queue \/ "queue" \in calls'[d].stale \/ calls[d].at \in {"idle", "read"}
    OBVIOUS
  <2>3. dropped' = dropped \/ "dropped" \in calls'[d].stale \/ calls[d].at \in {"idle", "read"}
    OBVIOUS
  <2> QED BY <1>1, <1>4, <2>1, <2>2, <2>3 DEF CurrentOK
<1> QED BY <1>7, <1>8, <1>9

\* An idle handler has no part in it.
LEMMA IdleHandlerOK ==
  ASSUME NEW c \in Call, calls'[c] = NoCall, nonce' \in Nat
  PROVE  HandlerOK(c)' /\ CurrentOK(c)' /\ DecidedOK(c)'
  BY DEF NoCall, Nothing, HandlerOK, CurrentOK, DecidedOK

\* The properties of the two lists see only what is made.
LEMMA ListsStay ==
  ASSUME IInv, Grows, nonce' \in Nat, nonce <= nonce', asked \subseteq asked', clobbered => clobbered',
         acked' = acked, removed' = removed
  PROVE  /\ queue' = queue => TakenIsKept'
         /\ dropped' = dropped => RemovedStaysHidden'
<1>1. TypeOK /\ Made /\ TakenIsKept /\ RemovedStaysHidden
  BY DEF IInv
<1>2. \A t \in 1..made : t \in Tx /\ (Ahead(t)' => Ahead(t))
  BY AheadStays
<1>3. \A t \in Tx : t > made \/ t \in 1..made
  BY <1>1, Counted, SafeAssumption DEF Tx
<1>4. \A t : Asked(t) => Asked(t)'
  BY DEF Asked
<1>5. ASSUME queue' = queue PROVE TakenIsKept'
  BY <1>1, <1>2, <1>3, <1>4, <1>5 DEF TakenIsKept, Made
<1>6. ASSUME dropped' = dropped PROVE RemovedStaysHidden'
  <2>1. \A t \in removed : t \in 1..made
    <3>1. \A t \in removed : t \in Tx /\ t \in Nat /\ made \in Nat /\ t <= made
      BY <1>1, Counted DEF Made, TypeOK
    <3> QED BY <1>3, <3>1
  <2> QED BY <1>1, <1>2, <1>6, <2>1 DEF RemovedStaysHidden
<1> QED BY <1>5, <1>6

-----------------------------------------------------------------------------
(***************************************************************************)
(* The two sides of the invariant.                                         *)
(***************************************************************************)
PageTypes ==
  /\ made \in {0} \cup Tx /\ num \in [Tx -> 0..MaxTx] /\ \A t \in 1..made : num[t] < made
  /\ page \in [Owner -> Page] /\ local \in [Owner -> Sigs]

PageSide ==
  /\ nonce <= made
  /\ \A t \in Tx : t > made => signed[t] = {} /\ (\A p \in Owner : local[p][t] = {})
  /\ \A t \in Tx : Asked(t) => t <= made
  /\ Tabs /\ Linked /\ KeptByItsSigner /\ Listed /\ NumberedAfterTheQueue

StoreSide ==
  /\ queue \in Sigs /\ dropped \subseteq Tx /\ calls \in [Call -> Handler]
  /\ acked \in Sigs /\ removed \subseteq Tx /\ clobbered \in BOOLEAN
  /\ \A t \in Tx : t > made => acked[t] = {} /\ queue[t] = {}
  /\ \A t \in dropped : Asked(t)
  /\ \A t \in removed : t <= made
  /\ Handlers /\ TakenIsKept /\ RemovedStaysHidden

Rest ==
  /\ nonce \in 0..MaxTx /\ begun \in 0..MaxBegun /\ signed \in Sigs
  /\ asked \subseteq Tx \X Owner /\ faults \subseteq {"crash", "timeout"}

LEMMA Sides == IInv <=> PageTypes /\ PageSide /\ StoreSide /\ Rest
<1>1. TypeOK /\ Made <=>
        /\ PageTypes /\ Rest
        /\ queue \in Sigs /\ dropped \subseteq Tx /\ calls \in [Call -> Handler]
        /\ acked \in Sigs /\ removed \subseteq Tx /\ clobbered \in BOOLEAN
        /\ nonce <= made
        /\ \A t \in Tx : t > made => signed[t] = {} /\ (\A p \in Owner : local[p][t] = {})
        /\ \A t \in Tx : Asked(t) => t <= made
        /\ \A t \in Tx : t > made => acked[t] = {} /\ queue[t] = {}
        /\ \A t \in dropped : Asked(t)
        /\ \A t \in removed : t <= made
  BY Zenon DEF TypeOK, Made, PageTypes, Rest
<1> QED BY <1>1, Zenon DEF IInv, PageSide, StoreSide

LEMMA SidesNext == PageTypes' /\ PageSide' /\ StoreSide' /\ Rest' => IInv'
  BY Sides, PTL

\* An answer leaves the pages' side as it should be.
LEMMA AnswerKeeps ==
  ASSUME IInv, NEW c \in Call, NEW ts, NEW ds, Answers(c, ts, ds), Others(c),
         nonce' = nonce, signed' = signed, asked' = asked, clobbered => clobbered',
         \A t \in Tx : Ahead(t) /\ ~Asked(t) /\ calls[c].q[t] # {} => t \notin ds /\ ts[t] # {}
  PROVE  PageTypes' /\ PageSide' /\ Grows
<1>0. TypeOK /\ Tabs /\ Linked /\ Listed /\ NumberedAfterTheQueue
  BY DEF IInv
<1>1. Grows
  BY AnswersGrow
<1>2. PageTypes'
  BY <1>0, <1>1 DEF PageTypes, Grows, Answers, Goes, TypeOK
<1>3. /\ Tabs' /\ Linked' /\ KeptByItsSigner'
      /\ nonce' <= made'
      /\ \A t \in Tx : t > made' => signed'[t] = {} /\ (\A q \in Owner : local'[q][t] = {})
      /\ \A t \in Tx : Asked(t)' => t <= made'
  BY PagesAnswered
<1>4. Listed' /\ NumberedAfterTheQueue'
  <2>1. ASSUME NEW p \in Owner, page[p].call = c, Goes(p), Beyond(p, ts, ds)
        PROVE  Listed' /\ NumberedAfterTheQueue'
    <3>1. c # 0
      BY DEF Call
    <3>2. page'[p].known \subseteq page[p].known /\ page[p].known \subseteq Tx
      BY <1>0, <2>1, Counted DEF Goes
    <3>3. page[p].known # {} => page[p].at = "picking"
      BY <1>0, <2>1, <3>1 DEF Tabs, Linked
    <3>4. ~clobbered => \A t \in page[p].known : Ahead(t) /\ ~Asked(t) => calls[c].q[t] # {}
      BY <1>0, <2>1, <3>1, <3>3 DEF Listed
    <3>5. ~clobbered' => \A t \in page'[p].known : Ahead(t) /\ ~Asked(t) => t \notin ds /\ ts[t] # {}
      BY <3>2, <3>4
    <3> QED BY <2>1, <3>5, NumbersGo
  <2>2. CASE (\A p \in Owner : page[p].call # c) /\ UNCHANGED <<made, num, page, local>>
    <3>1. \A p \in Owner : page[p].call # 0 => page[p].call \in Call /\ page[p].call # c
      BY <1>0, <2>2 DEF TypeOK, Page
    <3>2. \A p \in Owner : page[p].call # 0 => calls'[page[p].call].q = calls[page[p].call].q
      BY <3>1 DEF Others
    <3>3. \A t : (Ahead(t)' <=> Ahead(t)) /\ (Asked(t)' <=> Asked(t))
      BY <2>2 DEF Ahead, Asked
    <3> QED BY <1>0, <2>2, <3>2, <3>3 DEF Listed, NumberedAfterTheQueue
  <2> QED BY <2>1, <2>2 DEF Answers
<1> QED BY <1>1, <1>2, <1>3, <1>4 DEF PageSide

\* So does a handler's step that answers nobody.
LEMMA GoesOn ==
  ASSUME IInv, NEW c \in Call, Others(c), calls'[c].kind = calls[c].kind,
         calls[c].kind = "get" => calls'[c].q = calls[c].q,
         UNCHANGED <<made, num, page, local>>,
         nonce' = nonce, signed' = signed, asked' = asked, clobbered => clobbered'
  PROVE  PageTypes' /\ PageSide' /\ Grows
<1>0. /\ TypeOK /\ Made /\ Tabs /\ Linked /\ Listed /\ NumberedAfterTheQueue /\ KeptByItsSigner
      /\ PageTypes /\ PageSide
  BY Sides DEF IInv
<1>1. Grows
  BY <1>0, Counted, SafeAssumption DEF Grows, TypeOK
<1>2. PageTypes'
  BY <1>0 DEF PageTypes
<1>3. \A d \in Call : calls'[d].kind = calls[d].kind /\ (calls[d].kind = "get" => calls'[d].q = calls[d].q)
  BY DEF Others
<1>4. \A p \in Owner : page[p].call # 0 => page[p].call \in Call
  BY <1>0 DEF TypeOK, Page
<1>5. Tabs' /\ KeptByItsSigner' /\ NumberedAfterTheQueue'
  BY <1>0 DEF Tabs, KeptByItsSigner, NumberedAfterTheQueue, Ahead, Asked
<1>6. Linked'
  BY <1>0, <1>3, <1>4 DEF Linked
<1>7. Listed'
  <2>1. \A p \in Owner : page[p].at = "picking" /\ page[p].call # 0 =>
          calls'[page[p].call].q = calls[page[p].call].q
    BY <1>0, <1>3, <1>4 DEF Linked
  <2> QED BY <1>0, <2>1 DEF Listed, Ahead, Asked
<1>8. /\ nonce' <= made'
      /\ \A t \in Tx : t > made' => signed'[t] = {} /\ (\A p \in Owner : local'[p][t] = {})
      /\ \A t \in Tx : Asked(t)' => t <= made'
  BY <1>0 DEF PageSide, Asked
<1> QED BY <1>1, <1>2, <1>5, <1>6, <1>7, <1>8 DEF PageSide

\* A step that writes nothing leaves the store's side.
LEMMA StoreStays ==
  ASSUME IInv, NEW c, Others(c), Grows, nonce' \in Nat, nonce <= nonce', asked \subseteq asked',
         UNCHANGED <<queue, dropped, acked, removed, clobbered>>,
         calls' \in [Call -> Handler], c \in Call => HandlerOK(c)' /\ CurrentOK(c)' /\ DecidedOK(c)'
  PROVE  StoreSide'
<1>0. TypeOK /\ Made /\ StoreSide
  BY Sides DEF IInv
<1>1. Handlers'
  BY OthersStay DEF Handlers
<1>2. TakenIsKept' /\ RemovedStaysHidden'
  BY ListsStay
<1>3. \A t : Asked(t) => Asked(t)'
  BY DEF Asked
<1>4. made \in Nat /\ made' \in Nat /\ made <= made' /\ \A t \in Tx : t \in Nat
  BY <1>0, Counted DEF Grows
<1>5. \A t \in Tx : (t > made' => t > made) /\ (t <= made => t <= made')
  BY <1>4
<1>6. /\ \A t \in Tx : t > made' => acked'[t] = {} /\ queue'[t] = {}
      /\ \A t \in dropped' : Asked(t)'
      /\ \A t \in removed' : t <= made'
  BY <1>0, <1>3, <1>5 DEF StoreSide
<1> QED BY <1>0, <1>1, <1>2, <1>6 DEF StoreSide

-----------------------------------------------------------------------------
(***************************************************************************)
(* The handlers.                                                           *)
(***************************************************************************)
LEMMA LiveIs ==
  ASSUME TypeOK, NEW q \in Sigs, NEW n \in Nat
  PROVE  /\ Live(q, n) \in Sigs
         /\ \A t \in Tx : Live(q, n)[t] = IF num[t] >= n THEN q[t] ELSE {}
  BY DEF Live, Sigs

\* A list that was read is all there is to show of what is ahead and not removed.
LEMMA ListIsWhole ==
  ASSUME IInv, NEW c \in Call, NEW n \in Nat, n <= nonce
  PROVE  /\ calls[c].q \in Sigs /\ Live(calls[c].q, n) \in Sigs
         /\ \A t \in Tx : t > made => Live(calls[c].q, n)[t] = {}
         /\ \A t \in Tx : Ahead(t) /\ ~Asked(t) /\ calls[c].q[t] # {} =>
              t \notin StillDropped(calls[c].d, n) /\ Live(calls[c].q, n)[t] # {}
<1>1. TypeOK /\ HandlerOK(c)
  BY DEF IInv, Handlers
<1>2. calls[c].q \in Sigs
  BY <1>1 DEF TypeOK, Handler
<1>3. /\ Live(calls[c].q, n) \in Sigs
      /\ \A t \in Tx : Live(calls[c].q, n)[t] = IF num[t] >= n THEN calls[c].q[t] ELSE {}
  BY <1>1, <1>2, LiveIs
<1>4. \A t \in Tx : Ahead(t) => num[t] >= n
  <2>1. nonce \in Nat /\ \A t \in Tx : num[t] \in Nat
    BY <1>1, Counted
  <2> QED BY <2>1 DEF Ahead
<1>5. \A t \in StillDropped(calls[c].d, n) : Asked(t)
  BY <1>1 DEF StillDropped, HandlerOK
<1> QED BY <1>1, <1>2, <1>3, <1>4, <1>5 DEF HandlerOK

LEMMA ListAnswers ==
  ASSUME IInv, NEW c \in Call, NEW n \in Nat, n <= nonce,
         \/ \E p \in Owner : Waits(p, c) /\ GotList(p, Live(calls[c].q, n), StillDropped(calls[c].d, n))
         \/ (\A p \in Owner : ~Waits(p, c)) /\ UNCHANGED <<made, num, page, local>>
  PROVE  Answers(c, Live(calls[c].q, n), StillDropped(calls[c].d, n))
  BY ListIsWhole, GotListGoes DEF Answers, Waits

LEMMA OtherAnswers ==
  ASSUME IInv, NEW c \in Call,
         \/ \E p \in Owner : Waits(p, c) /\ (Done(p) \/ GoesWithout(p) \/ (calls[c].kind = "delete" /\ Forget(p)))
         \/ (\A p \in Owner : ~Waits(p, c)) /\ UNCHANGED <<made, num, page, local>>
  PROVE  Answers(c, calls[c].q, {})
<1>1. ASSUME NEW p \in Owner, Waits(p, c),
             Done(p) \/ GoesWithout(p) \/ (calls[c].kind = "delete" /\ Forget(p))
      PROVE  Goes(p) /\ Beyond(p, calls[c].q, {})
  <2>1. CASE Done(p)
    BY <2>1, DoneGoes DEF Beyond
  <2>2. CASE GoesWithout(p)
    BY <2>2, WithoutGoes DEF Beyond
  <2>3. CASE calls[c].kind = "delete" /\ Forget(p)
    <3>1. page[p].call = c /\ c # 0
      BY <1>1 DEF Waits, Call
    <3>2. page[p].at = "removing"
      BY <2>3, <3>1 DEF IInv, Linked
    <3> QED BY <2>3, <3>2, ForgetGoes DEF Beyond
  <2> QED BY <1>1, <2>1, <2>2, <2>3
<1> QED BY <1>1 DEF Answers, Waits

LEMMA AskChainKeeps ==
  ASSUME IInv, NEW c \in Call, AskChain(c)
  PROVE  IInv'
<1> DEFINE todo == Drops(calls[c].q, calls[c].d, nonce)
           next == [calls[c] EXCEPT !.n = nonce, !.at = IF "queue" \in todo THEN "queue" ELSE "dropped"]
<1>0. TypeOK /\ nonce \in Nat /\ calls[c] \in Handler /\ HandlerOK(c) /\ CurrentOK(c) /\ Rest
  BY Sides, Counted DEF IInv, TypeOK, Handlers
<1>1. calls[c].kind = "get" /\ calls[c].at = "chain"
  BY DEF AskChain
<1>2. UNCHANGED <<begun, nonce, queue, dropped, signed, acked, asked, removed, clobbered, faults>>
  BY DEF AskChain, server, history
<1>3. Rest' /\ nonce' \in Nat /\ nonce <= nonce' /\ asked \subseteq asked'
  BY <1>0, <1>2 DEF Rest
<1>4. CASE todo = {}
  <2>1. calls' = [calls EXCEPT ![c] = NoCall]
    BY <1>4 DEF AskChain
  <2>2. calls' \in [Call -> Handler] /\ calls'[c] = NoCall /\ Others(c)
    BY <1>0, <2>1, NoCallIsTyped, SetLeavesOthers
  <2>3. \/ \E p \in Owner : Waits(p, c) /\ GotList(p, Live(calls[c].q, nonce), StillDropped(calls[c].d, nonce))
        \/ (\A p \in Owner : ~Waits(p, c)) /\ UNCHANGED <<made, num, page, local>>
    BY <1>4 DEF AskChain, AnswerPage
  <2>4. Answers(c, Live(calls[c].q, nonce), StillDropped(calls[c].d, nonce))
    BY <1>0, <2>3, ListAnswers
  <2>5. \A t \in Tx : Ahead(t) /\ ~Asked(t) /\ calls[c].q[t] # {} =>
          t \notin StillDropped(calls[c].d, nonce) /\ Live(calls[c].q, nonce)[t] # {}
    BY <1>0, ListIsWhole
  <2>6. PageTypes' /\ PageSide' /\ Grows
    BY <1>2, <2>2, <2>4, <2>5, AnswerKeeps
  <2>7. StoreSide'
    BY <1>2, <1>3, <2>2, <2>6, IdleHandlerOK, StoreStays
  <2> QED BY <1>3, <2>6, <2>7, SidesNext
<1>5. CASE todo # {}
  <2>1. next \in Handler
    BY <1>0 DEF Handler
  <2>2. calls' = [calls EXCEPT ![c] = next] /\ UNCHANGED <<made, num, page, local>>
    BY <1>0, <1>5 DEF AskChain, TypeOK
  <2>3. /\ next.kind = "get" /\ next.q = calls[c].q /\ next.d = calls[c].d /\ next.n = nonce
        /\ next.stale = calls[c].stale
        /\ next.at = IF "queue" \in todo THEN "queue" ELSE "dropped"
    BY <1>0, <1>1 DEF Handler
  <2> HIDE DEF next
  <2>4. calls' \in [Call -> Handler] /\ calls'[c] = next /\ Others(c)
    BY <1>0, <2>1, <2>2, SetLeavesOthers
  <2>5. PageTypes' /\ PageSide' /\ Grows
    BY <1>1, <1>2, <2>2, <2>3, <2>4, GoesOn
  <2>6. "queue" \in todo => \A t \in Tx : calls[c].q[t] # {} => num[t] < nonce
    <3> SUFFICES ASSUME Entries(Live(calls[c].q, nonce)) = {}, NEW t \in Tx, calls[c].q[t] # {}
                 PROVE  num[t] < nonce
      BY DEF Drops
    <3>1. calls[c].q \in Sigs /\ num[t] \in Nat
      BY <1>0, Counted DEF Handler
    <3>2. Live(calls[c].q, nonce)[t] = {}
      BY DEF Entries
    <3>3. ~(num[t] >= nonce)
      BY <1>0, <3>1, <3>2, LiveIs
    <3> QED BY <1>0, <3>1, <3>3
  <2>7. "queue" \notin todo => \A t \in calls[c].d : num[t] < nonce
    <3> SUFFICES ASSUME StillDropped(calls[c].d, nonce) = {}, NEW t \in calls[c].d
                 PROVE  num[t] < nonce
      BY <1>5 DEF Drops
    <3>1. t \in Tx /\ num[t] \in Nat
      BY <1>0, Counted DEF Handler
    <3> QED BY <1>0, <3>1 DEF StillDropped
  <2>8. HandlerOK(c)'
    <3>1. \A t \in calls[c].d : Asked(t)'
      BY <1>0, <1>2 DEF HandlerOK, Asked
    <3> QED BY <1>0, <1>2, <2>2, <2>3, <2>4, <3>1 DEF HandlerOK
  <2>9. CurrentOK(c)'
    BY <1>0, <1>1, <1>2, <2>3, <2>4 DEF CurrentOK
  <2>10. DecidedOK(c)'
    BY <1>2, <2>2, <2>3, <2>4, <2>6, <2>7 DEF DecidedOK
  <2>11. StoreSide'
    BY <1>2, <1>3, <2>4, <2>5, <2>8, <2>9, <2>10, StoreStays
  <2> QED BY <1>3, <2>5, <2>11, SidesNext
<1> QED BY <1>4, <1>5

\* A handler stops, or refuses.
LEMMA StopKeeps ==
  ASSUME IInv, NEW c \in Call, calls' = [calls EXCEPT ![c] = NoCall], Answers(c, calls[c].q, {}),
         UNCHANGED <<nonce, queue, dropped, signed, acked, asked, removed, clobbered>>, Rest'
  PROVE  IInv'
<1>0. TypeOK /\ nonce \in Nat
  BY Counted DEF IInv
<1>1. calls' \in [Call -> Handler] /\ calls'[c] = NoCall /\ Others(c)
  BY <1>0, NoCallIsTyped, SetLeavesOthers
<1>2. PageTypes' /\ PageSide' /\ Grows
  BY <1>1, AnswerKeeps
<1>3. nonce' \in Nat /\ nonce <= nonce' /\ asked \subseteq asked'
  BY <1>0
<1>4. StoreSide'
  BY <1>1, <1>2, <1>3, IdleHandlerOK, StoreStays
<1> QED BY <1>2, <1>4, SidesNext

\* A handler goes on, and writes nothing.
LEMMA ReadKeeps ==
  ASSUME IInv, NEW c \in Call, NEW next \in Handler, calls' = [calls EXCEPT ![c] = next],
         next.kind = calls[c].kind, next.kind = "get" => next.q = calls[c].q,
         UNCHANGED <<made, num, page, local, nonce, queue, dropped, signed, acked, asked, removed, clobbered>>,
         Rest', HandlerOK(c)', CurrentOK(c)', DecidedOK(c)'
  PROVE  IInv'
<1>0. TypeOK /\ nonce \in Nat
  BY Counted DEF IInv
<1>1. calls' \in [Call -> Handler] /\ calls'[c] = next /\ Others(c)
  BY <1>0, SetLeavesOthers
<1>2. PageTypes' /\ PageSide' /\ Grows
  BY <1>1, GoesOn
<1>3. nonce' \in Nat /\ nonce <= nonce' /\ asked \subseteq asked'
  BY <1>0
<1>4. StoreSide'
  BY <1>1, <1>2, <1>3, StoreStays
<1> QED BY <1>2, <1>4, SidesNext

LEMMA ReadAndMergeKeeps ==
  ASSUME IInv, NEW c \in Call, ReadAndMerge(c)
  PROVE  IInv'
<1> DEFINE live == Live(queue, calls[c].n)
           q == WithSigs(live, calls[c].tx, calls[c].by)
           next == [calls[c] EXCEPT !.at = "queue", !.q = q]
<1>0. TypeOK /\ calls[c] \in Handler /\ HandlerOK(c) /\ Rest /\ Made
  BY Sides DEF IInv, TypeOK, Handlers
<1>1. calls[c].kind = "post" /\ calls[c].at = "read"
  BY DEF ReadAndMerge
<1>2. UNCHANGED <<begun, nonce, queue, dropped, signed, acked, asked, removed, clobbered, faults>>
  BY DEF ReadAndMerge, server, history
<1>3. Rest'
  BY <1>0, <1>2 DEF Rest
<1>4. CASE calls' = [calls EXCEPT ![c] = NoCall] /\ AnswerPage(c, Done)
  <2>1. \/ \E p \in Owner : Waits(p, c) /\ Done(p)
        \/ (\A p \in Owner : ~Waits(p, c)) /\ UNCHANGED <<made, num, page, local>>
    BY <1>4 DEF AnswerPage
  <2>2. Answers(c, calls[c].q, {})
    BY <2>1, OtherAnswers
  <2> QED BY <1>2, <1>3, <1>4, <2>2, StopKeeps
<1>5. CASE calls' = [calls EXCEPT ![c].at = "queue", ![c].q = q] /\ UNCHANGED <<made, num, page, local>>
  <2>1. calls[c].n \in Nat /\ calls[c].tx \in 1..made /\ calls[c].tx \in Tx /\ calls[c].by \subseteq Owner
        /\ made \in Nat /\ \A t \in Tx : t \in Nat
    <3>1. calls[c].tx \in 1..made
      BY <1>0, <1>1 DEF HandlerOK
    <3>2. \A t \in 1..made : t \in Tx
      BY <1>0, Counted, SafeAssumption DEF TypeOK, Tx
    <3> QED BY <1>0, <3>1, <3>2, Counted DEF Handler
  <2>2. /\ live \in Sigs
        /\ \A t \in Tx : live[t] = IF num[t] >= calls[c].n THEN queue[t] ELSE {}
    <3>1. queue \in Sigs
      BY <1>0 DEF TypeOK
    <3> QED BY <1>0, <2>1, <3>1, LiveIs
  <2> HIDE DEF live
  <2>3. /\ q \in Sigs
        /\ \A t \in Tx : q[t] = IF t = calls[c].tx THEN live[t] \cup calls[c].by ELSE live[t]
    BY <2>1, <2>2 DEF WithSigs, Sigs
  <2> HIDE DEF q
  <2>4. next \in Handler
    BY <1>0, <2>3 DEF Handler
  <2>5. /\ next.kind = "post" /\ next.at = "queue" /\ next.q = q /\ next.tx = calls[c].tx
        /\ next.by = calls[c].by /\ next.n = calls[c].n /\ next.d = calls[c].d /\ next.stale = calls[c].stale
    BY <1>0, <1>1 DEF Handler
  <2>6. calls' = [calls EXCEPT ![c] = next]
    BY <1>0, <1>5 DEF TypeOK
  <2> HIDE DEF next
  <2>7. calls'[c] = next
    BY <1>0, <2>6 DEF TypeOK
  <2>8. HandlerOK(c)'
    <3>1. \A t \in Tx : t > made => q[t] = {}
      BY <1>0, <2>1, <2>2, <2>3 DEF Made
    <3>2. \A t \in calls[c].d : Asked(t)'
      BY <1>0, <1>2 DEF HandlerOK, Asked
    <3> QED BY <1>0, <1>2, <1>5, <2>1, <2>5, <2>7, <3>1, <3>2 DEF HandlerOK
  <2>9. CurrentOK(c)'
    <3>1. \A t \in Tx : num[t] >= calls[c].n => queue[t] \subseteq q[t]
      BY <2>2, <2>3
    <3> QED BY <1>2, <1>5, <2>5, <2>7, <3>1 DEF CurrentOK
  <2>10. DecidedOK(c)'
    BY <1>5, <2>1, <2>3, <2>5, <2>7 DEF DecidedOK
  <2> QED BY <1>1, <1>2, <1>3, <1>5, <2>4, <2>5, <2>6, <2>8, <2>9, <2>10, ReadKeeps
<1> QED BY <1>4, <1>5 DEF ReadAndMerge

LEMMA ReadBothKeeps ==
  ASSUME IInv, NEW c \in Call, ReadBoth(c)
  PROVE  IInv'
<1> DEFINE next == [calls[c] EXCEPT !.at = "queue", !.q = queue, !.d = dropped]
<1>0. TypeOK /\ calls[c] \in Handler /\ HandlerOK(c) /\ Rest /\ Made
  BY Sides DEF IInv, TypeOK, Handlers
<1>1. calls[c].kind = "delete" /\ calls[c].at = "read"
  BY DEF ReadBoth
<1>2. /\ UNCHANGED <<begun, nonce, queue, dropped, signed, acked, asked, removed, clobbered, faults>>
      /\ UNCHANGED <<made, num, page, local>>
  BY DEF ReadBoth, server, history
<1>3. Rest'
  BY <1>0, <1>2 DEF Rest
<1>4. next \in Handler
  BY <1>0 DEF Handler, TypeOK
<1>5. /\ next.kind = "delete" /\ next.at = "queue" /\ next.q = queue /\ next.d = dropped
      /\ next.tx = calls[c].tx /\ next.n = calls[c].n /\ next.stale = calls[c].stale
  BY <1>0, <1>1 DEF Handler
<1>6. calls' = [calls EXCEPT ![c] = next]
  BY <1>0 DEF ReadBoth, TypeOK
<1> HIDE DEF next
<1>7. calls'[c] = next
  BY <1>0, <1>6 DEF TypeOK
<1>8. HandlerOK(c)'
  <2>1. Asked(calls[c].tx) /\ \A t \in dropped : Asked(t)
    BY <1>0, <1>1 DEF HandlerOK, Made
  <2>3. \A t : Asked(t) => Asked(t)'
    BY <1>2 DEF Asked
  <2>2. Asked(calls[c].tx)' /\ \A t \in dropped : Asked(t)'
    BY <1>2, <1>5, <1>7, <2>1, <2>3 DEF Asked
  <2> QED BY <1>0, <1>1, <1>2, <1>5, <1>7, <2>2 DEF HandlerOK, Made, Asked
<1>9. CurrentOK(c)' /\ DecidedOK(c)'
  BY <1>2, <1>5, <1>7 DEF CurrentOK, DecidedOK
<1> QED BY <1>1, <1>2, <1>3, <1>4, <1>5, <1>6, <1>8, <1>9, ReadKeeps

LEMMA CrashKeeps ==
  ASSUME IInv, NEW c \in Call, Crash(c)
  PROVE  IInv'
<1>1. \/ \E p \in Owner : Waits(p, c) /\ GoesWithout(p)
      \/ (\A p \in Owner : ~Waits(p, c)) /\ UNCHANGED <<made, num, page, local>>
  BY DEF Crash, AnswerPage
<1>2. Answers(c, calls[c].q, {})
  BY <1>1, OtherAnswers
<1>3. /\ calls' = [calls EXCEPT ![c] = NoCall]
      /\ UNCHANGED <<begun, nonce, queue, dropped, signed, acked, asked, removed, clobbered>>
      /\ faults' = faults \cup {"crash"}
  BY DEF Crash, Happens, server, history
<1>4. Rest'
  BY <1>3, Sides DEF Rest
<1> QED BY <1>2, <1>3, <1>4, StopKeeps

\* A value is written: the store's side, once the two lists are as they should be.
LEMMA StoreWritten ==
  ASSUME IInv, NEW c \in Call, Others(c), Grows, nonce' = nonce, asked' = asked,
         calls' \in [Call -> Handler], clobbered' \in BOOLEAN,
         queue' = queue \/ \A d \in Call : d # c => "queue" \in calls'[d].stale \/ calls[d].at \in {"idle", "read"},
         dropped' = dropped \/ \A d \in Call : d # c => "dropped" \in calls'[d].stale \/ calls[d].at \in {"idle", "read"},
         HandlerOK(c)', CurrentOK(c)', DecidedOK(c)',
         queue' \in Sigs, \A t \in Tx : t > made => queue'[t] = {},
         dropped' \subseteq Tx, \A t \in dropped' : Asked(t),
         acked' \in Sigs, \A t \in Tx : t > made => acked'[t] = {},
         removed' \subseteq Tx, \A t \in removed' : t <= made,
         TakenIsKept', RemovedStaysHidden'
  PROVE  StoreSide'
<1>0. TypeOK
  BY DEF IInv
<1>1. made \in Nat /\ made' \in Nat /\ made <= made' /\ nonce \in Nat /\ \A t \in Tx : t \in Nat
  BY <1>0, Counted DEF Grows
<1>2. nonce <= nonce' /\ nonce' \in Nat /\ asked \subseteq asked'
  BY <1>1
<1>3. Handlers'
  BY <1>2, OthersStay DEF Handlers
<1>4. \A t \in Tx : (t > made' => t > made) /\ (t <= made => t <= made')
  BY <1>1
<1>5. \A t : Asked(t) => Asked(t)'
  BY DEF Asked
<1>6. /\ \A t \in Tx : t > made' => acked'[t] = {} /\ queue'[t] = {}
      /\ \A t \in dropped' : Asked(t)'
      /\ \A t \in removed' : t <= made'
  BY <1>4, <1>5
<1> QED BY <1>3, <1>6 DEF StoreSide

LEMMA DropQueueKeeps ==
  ASSUME IInv, NEW c \in Call, DropQueue(c)
  PROVE  IInv'
<1> DEFINE more == "dropped" \in Drops(calls[c].q, calls[c].d, calls[c].n)
           next == IF more THEN [calls[c] EXCEPT !.at = "dropped"] ELSE NoCall
<1>0. /\ TypeOK /\ nonce \in Nat /\ calls[c] \in Handler
      /\ HandlerOK(c) /\ CurrentOK(c) /\ DecidedOK(c) /\ Rest /\ StoreSide
  BY Sides, Counted DEF IInv, TypeOK, Handlers
<1>1. calls[c].kind = "get" /\ calls[c].at = "queue" /\ calls[c].n \in Nat /\ calls[c].n <= nonce
  BY <1>0 DEF DropQueue, HandlerOK, Handler
<1>2. /\ UNCHANGED <<begun, nonce, dropped, signed, acked, asked, removed, faults>>
      /\ queue' = Nothing
  BY DEF DropQueue, history
<1>3. Rest' /\ nonce' \in Nat /\ nonce <= nonce' /\ asked \subseteq asked'
  BY <1>0, <1>2 DEF Rest
<1>4. next \in Handler
  BY <1>0, NoCallIsTyped DEF Handler
<1>5. Write(c, "queue", next)
  BY DEF DropQueue
<1>6. /\ more => next.kind = "get" /\ next.at = "dropped" /\ next.q = calls[c].q /\ next.d = calls[c].d
                 /\ next.n = calls[c].n /\ next.stale = calls[c].stale
      /\ ~more => next = NoCall
  BY <1>0, <1>1 DEF Handler
<1> HIDE DEF next
<1>7. /\ calls' \in [Call -> Handler] /\ calls'[c] = next /\ Others(c) /\ clobbered' \in BOOLEAN
      /\ ~clobbered' => ~clobbered /\ "queue" \notin calls[c].stale
      /\ \A d \in Call : d # c => "queue" \in calls'[d].stale \/ calls[d].at \in {"idle", "read"}
  BY <1>0, <1>4, <1>5, WriteLeavesOthers
<1>8. clobbered => clobbered'
  BY <1>0, <1>7 DEF TypeOK
<1>9. PageTypes' /\ PageSide' /\ Grows
  <2>1. CASE more
    <3>1. UNCHANGED <<made, num, page, local>>
      BY <2>1 DEF DropQueue
    <3> QED BY <1>1, <1>2, <1>6, <1>7, <1>8, <2>1, <3>1, GoesOn
  <2>2. CASE ~more
    <3>1. \/ \E p \in Owner : Waits(p, c) /\ GotList(p, Live(calls[c].q, calls[c].n), StillDropped(calls[c].d, calls[c].n))
          \/ (\A p \in Owner : ~Waits(p, c)) /\ UNCHANGED <<made, num, page, local>>
      BY <2>2 DEF DropQueue, AnswerList, AnswerPage
    <3>2. Answers(c, Live(calls[c].q, calls[c].n), StillDropped(calls[c].d, calls[c].n))
      BY <1>1, <3>1, ListAnswers
    <3>3. \A t \in Tx : Ahead(t) /\ ~Asked(t) /\ calls[c].q[t] # {} =>
            t \notin StillDropped(calls[c].d, calls[c].n) /\ Live(calls[c].q, calls[c].n)[t] # {}
      BY <1>1, ListIsWhole
    <3> QED BY <1>2, <1>7, <1>8, <3>2, <3>3, AnswerKeeps
  <2> QED BY <2>1, <2>2
<1>10. HandlerOK(c)' /\ CurrentOK(c)' /\ DecidedOK(c)'
  <2>1. CASE ~more
    BY <1>3, <1>6, <1>7, <2>1, IdleHandlerOK
  <2>2. CASE more
    <3>1. UNCHANGED <<made, num>>
      BY <2>2 DEF DropQueue
    <3>2. \A t \in calls[c].d : num[t] < calls[c].n
      <4> SUFFICES ASSUME StillDropped(calls[c].d, calls[c].n) = {}, NEW t \in calls[c].d
                   PROVE  num[t] < calls[c].n
        BY <2>2 DEF Drops
      <4>1. t \in Tx /\ num[t] \in Nat
        BY <1>0, Counted DEF Handler
      <4> QED BY <1>1, <4>1 DEF StillDropped
    <3>3. \A t : Asked(t) => Asked(t)'
      BY <1>2 DEF Asked
    <3>4. HandlerOK(c)'
      BY <1>0, <1>1, <1>2, <1>6, <1>7, <2>2, <3>1, <3>3 DEF HandlerOK
    <3>5. CurrentOK(c)' /\ DecidedOK(c)'
      BY <1>0, <1>1, <1>2, <1>6, <1>7, <2>2, <3>1, <3>2 DEF CurrentOK, DecidedOK
    <3> QED BY <3>4, <3>5
  <2> QED BY <2>1, <2>2
<1>11. RemovedStaysHidden'
  BY <1>2, <1>3, <1>8, <1>9, ListsStay
<1>12. TakenIsKept'
  <2> SUFFICES ASSUME ~clobbered', NEW t \in Tx, Ahead(t)', ~Asked(t)' PROVE acked[t] = {}
    BY <1>2 DEF TakenIsKept
  <2>1. ~clobbered /\ calls[c].q = queue
    BY <1>0, <1>1, <1>7 DEF CurrentOK
  <2>2. made \in Nat /\ num[t] \in Nat /\ t \in Nat
    BY <1>0, Counted
  <2>3. CASE t > made
    BY <1>0, <2>3 DEF StoreSide
  <2>4. CASE t \in 1..made
    <3>1. Ahead(t) /\ ~Asked(t)
      BY <1>2, <1>3, <1>9, <2>4, AheadStays DEF Asked
    <3>2. ~(num[t] < calls[c].n)
      BY <1>0, <1>1, <2>2, <3>1 DEF Ahead
    <3>3. queue[t] = {}
      BY <1>0, <1>1, <2>1, <3>2 DEF DecidedOK
    <3> QED BY <1>0, <2>1, <3>1, <3>3 DEF StoreSide, TakenIsKept
  <2> QED BY <2>2, <2>3, <2>4, SafeAssumption DEF Tx
<1>13. queue' \in Sigs /\ \A t \in Tx : queue'[t] = {}
  BY <1>2 DEF Nothing, Sigs
<1>14. StoreSide'
  BY <1>0, <1>2, <1>7, <1>9, <1>10, <1>11, <1>12, <1>13, StoreWritten DEF StoreSide
<1> QED BY <1>3, <1>9, <1>14, SidesNext

LEMMA DropDroppedKeeps ==
  ASSUME IInv, NEW c \in Call, DropDropped(c)
  PROVE  IInv'
<1>0. /\ TypeOK /\ nonce \in Nat /\ calls[c] \in Handler
      /\ HandlerOK(c) /\ CurrentOK(c) /\ DecidedOK(c) /\ Rest /\ StoreSide
  BY Sides, Counted DEF IInv, TypeOK, Handlers
<1>1. calls[c].kind = "get" /\ calls[c].at = "dropped" /\ calls[c].n \in Nat /\ calls[c].n <= nonce
  BY <1>0 DEF DropDropped, HandlerOK, Handler
<1>2. /\ UNCHANGED <<begun, nonce, queue, signed, acked, asked, removed, faults>>
      /\ dropped' = {}
  BY DEF DropDropped, history
<1>3. Rest' /\ nonce' \in Nat /\ nonce <= nonce' /\ asked \subseteq asked'
  BY <1>0, <1>2 DEF Rest
<1>4. Write(c, "dropped", NoCall)
  BY DEF DropDropped
<1>5. /\ calls' \in [Call -> Handler] /\ calls'[c] = NoCall /\ Others(c) /\ clobbered' \in BOOLEAN
      /\ ~clobbered' => ~clobbered /\ "dropped" \notin calls[c].stale
      /\ \A d \in Call : d # c => "dropped" \in calls'[d].stale \/ calls[d].at \in {"idle", "read"}
  BY <1>0, <1>4, NoCallIsTyped, WriteLeavesOthers
<1>6. clobbered => clobbered'
  BY <1>0, <1>5 DEF TypeOK
<1>7. PageTypes' /\ PageSide' /\ Grows
  <2>1. \/ \E p \in Owner : Waits(p, c) /\ GotList(p, Live(calls[c].q, calls[c].n), StillDropped(calls[c].d, calls[c].n))
        \/ (\A p \in Owner : ~Waits(p, c)) /\ UNCHANGED <<made, num, page, local>>
    BY DEF DropDropped, AnswerList, AnswerPage
  <2>2. Answers(c, Live(calls[c].q, calls[c].n), StillDropped(calls[c].d, calls[c].n))
    BY <1>1, <2>1, ListAnswers
  <2>3. \A t \in Tx : Ahead(t) /\ ~Asked(t) /\ calls[c].q[t] # {} =>
          t \notin StillDropped(calls[c].d, calls[c].n) /\ Live(calls[c].q, calls[c].n)[t] # {}
    BY <1>1, ListIsWhole
  <2> QED BY <1>2, <1>5, <1>6, <2>2, <2>3, AnswerKeeps
<1>8. HandlerOK(c)' /\ CurrentOK(c)' /\ DecidedOK(c)'
  BY <1>3, <1>5, IdleHandlerOK
<1>9. TakenIsKept'
  BY <1>2, <1>3, <1>6, <1>7, ListsStay
<1>10. RemovedStaysHidden'
  <2> SUFFICES ASSUME ~clobbered', NEW t \in removed, Ahead(t)' PROVE FALSE
    BY <1>2 DEF RemovedStaysHidden
  <2>1. ~clobbered /\ calls[c].d = dropped
    BY <1>0, <1>1, <1>5 DEF CurrentOK
  <2>2. made \in Nat /\ num[t] \in Nat /\ t \in Nat /\ t \in Tx
    BY <1>0, Counted DEF TypeOK
  <2>3. t \in 1..made
    BY <1>0, <2>2, SafeAssumption DEF StoreSide, Tx
  <2>4. Ahead(t)
    BY <1>3, <1>7, <2>3, AheadStays
  <2>5. t \in dropped
    BY <1>0, <2>1, <2>4 DEF StoreSide, RemovedStaysHidden
  <2>6. num[t] < calls[c].n
    BY <1>0, <1>1, <2>1, <2>5 DEF DecidedOK
  <2> QED BY <1>0, <1>1, <2>2, <2>4, <2>6 DEF Ahead
<1>11. StoreSide'
  BY <1>0, <1>2, <1>5, <1>7, <1>8, <1>9, <1>10, StoreWritten DEF StoreSide
<1> QED BY <1>3, <1>7, <1>11, SidesNext

LEMMA StashMergedKeeps ==
  ASSUME IInv, NEW c \in Call, StashMerged(c)
  PROVE  IInv'
<1>0. /\ TypeOK /\ nonce \in Nat /\ calls[c] \in Handler
      /\ HandlerOK(c) /\ CurrentOK(c) /\ DecidedOK(c) /\ Rest /\ StoreSide
  BY Sides, Counted DEF IInv, TypeOK, Handlers
<1>1. /\ calls[c].kind = "post" /\ calls[c].at = "queue" /\ calls[c].n \in Nat /\ calls[c].n <= nonce
      /\ calls[c].tx \in 1..made /\ calls[c].q \in Sigs /\ calls[c].by \subseteq Owner
  BY <1>0 DEF StashMerged, HandlerOK, Handler
<1>2. /\ UNCHANGED <<begun, nonce, dropped, signed, asked, removed, faults>>
      /\ queue' = calls[c].q
  BY DEF StashMerged
<1>3. Rest' /\ nonce' \in Nat /\ nonce <= nonce' /\ asked \subseteq asked'
  BY <1>0, <1>2 DEF Rest
<1>4. Write(c, "queue", NoCall)
  BY DEF StashMerged
<1>5. /\ calls' \in [Call -> Handler] /\ calls'[c] = NoCall /\ Others(c) /\ clobbered' \in BOOLEAN
      /\ ~clobbered' => ~clobbered /\ "queue" \notin calls[c].stale
      /\ \A d \in Call : d # c => "queue" \in calls'[d].stale \/ calls[d].at \in {"idle", "read"}
  BY <1>0, <1>4, NoCallIsTyped, WriteLeavesOthers
<1>6. clobbered => clobbered'
  BY <1>0, <1>5 DEF TypeOK
<1>7. PageTypes' /\ PageSide' /\ Grows
  <2>1. \/ \E p \in Owner : Waits(p, c) /\ Done(p)
        \/ (\A p \in Owner : ~Waits(p, c)) /\ UNCHANGED <<made, num, page, local>>
    BY DEF StashMerged, AnswerPage
  <2>2. Answers(c, calls[c].q, {})
    BY <2>1, OtherAnswers
  <2> QED BY <1>2, <1>5, <1>6, <2>2, AnswerKeeps
<1>8. HandlerOK(c)' /\ CurrentOK(c)' /\ DecidedOK(c)'
  BY <1>3, <1>5, IdleHandlerOK
<1>9. /\ acked' \in Sigs /\ calls[c].tx \in Tx
      /\ \A t \in Tx : acked'[t] = IF t = calls[c].tx THEN acked[t] \cup calls[c].by ELSE acked[t]
  <2>1. acked \in Sigs /\ acked' = [acked EXCEPT ![calls[c].tx] = @ \cup calls[c].by]
    BY <1>0 DEF StashMerged, StoreSide
  <2>2. \A t \in 1..made : t \in Tx
    BY <1>0, Counted, SafeAssumption DEF TypeOK, Tx
  <2> QED BY <1>1, <2>1, <2>2 DEF Sigs
<1>10. \A t \in Tx : t > made => acked'[t] = {} /\ calls[c].q[t] = {}
  <2>1. made \in Nat
    BY <1>0, Counted
  <2> QED BY <1>0, <1>1, <1>9, <2>1 DEF StoreSide, HandlerOK
<1>11. TakenIsKept'
  <2> SUFFICES ASSUME ~clobbered', NEW t \in Tx, Ahead(t)', ~Asked(t)'
               PROVE  acked'[t] \subseteq calls[c].q[t]
    BY <1>2 DEF TakenIsKept
  <2>1. ~clobbered /\ (num[t] >= calls[c].n => queue[t] \subseteq calls[c].q[t])
    BY <1>0, <1>1, <1>5 DEF CurrentOK
  <2>2. made \in Nat /\ num[t] \in Nat /\ t \in Nat
    BY <1>0, Counted
  <2>3. CASE t > made
    BY <1>10, <2>3
  <2>4. CASE t \in 1..made
    <3>1. Ahead(t) /\ ~Asked(t)
      BY <1>2, <1>3, <1>7, <2>4, AheadStays DEF Asked
    <3>2. num[t] >= calls[c].n
      BY <1>0, <1>1, <2>2, <3>1 DEF Ahead
    <3>3. acked[t] \subseteq queue[t]
      BY <1>0, <2>1, <3>1 DEF StoreSide, TakenIsKept
    <3>4. calls[c].by \subseteq calls[c].q[calls[c].tx]
      BY <1>0, <1>1 DEF DecidedOK
    <3> QED BY <1>9, <2>1, <3>2, <3>3, <3>4
  <2> QED BY <2>2, <2>3, <2>4, SafeAssumption DEF Tx
<1>12. RemovedStaysHidden'
  <2> SUFFICES ASSUME ~clobbered', NEW t \in removed, Ahead(t)' PROVE t \in dropped
    BY <1>2 DEF RemovedStaysHidden
  <2>1. made \in Nat /\ t \in Tx /\ t \in Nat /\ t <= made
    BY <1>0, Counted DEF StoreSide
  <2>2. t \in 1..made
    BY <2>1, SafeAssumption DEF Tx
  <2>3. Ahead(t)
    BY <1>3, <1>7, <2>2, AheadStays
  <2> QED BY <1>0, <1>5, <2>3 DEF StoreSide, RemovedStaysHidden
<1>13. StoreSide'
  BY <1>0, <1>1, <1>2, <1>5, <1>7, <1>8, <1>9, <1>10, <1>11, <1>12, StoreWritten DEF StoreSide
<1> QED BY <1>3, <1>7, <1>13, SidesNext

LEMMA StashWithoutKeeps ==
  ASSUME IInv, NEW c \in Call, StashWithout(c)
  PROVE  IInv'
<1> DEFINE x == calls[c].tx
           next == [calls[c] EXCEPT !.at = "dropped"]
<1>0. /\ TypeOK /\ nonce \in Nat /\ calls[c] \in Handler
      /\ HandlerOK(c) /\ CurrentOK(c) /\ DecidedOK(c) /\ Rest /\ StoreSide
  BY Sides, Counted DEF IInv, TypeOK, Handlers
<1>1. calls[c].kind = "delete" /\ calls[c].at = "queue" /\ calls[c].q \in Sigs /\ Asked(x)
  BY <1>0 DEF StashWithout, HandlerOK, Handler
<1>2. UNCHANGED <<begun, made, num, nonce, dropped, page, local, signed, acked, asked, removed, faults>>
  BY DEF StashWithout, history
<1>3. Rest' /\ nonce' \in Nat /\ nonce <= nonce' /\ asked \subseteq asked'
  BY <1>0, <1>2 DEF Rest
<1>4. next \in Handler
  BY <1>0 DEF Handler
<1>5. /\ next.kind = "delete" /\ next.at = "dropped" /\ next.q = calls[c].q /\ next.d = calls[c].d
      /\ next.tx = x /\ next.n = calls[c].n /\ next.stale = calls[c].stale
  BY <1>0, <1>1 DEF Handler
<1>6. \/ /\ queue' = [calls[c].q EXCEPT ![x] = {}]
         /\ Write(c, "queue", next)
      \/ /\ calls' = [calls EXCEPT ![c] = next]
         /\ queue' = queue /\ clobbered' = clobbered
  BY DEF StashWithout
<1> HIDE DEF next
<1>7. /\ calls'[c] = next => HandlerOK(c)' /\ CurrentOK(c)' /\ DecidedOK(c)'
  <2> SUFFICES ASSUME calls'[c] = next PROVE HandlerOK(c)' /\ CurrentOK(c)' /\ DecidedOK(c)'
    OBVIOUS
  <2>1. \A t : Asked(t) => Asked(t)'
    BY <1>2 DEF Asked
  <2>2. HandlerOK(c)'
    BY <1>0, <1>1, <1>2, <1>5, <2>1 DEF HandlerOK
  <2>3. CurrentOK(c)' /\ DecidedOK(c)'
    BY <1>0, <1>1, <1>2, <1>5 DEF CurrentOK, DecidedOK
  <2> QED BY <2>2, <2>3
<1>8. CASE calls' = [calls EXCEPT ![c] = next] /\ queue' = queue /\ clobbered' = clobbered
  <2>1. calls'[c] = next
    BY <1>0, <1>8 DEF TypeOK
  <2> QED BY <1>1, <1>2, <1>3, <1>4, <1>5, <1>7, <1>8, <2>1, ReadKeeps
<1>9. CASE queue' = [calls[c].q EXCEPT ![x] = {}] /\ Write(c, "queue", next)
  <2>1. /\ calls' \in [Call -> Handler] /\ calls'[c] = next /\ Others(c) /\ clobbered' \in BOOLEAN
        /\ ~clobbered' => ~clobbered /\ "queue" \notin calls[c].stale
        /\ \A d \in Call : d # c => "queue" \in calls'[d].stale \/ calls[d].at \in {"idle", "read"}
    BY <1>0, <1>4, <1>9, WriteLeavesOthers
  <2>2. clobbered => clobbered'
    BY <1>0, <2>1 DEF TypeOK
  <2>3. PageTypes' /\ PageSide' /\ Grows
    BY <1>1, <1>2, <1>5, <2>1, <2>2, GoesOn
  <2>4. queue' \in Sigs /\ \A t \in Tx : queue'[t] = IF t = x THEN {} ELSE calls[c].q[t]
    BY <1>1, <1>9 DEF Sigs
  <2>5. \A t \in Tx : t > made => queue'[t] = {}
    BY <1>0, <2>4 DEF HandlerOK
  <2>6. TakenIsKept'
    <3> SUFFICES ASSUME ~clobbered', NEW t \in Tx, Ahead(t)', ~Asked(t)'
                 PROVE  acked[t] \subseteq queue'[t]
      BY <1>2 DEF TakenIsKept
    <3>1. ~clobbered /\ calls[c].q = queue
      BY <1>0, <1>1, <2>1 DEF CurrentOK
    <3>2. Ahead(t) /\ ~Asked(t) /\ t # x
      BY <1>1, <1>2 DEF Ahead, Asked
    <3>3. acked[t] \subseteq queue[t]
      BY <1>0, <3>1, <3>2 DEF StoreSide, TakenIsKept
    <3> QED BY <2>4, <3>1, <3>2, <3>3
  <2>7. RemovedStaysHidden'
    BY <1>2, <1>3, <2>2, <2>3, ListsStay
  <2>8. StoreSide'
    BY <1>0, <1>2, <1>7, <2>1, <2>3, <2>4, <2>5, <2>6, <2>7, StoreWritten DEF StoreSide
  <2> QED BY <1>3, <2>3, <2>8, SidesNext
<1> QED BY <1>6, <1>8, <1>9

LEMMA StashDroppedKeeps ==
  ASSUME IInv, NEW c \in Call, StashDropped(c)
  PROVE  IInv'
<1> DEFINE x == calls[c].tx
           d == calls[c].d \cup {x}
<1>0. /\ TypeOK /\ nonce \in Nat /\ calls[c] \in Handler
      /\ HandlerOK(c) /\ CurrentOK(c) /\ DecidedOK(c) /\ Rest /\ StoreSide
  BY Sides, Counted DEF IInv, TypeOK, Handlers
<1>1. /\ calls[c].kind = "delete" /\ calls[c].at = "dropped" /\ calls[c].d \subseteq Tx
      /\ Asked(x) /\ x \in 1..made
  BY <1>0 DEF StashDropped, HandlerOK, Handler
<1>2. UNCHANGED <<begun, nonce, queue, signed, acked, asked, faults>>
  BY DEF StashDropped
<1>3. Rest' /\ nonce' \in Nat /\ nonce <= nonce' /\ asked \subseteq asked'
  BY <1>0, <1>2 DEF Rest
<1>4. CASE /\ calls' = [calls EXCEPT ![c] = NoCall]
           /\ AnswerPage(c, Done)
           /\ UNCHANGED <<dropped, removed, clobbered>>
  <2>1. \/ \E p \in Owner : Waits(p, c) /\ Done(p)
        \/ (\A p \in Owner : ~Waits(p, c)) /\ UNCHANGED <<made, num, page, local>>
    BY <1>4 DEF AnswerPage
  <2>2. Answers(c, calls[c].q, {})
    BY <2>1, OtherAnswers
  <2> QED BY <1>2, <1>3, <1>4, <2>2, StopKeeps
<1>5. CASE /\ dropped' = d /\ Write(c, "dropped", NoCall)
           /\ removed' = removed \cup {x}
           /\ AnswerPage(c, Forget)
  <2>1. /\ calls' \in [Call -> Handler] /\ calls'[c] = NoCall /\ Others(c) /\ clobbered' \in BOOLEAN
        /\ ~clobbered' => ~clobbered /\ "dropped" \notin calls[c].stale
        /\ \A e \in Call : e # c => "dropped" \in calls'[e].stale \/ calls[e].at \in {"idle", "read"}
    BY <1>0, <1>5, NoCallIsTyped, WriteLeavesOthers
  <2>2. clobbered => clobbered'
    BY <1>0, <2>1 DEF TypeOK
  <2>3. PageTypes' /\ PageSide' /\ Grows
    <3>1. \/ \E p \in Owner : Waits(p, c) /\ Forget(p)
          \/ (\A p \in Owner : ~Waits(p, c)) /\ UNCHANGED <<made, num, page, local>>
      BY <1>5 DEF AnswerPage
    <3>2. Answers(c, calls[c].q, {})
      BY <1>1, <3>1, OtherAnswers
    <3> QED BY <1>2, <2>1, <2>2, <3>2, AnswerKeeps
  <2>4. HandlerOK(c)' /\ CurrentOK(c)' /\ DecidedOK(c)'
    BY <1>3, <2>1, IdleHandlerOK
  <2>5. x \in Tx /\ x <= made
    <3>1. \A t \in 1..made : t \in Tx /\ t <= made
      BY <1>0, Counted, SafeAssumption DEF TypeOK, Tx
    <3> QED BY <1>1, <3>1
  <2>6. /\ dropped' \subseteq Tx /\ \A t \in dropped' : Asked(t)
        /\ removed' \subseteq Tx /\ \A t \in removed' : t <= made
    BY <1>0, <1>1, <1>5, <2>5 DEF StoreSide, HandlerOK
  <2>7. TakenIsKept'
    <3> SUFFICES ASSUME ~clobbered', NEW t \in Tx, Ahead(t)', ~Asked(t)'
                 PROVE  acked[t] \subseteq queue[t]
      BY <1>2 DEF TakenIsKept
    <3>1. CASE t > made
      BY <1>0, <3>1 DEF StoreSide
    <3>2. CASE t \in 1..made
      <4>1. Ahead(t) /\ ~Asked(t)
        BY <1>2, <1>3, <2>3, <3>2, AheadStays DEF Asked
      <4> QED BY <1>0, <2>1, <4>1 DEF StoreSide, TakenIsKept
    <3>3. t \in Nat /\ made \in Nat
      BY <1>0, Counted
    <3> QED BY <3>1, <3>2, <3>3, SafeAssumption DEF Tx
  <2>8. RemovedStaysHidden'
    <3> SUFFICES ASSUME ~clobbered', NEW t \in removed', Ahead(t)' PROVE t \in d
      BY <1>5 DEF RemovedStaysHidden
    <3>1. ~clobbered /\ calls[c].d = dropped
      BY <1>0, <1>1, <2>1 DEF CurrentOK
    <3>2. CASE t \in removed
      <4>1. t \in Tx /\ t <= made
        BY <1>0, <3>2 DEF StoreSide
      <4>2. t \in Nat /\ made \in Nat
        BY <1>0, <4>1, Counted
      <4>3. t \in 1..made
        BY <4>1, <4>2, SafeAssumption DEF Tx
      <4>4. Ahead(t)
        BY <1>3, <2>3, <4>3, AheadStays
      <4> QED BY <1>0, <3>1, <3>2, <4>4 DEF StoreSide, RemovedStaysHidden
    <3> QED BY <1>5, <3>2
  <2>9. StoreSide'
    BY <1>0, <1>2, <2>1, <2>3, <2>4, <2>6, <2>7, <2>8, StoreWritten DEF StoreSide
  <2> QED BY <1>3, <2>3, <2>9, SidesNext
<1> QED BY <1>4, <1>5 DEF StashDropped

-----------------------------------------------------------------------------
(***************************************************************************)
(* The pages.                                                              *)
(***************************************************************************)
\* The handlers in progress stay.
Busy == \A d \in Call : calls[d].kind # "none" => calls'[d] = calls[d]

\* Page p moves to `next', which waits for no handler but a new one.
Moves(p, next) ==
  /\ next \in Page /\ page' = [page EXCEPT ![p] = next]
  /\ next.at \in {"opening", "ready", "sharing", "removing"} => next.tx \in 1..made'
  /\ next.n <= nonce'
  /\ next.at = "removing" => <<next.tx, p>> \in asked'
  /\ next.known # {} => next.at = "picking"
  /\ \A t \in next.known : t <= made'
  /\ next.call # 0 =>
       /\ calls[next.call].kind = "none"
       /\ \/ calls'[next.call].kind = "get" /\ next.at \in {"picking", "opening"}
          \/ calls'[next.call].kind = "post" /\ next.at = "sharing"
          \/ calls'[next.call].kind = "delete" /\ next.at = "removing"
       /\ ~clobbered => \A t \in next.known :
            Ahead(t)' /\ ~Asked(t)' => calls'[next.call].q[t] # {}

LEMMA PageMoves ==
  ASSUME IInv, NEW p \in Owner, NEW next, Moves(p, next), Busy, Grows,
         nonce' \in Nat, nonce <= nonce', nonce' <= made', asked \subseteq asked', clobbered' = clobbered,
         \A t \in Tx : Asked(t)' => t <= made',
         local' \in [Owner -> Sigs],
         \A q \in Owner, t \in Tx : local[q][t] \subseteq local'[q][t] /\ (t > made' => local'[q][t] = {}),
         \A t \in Tx : t > made' => signed'[t] = {},
         \A t \in Tx : \A q \in signed'[t] : q \in signed[t] \/ (q = p /\ p \in local'[p][t])
  PROVE  PageTypes' /\ PageSide'
<1>0. TypeOK /\ Made /\ Tabs /\ Linked /\ KeptByItsSigner /\ Listed /\ NumberedAfterTheQueue
  BY DEF IInv
<1>1. /\ page' \in [Owner -> Page] /\ page'[p] = next
      /\ \A q \in Owner : q # p => page'[q] = page[q]
  BY <1>0 DEF Moves, TypeOK
<1>2. made \in Nat /\ made' \in Nat /\ made <= made' /\ \A t \in Tx : t \in Nat
  BY <1>0, Counted DEF Grows
<1>3. PageTypes'
  BY <1>1 DEF PageTypes, Grows
<1>4. \A t \in 1..made : t \in Tx /\ num'[t] = num[t] /\ (Ahead(t)' => Ahead(t))
  BY AheadStays DEF Grows
<1>5. \A t : Asked(t) => Asked(t)'
  BY DEF Asked
<1>6. \A q \in Owner : page[q].call # 0 => page[q].call \in Call /\ calls[page[q].call].kind # "none"
  BY <1>0 DEF TypeOK, Page, Linked
<1>7. \A q \in Owner : page[q].call # 0 => calls'[page[q].call] = calls[page[q].call]
  BY <1>6 DEF Busy
<1>8. Tabs'
  <2> SUFFICES ASSUME NEW q \in Owner
               PROVE /\ page'[q].at \in {"opening", "ready", "sharing", "removing"} => page'[q].tx \in 1..made'
                     /\ page'[q].n <= nonce'
                     /\ page'[q].at = "removing" => <<page'[q].tx, q>> \in asked'
                     /\ page'[q].known # {} => page'[q].at \in {"picking", "ready"}
                     /\ \A t \in page'[q].known : t <= made'
    BY DEF Tabs
  <2>1. CASE q = p
    BY <1>1, <2>1 DEF Moves
  <2>2. CASE q # p
    <3>1. page'[q] = page[q] /\ page[q].n \in Nat /\ nonce \in Nat /\ \A t \in page[q].known : t \in Nat
      BY <1>0, <1>1, <1>2, <2>2, Counted
    <3>2. page[q].tx \in 1..made => page[q].tx \in 1..made'
      BY <1>2
    <3> QED BY <1>0, <1>2, <3>1, <3>2 DEF Tabs
  <2> QED BY <2>1, <2>2
<1>9. Linked'
  <2>1. \A q \in Owner : q # p /\ page[q].call # 0 => page[q].call # next.call
    BY <1>6 DEF Moves
  <2> QED BY <1>0, <1>1, <1>7, <2>1 DEF Linked, Moves
<1>10. KeptByItsSigner'
  <2> SUFFICES ASSUME NEW t \in Tx, NEW q \in signed'[t], Ahead(t)', <<t, q>> \notin asked'
               PROVE  q \in local'[q][t]
    BY DEF KeptByItsSigner
  <2>1. CASE q = p /\ p \in local'[p][t]
    BY <2>1
  <2>2. CASE q \in signed[t]
    <3>1. q \in Owner /\ t \in 1..made
      BY <1>0, <1>2, <2>2, SafeAssumption DEF Made, Tx, TypeOK, Sigs
    <3>2. q \in local[q][t]
      BY <1>0, <1>4, <2>2, <3>1 DEF KeptByItsSigner
    <3> QED BY <3>1, <3>2
  <2> QED BY <2>1, <2>2
<1>11. \A q \in Owner : \A t \in page[q].known : t \in Tx /\ t \in 1..made
  <2>1. \A q \in Owner : \A t \in page[q].known : t \in Tx /\ t <= made
    BY <1>0, Counted DEF Tabs
  <2>2. \A t \in Tx : t <= made => t \in 1..made
    BY <1>2, SafeAssumption DEF Tx
  <2> QED BY <2>1, <2>2
<1>12. Listed'
  <2> SUFFICES ASSUME ~clobbered, NEW q \in Owner, page'[q].at = "picking", page'[q].call # 0,
                      NEW t \in page'[q].known, Ahead(t)', ~Asked(t)'
               PROVE  calls'[page'[q].call].q[t] # {}
    BY DEF Listed
  <2>1. CASE q = p
    BY <1>1, <2>1 DEF Moves
  <2>2. CASE q # p
    <3>1. page'[q] = page[q] /\ Ahead(t) /\ ~Asked(t)
      BY <1>1, <1>4, <1>5, <1>11, <2>2
    <3> QED BY <1>0, <1>7, <3>1 DEF Listed
  <2> QED BY <2>1, <2>2
<1>13. NumberedAfterTheQueue'
  <2> SUFFICES ASSUME ~clobbered, NEW q \in Owner, page'[q].at = "ready",
                      NEW t \in page'[q].known, Ahead(t)', ~Asked(t)'
               PROVE  num'[t] < num'[page'[q].tx]
    BY DEF NumberedAfterTheQueue
  <2>1. q # p
    BY <1>1 DEF Moves
  <2>2. page'[q] = page[q] /\ t \in 1..made /\ Ahead(t) /\ ~Asked(t)
    BY <1>1, <1>4, <1>5, <1>11, <2>1
  <2>3. page[q].tx \in 1..made
    BY <1>0, <2>2 DEF Tabs
  <2> QED BY <1>0, <1>4, <2>2, <2>3 DEF NumberedAfterTheQueue
<1> QED BY <1>3, <1>8, <1>9, <1>10, <1>12, <1>13 DEF PageSide

\* A page's step that calls nothing leaves the store's side.
LEMMA StoreIsStill ==
  ASSUME IInv, calls' = calls, Grows, nonce' \in Nat, nonce <= nonce', asked' = asked,
         UNCHANGED <<queue, dropped, acked, removed, clobbered>>
  PROVE  StoreSide' /\ Busy
<1>1. Others(0) /\ 0 \notin Call
  BY DEF Others, Call
<1>2. calls' \in [Call -> Handler]
  BY DEF IInv, TypeOK
<1> QED BY <1>1, <1>2, StoreStays DEF Busy

\* A call takes a place nobody waits for.
LEMMA StartTakesAPlace ==
  ASSUME IInv, NEW c \in Call, NEW call \in Handler, Start(c, call)
  PROVE  /\ calls' \in [Call -> Handler] /\ calls'[c] = call /\ Others(c) /\ Busy
         /\ calls[c].kind = "none" /\ begun' \in 0..MaxBegun
         /\ c # 0
<1>1. TypeOK
  BY DEF IInv
<1>2. calls' \in [Call -> Handler] /\ calls'[c] = call /\ Others(c)
  BY <1>1, SetLeavesOthers DEF Start
<1>3. calls[c].kind = "none"
  BY DEF Start, NoCall
<1>4. Busy
  BY <1>1, <1>3 DEF Start, Busy, TypeOK
<1>5. begun' \in 0..MaxBegun
  BY <1>1, SafeAssumption DEF TypeOK, Start
<1> QED BY <1>2, <1>3, <1>4, <1>5 DEF Call

\* A page that only moves, making nothing, without a call.
LEMMA NothingGrows ==
  ASSUME IInv, UNCHANGED <<made, num>>
  PROVE  Grows /\ made \in Nat /\ nonce \in Nat /\ nonce <= made
  BY Counted, SafeAssumption DEF IInv, TypeOK, Made, Grows

LEMMA LeaveKeeps ==
  ASSUME IInv, NEW p \in Owner, Done(p),
         UNCHANGED <<begun, nonce, queue, dropped, calls, signed, acked, asked, removed, clobbered, faults>>
  PROVE  IInv'
<1>0. TypeOK /\ Made /\ Rest
  BY Sides DEF IInv
<1>1. Grows /\ nonce \in Nat /\ nonce <= made
  BY NothingGrows DEF Done
<1>2. page' = [page EXCEPT ![p] = Idle] /\ UNCHANGED <<made, num, local>>
  BY DEF Done
<1>3. Moves(p, Idle)
  BY <1>1, <1>2, IdleIsTyped DEF Moves, Idle
<1>4. /\ local' \in [Owner -> Sigs] /\ \A t \in Tx : t > made' => signed'[t] = {}
      /\ \A q \in Owner, t \in Tx : local[q][t] \subseteq local'[q][t] /\ (t > made' => local'[q][t] = {})
      /\ \A t \in Tx : Asked(t)' => t <= made'
  BY <1>0, <1>2 DEF TypeOK, Made, Asked
<1>5. StoreSide' /\ Busy
  BY <1>1, StoreIsStill
<1>6. PageTypes' /\ PageSide'
  BY <1>1, <1>2, <1>3, <1>4, <1>5, PageMoves
<1>7. Rest'
  BY <1>0 DEF Rest
<1> QED BY <1>5, <1>6, <1>7, SidesNext

\* The list that a new GET has read is what is in the store.
LEMMA ReadsTheStore ==
  ASSUME IInv, NEW c \in Call, StartGet(c), UNCHANGED <<made, num, nonce, server, history, clobbered, faults>>
  PROVE  /\ calls'[c].kind = "get" /\ calls'[c].q = queue
         /\ c # 0 /\ calls[c].kind = "none" /\ Busy /\ Grows
         /\ StoreSide' /\ Rest'
<1> DEFINE call == [NoCall EXCEPT !.kind = "get", !.at = "chain", !.q = queue, !.d = dropped]
<1>0. TypeOK /\ Made /\ Rest
  BY Sides DEF IInv
<1>1. call \in Handler
  BY <1>0, NoCallIsTyped DEF TypeOK, Handler
<1>2. /\ call.kind = "get" /\ call.at = "chain" /\ call.q = queue /\ call.d = dropped /\ call.n = 0
      /\ call.stale = {}
  BY DEF NoCall
<1>3. Start(c, call)
  BY DEF StartGet
<1> HIDE DEF call
<1>4. /\ calls' \in [Call -> Handler] /\ calls'[c] = call /\ Others(c) /\ Busy
      /\ calls[c].kind = "none" /\ begun' \in 0..MaxBegun /\ c # 0
  BY <1>1, <1>3, StartTakesAPlace
<1>5. Grows /\ nonce' \in Nat /\ nonce <= nonce' /\ asked \subseteq asked'
  BY <1>0, NothingGrows DEF history
<1>6. UNCHANGED <<queue, dropped, acked, removed, clobbered, signed, asked, nonce, made, num, faults>>
  BY DEF server, history
<1>7. HandlerOK(c)'
  <2>1. \A t \in dropped : Asked(t)'
    BY <1>0, <1>6 DEF Made, Asked
  <2> QED BY <1>0, <1>2, <1>4, <1>5, <1>6, <2>1 DEF HandlerOK, Made
<1>8. CurrentOK(c)' /\ DecidedOK(c)'
  BY <1>2, <1>4, <1>6 DEF CurrentOK, DecidedOK
<1>9. StoreSide'
  BY <1>4, <1>5, <1>6, <1>7, <1>8, StoreStays
<1>10. Rest'
  BY <1>0, <1>4, <1>6 DEF Rest
<1> QED BY <1>2, <1>4, <1>5, <1>9, <1>10

LEMMA LookKeeps ==
  ASSUME IInv, NEW p \in Owner, NEW c \in Call, Look(p, c)
  PROVE  IInv'
<1> DEFINE next == [Idle EXCEPT !.at = "picking", !.n = nonce, !.call = c, !.known = Waitable]
<1>0. TypeOK /\ Made /\ TakenIsKept
  BY DEF IInv
<1>1. /\ UNCHANGED <<made, num, nonce, server, local, history, clobbered, faults>>
      /\ page' = [page EXCEPT ![p] = next] /\ StartGet(c)
  BY DEF Look
<1>2. /\ calls'[c].kind = "get" /\ calls'[c].q = queue
      /\ c # 0 /\ calls[c].kind = "none" /\ Busy /\ Grows
      /\ StoreSide' /\ Rest'
  BY <1>1, ReadsTheStore
<1>3. UNCHANGED <<acked, signed, asked>>
  BY <1>1 DEF history
<1>4. nonce \in Nat /\ made \in Nat /\ nonce <= made /\ \A t \in Tx : t \in Nat
  BY <1>0, Counted DEF Made
<1>5. \A t \in Waitable : t \in Tx /\ t <= made /\ acked[t] # {}
  BY <1>0, <1>4 DEF Waitable, Made
<1>6. /\ next \in Page /\ next.at = "picking" /\ next.n = nonce /\ next.call = c /\ next.known = Waitable
  BY <1>4, <1>5 DEF Idle, Page
<1> HIDE DEF next
<1>7. ~clobbered => \A t \in Waitable : Ahead(t)' /\ ~Asked(t)' => queue[t] # {}
  <2> SUFFICES ASSUME ~clobbered, NEW t \in Waitable, Ahead(t)', ~Asked(t)' PROVE queue[t] # {}
    OBVIOUS
  <2>1. Ahead(t) /\ ~Asked(t)
    BY <1>1, <1>3 DEF Ahead, Asked
  <2>2. acked[t] \subseteq queue[t]
    BY <1>0, <1>5, <2>1 DEF TakenIsKept
  <2> QED BY <1>5, <2>2
<1>8. Moves(p, next)
  BY <1>1, <1>2, <1>4, <1>5, <1>6, <1>7 DEF Moves
<1>9. /\ local' \in [Owner -> Sigs] /\ \A t \in Tx : t > made' => signed'[t] = {}
      /\ \A q \in Owner, t \in Tx : local[q][t] \subseteq local'[q][t] /\ (t > made' => local'[q][t] = {})
      /\ \A t \in Tx : Asked(t)' => t <= made'
  BY <1>0, <1>1, <1>3 DEF TypeOK, Made, Asked
<1>10. PageTypes' /\ PageSide'
  BY <1>1, <1>2, <1>3, <1>4, <1>8, <1>9, PageMoves
<1> QED BY <1>2, <1>10, SidesNext

LEMMA OpenKeeps ==
  ASSUME IInv, NEW p \in Owner, NEW c \in Call, NEW t \in Tx, NEW r \in Owner, Open(p, c, t, r)
  PROVE  IInv'
<1> DEFINE next == [Idle EXCEPT !.at = "opening", !.tx = t, !.n = nonce, !.call = c, !.view = local[r][t]]
<1>0. TypeOK /\ Made
  BY DEF IInv
<1>1. /\ UNCHANGED <<made, num, nonce, server, local, history, clobbered, faults>>
      /\ page' = [page EXCEPT ![p] = next] /\ StartGet(c) /\ t <= made
  BY DEF Open
<1>2. /\ calls'[c].kind = "get" /\ calls'[c].q = queue
      /\ c # 0 /\ calls[c].kind = "none" /\ Busy /\ Grows
      /\ StoreSide' /\ Rest'
  BY <1>1, ReadsTheStore
<1>3. UNCHANGED <<acked, signed, asked>>
  BY <1>1 DEF history
<1>4. nonce \in Nat /\ made \in Nat /\ nonce <= made /\ t \in 1..made
  BY <1>0, <1>1, Counted, SafeAssumption DEF Made, Tx
<1>5. local[r][t] \subseteq Owner
  BY <1>0 DEF TypeOK, Sigs
<1>6. next \in Page /\ next.at = "opening" /\ next.n = nonce /\ next.call = c /\ next.known = {} /\ next.tx = t
  BY <1>4, <1>5 DEF Idle, Page
<1> HIDE DEF next
<1>7. Moves(p, next)
  BY <1>1, <1>2, <1>4, <1>6 DEF Moves
<1>8. /\ local' \in [Owner -> Sigs] /\ \A u \in Tx : u > made' => signed'[u] = {}
      /\ \A q \in Owner, u \in Tx : local[q][u] \subseteq local'[q][u] /\ (u > made' => local'[q][u] = {})
      /\ \A u \in Tx : Asked(u)' => u <= made'
  BY <1>0, <1>1, <1>3 DEF TypeOK, Made, Asked
<1>9. PageTypes' /\ PageSide'
  BY <1>1, <1>2, <1>3, <1>4, <1>7, <1>8, PageMoves
<1> QED BY <1>2, <1>9, SidesNext

LEMMA RejectKeeps ==
  ASSUME IInv, NEW p \in Owner, NEW t \in Tx, Reject(p, t)
  PROVE  IInv'
<1> DEFINE next == [Idle EXCEPT !.at = "ready", !.tx = made', !.n = page[p].n]
<1>0. TypeOK /\ Made /\ Tabs /\ Rest
  BY Sides DEF IInv
<1>1. /\ page' = [page EXCEPT ![p] = next] /\ made < MaxTx /\ made' = made + 1
      /\ num' = [num EXCEPT ![made'] = num[t]] /\ page[p].at = "ready" /\ page[p].tx = t
      /\ UNCHANGED <<begun, nonce, queue, dropped, calls, local, signed, acked, asked, removed, clobbered, faults>>
  BY DEF Reject, server, history
<1>2. /\ nonce \in Nat /\ made \in Nat /\ nonce <= made /\ t \in 1..made /\ num[t] \in 0..MaxTx /\ num[t] < made
      /\ page[p].n \in Nat /\ page[p].n <= nonce
  BY <1>0, <1>1, Counted DEF Made, TypeOK, Tabs
<1>3. made' \in Tx /\ \A u \in Tx : num'[u] = IF u = made' THEN num[t] ELSE num[u]
  BY <1>0, <1>1, <1>2, SafeAssumption DEF Tx, TypeOK
<1>4. Grows
  <2>1. num' \in [Tx -> 0..MaxTx]
    BY <1>0, <1>1, <1>2 DEF TypeOK
  <2>2. \A u \in 1..made : u \in Tx /\ u # made'
    BY <1>1, <1>2, SafeAssumption DEF Tx
  <2>3. \A u \in 1..made : num'[u] = num[u] /\ num[u] < made /\ num[u] \in Nat
    BY <1>0, <1>3, <2>2, Counted DEF TypeOK
  <2>4. \A u \in 1..made' : num'[u] < made'
    <3> SUFFICES ASSUME NEW u \in 1..made' PROVE num'[u] < made'
      OBVIOUS
    <3>1. CASE u = made'
      BY <1>1, <1>2, <1>3, <3>1
    <3>2. CASE u # made'
      <4>1. u \in 1..made
        BY <1>1, <1>2, <3>2
      <4> QED BY <1>1, <1>2, <2>3, <4>1
    <3> QED BY <3>1, <3>2
  <2> QED BY <1>1, <1>2, <1>3, <2>1, <2>3, <2>4 DEF Grows
<1>5. next \in Page /\ next.at = "ready" /\ next.tx = made' /\ next.n = page[p].n /\ next.known = {} /\ next.call = 0
  BY <1>2, <1>3 DEF Idle, Page
<1> HIDE DEF next
<1>6. Moves(p, next)
  BY <1>1, <1>2, <1>5 DEF Moves
<1>7. /\ local' \in [Owner -> Sigs] /\ \A u \in Tx : u > made' => signed'[u] = {}
      /\ \A q \in Owner, u \in Tx : local[q][u] \subseteq local'[q][u] /\ (u > made' => local'[q][u] = {})
      /\ \A u \in Tx : Asked(u)' => u <= made'
  <2>1. \A u \in Tx : (u > made' => u > made) /\ (u <= made => u <= made')
    BY <1>1, <1>2, SafeAssumption DEF Tx
  <2> QED BY <1>0, <1>1, <2>1 DEF TypeOK, Made, Asked
<1>8. StoreSide' /\ Busy
  BY <1>1, <1>2, <1>4, StoreIsStill
<1>9. PageTypes' /\ PageSide'
  BY <1>1, <1>2, <1>4, <1>6, <1>7, <1>8, PageMoves
<1>10. Rest'
  BY <1>0, <1>1 DEF Rest
<1> QED BY <1>8, <1>9, <1>10, SidesNext

LEMMA ExecuteKeeps ==
  ASSUME IInv, NEW p \in Owner, Execute(p)
  PROVE  IInv'
<1>0. TypeOK /\ Made /\ Tabs /\ Rest
  BY Sides DEF IInv
<1>1. /\ page' = [page EXCEPT ![p] = Idle] /\ page[p].at = "ready"
      /\ nonce' = IF num[page[p].tx] = nonce THEN nonce + 1 ELSE nonce
      /\ UNCHANGED <<begun, made, num, queue, dropped, calls, local, signed, acked, asked, removed, clobbered, faults>>
  BY DEF Execute, server, history
<1>2. nonce \in Nat /\ made \in Nat /\ nonce <= made /\ made <= MaxTx /\ Grows
  BY <1>0, <1>1, NothingGrows, SafeAssumption DEF TypeOK, Tx
<1>3. page[p].tx \in 1..made /\ num[page[p].tx] < made
  BY <1>0, <1>1 DEF Tabs, TypeOK
<1>4. nonce' \in Nat /\ nonce <= nonce' /\ nonce' <= made /\ nonce' \in 0..MaxTx
  BY <1>1, <1>2, <1>3, SafeAssumption
<1>5. Moves(p, Idle)
  BY <1>1, <1>4, IdleIsTyped DEF Moves, Idle
<1>6. /\ local' \in [Owner -> Sigs] /\ \A t \in Tx : t > made' => signed'[t] = {}
      /\ \A q \in Owner, t \in Tx : local[q][t] \subseteq local'[q][t] /\ (t > made' => local'[q][t] = {})
      /\ \A t \in Tx : Asked(t)' => t <= made'
  BY <1>0, <1>1 DEF TypeOK, Made, Asked
<1>7. StoreSide' /\ Busy
  BY <1>1, <1>2, <1>4, StoreIsStill
<1>8. PageTypes' /\ PageSide'
  BY <1>1, <1>2, <1>4, <1>5, <1>6, <1>7, PageMoves
<1>9. Rest'
  BY <1>0, <1>1, <1>4 DEF Rest
<1> QED BY <1>7, <1>8, <1>9, SidesNext

LEMMA SignKeeps ==
  ASSUME IInv, NEW p \in Owner, NEW c \in Call, Sign(p, c)
  PROVE  IInv'
<1> DEFINE t == page[p].tx
           all == local[p][t] \cup page[p].view \cup {p}
           call == [NoCall EXCEPT !.kind = "post", !.at = "read", !.tx = t, !.by = all, !.n = nonce]
           next == [Idle EXCEPT !.at = "sharing", !.tx = t, !.call = c]
<1>0. TypeOK /\ Made /\ Tabs /\ Rest
  BY Sides DEF IInv
<1>1. /\ page[p].at = "ready"
      /\ local' = [local EXCEPT ![p] = [local[p] EXCEPT ![t] = all]]
      /\ signed' = [signed EXCEPT ![t] = @ \cup {p}]
      /\ UNCHANGED <<made, num, nonce, queue, dropped, acked, asked, removed, clobbered, faults>>
  BY DEF Sign, server
<1>2. /\ nonce \in Nat /\ made \in Nat /\ nonce <= made /\ nonce' \in Nat /\ nonce <= nonce'
      /\ nonce' <= made' /\ Grows
  BY <1>0, <1>1, NothingGrows DEF Made
<1>3. t \in Tx /\ t \in 1..made /\ page[p].view \subseteq Owner
  <2>1. t \in 1..made
    BY <1>0, <1>1 DEF Tabs
  <2>2. t \in Tx
    BY <1>0, <2>1, SafeAssumption DEF TypeOK, Tx
  <2> QED BY <1>0, <2>1, <2>2 DEF TypeOK, Page
<1>4. all \subseteq Owner /\ p \in all /\ local[p][t] \subseteq all
  BY <1>0, <1>3 DEF TypeOK, Sigs
<1> HIDE DEF t, all
<1>5. /\ local' \in [Owner -> Sigs]
      /\ local'[p][t] = all
      /\ \A q \in Owner, u \in Tx : ~(q = p /\ u = t) => local'[q][u] = local[q][u]
  <2>1. local[p] \in Sigs
    BY <1>0 DEF TypeOK
  <2>2. /\ [local[p] EXCEPT ![t] = all] \in Sigs
        /\ [local[p] EXCEPT ![t] = all][t] = all
        /\ \A u \in Tx : u # t => [local[p] EXCEPT ![t] = all][u] = local[p][u]
    BY <1>3, <1>4, <2>1 DEF Sigs
  <2> DEFINE mine == [local[p] EXCEPT ![t] = all]
  <2>3. local' = [local EXCEPT ![p] = mine]
    BY <1>1
  <2> HIDE DEF mine
  <2>4. mine \in Sigs /\ mine[t] = all /\ \A u \in Tx : u # t => mine[u] = local[p][u]
    BY <2>2 DEF mine
  <2> QED BY <1>0, <2>3, <2>4 DEF TypeOK
<1>6. signed' \in Sigs /\ \A u \in Tx : signed'[u] = IF u = t THEN signed[u] \cup {p} ELSE signed[u]
  BY <1>0, <1>1, <1>3 DEF TypeOK, Sigs
<1>7. /\ \A u \in Tx : u > made' => u # t
      /\ \A u \in Tx : u > made' => u > made
  BY <1>1, <1>2, <1>3
<1>8. /\ \A u \in Tx : u > made' => signed'[u] = {}
      /\ \A q \in Owner, u \in Tx : local[q][u] \subseteq local'[q][u] /\ (u > made' => local'[q][u] = {})
      /\ \A u \in Tx : Asked(u)' => u <= made'
      /\ \A u \in Tx : \A q \in signed'[u] : q \in signed[u] \/ (q = p /\ p \in local'[p][u])
  <2>1. \A u \in Tx : u > made' => signed'[u] = {}
    BY <1>0, <1>6, <1>7 DEF Made
  <2>2. \A q \in Owner, u \in Tx : local[q][u] \subseteq local'[q][u] /\ (u > made' => local'[q][u] = {})
    BY <1>0, <1>4, <1>5, <1>7 DEF Made
  <2>3. \A u \in Tx : Asked(u)' => u <= made'
    BY <1>0, <1>1 DEF Made, Asked
  <2>4. \A u \in Tx : \A q \in signed'[u] : q \in signed[u] \/ (q = p /\ p \in local'[p][u])
    BY <1>4, <1>5, <1>6
  <2> QED BY <2>1, <2>2, <2>3, <2>4
<1>9. asked \subseteq asked' /\ clobbered' = clobbered
  BY <1>1
<1>10. CASE page' = [page EXCEPT ![p] = Idle] /\ UNCHANGED <<begun, calls>>
  <2>1. Moves(p, Idle)
    BY <1>2, <1>10, IdleIsTyped DEF Moves, Idle
  <2>2. StoreSide' /\ Busy
    BY <1>1, <1>2, <1>10, StoreIsStill
  <2>3. PageTypes' /\ PageSide'
    BY <1>2, <1>5, <1>8, <1>9, <2>1, <2>2, PageMoves
  <2>4. Rest'
    BY <1>0, <1>1, <1>6, <1>10 DEF Rest
  <2> QED BY <2>2, <2>3, <2>4, SidesNext
<1>11. CASE Start(c, call) /\ page' = [page EXCEPT ![p] = next]
  <2>1. call \in Handler
    BY <1>2, <1>3, <1>4, NoCallIsTyped DEF Handler
  <2>2. /\ call.kind = "post" /\ call.at = "read" /\ call.tx = t /\ call.n = nonce /\ call.d = {}
        /\ call.q = Nothing
    BY DEF NoCall
  <2>3. next \in Page /\ next.at = "sharing" /\ next.tx = t /\ next.call = c /\ next.n = 0 /\ next.known = {}
    BY <1>3 DEF Idle, Page
  <2> HIDE DEF call, next
  <2>4. /\ calls' \in [Call -> Handler] /\ calls'[c] = call /\ Others(c) /\ Busy
        /\ calls[c].kind = "none" /\ begun' \in 0..MaxBegun /\ c # 0
    BY <1>11, <2>1, StartTakesAPlace
  <2>5. Moves(p, next)
    BY <1>1, <1>2, <1>3, <1>11, <2>2, <2>3, <2>4 DEF Moves
  <2>6. HandlerOK(c)' /\ CurrentOK(c)' /\ DecidedOK(c)'
    BY <1>1, <1>2, <1>3, <2>2, <2>4 DEF HandlerOK, CurrentOK, DecidedOK, Nothing
  <2>7. StoreSide'
    BY <1>1, <1>2, <2>4, <2>6, StoreStays
  <2>8. PageTypes' /\ PageSide'
    BY <1>2, <1>5, <1>8, <1>9, <2>4, <2>5, PageMoves
  <2>9. Rest'
    BY <1>0, <1>1, <1>6, <2>4 DEF Rest
  <2> QED BY <2>7, <2>8, <2>9, SidesNext
<1> QED BY <1>10, <1>11 DEF Sign, t, all

LEMMA RemoveKeeps ==
  ASSUME IInv, NEW p \in Owner, NEW c \in Call, Remove(p, c)
  PROVE  IInv'
<1> DEFINE t == page[p].tx
           call == [NoCall EXCEPT !.kind = "delete", !.at = "read", !.tx = t]
           next == [Idle EXCEPT !.at = "removing", !.tx = t, !.call = c]
<1>0. TypeOK /\ Made /\ Tabs /\ Rest
  BY Sides DEF IInv
<1>1. /\ page[p].at = "ready" /\ page' = [page EXCEPT ![p] = next] /\ Start(c, call)
      /\ asked' = asked \cup {<<t, p>>}
      /\ UNCHANGED <<made, num, nonce, queue, dropped, local, signed, acked, removed, clobbered, faults>>
  BY DEF Remove, server
<1>2. /\ nonce \in Nat /\ made \in Nat /\ nonce <= made /\ nonce' \in Nat /\ nonce <= nonce'
      /\ nonce' <= made' /\ Grows
  BY <1>0, <1>1, NothingGrows DEF Made
<1>3. t \in Tx /\ t \in 1..made
  <2>1. t \in 1..made
    BY <1>0, <1>1 DEF Tabs
  <2>2. t \in Tx
    BY <1>0, <2>1, SafeAssumption DEF TypeOK, Tx
  <2> QED BY <2>1, <2>2
<1> HIDE DEF t
<1>4. call \in Handler
  BY <1>3, NoCallIsTyped DEF Handler
<1>5. /\ call.kind = "delete" /\ call.at = "read" /\ call.tx = t /\ call.n = 0 /\ call.d = {}
      /\ call.q = Nothing
  BY DEF NoCall
<1>6. next \in Page /\ next.at = "removing" /\ next.tx = t /\ next.call = c /\ next.n = 0 /\ next.known = {}
  BY <1>3 DEF Idle, Page
<1> HIDE DEF call, next
<1>7. /\ calls' \in [Call -> Handler] /\ calls'[c] = call /\ Others(c) /\ Busy
      /\ calls[c].kind = "none" /\ begun' \in 0..MaxBegun /\ c # 0
  BY <1>1, <1>4, StartTakesAPlace
<1>8. \E q \in Owner : <<t, q>> \in asked'
  BY <1>1
<1>9. /\ local' \in [Owner -> Sigs] /\ \A u \in Tx : u > made' => signed'[u] = {}
      /\ \A q \in Owner, u \in Tx : local[q][u] \subseteq local'[q][u] /\ (u > made' => local'[q][u] = {})
      /\ \A u \in Tx : Asked(u)' => u <= made'
  <2>1. \A u \in Tx : Asked(u)' => u = t \/ Asked(u)
    BY <1>1 DEF Asked
  <2> QED BY <1>0, <1>1, <1>2, <1>3, <2>1 DEF TypeOK, Made
<1>10. Moves(p, next)
  BY <1>1, <1>2, <1>3, <1>5, <1>6, <1>7 DEF Moves
<1>11. PageTypes' /\ PageSide'
  BY <1>1, <1>2, <1>7, <1>9, <1>10, PageMoves
<1>12. HandlerOK(c)' /\ CurrentOK(c)' /\ DecidedOK(c)'
  BY <1>1, <1>2, <1>3, <1>5, <1>7, <1>8 DEF HandlerOK, CurrentOK, DecidedOK, Nothing, Asked
<1>13. StoreSide'
  BY <1>1, <1>2, <1>7, <1>12, StoreStays
<1>14. Rest'
  BY <1>0, <1>1, <1>3, <1>7 DEF Rest
<1> QED BY <1>11, <1>13, <1>14, SidesNext

LEMMA TimesOutKeeps ==
  ASSUME IInv, NEW p \in Owner, TimesOut(p)
  PROVE  IInv'
<1> DEFINE c == page[p].call
<1>0. TypeOK /\ Rest
  BY Sides DEF IInv
<1>1. /\ GoesWithout(p) /\ c # 0 /\ faults' = faults \cup {"timeout"}
      /\ UNCHANGED <<begun, nonce, queue, dropped, calls, signed, acked, asked, removed, clobbered>>
  BY DEF TimesOut, Happens, server, history
<1>2. c \in Call /\ Others(c)
  BY <1>0, <1>1 DEF TypeOK, Page, Others
<1>3. Goes(p) /\ Beyond(p, calls[c].q, {})
  BY <1>1, WithoutGoes DEF Beyond
<1>4. Answers(c, calls[c].q, {})
  BY <1>3 DEF Answers
<1> HIDE DEF c
<1>5. PageTypes' /\ PageSide' /\ Grows
  BY <1>1, <1>2, <1>4, AnswerKeeps
<1>6. nonce' \in Nat /\ nonce <= nonce'
  BY <1>0, <1>1, Counted
<1>7. StoreSide'
  BY <1>1, <1>5, <1>6, StoreIsStill
<1>8. Rest'
  BY <1>0, <1>1 DEF Rest
<1> QED BY <1>5, <1>7, <1>8, SidesNext

-----------------------------------------------------------------------------
(***************************************************************************)
(* The invariant, and what it gives.                                       *)
(***************************************************************************)
LEMMA InitHolds == Init => IInv
<1> SUFFICES ASSUME Init PROVE IInv
  OBVIOUS
<1>1. TypeOK
  <2>1. /\ Nothing \in Sigs /\ num \in [Tx -> 0..MaxTx]
        /\ nonce \in 0..MaxTx /\ begun \in 0..MaxBegun
    BY SafeAssumption DEF Init, Nothing, Sigs, Tx
  <2>2. calls \in [Call -> Handler] /\ page \in [Owner -> Page] /\ local \in [Owner -> Sigs]
    BY <2>1, NoCallIsTyped, IdleIsTyped DEF Init
  <2>3. \A t \in 1..made : num[t] < made
    BY DEF Init
  <2> QED BY <2>1, <2>2, <2>3 DEF Init, TypeOK
<1>2. /\ \A t \in Tx : Nothing[t] = {}
      /\ \A p \in Owner : local[p] = Nothing /\ page[p] = Idle
      /\ \A c \in Call : calls[c] = NoCall
      /\ \A t \in Tx : ~Asked(t)
  BY DEF Init, Nothing, Asked
<1>3. Made
  BY <1>2 DEF Init, Made
<1>4. Tabs
  BY <1>2 DEF Init, Tabs, Idle
<1>5. Linked
  BY <1>2 DEF Linked, Idle
<1>6. Handlers
  <2> SUFFICES ASSUME NEW c \in Call PROVE HandlerOK(c) /\ CurrentOK(c) /\ DecidedOK(c)
    BY DEF Handlers
  <2> QED BY <1>2 DEF Init, NoCall, HandlerOK, CurrentOK, DecidedOK
<1>7. Listed /\ NumberedAfterTheQueue
  BY <1>2 DEF Idle, Listed, NumberedAfterTheQueue
<1>8. KeptByItsSigner /\ TakenIsKept /\ RemovedStaysHidden
  BY <1>2 DEF Init, KeptByItsSigner, TakenIsKept, RemovedStaysHidden
<1> QED BY <1>1, <1>3, <1>4, <1>5, <1>6, <1>7, <1>8 DEF IInv

LEMMA StutterKeeps ==
  ASSUME IInv, UNCHANGED vars
  PROVE  IInv'
<1>1. UNCHANGED <<begun, made, num, nonce, queue, dropped, calls, page, local, signed, acked,
                          asked, removed, clobbered, faults>>
  BY Sides DEF vars, server, history
<1>2. Handlers'
  BY <1>1 DEF IInv, Handlers, HandlerOK, CurrentOK, DecidedOK, Asked
<1>3. KeptByItsSigner' /\ TakenIsKept' /\ RemovedStaysHidden' /\ NumberedAfterTheQueue' /\ Listed'
  BY <1>1 DEF IInv, KeptByItsSigner, TakenIsKept, RemovedStaysHidden, NumberedAfterTheQueue, Listed,
              Ahead, Asked
<1>4. TypeOK' /\ Made' /\ Tabs' /\ Linked'
  BY <1>1 DEF IInv, TypeOK, Made, Tabs, Linked, Asked
<1> QED BY <1>2, <1>3, <1>4 DEF IInv

LEMMA StepKeeps == IInv /\ [Next]_vars => IInv'
<1> SUFFICES ASSUME IInv, [Next]_vars PROVE IInv'
  OBVIOUS
<1>1. CASE UNCHANGED vars
  BY <1>1, StutterKeeps
<1>2. ASSUME NEW c \in Call, Server(c) PROVE IInv'
  BY <1>2, AskChainKeeps, DropQueueKeeps, DropDroppedKeeps, ReadAndMergeKeeps, StashMergedKeeps,
     ReadBothKeeps, StashWithoutKeeps, StashDroppedKeeps DEF Server
<1>3. ASSUME NEW c \in Call, Crash(c) PROVE IInv'
  BY <1>3, CrashKeeps
<1>4. ASSUME NEW p \in Owner, Pages(p) PROVE IInv'
  <2>1. ASSUME NEW c \in Call, Look(p, c) \/ Sign(p, c) \/ Remove(p, c) PROVE IInv'
    BY <2>1, LookKeeps, SignKeeps, RemoveKeeps
  <2>2. ASSUME NEW c \in Call, NEW t \in Tx, NEW r \in Owner, Open(p, c, t, r) PROVE IInv'
    BY <2>2, OpenKeeps
  <2>3. ASSUME NEW t \in Tx, Reject(p, t) PROVE IInv'
    BY <2>3, RejectKeeps
  <2>4. CASE Execute(p)
    BY <2>4, ExecuteKeeps
  <2>5. CASE Leave(p)
    <3>1. Done(p) /\ UNCHANGED <<begun, nonce, queue, dropped, calls, signed, acked, asked, removed,
                                clobbered, faults>>
      BY <2>5 DEF Leave, server, history
    <3> QED BY <3>1, LeaveKeeps
  <2> QED BY <1>4, <2>1, <2>2, <2>3, <2>4, <2>5 DEF Pages
<1>5. ASSUME NEW p \in Owner, TimesOut(p) PROVE IInv'
  BY <1>5, TimesOutKeeps
<1> QED BY <1>1, <1>2, <1>3, <1>4, <1>5 DEF Next

LEMMA Invariant == Spec => []IInv
  BY InitHolds, StepKeeps, PTL DEF Spec

\* The queue, the dropped list, the handlers and the pages keep their shapes, and no
\* number is beyond the transactions made.
THEOREM SafeQueueTyped == Spec => []TypeOK
<1>1. IInv => TypeOK
  BY DEF IInv
<1> QED BY <1>1, Invariant, PTL

\* Whatever the server does, loses or forgets, a signature stays in the browser of the
\* owner who gave it until its number has passed or that owner removes the transaction.
THEOREM SignaturesStayHome == Spec => []KeptByItsSigner
<1>1. IInv => KeptByItsSigner
  BY DEF IInv
<1> QED BY <1>1, Invariant, PTL

\* As long as no handler writes a value another has changed since it was read, a
\* signature the queue took (POST's 200) stays in it until its number has passed or an
\* owner asks to remove the transaction.
THEOREM TakenSignaturesStay == Spec => []TakenIsKept
<1>1. IInv => TakenIsKept
  BY DEF IInv
<1> QED BY <1>1, Invariant, PTL

\* As long as no handler writes an old value, what DELETE answered for stays on the
\* dropped list until the Safe's nonce has passed it.
THEOREM RemovalsStay == Spec => []RemovedStaysHidden
<1>1. IInv => RemovedStaysHidden
  BY DEF IInv
<1> QED BY <1>1, Invariant, PTL

\* As long as no handler writes an old value, a send whose page got the list is numbered
\* after all the queue had taken when it began, but for what has passed or is removed.
THEOREM SendsFollowTheQueue == Spec => []NumberedAfterTheQueue
<1>1. IInv => NumberedAfterTheQueue
  BY DEF IInv
<1> QED BY <1>1, Invariant, PTL
=============================================================================
