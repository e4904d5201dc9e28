-------------------------- MODULE DeviceQueueProofs --------------------------
(***************************************************************************)
(* Proofs about DeviceQueue, for any number of requests, wallets and       *)
(* calls, any faults, and any times on the servers and on the chain.       *)
(*                                                                         *)
(* A signature is posted only for a request approved on the device, so a   *)
(* transaction in the air carries an approved one; it lands under the      *)
(* wallet's nonce, which then moves past it for good.  From there the      *)
(* queue implements the ledger of the device's holder.                     *)
(***************************************************************************)
EXTENDS DeviceQueue, FiniteSetTheorems, TLAPS

\* Requests up to last are made, and only those are approved.
Made ==
  /\ \A r \in Request : status[r] # "absent" => r <= last
  /\ \A r \in Request : r <= last => body[r].wallet \in Wallet
  /\ \A r \in yes : r <= last

\* What a call in progress relies on.
CallOK(c) ==
  /\ calls[c].kind = "sign" => calls[c].req \in yes
  /\ calls[c].kind = "reject" => calls[c].req \in Request /\ calls[c].req <= last
  /\ calls[c].kind = "create" => calls[c].wallet \in Wallet
  /\ \A r \in calls[c].todo : r <= last
  /\ calls[c].at \in {"relaying", "sent"} => calls[c].kind = "sign"
  /\ calls[c].at = "sent" => tx[c].req = calls[c].req
  /\ calls[c].at = "sent" /\ tx[c].state = "success" => tx[c].req \in ran
  /\ tx[c].state = "sent" => tx[c].req \in yes

CallsOK == \A c \in Call : CallOK(c)

\* What was carried out is approved, and its nonce is used up.
RanOK ==
  /\ OnlyApprovedRuns
  /\ \A r \in ran : body[r].nonce < nonce[body[r].wallet]

\* What the device has on its screen, and what it approved since it started.
DeviceOK ==
  /\ dev.screen = "confirm" => dev.req \in seen /\ dev.req <= last
  /\ "restart" \notin faults => yes \subseteq seen

IInv == TypeOK /\ Made /\ CallsOK /\ RanOK /\ ConfirmedRan /\ DeviceOK

-----------------------------------------------------------------------------
LEMMA InFlightIsCounted ==
  ASSUME NEW w
  PROVE Cardinality(InFlight(w)) \in Nat
<1>1. IsFiniteSet(Request)
  BY QueueAssumption, FS_Interval DEF QueueAssumption, Request
<1>2. InFlight(w) \subseteq Request
  BY DEF InFlight
<1> QED BY <1>1, <1>2, FS_Subset, FS_CardinalityType

LEMMA Numbers ==
  /\ Request \subseteq Nat /\ 0 \notin Request /\ 0 \notin Call
  /\ \A r \in Request : r < MaxMade => r + 1 \in Request
  /\ 0 < MaxMade => 1 \in Request
BY QueueAssumption DEF QueueAssumption, Request, Call

LEMMA NoCallIsACall ==
  NoCall \in HttpCall /\ NoTx \in Transaction /\ Booted \in DeviceState
BY DEF NoCall, HttpCall, NoTx, Transaction, Booted, DeviceState, Points

LEMMA Begins ==
  Init => IInv
<1> SUFFICES ASSUME Init PROVE IInv
  OBVIOUS
<1>1. TypeOK
  BY NoCallIsACall DEF Init, TypeOK, Row, Status
<1>2. Made
  BY Numbers DEF Init, Made
<1>3. RanOK /\ ConfirmedRan
  BY DEF Init, RanOK, OnlyApprovedRuns, ConfirmedRan
<1>4. DeviceOK
  BY DEF Init, DeviceOK, Booted
<1>5. CallsOK
  BY DEF Init, CallsOK, CallOK, NoCall, NoTx
<1> QED BY <1>1, <1>2, <1>3, <1>4, <1>5 DEF IInv

-----------------------------------------------------------------------------
(***************************************************************************)
(* The steps of a handler, one change at a time.                           *)
(***************************************************************************)
LEMMA PatchSets ==
  ASSUME TypeOK, NEW r \in Request, NEW s \in Status, Patch(r, s)
  PROVE /\ status' \in [Request -> Status]
        /\ status'[r] = s
        /\ \A q \in Request : q # r => status'[q] = status[q]
BY DEF TypeOK, Patch

LEMMA GoesOn ==
  ASSUME TypeOK, NEW c \in Call, NEW p \in Points, Goes(c, p)
  PROVE /\ calls' \in [Call -> HttpCall]
        /\ calls'[c].at = p /\ calls'[c].kind = calls[c].kind /\ calls'[c].req = calls[c].req
        /\ calls'[c].wallet = calls[c].wallet /\ calls'[c].todo = calls[c].todo
        /\ \A d \in Call : d # c => calls'[d] = calls[d]
BY DEF TypeOK, Goes, HttpCall

LEMMA StartsAt ==
  ASSUME TypeOK, NEW c \in Call, NEW call \in HttpCall, Start(c, call)
  PROVE /\ calls' \in [Call -> HttpCall]
        /\ calls'[c] = call
        /\ \A d \in Call : d # c => calls'[d] = calls[d]
BY DEF TypeOK, Start

LEMMA AnswerEnds ==
  ASSUME TypeOK, NEW c \in Call, Answer(c)
  PROVE /\ calls' \in [Call -> HttpCall]
        /\ calls'[c] = NoCall
        /\ \A d \in Call : d # c => calls'[d] = calls[d]
        /\ dev' \in DeviceState
        /\ dev'.screen \in {"home", dev.screen} /\ dev'.req = dev.req
BY NoCallIsACall DEF TypeOK, Answer, DeviceState

\* History only grows, and requests are made one after the other.
Onward ==
  /\ last <= last' /\ last' \in Nat
  /\ yes \subseteq yes' /\ ran \subseteq ran'

LEMMA OthersKeep ==
  ASSUME TypeOK, NEW d \in Call, CallOK(d), Onward,
         calls'[d] = calls[d], tx'[d] = tx[d]
  PROVE CallOK(d)'
<1>1. calls[d] \in HttpCall /\ last \in Nat
  BY Numbers DEF TypeOK
<1>2. ASSUME NEW r \in Request, r <= last PROVE r <= last'
  BY <1>1, <1>2, Numbers DEF Onward
<1>3. \A r \in calls[d].todo : r <= last'
  BY <1>1, <1>2 DEF CallOK, HttpCall
<1>4. calls[d].kind = "reject" => calls[d].req \in Request /\ calls[d].req <= last'
  BY <1>2 DEF CallOK
<1> QED BY <1>3, <1>4 DEF CallOK, Onward

LEMMA EndedIsOK ==
  ASSUME NEW c \in Call, calls'[c] = NoCall, tx'[c].state = "sent" => tx'[c].req \in yes'
  PROVE CallOK(c)'
BY DEF CallOK, NoCall

LEMMA CallsKeep ==
  ASSUME TypeOK, CallsOK, Onward, NEW c \in Call, CallOK(c)',
         \A d \in Call : d # c => calls'[d] = calls[d] /\ tx'[d] = tx[d]
  PROVE CallsOK'
<1> SUFFICES ASSUME NEW d \in Call, d # c PROVE CallOK(d)'
  BY DEF CallsOK
<1>1. CallOK(d)
  BY DEF CallsOK
<1> QED BY <1>1, OthersKeep

LEMMA AllCallsKeep ==
  ASSUME TypeOK, CallsOK, Onward, UNCHANGED <<calls, tx>>
  PROVE CallsOK'
<1> SUFFICES ASSUME NEW d \in Call PROVE CallOK(d)'
  BY DEF CallsOK
<1>1. CallOK(d) /\ calls'[d] = calls[d] /\ tx'[d] = tx[d]
  BY DEF CallsOK
<1> QED BY <1>1, OthersKeep

LEMMA StillIsOnward ==
  ASSUME TypeOK, UNCHANGED last, yes \subseteq yes', ran \subseteq ran'
  PROVE Onward
<1>1. last \in Nat
  BY Numbers DEF TypeOK
<1> QED BY <1>1 DEF Onward

LEMMA PatchKeeps ==
  ASSUME TypeOK, Made, ConfirmedRan, NEW r \in Request, r <= last, NEW s \in Status, Patch(r, s),
         UNCHANGED <<body, last, yes, ran>>, s = "confirmed" => r \in ran
  PROVE status' \in [Request -> Status] /\ Made' /\ ConfirmedRan'
<1>1. /\ status' \in [Request -> Status] /\ status'[r] = s
      /\ \A q \in Request : q # r => status'[q] = status[q]
  BY PatchSets
<1>2. Made'
  BY <1>1 DEF Made
<1>3. ConfirmedRan'
  BY <1>1 DEF ConfirmedRan
<1> QED BY <1>1, <1>2, <1>3

LEMMA ListsAreCalls ==
  ASSUME TypeOK, NEW w \in Wallet \cup {None}, NEW kind \in {"create", "list"}
  PROVE [NoCall EXCEPT !.kind = kind, !.wallet = w, !.todo = Stale, !.at = AfterStale(kind, Stale)] \in HttpCall
<1>1. AfterStale(kind, Stale) \in Points
  BY DEF AfterStale, Points
<1>2. Stale \subseteq Request
  BY DEF Stale
<1> QED BY <1>1, <1>2 DEF NoCall, HttpCall, Points

\* A call that begins with expireStale.
LEMMA StaleCallIsOK ==
  ASSUME TypeOK, Made, CallsOK, NEW c \in Call, NEW w \in Wallet \cup {None},
         NEW kind \in {"create", "list"}, kind = "create" => w \in Wallet,
         StartStale(c, kind, w), UNCHANGED <<store, chain, now, yes, ran>>
  PROVE calls' \in [Call -> HttpCall] /\ CallsOK'
<1> DEFINE call == [NoCall EXCEPT !.kind = kind, !.wallet = w, !.todo = Stale, !.at = AfterStale(kind, Stale)]
<1>1. call \in HttpCall /\ Start(c, call)
  BY ListsAreCalls DEF StartStale
<1>2. /\ calls' \in [Call -> HttpCall] /\ calls'[c] = call
      /\ \A d \in Call : d # c => calls'[d] = calls[d]
  BY <1>1, StartsAt
<1>3. call.kind = kind /\ call.wallet = w /\ call.todo = Stale /\ call.at \in {"expire", "flight", "listed"}
  BY DEF NoCall, AfterStale
<1>4. \A r \in Stale : r <= last
  BY DEF Stale, Made
<1>5. tx[c].state = "sent" => tx[c].req \in yes
  BY DEF CallsOK, CallOK
<1>6. UNCHANGED <<tx, yes, ran, last>>
  BY DEF store, chain
<1>7. CallOK(c)'
  BY <1>2, <1>3, <1>4, <1>5, <1>6 DEF CallOK
<1>8. Onward
  BY <1>6, StillIsOnward
<1> QED BY <1>2, <1>6, <1>7, <1>8, CallsKeep

LEMMA RejectsAreOK ==
  ASSUME TypeOK, Made, CallsOK, NEW c \in Call, NEW r \in Request, r <= last,
         calls' \in [Call -> HttpCall], calls'[c] = [NoCall EXCEPT !.kind = "reject", !.at = "put", !.req = r],
         \A d \in Call : d # c => calls'[d] = calls[d],
         UNCHANGED <<last, yes, ran, tx>>
  PROVE CallsOK'
<1>1. /\ calls'[c].kind = "reject" /\ calls'[c].at = "put" /\ calls'[c].req = r
      /\ calls'[c].todo = {}
  BY DEF NoCall
<1>2. tx[c].state = "sent" => tx[c].req \in yes
  BY DEF CallsOK, CallOK
<1>3. CallOK(c)'
  BY <1>1, <1>2 DEF CallOK
<1> QED BY <1>3, CallsKeep, StillIsOnward

LEMMA RejectIsACall ==
  ASSUME NEW r \in Request
  PROVE [NoCall EXCEPT !.kind = "reject", !.at = "put", !.req = r] \in HttpCall
BY DEF NoCall, HttpCall, Points

LEMMA ExpireOneKeeps ==
  ASSUME IInv, NEW c \in Call, ExpireOne(c)
  PROVE IInv'
<1> USE DEF IInv
<1> DEFINE next(r) == [calls[c] EXCEPT !.at = AfterStale(calls[c].kind, calls[c].todo \ {r}),
                                      !.todo = calls[c].todo \ {r}]
<1>1. PICK r \in calls[c].todo :
        /\ Patch(r, "expired")
        /\ \/ calls' = [calls EXCEPT ![c] = NoCall]
           \/ calls' = [calls EXCEPT ![c] = next(r)]
  BY DEF ExpireOne
<1>2. calls[c].at = "expire" /\ UNCHANGED <<body, last, pairing, chain, now, device, ran, faults>>
  BY DEF ExpireOne
<1>3. r \in Request /\ r <= last /\ calls[c] \in HttpCall
  BY DEF TypeOK, HttpCall, CallsOK, CallOK
<1>4. status' \in [Request -> Status] /\ Made' /\ ConfirmedRan'
  BY <1>1, <1>2, <1>3, PatchKeeps DEF Status, Terminal, device
<1>5. /\ next(r) \in HttpCall /\ next(r).at \in {"expire", "flight", "listed"}
      /\ next(r).todo = calls[c].todo \ {r} /\ next(r).kind = calls[c].kind
      /\ next(r).req = calls[c].req /\ next(r).wallet = calls[c].wallet
  BY <1>3 DEF AfterStale, HttpCall, Points
<1>6. /\ calls' \in [Call -> HttpCall] /\ calls'[c] \in {NoCall, next(r)}
      /\ \A d \in Call : d # c => calls'[d] = calls[d]
  BY <1>1, <1>5, NoCallIsACall DEF TypeOK
<1>7. TypeOK'
  BY <1>2, <1>4, <1>6 DEF TypeOK, chain, device
<1>8. Made'
  BY <1>4
<1>9. CallsOK'
  <2>1. CallOK(c)
    BY DEF CallsOK
  <2>2. CallOK(c)'
    <3>1. CASE calls'[c] = NoCall
      BY <1>2, <2>1, <3>1, EndedIsOK DEF CallOK, chain, device
    <3>2. CASE calls'[c] = next(r)
      BY <1>2, <1>5, <2>1, <3>2 DEF CallOK, chain, device
    <3> QED BY <1>6, <3>1, <3>2
  <2> QED BY <1>2, <1>6, <2>2, CallsKeep, StillIsOnward DEF chain, device
<1>10. RanOK'
  BY <1>2 DEF RanOK, OnlyApprovedRuns, chain, device
<1>11. ConfirmedRan'
  BY <1>4
<1>12. DeviceOK'
  BY <1>2 DEF DeviceOK, device
<1> QED BY <1>7, <1>8, <1>9, <1>10, <1>11, <1>12

LEMMA ListKeeps ==
  ASSUME IInv, NEW c \in Call, List(c)
  PROVE IInv'
<1> USE DEF IInv
<1>1. /\ calls' \in [Call -> HttpCall] /\ calls'[c] = NoCall
      /\ \A d \in Call : d # c => calls'[d] = calls[d]
  BY NoCallIsACall DEF List, TypeOK
<1>2. TypeOK'
  BY <1>1 DEF List, TypeOK, store, chain, device
<1>3. Made'
  BY DEF List, store, chain, device, Made
<1>4. CallsOK'
  <2>1. tx[c].state = "sent" => tx[c].req \in yes
    BY DEF CallsOK, CallOK
  <2>2. CallOK(c)'
    BY <1>1, <2>1, EndedIsOK DEF List, store, chain, device
  <2> QED BY <1>1, <2>2, CallsKeep, StillIsOnward DEF List, store, chain, device
<1>5. RanOK'
  BY DEF List, store, chain, device, RanOK, OnlyApprovedRuns
<1>6. ConfirmedRan'
  BY DEF List, store, chain, device, ConfirmedRan
<1>7. DeviceOK'
  BY DEF List, store, chain, device, DeviceOK
<1> QED BY <1>2, <1>3, <1>4, <1>5, <1>6, <1>7

LEMMA NothingKeeps ==
  ASSUME IInv, NEW c \in Call, Nothing(c)
  PROVE IInv'
<1> USE DEF IInv
<1>1. /\ calls' \in [Call -> HttpCall] /\ calls'[c] = NoCall
      /\ \A d \in Call : d # c => calls'[d] = calls[d]
      /\ dev' \in DeviceState /\ dev'.screen \in {"home", dev.screen} /\ dev'.req = dev.req
  BY AnswerEnds DEF Nothing
<1>2. TypeOK'
  BY <1>1 DEF Nothing, TypeOK, store, chain
<1>3. Made'
  BY DEF Nothing, store, chain, device, Made
<1>4. CallsOK'
  <2>1. tx[c].state = "sent" => tx[c].req \in yes
    BY DEF CallsOK, CallOK
  <2>2. CallOK(c)'
    BY <1>1, <2>1, EndedIsOK DEF Nothing, store, chain, device
  <2> QED BY <1>1, <2>2, CallsKeep, StillIsOnward DEF Nothing, store, chain, device
<1>5. RanOK'
  BY DEF Nothing, store, chain, device, RanOK, OnlyApprovedRuns
<1>6. ConfirmedRan'
  BY DEF Nothing, store, chain, device, ConfirmedRan
<1>7. DeviceOK'
  BY <1>1 DEF Nothing, DeviceOK, store
<1> QED BY <1>2, <1>3, <1>4, <1>5, <1>6, <1>7

LEMMA CrashKeeps ==
  ASSUME IInv, NEW c \in Call, Crash(c)
  PROVE IInv'
<1> USE DEF IInv
<1>1. /\ calls' \in [Call -> HttpCall] /\ calls'[c] = NoCall
      /\ \A d \in Call : d # c => calls'[d] = calls[d]
      /\ dev' \in DeviceState /\ dev'.screen \in {"home", dev.screen} /\ dev'.req = dev.req
  BY AnswerEnds DEF Crash
<1>2. TypeOK'
  BY <1>1 DEF Crash, TypeOK, store, chain, Happens, Trouble
<1>3. Made'
  BY DEF Crash, store, chain, device, Made
<1>4. CallsOK'
  <2>1. tx[c].state = "sent" => tx[c].req \in yes
    BY DEF CallsOK, CallOK
  <2>2. CallOK(c)'
    BY <1>1, <2>1, EndedIsOK DEF Crash, store, chain, device
  <2> QED BY <1>1, <2>2, CallsKeep, StillIsOnward DEF Crash, store, chain, device
<1>5. RanOK'
  BY DEF Crash, store, chain, device, RanOK, OnlyApprovedRuns
<1>6. ConfirmedRan'
  BY DEF Crash, store, chain, device, ConfirmedRan
<1>7. DeviceOK'
  BY <1>1 DEF Crash, DeviceOK, store, Happens
<1> QED BY <1>2, <1>3, <1>4, <1>5, <1>6, <1>7

LEMMA ShowKeeps ==
  ASSUME IInv, NEW c \in Call, Show(c)
  PROVE IInv'
<1> USE DEF IInv
<1>1. /\ calls' \in [Call -> HttpCall] /\ calls'[c] = NoCall
      /\ \A d \in Call : d # c => calls'[d] = calls[d]
  BY NoCallIsACall DEF Show, TypeOK
<1>2. PICK r \in Fresh : seen' = seen \cup {r} /\ dev' = [dev EXCEPT !.call = 0, !.req = r, !.screen = "confirm"]
  BY DEF Show, Oldest
<1>3. r \in Request /\ r <= last
  BY DEF Fresh, Made
<1>4. dev' \in DeviceState /\ dev'.screen = "confirm" /\ dev'.req = r
  BY <1>2, <1>3 DEF TypeOK, DeviceState
<1>5. TypeOK'
  BY <1>1, <1>2, <1>3, <1>4 DEF Show, TypeOK, store, chain
<1>6. Made'
  BY DEF Show, store, Made
<1>7. CallsOK'
  <2>1. tx[c].state = "sent" => tx[c].req \in yes
    BY DEF CallsOK, CallOK
  <2>2. CallOK(c)'
    BY <1>1, <2>1, EndedIsOK DEF Show, store, chain, device
  <2> QED BY <1>1, <2>2, CallsKeep, StillIsOnward DEF Show, store, chain, device
<1>8. RanOK'
  BY DEF Show, store, chain, RanOK, OnlyApprovedRuns
<1>9. ConfirmedRan'
  BY DEF Show, store, chain, device, ConfirmedRan
<1>10. DeviceOK'
  BY <1>2, <1>3, <1>4 DEF Show, DeviceOK, store
<1> QED BY <1>5, <1>6, <1>7, <1>8, <1>9, <1>10

LEMMA RefuseKeeps ==
  ASSUME IInv, NEW c \in Call, Refuse(c)
  PROVE IInv'
<1> USE DEF IInv
<1>1. PICK r \in Fresh : /\ seen' = seen \cup {r}
                     /\ calls' = [calls EXCEPT ![c] = [NoCall EXCEPT !.kind = "reject", !.at = "put", !.req = r]]
  BY DEF Refuse, Oldest
<1>2. r \in Request /\ r <= last
  BY DEF Fresh, Made
<1>3. /\ calls' \in [Call -> HttpCall] /\ calls'[c] = [NoCall EXCEPT !.kind = "reject", !.at = "put", !.req = r]
      /\ \A d \in Call : d # c => calls'[d] = calls[d]
  BY <1>1, <1>2, RejectIsACall DEF TypeOK
<1>4. TypeOK'
  BY <1>1, <1>2, <1>3 DEF Refuse, TypeOK, store, chain
<1>5. Made'
  BY DEF Refuse, store, Made
<1>6. CallsOK'
  BY <1>2, <1>3, RejectsAreOK DEF Refuse, store, chain
<1>7. RanOK'
  BY DEF Refuse, store, chain, RanOK, OnlyApprovedRuns
<1>8. ConfirmedRan'
  BY DEF Refuse, store, chain, device, ConfirmedRan
<1>9. DeviceOK'
  BY <1>1 DEF Refuse, DeviceOK, store
<1> QED BY <1>4, <1>5, <1>6, <1>7, <1>8, <1>9

LEMMA CountInFlightKeeps ==
  ASSUME IInv, NEW c \in Call, CountInFlight(c)
  PROVE IInv'
<1> USE DEF IInv
<1>1. /\ calls' \in [Call -> HttpCall] /\ calls'[c].at = "nonce" /\ calls'[c].kind = calls[c].kind
      /\ calls'[c].req = calls[c].req /\ calls'[c].wallet = calls[c].wallet /\ calls'[c].todo = calls[c].todo
      /\ \A d \in Call : d # c => calls'[d] = calls[d]
  <2>1. calls[c] \in HttpCall /\ Cardinality(InFlight(calls[c].wallet)) \in Nat
    BY InFlightIsCounted DEF TypeOK
  <2>2. [calls[c] EXCEPT !.at = "nonce", !.n = Cardinality(InFlight(calls[c].wallet))] \in HttpCall
    BY <2>1 DEF HttpCall, Points
  <2> QED BY <2>1, <2>2 DEF CountInFlight, TypeOK
<1>2. TypeOK'
  BY <1>1 DEF CountInFlight, TypeOK, store, chain, device
<1>3. Made'
  BY DEF CountInFlight, store, chain, device, Made
<1>4. CallsOK'
  <2>1. CallOK(c)
    BY DEF CallsOK
  <2>2. CallOK(c)'
    BY <1>1, <2>1 DEF CountInFlight, At, CallOK, store, chain, device
  <2> QED BY <1>1, <2>2, CallsKeep, StillIsOnward DEF CountInFlight, store, chain, device
<1>5. RanOK'
  BY DEF CountInFlight, store, chain, device, RanOK, OnlyApprovedRuns
<1>6. ConfirmedRan'
  BY DEF CountInFlight, store, chain, device, ConfirmedRan
<1>7. DeviceOK'
  BY DEF CountInFlight, store, chain, device, DeviceOK
<1> QED BY <1>2, <1>3, <1>4, <1>5, <1>6, <1>7

LEMMA PickNonceKeeps ==
  ASSUME IInv, NEW c \in Call, PickNonce(c)
  PROVE IInv'
<1> USE DEF IInv
<1>1. /\ calls' \in [Call -> HttpCall] /\ calls'[c].at = "put" /\ calls'[c].kind = calls[c].kind
      /\ calls'[c].req = calls[c].req /\ calls'[c].wallet = calls[c].wallet /\ calls'[c].todo = calls[c].todo
      /\ \A d \in Call : d # c => calls'[d] = calls[d]
  <2>1. calls[c] \in HttpCall /\ calls[c].kind = "create" /\ calls[c].wallet \in Wallet
    BY DEF PickNonce, At, TypeOK, CallsOK, CallOK
  <2>2. nonce[calls[c].wallet] + calls[c].n \in Nat /\ now + TTL \in Nat
    BY <2>1, QueueAssumption DEF TypeOK, HttpCall, QueueAssumption
  <2> QED BY <2>1, <2>2 DEF PickNonce, TypeOK, HttpCall, Points
<1>2. TypeOK'
  BY <1>1 DEF PickNonce, TypeOK, store, chain, device
<1>3. Made'
  BY DEF PickNonce, store, chain, device, Made
<1>4. CallsOK'
  <2>1. CallOK(c)
    BY DEF CallsOK
  <2>2. CallOK(c)'
    BY <1>1, <2>1 DEF PickNonce, At, CallOK, store, chain, device
  <2> QED BY <1>1, <2>2, CallsKeep, StillIsOnward DEF PickNonce, store, chain, device
<1>5. RanOK'
  BY DEF PickNonce, store, chain, device, RanOK, OnlyApprovedRuns
<1>6. ConfirmedRan'
  BY DEF PickNonce, store, chain, device, ConfirmedRan
<1>7. DeviceOK'
  BY DEF PickNonce, store, chain, device, DeviceOK
<1> QED BY <1>2, <1>3, <1>4, <1>5, <1>6, <1>7

LEMMA RelayThrowsKeeps ==
  ASSUME IInv, NEW c \in Call, RelayThrows(c)
  PROVE IInv'
<1> USE DEF IInv
<1>1. /\ calls' \in [Call -> HttpCall] /\ calls'[c].at = "broken" /\ calls'[c].kind = calls[c].kind
      /\ calls'[c].req = calls[c].req /\ calls'[c].wallet = calls[c].wallet /\ calls'[c].todo = calls[c].todo
      /\ \A d \in Call : d # c => calls'[d] = calls[d]
  BY GoesOn DEF RelayThrows, Points
<1>2. TypeOK'
  BY <1>1 DEF RelayThrows, TypeOK, store, chain, device
<1>3. Made'
  BY DEF RelayThrows, store, chain, device, Made
<1>4. CallsOK'
  <2>1. CallOK(c)
    BY DEF CallsOK
  <2>2. CallOK(c)'
    BY <1>1, <2>1 DEF RelayThrows, At, CallOK, store, chain, device
  <2> QED BY <1>1, <2>2, CallsKeep, StillIsOnward DEF RelayThrows, store, chain, device
<1>5. RanOK'
  BY DEF RelayThrows, store, chain, device, RanOK, OnlyApprovedRuns
<1>6. ConfirmedRan'
  BY DEF RelayThrows, store, chain, device, ConfirmedRan
<1>7. DeviceOK'
  BY DEF RelayThrows, store, chain, device, DeviceOK
<1> QED BY <1>2, <1>3, <1>4, <1>5, <1>6, <1>7

LEMMA ReadLaterKeeps ==
  ASSUME IInv, NEW c \in Call, ReadLater(c)
  PROVE IInv'
<1> USE DEF IInv
<1> DEFINE later == LaterThan(calls[c].req)
           next == [calls[c] EXCEPT !.at = "behind", !.todo = later]
<1>1. UNCHANGED <<store, chain, now, seen, yes, ran, faults>>
  BY DEF ReadLater
<1>2. /\ next \in HttpCall /\ next.at = "behind" /\ next.kind = calls[c].kind
      /\ next.req = calls[c].req /\ next.wallet = calls[c].wallet /\ next.todo = later
  <2>1. calls[c] \in HttpCall /\ later \subseteq Request
    BY DEF TypeOK, LaterThan
  <2> QED BY <2>1 DEF HttpCall, Points
<1>3. /\ calls' \in [Call -> HttpCall] /\ calls'[c] \in {NoCall, next}
      /\ \A d \in Call : d # c => calls'[d] = calls[d]
      /\ dev' \in DeviceState /\ dev'.screen \in {"home", dev.screen} /\ dev'.req = dev.req
  <2>1. CASE Answer(c)
    BY <2>1, AnswerEnds
  <2>2. CASE calls' = [calls EXCEPT ![c] = next] /\ UNCHANGED dev
    BY <1>2, <2>2 DEF TypeOK
  <2> QED BY <2>1, <2>2 DEF ReadLater
<1>4. TypeOK'
  BY <1>1, <1>3 DEF TypeOK, store, chain
<1>5. Made'
  BY <1>1 DEF Made, store
<1>6. CallsOK'
  <2>1. CallOK(c)
    BY DEF CallsOK
  <2>2. CallOK(c)'
    <3>1. CASE calls'[c] = NoCall
      BY <1>1, <2>1, <3>1, EndedIsOK DEF CallOK, chain
    <3>2. CASE calls'[c] = next
      <4>1. \A r \in later : r <= last
        BY DEF LaterThan, Made
      <4> QED BY <1>1, <1>2, <2>1, <3>2, <4>1 DEF CallOK, store, chain
    <3> QED BY <1>3, <3>1, <3>2
  <2> QED BY <1>1, <1>3, <2>2, CallsKeep, StillIsOnward DEF store, chain
<1>7. RanOK'
  BY <1>1 DEF RanOK, OnlyApprovedRuns, store, chain
<1>8. ConfirmedRan'
  BY <1>1 DEF ConfirmedRan, store
<1>9. DeviceOK'
  BY <1>1, <1>3 DEF DeviceOK, store
<1> QED BY <1>4, <1>5, <1>6, <1>7, <1>8, <1>9

LEMMA MarkRelayingKeeps ==
  ASSUME IInv, NEW c \in Call, MarkRelaying(c)
  PROVE IInv'
<1> USE DEF IInv
<1>1. calls[c] \in HttpCall /\ calls[c].kind = "sign" /\ calls[c].req \in Request /\ calls[c].req <= last /\ calls[c].req \in yes
  BY DEF MarkRelaying, At, TypeOK, CallsOK, CallOK, Made
<1>2. status' \in [Request -> Status] /\ Made' /\ ConfirmedRan'
  BY <1>1, PatchKeeps DEF MarkRelaying, Status, InFlightStatus, Terminal
<1>3. /\ calls' \in [Call -> HttpCall] /\ calls'[c].at = "relaying" /\ calls'[c].kind = calls[c].kind
      /\ calls'[c].req = calls[c].req /\ calls'[c].wallet = calls[c].wallet /\ calls'[c].todo = calls[c].todo
      /\ \A d \in Call : d # c => calls'[d] = calls[d]
  BY GoesOn DEF MarkRelaying, Keep, Points
<1>4. TypeOK'
  BY <1>2, <1>3 DEF MarkRelaying, Keep, TypeOK, chain
<1>5. Made'
  BY <1>2
<1>6. CallsOK'
  <2>1. CallOK(c)
    BY DEF CallsOK
  <2>2. CallOK(c)'
    BY <1>1, <1>3, <2>1 DEF MarkRelaying, At, CallOK, chain
  <2> QED BY <1>3, <2>2, CallsKeep, StillIsOnward DEF MarkRelaying, chain
<1>7. RanOK'
  BY DEF MarkRelaying, chain, RanOK, OnlyApprovedRuns
<1>8. ConfirmedRan'
  BY <1>2
<1>9. DeviceOK'
  BY DEF MarkRelaying, Keep, DeviceOK
<1> QED BY <1>4, <1>5, <1>6, <1>7, <1>8, <1>9

LEMMA FailThisKeeps ==
  ASSUME IInv, NEW c \in Call, FailThis(c)
  PROVE IInv'
<1> USE DEF IInv
<1>1. calls[c] \in HttpCall /\ calls[c].kind = "sign" /\ calls[c].req \in Request /\ calls[c].req <= last /\ calls[c].req \in yes
  BY DEF FailThis, At, TypeOK, CallsOK, CallOK, Made
<1>2. status' \in [Request -> Status] /\ Made' /\ ConfirmedRan'
  BY <1>1, PatchKeeps DEF FailThis, Status, InFlightStatus, Terminal
<1>3. /\ calls' \in [Call -> HttpCall] /\ calls'[c].at = "failing" /\ calls'[c].kind = calls[c].kind
      /\ calls'[c].req = calls[c].req /\ calls'[c].wallet = calls[c].wallet /\ calls'[c].todo = calls[c].todo
      /\ \A d \in Call : d # c => calls'[d] = calls[d]
  BY GoesOn DEF FailThis, Keep, Points
<1>4. TypeOK'
  BY <1>2, <1>3 DEF FailThis, Keep, TypeOK, chain
<1>5. Made'
  BY <1>2
<1>6. CallsOK'
  <2>1. CallOK(c)
    BY DEF CallsOK
  <2>2. CallOK(c)'
    BY <1>1, <1>3, <2>1 DEF FailThis, At, CallOK, chain
  <2> QED BY <1>3, <2>2, CallsKeep, StillIsOnward DEF FailThis, chain
<1>7. RanOK'
  BY DEF FailThis, chain, RanOK, OnlyApprovedRuns
<1>8. ConfirmedRan'
  BY <1>2
<1>9. DeviceOK'
  BY DEF FailThis, Keep, DeviceOK
<1> QED BY <1>4, <1>5, <1>6, <1>7, <1>8, <1>9

LEMMA RejectKeeps ==
  ASSUME IInv, NEW c \in Call, Reject(c)
  PROVE IInv'
<1> USE DEF IInv
<1>1. /\ calls' \in [Call -> HttpCall] /\ calls'[c] = NoCall
      /\ \A d \in Call : d # c => calls'[d] = calls[d]
      /\ dev' \in DeviceState /\ dev'.screen \in {"home", dev.screen} /\ dev'.req = dev.req
  BY AnswerEnds DEF Reject
<1>2. calls[c].req \in Request /\ calls[c].req <= last
  BY DEF Reject, At, CallsOK, CallOK
<1>3. status' \in [Request -> Status] /\ Made' /\ ConfirmedRan'
  BY <1>2, PatchKeeps DEF Reject, Status, Terminal
<1>4. TypeOK'
  BY <1>1, <1>3 DEF Reject, TypeOK, chain
<1>5. Made'
  BY <1>3
<1>6. CallsOK'
  <2>1. tx[c].state = "sent" => tx[c].req \in yes
    BY DEF CallsOK, CallOK
  <2>2. CallOK(c)'
    BY <1>1, <2>1, EndedIsOK DEF Reject, chain
  <2> QED BY <1>1, <2>2, CallsKeep, StillIsOnward DEF Reject, chain
<1>7. RanOK'
  BY DEF Reject, chain, RanOK, OnlyApprovedRuns
<1>8. ConfirmedRan'
  BY <1>3
<1>9. DeviceOK'
  BY <1>1 DEF Reject, DeviceOK
<1> QED BY <1>4, <1>5, <1>6, <1>7, <1>8, <1>9

LEMMA ReceiptKeeps ==
  ASSUME IInv, NEW c \in Call, Receipt(c)
  PROVE IInv'
<1> USE DEF IInv
<1>1. /\ calls' \in [Call -> HttpCall] /\ calls'[c] = NoCall
      /\ \A d \in Call : d # c => calls'[d] = calls[d]
      /\ dev' \in DeviceState /\ dev'.screen \in {"home", dev.screen} /\ dev'.req = dev.req
  BY AnswerEnds DEF Receipt
<1>2. calls[c].at = "sent" /\ calls[c].kind = "sign" /\ tx[c].req = calls[c].req /\ calls[c].req \in yes
  BY DEF Receipt, CallsOK, CallOK
<1>3. tx[c].state = "success" => calls[c].req \in ran
  BY <1>2 DEF CallsOK, CallOK
<1>4. calls[c].req \in Request /\ calls[c].req <= last
  BY <1>2 DEF Made, TypeOK
<1>5. status' \in [Request -> Status] /\ Made' /\ ConfirmedRan'
  <2>1. Outcome(tx[c]) \in {"confirmed", "failed"} /\ (Outcome(tx[c]) = "confirmed" => tx[c].state = "success")
    BY DEF Outcome
  <2> QED BY <1>3, <1>4, <2>1, PatchKeeps DEF Receipt, Status, Terminal
<1>6. tx' \in [Call -> Transaction] /\ tx'[c].state = "none" /\ \A d \in Call : d # c => tx'[d] = tx[d]
  BY NoCallIsACall DEF Receipt, TypeOK, NoTx
<1>7. TypeOK'
  BY <1>1, <1>5, <1>6 DEF Receipt, TypeOK
<1>8. Made'
  BY <1>5
<1>9. CallsOK'
  <2>1. CallOK(c)'
    BY <1>1, <1>6, EndedIsOK
  <2> QED BY <1>1, <1>6, <2>1, CallsKeep, StillIsOnward DEF Receipt
<1>10. RanOK'
  BY DEF Receipt, RanOK, OnlyApprovedRuns
<1>11. ConfirmedRan'
  BY <1>5
<1>12. DeviceOK'
  BY <1>1 DEF Receipt, DeviceOK
<1> QED BY <1>7, <1>8, <1>9, <1>10, <1>11, <1>12

LEMMA RelayKeeps ==
  ASSUME IInv, NEW c \in Call, Relay(c)
  PROVE IInv'
<1> USE DEF IInv
<1>1. calls[c] \in HttpCall /\ calls[c].kind = "sign" /\ calls[c].req \in Request /\ calls[c].req <= last /\ calls[c].req \in yes
  BY DEF Relay, At, TypeOK, CallsOK, CallOK, Made
<1>2. /\ calls' \in [Call -> HttpCall] /\ calls'[c].at = "sent" /\ calls'[c].kind = calls[c].kind
      /\ calls'[c].req = calls[c].req /\ calls'[c].wallet = calls[c].wallet /\ calls'[c].todo = calls[c].todo
      /\ \A d \in Call : d # c => calls'[d] = calls[d]
  BY GoesOn DEF Relay, Points
<1>3. /\ tx' \in [Call -> Transaction] /\ tx'[c].req = calls[c].req /\ tx'[c].state = "sent"
      /\ \A d \in Call : d # c => tx'[d] = tx[d]
  BY <1>1 DEF Relay, TypeOK, Transaction
<1>4. TypeOK'
  BY <1>2, <1>3 DEF Relay, TypeOK, store, device
<1>5. Made'
  BY DEF Relay, store, chain, device, Made
<1>6. CallsOK'
  <2>1. CallOK(c)
    BY DEF CallsOK
  <2>2. CallOK(c)'
    BY <1>1, <1>2, <1>3, <2>1 DEF Relay, At, CallOK, store, device
  <2> QED BY <1>2, <1>3, <2>2, CallsKeep, StillIsOnward DEF Relay, store, device
<1>7. RanOK'
  BY DEF Relay, store, device, RanOK, OnlyApprovedRuns
<1>8. ConfirmedRan'
  BY DEF Relay, store, chain, device, ConfirmedRan
<1>9. DeviceOK'
  BY DEF Relay, store, chain, device, DeviceOK
<1> QED BY <1>4, <1>5, <1>6, <1>7, <1>8, <1>9

LEMMA VerifyKeeps ==
  ASSUME IInv, NEW c \in Call, Verify(c)
  PROVE IInv'
<1> USE DEF IInv
<1>1. calls[c] \in HttpCall /\ calls[c].kind = "sign" /\ calls[c].req \in Request /\ calls[c].req <= last /\ calls[c].req \in yes
  BY DEF Verify, At, TypeOK, CallsOK, CallOK, Made
<1>2. PICK s \in {"expired", "failed", "signed"} :
        Patch(calls[c].req, s) /\ (Answer(c) \/ Keep(c, "signed"))
  BY DEF Verify
<1>3. status' \in [Request -> Status] /\ Made' /\ ConfirmedRan'
  BY <1>1, <1>2, PatchKeeps DEF Verify, Status, InFlightStatus, Terminal
<1>4. /\ calls' \in [Call -> HttpCall]
      /\ \A d \in Call : d # c => calls'[d] = calls[d]
      /\ \/ calls'[c] = NoCall
         \/ /\ calls'[c].at = "signed" /\ calls'[c].kind = calls[c].kind /\ calls'[c].req = calls[c].req
            /\ calls'[c].wallet = calls[c].wallet /\ calls'[c].todo = calls[c].todo
      /\ dev' \in DeviceState /\ dev'.screen \in {"home", dev.screen} /\ dev'.req = dev.req
  <2>1. CASE Answer(c)
    BY <2>1, AnswerEnds
  <2>2. CASE Keep(c, "signed")
    <3>1. dev' = dev /\ dev \in DeviceState /\ Goes(c, "signed") /\ "signed" \in Points
      BY <2>2 DEF Keep, TypeOK, Points
    <3> QED BY <3>1, GoesOn
  <2> QED BY <1>2, <2>1, <2>2
<1>5. TypeOK'
  BY <1>3, <1>4 DEF Verify, TypeOK, chain
<1>6. Made'
  BY <1>3
<1>7. CallsOK'
  <2>1. CallOK(c)
    BY DEF CallsOK
  <2>2. CallOK(c)'
    <3>1. CASE calls'[c] = NoCall
      BY <2>1, <3>1, EndedIsOK DEF Verify, CallOK, chain
    <3>2. CASE calls'[c] # NoCall
      BY <1>1, <1>4, <2>1, <3>2 DEF Verify, CallOK, chain
    <3> QED BY <3>1, <3>2
  <2> QED BY <1>4, <2>2, CallsKeep, StillIsOnward DEF Verify, chain
<1>8. RanOK'
  BY DEF Verify, chain, RanOK, OnlyApprovedRuns
<1>9. ConfirmedRan'
  BY <1>3
<1>10. DeviceOK'
  BY <1>4 DEF Verify, DeviceOK
<1> QED BY <1>5, <1>6, <1>7, <1>8, <1>9, <1>10

LEMMA FailLaterKeeps ==
  ASSUME IInv, NEW c \in Call, FailLater(c)
  PROVE IInv'
<1> USE DEF IInv
<1> DEFINE next(r) == [calls[c] EXCEPT !.todo = calls[c].todo \ {r}]
<1>1. UNCHANGED <<body, last, pairing, chain, now, seen, yes, ran, faults>> /\ At(c, "sign", "behind")
  BY DEF FailLater
<1>2. CallOK(c) /\ calls[c] \in HttpCall
  BY DEF CallsOK, TypeOK
<1>3. PICK r \in calls[c].todo :
        /\ Patch(r, "failed")
        /\ \/ Answer(c)
           \/ calls' = [calls EXCEPT ![c] = next(r)] /\ UNCHANGED dev
  BY DEF FailLater
<1>4. r \in Request /\ r <= last
  BY <1>2 DEF HttpCall, CallOK
<1>5. status' \in [Request -> Status] /\ Made' /\ ConfirmedRan'
  BY <1>1, <1>3, <1>4, PatchKeeps DEF Status, Terminal
<1>6. /\ next(r) \in HttpCall /\ next(r).at = calls[c].at /\ next(r).kind = calls[c].kind
      /\ next(r).req = calls[c].req /\ next(r).wallet = calls[c].wallet
      /\ next(r).todo = calls[c].todo \ {r}
  BY <1>2 DEF HttpCall
<1>7. /\ calls' \in [Call -> HttpCall] /\ calls'[c] \in {NoCall, next(r)}
      /\ \A d \in Call : d # c => calls'[d] = calls[d]
      /\ dev' \in DeviceState /\ dev'.screen \in {"home", dev.screen} /\ dev'.req = dev.req
  <2>1. CASE Answer(c)
    BY <2>1, AnswerEnds
  <2>2. CASE calls' = [calls EXCEPT ![c] = next(r)] /\ UNCHANGED dev
    BY <1>6, <2>2 DEF TypeOK
  <2> QED BY <1>3, <2>1, <2>2
<1>8. TypeOK'
  BY <1>1, <1>5, <1>7 DEF TypeOK, chain
<1>9. CallsOK'
  <2>1. CallOK(c)'
    <3>1. CASE calls'[c] = NoCall
      BY <1>1, <1>2, <3>1, EndedIsOK DEF CallOK, chain
    <3>2. CASE calls'[c] = next(r)
      BY <1>1, <1>2, <1>6, <3>2 DEF CallOK, chain
    <3> QED BY <1>7, <3>1, <3>2
  <2> QED BY <1>1, <1>7, <2>1, CallsKeep, StillIsOnward DEF chain
<1>10. RanOK'
  BY <1>1 DEF RanOK, OnlyApprovedRuns, chain
<1>11. DeviceOK'
  BY <1>1, <1>7 DEF DeviceOK
<1> QED BY <1>5, <1>8, <1>9, <1>10, <1>11

LEMMA AddRequestKeeps ==
  ASSUME IInv, NEW c \in Call, AddRequest(c)
  PROVE IInv'
<1> USE DEF IInv
<1>1. /\ calls' \in [Call -> HttpCall] /\ calls'[c] = NoCall
      /\ \A d \in Call : d # c => calls'[d] = calls[d]
      /\ dev' \in DeviceState /\ dev'.screen \in {"home", dev.screen} /\ dev'.req = dev.req
  BY AnswerEnds DEF AddRequest
<1>2. UNCHANGED <<pairing, tx, nonce, blockTime, now, seen, yes, ran, faults>>
  BY DEF AddRequest, chain
<1>3. last \in Nat /\ last' = last + 1 /\ last' \in Request
  BY Numbers DEF AddRequest, TypeOK
<1>4. calls[c] \in HttpCall /\ calls[c].wallet \in Wallet
  BY DEF AddRequest, At, TypeOK, CallsOK, CallOK
<1>5. /\ body' \in [Request -> Row] /\ body'[last'].wallet \in Wallet
      /\ \A r \in Request : r # last' => body'[r] = body[r]
  <2> DEFINE row == [wallet |-> calls[c].wallet, nonce |-> calls[c].n, deadline |-> calls[c].due]
  <2>1. row \in Row /\ row.wallet \in Wallet
    BY <1>4 DEF HttpCall, Row
  <2>2. body' = [body EXCEPT ![last'] = row]
    BY DEF AddRequest
  <2> QED BY <1>3, <2>1, <2>2 DEF TypeOK
<1>6. /\ status' \in [Request -> Status] /\ status'[last'] = "pending"
      /\ \A r \in Request : r # last' => status'[r] = status[r]
  <2>1. "pending" \in Status /\ Patch(last', "pending")
    BY DEF Status, InFlightStatus, AddRequest
  <2> QED BY <1>3, <2>1, PatchSets
<1>7. \A r \in Request : (r <= last <=> r <= last' /\ r # last')
  BY <1>3, Numbers
<1>8. TypeOK'
  BY <1>1, <1>2, <1>3, <1>5, <1>6 DEF TypeOK
<1>9. Made'
  <2>1. yes \subseteq Request
    BY DEF TypeOK
  <2> QED BY <1>2, <1>5, <1>6, <1>7, <2>1, <1>3, Numbers DEF Made
<1>10. Onward
  <2>1. last <= last + 1 /\ last + 1 \in Nat
    BY <1>3
  <2> QED BY <1>2, <1>3, <2>1 DEF Onward
<1>11. CallsOK'
  <2>1. CallOK(c)'
    BY <1>1, <1>2, EndedIsOK DEF CallsOK, CallOK
  <2> QED BY <1>1, <1>2, <1>10, <2>1, CallsKeep
<1>12. RanOK'
  <2>1. \A r \in ran : r \in Request /\ body'[r] = body[r]
    BY <1>5, <1>7 DEF RanOK, OnlyApprovedRuns, Made, TypeOK
  <2> QED BY <1>2, <2>1 DEF RanOK, OnlyApprovedRuns
<1>13. ConfirmedRan'
  BY <1>2, <1>5, <1>6 DEF ConfirmedRan
<1>14. DeviceOK'
  <2>1. dev'.screen = "confirm" => dev.req \in seen /\ dev.req \in Request /\ dev.req <= last
    BY <1>1 DEF DeviceOK, TypeOK
  <2> QED BY <1>1, <1>2, <1>7, <2>1 DEF DeviceOK
<1> QED BY <1>8, <1>9, <1>11, <1>12, <1>13, <1>14

LEMMA AnnounceKeeps ==
  ASSUME IInv, Announce
  PROVE IInv'
<1> USE DEF IInv
<1>1. dev' \in DeviceState /\ dev'.screen = dev.screen /\ dev'.req = dev.req
  BY DEF Announce, TypeOK, DeviceState
<1>2. TypeOK'
  BY <1>1 DEF Announce, TypeOK, store, chain
<1>3. Made'
  BY DEF Announce, store, Made
<1>4. CallsOK'
  BY AllCallsKeep, StillIsOnward DEF Announce, store, chain
<1>5. RanOK'
  BY DEF Announce, store, chain, RanOK, OnlyApprovedRuns
<1>6. ConfirmedRan'
  BY DEF Announce, store, chain, device, ConfirmedRan
<1>7. DeviceOK'
  BY <1>1 DEF Announce, DeviceOK, store
<1> QED BY <1>2, <1>3, <1>4, <1>5, <1>6, <1>7

LEMMA PollKeeps ==
  ASSUME IInv, NEW c \in Call, Poll(c)
  PROVE IInv'
<1> USE DEF IInv
<1>1. dev' \in DeviceState /\ dev'.screen = dev.screen /\ dev'.req = dev.req
  BY DEF Poll, TypeOK, DeviceState
<1>2. calls' \in [Call -> HttpCall] /\ CallsOK'
  BY StaleCallIsOK DEF Poll
<1>3. TypeOK'
  BY <1>1, <1>2 DEF Poll, TypeOK, store, chain
<1>4. Made'
  BY DEF Poll, store, Made
<1>5. CallsOK'
  BY <1>2
<1>6. RanOK'
  BY DEF Poll, store, chain, RanOK, OnlyApprovedRuns
<1>7. ConfirmedRan'
  BY DEF Poll, store, chain, device, ConfirmedRan
<1>8. DeviceOK'
  BY <1>1 DEF Poll, DeviceOK, store
<1> QED BY <1>3, <1>4, <1>5, <1>6, <1>7, <1>8

LEMMA RefreshKeeps ==
  ASSUME IInv, NEW c \in Call, Refresh(c)
  PROVE IInv'
<1> USE DEF IInv
<1>1. calls' \in [Call -> HttpCall] /\ CallsOK'
  BY StaleCallIsOK DEF Refresh, device
<1>2. TypeOK'
  BY <1>1 DEF Refresh, TypeOK, store, chain, device
<1>3. Made'
  BY DEF Refresh, store, chain, device, Made
<1>4. CallsOK'
  BY <1>1
<1>5. RanOK'
  BY DEF Refresh, store, chain, device, RanOK, OnlyApprovedRuns
<1>6. ConfirmedRan'
  BY DEF Refresh, store, chain, device, ConfirmedRan
<1>7. DeviceOK'
  BY DEF Refresh, store, chain, device, DeviceOK
<1> QED BY <1>2, <1>3, <1>4, <1>5, <1>6, <1>7

LEMMA AskKeeps ==
  ASSUME IInv, NEW c \in Call, NEW w \in Wallet, Ask(c, w)
  PROVE IInv'
<1> USE DEF IInv
<1>1. calls' \in [Call -> HttpCall] /\ CallsOK'
  BY StaleCallIsOK DEF Ask, device
<1>2. TypeOK'
  BY <1>1 DEF Ask, TypeOK, store, chain, device
<1>3. Made'
  BY DEF Ask, store, chain, device, Made
<1>4. CallsOK'
  BY <1>1
<1>5. RanOK'
  BY DEF Ask, store, chain, device, RanOK, OnlyApprovedRuns
<1>6. ConfirmedRan'
  BY DEF Ask, store, chain, device, ConfirmedRan
<1>7. DeviceOK'
  BY DEF Ask, store, chain, device, DeviceOK
<1> QED BY <1>2, <1>3, <1>4, <1>5, <1>6, <1>7

LEMMA CancelKeeps ==
  ASSUME IInv, NEW c \in Call, NEW r \in Request, Cancel(c, r)
  PROVE IInv'
<1> USE DEF IInv
<1>1. r <= last
  BY DEF Cancel, StartReject, Made
<1>2. /\ calls' \in [Call -> HttpCall] /\ calls'[c] = [NoCall EXCEPT !.kind = "reject", !.at = "put", !.req = r]
      /\ \A d \in Call : d # c => calls'[d] = calls[d]
  BY RejectIsACall, StartsAt DEF Cancel, StartReject
<1>3. TypeOK'
  BY <1>2 DEF Cancel, TypeOK, store, chain, device
<1>4. Made'
  BY DEF Cancel, store, chain, device, Made
<1>5. CallsOK'
  BY <1>1, <1>2, RejectsAreOK DEF Cancel, store, chain, device
<1>6. RanOK'
  BY DEF Cancel, store, chain, device, RanOK, OnlyApprovedRuns
<1>7. ConfirmedRan'
  BY DEF Cancel, store, chain, device, ConfirmedRan
<1>8. DeviceOK'
  BY DEF Cancel, store, chain, device, DeviceOK
<1> QED BY <1>3, <1>4, <1>5, <1>6, <1>7, <1>8

LEMMA SignIsACall ==
  ASSUME NEW r \in Request
  PROVE Signature(r) \in HttpCall
BY DEF Signature, NoCall, HttpCall, Points

LEMMA ApproveKeeps ==
  ASSUME IInv, NEW c \in Call, Approve(c)
  PROVE IInv'
<1> USE DEF IInv
<1>1. /\ dev.req \in seen /\ dev.req <= last /\ dev.req \in Request /\ yes' = yes \cup {dev.req}
      /\ UNCHANGED <<status, body, last, pairing, tx, nonce, blockTime, now, seen, ran, faults>>
  BY DEF Approve, DeviceOK, TypeOK, store, chain
<1>2. Onward
  BY <1>1, StillIsOnward
<1>3. Made' /\ RanOK' /\ ConfirmedRan'
  BY <1>1 DEF Made, RanOK, OnlyApprovedRuns, ConfirmedRan
<1>4. CASE Start(c, Signature(dev.req))
           /\ dev' = [dev EXCEPT !.screen = "working", !.call = c]
  <2>1. /\ calls' \in [Call -> HttpCall]
        /\ calls'[c] = Signature(dev.req)
        /\ \A d \in Call : d # c => calls'[d] = calls[d]
    BY <1>1, <1>4, SignIsACall, StartsAt
  <2>2. /\ calls'[c].kind = "sign" /\ calls'[c].at \in {"late", "start"} /\ calls'[c].req = dev.req
        /\ calls'[c].todo = {}
    BY <2>1 DEF Signature, NoCall
  <2>3. tx[c].state = "sent" => tx[c].req \in yes
    BY DEF CallsOK, CallOK
  <2>4. CallOK(c)'
    BY <1>1, <2>2, <2>3 DEF CallOK
  <2>5. CallsOK'
    BY <1>1, <1>2, <2>1, <2>4, CallsKeep
  <2>6. dev' \in DeviceState /\ dev'.screen = "working"
    BY <1>4 DEF TypeOK, DeviceState
  <2>7. TypeOK' /\ DeviceOK'
    BY <1>1, <2>1, <2>6 DEF TypeOK, DeviceOK
  <2> QED BY <1>3, <2>5, <2>7
<1>5. CASE dev' = [dev EXCEPT !.screen = "home"] /\ UNCHANGED calls
  <2>1. CallsOK'
    BY <1>1, <1>2, <1>5, AllCallsKeep
  <2>2. dev' \in DeviceState /\ dev'.screen = "home"
    BY <1>5 DEF TypeOK, DeviceState
  <2>3. TypeOK' /\ DeviceOK'
    BY <1>1, <1>5, <2>2 DEF TypeOK, DeviceOK
  <2> QED BY <1>3, <2>1, <2>3
<1> QED BY <1>4, <1>5 DEF Approve

LEMMA DeclineKeeps ==
  ASSUME IInv, NEW c \in Call, Decline(c)
  PROVE IInv'
<1> USE DEF IInv
<1>1. /\ dev.req <= last /\ dev.req \in Request
      /\ UNCHANGED <<status, body, last, pairing, tx, nonce, blockTime, now, seen, yes, ran, faults>>
  BY DEF Decline, DeviceOK, TypeOK, store, chain
<1>2. Made' /\ RanOK' /\ ConfirmedRan'
  BY <1>1 DEF Made, RanOK, OnlyApprovedRuns, ConfirmedRan
<1>3. dev' \in DeviceState /\ dev'.screen = "home"
  BY DEF Decline, TypeOK, DeviceState
<1>4. calls' \in [Call -> HttpCall] /\ CallsOK'
  <2>1. CASE StartReject(c, dev.req)
    <3>1. /\ calls' \in [Call -> HttpCall]
          /\ calls'[c] = [NoCall EXCEPT !.kind = "reject", !.at = "put", !.req = dev.req]
          /\ \A d \in Call : d # c => calls'[d] = calls[d]
      BY <1>1, <2>1, RejectIsACall, StartsAt DEF StartReject
    <3> QED BY <1>1, <3>1, RejectsAreOK
  <2>2. CASE UNCHANGED calls
    BY <1>1, <2>2, AllCallsKeep, StillIsOnward DEF TypeOK
  <2> QED BY <2>1, <2>2 DEF Decline
<1>5. TypeOK' /\ DeviceOK'
  BY <1>1, <1>3, <1>4 DEF TypeOK, DeviceOK
<1> QED BY <1>2, <1>4, <1>5

\* A transaction that comes to its end leaves the calls as they are.
LEMMA SettledKeeps ==
  ASSUME IInv, NEW c \in Call, NEW s \in {"success", "reverted"}, tx[c].state = "sent", Settled(c, s),
         UNCHANGED <<store, calls, now, device, faults>>, ran \subseteq ran',
         s = "success" => tx[c].req \in ran'
  PROVE tx' \in [Call -> Transaction] /\ CallsOK'
<1> USE DEF IInv
<1>1. /\ tx' \in [Call -> Transaction] /\ tx'[c].state # "sent"
      /\ calls[c].at = "sent" => tx'[c].state = s /\ tx'[c].req = tx[c].req
      /\ \A d \in Call : d # c => tx'[d] = tx[d]
  <2>1. tx[c] \in Transaction /\ NoTx \in Transaction /\ NoTx.state = "none"
    BY NoCallIsACall DEF TypeOK, NoTx
  <2>2. [tx[c] EXCEPT !.state = s] \in Transaction
        /\ [tx[c] EXCEPT !.state = s].state = s /\ [tx[c] EXCEPT !.state = s].req = tx[c].req
    BY <2>1 DEF Transaction
  <2> QED BY <2>1, <2>2 DEF Settled, TypeOK
<1>2. CallOK(c)
  BY DEF CallsOK
<1>3. calls[c] \in HttpCall
  BY DEF TypeOK
<1>4. UNCHANGED <<status, body, last, calls, now, yes>>
  BY DEF store, device
<1>5. CallOK(c)'
  BY <1>1, <1>2, <1>3, <1>4 DEF CallOK
<1>6. Onward
  BY <1>4, StillIsOnward
<1> QED BY <1>1, <1>4, <1>5, <1>6, CallsKeep

LEMMA LandsKeeps ==
  ASSUME IInv, NEW c \in Call, Lands(c)
  PROVE IInv'
<1> USE DEF IInv
<1>1. /\ tx[c].state = "sent" /\ tx[c].req \in yes /\ tx[c].req <= last /\ tx[c].req \in Request
      /\ body[tx[c].req].wallet \in Wallet
  BY DEF Lands, CallsOK, CallOK, Made, TypeOK
<1> DEFINE r == tx[c].req
           w == body[r].wallet
<1>2. /\ UNCHANGED <<status, body, last, pairing, calls, blockTime, now, dev, seen, yes, faults>>
      /\ ran' = ran \cup {r} /\ nonce' = [nonce EXCEPT ![w] = @ + 1] /\ nonce[w] = body[r].nonce
  BY DEF Lands, store, device, Admissible
<1>3. tx' \in [Call -> Transaction] /\ CallsOK'
  BY <1>1, <1>2, SettledKeeps DEF Lands
<1>4. /\ nonce' \in [Wallet -> Nat] /\ nonce'[w] = nonce[w] + 1
      /\ \A v \in Wallet : v # w => nonce'[v] = nonce[v]
  BY <1>1, <1>2 DEF TypeOK
<1>5. TypeOK'
  BY <1>1, <1>2, <1>3, <1>4 DEF TypeOK
<1>6. Made' /\ ConfirmedRan' /\ DeviceOK'
  BY <1>2 DEF Made, ConfirmedRan, DeviceOK
<1>7. RanOK'
  <2>1. nonce[w] \in Nat /\ body[r].nonce < nonce'[w]
    BY <1>1, <1>2, <1>4 DEF TypeOK
  <2>2. ASSUME NEW q \in ran PROVE body[q].nonce < nonce'[body[q].wallet]
    <3>1. q \in Request /\ q <= last /\ body[q].nonce < nonce[body[q].wallet]
      BY DEF RanOK, OnlyApprovedRuns, Made, TypeOK
    <3>2. body[q].wallet \in Wallet /\ body[q].nonce \in Nat /\ nonce[body[q].wallet] \in Nat
      BY <3>1 DEF Made, TypeOK, Row
    <3> QED BY <1>4, <2>1, <3>1, <3>2
  <2> QED BY <1>1, <1>2, <2>1, <2>2 DEF RanOK, OnlyApprovedRuns
<1> QED BY <1>3, <1>5, <1>6, <1>7

LEMMA RevertsKeeps ==
  ASSUME IInv, NEW c \in Call, Reverts(c)
  PROVE IInv'
<1> USE DEF IInv
<1>1. tx' \in [Call -> Transaction] /\ CallsOK'
  BY SettledKeeps DEF Reverts
<1>2. UNCHANGED <<status, body, last, pairing, calls, nonce, blockTime, now, dev, seen, yes, ran, faults>>
  BY DEF Reverts, store, device
<1>3. TypeOK'
  BY <1>1, <1>2 DEF TypeOK
<1>4. Made' /\ RanOK' /\ ConfirmedRan' /\ DeviceOK'
  BY <1>2 DEF Made, RanOK, OnlyApprovedRuns, ConfirmedRan, DeviceOK
<1> QED BY <1>1, <1>3, <1>4

LEMMA OpenWalletKeeps ==
  ASSUME IInv, NEW w \in Wallet, OpenWallet(w)
  PROVE IInv'
<1> USE DEF IInv
<1>1. TypeOK'
  BY DEF OpenWallet, TypeOK, chain, device
<1>2. Made'
  BY DEF OpenWallet, Made, device
<1>3. CallsOK'
  BY AllCallsKeep, StillIsOnward DEF OpenWallet, chain, device
<1>4. RanOK'
  BY DEF OpenWallet, chain, device, RanOK, OnlyApprovedRuns
<1>5. ConfirmedRan'
  BY DEF OpenWallet, ConfirmedRan
<1>6. DeviceOK'
  BY DEF OpenWallet, DeviceOK, device
<1> QED BY <1>1, <1>2, <1>3, <1>4, <1>5, <1>6

LEMMA PasskeySendKeeps ==
  ASSUME IInv, NEW w \in Wallet, PasskeySend(w)
  PROVE IInv'
<1> USE DEF IInv
<1>1. nonce[w] \in Nat /\ nonce' = [nonce EXCEPT ![w] = @ + 1] /\ UNCHANGED <<store, calls, tx, blockTime, now, device, ran>>
      /\ faults' = faults \cup {"passkey"}
  BY DEF PasskeySend, TypeOK, Happens
<1>2. \A v \in Wallet : nonce'[v] \in Nat /\ nonce[v] \in Nat /\ nonce[v] <= nonce'[v]
  BY <1>1 DEF TypeOK
<1>3. TypeOK'
  BY <1>1 DEF TypeOK, store, device, Trouble
<1>4. Made'
  BY <1>1 DEF Made, store, device
<1>5. CallsOK'
  BY <1>1, AllCallsKeep, StillIsOnward DEF store, device
<1>6. RanOK'
  <2>1. ASSUME NEW r \in ran PROVE body[r].nonce < nonce'[body[r].wallet]
    <3>1. /\ body[r].wallet \in Wallet /\ body[r].nonce \in Nat
          /\ body[r].nonce < nonce[body[r].wallet]
      BY DEF RanOK, OnlyApprovedRuns, Made, TypeOK, Row
    <3> QED BY <1>2, <3>1
  <2> QED BY <1>1, <2>1 DEF RanOK, OnlyApprovedRuns, store, device
<1>7. ConfirmedRan'
  BY <1>1 DEF ConfirmedRan, store
<1>8. DeviceOK'
  BY <1>1 DEF DeviceOK, store, device
<1> QED BY <1>3, <1>4, <1>5, <1>6, <1>7, <1>8

LEMMA TickKeeps ==
  ASSUME IInv, Tick
  PROVE IInv'
<1> USE DEF IInv
<1>1. now' \in Nat /\ UNCHANGED <<store, calls, chain, device, ran, faults>>
  BY QueueAssumption DEF Tick, QueueAssumption
<1>2. TypeOK'
  BY <1>1 DEF TypeOK, store, chain, device
<1>3. CallsOK'
  BY <1>1, AllCallsKeep, StillIsOnward DEF store, chain, device
<1>4. Made' /\ RanOK' /\ ConfirmedRan' /\ DeviceOK'
  BY <1>1 DEF Made, RanOK, OnlyApprovedRuns, ConfirmedRan, DeviceOK, store, chain, device
<1> QED BY <1>2, <1>3, <1>4

LEMMA NextBlockKeeps ==
  ASSUME IInv, NextBlock
  PROVE IInv'
<1> USE DEF IInv
<1>1. blockTime' \in Nat /\ UNCHANGED <<store, calls, tx, nonce, now, device, ran, faults>>
  BY QueueAssumption DEF NextBlock, QueueAssumption
<1>2. TypeOK'
  BY <1>1 DEF TypeOK, store, device
<1>3. CallsOK'
  BY <1>1, AllCallsKeep, StillIsOnward DEF store, device
<1>4. Made' /\ RanOK' /\ ConfirmedRan' /\ DeviceOK'
  BY <1>1 DEF Made, RanOK, OnlyApprovedRuns, ConfirmedRan, DeviceOK, store, device
<1> QED BY <1>2, <1>3, <1>4

LEMMA PostLostKeeps ==
  ASSUME IInv, PostLost
  PROVE IInv'
<1> USE DEF IInv
<1>1. /\ dev.req \in seen /\ dev.req <= last /\ dev.req \in Request
      /\ yes' = yes \/ yes' = yes \cup {dev.req}
      /\ faults' = faults \cup {"lost"}
      /\ UNCHANGED <<status, body, last, pairing, calls, tx, nonce, blockTime, now, seen, ran>>
  BY DEF PostLost, DeviceOK, TypeOK, store, chain, Happens
<1>2. Made' /\ RanOK' /\ ConfirmedRan'
  BY <1>1 DEF Made, RanOK, OnlyApprovedRuns, ConfirmedRan
<1>3. CallsOK'
  BY <1>1, AllCallsKeep, StillIsOnward
<1>4. dev' \in DeviceState /\ dev'.screen = "home"
  BY DEF PostLost, TypeOK, DeviceState
<1>5. TypeOK' /\ DeviceOK'
  BY <1>1, <1>4 DEF TypeOK, DeviceOK, Trouble
<1> QED BY <1>2, <1>3, <1>5

LEMMA DeviceTimeoutKeeps ==
  ASSUME IInv, DeviceTimeout
  PROVE IInv'
<1> USE DEF IInv
<1>1. dev' \in DeviceState /\ dev'.screen = "home" /\ faults' = faults \cup {"timeout"}
  BY DEF DeviceTimeout, TypeOK, DeviceState, Happens
<1>2. TypeOK'
  BY <1>1 DEF DeviceTimeout, TypeOK, store, chain, Trouble
<1>3. Made'
  BY DEF DeviceTimeout, store, Made
<1>4. CallsOK'
  BY AllCallsKeep, StillIsOnward DEF DeviceTimeout, store, chain
<1>5. RanOK'
  BY DEF DeviceTimeout, store, chain, RanOK, OnlyApprovedRuns
<1>6. ConfirmedRan'
  BY DEF DeviceTimeout, store, chain, device, ConfirmedRan
<1>7. DeviceOK'
  BY <1>1 DEF DeviceTimeout, DeviceOK, store
<1> QED BY <1>2, <1>3, <1>4, <1>5, <1>6, <1>7

LEMMA RebootKeeps ==
  ASSUME IInv, Reboot
  PROVE IInv'
<1> USE DEF IInv
<1>1. dev' \in DeviceState /\ dev'.screen = "home" /\ faults' = faults \cup {"restart"}
  BY NoCallIsACall DEF Reboot, Booted, Happens
<1>2. TypeOK'
  BY <1>1 DEF Reboot, TypeOK, store, chain, Trouble
<1>3. Made'
  BY DEF Reboot, store, Made
<1>4. CallsOK'
  BY AllCallsKeep, StillIsOnward DEF Reboot, store, chain
<1>5. RanOK'
  BY DEF Reboot, store, chain, RanOK, OnlyApprovedRuns
<1>6. ConfirmedRan'
  BY DEF Reboot, store, chain, device, ConfirmedRan
<1>7. DeviceOK'
  BY <1>1 DEF Reboot, DeviceOK, store
<1> QED BY <1>2, <1>3, <1>4, <1>5, <1>6, <1>7

-----------------------------------------------------------------------------
LEMMA StutterKeeps ==
  ASSUME IInv, UNCHANGED vars
  PROVE IInv'
<1> USE DEF IInv
<1>1. UNCHANGED <<status, body, last, pairing, calls, tx, nonce, blockTime, now, dev, seen, yes, ran, faults>>
  BY DEF vars, store, chain, device
<1>2. CallsOK'
  BY <1>1, AllCallsKeep, StillIsOnward
<1>3. TypeOK' /\ Made' /\ RanOK' /\ ConfirmedRan' /\ DeviceOK'
  BY <1>1 DEF TypeOK, Made, RanOK, OnlyApprovedRuns, ConfirmedRan, DeviceOK
<1> QED BY <1>2, <1>3

LEMMA StepsKeep ==
  IInv /\ [Next]_vars => IInv'
<1> SUFFICES ASSUME IInv, [Next]_vars PROVE IInv'
  OBVIOUS
<1>1. ASSUME NEW c \in Call, Handler(c) PROVE IInv'
  BY <1>1, ExpireOneKeeps, ListKeeps, ShowKeeps, RefuseKeeps, NothingKeeps, CountInFlightKeeps, PickNonceKeeps,
     AddRequestKeeps, VerifyKeeps, MarkRelayingKeeps, RelayKeeps, RelayThrowsKeeps, ReceiptKeeps,
     FailThisKeeps, ReadLaterKeeps, FailLaterKeeps, RejectKeeps DEF Handler
<1>2. CASE Device
  BY <1>2, AnnounceKeeps, PollKeeps, ApproveKeeps, DeclineKeeps DEF Device
<1>3. CASE Page
  BY <1>3, RefreshKeeps, AskKeeps, CancelKeeps DEF Page
<1>4. CASE World
  BY <1>4, LandsKeeps, RevertsKeeps, CrashKeeps, OpenWalletKeeps, PasskeySendKeeps, TickKeeps, NextBlockKeeps,
     PostLostKeeps, DeviceTimeoutKeeps, RebootKeeps DEF World
<1>5. CASE UNCHANGED vars
  BY <1>5, StutterKeeps
<1> QED BY <1>1, <1>2, <1>3, <1>4, <1>5 DEF Next

THEOREM QueueInvariant ==
  Spec => []IInv
BY Begins, StepsKeep, PTL DEF Spec

\* Every variable keeps its type.
THEOREM QueueTyped ==
  Spec => []TypeOK
<1>1. IInv => TypeOK
  BY DEF IInv
<1> QED BY <1>1, QueueInvariant, PTL

\* What the page calls confirmed was carried out on the chain.
THEOREM ConfirmedWasCarriedOut ==
  Spec => []ConfirmedRan
<1>1. IInv => ConfirmedRan
  BY DEF IInv
<1> QED BY <1>1, QueueInvariant, PTL

\* What is carried out was approved on the device.
THEOREM CarriedOutWasApproved ==
  Spec => []OnlyApprovedRuns
<1>1. IInv => OnlyApprovedRuns
  BY DEF IInv, RanOK
<1> QED BY <1>1, QueueInvariant, PTL

\* Only a landing carries a request out.
LEMMA OnlyLandingsRun ==
  ASSUME [Next]_vars, ran' # ran
  PROVE \E c \in Call : Lands(c)
<1>1. ASSUME NEW c \in Call, Handler(c) PROVE ran' = ran
  BY <1>1 DEF Handler, ExpireOne, List, Show, Refuse, Nothing, CountInFlight, PickNonce, AddRequest,
     Verify, MarkRelaying, Relay, RelayThrows, Receipt, FailThis, ReadLater, FailLater, Reject
<1>2. Device => ran' = ran
  BY DEF Device, Announce, Poll, Approve, Decline
<1>3. Page => ran' = ran
  BY DEF Page, Refresh, Ask, Cancel
<1>4. World => ran' = ran \/ \E c \in Call : Lands(c)
  BY DEF World, Reverts, Crash, OpenWallet, PasskeySend, Tick, NextBlock, PostLost, DeviceTimeout, Reboot
<1> QED BY <1>1, <1>2, <1>3, <1>4 DEF Next, vars

\* A signature is taken up only for a request that is pending just then.
LEMMA OnlyPendingTakenUp ==
  ASSUME IInv, [Next]_vars, NEW d \in Call, calls'[d].kind = "sign"
  PROVE \/ calls[d].kind = "sign" /\ calls'[d].req = calls[d].req
        \/ status[calls'[d].req] = "pending"
<1> USE DEF IInv
<1> DEFINE Same(c) == calls[c].kind = "sign" /\ calls'[c].req = calls[c].req
<1> SUFFICES ASSUME ~Same(d), status[calls'[d].req] # "pending" PROVE FALSE
  OBVIOUS
<1>1. calls'[d] # calls[d]
  OBVIOUS
<1>2. ASSUME NEW c \in Call, Answer(c) PROVE FALSE
  BY <1>1, <1>2, AnswerEnds DEF NoCall
<1>3. ASSUME NEW c \in Call, NEW p \in Points, Goes(c, p) PROVE FALSE
  BY <1>1, <1>3, GoesOn
<1>4. ASSUME NEW c \in Call, NEW call, calls' = [calls EXCEPT ![c] = call],
             \/ call.kind \in {"none", "create", "list", "reject"}
             \/ call.kind = calls[c].kind /\ call.req = calls[c].req
      PROVE FALSE
  BY <1>1, <1>4 DEF TypeOK
<1>5. NoCall.kind = "none" /\ \A r : [NoCall EXCEPT !.kind = "reject", !.at = "put", !.req = r].kind = "reject"
  BY DEF NoCall
<1>6. ASSUME NEW c \in Call, NEW kind \in {"create", "list"}, NEW w, StartStale(c, kind, w) PROVE FALSE
  <2> DEFINE call == [NoCall EXCEPT !.kind = kind, !.wallet = w, !.todo = Stale, !.at = AfterStale(kind, Stale)]
  <2>1. call.kind = kind /\ calls' = [calls EXCEPT ![c] = call]
    BY <1>6 DEF StartStale, Start, NoCall
  <2> QED BY <1>4, <2>1
<1>7. ASSUME NEW c \in Call, NEW r, StartReject(c, r) PROVE FALSE
  BY <1>4, <1>5, <1>7 DEF StartReject, Start
<1>8. ASSUME NEW c \in Call, Handler(c) PROVE FALSE
  <2>0. calls[c] \in HttpCall
    BY DEF TypeOK
  <2>1. CASE ExpireOne(c)
    <3> DEFINE next(r) == [calls[c] EXCEPT !.at = AfterStale(calls[c].kind, calls[c].todo \ {r}),
                                          !.todo = calls[c].todo \ {r}]
    <3>1. PICK r \in calls[c].todo : calls' = [calls EXCEPT ![c] = NoCall] \/ calls' = [calls EXCEPT ![c] = next(r)]
      BY <2>1 DEF ExpireOne
    <3>2. next(r).kind = calls[c].kind /\ next(r).req = calls[c].req
      BY <2>0 DEF HttpCall
    <3> QED BY <1>4, <1>5, <3>1, <3>2
  <2>2. CASE CountInFlight(c)
    <3> DEFINE next == [calls[c] EXCEPT !.at = "nonce", !.n = Cardinality(InFlight(calls[c].wallet))]
    <3>1. next.kind = calls[c].kind /\ next.req = calls[c].req
      BY <2>0 DEF HttpCall
    <3>2. calls' = [calls EXCEPT ![c] = next]
      BY <2>2 DEF CountInFlight, TypeOK
    <3> QED BY <1>4, <3>1, <3>2
  <2>3. CASE PickNonce(c)
    <3> DEFINE next == [calls[c] EXCEPT !.at = "put", !.n = nonce[calls[c].wallet] + calls[c].n, !.due = now + TTL]
    <3>1. next.kind = calls[c].kind /\ next.req = calls[c].req
      BY <2>0 DEF HttpCall
    <3>2. calls' = [calls EXCEPT ![c] = next]
      BY <2>3 DEF PickNonce, TypeOK
    <3> QED BY <1>4, <3>1, <3>2
  <2>4. CASE List(c) \/ Show(c)
    BY <1>4, <1>5, <2>4 DEF List, Show
  <2>5. CASE Refuse(c)
    BY <1>4, <1>5, <2>5 DEF Refuse
  <2>6. CASE Nothing(c) \/ AddRequest(c) \/ Receipt(c) \/ Reject(c)
    BY <1>2, <2>6 DEF Nothing, AddRequest, Receipt, Reject
  <2>7. CASE Verify(c) \/ MarkRelaying(c) \/ Relay(c) \/ RelayThrows(c) \/ FailThis(c)
    BY <1>2, <1>3, <2>7 DEF Verify, MarkRelaying, Relay, RelayThrows, FailThis, Keep, Points
  <2>8. CASE ReadLater(c)
    <3> DEFINE next == [calls[c] EXCEPT !.at = "behind", !.todo = LaterThan(calls[c].req)]
    <3>1. next.kind = calls[c].kind /\ next.req = calls[c].req
      BY <2>0 DEF HttpCall
    <3>2. Answer(c) \/ calls' = [calls EXCEPT ![c] = next]
      BY <2>8 DEF ReadLater
    <3> QED BY <1>2, <1>4, <3>1, <3>2
  <2>9. CASE FailLater(c)
    <3> DEFINE next(r) == [calls[c] EXCEPT !.todo = calls[c].todo \ {r}]
    <3>1. PICK r \in calls[c].todo : Answer(c) \/ calls' = [calls EXCEPT ![c] = next(r)]
      BY <2>9 DEF FailLater
    <3>2. next(r).kind = calls[c].kind /\ next(r).req = calls[c].req
      BY <2>0 DEF HttpCall
    <3> QED BY <1>2, <1>4, <3>1, <3>2
  <2> QED BY <1>8, <2>1, <2>2, <2>3, <2>4, <2>5, <2>6, <2>7, <2>8, <2>9 DEF Handler
<1>9. ASSUME NEW c \in Call, Approve(c) PROVE FALSE
  <2>1. status[dev.req] = "pending" /\ calls' = [calls EXCEPT ![c] = Signature(dev.req)]
    BY <1>1, <1>9 DEF Approve, Start
  <2>2. calls'[d] = Signature(dev.req) /\ Signature(dev.req).req = dev.req
    BY <1>1, <2>1 DEF TypeOK, Signature, NoCall
  <2> QED BY <2>1, <2>2
<1>10. CASE Device
  BY <1>1, <1>6, <1>7, <1>9, <1>10 DEF Device, Announce, Poll, Decline
<1>11. CASE Page
  BY <1>6, <1>7, <1>11 DEF Page, Refresh, Ask, Cancel
<1>12. CASE World
  BY <1>1, <1>2, <1>12 DEF World, Lands, Reverts, Crash, OpenWallet, PasskeySend, Tick, NextBlock,
     PostLost, DeviceTimeout, Reboot
<1>13. CASE UNCHANGED vars
  BY <1>1, <1>13 DEF vars
<1> QED BY <1>8, <1>10, <1>11, <1>12, <1>13 DEF Next

\* A transaction is sent only by the call that has the signature.
LEMMA OnlySignersSend ==
  ASSUME IInv, [Next]_vars, NEW d \in Call, tx'[d].state = "sent"
  PROVE \/ tx[d].state = "sent" /\ tx'[d].req = tx[d].req
        \/ calls[d].kind = "sign" /\ tx'[d].req = calls[d].req
<1> USE DEF IInv
<1> SUFFICES ASSUME tx' # tx PROVE \/ tx[d].state = "sent" /\ tx'[d].req = tx[d].req
                                   \/ calls[d].kind = "sign" /\ tx'[d].req = calls[d].req
  OBVIOUS
<1>1. ASSUME NEW c \in Call, Handler(c), ~Relay(c), ~Receipt(c) PROVE FALSE
  BY <1>1 DEF Handler, ExpireOne, List, Show, Refuse, Nothing, CountInFlight, PickNonce, AddRequest,
     Verify, MarkRelaying, RelayThrows, FailThis, ReadLater, FailLater, Reject, chain
<1>2. ~Device
  BY DEF Device, Announce, Poll, Approve, Decline, chain
<1>3. ~Page
  BY DEF Page, Refresh, Ask, Cancel, chain
<1>4. World => \E c \in Call : Lands(c) \/ Reverts(c)
  BY DEF World, Crash, OpenWallet, PasskeySend, Tick, NextBlock, PostLost, DeviceTimeout, Reboot, chain
<1>5. ASSUME NEW c \in Call, Relay(c) PROVE tx'[d] = tx[d] \/ (calls[d].kind = "sign" /\ tx'[d].req = calls[d].req)
  BY <1>5 DEF Relay, At, TypeOK
<1>6. ASSUME NEW c \in Call, Receipt(c) PROVE tx'[d] = tx[d]
  BY <1>6 DEF Receipt, NoTx, TypeOK
<1>7. ASSUME NEW c \in Call, NEW s \in {"success", "reverted"}, Settled(c, s) PROVE tx'[d] = tx[d]
  BY <1>7 DEF Settled, NoTx, TypeOK, Transaction
<1> QED BY <1>1, <1>2, <1>3, <1>4, <1>5, <1>6, <1>7 DEF Next, Lands, Reverts, vars, chain

\* Only a new request, or one with a signature on its way, gets a status that is no end.
LEMMA OverIsNotUndone ==
  ASSUME IInv, [Next]_vars, NEW r \in Request, Over(r)
  PROVE status'[r] \in {"expired", "rejected", "failed"}
<1> USE DEF IInv
<1> DEFINE End == {"expired", "rejected", "failed"}
<1>1. status[r] \in End /\ \A c \in Call : calls[c].kind = "sign" => calls[c].req # r
  BY DEF Over, Unsent
<1>2. ASSUME NEW q, NEW s, Patch(q, s), q # r \/ s \in End PROVE status'[r] \in End
  BY <1>1, <1>2 DEF Patch, TypeOK
<1>3. ASSUME NEW c \in Call, Handler(c) PROVE status'[r] \in End
  <2>1. CASE ExpireOne(c)
    BY <1>2, <2>1 DEF ExpireOne
  <2>2. CASE AddRequest(c)
    <3>1. r <= last /\ last \in Nat
      BY <1>1, Numbers DEF Made, TypeOK
    <3>2. last' = last + 1 /\ Patch(last', "pending")
      BY <2>2 DEF AddRequest
    <3> QED BY <1>2, <3>1, <3>2, Numbers
  <2>3. CASE Verify(c) \/ MarkRelaying(c) \/ FailThis(c)
    BY <1>1, <1>2, <2>3 DEF Verify, MarkRelaying, FailThis, At
  <2>4. CASE Receipt(c)
    BY <1>1, <1>2, <2>4 DEF Receipt, CallsOK, CallOK
  <2>5. CASE FailLater(c) \/ Reject(c)
    BY <1>2, <2>5 DEF FailLater, Reject
  <2>6. ASSUME ~ExpireOne(c), ~AddRequest(c), ~Verify(c), ~MarkRelaying(c), ~FailThis(c), ~Receipt(c),
               ~FailLater(c), ~Reject(c)
        PROVE status' = status
    BY <1>3, <2>6 DEF Handler, List, Show, Refuse, Nothing, CountInFlight, PickNonce, Relay, RelayThrows,
       ReadLater, store
  <2> QED BY <1>1, <2>1, <2>2, <2>3, <2>4, <2>5, <2>6
<1>4. Device => status' = status
  BY DEF Device, Announce, Poll, Approve, Decline, store
<1>5. Page => status' = status
  BY DEF Page, Refresh, Ask, Cancel, store
<1>6. World => status' = status
  BY DEF World, Lands, Reverts, Crash, OpenWallet, PasskeySend, Tick, NextBlock, PostLost, DeviceTimeout,
     Reboot, store
<1> QED BY <1>1, <1>3, <1>4, <1>5, <1>6 DEF Next, vars, store

LEMMA OverIsKept ==
  ASSUME IInv, [Next]_vars, NEW r \in Request, Over(r)
  PROVE Over(r)' /\ (r \in ran' => r \in ran)
<1>1. Unsent(r) /\ status[r] # "pending"
  BY DEF Over
<1>2. status'[r] \in {"expired", "rejected", "failed"}
  BY OverIsNotUndone
<1>3. ASSUME NEW c \in Call PROVE /\ calls'[c].kind = "sign" => calls'[c].req # r
                                  /\ tx'[c].state = "sent" => tx'[c].req # r
  BY <1>1, OnlyPendingTakenUp, OnlySignersSend DEF Unsent
<1>4. ASSUME r \in ran', r \notin ran PROVE FALSE
  <2>1. PICK c \in Call : Lands(c)
    BY <1>4, OnlyLandingsRun
  <2>2. r = tx[c].req /\ tx[c].state = "sent"
    BY <1>4, <2>1 DEF Lands
  <2> QED BY <1>1, <2>2 DEF Unsent
<1> QED BY <1>2, <1>3, <1>4 DEF Over, Unsent

\* A request called expired, rejected or failed that nobody is sending is not taken up
\* again and never carried out, whatever the servers' clock and the blocks' say.
THEOREM OverIsOver ==
  Spec => OverStaysOver
<1>1. IInv /\ [Next]_vars => [\A r \in Request : Over(r) => Over(r)' /\ (r \in ran' => r \in ran)]_vars
  BY OverIsKept
<1> QED BY <1>1, QueueInvariant, PTL DEF Spec, OverStaysOver

\* Only a fresh request goes to the screen.
LEMMA OnlyFreshShown ==
  ASSUME [Next]_vars, dev'.screen = "confirm", dev.screen # "confirm", dev \in DeviceState, IInv
  PROVE dev'.req \notin seen
<1>1. ASSUME NEW c \in Call, Answer(c) PROVE FALSE
  BY <1>1, AnswerEnds DEF IInv
<1>2. ASSUME NEW c \in Call, Handler(c) PROVE Show(c)
  BY <1>1, <1>2 DEF Handler, ExpireOne, List, Refuse, Nothing, CountInFlight, PickNonce, AddRequest,
     Verify, MarkRelaying, Relay, RelayThrows, Receipt, FailThis, ReadLater, FailLater, Reject, Keep, device
<1>3. ASSUME NEW c \in Call, Show(c) PROVE dev'.req \notin seen
  BY <1>3 DEF Show, Fresh, Oldest, DeviceState
<1>4. ~Device
  BY DEF Device, Announce, Poll, Approve, Decline, DeviceState
<1>5. ~Page
  BY DEF Page, Refresh, Ask, Cancel, device
<1>6. ~World
  <2>1. ASSUME NEW c \in Call, Lands(c) \/ Reverts(c) \/ Crash(c) PROVE FALSE
    BY <1>1, <2>1 DEF Lands, Reverts, Crash, device
  <2>2. ASSUME NEW w \in Wallet, OpenWallet(w) \/ PasskeySend(w) PROVE FALSE
    BY <2>2 DEF OpenWallet, PasskeySend, device
  <2>3. ~PostLost /\ ~DeviceTimeout
    BY DEF PostLost, DeviceTimeout, DeviceState
  <2>4. ~Tick /\ ~NextBlock /\ ~Reboot
    BY DEF Tick, NextBlock, Reboot, Booted, device
  <2> QED BY <2>1, <2>2, <2>3, <2>4 DEF World
<1>7. dev' # dev
  OBVIOUS
<1> QED BY <1>2, <1>3, <1>4, <1>5, <1>6, <1>7 DEF Next, vars, device

\* Until it restarts, the device never asks again for what was approved on it.
THEOREM ApprovedIsShownOnce ==
  Spec => ShownOnce
<1>1. ASSUME IInv, [Next]_vars, NEW r \in yes, dev'.screen = "confirm", dev'.req = r, dev.screen # "confirm"
      PROVE "restart" \in faults
  <2>1. dev \in DeviceState
    BY <1>1 DEF IInv, TypeOK
  <2>2. r \notin seen
    BY <1>1, <2>1, OnlyFreshShown
  <2> QED BY <1>1, <2>2 DEF IInv, DeviceOK
<1>2. IInv /\ [Next]_vars =>
        [\A r \in yes :
           dev'.screen = "confirm" /\ dev'.req = r /\ dev.screen # "confirm" => "restart" \in faults]_vars
  BY <1>1
<1> QED BY <1>2, QueueInvariant, PTL DEF Spec, ShownOnce

-----------------------------------------------------------------------------
(***************************************************************************)
(* The refinement.                                                         *)
(***************************************************************************)
FateNow == [r \in Request |-> Fate(r)]
MadeNow == [r \in Request |-> [wallet |-> body[r].wallet, nonce |-> body[r].nonce]]

LEMMA LedgerBegins ==
  Init => Ledger!Init
<1> SUFFICES ASSUME Init PROVE Ledger!Init
  OBVIOUS
<1>1. \A r \in Request : Fate(r) = "unasked"
  BY Numbers DEF Init, Fate, Request
<1> QED BY <1>1 DEF Init, Ledger!Init

\* A step that leaves the chain and the approvals alone and makes no request.
LEMMA QuietSteps ==
  ASSUME IInv, UNCHANGED <<last, body, nonce, yes, ran>>
  PROVE UNCHANGED Ledger!ledger
<1>1. \A r \in Request : Fate(r)' = Fate(r)
  BY DEF Fate
<1> QED BY <1>1 DEF Ledger!ledger

LEMMA AddRequestAsks ==
  ASSUME IInv, NEW c \in Call, AddRequest(c)
  PROVE Ledger!Next
<1>1. IInv'
  BY AddRequestKeeps
<1>2. last \in Nat /\ last' = last + 1 /\ last' \in Request /\ UNCHANGED <<nonce, yes, ran>>
  BY Numbers DEF AddRequest, IInv, TypeOK, chain
<1>3. last' \notin yes /\ last' \notin ran
  BY <1>2 DEF IInv, Made, RanOK, OnlyApprovedRuns
<1>4. Fate(last') = "unasked" /\ FateNow' = [FateNow EXCEPT ![last'] = "asked"]
  <2>1. Fate(last') = "unasked"
    BY <1>2, <1>3 DEF Fate
  <2>2. ASSUME NEW r \in Request PROVE Fate(r)' = IF r = last' THEN "asked" ELSE Fate(r)
    <3>1. r <= last' <=> (r <= last \/ r = last')
      BY <1>2, Numbers
    <3> QED BY <1>2, <1>3, <3>1 DEF Fate
  <2> QED BY <1>2, <2>1, <2>2 DEF FateNow
<1>5. MadeNow'[last'] \in [wallet : Wallet, nonce : Nat] /\ MadeNow' = [MadeNow EXCEPT ![last'] = MadeNow'[last']]
  <2>1. body'[last'] \in Row /\ body'[last'].wallet \in Wallet
    <3>1. body' \in [Request -> Row] /\ last' <= last' /\ (\A r \in Request : r <= last' => body'[r].wallet \in Wallet)
      BY <1>1, <1>2 DEF IInv, TypeOK, Made
    <3> QED BY <1>2, <3>1
  <2>2. \A r \in Request : r # last' => body'[r] = body[r]
    BY <1>2 DEF AddRequest, IInv, TypeOK
  <2> QED BY <1>2, <2>1, <2>2 DEF MadeNow, Row
<1>6. PICK new \in Request : new = last'
  BY <1>2
<1>7. Ledger!Ask(new)
  BY <1>2, <1>4, <1>5, <1>6 DEF Ledger!Ask, FateNow, MadeNow
<1> QED BY <1>7 DEF Ledger!Next

LEMMA ApprovesOrNothing ==
  ASSUME IInv, NEW r \in Request, r <= last, yes' = yes \cup {r}, UNCHANGED <<last, body, nonce, ran>>
  PROVE Ledger!Next \/ UNCHANGED Ledger!ledger
<1>1. CASE r \in yes
  <2>1. yes' = yes
    BY <1>1
  <2> QED BY <2>1, QuietSteps
<1>2. CASE r \notin yes
  <2>1. r \notin ran
    BY <1>2 DEF IInv, RanOK, OnlyApprovedRuns
  <2>2. Fate(r) = "asked"
    BY <1>2, <2>1 DEF Fate
  <2>3. \A q \in Request : Fate(q)' = IF q = r THEN "approved" ELSE Fate(q)
    BY <1>2, <2>1 DEF Fate
  <2>4. FateNow' = [FateNow EXCEPT ![r] = "approved"] /\ FateNow[r] = "asked" /\ UNCHANGED MadeNow
    BY <2>2, <2>3 DEF FateNow, MadeNow
  <2>5. Ledger!Approve(r)
    BY <2>4 DEF Ledger!Approve, FateNow, MadeNow
  <2> QED BY <2>5 DEF Ledger!Next
<1> QED BY <1>1, <1>2

LEMMA LandsCarriesOut ==
  ASSUME IInv, NEW c \in Call, Lands(c)
  PROVE Ledger!Next
<1> DEFINE r == tx[c].req
           w == body[r].wallet
<1>1. r \in Request /\ r \in yes /\ nonce[w] = body[r].nonce /\ w \in Wallet
  BY DEF Lands, Admissible, IInv, CallsOK, CallOK, Made, TypeOK
<1>2. /\ ran' = ran \cup {r} /\ nonce' = [nonce EXCEPT ![w] = @ + 1]
      /\ UNCHANGED <<last, body, yes>>
  BY DEF Lands, store, device
<1>3. r \notin ran
  <2>1. nonce[w] \in Nat
    BY <1>1 DEF IInv, TypeOK
  <2>2. r \in ran => body[r].nonce < nonce[w]
    BY DEF IInv, RanOK
  <2> QED BY <1>1, <2>1, <2>2
<1>4. FateNow[r] = "approved" /\ FateNow' = [FateNow EXCEPT ![r] = "done"] /\ UNCHANGED MadeNow
  <2>1. Fate(r) = "approved"
    BY <1>1, <1>3 DEF Fate
  <2>2. \A q \in Request : Fate(q)' = IF q = r THEN "done" ELSE Fate(q)
    BY <1>2 DEF Fate
  <2> QED BY <1>1, <1>2, <2>1, <2>2 DEF FateNow, MadeNow
<1>5. MadeNow[r].wallet = w /\ MadeNow[r].nonce = body[r].nonce
  BY <1>1 DEF MadeNow
<1>6. Ledger!CarryOut(r)
  BY <1>1, <1>2, <1>4, <1>5 DEF Ledger!CarryOut, FateNow, MadeNow
<1> QED BY <1>1, <1>6 DEF Ledger!Next

LEMMA QueueSteps ==
  IInv /\ [Next]_vars => [Ledger!Next]_(Ledger!ledger)
<1> SUFFICES ASSUME IInv, [Next]_vars PROVE Ledger!Next \/ UNCHANGED Ledger!ledger
  OBVIOUS
<1>1. ASSUME NEW c \in Call, Handler(c) PROVE Ledger!Next \/ UNCHANGED Ledger!ledger
  <2>1. CASE AddRequest(c)
    BY <2>1, AddRequestAsks
  <2>2. CASE ~AddRequest(c)
    <3>1. UNCHANGED <<last, body, nonce, yes, ran>>
      BY <1>1, <2>2 DEF Handler, ExpireOne, List, Show, Refuse, Nothing, CountInFlight, PickNonce,
         Verify, MarkRelaying, Relay, RelayThrows, Receipt, FailThis, ReadLater, FailLater, Reject, store, chain, device
    <3> QED BY <3>1, QuietSteps
  <2> QED BY <2>1, <2>2
<1>2. ASSUME NEW c \in Call, Approve(c) PROVE Ledger!Next \/ UNCHANGED Ledger!ledger
  <2>1. dev.req \in Request /\ dev.req <= last
    BY <1>2 DEF Approve, IInv, DeviceOK, TypeOK
  <2> QED BY <1>2, <2>1, ApprovesOrNothing DEF Approve, store, chain
<1>3. CASE PostLost
  <2>1. dev.req \in Request /\ dev.req <= last
    BY <1>3 DEF PostLost, IInv, DeviceOK, TypeOK
  <2>2. UNCHANGED <<last, body, nonce, ran>> /\ (yes' = yes \/ yes' = yes \cup {dev.req})
    BY <1>3 DEF PostLost, store, chain
  <2> QED BY <2>1, <2>2, ApprovesOrNothing, QuietSteps
<1>4. ASSUME NEW c \in Call, Lands(c) PROVE Ledger!Next
  BY <1>4, LandsCarriesOut
<1>5. ASSUME NEW w \in Wallet, PasskeySend(w) PROVE Ledger!Next
  <2>1. UNCHANGED <<last, body, yes, ran>> /\ nonce' = [nonce EXCEPT ![w] = @ + 1]
    BY <1>5 DEF PasskeySend, store, device
  <2>2. \A r \in Request : Fate(r)' = Fate(r)
    BY <2>1 DEF Fate
  <2>3. Ledger!OtherKey(w)
    BY <2>1, <2>2 DEF Ledger!OtherKey
  <2> QED BY <2>3 DEF Ledger!Next
<1>6. ASSUME Device, \A c \in Call : ~Approve(c) PROVE UNCHANGED <<last, body, nonce, yes, ran>>
  BY <1>6 DEF Device, Announce, Poll, Decline, store, chain
<1>7. ASSUME Page PROVE UNCHANGED <<last, body, nonce, yes, ran>>
  BY <1>7 DEF Page, Refresh, Ask, Cancel, store, chain, device
<1>8. ASSUME World, ~PostLost, \A c \in Call : ~Lands(c), \A w \in Wallet : ~PasskeySend(w)
      PROVE UNCHANGED <<last, body, nonce, yes, ran>>
  BY <1>8 DEF World, Reverts, Crash, OpenWallet, Tick, NextBlock, DeviceTimeout, Reboot, store, chain, device
<1>9. UNCHANGED vars => UNCHANGED <<last, body, nonce, yes, ran>>
  BY DEF vars, store, chain, device
<1> QED BY <1>1, <1>2, <1>3, <1>4, <1>5, <1>6, <1>7, <1>8, <1>9, QuietSteps DEF Next

\* The queue carries out only what was approved, once, under the nonce it was made for.
THEOREM QueueImplementsLedger ==
  Spec => ImplementsLedger
BY LedgerBegins, QueueSteps, QueueInvariant, PTL DEF Spec, ImplementsLedger, Ledger!Spec

=============================================================================
