----------------------------- MODULE DropsProofs -----------------------------
(***************************************************************************)
(* Proofs about Drops, for any requests, holds and cap.                    *)
(*                                                                         *)
(* A hold belongs to one request and the count is the places taken,        *)
(* whatever crashes and whatever answer is lost.  If no answer to a send   *)
(* is lost, a transfer is live only while its request still has its hold   *)
(* and its place, so a hold is paid once and the cap is kept.              *)
(***************************************************************************)
EXTENDS Drops, FiniteSetTheorems, TLAPS

Recorded == {"logging", "claimed"}

\* HolderIsUnique, request by request.
Held == \A r \in In(Holds) : hold[HoldOf[r]] # "free"
Alone == \A r, s \in In(Holds) : HoldOf[r] = HoldOf[s] => r = s
Backed == \A h \in Hold : hold[h] # "free" => Holder(h) # {}
Told == \A r \in In(Holds) : hold[HoldOf[r]] = "claimed" <=> pc[r] \in Recorded
Owned == Held /\ Alone /\ Backed /\ Told

LEMMA Finite ==
  ASSUME NEW S, S \subseteq Request
  PROVE IsFiniteSet(S) /\ Cardinality(S) \in Nat
BY DropsAssumption, FS_Subset, FS_CardinalityType DEF DropsAssumption

LEMMA CapIsNat == Cap \in Nat /\ 0 <= Cap
<1>1. Cap \in Nat \ {0}
  BY DropsAssumption DEF DropsAssumption
<1> QED BY <1>1

LEMMA CardsFit == IsFiniteSet(Card) /\ Cardinality(Card) <= Cap
BY DropsAssumption DEF DropsAssumption

-----------------------------------------------------------------------------
(***************************************************************************)
(* Where requests are.                                                     *)
(***************************************************************************)
Place == Holds \cup {"idle", "read", "admitted", "uncounting", "failed", "refused"}

\* The places taken are counted: only Count and Uncount move a request in or
\* out of them.
LEMMA MoveKeepsCount ==
  ASSUME NEW r \in Request, NEW from, NEW to, pc \in [Request -> Place], Moves(r, from, to),
         CountIsPlaces, UNCHANGED count, from \in Counts <=> to \in Counts
  PROVE CountIsPlaces'
<1>1. In(Counts)' = In(Counts)
  BY DEF In, Moves
<1> QED BY <1>1 DEF CountIsPlaces

LEMMA InitPlaces == Init => CountIsPlaces
<1> SUFFICES ASSUME Init PROVE CountIsPlaces
  OBVIOUS
<1>1. In(Counts) = {}
  BY DEF Init, In, Counts, Paying
<1> QED BY <1>1, FS_EmptySet DEF CountIsPlaces, Init

LEMMA ClaimPlaces ==
  ASSUME TypeOK, CountIsPlaces, NEW r \in Request, Claim(r)
  PROVE CountIsPlaces'
<1> USE DEF Counts, Paying
<1>0. pc \in [Request -> Place] /\ In(Counts) \subseteq Request
  BY DEF TypeOK, Place, In
<1>1. CASE TurnAway(r)
  BY <1>0, <1>1, MoveKeepsCount DEF TurnAway, shared
<1>2. CASE Admit(r)
  <2>1. Moves(r, "read", "refused") \/ Moves(r, "read", "admitted")
    BY <1>2 DEF Admit
  <2> QED BY <1>0, <1>2, <2>1, MoveKeepsCount DEF Admit, shared
<1>3. CASE Reserve(r)
  BY <1>0, <1>3, MoveKeepsCount DEF Reserve
<1>4. CASE Count(r)
  <2>1. PICK to \in {"freeing", "counted"} : Moves(r, "reserved", to)
    BY <1>4 DEF Count
  <2>2. In(Counts)' = In(Counts) \cup {r} /\ r \notin In(Counts)
    BY <1>0, <2>1 DEF In, Moves
  <2>3. Cardinality(In(Counts)') = Cardinality(In(Counts)) + 1
    BY <1>0, <2>2, Finite, FS_AddElement
  <2> QED BY <1>4, <2>3 DEF Count, CountIsPlaces
<1>5. CASE CheckPot(r)
  BY <1>0, <1>5, MoveKeepsCount DEF CheckPot, shared
<1>6. CASE Send(r)
  BY <1>0, <1>6, MoveKeepsCount DEF Send, shared
<1>7. CASE Landed(r)
  BY <1>0, <1>7, MoveKeepsCount DEF Landed, shared
<1>8. CASE Record(r)
  BY <1>0, <1>8, MoveKeepsCount DEF Record
<1>9. CASE Log(r)
  BY <1>0, <1>9, MoveKeepsCount DEF Log
<1>10. CASE Free(r)
  BY <1>0, <1>10, MoveKeepsCount DEF Free
<1>11. CASE Uncount(r)
  <2>1. In(Counts)' = In(Counts) \ {r} /\ r \in In(Counts)
    BY <1>0, <1>11 DEF In, Moves, Uncount
  <2>2. Cardinality(In(Counts)') = Cardinality(In(Counts)) - 1
    BY <1>0, <2>1, Finite, FS_RemoveElement
  <2> QED BY <1>11, <2>2 DEF Uncount, CountIsPlaces
<1> QED
  BY <1>1, <1>2, <1>3, <1>4, <1>5, <1>6, <1>7, <1>8, <1>9, <1>10, <1>11 DEF Claim

LEMMA StepPlaces ==
  ASSUME TypeOK, CountIsPlaces, [Next]_vars
  PROVE CountIsPlaces'
<1>1. CASE \E r \in Request : Claim(r)
  BY <1>1, ClaimPlaces
<1>2. CASE \E r \in Request : Read(r)
  <2>1. pc \in [Request -> Place]
    BY DEF TypeOK, Place
  <2> QED BY <1>2, <2>1, MoveKeepsCount DEF Read, shared, Counts, Paying
<1>3. CASE UNCHANGED <<count, pc>>
  <2>1. In(Counts)' = In(Counts)
    BY <1>3 DEF In
  <2> QED BY <1>3, <2>1 DEF CountIsPlaces
<1> QED
  BY <1>1, <1>2, <1>3
  DEF Next, Crash, Land, OpenDrop, UpdateDrop, TakeBack, LandTake, TopUp, Tick, shared, vars

-----------------------------------------------------------------------------
(***************************************************************************)
(* Types.                                                                  *)
(***************************************************************************)
LEMMA InitType == Init => TypeOK
<1> SUFFICES ASSUME Init PROVE TypeOK
  OBVIOUS
<1>1. {Never} \cup Minutes \subseteq Nat \cup {Never}
  BY DropsAssumption DEF DropsAssumption
<1>2. drop \in [paused: {FALSE}, ended: {FALSE}, closesAt: {Never} \cup Minutes]
  BY DEF Init
<1>3. drop \in Drop
  BY <1>1, <1>2 DEF Drop
<1> QED BY <1>3 DEF Init, TypeOK

LEMMA StepType ==
  ASSUME TypeOK, CountIsPlaces, [Next]_vars
  PROVE TypeOK'
<1>1. CountIsPlaces'
  BY StepPlaces
<1>2. count' \in Nat
  <2>1. In(Counts)' \subseteq Request
    BY DEF In
  <2> QED BY <1>1, <2>1, Finite DEF CountIsPlaces
<1>3. CASE \E r \in Request : Claim(r)
  <2> PICK r \in Request : Claim(r)
    BY <1>3
  <2>1. UNCHANGED <<kind, drop, now, pot, take, crashed>>
    BY DEF Claim, TurnAway, Admit, Reserve, Count, CheckPot, Send, Broadcast, Landed, Record, Log,
           Free, Uncount, shared, chain
  <2>2. pc' \in [Request -> Place]
    BY DEF TypeOK, Place, Claim, TurnAway, Admit, Reserve, Count, CheckPot, Send, Landed, Record, Log,
           Free, Uncount, Moves, Holds, Paying
  <2>3. tx' \in [Request -> {"none", "sent", "paid", "reverted"}]
    BY DEF TypeOK, Claim, TurnAway, Admit, Reserve, Count, CheckPot, Send, Broadcast, Landed, Record,
           Log, Free, Uncount, chain
  <2>4. hold' \in [Hold -> {"free", "pending", "claimed"}] /\ log' \subseteq Request
    BY DEF TypeOK, Claim, TurnAway, Admit, Reserve, Count, CheckPot, Send, Landed, Record, Log, Free,
           Uncount, shared
  <2>5. snap' \in [Request \cup Admin -> Drop \cup {None}]
    BY DEF TypeOK, Claim, TurnAway, Admit, Reserve, Count, CheckPot, Send, Landed, Record, Log, Free,
           Uncount
  <2> QED BY <1>2, <2>1, <2>2, <2>3, <2>4, <2>5 DEF TypeOK, Place
<1>4. CASE \E r \in Request : Read(r)
  BY <1>2, <1>4 DEF Read, Moves, TypeOK, shared, chain, Holds, Paying
<1>5. CASE \E r \in Request : Crash(r)
  BY <1>2, <1>5 DEF Crash, TypeOK, shared, chain
<1>6. CASE \E r \in Request : Land(r)
  BY <1>2, <1>6 DEF Land, TypeOK, shared
<1>7. CASE \E a \in Admin : OpenDrop(a)
  BY <1>2, <1>7 DEF OpenDrop, TypeOK, shared, chain
<1>8. CASE \E a \in Admin : UpdateDrop(a)
  <2> PICK a \in Admin : UpdateDrop(a)
    BY <1>8
  <2>1. snap[a] \in Drop
    BY DEF UpdateDrop, TypeOK
  <2>2. drop' \in Drop
    <3> DEFINE C == {snap[a].closesAt, Never} \cup Windows
               E == {snap[a].ended, TRUE}
    <3>1. C \subseteq Nat \cup {Never}
      <4>1. snap[a].closesAt \in Nat \cup {Never}
        BY <2>1 DEF Drop
      <4>2. Windows \subseteq Nat
        <5>1. now \in Nat
          BY DEF TypeOK
        <5>2. Minutes \subseteq Nat
          BY DropsAssumption DEF DropsAssumption
        <5> QED BY <5>1, <5>2 DEF Windows
      <4> QED BY <4>1, <4>2
    <3>2. E \subseteq BOOLEAN
      BY <2>1 DEF Drop
    <3>3. drop' \in [paused: BOOLEAN, ended: E, closesAt: C]
      BY DEF UpdateDrop, Edits
    <3> HIDE DEF C, E
    <3> QED BY <3>1, <3>2, <3>3 DEF Drop
  <2>3. snap' \in [Request \cup Admin -> Drop \cup {None}]
    BY DEF UpdateDrop, TypeOK
  <2>4. UNCHANGED <<kind, hold, log, now, pot, tx, take, pc, crashed>>
    BY DEF UpdateDrop, chain
  <2> QED BY <1>2, <2>2, <2>3, <2>4 DEF TypeOK
<1>9. CASE TakeBack \/ LandTake \/ TopUp \/ Tick \/ UNCHANGED vars
  BY <1>2, <1>9 DEF TakeBack, LandTake, TopUp, Tick, TypeOK, shared, chain, vars
<1> QED
  BY <1>3, <1>4, <1>5, <1>6, <1>7, <1>8, <1>9 DEF Next

\* Every value stays of its type; the count of places never goes below zero.
THEOREM TypesKept == Spec => []TypeOK
<1>1. Init => TypeOK /\ CountIsPlaces
  BY InitType, InitPlaces
<1>2. TypeOK /\ CountIsPlaces /\ [Next]_vars => TypeOK' /\ CountIsPlaces'
  BY StepType, StepPlaces
<1> QED BY <1>1, <1>2, PTL DEF Spec

\* The count is the number of places taken, with any crash and any lost answer.
THEOREM CountIsRight == Spec => []CountIsPlaces
<1>1. Init => TypeOK /\ CountIsPlaces
  BY InitType, InitPlaces
<1>2. TypeOK /\ CountIsPlaces /\ [Next]_vars => TypeOK' /\ CountIsPlaces'
  BY StepType, StepPlaces
<1> QED BY <1>1, <1>2, PTL DEF Spec

-----------------------------------------------------------------------------
(***************************************************************************)
(* A hold belongs to one request.  A move within the holders, or outside   *)
(* them, that leaves `hold' alone keeps this; Reserve, Record and Free     *)
(* change one hold and its holder together.                                *)
(***************************************************************************)
LEMMA MoveKeepsHolds ==
  ASSUME NEW r \in Request, NEW from, NEW to, pc \in [Request -> Place], Moves(r, from, to),
         Owned, UNCHANGED hold, from \in Holds <=> to \in Holds, from \in Recorded <=> to \in Recorded
  PROVE Owned'
<1>1. In(Holds)' = In(Holds) /\ \A h \in Hold : Holder(h)' = Holder(h)
  BY DEF In, Moves, Holder
<1>2. \A s \in Request : pc'[s] \in Recorded <=> pc[s] \in Recorded
  BY DEF Moves
<1>3. Held' /\ Alone' /\ Backed'
  BY <1>1 DEF Owned, Held, Alone, Backed
<1>4. Told'
  BY <1>1, <1>2 DEF Owned, Told, In
<1> QED BY <1>3, <1>4 DEF Owned

LEMMA InitHolds == Init => Owned
BY DropsAssumption
DEF Init, Owned, Held, Alone, Backed, Told, In, Holds, Paying, DropsAssumption

LEMMA ReserveHolds ==
  ASSUME TypeOK, Owned, NEW r \in Request, Reserve(r)
  PROVE Owned'
<1>0. pc \in [Request -> Place] /\ hold \in [Hold -> {"free", "pending", "claimed"}] /\ HoldOf[r] \in Hold
  BY DropsAssumption DEF TypeOK, Place, DropsAssumption
<1>1. CASE hold[HoldOf[r]] # "free"
  BY <1>0, <1>1, MoveKeepsHolds DEF Reserve, Holds, Paying, Recorded
<1>2. CASE hold[HoldOf[r]] = "free"
  <2>1. /\ Moves(r, "admitted", "reserved")
        /\ hold' = [hold EXCEPT ![HoldOf[r]] = "pending"]
    BY <1>2 DEF Reserve
  <2>2. In(Holds)' = In(Holds) \cup {r} /\ r \notin In(Holds)
    BY <1>0, <2>1 DEF Moves, In, Holds, Paying
  <2>3. \A s \in In(Holds) : HoldOf[s] # HoldOf[r]
    BY <1>2 DEF Owned, Held
  <2>4. Held' /\ Alone'
    BY <1>0, <2>1, <2>2, <2>3, DropsAssumption DEF Owned, Held, Alone, In, DropsAssumption
  <2>5. Backed'
    <3>1. \A h \in Hold : Holder(h) \subseteq Holder(h)' /\ r \in Holder(HoldOf[r])'
      BY <1>0, <2>1 DEF Holder, Moves, Holds, Paying
    <3> QED BY <1>0, <2>1, <3>1 DEF Owned, Backed
  <2>6. Told'
    <3>1. \A s \in In(Holds) : pc'[s] = pc[s] /\ hold'[HoldOf[s]] = hold[HoldOf[s]]
      BY <1>0, <2>1, <2>2, <2>3, DropsAssumption DEF Moves, In, DropsAssumption
    <3>2. pc'[r] = "reserved" /\ hold'[HoldOf[r]] = "pending"
      BY <1>0, <2>1 DEF Moves
    <3> QED BY <2>2, <3>1, <3>2 DEF Owned, Told, Recorded
  <2> QED BY <2>4, <2>5, <2>6 DEF Owned
<1> QED BY <1>1, <1>2

LEMMA RecordHolds ==
  ASSUME TypeOK, Owned, NEW r \in Request, Record(r)
  PROVE Owned'
<1>0. pc \in [Request -> Place] /\ hold \in [Hold -> {"free", "pending", "claimed"}] /\ HoldOf[r] \in Hold
  BY DropsAssumption DEF TypeOK, Place, DropsAssumption
<1>1. /\ Moves(r, "recording", "logging")
      /\ hold' = [hold EXCEPT ![HoldOf[r]] = "claimed"]
  BY DEF Record
<1>2. In(Holds)' = In(Holds) /\ r \in In(Holds) /\ \A h \in Hold : Holder(h)' = Holder(h)
  BY <1>0, <1>1 DEF Moves, In, Holder, Holds, Paying
<1>3. \A s \in In(Holds) : s # r => HoldOf[s] # HoldOf[r]
  BY <1>2 DEF Owned, Alone
<1>4. Held' /\ Alone'
  BY <1>0, <1>1, <1>2, <1>3, DropsAssumption DEF Owned, Held, Alone, In, DropsAssumption
<1>5. Backed'
  <2>1. Holder(HoldOf[r]) # {}
    BY <1>2 DEF Holder, In
  <2> QED BY <1>0, <1>1, <1>2, <2>1 DEF Owned, Backed
<1>6. Told'
  <2>1. \A s \in In(Holds) \ {r} : pc'[s] = pc[s] /\ hold'[HoldOf[s]] = hold[HoldOf[s]]
    BY <1>0, <1>1, <1>3, DropsAssumption DEF Moves, In, DropsAssumption
  <2>2. pc'[r] = "logging" /\ hold'[HoldOf[r]] = "claimed"
    BY <1>0, <1>1 DEF Moves
  <2> QED BY <1>2, <2>1, <2>2 DEF Owned, Told, Recorded
<1> QED BY <1>4, <1>5, <1>6 DEF Owned

LEMMA FreeHolds ==
  ASSUME TypeOK, Owned, NEW r \in Request, Free(r)
  PROVE Owned'
<1>0. pc \in [Request -> Place] /\ hold \in [Hold -> {"free", "pending", "claimed"}] /\ HoldOf[r] \in Hold
  BY DropsAssumption DEF TypeOK, Place, DropsAssumption
<1>1. /\ Moves(r, "freeing", "uncounting")
      /\ hold' = [hold EXCEPT ![HoldOf[r]] = "free"]
  BY DEF Free
<1>2. In(Holds)' = In(Holds) \ {r} /\ r \in In(Holds)
  BY <1>0, <1>1 DEF Moves, In, Holds, Paying
<1>3. \A s \in In(Holds) : s # r => HoldOf[s] # HoldOf[r]
  BY <1>2 DEF Owned, Alone
<1>4. \A s \in In(Holds)' : pc'[s] = pc[s] /\ hold'[HoldOf[s]] = hold[HoldOf[s]]
  BY <1>0, <1>1, <1>2, <1>3, DropsAssumption DEF Moves, In, DropsAssumption
<1>5. Held' /\ Alone' /\ Told'
  BY <1>2, <1>4 DEF Owned, Held, Alone, Told
<1>6. Backed'
  <2> SUFFICES ASSUME NEW h \in Hold, hold'[h] # "free" PROVE Holder(h)' # {}
    BY DEF Backed
  <2>1. h # HoldOf[r] /\ hold[h] # "free"
    BY <1>0, <1>1
  <2>2. PICK s \in Holder(h) : TRUE
    BY <2>1 DEF Owned, Backed
  <2>3. s \in Holder(h)'
    BY <1>0, <1>1, <2>1, <2>2 DEF Holder, Moves
  <2> QED BY <2>3
<1> QED BY <1>5, <1>6 DEF Owned

LEMMA StepHolds ==
  ASSUME TypeOK, Owned, [Next]_vars
  PROVE Owned'
<1> USE DEF Holds, Paying, Recorded
<1>0. pc \in [Request -> Place]
  BY DEF TypeOK, Place
<1>1. CASE \E r \in Request : Reserve(r) \/ Record(r) \/ Free(r)
  BY <1>1, ReserveHolds, RecordHolds, FreeHolds
<1>2. CASE \E r \in Request : Read(r) \/ TurnAway(r) \/ Admit(r)
  <2> PICK r \in Request : Read(r) \/ TurnAway(r) \/ Admit(r)
    BY <1>2
  <2>1. UNCHANGED hold
    BY DEF Read, TurnAway, Admit, shared
  <2>2. Moves(r, "idle", "read") \/ Moves(r, "read", "refused") \/ Moves(r, "read", "admitted")
    BY DEF Read, TurnAway, Admit
  <2> QED BY <1>0, <2>1, <2>2, MoveKeepsHolds
<1>3. CASE \E r \in Request : Count(r) \/ CheckPot(r) \/ Send(r) \/ Landed(r)
  <2> PICK r \in Request : Count(r) \/ CheckPot(r) \/ Send(r) \/ Landed(r)
    BY <1>3
  <2>1. UNCHANGED hold
    BY DEF Count, CheckPot, Send, Landed, shared
  <2>2. \E from \in {"reserved", "counted", "funded", "waiting"},
           to \in {"counted", "funded", "waiting", "recording", "freeing"} : Moves(r, from, to)
    BY DEF Count, CheckPot, Send, Landed
  <2> QED BY <1>0, <2>1, <2>2, MoveKeepsHolds
<1>4. CASE \E r \in Request : Log(r) \/ Uncount(r)
  <2> PICK r \in Request : Log(r) \/ Uncount(r)
    BY <1>4
  <2>1. UNCHANGED hold
    BY DEF Log, Uncount
  <2>2. Moves(r, "logging", "claimed") \/ Moves(r, "uncounting", "failed")
    BY DEF Log, Uncount
  <2> QED BY <1>0, <2>1, <2>2, MoveKeepsHolds
<1>5. CASE UNCHANGED <<hold, pc>>
  BY <1>5 DEF Owned, Held, Alone, Backed, Told, In, Holder
<1> QED
  BY <1>1, <1>2, <1>3, <1>4, <1>5
  DEF Next, Claim, Crash, Land, OpenDrop, UpdateDrop, TakeBack, LandTake, TopUp, Tick, shared, vars

LEMMA OwnedIsUnique == TypeOK /\ Owned => HolderIsUnique
<1> SUFFICES ASSUME TypeOK, Owned, NEW h \in Hold
             PROVE /\ hold[h] = "free" => Holder(h) = {}
                   /\ hold[h] # "free" => \E r \in Request : Holder(h) = {r}
                   /\ hold[h] = "claimed" <=> Holder(h) \cap In({"logging", "claimed"}) # {}
  BY DEF HolderIsUnique
<1>1. \A r \in Holder(h) : r \in In(Holds) /\ HoldOf[r] = h
  BY DEF Holder, In
<1>2. hold[h] = "free" => Holder(h) = {}
  BY <1>1 DEF Owned, Held
<1>3. hold[h] # "free" => \E r \in Request : Holder(h) = {r}
  <2> SUFFICES ASSUME hold[h] # "free" PROVE \E r \in Request : Holder(h) = {r}
    OBVIOUS
  <2>1. PICK r \in Holder(h) : TRUE
    BY DEF Owned, Backed
  <2>2. Holder(h) = {r}
    BY <1>1, <2>1 DEF Owned, Alone
  <2> QED BY <2>1, <2>2 DEF Holder
<1>4. ASSUME hold[h] = "claimed" PROVE Holder(h) \cap In({"logging", "claimed"}) # {}
  <2>1. PICK r \in Holder(h) : TRUE
    BY <1>4 DEF Owned, Backed
  <2>2. pc[r] \in Recorded
    BY <1>1, <1>4, <2>1 DEF Owned, Told
  <2> QED BY <2>1, <2>2 DEF Holder, In, Recorded
<1>5. ASSUME Holder(h) \cap In({"logging", "claimed"}) # {} PROVE hold[h] = "claimed"
  <2>1. PICK r \in Holder(h) : pc[r] \in Recorded
    BY <1>5 DEF In, Recorded
  <2> QED BY <1>1, <2>1 DEF Owned, Told
<1> QED BY <1>2, <1>3, <1>4, <1>5

\* A hold is taken exactly when one request stands behind it, and marked
\* claimed exactly when that request has recorded its payment.
THEOREM HoldsAreUnique == Spec => []HolderIsUnique
<1> DEFINE Inv == TypeOK /\ CountIsPlaces /\ Owned
<1>1. Init => Inv
  BY InitType, InitPlaces, InitHolds
<1>2. Inv /\ [Next]_vars => Inv'
  BY StepType, StepPlaces, StepHolds
<1>3. Inv => HolderIsUnique
  BY OwnedIsUnique
<1> QED BY <1>1, <1>2, <1>3, PTL DEF Spec

-----------------------------------------------------------------------------
(***************************************************************************)
(* Without a lost answer.                                                  *)
(***************************************************************************)
Sent == {"waiting", "recording", "logging", "claimed"}

\* A transfer that is on its way, or paid, belongs to a request that still
\* has its hold and its place.
LiveIsSent == Live \subseteq In(Sent)

\* Only codes of ours get past byCode, and the INCR admits no more of a crowd
\* than the cap.
OnlyCards == kind = "cards" => \A r \in Request : pc[r] # "idle" => HoldOf[r] \in Card
CrowdFits == kind = "crowd" => Cardinality(In(Paying)) <= Cap

LEMMA InitSent == Init => LiveIsSent /\ OnlyCards /\ CrowdFits
<1> SUFFICES ASSUME Init PROVE LiveIsSent /\ OnlyCards /\ CrowdFits
  OBVIOUS
<1>1. In(Paying) = {}
  BY DEF Init, In, Paying
<1>2. CrowdFits
  BY <1>1, FS_EmptySet, CapIsNat DEF CrowdFits
<1> QED BY <1>2 DEF Init, LiveIsSent, Live, OnlyCards

LEMMA StepLive ==
  ASSUME TypeOK, LiveIsSent, "lost answer" \notin Faults, [Next]_vars
  PROVE LiveIsSent'
<1>0. /\ pc \in [Request -> Place]
      /\ tx \in [Request -> {"none", "sent", "paid", "reverted"}]
      /\ \A r \in Request : tx[r] \in {"sent", "paid"} => pc[r] \in Sent
  BY DEF TypeOK, Place, LiveIsSent, Live, In
<1> SUFFICES ASSUME NEW s \in Request, tx'[s] \in {"sent", "paid"} PROVE pc'[s] \in Sent
  BY DEF LiveIsSent, Live, In
<1>1. CASE \E r \in Request : Send(r)
  BY <1>0, <1>1 DEF Send, Broadcast, Moves, Sent, chain
<1>2. CASE \E r \in Request : Land(r)
  BY <1>0, <1>2 DEF Land, Sent
<1>3. CASE \E r \in Request : Landed(r) \/ Record(r) \/ Log(r)
  BY <1>0, <1>3 DEF Landed, Record, Log, Moves, Sent, chain
<1>4. CASE \E r \in Request : Read(r) \/ TurnAway(r) \/ Admit(r) \/ Reserve(r)
  BY <1>0, <1>4 DEF Read, TurnAway, Admit, Reserve, Moves, Sent, chain
<1>5. CASE \E r \in Request : Count(r) \/ CheckPot(r) \/ Free(r) \/ Uncount(r)
  BY <1>0, <1>5 DEF Count, CheckPot, Free, Uncount, Moves, Sent, chain
<1>6. CASE UNCHANGED <<tx, pc>>
  BY <1>0, <1>6
<1> QED
  BY <1>1, <1>2, <1>3, <1>4, <1>5, <1>6
  DEF Next, Claim, Crash, OpenDrop, UpdateDrop, TakeBack, LandTake, TopUp, Tick, chain, vars

LEMMA StepCards ==
  ASSUME TypeOK, OnlyCards, [Next]_vars
  PROVE OnlyCards'
<1>0. pc \in [Request -> Place]
  BY DEF TypeOK, Place
<1>1. UNCHANGED kind
  BY DEF Next, Read, Claim, TurnAway, Admit, Reserve, Count, CheckPot, Send, Landed, Record, Log,
         Free, Uncount, Crash, Land, OpenDrop, UpdateDrop, TakeBack, LandTake, TopUp, Tick, shared, vars
<1>2. CASE \E r \in Request : Read(r)
  BY <1>0, <1>1, <1>2 DEF Read, Moves, OnlyCards
<1>3. CASE \E r \in Request : Claim(r)
  <2> PICK r \in Request : Claim(r)
    BY <1>3
  <2>1. pc[r] # "idle" /\ \A s \in Request : s # r => pc'[s] = pc[s]
    BY <1>0 DEF Claim, TurnAway, Admit, Reserve, Count, CheckPot, Send, Landed, Record, Log, Free,
                Uncount, Moves
  <2> QED BY <1>1, <2>1 DEF OnlyCards
<1>4. CASE UNCHANGED pc
  BY <1>1, <1>4 DEF OnlyCards
<1> QED
  BY <1>2, <1>3, <1>4
  DEF Next, Crash, Land, OpenDrop, UpdateDrop, TakeBack, LandTake, TopUp, Tick, vars

LEMMA StepCrowd ==
  ASSUME TypeOK, CountIsPlaces, CrowdFits, [Next]_vars
  PROVE CrowdFits'
<1> USE DEF Paying
<1>0. pc \in [Request -> Place]
  BY DEF TypeOK, Place
<1>1. UNCHANGED kind
  BY DEF Next, Read, Claim, TurnAway, Admit, Reserve, Count, CheckPot, Send, Landed, Record, Log,
         Free, Uncount, Crash, Land, OpenDrop, UpdateDrop, TakeBack, LandTake, TopUp, Tick, shared, vars
<1>2. In(Paying)' \subseteq In(Paying) => CrowdFits'
  <2> SUFFICES ASSUME In(Paying)' \subseteq In(Paying) PROVE CrowdFits'
    OBVIOUS
  <2>1. In(Paying) \subseteq Request
    BY DEF In
  <2>2. Cardinality(In(Paying)') <= Cardinality(In(Paying))
    BY <2>1, Finite, FS_Subset
  <2>3. Cardinality(In(Paying)') \in Nat /\ Cardinality(In(Paying)) \in Nat
    BY <2>1, Finite
  <2> QED BY <1>1, <2>2, <2>3, CapIsNat DEF CrowdFits
<1>3. CASE \E r \in Request : Count(r)
  <2> PICK r \in Request : Count(r)
    BY <1>3
  <2>1. CASE Moves(r, "reserved", "freeing")
    <3>1. In(Paying)' \subseteq In(Paying)
      BY <1>0, <2>1 DEF In, Moves
    <3> QED BY <1>2, <3>1
  <2>2. CASE Moves(r, "reserved", "counted") /\ ~Full(count + 1)
    <3>1. In(Paying)' \subseteq In(Counts) \cup {r} /\ r \notin In(Counts)
      BY <1>0, <2>2 DEF In, Moves, Counts
    <3>2. In(Counts) \subseteq Request
      BY DEF In
    <3>3. /\ IsFiniteSet(In(Counts) \cup {r})
          /\ Cardinality(In(Counts) \cup {r}) = Cardinality(In(Counts)) + 1
      BY <3>1, <3>2, Finite, FS_AddElement
    <3>4. Cardinality(In(Paying)') <= count + 1
      BY <3>1, <3>3, FS_Subset DEF CountIsPlaces
    <3>5. kind = "crowd" => count + 1 <= Cap
      BY <2>2, CapIsNat DEF Full, TypeOK
    <3>6. Cardinality(In(Paying)') \in Nat
      BY Finite DEF In
    <3> QED BY <1>1, <3>4, <3>5, <3>6, CapIsNat DEF CrowdFits, TypeOK
  <2> QED BY <2>1, <2>2 DEF Count
<1>4. CASE \E r \in Request : Read(r) \/ TurnAway(r) \/ Admit(r) \/ Reserve(r)
  <2>1. In(Paying)' \subseteq In(Paying)
    BY <1>0, <1>4 DEF Read, TurnAway, Admit, Reserve, Moves, In
  <2> QED BY <1>2, <2>1
<1>5. CASE \E r \in Request : CheckPot(r) \/ Send(r) \/ Landed(r)
  <2>1. In(Paying)' \subseteq In(Paying)
    BY <1>0, <1>5 DEF CheckPot, Send, Landed, Moves, In
  <2> QED BY <1>2, <2>1
<1>6. CASE \E r \in Request : Record(r) \/ Log(r) \/ Free(r) \/ Uncount(r)
  <2>1. In(Paying)' \subseteq In(Paying)
    BY <1>0, <1>6 DEF Record, Log, Free, Uncount, Moves, In
  <2> QED BY <1>2, <2>1
<1>7. CASE UNCHANGED pc
  <2>1. In(Paying)' = In(Paying)
    BY <1>7 DEF In
  <2> QED BY <1>2, <2>1
<1> QED
  BY <1>3, <1>4, <1>5, <1>6, <1>7
  DEF Next, Claim, Crash, Land, OpenDrop, UpdateDrop, TakeBack, LandTake, TopUp, Tick, vars

IInv == TypeOK /\ CountIsPlaces /\ Owned /\ LiveIsSent /\ OnlyCards /\ CrowdFits

LEMMA Inductive ==
  ASSUME "lost answer" \notin Faults
  PROVE (Init => IInv) /\ (IInv /\ [Next]_vars => IInv')
<1>1. Init => IInv
  BY InitType, InitPlaces, InitHolds, InitSent DEF IInv
<1>2. IInv /\ [Next]_vars => IInv'
  BY StepType, StepPlaces, StepHolds, StepLive, StepCards, StepCrowd DEF IInv
<1> QED BY <1>1, <1>2

LEMMA CapKept == IInv => WithinCap
<1> SUFFICES ASSUME IInv PROVE Cardinality(Live) <= Cap
  BY DEF WithinCap
<1>1. Live \subseteq In(Paying) /\ In(Paying) \subseteq In(Holds)
  BY DEF IInv, LiveIsSent, In, Sent, Paying, Holds
<1>2. CASE kind = "crowd"
  <2>1. Cardinality(Live) <= Cardinality(In(Paying)) /\ In(Paying) \subseteq Request /\ Live \subseteq Request
    BY <1>1, Finite, FS_Subset DEF In, Live
  <2>2. Cardinality(Live) \in Nat /\ Cardinality(In(Paying)) \in Nat
    BY <2>1, Finite
  <2> QED BY <1>2, <2>1, <2>2, CapIsNat DEF IInv, CrowdFits
<1>3. CASE kind = "cards"
  <2> DEFINE f == [r \in Live |-> HoldOf[r]]
  <2>1. \A r \in Live : HoldOf[r] \in Card
    BY <1>1, <1>3 DEF IInv, OnlyCards, Live, In, Holds, Paying
  <2>2. \A r, s \in Live : HoldOf[r] = HoldOf[s] => r = s
    BY <1>1 DEF IInv, Owned, Alone
  <2>3. f \in Injection(Live, Card)
    BY <2>1, <2>2 DEF Injection, IsInjective
  <2>4. Cardinality(Live) <= Cardinality(Card)
    BY <2>3, FS_Injection, CardsFit
  <2>5. Cardinality(Live) \in Nat /\ Cardinality(Card) \in Nat
    BY Finite, FS_CardinalityType, CardsFit DEF Live
  <2> QED BY <2>4, <2>5, CapIsNat, CardsFit
<1> QED BY <1>2, <1>3 DEF IInv, TypeOK

\* Whatever crashes, no hold has two transfers that pay it, unless the answer
\* to a send is lost.
THEOREM NoHoldIsPaidTwice ==
  ASSUME "lost answer" \notin Faults
  PROVE Spec => []PaidAtMostOnce
<1>1. IInv => PaidAtMostOnce
  BY DEF IInv, Owned, Alone, LiveIsSent, PaidAtMostOnce, In, Sent, Holds, Paying
<1> QED BY <1>1, Inductive, PTL DEF Spec

\* Nor are there more transfers than the cap, for cards as for a crowd.
THEOREM TheCapIsKept ==
  ASSUME "lost answer" \notin Faults
  PROVE Spec => []WithinCap
BY CapKept, Inductive, PTL DEF Spec

-----------------------------------------------------------------------------
(***************************************************************************)
(* The books.                                                              *)
(***************************************************************************)
\* A request is in the log from the step that calls it claimed.
Logged == log = In({"claimed"})

LEMMA StepLogged ==
  ASSUME TypeOK, Logged, [Next]_vars
  PROVE Logged'
<1> USE DEF Logged, In
<1>1. ASSUME NEW r \in Request, NEW from, NEW to, Moves(r, from, to), from # "claimed", to # "claimed",
             UNCHANGED log
      PROVE Logged'
  BY <1>1 DEF Moves, TypeOK
<1>2. CASE \E r \in Request : Log(r)
  BY <1>2 DEF Log, Moves, TypeOK
<1>3. CASE \E r \in Request : Read(r) \/ (Claim(r) /\ ~Log(r))
  <2> PICK r \in Request : Read(r) \/ (Claim(r) /\ ~Log(r))
    BY <1>3
  <2>1. UNCHANGED log
    BY DEF Read, Claim, TurnAway, Admit, Reserve, Count, CheckPot, Send, Landed, Record, Free, Uncount, shared
  <2>2. \E from, to : Moves(r, from, to) /\ from # "claimed" /\ to # "claimed"
    BY DEF Read, Claim, TurnAway, Admit, Reserve, Count, CheckPot, Send, Landed, Record, Free, Uncount
  <2> QED BY <1>1, <2>1, <2>2
<1>4. CASE UNCHANGED <<log, pc>>
  BY <1>4
<1> QED
  BY <1>2, <1>3, <1>4
  DEF Next, Crash, Land, OpenDrop, UpdateDrop, TakeBack, LandTake, TopUp, Tick, shared, vars

\* A transfer is out only for a claim that has its place, as long as no answer to
\* a send is lost.
SendsAreHeard == "lost answer" \notin Faults => LiveIsSent

LEMMA QuietBooks ==
  ASSUME TypeOK, CountIsPlaces, Owned, Logged, SendsAreHeard
  PROVE BooksBalance
<1> DEFINE booked == log \cup (crashed \cap In(Counts))
<1> SUFFICES ASSUME \A r \in Request : pc[r] \in Over \cup {"idle"} \/ r \in crashed
             PROVE /\ count = Cardinality(booked)
                   /\ {h \in Hold : hold[h] # "free"} = {HoldOf[r] : r \in log \cup (crashed \cap In(Holds))}
                   /\ "lost answer" \notin Faults => Live \subseteq booked
  BY DEF BooksBalance
<1>1. In(Counts) = booked /\ In(Holds) = log \cup (crashed \cap In(Holds))
  BY DEF In, Counts, Holds, Paying, Over, Logged
<1>2. \A h \in Hold : hold[h] # "free" => \E r \in In(Holds) : HoldOf[r] = h
  BY DEF Owned, Backed, Holder, In
<1>3. \A r \in In(Holds) : HoldOf[r] \in Hold /\ hold[HoldOf[r]] # "free"
  BY DropsAssumption DEF Owned, Held, In, DropsAssumption
<1>4. {h \in Hold : hold[h] # "free"} = {HoldOf[r] : r \in In(Holds)}
  BY <1>2, <1>3
<1>5. "lost answer" \notin Faults => Live \subseteq In(Counts)
  BY DEF SendsAreHeard, LiveIsSent, In, Sent, Counts, Paying
<1> QED BY <1>1, <1>4, <1>5 DEF CountIsPlaces

\* Whenever no claim is under way, the count and the holds are those of the log and
\* of the claims that stopped, and, if no answer to a send is lost, so are the transfers.
THEOREM BooksAreKept == Spec => []BooksBalance
<1> DEFINE Kept == TypeOK /\ CountIsPlaces /\ Owned /\ Logged /\ SendsAreHeard
<1>1. Init => Kept
  <2>1. Init => Logged /\ SendsAreHeard
    BY InitSent DEF Init, Logged, In, SendsAreHeard
  <2> QED BY <2>1, InitType, InitPlaces, InitHolds
<1>2. Kept /\ [Next]_vars => Kept'
  <2> SUFFICES ASSUME Kept, [Next]_vars PROVE Kept'
    OBVIOUS
  <2>1. SendsAreHeard'
    BY StepLive DEF SendsAreHeard
  <2> QED BY <2>1, StepType, StepPlaces, StepHolds, StepLogged
<1>3. Kept => BooksBalance
  BY QuietBooks
<1> QED BY <1>1, <1>2, <1>3, PTL DEF Spec

-----------------------------------------------------------------------------
(***************************************************************************)
(* The end of a drop.  A session that has the drop open from before can    *)
(* undo it; once there is none, every save and every read is of an ended   *)
(* drop.                                                                   *)
(***************************************************************************)
\* No transfer before its request has read the drop.
IdleUnsent == \A r \in Request : pc[r] \in {"idle", "read", "admitted", "refused"} => tx[r] = "none"

LEMMA StepIdle ==
  ASSUME TypeOK, IdleUnsent, [Next]_vars
  PROVE IdleUnsent'
<1> USE DEF IdleUnsent, TypeOK
<1>1. ASSUME NEW r \in Request, Claim(r)
      PROVE IdleUnsent'
  <2>1. CASE Send(r)
    BY <2>1 DEF Send, Moves, Broadcast, chain
  <2>2. CASE TurnAway(r) \/ Admit(r)
    BY <2>2 DEF TurnAway, Admit, Moves, chain
  <2>3. CASE Reserve(r)
    BY <2>3, <1>1 DEF Reserve, Moves, chain
  <2>4. CASE Count(r) \/ CheckPot(r) \/ Landed(r) \/ Record(r) \/ Log(r) \/ Free(r) \/ Uncount(r)
    BY <2>4 DEF Count, CheckPot, Landed, Record, Log, Free, Uncount, Moves, chain
  <2> QED BY <1>1, <2>1, <2>2, <2>3, <2>4 DEF Claim
<1>2. CASE \E r \in Request : Read(r)
  BY <1>2 DEF Read, Moves, chain
<1>3. CASE \E r \in Request : Land(r)
  BY <1>3 DEF Land
<1>4. CASE UNCHANGED <<pc, tx>>
  BY <1>4
<1> QED
  BY <1>1, <1>2, <1>3, <1>4
  DEF Next, Crash, OpenDrop, UpdateDrop, TakeBack, LandTake, TopUp, Tick, shared, chain, vars

LEMMA EndStays ==
  ASSUME TypeOK, EndedForGood, [Next]_vars
  PROVE EndedForGood'
<1> USE DEF EndedForGood
<1>1. ASSUME NEW a \in Admin, UpdateDrop(a) PROVE EndedForGood'
  <2>1. PICK d \in Edits(snap[a]) : drop' = d
    BY <1>1 DEF UpdateDrop
  <2>2. snap[a].ended /\ snap' = [snap EXCEPT ![a] = None]
    BY <1>1 DEF UpdateDrop
  <2> QED BY <2>1, <2>2 DEF Edits, TypeOK
<1>2. ASSUME NEW a \in Admin, OpenDrop(a) PROVE EndedForGood'
  BY <1>2 DEF OpenDrop, shared, TypeOK
<1>3. CASE UNCHANGED drop /\ \A a \in Admin : snap'[a] = snap[a]
  BY <1>3
<1>4. ASSUME NEW r \in Request, Read(r) \/ Claim(r) PROVE EndedForGood'
  <2>1. UNCHANGED drop /\ (snap' = snap \/ \E d : snap' = [snap EXCEPT ![r] = d])
    BY <1>4 DEF Read, Claim, TurnAway, Admit, Reserve, Count, CheckPot, Send, Landed, Record, Log, Free,
       Uncount, shared
  <2>2. r \notin Admin
    BY DropsAssumption DEF DropsAssumption
  <2> QED BY <1>3, <2>1, <2>2 DEF TypeOK
<1> QED
  BY <1>1, <1>2, <1>3, <1>4
  DEF Next, Crash, Land, TakeBack, LandTake, TopUp, Tick, shared, vars

\* A request that came after the end is turned away, with nothing sent.
TurnedAway(r) ==
  /\ EndedForGood /\ tx[r] = "none"
  /\ \/ pc[r] \in {"idle", "refused"}
     \/ pc[r] = "read" /\ snap[r] # None /\ snap[r].ended

LEMMA StepTurnedAway ==
  ASSUME TypeOK, [Next]_vars, NEW r \in Request, TurnedAway(r)
  PROVE TurnedAway(r)'
<1>0. drop.ended /\ EndedForGood'
  BY EndStays DEF TurnedAway, EndedForGood
<1>1. ASSUME NEW s \in Request, Read(s) \/ Claim(s), s # r PROVE TurnedAway(r)'
  <2>1. UNCHANGED drop /\ (snap' = snap \/ \E d : snap' = [snap EXCEPT ![s] = d])
    BY <1>1 DEF Read, Claim, TurnAway, Admit, Reserve, Count, CheckPot, Send, Landed, Record, Log, Free,
       Uncount, shared
  <2>2. \E from, to : Moves(s, from, to)
    BY <1>1 DEF Read, Claim, TurnAway, Admit, Reserve, Count, CheckPot, Send, Landed, Record, Log, Free,
       Uncount
  <2>3. tx' = tx \/ tx' = [tx EXCEPT ![s] = "sent"]
    BY <1>1 DEF Read, Claim, TurnAway, Admit, Reserve, Count, CheckPot, Send, Landed, Record, Log, Free,
       Uncount, Broadcast, chain
  <2> QED BY <1>0, <1>1, <2>1, <2>2, <2>3 DEF TurnedAway, Moves, TypeOK
<1>2. CASE Read(r)
  <2>1. drop # None
    BY DropsAssumption DEF TypeOK, DropsAssumption
  <2> QED BY <1>0, <1>2, <2>1 DEF Read, Moves, TurnedAway, TypeOK, chain
<1>3. CASE Claim(r)
  <2>1. CASE pc[r] = "read" /\ snap[r].ended /\ Admit(r)
    BY <1>0, <2>1 DEF Admit, Closed, Moves, TurnedAway, TypeOK, chain
  <2>2. CASE TurnAway(r)
    BY <1>0, <2>2 DEF TurnAway, Moves, TurnedAway, TypeOK, chain
  <2>3. TurnAway(r) \/ (pc[r] = "read" /\ snap[r].ended /\ Admit(r))
    BY <1>3 DEF Claim, TurnedAway, Admit, Reserve, Count, CheckPot, Send, Landed, Record, Log, Free, Uncount,
       Moves
  <2> QED BY <2>1, <2>2, <2>3
<1>4. ASSUME NEW s \in Request, Land(s) PROVE TurnedAway(r)'
  BY <1>0, <1>4 DEF Land, TurnedAway, TypeOK, shared
<1>5. ASSUME NEW a \in Admin, OpenDrop(a) \/ UpdateDrop(a) PROVE TurnedAway(r)'
  <2>1. a # r
    BY DropsAssumption DEF DropsAssumption
  <2>2. UNCHANGED <<pc, tx>> /\ snap'[r] = snap[r]
    BY <1>5, <2>1 DEF OpenDrop, UpdateDrop, chain, TypeOK
  <2> QED BY <1>0, <2>2 DEF TurnedAway
<1>6. CASE UNCHANGED <<pc, tx, snap>>
  BY <1>0, <1>6 DEF TurnedAway
<1> QED
  BY <1>1, <1>2, <1>3, <1>4, <1>5, <1>6
  DEF Next, Crash, TakeBack, LandTake, TopUp, Tick, shared, chain, vars

\* With any number of givers' sessions, a claim that comes after the end, when no
\* session is left that could undo it, is never paid.
THEOREM NothingAfterTheEnd ==
  Spec => EndedPaysNoOne
<1> SUFFICES ASSUME NEW r \in Request
             PROVE Spec => [](EndedForGood /\ pc[r] = "idle" => [](tx[r] = "none"))
  BY DEF EndedPaysNoOne
<1>1. Init => TypeOK /\ CountIsPlaces /\ IdleUnsent
  <2>1. Init => IdleUnsent
    BY DEF Init, IdleUnsent
  <2> QED BY <2>1, InitType, InitPlaces
<1>2. TypeOK /\ CountIsPlaces /\ IdleUnsent /\ [Next]_vars => TypeOK' /\ CountIsPlaces' /\ IdleUnsent'
  BY StepType, StepPlaces, StepIdle
<1>3. TypeOK /\ [Next]_vars /\ TurnedAway(r) => TurnedAway(r)'
  BY StepTurnedAway
<1>4. IdleUnsent /\ EndedForGood /\ pc[r] = "idle" => TurnedAway(r)
  BY DEF IdleUnsent, TurnedAway
<1>5. TurnedAway(r) => tx[r] = "none"
  BY DEF TurnedAway
<1> QED BY <1>1, <1>2, <1>3, <1>4, <1>5, PTL DEF Spec
=============================================================================
