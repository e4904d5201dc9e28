-------------------------------- MODULE Drops --------------------------------
(***************************************************************************)
(* A drop: a pot of money and the codes that pay from it                   *)
(* (web/lib/drops.ts, behind web/app/api/drop).                            *)
(*                                                                         *)
(* Each claim is a request of its own, on a server that may stop between   *)
(* two calls; what requests share is the key-value store and the chain.    *)
(* A claim reserves a hold (the card, or a wallet's place in a crowd),     *)
(* then a place under the cap, then sends, then records; a send that       *)
(* fails gives both back.  Every call to the store or the chain is a step. *)
(***************************************************************************)
EXTENDS Integers, FiniteSets

CONSTANTS
  Request,   \* POSTs to /api/drop, each handled once
  Hold,      \* what a claim reserves: a card's code, or a wallet of a crowd
  HoldOf,    \* the hold each request claims
  Card,      \* the codes made for a drop of cards
  Cap,       \* the most claims
  Admin,     \* sessions of givers
  Minutes,   \* the windows a giver may set
  Faults,    \* what may go wrong: "crash", "lost answer"
  None,      \* no drop was read
  MaxPot,    \* bound: what the pot ever holds, in claims
  MaxTime    \* bound

Never == -1
Drop == [paused: BOOLEAN, ended: BOOLEAN, closesAt: Nat \cup {Never}]

ASSUME DropsAssumption ==
  /\ IsFiniteSet(Request)
  /\ HoldOf \in [Request -> Hold]
  /\ Card \subseteq Hold /\ IsFiniteSet(Card) /\ Cardinality(Card) <= Cap
  /\ Cap \in Nat \ {0} /\ Minutes \subseteq Nat \ {0}
  /\ Faults \subseteq {"crash", "lost answer"}
  /\ None \notin Drop /\ Admin \cap Request = {}
  /\ MaxPot \in Nat /\ MaxTime \in Nat

VARIABLES
  kind,     \* "cards" or "crowd"
  drop,     \* d:<id>, the drop's settings
  count,    \* n:<id>, places taken under the cap
  hold,     \* u:<code> or w:<id>:<wallet>: "free", "pending" or "claimed"
  log,      \* log:<id>, the requests recorded as paid
  now,
  pot,      \* what the pot holds on the chain, in claims
  tx,       \* each request's transfer
  take,     \* a take-back in flight: what it moves, 0 = none
  pc,       \* where each request is
  snap,     \* the drop each request, and each giver, has read
  crashed   \* requests whose server stopped, or whose call to the store failed

shared == <<kind, drop, count, hold, log>>
chain == <<pot, tx, take>>
vars == <<kind, drop, count, hold, log, now, pot, tx, take, pc, snap, crashed>>

\* A request that holds its code or place, and one with a place under the cap.
Paying == {"counted", "funded", "waiting", "recording", "logging", "claimed"}
Holds == Paying \cup {"reserved", "freeing"}
Counts == Paying \cup {"freeing", "uncounting"}
Over == {"claimed", "failed", "refused"}

Holder(h) == {r \in Request : HoldOf[r] = h /\ pc[r] \in Holds}
In(s) == {r \in Request : pc[r] \in s}
Live == {r \in Request : tx[r] \in {"sent", "paid"}}

TypeOK ==
  /\ kind \in {"cards", "crowd"} /\ drop \in Drop /\ count \in Nat
  /\ hold \in [Hold -> {"free", "pending", "claimed"}]
  /\ log \subseteq Request
  /\ now \in Nat /\ pot \in Nat /\ take \in Nat
  /\ tx \in [Request -> {"none", "sent", "paid", "reverted"}]
  /\ pc \in [Request -> Holds \cup {"idle", "read", "admitted", "uncounting", "failed", "refused"}]
  /\ snap \in [Request \cup Admin -> Drop \cup {None}]
  /\ crashed \subseteq Request

Init ==
  /\ kind \in {"cards", "crowd"}
  /\ drop \in [paused: {FALSE}, ended: {FALSE}, closesAt: {Never} \cup Minutes]
  /\ count = 0
  /\ hold = [h \in Hold |-> "free"]
  /\ log = {}
  /\ now = 0 /\ pot = 0 /\ take = 0
  /\ tx = [r \in Request |-> "none"]
  /\ pc = [r \in Request |-> "idle"]
  /\ snap = [x \in Request \cup Admin |-> None]
  /\ crashed = {}

-----------------------------------------------------------------------------
(***************************************************************************)
(* One claim.  A request moves from `from' to `to' unless its server died. *)
(***************************************************************************)
Moves(r, from, to) ==
  /\ r \notin crashed
  /\ pc[r] = from
  /\ pc' = [pc EXCEPT ![r] = to]

\* Why a drop can't pay now.
Closed(d, claimed) ==
  \/ d.ended \/ d.paused
  \/ d.closesAt # Never /\ now > d.closesAt
  \/ kind = "crowd" /\ claimed >= Cap

\* byCode: a code that is one of ours, and the drop as it is now.
Read(r) ==
  /\ Moves(r, "idle", "read")
  /\ kind = "cards" => HoldOf[r] \in Card
  /\ snap' = [snap EXCEPT ![r] = drop]
  /\ UNCHANGED <<shared, chain, now, crashed>>

\* A signature that doesn't check out, or too many claims from one address.
TurnAway(r) ==
  /\ Moves(r, "read", "refused")
  /\ snap' = [snap EXCEPT ![r] = None]
  /\ UNCHANGED <<shared, chain, now, crashed>>

\* The drop it read earlier, against the count and the time now.
Admit(r) ==
  /\ Moves(r, "read", IF Closed(snap[r], count) THEN "refused" ELSE "admitted")
  /\ snap' = [snap EXCEPT ![r] = None]
  /\ UNCHANGED <<shared, chain, now, crashed>>

\* Mutant: SET without NX.
ReserveBlind(r) ==
  /\ Moves(r, "admitted", "reserved")
  /\ hold' = [hold EXCEPT ![HoldOf[r]] = "pending"]
  /\ UNCHANGED <<kind, drop, count, log, chain, now, snap, crashed>>

Reserve(r) ==
  /\ \/ /\ hold[HoldOf[r]] = "free"
        /\ Moves(r, "admitted", "reserved")
        /\ hold' = [hold EXCEPT ![HoldOf[r]] = "pending"]
     \/ /\ hold[HoldOf[r]] # "free"
        /\ Moves(r, "admitted", "refused")
        /\ UNCHANGED hold
  /\ UNCHANGED <<kind, drop, count, log, chain, now, snap, crashed>>

\* Mutant: one place too many.
FullLate(n) == kind = "crowd" /\ n > Cap + 1
Full(n) == kind = "crowd" /\ n > Cap

Count(r) ==
  /\ Moves(r, "reserved", IF Full(count + 1) THEN "freeing" ELSE "counted")
  /\ count' = count + 1
  /\ UNCHANGED <<kind, drop, hold, log, chain, now, snap, crashed>>

\* sendUsdc and sendEth read the pot's balance, which may be gone by the time
\* their transaction lands, and may fail for reasons of their own.
CheckPot(r) ==
  /\ \/ pot > 0 /\ Moves(r, "counted", "funded")
     \/ Moves(r, "counted", "freeing")
  /\ UNCHANGED <<shared, chain, now, snap, crashed>>

Broadcast(r) ==
  /\ tx' = [tx EXCEPT ![r] = "sent"]
  /\ UNCHANGED <<pot, take>>

\* The transaction goes out; or it is refused before it does; or it goes out
\* and the sender never hears (or fails to store the pot's nonce), which to
\* claim is a failed send.
Send(r) ==
  /\ \/ Moves(r, "funded", "waiting") /\ Broadcast(r)
     \/ Moves(r, "funded", "freeing") /\ UNCHANGED chain
     \/ /\ "lost answer" \in Faults
        /\ Moves(r, "funded", "freeing")
        /\ Broadcast(r)
  /\ UNCHANGED <<shared, now, snap, crashed>>

\* Mutant: no receipt in time counts as a failure.
LandedImpatient(r) ==
  /\ \/ Moves(r, "waiting", "freeing")
     \/ tx[r] = "paid" /\ Moves(r, "waiting", "recording")
  /\ UNCHANGED <<shared, chain, now, snap, crashed>>

\* Mutant: the wait has no end.
LandedPatient(r) ==
  /\ \/ tx[r] = "reverted" /\ Moves(r, "waiting", "freeing")
     \/ tx[r] = "paid" /\ Moves(r, "waiting", "recording")
  /\ UNCHANGED <<shared, chain, now, snap, crashed>>

\* A receipt of failure gives the reservation back; any other, or none in
\* 45 s, counts as sent.
Landed(r) ==
  /\ \/ tx[r] = "reverted" /\ Moves(r, "waiting", "freeing")
     \/ Moves(r, "waiting", "recording")
  /\ UNCHANGED <<shared, chain, now, snap, crashed>>

\* Mutant: the record is not pushed to the log.
RecordUnlogged(r) ==
  /\ Moves(r, "recording", "claimed")
  /\ hold' = [hold EXCEPT ![HoldOf[r]] = "claimed"]
  /\ UNCHANGED <<kind, drop, count, log, chain, now, snap, crashed>>

Record(r) ==
  /\ Moves(r, "recording", "logging")
  /\ hold' = [hold EXCEPT ![HoldOf[r]] = "claimed"]
  /\ UNCHANGED <<kind, drop, count, log, chain, now, snap, crashed>>

Log(r) ==
  /\ Moves(r, "logging", "claimed")
  /\ log' = log \cup {r}
  /\ UNCHANGED <<kind, drop, count, hold, chain, now, snap, crashed>>

\* Mutant: the place under the cap is not given back.
FreeHoldOnly(r) ==
  /\ Moves(r, "freeing", "failed")
  /\ hold' = [hold EXCEPT ![HoldOf[r]] = "free"]
  /\ UNCHANGED <<kind, drop, count, log, chain, now, snap, crashed>>

\* release: the reservation, then the place under the cap.
Free(r) ==
  /\ Moves(r, "freeing", "uncounting")
  /\ hold' = [hold EXCEPT ![HoldOf[r]] = "free"]
  /\ UNCHANGED <<kind, drop, count, log, chain, now, snap, crashed>>

Uncount(r) ==
  /\ Moves(r, "uncounting", "failed")
  /\ count' = count - 1
  /\ UNCHANGED <<kind, drop, hold, log, chain, now, snap, crashed>>

\* The server stops, or a call to the store fails: nothing more is done.
Crash(r) ==
  /\ "crash" \in Faults
  /\ r \notin crashed /\ pc[r] \notin Over \cup {"idle"}
  /\ crashed' = crashed \cup {r}
  /\ UNCHANGED <<shared, chain, now, pc, snap>>

Claim(r) ==
  \/ TurnAway(r) \/ Admit(r) \/ Reserve(r) \/ Count(r) \/ CheckPot(r) \/ Send(r)
  \/ Landed(r) \/ Record(r) \/ Log(r) \/ Free(r) \/ Uncount(r)

-----------------------------------------------------------------------------
(***************************************************************************)
(* The giver: settings are read and written back whole.                    *)
(***************************************************************************)
\* Bound: a window that would outlast MaxTime is no window.
Windows == {t \in {now + m : m \in Minutes} : t < MaxTime}

\* Mutant: `ended' is set as it comes.
EditsReopen(d) ==
  [paused: BOOLEAN, ended: BOOLEAN, closesAt: {d.closesAt, Never} \cup Windows]

Edits(d) ==
  [paused: BOOLEAN, ended: {d.ended, TRUE}, closesAt: {d.closesAt, Never} \cup Windows]

OpenDrop(a) ==
  /\ snap[a] = None
  /\ snap' = [snap EXCEPT ![a] = drop]
  /\ UNCHANGED <<shared, chain, now, pc, crashed>>

\* updateDrop's save: the whole drop, as the giver read it but for the edit.
UpdateDrop(a) ==
  /\ snap[a] # None
  /\ \E d \in Edits(snap[a]) : drop' = d
  /\ snap' = [snap EXCEPT ![a] = None]
  /\ UNCHANGED <<kind, count, hold, log, chain, now, pc, crashed>>

TakeBack ==
  /\ take = 0 /\ pot > 0
  /\ take' = pot
  /\ UNCHANGED <<shared, pot, tx, now, pc, snap, crashed>>

-----------------------------------------------------------------------------
(***************************************************************************)
(* The chain, and time.                                                    *)
(***************************************************************************)
Land(r) ==
  /\ tx[r] = "sent"
  /\ IF pot > 0
     THEN tx' = [tx EXCEPT ![r] = "paid"] /\ pot' = pot - 1
     ELSE tx' = [tx EXCEPT ![r] = "reverted"] /\ UNCHANGED pot
  /\ UNCHANGED <<shared, take, now, pc, snap, crashed>>

LandTake ==
  /\ take > 0
  /\ pot' = IF pot >= take THEN pot - take ELSE pot
  /\ take' = 0
  /\ UNCHANGED <<shared, tx, now, pc, snap, crashed>>

TopUp ==
  /\ pot < MaxPot
  /\ pot' = pot + 1
  /\ UNCHANGED <<shared, tx, take, now, pc, snap, crashed>>

Tick ==
  /\ now < MaxTime
  /\ now' = now + 1
  /\ UNCHANGED <<shared, chain, pc, snap, crashed>>

Next ==
  \/ \E r \in Request : Read(r) \/ Claim(r) \/ Crash(r) \/ Land(r)
  \/ \E a \in Admin : OpenDrop(a) \/ UpdateDrop(a)
  \/ TakeBack \/ LandTake \/ TopUp \/ Tick

Spec == Init /\ [][Next]_vars

\* A call to the store, the RPC or the chain answers or fails, so a request
\* whose server stays up takes its next step.  The chain and the giver owe
\* nothing.
FairSpec == Spec /\ \A r \in Request : WF_vars(Claim(r))

-----------------------------------------------------------------------------
(***************************************************************************)
(* Properties.                                                             *)
(***************************************************************************)

\* What a request holds in the store is its own: a hold is taken exactly when
\* one request stands behind it, so the DEL of a release frees no one else's.
HolderIsUnique ==
  \A h \in Hold :
    /\ hold[h] = "free" => Holder(h) = {}
    /\ hold[h] # "free" => \E r \in Request : Holder(h) = {r}
    /\ hold[h] = "claimed" <=> Holder(h) \cap In({"logging", "claimed"}) # {}

\* The count is the number of places taken, whoever crashed while holding one.
CountIsPlaces == count = Cardinality(In(Counts))

\* However claims race, fail, retry or crash, one hold is paid once: a
\* transfer that may still land is never followed by another.
PaidAtMostOnce ==
  \A r, s \in Live : HoldOf[r] = HoldOf[s] => r = s

\* No more transfers than the cap (PLAN-drops.md: "40 claims max, whatever
\* happens"), though the count is read before a place is taken.
WithinCap == Cardinality(Live) <= Cap

\* With no claim under way, the count and the holds are those of the claims in the
\* log and of the ones that stopped on their way, and, unless the answer to a send
\* was lost, no other claim's transfer is out.
BooksBalance ==
  (\A r \in Request : pc[r] \in Over \cup {"idle"} \/ r \in crashed) =>
    /\ count = Cardinality(log \cup (crashed \cap In(Counts)))
    /\ {h \in Hold : hold[h] # "free"} = {HoldOf[r] : r \in log \cup (crashed \cap In(Holds))}
    /\ "lost answer" \notin Faults => Live \subseteq log \cup (crashed \cap In(Counts))

\* No hold stays pending: the claim is recorded, or the hold given back, even
\* if the chain never lands the transfer.
PendingSettles == \A h \in Hold : hold[h] = "pending" ~> hold[h] # "pending"

\* The drop has ended, and no session still has it open as it was before: such a
\* one, saved, would undo the end.
EndedForGood == drop.ended /\ \A a \in Admin : snap[a] = None \/ snap[a].ended

\* Whatever the givers' sessions save in whatever order, a claim that comes after
\* the end moves no money: only one that had read the drop before may still be
\* paid.  An end that another session may yet undo does not count.
EndedPaysNoOne ==
  \A r \in Request : [](EndedForGood /\ pc[r] = "idle" => [](tx[r] = "none"))
=============================================================================
