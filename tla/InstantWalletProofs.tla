------------------------- MODULE InstantWalletProofs -------------------------
(***************************************************************************)
(* Theorems about InstantWallet, for every set of keys, every batch and    *)
(* every delay.                                                            *)
(*                                                                         *)
(* First, what each function on storage keeps: its type, the count of the  *)
(* owners, the absence of limits without a key, the recovery's guardian.   *)
(* Then the stack: what a failure goes back to was sound when it was       *)
(* saved, so it still is.  Then one step per action.                       *)
(***************************************************************************)
EXTENDS InstantWallet, TLAPS, FiniteSetTheorems

-----------------------------------------------------------------------------
(***************************************************************************)
(* The inductive invariant.                                                *)
(***************************************************************************)
Counted(s) == s.ownerCount = Cardinality(Owners(s)) /\ s.ownerCount >= 1

NoStrayLimit(s) == \A k \in Key \ Signers(s), a \in Asset : s.allowance[k][a].limit = 0

\* q: no owner has signed since the proposal; t: the time.
LiveProposal(s, q, t) ==
  s.recovery.executeAfter # 0 =>
    /\ s.recovery.key \in Key
    /\ s.recovery.proposer \in s.guardians
    /\ s.recovery.executeAfter <= t + s.recoveryDelay
    /\ q

Sound(s, q, t) == Counted(s) /\ NoStrayLimit(s) /\ LiveProposal(s, q, t)

\* What an outside frame keeps below the top, a failure can go back to.
Restorable(f, t) ==
  /\ f.saved # <<>>
  /\ f.saved[1] \in Snapshot
  /\ Sound(f.saved[1].w, f.saved[1].g.quiet, t)

SoundStack(st, t) ==
  /\ st \in Seq(RunningFrame \cup OutsideFrame)
  /\ Len(st) >= 1
  /\ st[1].kind = "outside"
  /\ \A i \in 1 .. Len(st) - 1 : st[i].kind = "outside" => Restorable(st[i], t)

IInv ==
  /\ TypeOK
  /\ Sound(w, g.quiet, now)
  /\ SoundStack(stack, now)

-----------------------------------------------------------------------------
(***************************************************************************)
(* Updates of some of the fields of the storage.                           *)
(***************************************************************************)
LEMMA RoleUpdate ==
  ASSUME NEW s \in Storage, NEW r \in [Key -> Role \cup {"none"}], NEW c \in Int
  PROVE  [s EXCEPT !.role = r, !.ownerCount = c] \in Storage
BY DEF Storage

LEMMA AllowanceUpdate ==
  ASSUME NEW s \in Storage, NEW al \in [Key -> [Asset -> Allowance]]
  PROVE  [s EXCEPT !.allowance = al] \in Storage
BY DEF Storage

LEMMA BalanceUpdate ==
  ASSUME NEW s \in Storage, NEW b \in [Asset -> Nat], NEW n \in Nat
  PROVE  [s EXCEPT !.balance = b, !.gasAllowance = n] \in Storage
BY DEF Storage

LEMMA QueueUpdate ==
  ASSUME NEW s \in Storage, NEW q \in [QueueId -> Queued], NEW n \in Nat
  PROVE  [s EXCEPT !.queued = q, !.queueCount = n] \in Storage
BY DEF Storage

LEMMA RecoveryUpdate ==
  ASSUME NEW s \in Storage, NEW r \in Recovery
  PROVE  [s EXCEPT !.recovery = r] \in Storage
BY DEF Storage

LEMMA FreezeUpdate ==
  ASSUME NEW s \in Storage, NEW t \in Nat
  PROVE  [s EXCEPT !.frozenUntil = t] \in Storage
BY DEF Storage

LEMMA NonceUpdate ==
  ASSUME NEW s \in Storage, NEW n \in [Key -> Nat]
  PROVE  [s EXCEPT !.nonces = n] \in Storage
BY DEF Storage

LEMMA SettingUpdate ==
  ASSUME NEW s \in Storage, NEW d \in Nat, NEW off \in BOOLEAN
  PROVE  [s EXCEPT !.coldDelay = d] \in Storage /\ [s EXCEPT !.noTwoKeySkip = off] \in Storage
BY DEF Storage

LEMMA GuardianUpdate ==
  ASSUME NEW s \in Storage, NEW gs \in SUBSET Guardian, NEW d \in Nat
  PROVE  [s EXCEPT !.guardians = gs, !.recoveryDelay = d] \in Storage
BY DEF Storage

(***************************************************************************)
(* Soundness reads five fields: a change of the others keeps it.           *)
(***************************************************************************)
LEMMA SoundReads ==
  ASSUME NEW s \in Storage, NEW r \in Storage, NEW q \in BOOLEAN, NEW t \in Nat,
         Sound(s, q, t),
         r.role = s.role, r.ownerCount = s.ownerCount, r.allowance = s.allowance,
         r.guardians = s.guardians, r.recoveryDelay = s.recoveryDelay,
         r.recovery = s.recovery
  PROVE  Sound(r, q, t)
BY DEF Sound, Counted, NoStrayLimit, LiveProposal, Owners, Signers

LEMMA OneMore ==
  ASSUME NEW S, IsFiniteSet(S), NEW x, x \notin S
  PROVE  Cardinality(S \cup {x}) = Cardinality(S) + 1
BY FS_AddElement

LEMMA OneLess ==
  ASSUME NEW S, IsFiniteSet(S), NEW x \in S
  PROVE  Cardinality(S \ {x}) = Cardinality(S) - 1
BY FS_RemoveElement

LEMMA OwnersFinite ==
  ASSUME NEW s
  PROVE  /\ Owners(s) \subseteq Key /\ IsFiniteSet(Owners(s))
         /\ Cardinality(Owners(s)) \in Nat
<1>1. Owners(s) \subseteq Key
  BY DEF Owners
<1> QED
  BY <1>1, IdentityAssumption, FS_Subset, FS_CardinalityType

(***************************************************************************)
(* Signers.                                                                *)
(***************************************************************************)
LEMMA AddSignerSound ==
  ASSUME NEW s \in Storage, NEW q \in BOOLEAN, NEW t \in Nat, Sound(s, q, t),
         NEW k \in Key \ Signers(s), NEW role \in Role
  PROVE  AddSigner(s, k, role) \in Storage /\ Sound(AddSigner(s, k, role), q, t)
<1> DEFINE roles == [s.role EXCEPT ![k] = role]
           count == IF role = "owner" THEN s.ownerCount + 1 ELSE s.ownerCount
           r == AddSigner(s, k, role)
<1>1. s.role \in [Key -> Role \cup {"none"}] /\ s.ownerCount \in Int
  BY DEF Storage
<1>2. roles \in [Key -> Role \cup {"none"}] /\ count \in Int
  BY <1>1
<1>3. r = [s EXCEPT !.role = roles, !.ownerCount = count]
  BY DEF AddSigner
<1>4. /\ r.role = roles /\ r.ownerCount = count
      /\ r.allowance = s.allowance /\ r.guardians = s.guardians
      /\ r.recoveryDelay = s.recoveryDelay /\ r.recovery = s.recovery
  BY <1>3 DEF Storage
<1>5. r \in Storage
  <2> HIDE DEF roles, count, r
  <2> QED BY <1>2, <1>3, RoleUpdate
<1>6. Counted(r)
  <2>1. s.role[k] = "none"
    BY DEF Signers
  <2>2. Owners(r) = IF role = "owner" THEN Owners(s) \cup {k} ELSE Owners(s)
    BY <1>1, <1>4, <2>1 DEF Owners, Role
  <2>3. k \notin Owners(s)
    BY <2>1 DEF Owners
  <2>4. Cardinality(Owners(s) \cup {k}) = Cardinality(Owners(s)) + 1
    BY <2>3, OwnersFinite, OneMore
  <2> QED BY <2>2, <2>4, <1>4, OwnersFinite DEF Sound, Counted
<1>7. NoStrayLimit(r)
  BY <1>1, <1>4 DEF Sound, NoStrayLimit, Signers, Role
<1> QED BY <1>4, <1>5, <1>6, <1>7 DEF Sound, LiveProposal

LEMMA UpdateSignerSound ==
  ASSUME NEW s \in Storage, NEW q \in BOOLEAN, NEW t \in Nat, Sound(s, q, t),
         NEW k \in Signers(s), NEW role \in Role, ~(IsLastOwner(s, k) /\ role # "owner")
  PROVE  UpdateSigner(s, k, role) \in Storage /\ Sound(UpdateSigner(s, k, role), q, t)
<1> DEFINE roles == [s.role EXCEPT ![k] = role]
           count == CASE s.role[k] = "owner" /\ role # "owner" -> s.ownerCount - 1
                      [] s.role[k] # "owner" /\ role = "owner" -> s.ownerCount + 1
                      [] OTHER -> s.ownerCount
           r == UpdateSigner(s, k, role)
<1>1. s.role \in [Key -> Role \cup {"none"}] /\ s.ownerCount \in Int /\ k \in Key
  BY DEF Storage, Signers
<1>2. roles \in [Key -> Role \cup {"none"}] /\ count \in Int
  BY <1>1
<1>3. r = [s EXCEPT !.role = roles, !.ownerCount = count]
  BY DEF UpdateSigner
<1>4. /\ r.role = roles /\ r.ownerCount = count
      /\ r.allowance = s.allowance /\ r.guardians = s.guardians
      /\ r.recoveryDelay = s.recoveryDelay /\ r.recovery = s.recovery
  BY <1>3 DEF Storage
<1>5. r \in Storage
  <2> HIDE DEF roles, count, r
  <2> QED BY <1>2, <1>3, RoleUpdate
<1>6. Counted(r)
  <2>1. CASE s.role[k] = "owner" /\ role # "owner"
    <3>1. Owners(r) = Owners(s) \ {k} /\ k \in Owners(s)
      BY <1>1, <1>4, <2>1 DEF Owners
    <3>2. Cardinality(Owners(r)) = Cardinality(Owners(s)) - 1
      BY <3>1, OwnersFinite, OneLess
    <3>3. s.ownerCount # 1 /\ count = s.ownerCount - 1
      BY <2>1 DEF IsLastOwner
    <3> QED BY <3>2, <3>3, <1>1, <1>4, OwnersFinite DEF Sound, Counted
  <2>2. CASE s.role[k] # "owner" /\ role = "owner"
    <3>1. Owners(r) = Owners(s) \cup {k} /\ k \notin Owners(s)
      BY <1>1, <1>4, <2>2 DEF Owners
    <3>2. Cardinality(Owners(r)) = Cardinality(Owners(s)) + 1
      BY <3>1, OwnersFinite, OneMore
    <3> QED BY <2>2, <3>2, <1>1, <1>4, OwnersFinite DEF Sound, Counted
  <2>3. CASE (s.role[k] = "owner") = (role = "owner")
    <3>1. Owners(r) = Owners(s)
      BY <1>1, <1>4, <2>3 DEF Owners
    <3> QED BY <2>3, <3>1, <1>4 DEF Sound, Counted
  <2> QED BY <2>1, <2>2, <2>3
<1>7. NoStrayLimit(r)
  BY <1>1, <1>4 DEF Sound, NoStrayLimit, Signers, Role
<1> QED BY <1>4, <1>5, <1>6, <1>7 DEF Sound, LiveProposal

LEMMA RemoveSignerSound ==
  ASSUME NEW s \in Storage, NEW q \in BOOLEAN, NEW t \in Nat, Sound(s, q, t),
         NEW k \in Signers(s), ~IsLastOwner(s, k)
  PROVE  RemoveSigner(s, k) \in Storage /\ Sound(RemoveSigner(s, k), q, t)
<1> DEFINE roles == [s.role EXCEPT ![k] = "none"]
           count == IF s.role[k] = "owner" THEN s.ownerCount - 1 ELSE s.ownerCount
           cleared == [a \in Asset |-> IF s.allowance[k][a].limit # 0 THEN NoAllowance
                                       ELSE s.allowance[k][a]]
           limits == [s.allowance EXCEPT ![k] = cleared]
           mid == [s EXCEPT !.role = roles, !.ownerCount = count]
           r == RemoveSigner(s, k)
<1>1. /\ s.role \in [Key -> Role \cup {"none"}] /\ s.ownerCount \in Int /\ k \in Key
      /\ s.allowance \in [Key -> [Asset -> Allowance]]
  BY DEF Storage, Signers
<1>2. roles \in [Key -> Role \cup {"none"}] /\ count \in Int
  BY <1>1
<1>3. limits \in [Key -> [Asset -> Allowance]]
  <2>1. NoAllowance \in Allowance
    BY DEF NoAllowance, Allowance
  <2>2. cleared \in [Asset -> Allowance]
    BY <1>1, <2>1
  <2> HIDE DEF cleared
  <2> QED BY <1>1, <2>2
<1>4. r = [mid EXCEPT !.allowance = limits]
  BY DEF RemoveSigner
<1>5. /\ r.role = roles /\ r.ownerCount = count
      /\ r.allowance = limits /\ r.guardians = s.guardians
      /\ r.recoveryDelay = s.recoveryDelay /\ r.recovery = s.recovery
  <2> HIDE DEF roles, count, limits
  <2> QED BY <1>4 DEF Storage
<1>6. r \in Storage
  <2>1. mid \in Storage
    <3> HIDE DEF roles, count
    <3> QED BY <1>2, RoleUpdate
  <2> HIDE DEF mid, limits, r
  <2> QED BY <2>1, <1>3, <1>4, AllowanceUpdate
<1>7. Counted(r)
  <2>1. CASE s.role[k] = "owner"
    <3>1. Owners(r) = Owners(s) \ {k} /\ k \in Owners(s)
      BY <1>1, <1>5, <2>1 DEF Owners
    <3>2. Cardinality(Owners(r)) = Cardinality(Owners(s)) - 1
      BY <3>1, OwnersFinite, OneLess
    <3>3. s.ownerCount # 1 /\ count = s.ownerCount - 1
      BY <2>1 DEF IsLastOwner
    <3> QED BY <3>2, <3>3, <1>1, <1>5, OwnersFinite DEF Sound, Counted
  <2>2. CASE s.role[k] # "owner"
    <3>1. Owners(r) = Owners(s)
      BY <1>1, <1>5, <2>2 DEF Owners
    <3> QED BY <2>2, <3>1, <1>5 DEF Sound, Counted
  <2> QED BY <2>1, <2>2
<1>8. NoStrayLimit(r)
  <2>1. ASSUME NEW j \in Key \ Signers(r), NEW a \in Asset
        PROVE  r.allowance[j][a].limit = 0
    <3>1. CASE j = k
      BY <3>1, <1>1, <1>5 DEF NoAllowance
    <3>2. CASE j # k
      BY <3>2, <1>1, <1>5 DEF Sound, NoStrayLimit, Signers
    <3> QED BY <3>1, <3>2
  <2> QED BY <2>1 DEF NoStrayLimit
<1> QED BY <1>5, <1>6, <1>7, <1>8 DEF Sound, LiveProposal

(***************************************************************************)
(* Limits: a signer's limit may be anything, a spend leaves every limit.   *)
(***************************************************************************)
LEMMA SetLimitSound ==
  ASSUME NEW s \in Storage, NEW q \in BOOLEAN, NEW t \in Nat, Sound(s, q, t),
         NEW k \in Signers(s), NEW a \in Asset, NEW limit \in Nat
  PROVE  SetLimit(s, k, a, limit) \in Storage /\ Sound(SetLimit(s, k, a, limit), q, t)
<1> DEFINE al == [s.allowance[k][a] EXCEPT !.limit = limit]
           row == [s.allowance[k] EXCEPT ![a] = al]
           limits == [s.allowance EXCEPT ![k] = row]
           r == SetLimit(s, k, a, limit)
<1>1. s.allowance \in [Key -> [Asset -> Allowance]] /\ k \in Key
  BY DEF Storage, Signers
<1>2. al \in Allowance
  BY <1>1 DEF Allowance
<1>3. limits \in [Key -> [Asset -> Allowance]]
  <2> HIDE DEF al
  <2>1. row \in [Asset -> Allowance]
    BY <1>1, <1>2
  <2> HIDE DEF row
  <2> QED BY <1>1, <2>1
<1>4. r = [s EXCEPT !.allowance = limits]
  BY DEF SetLimit
<1>5. r \in Storage
  <2> HIDE DEF limits, r
  <2> QED BY <1>3, <1>4, AllowanceUpdate
<1>6. /\ r.role = s.role /\ r.ownerCount = s.ownerCount
      /\ r.allowance = limits /\ r.guardians = s.guardians
      /\ r.recoveryDelay = s.recoveryDelay /\ r.recovery = s.recovery
  <2> HIDE DEF limits
  <2> QED BY <1>4 DEF Storage
<1>7. \A j \in Key \ {k} : limits[j] = s.allowance[j]
  BY <1>1
<1>8. NoStrayLimit(r)
  <2> HIDE DEF limits, r
  <2> QED BY <1>6, <1>7 DEF Sound, NoStrayLimit, Signers
<1> QED BY <1>5, <1>6, <1>8 DEF Sound, Counted, LiveProposal, Owners

LEMMA SpendSound ==
  ASSUME NEW s \in Storage, NEW q \in BOOLEAN, NEW t \in Nat, Sound(s, q, t),
         NEW k \in Key, NEW a \in Asset, NEW n \in Nat
  PROVE  Spend(s, k, a, n, t) \in Storage /\ Sound(Spend(s, k, a, n, t), q, t)
<1> DEFINE old == s.allowance[k][a]
           al == IF WindowOver(old, t) THEN [old EXCEPT !.spent = n, !.windowStart = t]
                                       ELSE [old EXCEPT !.spent = @ + n]
           row == [s.allowance[k] EXCEPT ![a] = al]
           limits == [s.allowance EXCEPT ![k] = row]
           r == Spend(s, k, a, n, t)
<1>0. CASE n = 0
  BY <1>0 DEF Spend
<1>1. CASE n # 0
  <2>1. s.allowance \in [Key -> [Asset -> Allowance]]
    BY DEF Storage
  <2>2. al \in Allowance /\ al.limit = old.limit
    <3>1. old \in Allowance
      BY <2>1
    <3> HIDE DEF old
    <3>2. CASE WindowOver(old, t)
      BY <3>1, <3>2 DEF Allowance
    <3>3. CASE ~WindowOver(old, t)
      BY <3>1, <3>3 DEF Allowance
    <3> QED BY <3>2, <3>3
  <2>3. limits \in [Key -> [Asset -> Allowance]]
    <3> HIDE DEF al
    <3>1. row \in [Asset -> Allowance]
      BY <2>1, <2>2
    <3> HIDE DEF row
    <3> QED BY <2>1, <3>1
  <2>4. \A j \in Key, b \in Asset : limits[j][b].limit = s.allowance[j][b].limit
    <3> HIDE DEF al
    <3> QED BY <2>1, <2>2
  <2>5. r = [s EXCEPT !.allowance = limits]
    BY <1>1 DEF Spend
  <2>6. r \in Storage
    <3> HIDE DEF limits, r
    <3> QED BY <2>3, <2>5, AllowanceUpdate
  <2>7. /\ r.role = s.role /\ r.ownerCount = s.ownerCount
        /\ r.allowance = limits /\ r.guardians = s.guardians
        /\ r.recoveryDelay = s.recoveryDelay /\ r.recovery = s.recovery
    <3> HIDE DEF limits
    <3> QED BY <2>5 DEF Storage
  <2>8. NoStrayLimit(r)
    <3> HIDE DEF limits, r
    <3> QED BY <2>4, <2>7 DEF Sound, NoStrayLimit, Signers
  <2> QED BY <2>6, <2>7, <2>8 DEF Sound, Counted, LiveProposal, Owners
<1> QED BY <1>0, <1>1

(***************************************************************************)
(* Recovery, guardians, freeze, queue.                                     *)
(***************************************************************************)
\* After a cancellation nothing is proposed, whoever has signed.
LEMMA CancelRecoverySound ==
  ASSUME NEW s \in Storage, NEW q \in BOOLEAN, NEW p \in BOOLEAN, NEW t \in Nat,
         Sound(s, p, t)
  PROVE  /\ CancelRecovery(s) \in Storage /\ Sound(CancelRecovery(s), q, t)
         /\ CancelRecovery(s).role = s.role
         /\ CancelRecovery(s).recovery = NoRecovery
<1> DEFINE r == CancelRecovery(s)
<1>1. NoRecovery \in Recovery /\ NoRecovery.executeAfter = 0
  BY DEF NoRecovery, Recovery
<1>2. r = [s EXCEPT !.recovery = NoRecovery]
  BY DEF CancelRecovery
<1>3. r \in Storage
  <2> HIDE DEF r
  <2> QED BY <1>1, <1>2, RecoveryUpdate
<1>4. /\ r.role = s.role /\ r.ownerCount = s.ownerCount
      /\ r.allowance = s.allowance /\ r.recovery = NoRecovery
  BY <1>2 DEF Storage
<1> QED
  BY <1>1, <1>3, <1>4 DEF Sound, Counted, NoStrayLimit, LiveProposal, Owners, Signers

LEMMA SetGuardiansSound ==
  ASSUME NEW s \in Storage, NEW q \in BOOLEAN, NEW t \in Nat, Sound(s, q, t),
         NEW gs \in SUBSET Guardian, NEW delay \in Nat
  PROVE  SetGuardians(s, gs, delay) \in Storage /\ Sound(SetGuardians(s, gs, delay), q, t)
<1> DEFINE mid == CancelRecovery(s)
           r == SetGuardians(s, gs, delay)
<1>1. mid \in Storage /\ Sound(mid, q, t) /\ mid.recovery = NoRecovery
  BY CancelRecoverySound
<1>2. r = [mid EXCEPT !.guardians = gs, !.recoveryDelay = delay]
  BY DEF SetGuardians
<1> HIDE DEF mid, r
<1>3. r \in Storage
  BY <1>1, <1>2, GuardianUpdate
<1>4. /\ r.role = mid.role /\ r.ownerCount = mid.ownerCount
      /\ r.allowance = mid.allowance /\ r.recovery = mid.recovery
  BY <1>1, <1>2 DEF Storage
<1>5. Sound(r, q, t)
  BY <1>1, <1>4
    DEF Sound, Counted, NoStrayLimit, LiveProposal, Owners, Signers, NoRecovery
<1> QED BY <1>3, <1>5 DEF r

LEMMA FreezeSound ==
  ASSUME NEW s \in Storage, NEW q \in BOOLEAN, NEW t \in Nat, Sound(s, q, t)
  PROVE  Freeze(s, t) \in Storage /\ Sound(Freeze(s, t), q, t)
<1> DEFINE until == t + (IF s.recoveryDelay = 0 THEN SEVEN_DAYS ELSE s.recoveryDelay)
           end == IF until > s.frozenUntil THEN until ELSE s.frozenUntil
<1>1. end \in Nat
  BY TimingAssumption DEF Storage
<1>2. Freeze(s, t) = [s EXCEPT !.frozenUntil = end]
  BY DEF Freeze
<1> HIDE DEF end
<1> DEFINE r == Freeze(s, t)
<1> HIDE DEF r
<1>3. r \in Storage
  BY <1>1, <1>2, FreezeUpdate DEF r
<1>4. /\ r.role = s.role /\ r.ownerCount = s.ownerCount
      /\ r.allowance = s.allowance /\ r.guardians = s.guardians
      /\ r.recoveryDelay = s.recoveryDelay /\ r.recovery = s.recovery
  BY <1>2 DEF Storage, r
<1>5. Sound(r, q, t)
  BY <1>3, <1>4, SoundReads
<1> QED BY <1>3, <1>5 DEF r

LEMMA EnqueueSound ==
  ASSUME NEW s \in Storage, NEW q \in BOOLEAN, NEW t \in Nat, Sound(s, q, t),
         NEW k \in Key, NEW calls \in Seq(Call)
  PROVE  Enqueue(s, k, calls, t) \in Storage /\ Sound(Enqueue(s, k, calls, t), q, t)
<1> DEFINE entry == [executeAfter |-> t + s.coldDelay, proposer |-> k, calls |-> calls]
           all == [s.queued EXCEPT ![s.queueCount] = entry]
           r == Enqueue(s, k, calls, t)
<1>1. s.queued \in [QueueId -> Queued] /\ s.coldDelay \in Nat
      /\ s.queueCount \in Nat /\ s.queueCount + 1 \in Nat
  BY DEF Storage
<1>2. entry \in Queued
  BY <1>1 DEF Queued
<1>3. all \in [QueueId -> Queued]
  <2> HIDE DEF entry
  <2> QED BY <1>1, <1>2
<1>4. r = [s EXCEPT !.queued = all, !.queueCount = s.queueCount + 1]
  BY DEF Enqueue, Storage
<1> HIDE DEF all, r
<1>5. r \in Storage
  BY <1>1, <1>3, <1>4, QueueUpdate
<1>6. /\ r.role = s.role /\ r.ownerCount = s.ownerCount
      /\ r.allowance = s.allowance /\ r.guardians = s.guardians
      /\ r.recoveryDelay = s.recoveryDelay /\ r.recovery = s.recovery
  BY <1>4 DEF Storage
<1>7. Sound(r, q, t)
  BY <1>5, <1>6, SoundReads
<1> QED BY <1>5, <1>7 DEF r

LEMMA DequeueSound ==
  ASSUME NEW s \in Storage, NEW q \in BOOLEAN, NEW t \in Nat, Sound(s, q, t),
         NEW id \in QueueId
  PROVE  Dequeue(s, id) \in Storage /\ Sound(Dequeue(s, id), q, t)
<1> DEFINE all == [s.queued EXCEPT ![id] = NotQueued]
           r == Dequeue(s, id)
<1>1. s.queued \in [QueueId -> Queued] /\ s.queueCount \in Nat
  BY DEF Storage
<1>2. NotQueued \in Queued
  <2>1. << >> \in Seq(Call)
    OBVIOUS
  <2> QED BY <2>1 DEF NotQueued, Queued
<1>3. all \in [QueueId -> Queued]
  BY <1>1, <1>2
<1>4. r = [s EXCEPT !.queued = all, !.queueCount = s.queueCount]
  BY DEF Dequeue, Storage
<1> HIDE DEF all, r
<1>5. r \in Storage
  BY <1>1, <1>3, <1>4, QueueUpdate
<1>6. /\ r.role = s.role /\ r.ownerCount = s.ownerCount
      /\ r.allowance = s.allowance /\ r.guardians = s.guardians
      /\ r.recoveryDelay = s.recoveryDelay /\ r.recovery = s.recovery
  BY <1>4 DEF Storage
<1>7. Sound(r, q, t)
  BY <1>5, <1>6, SoundReads
<1> QED BY <1>5, <1>7 DEF r

LEMMA RefillGasSound ==
  ASSUME NEW s \in Storage, NEW q \in BOOLEAN, NEW t \in Nat, Sound(s, q, t), NEW k \in Key
  PROVE  RefillGas(s, k, t) \in Storage /\ Sound(RefillGas(s, k, t), q, t)
<1> DEFINE need == GAS_ALLOWANCE - s.gasAllowance
           full == [s EXCEPT !.gasAllowance = GAS_ALLOWANCE]
<1>1. GAS_ALLOWANCE \in Nat /\ s.gasAllowance \in Nat /\ s.balance \in [Asset -> Nat]
  BY TimingAssumption DEF Storage
<1>2. full \in Storage /\ Sound(full, q, t)
  <2>1. full = [s EXCEPT !.balance = s.balance, !.gasAllowance = GAS_ALLOWANCE]
    BY DEF Storage
  <2> HIDE DEF full
  <2>2. full \in Storage
    BY <1>1, <2>1, BalanceUpdate
  <2>3. /\ full.role = s.role /\ full.ownerCount = s.ownerCount
        /\ full.allowance = s.allowance /\ full.guardians = s.guardians
        /\ full.recoveryDelay = s.recoveryDelay /\ full.recovery = s.recovery
    BY <2>1 DEF Storage
  <2> QED BY <2>2, <2>3, SoundReads
<1> HIDE DEF full
<1>3. CASE 2 * s.gasAllowance >= GAS_ALLOWANCE
  BY <1>1, <1>3 DEF RefillGas
<1>4. CASE 2 * s.gasAllowance < GAS_ALLOWANCE
  <2>1. need \in Nat /\ USDC \in Asset
    BY <1>1, <1>4, IdentityAssumption
  <2>2. RefillGas(s, k, t) \in {s, full, Spend(full, k, USDC, need, t)}
    BY <1>1, <1>4 DEF RefillGas, full
  <2> HIDE DEF need
  <2>3. Spend(full, k, USDC, need, t) \in Storage /\ Sound(Spend(full, k, USDC, need, t), q, t)
    BY <1>2, <2>1, SpendSound
  <2> QED BY <1>2, <2>2, <2>3
<1> QED BY <1>1, <1>3, <1>4

-----------------------------------------------------------------------------
(***************************************************************************)
(* The stack.                                                              *)
(***************************************************************************)
\* The wallet is entered: a sound state is saved under the new frame.
LEMMA EnterSound ==
  ASSUME NEW t \in Nat, NEW st, SoundStack(st, t), NEW f \in RunningFrame,
         NEW snapshot \in Snapshot, Sound(snapshot.w, snapshot.g.quiet, t)
  PROVE  SoundStack(Append([st EXCEPT ![Len(st)] = Outside(<<snapshot>>)], f), t)
<1> DEFINE mid == [st EXCEPT ![Len(st)] = Outside(<<snapshot>>)]
           r == Append(mid, f)
<1>1. st \in Seq(RunningFrame \cup OutsideFrame) /\ Len(st) >= 1 /\ Len(st) \in Nat
  BY DEF SoundStack
<1>2. <<snapshot>> \in Seq(Snapshot)
  OBVIOUS
<1>3. Outside(<<snapshot>>) \in OutsideFrame /\ Outside(<<snapshot>>).kind = "outside"
  BY <1>2 DEF Outside, OutsideFrame
<1>4. /\ mid \in Seq(RunningFrame \cup OutsideFrame) /\ Len(mid) = Len(st)
      /\ mid[Len(st)] = Outside(<<snapshot>>)
      /\ \A i \in 1 .. Len(st) - 1 : mid[i] = st[i]
  BY <1>1, <1>3
<1>5. Restorable(Outside(<<snapshot>>), t)
  BY DEF Restorable, Outside
<1>6. /\ r \in Seq(RunningFrame \cup OutsideFrame) /\ Len(r) = Len(st) + 1
      /\ \A i \in 1 .. Len(st) - 1 : r[i] = st[i]
      /\ r[Len(st)] = Outside(<<snapshot>>)
  <2> HIDE DEF mid
  <2> QED BY <1>1, <1>4
<1> HIDE DEF r, mid
<1>7. r[1].kind = "outside"
  BY <1>1, <1>3, <1>6 DEF SoundStack
<1>8. \A i \in 1 .. Len(r) - 1 : r[i].kind = "outside" => Restorable(r[i], t)
  BY <1>1, <1>5, <1>6 DEF SoundStack
<1> QED BY <1>1, <1>6, <1>7, <1>8 DEF SoundStack, r, mid

\* The running frame on the top changes: it is not the sender's.
LEMMA ReplaceTopSound ==
  ASSUME NEW t \in Nat, NEW st, SoundStack(st, t), st[Len(st)].kind # "outside",
         NEW f \in RunningFrame
  PROVE  SoundStack([st EXCEPT ![Len(st)] = f], t)
<1> DEFINE r == [st EXCEPT ![Len(st)] = f]
<1>1. /\ st \in Seq(RunningFrame \cup OutsideFrame) /\ Len(st) >= 1 /\ Len(st) \in Nat
      /\ Len(st) # 1
  BY DEF SoundStack
<1>2. r \in Seq(RunningFrame \cup OutsideFrame) /\ Len(r) = Len(st)
  BY <1>1
<1>3. \A i \in 1 .. Len(st) - 1 : r[i] = st[i]
  BY <1>1
<1> HIDE DEF r
<1>4. \A i \in 1 .. Len(r) - 1 : r[i].kind = "outside" => Restorable(r[i], t)
  BY <1>1, <1>2, <1>3 DEF SoundStack
<1>5. r[1].kind = "outside"
  BY <1>1, <1>3 DEF SoundStack
<1> QED BY <1>1, <1>2, <1>4, <1>5 DEF SoundStack, r

\* A running frame is left below a new one.
LEMMA PushSound ==
  ASSUME NEW t \in Nat, NEW st, SoundStack(st, t), st[Len(st)].kind # "outside",
         NEW f \in RunningFrame \cup OutsideFrame
  PROVE  SoundStack(Append(st, f), t)
<1> DEFINE r == Append(st, f)
<1>1. st \in Seq(RunningFrame \cup OutsideFrame) /\ Len(st) >= 1 /\ Len(st) \in Nat
  BY DEF SoundStack
<1>2. r \in Seq(RunningFrame \cup OutsideFrame) /\ Len(r) = Len(st) + 1
  BY <1>1
<1>3. \A i \in 1 .. Len(st) : r[i] = st[i]
  BY <1>1
<1> HIDE DEF r
<1>4. \A i \in 1 .. Len(r) - 1 : r[i].kind = "outside" => Restorable(r[i], t)
  BY <1>1, <1>2, <1>3 DEF SoundStack
<1> QED BY <1>1, <1>2, <1>3, <1>4 DEF SoundStack, r

\* The frames above the n-th are gone.
LEMMA TruncateSound ==
  ASSUME NEW t \in Nat, SoundStack(stack, t), NEW n \in 1 .. Len(stack) - 1
  PROVE  SoundStack(Truncate(n), t)
<1> DEFINE s == SubSeq(stack, 1, n)
           r == Truncate(n)
<1>1. stack \in Seq(RunningFrame \cup OutsideFrame) /\ Len(stack) \in Nat
  BY DEF SoundStack
<1>2. /\ s \in Seq(RunningFrame \cup OutsideFrame) /\ Len(s) = n /\ n \in Nat /\ n >= 1
      /\ \A i \in 1 .. n : s[i] = stack[i]
  BY <1>1
<1>3. Outside(<<>>) \in OutsideFrame /\ Outside(<<>>).kind = "outside"
  BY DEF Outside, OutsideFrame
<1>4. /\ r \in Seq(RunningFrame \cup OutsideFrame) /\ Len(r) = n
      /\ \A i \in 1 .. n - 1 : r[i] = stack[i]
      /\ r[n].kind = stack[n].kind
  <2> HIDE DEF s
  <2>1. r = IF s[n].kind = "outside" THEN [s EXCEPT ![n] = Outside(<<>>)] ELSE s
    BY DEF Truncate, s
  <2> HIDE DEF r
  <2>2. CASE s[n].kind = "outside"
    BY <1>2, <1>3, <2>1, <2>2
  <2>3. CASE s[n].kind # "outside"
    BY <1>2, <2>1, <2>3
  <2> QED BY <2>2, <2>3
<1> HIDE DEF r
<1>5. \A i \in 1 .. Len(r) - 1 : r[i].kind = "outside" => Restorable(r[i], t)
  <2> SUFFICES ASSUME NEW i \in 1 .. Len(r) - 1, r[i].kind = "outside"
               PROVE  Restorable(r[i], t)
    OBVIOUS
  <2>1. i \in 1 .. n - 1 /\ i \in 1 .. Len(stack) - 1
    BY <1>1, <1>2, <1>4
  <2>2. r[i] = stack[i]
    BY <1>4, <2>1
  <2>3. \A j \in 1 .. Len(stack) - 1 : stack[j].kind = "outside" => Restorable(stack[j], t)
    BY DEF SoundStack
  <2> QED BY <2>1, <2>2, <2>3
<1>6. r[1].kind = "outside"
  <2>1. stack[1].kind = "outside"
    BY DEF SoundStack
  <2>2. CASE n = 1
    BY <1>4, <2>1, <2>2
  <2>3. CASE n # 1
    <3>1. 1 \in 1 .. n - 1
      BY <1>2, <2>3
    <3> QED BY <1>4, <2>1, <3>1
  <2> QED BY <2>2, <2>3
<1> QED BY <1>2, <1>4, <1>5, <1>6 DEF SoundStack, r

-----------------------------------------------------------------------------
(***************************************************************************)
(* The machine: every action keeps IInv.                                   *)
(***************************************************************************)
LEMMA CallFields ==
  ASSUME NEW c \in Call
  PROVE  /\ c.op = "send" => c.asset \in Asset /\ c.amount \in Nat
         /\ c.op \in {"addSigner", "updateSigner"} => c.key \in Key /\ c.role \in Role
         /\ c.op = "removeSigner" => c.key \in Key
         /\ c.op = "setLimit" => c.key \in Key /\ c.asset \in Asset /\ c.limit \in Nat
         /\ c.op = "setGuardians" => c.guardians \in SUBSET Guardian /\ c.delay \in Nat
         /\ c.op = "setColdDelay" => c.delay \in Nat
         /\ c.op = "setNoTwoKeySkip" => c.off \in BOOLEAN
         /\ c.op \in {"cancelQueued", "skipWait", "executeQueued"} => c.id \in QueueId
BY DEF Call

LEMMA FrameType ==
  ASSUME TypeOK, NEW kind \in {"dispatch", "queued"}, NEW k \in Key,
         NEW calls \in Seq(Call), NEW charge \in Seq(Call), NEW sponsored \in BOOLEAN
  PROVE  Frame(kind, k, calls, charge, sponsored) \in RunningFrame
BY DEF Frame, RunningFrame, TypeOK

LEMMA EnterKeeps ==
  ASSUME IInv, NEW f \in RunningFrame, Enter(f, w), now' = now
  PROVE  SoundStack(stack', now')
<1> DEFINE snapshot == [w |-> w, actor |-> actor, locked |-> locked, g |-> g]
<1>1. snapshot \in Snapshot /\ snapshot.w = w /\ snapshot.g = g
  BY DEF IInv, TypeOK, Snapshot
<1>2. stack' = Append([stack EXCEPT ![Len(stack)] = Outside(<<snapshot>>)], f)
  BY DEF Enter
<1> HIDE DEF snapshot
<1> QED BY <1>1, <1>2, EnterSound DEF IInv, TypeOK

\* _dispatch, from a sound storage s that differs from w at most in nonces.
LEMMA DispatchKeeps ==
  ASSUME IInv, NEW s \in Storage, Sound(s, g.quiet, now),
         NEW k \in Key, NEW calls \in Seq(Call), NEW sponsored \in BOOLEAN,
         Dispatch(s, w, k, calls, sponsored),
         now' = now, bundle' \in [open: BOOLEAN, ops: Seq(Op)]
  PROVE  IInv'
<1> DEFINE quiet == [g EXCEPT !.quiet = FALSE]
<1>1. /\ g.quiet \in BOOLEAN /\ now \in Nat /\ g \in History
      /\ quiet \in History /\ quiet.quiet = FALSE
  BY DEF IInv, TypeOK, History
<1>2. /\ CancelRecovery(s) \in Storage /\ Sound(CancelRecovery(s), FALSE, now)
  BY <1>1, CancelRecoverySound
<1>3. <<>> \in Seq(Call)
  OBVIOUS
<1>4. /\ Frame("dispatch", k, calls, <<>>, sponsored) \in RunningFrame
      /\ Frame("dispatch", k, calls, calls, sponsored) \in RunningFrame
  BY <1>3, FrameType DEF IInv
<1>5. CASE OwnerQueues(s, k, calls)
  <2>1. w' \in Storage /\ Sound(w', FALSE, now)
    BY <1>1, <1>2, <1>5, EnqueueSound DEF OwnerQueues
  <2>2. /\ g' = quiet /\ actor' = NoOne /\ locked' = locked /\ stack' = stack
    BY <1>5 DEF OwnerQueues
  <2> HIDE DEF quiet
  <2> QED BY <1>1, <2>1, <2>2 DEF IInv, TypeOK
<1>6. CASE OwnerRuns(s, w, k, calls, sponsored)
  <2>1. /\ w' = CancelRecovery(s) /\ g' = quiet /\ actor' = k /\ locked' = TRUE
        /\ Enter(Frame("dispatch", k, calls, <<>>, sponsored), w)
    BY <1>6 DEF OwnerRuns
  <2>2. SoundStack(stack', now')
    BY <1>4, <2>1, EnterKeeps
  <2> HIDE DEF quiet
  <2> QED BY <1>1, <1>2, <2>1, <2>2 DEF IInv, TypeOK, SoundStack
<1>7. CASE SpenderRuns(s, w, k, calls, sponsored)
  <2>1. /\ w' = s /\ g' = g /\ actor' = k /\ locked' = TRUE
        /\ Enter(Frame("dispatch", k, calls, calls, sponsored), w)
    BY <1>7 DEF SpenderRuns
  <2>2. SoundStack(stack', now')
    BY <1>4, <2>1, EnterKeeps
  <2> QED BY <1>1, <2>1, <2>2 DEF IInv, TypeOK, SoundStack
<1> QED BY <1>5, <1>6, <1>7 DEF Dispatch

LEMMA MetaKeeps ==
  ASSUME IInv, NEW k \in Key, NEW calls \in Seq(Call), Meta(k, calls)
  PROVE  IInv'
<1> DEFINE nonces == [w.nonces EXCEPT ![k] = @ + 1]
           s == [w EXCEPT !.nonces[k] = @ + 1]
<1>1. w \in Storage /\ w.nonces \in [Key -> Nat] /\ now \in Nat /\ g.quiet \in BOOLEAN
  BY DEF IInv, TypeOK, Storage, History
<1>2. nonces \in [Key -> Nat] /\ s = [w EXCEPT !.nonces = nonces]
  BY <1>1
<1>3. /\ s.role = w.role /\ s.ownerCount = w.ownerCount
      /\ s.allowance = w.allowance /\ s.guardians = w.guardians
      /\ s.recoveryDelay = w.recoveryDelay /\ s.recovery = w.recovery
  BY <1>1 DEF Storage
<1>4. /\ Dispatch(s, w, k, calls, FALSE) /\ now' = now /\ bundle' = bundle
  BY DEF Meta
<1> HIDE DEF nonces, s
<1>5. s \in Storage
  BY <1>1, <1>2, NonceUpdate
<1>6. Sound(s, g.quiet, now)
  BY <1>1, <1>3, <1>5, SoundReads DEF IInv
<1>7. bundle' \in [open: BOOLEAN, ops: Seq(Op)]
  BY <1>4 DEF IInv, TypeOK
<1> QED BY <1>4, <1>5, <1>6, <1>7, DispatchKeeps

LEMMA MetaExecuteKeeps ==
  ASSUME IInv, MetaExecute
  PROVE  IInv'
BY MetaKeeps, BatchAssumption DEF MetaExecute

LEMMA MetaTransferKeeps ==
  ASSUME IInv, MetaTransfer
  PROVE  IInv'
<1>1. PICK k \in Key, a \in Asset, n \in TransferAmount :
        Meta(k, <<[op |-> "send", asset |-> a, amount |-> n]>>)
  BY DEF MetaTransfer
<1>2. n \in Nat
  BY BoundAssumption
<1>3. [op |-> "send", asset |-> a, amount |-> n] \in Call
  BY <1>2 DEF Call
<1>4. <<[op |-> "send", asset |-> a, amount |-> n]>> \in Seq(Call)
  BY <1>3
<1> QED BY <1>1, <1>4, MetaKeeps

(***************************************************************************)
(* Actions that change the storage and, of the rest, only what TypeOK      *)
(* bounds.                                                                 *)
(***************************************************************************)
LEMMA StorageStep ==
  ASSUME IInv, w' \in Storage, Sound(w', g'.quiet, now), g' \in History,
         actor' \in Key \cup {NoOne}, UNCHANGED <<now, locked, stack>>,
         bundle' \in [open: BOOLEAN, ops: Seq(Op)]
  PROVE  IInv'
BY DEF IInv, TypeOK

\* Money moves: nothing that soundness reads changes.
LEMMA PayStep ==
  ASSUME IInv, NEW b \in [Asset -> Nat], NEW n \in Nat,
         w' = [w EXCEPT !.balance = b, !.gasAllowance = n],
         UNCHANGED <<now, actor, locked, stack, g>>,
         bundle' \in [open: BOOLEAN, ops: Seq(Op)]
  PROVE  IInv'
<1>1. /\ w \in Storage /\ now \in Nat /\ g.quiet \in BOOLEAN /\ g \in History
      /\ Sound(w, g.quiet, now) /\ actor' \in Key \cup {NoOne}
  BY DEF IInv, TypeOK, History
<1>2. w' \in Storage
  BY <1>1, BalanceUpdate
<1>3. /\ w'.role = w.role /\ w'.ownerCount = w.ownerCount
      /\ w'.allowance = w.allowance /\ w'.guardians = w.guardians
      /\ w'.recoveryDelay = w.recoveryDelay /\ w'.recovery = w.recovery
  BY <1>1 DEF Storage
<1>4. Sound(w', g.quiet, now)
  BY <1>1, <1>2, <1>3, SoundReads
<1> QED BY <1>1, <1>2, <1>4, StorageStep

\* An amount that is there leaves a balance.
LEMMA Debited ==
  ASSUME NEW s \in Storage, NEW a \in Asset, NEW n \in Nat, n <= s.balance[a]
  PROVE  [s.balance EXCEPT ![a] = @ - n] \in [Asset -> Nat]
BY DEF Storage

LEMMA UserOpKeeps ==
  ASSUME IInv, UserOp
  PROVE  IInv'
<1>1. PICK k \in Key, calls \in Batch, sponsored \in BOOLEAN, permit \in BOOLEAN, fee \in Fee :
        ValidateUserOp(k, calls, sponsored, permit, fee)
  BY DEF UserOp
<1>2. /\ w \in Storage /\ fee \in Nat /\ ETH \in Asset /\ USDC \in Asset
      /\ calls \in Seq(Call) /\ GAS_ALLOWANCE \in Nat /\ w.gasAllowance \in Nat
      /\ w.balance \in [Asset -> Nat]
  BY BoundAssumption, IdentityAssumption, BatchAssumption, TimingAssumption
    DEF IInv, TypeOK, Storage
<1>3. bundle' \in [open: BOOLEAN, ops: Seq(Op)]
  <2>1. [who |-> k, calls |-> calls, sponsored |-> sponsored] \in Op
    BY <1>2 DEF Op
  <2>2. bundle \in [open: BOOLEAN, ops: Seq(Op)] /\ bundle.ops \in Seq(Op)
    BY DEF IInv, TypeOK
  <2>3. Append(bundle.ops, [who |-> k, calls |-> calls, sponsored |-> sponsored]) \in Seq(Op)
    BY <2>1, <2>2
  <2> QED BY <1>1, <2>2, <2>3 DEF ValidateUserOp
<1>4. UNCHANGED <<now, actor, locked, stack, g>>
  BY <1>1 DEF ValidateUserOp
<1>5. CASE PayInUsdc(k, fee, permit)
  <2> DEFINE standing == IF permit THEN GAS_ALLOWANCE ELSE w.gasAllowance
             b == [w.balance EXCEPT ![USDC] = @ - fee]
  <2>1. standing - fee \in Nat
    BY <1>2, <1>5 DEF PayInUsdc
  <2>2. b \in [Asset -> Nat]
    BY <1>2, <1>5, Debited DEF PayInUsdc
  <2>3. w' = [w EXCEPT !.balance = b, !.gasAllowance = standing - fee]
    BY <1>5 DEF PayInUsdc
  <2> HIDE DEF b, standing
  <2> QED BY <1>3, <1>4, <2>1, <2>2, <2>3, PayStep
<1>6. CASE PayInEth(fee)
  <2> DEFINE b == [w.balance EXCEPT ![ETH] = @ - fee]
  <2>1. b \in [Asset -> Nat]
    BY <1>2, <1>6, Debited DEF PayInEth
  <2>2. w' = [w EXCEPT !.balance = b, !.gasAllowance = w.gasAllowance]
    BY <1>2, <1>6 DEF PayInEth, Storage
  <2> HIDE DEF b
  <2> QED BY <1>2, <1>3, <1>4, <2>1, <2>2, PayStep
<1> QED BY <1>1, <1>5, <1>6 DEF ValidateUserOp

\* The next operation of a bundle is an operation, and so are the rest.
LEMMA BundleType ==
  ASSUME TypeOK, bundle.ops # <<>>, BundleAdvances
  PROVE  NextOp \in Op /\ bundle' \in [open: BOOLEAN, ops: Seq(Op)]
<1>1. bundle.ops \in Seq(Op)
  BY DEF TypeOK
<1>2. bundle.ops[1] \in Op /\ Tail(bundle.ops) \in Seq(Op)
  BY <1>1
<1> QED BY <1>2 DEF NextOp, BundleAdvances

LEMMA ExecuteUserOpKeeps ==
  ASSUME IInv, ExecuteUserOp
  PROVE  IInv'
<1>1. NextOp \in Op /\ bundle' \in [open: BOOLEAN, ops: Seq(Op)]
  BY BundleType DEF IInv, ExecuteUserOp
<1>2. NextOp.who \in Key /\ NextOp.calls \in Seq(Call) /\ NextOp.sponsored \in BOOLEAN
  BY <1>1 DEF Op
<1>3. w \in Storage /\ Sound(w, g.quiet, now)
  BY DEF IInv, TypeOK
<1>4. /\ Dispatch(w, w, NextOp.who, NextOp.calls, NextOp.sponsored) /\ now' = now
  BY DEF ExecuteUserOp
<1> QED BY <1>1, <1>2, <1>3, <1>4, DispatchKeeps

LEMMA UserOpFailsKeeps ==
  ASSUME IInv, UserOpFails
  PROVE  IInv'
<1>1. bundle' \in [open: BOOLEAN, ops: Seq(Op)]
  BY BundleType DEF IInv, UserOpFails
<1> QED BY <1>1 DEF IInv, TypeOK, UserOpFails

(***************************************************************************)
(* The queue, the guardians, recovery.                                     *)
(***************************************************************************)
\* An action that may run was queued by a key, and leaves the queue as it starts.
LEMMA StartQueuedKeeps ==
  ASSUME IInv, NEW id \in QueueId, CanRun(w, id, now), StartQueued(id)
  PROVE  /\ w' \in Storage /\ Sound(w', g'.quiet, now) /\ g' \in History
         /\ actor' \in Key \cup {NoOne}
         /\ QueuedFrame(id) \in RunningFrame
<1>1. /\ w \in Storage /\ now \in Nat /\ g \in History /\ g.quiet \in BOOLEAN
      /\ Sound(w, g.quiet, now) /\ w.queued \in [QueueId -> Queued]
  BY DEF IInv, TypeOK, History, Storage
<1>2. w.queued[id].proposer \in Key /\ w.queued[id].calls \in Seq(Call)
  BY <1>1 DEF CanRun, Signers, Queued
<1>3. w' = Dequeue(w, id) /\ actor' = w.queued[id].proposer
  BY DEF StartQueued
<1>4. g' \in History /\ g'.quiet = g.quiet
  <2>1. g.runs \in [QueueId -> Nat]
    BY <1>1 DEF History
  <2>2. [g.runs EXCEPT ![id] = @ + 1] \in [QueueId -> Nat]
    BY <2>1
  <2>3. g' = [g EXCEPT !.runs = [g.runs EXCEPT ![id] = @ + 1]]
    BY DEF StartQueued
  <2> QED BY <1>1, <2>2, <2>3 DEF History
<1>5. QueuedFrame(id) \in RunningFrame
  <2>1. <<>> \in Seq(Call)
    OBVIOUS
  <2> QED BY <1>2, <2>1, FrameType DEF QueuedFrame, IInv
<1> QED BY <1>1, <1>2, <1>3, <1>4, <1>5, DequeueSound

LEMMA ExecuteQueuedKeeps ==
  ASSUME IInv, ExecuteQueued
  PROVE  IInv'
<1>1. PICK id \in QueueId :
        /\ CanRun(w, id, now) /\ StartQueued(id) /\ Enter(QueuedFrame(id), w)
        /\ UNCHANGED <<now, locked, bundle>>
  BY DEF ExecuteQueued
<1>2. /\ w' \in Storage /\ Sound(w', g'.quiet, now) /\ g' \in History
      /\ actor' \in Key \cup {NoOne} /\ QueuedFrame(id) \in RunningFrame
  BY <1>1, StartQueuedKeeps
<1>3. SoundStack(stack', now')
  BY <1>1, <1>2, EnterKeeps
<1> QED BY <1>1, <1>2, <1>3 DEF IInv, TypeOK, SoundStack

LEMMA GuardianKeeps ==
  ASSUME IInv, GuardianCancel \/ GuardianFreeze
  PROVE  IInv'
<1>1. /\ w \in Storage /\ now \in Nat /\ g \in History /\ g.quiet \in BOOLEAN
      /\ Sound(w, g.quiet, now) /\ actor \in Key \cup {NoOne}
      /\ bundle \in [open: BOOLEAN, ops: Seq(Op)]
  BY DEF IInv, TypeOK, History
<1>2. UNCHANGED <<now, actor, locked, stack, bundle, g>>
  BY DEF GuardianCancel, GuardianFreeze
<1>3. w' \in Storage /\ Sound(w', g.quiet, now)
  <2>1. CASE GuardianCancel
    BY <1>1, <2>1, DequeueSound DEF GuardianCancel
  <2>2. CASE GuardianFreeze
    BY <1>1, <2>2, FreezeSound DEF GuardianFreeze
  <2> QED BY <2>1, <2>2
<1> QED BY <1>1, <1>2, <1>3, StorageStep

LEMMA StartRecoveryKeeps ==
  ASSUME IInv, StartRecovery
  PROVE  IInv'
<1>1. /\ w \in Storage /\ now \in Nat /\ g \in History /\ g.quiet \in BOOLEAN
      /\ Sound(w, g.quiet, now) /\ actor \in Key \cup {NoOne}
      /\ bundle \in [open: BOOLEAN, ops: Seq(Op)]
      /\ w.recoveryDelay \in Nat /\ w.guardians \subseteq Guardian
  BY DEF IInv, TypeOK, History, Storage
<1>2. PICK gd \in w.guardians, k \in Key \ Signers(w), old \in Signers(w) \cup {NoOne} :
        /\ w' = [w EXCEPT !.recovery = [replaces |-> old, key |-> k, proposer |-> gd,
                                        executeAfter |-> now + w.recoveryDelay]]
        /\ g' = [g EXCEPT !.quiet = TRUE]
        /\ UNCHANGED <<now, actor, locked, stack, bundle>>
  BY DEF StartRecovery
<1> DEFINE p == [replaces |-> old, key |-> k, proposer |-> gd,
                 executeAfter |-> now + w.recoveryDelay]
<1>3. p \in Recovery
  BY <1>1 DEF Recovery, Signers
<1>4. w' = [w EXCEPT !.recovery = p]
  BY <1>2
<1>5. /\ p.key \in Key /\ p.proposer \in w.guardians
      /\ p.executeAfter = now + w.recoveryDelay
  OBVIOUS
<1> HIDE DEF p
<1>6. w' \in Storage
  BY <1>1, <1>3, <1>4, RecoveryUpdate
<1>7. /\ w'.role = w.role /\ w'.ownerCount = w.ownerCount
      /\ w'.allowance = w.allowance /\ w'.guardians = w.guardians
      /\ w'.recoveryDelay = w.recoveryDelay /\ w'.recovery = p
  BY <1>1, <1>4 DEF Storage
<1>8. g' \in History /\ g'.quiet
  BY <1>1, <1>2 DEF History
<1>9. Sound(w', g'.quiet, now)
  BY <1>1, <1>5, <1>7, <1>8
    DEF Sound, Counted, NoStrayLimit, LiveProposal, Owners, Signers
<1> QED BY <1>1, <1>2, <1>6, <1>8, <1>9, StorageStep

\* The actions left without a proposer are noted; nothing else of the history changes.
LEMMA NoteOrphansType ==
  ASSUME g \in History, NoteOrphans
  PROVE  g' \in History /\ g'.quiet = g.quiet
<1>1. Orphans(w') \subseteq QueueId /\ g.orphaned \subseteq QueueId
  BY DEF Orphans, History
<1> QED BY <1>1 DEF NoteOrphans, History

LEMMA FinalizeRecoveryKeeps ==
  ASSUME IInv, FinalizeRecovery
  PROVE  IInv'
<1> DEFINE r == w.recovery
           s == CancelRecovery(w)
<1>1. /\ w \in Storage /\ now \in Nat /\ g \in History /\ g.quiet \in BOOLEAN
      /\ Sound(w, g.quiet, now) /\ actor \in Key \cup {NoOne}
      /\ bundle \in [open: BOOLEAN, ops: Seq(Op)]
      /\ w.role \in [Key -> Role \cup {"none"}]
  BY DEF IInv, TypeOK, History, Storage
<1>2. /\ r.key \in Key \ Signers(w) /\ NoteOrphans
      /\ UNCHANGED <<now, actor, locked, stack, bundle>>
  BY <1>1 DEF FinalizeRecovery, Sound, LiveProposal
<1>3. s \in Storage /\ Sound(s, g.quiet, now) /\ s.role = w.role
  BY <1>1, CancelRecoverySound
<1> HIDE DEF s
<1>4. Signers(s) = Signers(w)
  BY <1>3 DEF Signers
<1>5. w' \in Storage /\ Sound(w', g.quiet, now)
  <2>1. CASE r.replaces \in Signers(w)
    <3> DEFINE role == w.role[r.replaces]
               mid == AddSigner(s, r.key, role)
    <3>1. role \in Role /\ r.replaces \in Key
      BY <1>1, <2>1 DEF Signers
    <3>2. mid \in Storage /\ Sound(mid, g.quiet, now)
      BY <1>1, <1>2, <1>3, <1>4, <3>1, AddSignerSound
    <3>3. /\ mid.role = [s.role EXCEPT ![r.key] = role]
          /\ mid.ownerCount = IF role = "owner" THEN s.ownerCount + 1 ELSE s.ownerCount
      BY <1>3 DEF AddSigner, Storage
    <3>4. w' = RemoveSigner(mid, r.replaces)
      BY <2>1 DEF FinalizeRecovery, s
    <3>5. r.replaces # r.key
      BY <1>2, <2>1
    <3>6. r.replaces \in Signers(mid) /\ mid.role[r.replaces] = role
      BY <1>1, <1>3, <2>1, <3>1, <3>3, <3>5 DEF Signers, Role
    <3>7. ~IsLastOwner(mid, r.replaces)
      <4>1. s.ownerCount >= 1 /\ s.ownerCount \in Int
        BY <1>3 DEF Sound, Counted, Storage
      <4> QED BY <3>3, <3>6, <4>1 DEF IsLastOwner
    <3> HIDE DEF mid
    <3> QED BY <1>1, <3>2, <3>4, <3>6, <3>7, RemoveSignerSound
  <2>2. CASE r.replaces \notin Signers(w)
    <3>1. w' = AddSigner(s, r.key, "owner")
      BY <2>2 DEF FinalizeRecovery, s
    <3>2. "owner" \in Role
      BY DEF Role
    <3> QED BY <1>1, <1>2, <1>3, <1>4, <3>1, <3>2, AddSignerSound
  <2> QED BY <2>1, <2>2
<1>6. g' \in History /\ g'.quiet = g.quiet
  BY <1>1, <1>2, NoteOrphansType
<1> QED BY <1>1, <1>2, <1>5, <1>6, StorageStep

(***************************************************************************)
(* The world around the wallet.                                            *)
(***************************************************************************)
LEMMA WorldKeeps ==
  ASSUME IInv, World
  PROVE  IInv'
<1>1. /\ w \in Storage /\ now \in Nat /\ w.balance \in [Asset -> Nat]
      /\ w.gasAllowance \in Nat /\ bundle \in [open: BOOLEAN, ops: Seq(Op)]
  BY DEF IInv, TypeOK, Storage
<1>2. CASE Receive
  <2>1. PICK a \in Asset :
          /\ w' = [w EXCEPT !.balance[a] = @ + 1]
          /\ UNCHANGED <<now, actor, locked, stack, bundle, g>>
    BY <1>2 DEF Receive
  <2> DEFINE b == [w.balance EXCEPT ![a] = @ + 1]
  <2>2. b \in [Asset -> Nat]
    BY <1>1
  <2>3. w' = [w EXCEPT !.balance = b, !.gasAllowance = w.gasAllowance]
    BY <1>1, <2>1 DEF Storage
  <2> HIDE DEF b
  <2> QED BY <1>1, <2>1, <2>2, <2>3, PayStep
<1>3. CASE SignedPull
  <2>1. PICK a \in Asset, n \in TransferAmount :
          /\ n <= w.balance[a]
          /\ w' = [w EXCEPT !.balance[a] = @ - n]
          /\ UNCHANGED <<now, actor, locked, stack, bundle, g>>
    BY <1>3 DEF SignedPull
  <2> DEFINE b == [w.balance EXCEPT ![a] = @ - n]
  <2>2. n \in Nat
    BY BoundAssumption
  <2>3. b \in [Asset -> Nat]
    BY <1>1, <2>1, <2>2, Debited
  <2>4. w' = [w EXCEPT !.balance = b, !.gasAllowance = w.gasAllowance]
    BY <1>1, <2>1 DEF Storage
  <2> HIDE DEF b
  <2> QED BY <1>1, <2>1, <2>3, <2>4, PayStep
<1>4. CASE Tick
  <2>1. now' = now + 1 /\ UNCHANGED <<w, actor, locked, stack, bundle, g>> /\ Len(stack) = 1
    BY <1>4 DEF Tick, BetweenTransactions
  <2>2. Sound(w, g.quiet, now')
    <3>1. w.recovery.executeAfter \in Nat /\ w.recoveryDelay \in Nat
      BY <1>1 DEF Storage, Recovery
    <3> QED BY <1>1, <2>1, <3>1 DEF IInv, Sound, LiveProposal
  <2>3. SoundStack(stack, now')
    BY <2>1 DEF IInv, SoundStack
  <2> QED BY <1>1, <2>1, <2>2, <2>3 DEF IInv, TypeOK
<1> QED BY <1>2, <1>3, <1>4 DEF World

(***************************************************************************)
(* The running batch.                                                      *)
(***************************************************************************)
LEMMA RunningTop ==
  ASSUME IInv, Running
  PROVE  /\ Top \in RunningFrame /\ Top.kind # "outside"
         /\ Top.calls # <<>> =>
              /\ Top.calls[1] \in Call
              /\ [Top EXCEPT !.calls = Tail(@)] \in RunningFrame
         /\ Top.charge # <<>> =>
              /\ Top.charge[1] \in Call
              /\ [Top EXCEPT !.charge = Tail(@)] \in RunningFrame
<1>1. stack \in Seq(RunningFrame \cup OutsideFrame) /\ Len(stack) >= 1
  BY DEF IInv, SoundStack
<1>2. Top \in RunningFrame \cup OutsideFrame
  BY <1>1 DEF Top
<1>3. Top \in RunningFrame /\ Top.kind # "outside"
  BY <1>2 DEF Running, OutsideFrame
<1>4. Top.calls \in Seq(Call) /\ Top.charge \in Seq(Call)
  BY <1>3 DEF RunningFrame
<1>5. /\ Top.calls # <<>> => Top.calls[1] \in Call /\ Tail(Top.calls) \in Seq(Call)
      /\ Top.charge # <<>> => Top.charge[1] \in Call /\ Tail(Top.charge) \in Seq(Call)
  BY <1>4
<1> QED BY <1>3, <1>5 DEF RunningFrame

\* The stack after the head call, or the head charge, of the top frame.
LEMMA AdvanceKeeps ==
  ASSUME IInv, Running
  PROVE  /\ Top.calls # <<>> =>
              SoundStack([stack EXCEPT ![Len(stack)].calls = Tail(@)], now)
         /\ Top.charge # <<>> =>
              SoundStack([stack EXCEPT ![Len(stack)].charge = Tail(@)], now)
<1>1. now \in Nat /\ SoundStack(stack, now) /\ stack[Len(stack)].kind # "outside"
  BY RunningTop DEF IInv, TypeOK, Top
<1>2. /\ [stack EXCEPT ![Len(stack)].calls = Tail(@)]
           = [stack EXCEPT ![Len(stack)] = [Top EXCEPT !.calls = Tail(@)]]
      /\ [stack EXCEPT ![Len(stack)].charge = Tail(@)]
           = [stack EXCEPT ![Len(stack)] = [Top EXCEPT !.charge = Tail(@)]]
  BY DEF Top
<1> QED BY <1>1, <1>2, RunningTop, ReplaceTopSound

\* A frame above the advanced one.
LEMMA PushKeeps ==
  ASSUME IInv, Running, Top.calls # <<>>, NEW f \in RunningFrame \cup OutsideFrame
  PROVE  SoundStack(Append([stack EXCEPT ![Len(stack)].calls = Tail(@)], f), now)
<1> DEFINE st == [stack EXCEPT ![Len(stack)].calls = Tail(@)]
<1>1. now \in Nat /\ SoundStack(st, now)
  BY AdvanceKeeps DEF IInv, TypeOK
<1>2. st[Len(st)].kind # "outside"
  <2>1. stack \in Seq(RunningFrame \cup OutsideFrame) /\ Len(stack) >= 1
    BY DEF IInv, SoundStack
  <2>2. Len(st) = Len(stack) /\ st[Len(stack)] = [Top EXCEPT !.calls = Tail(@)]
    BY <2>1 DEF Top
  <2>3. Top \in RunningFrame /\ Top.kind # "outside"
    BY RunningTop
  <2>4. [Top EXCEPT !.calls = Tail(@)].kind = Top.kind
    BY <2>3 DEF RunningFrame
  <2> HIDE DEF st
  <2> QED BY <2>2, <2>3, <2>4
<1> HIDE DEF st
<1>3. SoundStack(Append(st, f), now)
  BY <1>1, <1>2, PushSound
<1> QED BY <1>3 DEF st

LEMMA ChargeKeeps ==
  ASSUME IInv, Charge
  PROVE  IInv'
<1>1. /\ Running /\ Top.charge # <<>> /\ NextCharge = Top.charge[1]
      /\ UNCHANGED <<now, actor, locked, bundle, g>>
      /\ stack' = [stack EXCEPT ![Len(stack)].charge = Tail(@)]
  BY DEF Charge, Charging, NextCharge
<1>2. /\ w \in Storage /\ Sound(w, g.quiet, now) /\ now \in Nat
      /\ g \in History /\ g.quiet \in BOOLEAN
  BY DEF IInv, TypeOK, History
<1>3. Top.who \in Key /\ NextCharge \in Call
  BY <1>1, RunningTop DEF RunningFrame
<1>4. w' \in Storage /\ Sound(w', g.quiet, now)
  <2>1. CASE w' = w
    BY <1>2, <2>1
  <2>2. CASE /\ NextCharge.op = "send"
             /\ w' = Spend(w, Top.who, NextCharge.asset, Cost(NextCharge), now)
    <3>1. NextCharge.asset \in Asset /\ Cost(NextCharge) \in Nat
      BY <1>3, <2>2, CallFields DEF Cost
    <3> QED BY <1>2, <1>3, <2>2, <3>1, SpendSound
  <2> QED BY <2>1, <2>2 DEF Charge
<1>5. SoundStack(stack', now)
  BY <1>1, AdvanceKeeps
<1> QED BY <1>1, <1>2, <1>4, <1>5 DEF IInv, TypeOK, SoundStack

\* Each self-call that passes its checks leaves the wallet sound.
LEMMA SelfCallSound ==
  ASSUME IInv, NEW c \in Call, Allowed(c), SelfCall(c)
  PROVE  w' \in Storage /\ Sound(w', g.quiet, now)
<1>1. /\ w \in Storage /\ Sound(w, g.quiet, now) /\ now \in Nat /\ g.quiet \in BOOLEAN
  BY DEF IInv, TypeOK, History
<1>2. CASE c.op = "addSigner" /\ w' = AddSigner(w, c.key, c.role)
  <2>1. c.key \in Key \ Signers(w) /\ c.role \in Role
    BY <1>2, CallFields DEF Allowed
  <2> QED BY <1>1, <1>2, <2>1, AddSignerSound
<1>3. CASE c.op = "updateSigner" /\ w' = UpdateSigner(w, c.key, c.role)
  <2>1. /\ c.key \in Signers(w) /\ c.role \in Role
        /\ ~(IsLastOwner(w, c.key) /\ c.role # "owner")
    BY <1>3, CallFields DEF Allowed
  <2> QED BY <1>1, <1>3, <2>1, UpdateSignerSound
<1>4. CASE c.op = "removeSigner" /\ w' = RemoveSigner(w, c.key)
  <2>1. c.key \in Signers(w) /\ ~IsLastOwner(w, c.key)
    BY <1>4 DEF Allowed
  <2> QED BY <1>1, <1>4, <2>1, RemoveSignerSound
<1>5. CASE c.op = "setLimit" /\ w' = SetLimit(w, c.key, c.asset, c.limit)
  <2>1. c.key \in Signers(w) /\ c.asset \in Asset /\ c.limit \in Nat
    BY <1>5, CallFields DEF Allowed
  <2> QED BY <1>1, <1>5, <2>1, SetLimitSound
<1>6. CASE c.op = "setGuardians" /\ w' = SetGuardians(w, c.guardians, c.delay)
  <2>1. c.guardians \in SUBSET Guardian /\ c.delay \in Nat
    BY <1>6, CallFields
  <2> QED BY <1>1, <1>6, <2>1, SetGuardiansSound
<1>7. CASE c.op = "cancelRecovery" /\ w' = CancelRecovery(w)
  BY <1>1, <1>7, CancelRecoverySound
<1>8. CASE c.op = "setColdDelay" /\ w' = [w EXCEPT !.coldDelay = c.delay]
  <2>1. w' \in Storage
    BY <1>1, <1>8, CallFields, SettingUpdate, FALSE \in BOOLEAN
  <2>2. /\ w'.role = w.role /\ w'.ownerCount = w.ownerCount
        /\ w'.allowance = w.allowance /\ w'.guardians = w.guardians
        /\ w'.recoveryDelay = w.recoveryDelay /\ w'.recovery = w.recovery
    BY <1>1, <1>8 DEF Storage
  <2> QED BY <1>1, <2>1, <2>2, SoundReads
<1>9. CASE c.op = "setNoTwoKeySkip" /\ w' = [w EXCEPT !.noTwoKeySkip = c.off]
  <2>1. w' \in Storage
    BY <1>1, <1>9, CallFields, SettingUpdate, 0 \in Nat
  <2>2. /\ w'.role = w.role /\ w'.ownerCount = w.ownerCount
        /\ w'.allowance = w.allowance /\ w'.guardians = w.guardians
        /\ w'.recoveryDelay = w.recoveryDelay /\ w'.recovery = w.recovery
    BY <1>1, <1>9 DEF Storage
  <2> QED BY <1>1, <2>1, <2>2, SoundReads
<1>10. CASE c.op = "cancelQueued" /\ w' = Dequeue(w, c.id)
  BY <1>1, <1>10, CallFields, DequeueSound
<1>11. CASE c.op = "freeze" /\ w' = Freeze(w, now)
  BY <1>1, <1>11, FreezeSound
<1>12. CASE c.op = "unfreeze" /\ w' = [w EXCEPT !.frozenUntil = 0]
  <2>1. w' \in Storage
    BY <1>1, <1>12, FreezeUpdate
  <2>2. /\ w'.role = w.role /\ w'.ownerCount = w.ownerCount
        /\ w'.allowance = w.allowance /\ w'.guardians = w.guardians
        /\ w'.recoveryDelay = w.recoveryDelay /\ w'.recovery = w.recovery
    BY <1>1, <1>12 DEF Storage
  <2> QED BY <1>1, <2>1, <2>2, SoundReads
<1> QED
  BY <1>2, <1>3, <1>4, <1>5, <1>6, <1>7, <1>8, <1>9, <1>10, <1>11, <1>12 DEF SelfCall

\* A call of the running batch is made by the frame on the top.
LEMMA CallingTop ==
  ASSUME IInv, Calling
  PROVE  Running /\ Top.calls # <<>> /\ NextCall \in Call /\ Top.who \in Key
BY RunningTop DEF Calling, NextCall, RunningFrame

LEMMA RunSelfCallKeeps ==
  ASSUME IInv, RunSelfCall
  PROVE  IInv'
<1>1. /\ Calling /\ Allowed(NextCall) /\ SelfCall(NextCall) /\ NoteOrphans /\ Advance
      /\ UNCHANGED <<now, actor, locked, bundle>>
  BY DEF RunSelfCall
<1>2. w' \in Storage /\ Sound(w', g.quiet, now)
  BY <1>1, CallingTop, SelfCallSound
<1>3. g' \in History /\ g'.quiet = g.quiet
  BY <1>1, NoteOrphansType DEF IInv, TypeOK
<1>4. SoundStack(stack', now)
  BY <1>1, CallingTop, AdvanceKeeps DEF Advance
<1> QED BY <1>1, <1>2, <1>3, <1>4 DEF IInv, TypeOK, SoundStack

LEMMA SkipWaitKeeps ==
  ASSUME IInv, SkipWait
  PROVE  IInv'
<1>1. /\ Calling /\ NextCall.op = "skipWait" /\ Advance
      /\ w' = [w EXCEPT !.queued[NextCall.id].executeAfter = now]
      /\ g' = [g EXCEPT !.cosigner[NextCall.id] = Top.who]
      /\ UNCHANGED <<now, actor, locked, bundle>>
  BY DEF SkipWait
<1>2. /\ w \in Storage /\ Sound(w, g.quiet, now) /\ now \in Nat
      /\ g \in History /\ g.quiet \in BOOLEAN
      /\ w.queued \in [QueueId -> Queued] /\ w.queueCount \in Nat
      /\ g.cosigner \in [QueueId -> Key \cup {NoOne}]
  BY DEF IInv, TypeOK, History, Storage
<1>3. NextCall.id \in QueueId /\ Top.who \in Key
  BY <1>1, CallingTop, CallFields
<1> DEFINE entry == [w.queued[NextCall.id] EXCEPT !.executeAfter = now]
           all == [w.queued EXCEPT ![NextCall.id] = entry]
           who == [g.cosigner EXCEPT ![NextCall.id] = Top.who]
<1>4. entry \in Queued
  BY <1>2, <1>3 DEF Queued
<1>5. all \in [QueueId -> Queued]
  <2> HIDE DEF entry
  <2> QED BY <1>2, <1>4
<1>6. w' = [w EXCEPT !.queued = all, !.queueCount = w.queueCount]
  BY <1>1, <1>2 DEF Storage
<1> HIDE DEF all
<1>7. w' \in Storage
  BY <1>2, <1>5, <1>6, QueueUpdate
<1>8. /\ w'.role = w.role /\ w'.ownerCount = w.ownerCount
      /\ w'.allowance = w.allowance /\ w'.guardians = w.guardians
      /\ w'.recoveryDelay = w.recoveryDelay /\ w'.recovery = w.recovery
  BY <1>2, <1>6 DEF Storage
<1>9. Sound(w', g.quiet, now)
  BY <1>2, <1>7, <1>8, SoundReads
<1>10. g' \in History /\ g'.quiet = g.quiet
  <2>1. who \in [QueueId -> Key \cup {NoOne}]
    BY <1>2, <1>3
  <2>2. g' = [g EXCEPT !.cosigner = who]
    BY <1>1
  <2> HIDE DEF who
  <2> QED BY <1>2, <2>1, <2>2 DEF History
<1>11. SoundStack(stack', now)
  BY <1>1, CallingTop, AdvanceKeeps DEF Advance
<1> QED BY <1>1, <1>7, <1>9, <1>10, <1>11 DEF IInv, TypeOK, SoundStack

LEMMA RunQueuedKeeps ==
  ASSUME IInv, RunQueued
  PROVE  IInv'
<1>1. /\ Calling /\ NextCall.op = "executeQueued" /\ Allowed(NextCall)
      /\ StartQueued(NextCall.id) /\ UNCHANGED <<now, locked, bundle>>
      /\ stack' = Append([stack EXCEPT ![Len(stack)].calls = Tail(@)],
                         QueuedFrame(NextCall.id))
  BY DEF RunQueued
<1>2. NextCall.id \in QueueId /\ CanRun(w, NextCall.id, now)
  BY <1>1, CallingTop, CallFields DEF Allowed
<1>3. /\ w' \in Storage /\ Sound(w', g'.quiet, now) /\ g' \in History
      /\ actor' \in Key \cup {NoOne} /\ QueuedFrame(NextCall.id) \in RunningFrame
  BY <1>1, <1>2, StartQueuedKeeps
<1>4. SoundStack(stack', now)
  BY <1>1, <1>3, CallingTop, PushKeeps
<1> QED BY <1>1, <1>3, <1>4 DEF IInv, TypeOK, SoundStack

LEMMA CallOutsideKeeps ==
  ASSUME IInv, CallOutside
  PROVE  IInv'
<1>1. /\ Calling /\ Allowed(NextCall) /\ UNCHANGED <<now, actor, locked, bundle, g>>
  BY DEF CallOutside
<1>2. /\ w \in Storage /\ Sound(w, g.quiet, now) /\ now \in Nat /\ g.quiet \in BOOLEAN
      /\ w.balance \in [Asset -> Nat] /\ w.gasAllowance \in Nat
  BY DEF IInv, TypeOK, History, Storage
<1>3. w' \in Storage /\ Sound(w', g.quiet, now)
  <2>1. CASE w' = w
    BY <1>2, <2>1
  <2>2. CASE /\ NextCall.op = "send"
             /\ w' = [w EXCEPT !.balance[NextCall.asset] = @ - NextCall.amount]
    <3> DEFINE b == [w.balance EXCEPT ![NextCall.asset] = @ - NextCall.amount]
    <3>1. /\ NextCall.asset \in Asset /\ NextCall.amount \in Nat
          /\ NextCall.amount <= w.balance[NextCall.asset]
      BY <1>1, <2>2, CallingTop, CallFields DEF Allowed
    <3>2. b \in [Asset -> Nat]
      BY <1>2, <3>1, Debited
    <3>3. w' = [w EXCEPT !.balance = b, !.gasAllowance = w.gasAllowance]
      BY <1>2, <2>2 DEF Storage
    <3> HIDE DEF b
    <3>4. w' \in Storage
      BY <1>2, <3>2, <3>3, BalanceUpdate
    <3>5. /\ w'.role = w.role /\ w'.ownerCount = w.ownerCount
          /\ w'.allowance = w.allowance /\ w'.guardians = w.guardians
          /\ w'.recoveryDelay = w.recoveryDelay /\ w'.recovery = w.recovery
      BY <1>2, <3>3 DEF Storage
    <3> QED BY <1>2, <3>4, <3>5, SoundReads
  <2> QED BY <2>1, <2>2 DEF CallOutside
<1>4. SoundStack(stack', now)
  <2>1. CASE Advance
    BY <1>1, <2>1, CallingTop, AdvanceKeeps DEF Advance
  <2>2. CASE stack' = Append([stack EXCEPT ![Len(stack)].calls = Tail(@)], Outside(<<>>))
    <3>1. Outside(<<>>) \in OutsideFrame
      BY DEF Outside, OutsideFrame
    <3> QED BY <1>1, <2>2, <3>1, CallingTop, PushKeeps
  <2> QED BY <2>1, <2>2 DEF CallOutside
<1> QED BY <1>1, <1>3, <1>4 DEF IInv, TypeOK, SoundStack

\* A frame above the sender's can be left.
LEMMA LeaveKeeps ==
  ASSUME IInv, Leave, ~BetweenTransactions
  PROVE  SoundStack(stack', now)
<1>1. Len(stack) \in Nat /\ Len(stack) >= 1 /\ now \in Nat /\ SoundStack(stack, now)
  BY DEF IInv, SoundStack, TypeOK
<1>2. Len(stack) - 1 \in 1 .. Len(stack) - 1
  <2>1. Len(stack) # 1
    BY DEF BetweenTransactions
  <2>2. \A n \in Nat : n >= 1 /\ n # 1 => n - 1 \in 1 .. n - 1
    OBVIOUS
  <2> QED BY <1>1, <2>1, <2>2
<1> QED BY <1>1, <1>2, TruncateSound DEF Leave

LEMMA CalleeReturnsKeeps ==
  ASSUME IInv, CalleeReturns
  PROVE  IInv'
<1>1. SoundStack(stack', now)
  BY LeaveKeeps DEF CalleeReturns
<1> QED BY <1>1 DEF CalleeReturns, IInv, TypeOK, SoundStack

LEMMA ReturnKeeps ==
  ASSUME IInv, Return
  PROVE  IInv'
<1>1. Running /\ Leave /\ UNCHANGED <<now, bundle, g>>
  BY DEF Return
<1>2. ~BetweenTransactions
  BY <1>1, RunningTop DEF IInv, SoundStack, BetweenTransactions, Top
<1>3. SoundStack(stack', now)
  BY <1>1, <1>2, LeaveKeeps
<1>4. /\ w \in Storage /\ Sound(w, g.quiet, now) /\ now \in Nat /\ g.quiet \in BOOLEAN
  BY DEF IInv, TypeOK, History
<1>5. Top.who \in Key /\ Top.outer \in Key \cup {NoOne}
  BY <1>1, RunningTop DEF RunningFrame
<1>6. /\ w' \in Storage /\ Sound(w', g.quiet, now)
      /\ actor' \in Key \cup {NoOne} /\ locked' \in BOOLEAN
  <2>1. CASE Top.kind = "queued" /\ actor' = Top.outer /\ UNCHANGED <<w, locked>>
    BY <1>4, <1>5, <2>1 DEF IInv, TypeOK
  <2>2. CASE /\ actor' = NoOne /\ locked' = FALSE
             /\ w' = IF Top.sponsored THEN RefillGas(w, Top.who, now) ELSE w
    BY <1>4, <1>5, <2>2, RefillGasSound
  <2> QED BY <2>1, <2>2 DEF Return
<1> QED BY <1>1, <1>3, <1>6 DEF IInv, TypeOK, SoundStack

LEMMA RevertKeeps ==
  ASSUME IInv, Revert
  PROVE  IInv'
<1>1. PICK n \in 1 .. Len(stack) - 1 :
        /\ stack[n].kind = "outside"
        /\ w' = stack[n].saved[1].w /\ actor' = stack[n].saved[1].actor
        /\ locked' = stack[n].saved[1].locked /\ g' = stack[n].saved[1].g
        /\ stack' = Truncate(n)
  BY DEF Revert
<1>2. UNCHANGED <<now, bundle>>
  BY DEF Revert
<1>3. Restorable(stack[n], now)
  BY <1>1 DEF IInv, SoundStack
<1>4. /\ w' \in Storage /\ Sound(w', g'.quiet, now) /\ g' \in History
      /\ actor' \in Key \cup {NoOne} /\ locked' \in BOOLEAN
  BY <1>1, <1>3 DEF Restorable, Snapshot
<1>5. SoundStack(stack', now)
  BY <1>1, TruncateSound DEF IInv, TypeOK
<1> QED BY <1>2, <1>4, <1>5 DEF IInv, TypeOK, SoundStack

-----------------------------------------------------------------------------
(***************************************************************************)
(* The invariant, and what it gives.                                       *)
(***************************************************************************)
LEMMA InitSound == Init => IInv
<1> SUFFICES ASSUME Init PROVE IInv
  OBVIOUS
<1>1. WINDOW \in Nat /\ Holding \in [Asset -> Nat] /\ FirstRecoveryDelay \in Nat
  BY TimingAssumption
<1>2. Initialized \in Storage
  <2>1. NoRecovery \in Recovery
    BY DEF NoRecovery, Recovery
  <2>2. <<>> \in Seq(Call)
    OBVIOUS
  <2>3. [i \in QueueId |-> NotQueued] \in [QueueId -> Queued]
    BY <2>2 DEF NotQueued, Queued
  <2>4. [k \in Key |-> [a \in Asset |-> NoAllowance]] \in [Key -> [Asset -> Allowance]]
    BY DEF NoAllowance, Allowance
  <2>5. [k \in Key |-> IF k = FirstKey THEN "owner" ELSE "none"] \in [Key -> Role \cup {"none"}]
    BY DEF Role
  <2>6. [k \in Key |-> 0] \in [Key -> Nat] /\ FirstGuardians \in SUBSET Guardian
    BY IdentityAssumption
  <2> QED BY <1>1, <2>1, <2>3, <2>4, <2>5, <2>6 DEF Initialized, Storage
<1>3. Sound(Initialized, TRUE, WINDOW)
  <2>1. Owners(Initialized) = {FirstKey}
    BY IdentityAssumption DEF Owners, Initialized
  <2>2. Cardinality({FirstKey}) = 1
    BY FS_Singleton
  <2>3. Counted(Initialized)
    BY <2>1, <2>2 DEF Counted, Initialized
  <2>4. NoStrayLimit(Initialized)
    BY DEF NoStrayLimit, Initialized, NoAllowance
  <2>5. LiveProposal(Initialized, TRUE, WINDOW)
    BY DEF LiveProposal, Initialized, NoRecovery
  <2> QED BY <2>3, <2>4, <2>5 DEF Sound
<1>4. stack \in Seq(RunningFrame \cup OutsideFrame) /\ SoundStack(stack, now)
  <2>1. Outside(<<>>) \in OutsideFrame /\ Outside(<<>>).kind = "outside"
    BY DEF Outside, OutsideFrame
  <2> HIDE DEF Init
  <2>2. stack = <<Outside(<<>>)>>
    BY DEF Init
  <2> QED BY <2>1, <2>2 DEF SoundStack
<1>5. bundle \in [open: BOOLEAN, ops: Seq(Op)]
  BY DEF Init
<1>6. g \in History /\ g.quiet = TRUE
  BY DEF Init, History
<1> QED BY <1>1, <1>2, <1>3, <1>4, <1>5, <1>6 DEF Init, IInv, TypeOK

LEMMA NextSound == IInv /\ [Next]_vars => IInv'
<1> SUFFICES ASSUME IInv, [Next]_vars PROVE IInv'
  OBVIOUS
<1>1. CASE MetaExecute
  BY <1>1, MetaExecuteKeeps
<1>2. CASE MetaTransfer
  BY <1>2, MetaTransferKeeps
<1>3. CASE UserOp
  BY <1>3, UserOpKeeps
<1>4. CASE ExecuteUserOp
  BY <1>4, ExecuteUserOpKeeps
<1>5. CASE UserOpFails
  BY <1>5, UserOpFailsKeeps
<1>6. CASE ExecuteQueued
  BY <1>6, ExecuteQueuedKeeps
<1>7. CASE GuardianCancel \/ GuardianFreeze
  BY <1>7, GuardianKeeps
<1>8. CASE StartRecovery
  BY <1>8, StartRecoveryKeeps
<1>9. CASE FinalizeRecovery
  BY <1>9, FinalizeRecoveryKeeps
<1>10. CASE Charge
  BY <1>10, ChargeKeeps
<1>11. CASE RunSelfCall
  BY <1>11, RunSelfCallKeeps
<1>12. CASE SkipWait
  BY <1>12, SkipWaitKeeps
<1>13. CASE RunQueued
  BY <1>13, RunQueuedKeeps
<1>14. CASE CallOutside
  BY <1>14, CallOutsideKeeps
<1>15. CASE CalleeReturns
  BY <1>15, CalleeReturnsKeeps
<1>16. CASE Return
  BY <1>16, ReturnKeeps
<1>17. CASE Revert
  BY <1>17, RevertKeeps
<1>18. CASE World
  BY <1>18, WorldKeeps
<1>19. CASE UNCHANGED vars
  BY <1>19 DEF vars, IInv, TypeOK, SoundStack
<1> QED
  BY <1>1, <1>2, <1>3, <1>4, <1>5, <1>6, <1>7, <1>8, <1>9, <1>10, <1>11, <1>12,
     <1>13, <1>14, <1>15, <1>16, <1>17, <1>18, <1>19 DEF Next, Enters, Runs

LEMMA AlwaysSound == Spec => []IInv
BY InitSound, NextSound, PTL DEF Spec

\* Types: every call, batch, revert and refill leaves storage, frames and bundle
\* well formed; no balance and no allowance is ever drawn below zero.
THEOREM TypeCorrect == Spec => []TypeOK
<1>1. IInv => TypeOK
  BY DEF IInv
<1> QED BY <1>1, AlwaysSound, PTL

\* ownerCount is the number of owners and some owner is always left, whatever the
\* batches add, demote and remove, whatever reverts, whoever is recovered.
THEOREM SomeOwnerIsLeft == Spec => []OwnersCounted
<1>1. IInv => OwnersCounted
  BY DEF IInv, Sound, Counted, OwnersCounted
<1> QED BY <1>1, AlwaysSound, PTL

\* A removed or never added key has no limit, so a key that is added back starts
\* with none.
THEOREM NoLimitOutlivesItsKey == Spec => []StrangersHaveNoLimit
<1>1. IInv => StrangersHaveNoLimit
  BY DEF IInv, Sound, NoStrayLimit, StrangersHaveNoLimit
<1> QED BY <1>1, AlwaysSound, PTL

\* A pending recovery belongs to a current guardian, is due within the current
\* delay, and no owner has signed since it was proposed.
THEOREM RecoveryIsLive == Spec => []PendingRecoveryIsLive
<1>1. IInv => PendingRecoveryIsLive
  BY DEF IInv, Sound, LiveProposal, PendingRecoveryIsLive
<1> QED BY <1>1, AlwaysSound, PTL

-----------------------------------------------------------------------------
(***************************************************************************)
(* Whoever calls back from wherever, a self-call is attributed to the key  *)
(* whose batch it is in.                                                   *)
(*                                                                         *)
(* _actor is one slot that every entry overwrites and every exit resets or *)
(* restores, so the property needs the whole stack: what each frame will   *)
(* find in _actor when it is on the top again.                             *)
(***************************************************************************)
\* Who _actor may name while frame i is on the top: its own key; during a call of an
\* outside contract, the key that made the call; or nobody, once a batch has ended.
MayBe(st, i) ==
  CASE st[i].kind # "outside" -> {st[i].who, NoOne}
    [] st[i].kind = "outside" /\ i > 1 -> {st[i - 1].who, NoOne}
    [] OTHER -> {NoOne}

Authors(st) ==
  /\ \A i \in 2 .. Len(st) :
       /\ st[i].kind = "outside" => st[i - 1].kind # "outside"
       /\ st[i].kind = "queued" => st[i].outer \in MayBe(st, i - 1)
  /\ \A i \in 1 .. Len(st) - 1 :
       st[i].kind = "outside" => st[i].saved[1].actor \in MayBe(st, i)

AuthorInv == Authors(stack) /\ actor \in MayBe(stack, Len(stack))

\* Up to frame n, r holds the frames of st with other calls left to run.
Like(r, st, n) ==
  \A j \in 1 .. n :
    /\ r[j].kind = st[j].kind
    /\ st[j].kind # "outside" => r[j].who = st[j].who /\ r[j].outer = st[j].outer

-----------------------------------------------------------------------------
(***************************************************************************)
(* The stack.                                                              *)
(***************************************************************************)
LEMMA MayBeLike ==
  ASSUME NEW r, NEW st, NEW n \in Nat, Like(r, st, n), NEW i \in 1 .. n,
         i > 1 /\ st[i].kind = "outside" => st[i - 1].kind # "outside"
  PROVE  MayBe(r, i) = MayBe(st, i)
<1>1. CASE st[i].kind # "outside"
  BY <1>1 DEF MayBe, Like
<1>2. CASE st[i].kind = "outside" /\ i > 1
  <2>1. i - 1 \in 1 .. n
    BY <1>2
  <2> QED BY <1>2, <2>1 DEF MayBe, Like
<1>3. CASE st[i].kind = "outside" /\ ~(i > 1)
  BY <1>3 DEF MayBe, Like
<1> QED BY <1>1, <1>2, <1>3

\* Frames are left, or the top one moves on.
LEMMA AuthorsBelow ==
  ASSUME NEW r, NEW st, Len(st) \in Nat, NEW n \in 1 .. Len(st),
         Authors(st), Len(r) = n, Like(r, st, n),
         \A j \in 1 .. n - 1 : st[j].kind = "outside" => r[j].saved = st[j].saved
  PROVE  /\ Authors(r)
         /\ \A i \in 1 .. n : MayBe(r, i) = MayBe(st, i)
<1>1. \A i \in 1 .. n : MayBe(r, i) = MayBe(st, i)
  <2>1. ASSUME NEW i \in 1 .. n
        PROVE  i > 1 /\ st[i].kind = "outside" => st[i - 1].kind # "outside"
    BY DEF Authors
  <2> QED BY <2>1, MayBeLike
<1>2. ASSUME NEW i \in 2 .. n
      PROVE  /\ r[i].kind = "outside" => r[i - 1].kind # "outside"
             /\ r[i].kind = "queued" => r[i].outer \in MayBe(r, i - 1)
  <2>1. i \in 1 .. n /\ i - 1 \in 1 .. n /\ i \in 2 .. Len(st)
    OBVIOUS
  <2> QED BY <1>1, <2>1 DEF Authors, Like
<1>3. ASSUME NEW i \in 1 .. n - 1, r[i].kind = "outside"
      PROVE  r[i].saved[1].actor \in MayBe(r, i)
  <2>1. i \in 1 .. n /\ i \in 1 .. Len(st) - 1
    OBVIOUS
  <2> QED BY <1>1, <1>3, <2>1 DEF Authors, Like
<1> QED BY <1>1, <1>2, <1>3 DEF Authors

\* A frame is added.
LEMMA AuthorsAbove ==
  ASSUME NEW r, NEW st, NEW n \in Nat, n >= 1, Len(st) = n, Len(r) = n + 1,
         Authors(st), Like(r, st, n),
         \A j \in 1 .. n - 1 : st[j].kind = "outside" => r[j].saved = st[j].saved,
         r[n].kind = "outside" => r[n].saved[1].actor \in MayBe(st, n),
         r[n + 1].kind = "outside" => r[n].kind # "outside",
         r[n + 1].kind = "queued" => r[n + 1].outer \in MayBe(st, n)
  PROVE  Authors(r)
<1>1. \A i \in 1 .. n : MayBe(r, i) = MayBe(st, i)
  <2>1. ASSUME NEW i \in 1 .. n
        PROVE  i > 1 /\ st[i].kind = "outside" => st[i - 1].kind # "outside"
    BY DEF Authors
  <2> QED BY <2>1, MayBeLike
<1>2. ASSUME NEW i \in 2 .. n + 1
      PROVE  /\ r[i].kind = "outside" => r[i - 1].kind # "outside"
             /\ r[i].kind = "queued" => r[i].outer \in MayBe(r, i - 1)
  <2>1. CASE i = n + 1
    BY <1>1, <2>1
  <2>2. CASE i # n + 1
    <3>1. i \in 1 .. n /\ i - 1 \in 1 .. n /\ i \in 2 .. Len(st)
      BY <2>2
    <3> QED BY <1>1, <3>1 DEF Authors, Like
  <2> QED BY <2>1, <2>2
<1>3. ASSUME NEW i \in 1 .. n, r[i].kind = "outside"
      PROVE  r[i].saved[1].actor \in MayBe(r, i)
  <2>1. CASE i = n
    BY <1>1, <1>3, <2>1
  <2>2. CASE i # n
    <3>1. i \in 1 .. n - 1
      BY <2>2
    <3> QED BY <1>1, <1>3, <3>1 DEF Authors, Like
  <2> QED BY <2>1, <2>2
<1>4. (n + 1) - 1 = n
  OBVIOUS
<1> QED BY <1>2, <1>3, <1>4 DEF Authors

-----------------------------------------------------------------------------
(***************************************************************************)
(* The machine.                                                            *)
(***************************************************************************)
LEMMA StackFacts ==
  ASSUME IInv
  PROVE  /\ stack \in Seq(RunningFrame \cup OutsideFrame)
         /\ Len(stack) \in Nat /\ Len(stack) >= 1 /\ stack[1].kind = "outside"
         /\ NoOne \in MayBe(stack, Len(stack))
BY DEF IInv, SoundStack, MayBe

\* A new frame that runs for its own key, the one _actor now names.
LEMMA EnterAuthors ==
  ASSUME IInv, AuthorInv, Top.kind = "outside", NEW f \in RunningFrame, NEW s,
         Enter(f, s), f.kind = "queued" => f.outer = actor, actor' \in {f.who, NoOne}
  PROVE  AuthorInv'
<1> DEFINE n == Len(stack)
           snapshot == [w |-> s, actor |-> actor, locked |-> locked, g |-> g]
           mid == [stack EXCEPT ![n] = Outside(<<snapshot>>)]
<1>1. /\ stack \in Seq(RunningFrame \cup OutsideFrame) /\ n \in Nat /\ n >= 1
      /\ stack[n].kind = "outside"
  BY StackFacts DEF Top
<1>2. stack' = Append(mid, f)
  BY DEF Enter
<1>3. /\ Outside(<<snapshot>>).kind = "outside"
      /\ Outside(<<snapshot>>).saved[1].actor = actor
  BY DEF Outside
<1>4. /\ Len(stack') = n + 1 /\ stack'[n + 1] = f
      /\ stack'[n] = Outside(<<snapshot>>)
      /\ \A j \in 1 .. n - 1 : stack'[j] = stack[j]
  <2>1. /\ mid \in Seq({Outside(<<snapshot>>)} \cup RunningFrame \cup OutsideFrame)
        /\ Len(mid) = n /\ mid[n] = Outside(<<snapshot>>)
        /\ \A j \in 1 .. n - 1 : mid[j] = stack[j]
    BY <1>1
  <2> HIDE DEF mid
  <2> QED BY <1>1, <1>2, <2>1
<1> HIDE DEF snapshot, mid
<1>5. Like(stack', stack, n)
  BY <1>1, <1>3, <1>4 DEF Like
<1>6. f.kind # "outside"
  BY DEF RunningFrame
<1>7. Authors(stack')
  BY <1>1, <1>3, <1>4, <1>5, <1>6, AuthorsAbove DEF AuthorInv
<1>8. actor' \in MayBe(stack', Len(stack'))
  BY <1>4, <1>6 DEF MayBe
<1> QED BY <1>7, <1>8 DEF AuthorInv

\* The stack stays, and so does _actor, or it is reset.
LEMMA IdleAuthors ==
  ASSUME IInv, AuthorInv, stack' = stack, actor' \in {actor, NoOne}
  PROVE  AuthorInv'
BY StackFacts DEF AuthorInv

LEMMA DispatchAuthors ==
  ASSUME IInv, AuthorInv, Top.kind = "outside", NEW s \in Storage,
         NEW k \in Key, NEW calls \in Seq(Call), NEW sponsored \in BOOLEAN,
         Dispatch(s, w, k, calls, sponsored)
  PROVE  AuthorInv'
<1>1. <<>> \in Seq(Call)
  OBVIOUS
<1>2. /\ Frame("dispatch", k, calls, <<>>, sponsored) \in RunningFrame
      /\ Frame("dispatch", k, calls, calls, sponsored) \in RunningFrame
  BY <1>1, FrameType DEF IInv
<1>3. \A charge : /\ Frame("dispatch", k, calls, charge, sponsored).kind = "dispatch"
                  /\ Frame("dispatch", k, calls, charge, sponsored).who = k
  BY DEF Frame
<1>4. CASE OwnerQueues(s, k, calls)
  BY <1>4, IdleAuthors DEF OwnerQueues
<1>5. CASE OwnerRuns(s, w, k, calls, sponsored)
  BY <1>2, <1>3, <1>5, EnterAuthors DEF OwnerRuns
<1>6. CASE SpenderRuns(s, w, k, calls, sponsored)
  BY <1>2, <1>3, <1>6, EnterAuthors DEF SpenderRuns
<1> QED BY <1>4, <1>5, <1>6 DEF Dispatch

LEMMA MetaAuthors ==
  ASSUME IInv, AuthorInv, NEW k \in Key, NEW calls \in Seq(Call), Meta(k, calls)
  PROVE  AuthorInv'
<1> DEFINE nonces == [w.nonces EXCEPT ![k] = @ + 1]
           s == [w EXCEPT !.nonces[k] = @ + 1]
<1>1. w \in Storage /\ nonces \in [Key -> Nat]
  BY DEF IInv, TypeOK, Storage
<1>2. s = [w EXCEPT !.nonces = nonces]
  OBVIOUS
<1>3. Top.kind = "outside" /\ Dispatch(s, w, k, calls, FALSE)
  BY DEF Meta, CanEnter
<1> HIDE DEF nonces, s
<1>4. s \in Storage
  BY <1>1, <1>2, NonceUpdate
<1> QED BY <1>3, <1>4, DispatchAuthors

LEMMA MetaTransferAuthors ==
  ASSUME IInv, AuthorInv, MetaTransfer
  PROVE  AuthorInv'
<1>1. PICK k \in Key, a \in Asset, n \in TransferAmount :
        Meta(k, <<[op |-> "send", asset |-> a, amount |-> n]>>)
  BY DEF MetaTransfer
<1>2. [op |-> "send", asset |-> a, amount |-> n] \in Call
  BY BoundAssumption DEF Call
<1>3. <<[op |-> "send", asset |-> a, amount |-> n]>> \in Seq(Call)
  BY <1>2
<1> QED BY <1>1, <1>3, MetaAuthors

LEMMA ExecuteUserOpAuthors ==
  ASSUME IInv, AuthorInv, ExecuteUserOp
  PROVE  AuthorInv'
<1>1. NextOp \in Op
  BY BundleType DEF IInv, ExecuteUserOp
<1>2. NextOp.who \in Key /\ NextOp.calls \in Seq(Call) /\ NextOp.sponsored \in BOOLEAN
  BY <1>1 DEF Op
<1>3. Top.kind = "outside"
  BY StackFacts DEF ExecuteUserOp, BetweenTransactions, Top
<1>4. w \in Storage /\ Dispatch(w, w, NextOp.who, NextOp.calls, NextOp.sponsored)
  BY DEF IInv, TypeOK, ExecuteUserOp
<1> QED BY <1>2, <1>3, <1>4, DispatchAuthors

\* The queued frame remembers whom to go back to.
LEMMA QueuedAuthors ==
  ASSUME IInv, NEW id \in QueueId, CanRun(w, id, now), StartQueued(id)
  PROVE  /\ QueuedFrame(id) \in RunningFrame /\ QueuedFrame(id).kind = "queued"
         /\ QueuedFrame(id).outer = actor /\ actor' = QueuedFrame(id).who
<1>1. QueuedFrame(id) \in RunningFrame
  BY StartQueuedKeeps
<1> QED BY <1>1 DEF QueuedFrame, Frame, StartQueued

LEMMA ExecuteQueuedAuthors ==
  ASSUME IInv, AuthorInv, ExecuteQueued
  PROVE  AuthorInv'
<1>1. PICK id \in QueueId :
        /\ Top.kind = "outside" /\ CanRun(w, id, now) /\ StartQueued(id)
        /\ Enter(QueuedFrame(id), w)
  BY DEF ExecuteQueued, CanEnter
<1> QED BY <1>1, QueuedAuthors, EnterAuthors

(***************************************************************************)
(* The running batch.                                                      *)
(***************************************************************************)
\* The head call, or the head charge, of the top frame is done.
LEMMA AuthorsAdvanced ==
  ASSUME NEW st, NEW n \in Nat, n >= 1, Len(st) = n, Authors(st), st[n].kind # "outside",
         NEW r, Len(r) = n, \A j \in 1 .. n - 1 : r[j] = st[j],
         r[n].kind = st[n].kind, r[n].who = st[n].who, r[n].outer = st[n].outer
  PROVE  Authors(r) /\ MayBe(r, n) = MayBe(st, n)
<1>1. Like(r, st, n)
  BY DEF Like
<1> QED BY <1>1, AuthorsBelow

LEMMA AdvanceAuthors ==
  ASSUME IInv, AuthorInv, Running, NEW f \in RunningFrame,
         f.kind = Top.kind, f.who = Top.who, f.outer = Top.outer,
         stack' = [stack EXCEPT ![Len(stack)] = f], actor' = actor
  PROVE  AuthorInv'
<1>1. /\ stack \in Seq(RunningFrame \cup OutsideFrame)
      /\ Len(stack) \in Nat /\ Len(stack) >= 1
      /\ stack[Len(stack)] = Top /\ Top.kind # "outside"
  BY StackFacts, RunningTop DEF Top
<1>2. /\ Len(stack') = Len(stack) /\ stack'[Len(stack)] = f
      /\ \A j \in 1 .. Len(stack) - 1 : stack'[j] = stack[j]
  BY <1>1
<1>3. /\ Authors(stack) /\ actor' \in MayBe(stack, Len(stack))
      /\ stack'[Len(stack)].kind = stack[Len(stack)].kind
      /\ stack'[Len(stack)].who = stack[Len(stack)].who
      /\ stack'[Len(stack)].outer = stack[Len(stack)].outer
      /\ stack[Len(stack)].kind # "outside"
  BY <1>1, <1>2 DEF AuthorInv
<1>4. Authors(stack') /\ MayBe(stack', Len(stack)) = MayBe(stack, Len(stack))
  BY <1>1, <1>2, <1>3, AuthorsAdvanced
<1> QED BY <1>2, <1>3, <1>4 DEF AuthorInv

\* The top frame calls out or into the queue.
LEMMA PushAuthors ==
  ASSUME IInv, AuthorInv, Running, Top.calls # <<>>, NEW f \in RunningFrame \cup OutsideFrame,
         stack' = Append([stack EXCEPT ![Len(stack)].calls = Tail(@)], f),
         f.kind = "queued" => f.outer = actor,
         IF f.kind = "outside" THEN actor' = actor ELSE actor' = f.who
  PROVE  AuthorInv'
<1> DEFINE n == Len(stack)
           top == [Top EXCEPT !.calls = Tail(@)]
           mid == [stack EXCEPT ![n] = top]
<1>1. /\ stack \in Seq(RunningFrame \cup OutsideFrame) /\ n \in Nat /\ n >= 1
      /\ stack[n] = Top /\ Top.kind # "outside" /\ Top \in RunningFrame
      /\ top \in RunningFrame
  BY StackFacts, RunningTop DEF Top
<1>2. top.kind = Top.kind /\ top.who = Top.who /\ top.outer = Top.outer
  BY <1>1 DEF RunningFrame
<1>3. stack' = Append(mid, f)
  BY DEF Top
<1>4. /\ Len(stack') = n + 1 /\ stack'[n] = top /\ stack'[n + 1] = f
      /\ \A j \in 1 .. n - 1 : stack'[j] = stack[j]
  <2> HIDE DEF top
  <2>1. /\ mid \in Seq(RunningFrame \cup OutsideFrame) /\ Len(mid) = n /\ mid[n] = top
        /\ \A j \in 1 .. n - 1 : mid[j] = stack[j]
    BY <1>1
  <2> HIDE DEF mid
  <2> QED BY <1>1, <1>3, <2>1
<1> HIDE DEF top, mid
<1>5. Like(stack', stack, n)
  BY <1>1, <1>2, <1>4 DEF Like
<1>6. Authors(stack')
  BY <1>1, <1>2, <1>4, <1>5, AuthorsAbove DEF AuthorInv
<1>7. MayBe(stack, n) = {Top.who, NoOne}
  BY <1>1 DEF MayBe
<1>8. actor' \in MayBe(stack', n + 1)
  <2>1. CASE f.kind = "outside"
    BY <1>1, <1>2, <1>4, <1>7, <2>1 DEF MayBe, AuthorInv
  <2>2. CASE f.kind # "outside"
    BY <1>4, <2>2 DEF MayBe
  <2> QED BY <2>1, <2>2
<1> QED BY <1>4, <1>6, <1>8 DEF AuthorInv

\* Frames are left: what is below may find its own actor again, or nobody.
LEMMA TruncateAuthors ==
  ASSUME IInv, AuthorInv, NEW n \in 1 .. Len(stack) - 1, stack' = Truncate(n),
         actor' \in MayBe(stack, n)
  PROVE  AuthorInv'
<1> DEFINE s == SubSeq(stack, 1, n)
<1>1. stack \in Seq(RunningFrame \cup OutsideFrame) /\ Len(stack) \in Nat /\ n \in 1 .. Len(stack)
  BY StackFacts
<1>2. /\ s \in Seq(RunningFrame \cup OutsideFrame) /\ Len(s) = n /\ n \in Nat /\ n >= 1
      /\ \A i \in 1 .. n : s[i] = stack[i]
  BY <1>1
<1>3. Outside(<<>>).kind = "outside" /\ Outside(<<>>) \in OutsideFrame
  BY DEF Outside, OutsideFrame
<1>4. /\ Len(stack') = n
      /\ \A j \in 1 .. n - 1 : stack'[j] = stack[j]
      /\ stack'[n] = IF stack[n].kind = "outside" THEN Outside(<<>>) ELSE stack[n]
  <2>1. stack' = IF s[n].kind = "outside" THEN [s EXCEPT ![n] = Outside(<<>>)] ELSE s
    BY DEF Truncate
  <2> HIDE DEF s
  <2>2. CASE s[n].kind = "outside"
    BY <1>2, <1>3, <2>1, <2>2
  <2>3. CASE s[n].kind # "outside"
    BY <1>2, <2>1, <2>3
  <2> QED BY <2>2, <2>3
<1>5. Like(stack', stack, n)
  BY <1>2, <1>3, <1>4 DEF Like
<1>6. /\ Authors(stack')
      /\ \A i \in 1 .. n : MayBe(stack', i) = MayBe(stack, i)
  BY <1>1, <1>4, <1>5, AuthorsBelow DEF AuthorInv
<1> QED BY <1>2, <1>4, <1>6 DEF AuthorInv

\* The calls, or the charges, left to the top frame: everything else of it stays.
LEMMA TailFrame ==
  ASSUME IInv, Running
  PROVE  /\ Top.calls # <<>> =>
              LET f == [Top EXCEPT !.calls = Tail(@)] IN
                /\ f \in RunningFrame
                /\ f.kind = Top.kind /\ f.who = Top.who /\ f.outer = Top.outer
                /\ [stack EXCEPT ![Len(stack)].calls = Tail(@)]
                     = [stack EXCEPT ![Len(stack)] = f]
         /\ Top.charge # <<>> =>
              LET f == [Top EXCEPT !.charge = Tail(@)] IN
                /\ f \in RunningFrame
                /\ f.kind = Top.kind /\ f.who = Top.who /\ f.outer = Top.outer
                /\ [stack EXCEPT ![Len(stack)].charge = Tail(@)]
                     = [stack EXCEPT ![Len(stack)] = f]
<1>1. Top \in RunningFrame
  BY RunningTop
<1>2. /\ [stack EXCEPT ![Len(stack)].calls = Tail(@)]
           = [stack EXCEPT ![Len(stack)] = [Top EXCEPT !.calls = Tail(@)]]
      /\ [stack EXCEPT ![Len(stack)].charge = Tail(@)]
           = [stack EXCEPT ![Len(stack)] = [Top EXCEPT !.charge = Tail(@)]]
  BY DEF Top
<1>3. /\ [Top EXCEPT !.calls = Tail(@)].kind = Top.kind
      /\ [Top EXCEPT !.calls = Tail(@)].who = Top.who
      /\ [Top EXCEPT !.calls = Tail(@)].outer = Top.outer
      /\ [Top EXCEPT !.charge = Tail(@)].kind = Top.kind
      /\ [Top EXCEPT !.charge = Tail(@)].who = Top.who
      /\ [Top EXCEPT !.charge = Tail(@)].outer = Top.outer
  BY <1>1 DEF RunningFrame
<1> QED BY <1>2, <1>3, RunningTop

LEMMA ChargeAuthors ==
  ASSUME IInv, AuthorInv, Charge
  PROVE  AuthorInv'
<1>1. /\ Running /\ Top.charge # <<>> /\ actor' = actor
      /\ stack' = [stack EXCEPT ![Len(stack)].charge = Tail(@)]
  BY DEF Charge, Charging
<1> QED BY <1>1, TailFrame, AdvanceAuthors

LEMMA SelfAuthors ==
  ASSUME IInv, AuthorInv, RunSelfCall \/ SkipWait
  PROVE  AuthorInv'
<1>1. /\ Running /\ Top.calls # <<>> /\ actor' = actor
      /\ stack' = [stack EXCEPT ![Len(stack)].calls = Tail(@)]
  BY DEF RunSelfCall, SkipWait, Calling, Advance
<1> QED BY <1>1, TailFrame, AdvanceAuthors

LEMMA RunQueuedAuthors ==
  ASSUME IInv, AuthorInv, RunQueued
  PROVE  AuthorInv'
<1>1. /\ Calling /\ Running /\ Top.calls # <<>> /\ NextCall.op = "executeQueued"
      /\ Allowed(NextCall) /\ StartQueued(NextCall.id)
      /\ stack' = Append([stack EXCEPT ![Len(stack)].calls = Tail(@)],
                         QueuedFrame(NextCall.id))
  BY DEF RunQueued, Calling
<1>2. NextCall.id \in QueueId /\ CanRun(w, NextCall.id, now)
  BY <1>1, CallingTop, CallFields DEF Allowed
<1>3. /\ QueuedFrame(NextCall.id) \in RunningFrame
      /\ QueuedFrame(NextCall.id).kind = "queued"
      /\ QueuedFrame(NextCall.id).outer = actor
      /\ actor' = QueuedFrame(NextCall.id).who
  BY <1>1, <1>2, QueuedAuthors
<1> HIDE DEF QueuedFrame
<1> QED BY <1>1, <1>3, PushAuthors

LEMMA CallOutsideAuthors ==
  ASSUME IInv, AuthorInv, CallOutside
  PROVE  AuthorInv'
<1>1. Running /\ Top.calls # <<>> /\ actor' = actor
  BY DEF CallOutside, Calling
<1>2. CASE Advance
  BY <1>1, <1>2, TailFrame, AdvanceAuthors DEF Advance
<1>3. CASE stack' = Append([stack EXCEPT ![Len(stack)].calls = Tail(@)], Outside(<<>>))
  <2>1. Outside(<<>>) \in OutsideFrame /\ Outside(<<>>).kind = "outside"
    BY DEF Outside, OutsideFrame
  <2> QED BY <1>1, <1>3, <2>1, PushAuthors
<1> QED BY <1>2, <1>3 DEF CallOutside

\* An outside frame above the sender's hands back to the frame that called it; a
\* queued action hands _actor back as it found it; a dispatch resets it.
LEMMA LeaveAuthors ==
  ASSUME IInv, AuthorInv, CalleeReturns \/ Return
  PROVE  AuthorInv'
<1> DEFINE n == Len(stack)
<1>1. /\ stack \in Seq(RunningFrame \cup OutsideFrame) /\ n \in Nat /\ n >= 1
      /\ stack[1].kind = "outside" /\ Top = stack[n]
  BY StackFacts DEF Top
<1>2. n # 1
  <2>1. CASE CalleeReturns
    BY <2>1 DEF CalleeReturns, BetweenTransactions
  <2>2. CASE Return
    <3>1. Top.kind # "outside"
      BY <2>2, RunningTop DEF Return
    <3> QED BY <1>1, <3>1
  <2> QED BY <2>1, <2>2
<1>3. n \in 2 .. n /\ n - 1 \in 1 .. n - 1 /\ stack' = Truncate(n - 1)
  <2>1. \A m \in Nat : m >= 1 /\ m # 1 => m \in 2 .. m /\ m - 1 \in 1 .. m - 1
    OBVIOUS
  <2>2. stack' = Truncate(n - 1)
    BY DEF CalleeReturns, Return, Leave
  <2> QED BY <1>1, <1>2, <2>1, <2>2
<1>4. Authors(stack) /\ actor \in MayBe(stack, n)
  BY DEF AuthorInv
<1>5. actor' \in MayBe(stack, n - 1)
  <2>1. CASE CalleeReturns
    <3>1. stack[n].kind = "outside" /\ actor' = actor
      BY <1>1, <2>1 DEF CalleeReturns
    <3>2. stack[n - 1].kind # "outside"
      BY <1>3, <1>4, <3>1 DEF Authors
    <3> QED BY <1>1, <1>2, <1>4, <3>1, <3>2 DEF MayBe
  <2>2. CASE Return
    <3>1. CASE Top.kind = "queued" /\ actor' = Top.outer
      BY <1>1, <1>3, <1>4, <3>1 DEF Authors
    <3>2. CASE actor' = NoOne
      BY <3>2 DEF MayBe
    <3> QED BY <2>2, <3>1, <3>2 DEF Return
  <2> QED BY <2>1, <2>2
<1> QED BY <1>3, <1>5, TruncateAuthors

\* A failure goes back to what was saved, _actor included.
LEMMA RevertAuthors ==
  ASSUME IInv, AuthorInv, Revert
  PROVE  AuthorInv'
<1>1. PICK n \in 1 .. Len(stack) - 1 :
        /\ stack[n].kind = "outside"
        /\ actor' = stack[n].saved[1].actor
        /\ stack' = Truncate(n)
  BY DEF Revert
<1>2. actor' \in MayBe(stack, n)
  BY <1>1 DEF AuthorInv, Authors
<1> QED BY <1>1, <1>2, TruncateAuthors

-----------------------------------------------------------------------------
LEMMA InitAuthors == Init => AuthorInv
<1> SUFFICES ASSUME Init PROVE AuthorInv
  OBVIOUS
<1>1. Len(stack) = 1 /\ stack[1].kind = "outside" /\ actor = NoOne
  BY DEF Init, Outside
<1> QED BY <1>1 DEF AuthorInv, Authors, MayBe

LEMMA NextAuthors == IInv /\ AuthorInv /\ [Next]_vars => AuthorInv'
<1> SUFFICES ASSUME IInv, AuthorInv, [Next]_vars PROVE AuthorInv'
  OBVIOUS
<1>1. CASE MetaExecute
  BY <1>1, MetaAuthors, BatchAssumption DEF MetaExecute
<1>2. CASE MetaTransfer
  BY <1>2, MetaTransferAuthors
<1>3. CASE ExecuteUserOp
  BY <1>3, ExecuteUserOpAuthors
<1>4. CASE ExecuteQueued
  BY <1>4, ExecuteQueuedAuthors
<1>5. CASE UNCHANGED <<stack, actor>>
  BY <1>5, IdleAuthors
<1>6. CASE UserOp \/ UserOpFails
  BY <1>5, <1>6 DEF UserOp, ValidateUserOp, UserOpFails
<1>7. CASE GuardianCancel \/ GuardianFreeze \/ StartRecovery \/ FinalizeRecovery
  BY <1>5, <1>7 DEF GuardianCancel, GuardianFreeze, StartRecovery, FinalizeRecovery
<1>8. CASE World
  BY <1>5, <1>8 DEF World, Receive, SignedPull, Tick
<1>9. CASE Charge
  BY <1>9, ChargeAuthors
<1>10. CASE RunSelfCall \/ SkipWait
  BY <1>10, SelfAuthors
<1>11. CASE RunQueued
  BY <1>11, RunQueuedAuthors
<1>12. CASE CallOutside
  BY <1>12, CallOutsideAuthors
<1>13. CASE CalleeReturns \/ Return
  BY <1>13, LeaveAuthors
<1>14. CASE Revert
  BY <1>14, RevertAuthors
<1>15. CASE UNCHANGED vars
  BY <1>5, <1>15 DEF vars
<1> QED
  BY <1>1, <1>2, <1>3, <1>4, <1>6, <1>7, <1>8, <1>9, <1>10, <1>11, <1>12, <1>13,
     <1>14, <1>15 DEF Next, Enters, Runs

\* _actor, read by skipWait to tell the second key from the first, never names a key
\* other than the author of the batch that is running, however the outside contracts
\* it calls come back: through signed messages, queued actions, or both.
THEOREM NoCallIsMisattributed == Spec => []ActorIsAuthor
<1>1. Spec => [](IInv /\ AuthorInv)
  BY InitSound, InitAuthors, NextSound, NextAuthors, PTL DEF Spec
<1>2. IInv /\ AuthorInv => ActorIsAuthor
  <2> SUFFICES ASSUME IInv, AuthorInv, Running PROVE actor \in {Top.who, NoOne}
    BY DEF ActorIsAuthor
  <2>1. Top.kind # "outside" /\ Top = stack[Len(stack)]
    BY RunningTop DEF Top
  <2> QED BY <2>1 DEF AuthorInv, MayBe
<1> QED BY <1>1, <1>2, PTL
=============================================================================
