---------------------------- MODULE PromiseProofs ----------------------------
(***************************************************************************)
(* InstantWallet implements ColdStorage, for every set of keys, every      *)
(* batch, every callee that calls back and every delay.                    *)
(*                                                                         *)
(* What is promised is about a transaction, and a transaction is a stack   *)
(* of frames, any of which can fail.  PromiseInv says, of each frame, what *)
(* the frames up to it have done since the transaction began (Stands), of  *)
(* the state that a failure there would go back to.  Each action is then   *)
(* shown to keep it, and what stands when the stack is empty again to be a *)
(* step of ColdStorage.                                                    *)
(***************************************************************************)
EXTENDS InstantWalletProofs

-----------------------------------------------------------------------------
(***************************************************************************)
(* What is seen of a state: the storage, the lock and the history, as a    *)
(* failure would restore them.  c is what was seen when the transaction    *)
(* began, f the frame it runs first, x what is seen later.                 *)
(***************************************************************************)
Here == [w |-> w, actor |-> actor, locked |-> locked, g |-> g]

Seen(st, x, i) == IF i = Len(st) THEN x ELSE st[i].saved[1]

\* An id is used once: what ran is not queued any more.
QueueKept(x) ==
  \A i \in QueueId :
    /\ x.w.queued[i].executeAfter # 0 => i < x.w.queueCount /\ x.g.runs[i] = 0
    /\ x.g.runs[i] # 0 => x.g.runs[i] = 1 /\ i < x.w.queueCount

Grown(c, x) == \A i \in QueueId : x.g.runs[i] >= c.g.runs[i]

\* Without a cold delay and a freeze an owner may do anything.
Guarded(c, t) == c.w.coldDelay # 0 \/ Frozen(c.w, t)

\* A spender never may.
Bound(c, f, t) == Guarded(c, t) \/ c.w.role[f.who] = "spender"

SecondKey(c, x, i) ==
  /\ ~c.w.noTwoKeySkip
  /\ x.g.cosigner[i] \in Signers(c.w) \ {c.w.queued[i].proposer}

\* An announced action ran.
HasWaited(c, x, t) ==
  \E i \in QueueId :
    /\ x.g.runs[i] = c.g.runs[i] + 1
    /\ c.w.queued[i].executeAfter # 0
    /\ t >= c.w.queued[i].executeAfter \/ SecondKey(c, x, i)

ActionKept(c, x, i, t) ==
  \/ x.w.queued[i] = c.w.queued[i] /\ x.g.cosigner[i] = c.g.cosigner[i]
  \/ x.w.queued[i].executeAfter = 0
  \/ /\ c.w.queued[i].executeAfter # 0
     /\ x.w.queued[i].proposer = c.w.queued[i].proposer
     /\ SecondKey(c, x, i)

ProposalKept(c, x, t) ==
  \/ x.w.recovery.executeAfter \in {0, c.w.recovery.executeAfter}
  \/ c.w.guardians # {} /\ x.w.recovery.executeAfter = t + c.w.recoveryDelay

\* Key k alone has weakened nothing,
Shielded(c, x, k, t) ==
  /\ \A j \in Key : x.w.role[j] \in {c.w.role[j], "none"}
  /\ \A j \in Key \ {k} : c.w.role[j] = "owner" => x.w.role[j] = "owner"
  /\ \A j \in Key, a \in Asset : x.w.allowance[j][a].limit <= c.w.allowance[j][a].limit
  /\ x.w.guardians = c.w.guardians /\ x.w.recoveryDelay = c.w.recoveryDelay
  /\ x.w.coldDelay >= c.w.coldDelay
  /\ x.w.frozenUntil >= c.w.frozenUntil
  /\ c.w.noTwoKeySkip => x.w.noTwoKeySkip
  /\ ProposalKept(c, x, t)

\* and has neither announced nor run anything.
Kept(c, x, k, t) ==
  /\ Shielded(c, x, k, t)
  /\ \A i \in QueueId : ActionKept(c, x, i, t)
  /\ x.g.runs = c.g.runs

\* An owner's batch that did not wait: only calls that protect.
OwnerBatch(c, x, f) ==
  /\ c.w.role[f.who] = "owner"
  /\ f.charge = <<>>
  /\ \A i \in 1 .. Len(f.calls) : IsProtect(c.w, f.calls[i], f.who, TRUE)
  /\ \A a \in Asset : x.w.balance[a] >= c.w.balance[a]
  /\ x.w.gasAllowance = c.w.gasAllowance

CostIn(call, a) == IF call.op = "send" /\ call.asset = a THEN call.amount ELSE 0

\* q[j]: what the first j calls cost in asset a.
IsCost(q, calls, m, a) ==
  /\ q \in [0 .. m -> Int]
  /\ q[0] = 0
  /\ \A j \in 1 .. m : q[j] = q[j - 1] + CostIn(calls[j], a)

Spent(x, k, a, t) ==
  IF WindowOver(x.w.allowance[k][a], t) THEN 0 ELSE x.w.allowance[k][a].spent

\* n was left of k's allowance of a, and is counted against it.
Charged(c, x, k, a, n, t) ==
  /\ n \in Nat /\ CanSpend(c.w, k, a, n, t)
  /\ x.w.role[k] = "none" \/ Spent(x, k, a, t) >= Spent(c, k, a, t) + n

\* What left of asset a, and what the m calls charged so far will still take, was charged.
Afforded(c, x, k, calls, m, a, t) ==
  \E q, n :
    /\ IsCost(q, calls, m, a)
    /\ Charged(c, x, k, a, n, t)
    /\ (c.w.coldDelay # 0 \/ a = ETH) => c.w.balance[a] - x.w.balance[a] + q[m] <= n
SpenderBatch(c, x, f, t) ==
  LET m == Len(f.calls) - Len(f.charge) IN
    /\ c.w.role[f.who] = "spender"
    /\ f.charge # <<>> => x.w.role[f.who] = "spender"
    /\ m \in Nat
    /\ \A j \in 1 .. Len(f.charge) : f.charge[j] = f.calls[m + j]
    /\ \A j \in 1 .. m : IsProtect(c.w, f.calls[j], f.who, FALSE) \/ f.calls[j].op = "send"
    /\ \A a \in Asset : Afforded(c, x, f.who, f.calls, m, a, t)
    /\ x.w.gasAllowance = c.w.gasAllowance

\* Nothing that waited has run yet.
Alone(c, x, f, t) ==
  /\ x.locked
  /\ Kept(c, x, f.who, t)
  /\ OwnerBatch(c, x, f) \/ SpenderBatch(c, x, f, t)

\* An owner lifts the freeze of a wallet without a cold delay.
Unfreezing(c, x, f) ==
  /\ c.w.coldDelay = 0 /\ c.w.role[f.who] = "owner"
  /\ f.charge = <<>>
  /\ x.w.balance = c.w.balance /\ x.g.runs = c.g.runs
  /\ \/ IsUnfreeze(f.calls)
     \/ f.calls = <<>> /\ x.w.frozenUntil = 0

\* Frame i of the given kind is the one on the top in x.
Stands(c, x, f, i, kind, t) ==
  /\ QueueKept(x) /\ Grown(c, x)
  /\ Bound(c, f, t) =>
       \/ HasWaited(c, x, t)
       \/ i = 2 /\ Unfreezing(c, x, f)
       \/ /\ \/ i = 2
             \/ i = 3 /\ kind = "outside" /\ c.w.role[f.who] = "spender"
          /\ Alone(c, x, f, t)

StandsAll(st, x, t) ==
  /\ QueueKept(Seen(st, x, 1))
  /\ \A i \in 2 .. Len(st) :
       (i = Len(st) \/ st[i].kind = "outside") =>
         Stands(Seen(st, x, 1), Seen(st, x, i), st[2], i, st[i].kind, t)

PromiseInv == StandsAll(stack, Here, now)

-----------------------------------------------------------------------------
(***************************************************************************)
(* The steps of ColdStorage.tla, for what is committed before and after.   *)
(***************************************************************************)
RanOnce(c, d) ==
  \A i \in QueueId :
    \/ d.g.runs[i] = c.g.runs[i]
    \/ c.g.runs[i] = 0 /\ d.g.runs[i] = 1 /\ d.w.queued[i].executeAfter = 0

LEMMA SimpleStep ==
  ASSUME NEW c, NEW d, Committed = c, Committed' = d,
         c.w.coldDelay = 0,
         Frozen(c.w, now) /\ d.w.frozenUntil > now =>
           \A a \in Asset : c.w.balance[a] - d.w.balance[a] <= 0,
         RanOnce(c, d)
  PROVE  Promise!Simple
BY DEF Promise!Simple, Promise!RunsOnce, Promise!Frozen, Promise!Drop, Frozen, RanOnce,
       Shown, Announced

LEMMA WaitedStep ==
  ASSUME NEW c, NEW d, Committed = c, Committed' = d,
         HasWaited(c, d, now), RanOnce(c, d)
  PROVE  Promise!Waited
BY DEF Promise!Waited, Promise!RunsOnce, Promise!Cosigned, Promise!Signers,
       HasWaited, RanOnce, SecondKey, Signers, Shown, Announced

\* Two storages show the same of what neither of two steps may touch.
LEMMA ShownExcept ==
  ASSUME NEW s, NEW t,
         t.guardians = s.guardians, t.recoveryDelay = s.recoveryDelay,
         t.coldDelay = s.coldDelay, t.frozenUntil = s.frozenUntil,
         t.noTwoKeySkip = s.noTwoKeySkip
  PROVE  /\ t.balance = s.balance /\ t.gasAllowance = s.gasAllowance =>
              Shown(t) = [Shown(s) EXCEPT !.role = Shown(t).role, !.limit = Shown(t).limit]
         /\ t.role = s.role /\ t.allowance = s.allowance =>
              Shown(t) = [Shown(s) EXCEPT !.balance = Shown(t).balance, !.gas = Shown(t).gas]
<1> DEFINE Showing(r, l, b, h) ==
      [role: {r}, limit: {l}, guardians: {s.guardians}, recoveryDelay: {s.recoveryDelay},
       coldDelay: {s.coldDelay}, frozenUntil: {s.frozenUntil},
       noTwoKeySkip: {s.noTwoKeySkip}, balance: {b}, gas: {h}]
<1>1. Shown(s) \in Showing(Shown(s).role, Shown(s).limit, Shown(s).balance, Shown(s).gas)
  BY DEF Shown
<1>2. Shown(t) \in Showing(Shown(t).role, Shown(t).limit, Shown(t).balance, Shown(t).gas)
  BY DEF Shown
<1>3. \A x, y, r, l, b, h : x \in Showing(r, l, b, h) /\ y \in Showing(r, l, b, h) => x = y
  OBVIOUS
<1>4. \A x, r, l, b, h, r_1, l_1 :
        x \in Showing(r, l, b, h) => [x EXCEPT !.role = r_1, !.limit = l_1] \in Showing(r_1, l_1, b, h)
  BY ZenonT(60)
<1>5. \A x, r, l, b, h, b_1, h_1 :
        x \in Showing(r, l, b, h) => [x EXCEPT !.balance = b_1, !.gas = h_1] \in Showing(r, l, b_1, h_1)
  BY ZenonT(60)
<1>6. /\ t.balance = s.balance => Shown(t).balance = Shown(s).balance
      /\ t.gasAllowance = s.gasAllowance => Shown(t).gas = Shown(s).gas
      /\ t.role = s.role => Shown(t).role = Shown(s).role
      /\ t.allowance = s.allowance => Shown(t).limit = Shown(s).limit
  BY DEF Shown
<1> HIDE DEF Showing
<1>7. ASSUME t.balance = s.balance, t.gasAllowance = s.gasAllowance
      PROVE  Shown(t) = [Shown(s) EXCEPT !.role = Shown(t).role, !.limit = Shown(t).limit]
  <2>1. [Shown(s) EXCEPT !.role = Shown(t).role, !.limit = Shown(t).limit]
          \in Showing(Shown(t).role, Shown(t).limit, Shown(t).balance, Shown(t).gas)
    BY <1>1, <1>4, <1>6, <1>7
  <2> QED BY <1>2, <1>3, <2>1
<1>8. ASSUME t.role = s.role, t.allowance = s.allowance
      PROVE  Shown(t) = [Shown(s) EXCEPT !.balance = Shown(t).balance, !.gas = Shown(t).gas]
  <2>1. [Shown(s) EXCEPT !.balance = Shown(t).balance, !.gas = Shown(t).gas]
          \in Showing(Shown(t).role, Shown(t).limit, Shown(t).balance, Shown(t).gas)
    BY <1>1, <1>5, <1>6, <1>8
  <2> QED BY <1>2, <1>3, <2>1
<1> QED BY <1>7, <1>8

\* The new key takes the place of the old one, or stands beside the others as an owner.
Replaces(s, r, new, old) ==
  /\ new \in Key \ Signers(s) /\ old \in Signers(s) \cup {NoOne}
  /\ r.role[new] = IF old = NoOne THEN "owner" ELSE s.role[old]
  /\ \A k \in Key \ {new} : r.role[k] = IF k = old THEN "none" ELSE s.role[k]
  /\ \A k \in Key, a \in Asset : r.allowance[k][a].limit <= s.allowance[k][a].limit

LEMMA RecoverStep ==
  ASSUME NEW c, NEW d, Committed = c, Committed' = d,
         c.w.recovery.executeAfter # 0, now >= c.w.recovery.executeAfter,
         d.w.recovery.executeAfter = 0,
         NEW new, NEW old, Replaces(c.w, d.w, new, old),
         d.w.guardians = c.w.guardians, d.w.recoveryDelay = c.w.recoveryDelay,
         d.w.coldDelay = c.w.coldDelay, d.w.frozenUntil = c.w.frozenUntil,
         d.w.noTwoKeySkip = c.w.noTwoKeySkip, d.w.balance = c.w.balance,
         d.w.gasAllowance = c.w.gasAllowance, d.w.queued = c.w.queued,
         d.g.cosigner = c.g.cosigner, d.g.runs = c.g.runs
  PROVE  Promise!Recover
<1>1. Shown(d.w) = [Shown(c.w) EXCEPT !.role = Shown(d.w).role, !.limit = Shown(d.w).limit]
  BY ShownExcept
<1>2. Announced(d.w) = Announced(c.w)
  BY DEF Announced
<1>3. Promise!Signers = Signers(c.w)
  BY DEF Promise!Signers, Signers, Shown
<1>4. /\ new \in Key \ Signers(c.w) /\ old \in Signers(c.w) \cup {NoOne}
      /\ Shown(d.w).role[new] = IF old = NoOne THEN "owner" ELSE Shown(c.w).role[old]
      /\ \A k \in Key \ {new} :
           Shown(d.w).role[k] = IF k = old THEN "none" ELSE Shown(c.w).role[k]
      /\ \A k \in Key, a \in Asset : Shown(d.w).limit[k][a] <= Shown(c.w).limit[k][a]
  BY DEF Shown, Replaces
<1> QED BY <1>1, <1>2, <1>3, <1>4 DEF Promise!Recover

LEMMA FeeStep ==
  ASSUME NEW c, NEW d, Committed = c, Committed' = d,
         c.w.coldDelay = 0 \/ \A a \in Asset :
           c.w.balance[a] - d.w.balance[a]
             + (IF a = USDC THEN d.w.gasAllowance - c.w.gasAllowance ELSE 0) <= 0,
         d.w.role = c.w.role, d.w.allowance = c.w.allowance,
         d.w.guardians = c.w.guardians, d.w.recoveryDelay = c.w.recoveryDelay,
         d.w.coldDelay = c.w.coldDelay, d.w.frozenUntil = c.w.frozenUntil,
         d.w.noTwoKeySkip = c.w.noTwoKeySkip, d.w.queued = c.w.queued,
         d.w.recovery = c.w.recovery, d.g.cosigner = c.g.cosigner, d.g.runs = c.g.runs
  PROVE  Promise!FeeOrPermit
<1>1. Shown(d.w) = [Shown(c.w) EXCEPT !.balance = Shown(d.w).balance, !.gas = Shown(d.w).gas]
  BY ShownExcept
<1>2. Announced(d.w) = Announced(c.w)
  BY DEF Announced
<1>3. /\ Shown(c.w).coldDelay = c.w.coldDelay
      /\ Shown(c.w).balance = c.w.balance /\ Shown(c.w).gas = c.w.gasAllowance
      /\ Shown(d.w).balance = d.w.balance /\ Shown(d.w).gas = d.w.gasAllowance
  BY DEF Shown
<1> QED BY <1>1, <1>2, <1>3 DEF Promise!FeeOrPermit, Promise!Leaves, Promise!Drop

\* What left of asset a, or may leave through the paymaster.
Taken(c, d, a) ==
  c.w.balance[a] - d.w.balance[a]
    + (IF a = USDC THEN d.w.gasAllowance - c.w.gasAllowance ELSE 0)

WithinLimit(c, d, t) ==
  \/ \A a \in Asset : Taken(c, d, a) <= 0
  \/ /\ ~Frozen(c.w, t)
     /\ \E j \in Signers(c.w) \ Owners(c.w) :
          \A a \in Asset : Taken(c, d, a) <= c.w.allowance[j][a].limit
  \/ c.w.coldDelay = 0 /\ c.w.balance[ETH] - d.w.balance[ETH] <= 0
       /\ d.w.gasAllowance <= c.w.gasAllowance

\* An action keeps its wait, or an owner announces it.
Announces(c, d, i, t) ==
  \/ ActionKept(c, d, i, t)
  \/ /\ c.w.queued[i].executeAfter = 0 /\ d.g.cosigner[i] = c.g.cosigner[i]
     /\ d.w.queued[i].executeAfter >= t + c.w.coldDelay
     /\ d.w.queued[i].proposer \in Owners(c.w)

LEMMA ProtectedStep ==
  ASSUME NEW c, NEW d, Committed = c, Committed' = d, c.w \in Storage,
         NEW k, Shielded(c, d, k, now),
         \A i \in QueueId : Announces(c, d, i, now), d.g.runs = c.g.runs
  PROVE  Promise!Protected
<1>1. Promise!AsProtected
  <2>1. \A j \in Key : Shown(d.w).role[j] \in {Shown(c.w).role[j], "none"}
    BY DEF Shielded, Shown
  <2>2. \A j \in Promise!Owners : Shown(d.w).role[j] = "none" => j = k
    BY DEF Shielded, Shown, Promise!Owners
  <2>3. \A j \in Key, a \in Asset : Shown(d.w).limit[j][a] <= Shown(c.w).limit[j][a]
    BY DEF Shielded, Shown
  <2>4. /\ Shown(d.w).guardians = Shown(c.w).guardians
        /\ Shown(d.w).recoveryDelay = Shown(c.w).recoveryDelay
        /\ Shown(d.w).coldDelay >= Shown(c.w).coldDelay
        /\ Shown(d.w).frozenUntil >= Shown(c.w).frozenUntil
        /\ Shown(c.w).noTwoKeySkip => Shown(d.w).noTwoKeySkip
    BY DEF Shielded, Shown
  <2> QED BY <2>1, <2>2, <2>3, <2>4 DEF Promise!AsProtected
<1>2. Promise!KeepsProposal
  BY DEF Promise!KeepsProposal, Shielded, ProposalKept, Shown
<1>3. \A i \in QueueId : Promise!KeepsItsWait(i)
  BY DEF Promise!KeepsItsWait, Promise!Cosigned, Promise!Signers, Promise!Owners, Announces,
         ActionKept, SecondKey, Signers, Owners, Shown, Announced
<1> QED BY <1>1, <1>2, <1>3 DEF Promise!Protected

LEMMA AloneStep ==
  ASSUME NEW c, NEW d, Committed = c, Committed' = d, c.w \in Storage,
         NEW k, Shielded(c, d, k, now), WithinLimit(c, d, now),
         \A i \in QueueId : Announces(c, d, i, now), d.g.runs = c.g.runs
  PROVE  Promise!Alone
<1>1. Promise!WithinOneLimit
  BY DEF Promise!WithinOneLimit, Promise!Leaves, Promise!Drop, Promise!Frozen, Promise!Signers,
         Promise!Owners, WithinLimit, Taken, Frozen, Signers, Owners, Shown
<1> QED BY <1>1, ProtectedStep DEF Promise!Alone

LEMMA TickStep ==
  ASSUME Committed' = Committed, now \in Nat, now' = now + 1
  PROVE  Promise!Tick
BY DEF Promise!Tick

LEMMA SameStep ==
  ASSUME Committed' = Committed, now' = now
  PROVE  UNCHANGED Promise!vars
BY DEF Promise!vars

\* The storage initialize leaves.
LEMMA InitStep == Init => Promise!Init
<1> SUFFICES ASSUME Init PROVE Promise!Init
  OBVIOUS
<1>1. Committed.w = Initialized /\ Committed.g = g
  BY DEF Init, Committed, BetweenTransactions
<1>2. /\ Shown(Initialized).coldDelay = 0 /\ Shown(Initialized).frozenUntil = 0
      /\ ~Shown(Initialized).noTwoKeySkip
      /\ Shown(Initialized).role = [k \in Key |-> IF k = FirstKey THEN "owner" ELSE "none"]
  BY DEF Shown, Initialized
<1>3. FirstKey \in Key
  BY IdentityAssumption
<1>4. Promise!Owners = {FirstKey} /\ Promise!Signers = {FirstKey}
  BY <1>1, <1>2, <1>3 DEF Promise!Owners, Promise!Signers
<1>5. Announced(Initialized) = [i \in QueueId |-> [due |-> 0, by |-> NoOne]]
  BY DEF Announced, Initialized, NotQueued
<1>6. Initialized.recovery.executeAfter = 0
  BY DEF Initialized, NoRecovery
<1>7. g.cosigner = [i \in QueueId |-> NoOne] /\ g.runs = [i \in QueueId |-> 0]
  BY DEF Init
<1> QED BY <1>1, <1>2, <1>3, <1>4, <1>5, <1>6, <1>7 DEF Promise!Init

-----------------------------------------------------------------------------
(***************************************************************************)
(* The stack: what a step of the machine leaves to be shown.               *)
(***************************************************************************)
\* r has the frames of st, the n-th but for what it has left to run, and
\* one frame on top of them, or none.
Advanced(st, r, n) ==
  /\ Len(st) = n /\ Len(r) = n
  /\ \A j \in 1 .. n - 1 : r[j] = st[j]
  /\ r[n].kind = st[n].kind

Added(st, r, n) ==
  /\ Len(st) = n /\ Len(r) = n + 1
  /\ \A j \in 1 .. n - 1 : r[j] = st[j]
  /\ r[n].kind = st[n].kind

\* The top frame moves on, or stays as it is.
LEMMA StandsAtTop ==
  ASSUME NEW st, NEW x, NEW t, StandsAll(st, x, t), NEW r, NEW y, NEW n \in Nat,
         n >= 2, Advanced(st, r, n), Stands(Seen(st, x, 1), y, r[2], n, r[n].kind, t)
  PROVE  StandsAll(r, y, t) /\ Seen(r, y, 1) = Seen(st, x, 1)
<1>0. /\ Len(st) = n /\ Len(r) = n /\ \A j \in 1 .. n - 1 : r[j] = st[j]
      /\ r[n].kind = st[n].kind
  BY DEF Advanced
<1>1. Seen(r, y, 1) = Seen(st, x, 1)
  BY <1>0 DEF Seen
<1>2. ASSUME NEW i \in 2 .. n, i = n \/ r[i].kind = "outside"
      PROVE  Stands(Seen(r, y, 1), Seen(r, y, i), r[2], i, r[i].kind, t)
  <2>1. CASE i = n
    BY <1>0, <1>1, <2>1 DEF Seen
  <2>2. CASE i # n
    <3>1. i \in 1 .. n - 1 /\ 2 \in 1 .. n - 1
      BY <2>2
    <3>2. r[i] = st[i] /\ r[2] = st[2] /\ Seen(r, y, i) = Seen(st, x, i)
      BY <1>0, <2>2, <3>1 DEF Seen
    <3> QED BY <1>0, <1>1, <1>2, <2>2, <3>2 DEF StandsAll
  <2> QED BY <2>1, <2>2
<1> QED BY <1>0, <1>1, <1>2 DEF StandsAll

\* A frame is added, on a frame that moves on or remembers what a failure restores.
LEMMA StandsAbove ==
  ASSUME NEW st, NEW x, NEW t, StandsAll(st, x, t), NEW r, NEW y, NEW n \in Nat,
         n >= 1, Added(st, r, n), st[1].kind = "outside", n >= 2 => st[2].kind # "outside",
         st[n].kind = "outside" => r[n].saved[1] = x,
         Stands(Seen(st, x, 1), y, r[2], n + 1, r[n + 1].kind, t)
  PROVE  StandsAll(r, y, t) /\ Seen(r, y, 1) = Seen(st, x, 1)
<1>0. /\ Len(st) = n /\ Len(r) = n + 1 /\ \A j \in 1 .. n - 1 : r[j] = st[j]
      /\ r[n].kind = st[n].kind
  BY DEF Added
<1>1. Seen(r, y, 1) = Seen(st, x, 1)
  BY <1>0 DEF Seen
<1>2. ASSUME NEW i \in 2 .. n + 1, i = n + 1 \/ r[i].kind = "outside"
      PROVE  Stands(Seen(r, y, 1), Seen(r, y, i), r[2], i, r[i].kind, t)
  <2>1. CASE i = n + 1
    BY <1>0, <1>1, <2>1 DEF Seen
  <2>2. CASE i = n
    <3>1. st[n].kind = "outside" /\ 2 \in 1 .. n - 1
      BY <1>0, <1>2, <2>2
    <3>2. r[2] = st[2] /\ r[i].kind = st[i].kind /\ Seen(r, y, i) = Seen(st, x, i)
      BY <1>0, <2>2, <3>1 DEF Seen
    <3> QED BY <1>0, <1>1, <2>2, <3>2 DEF StandsAll
  <2>3. CASE i # n /\ i # n + 1
    <3>1. i \in 1 .. n - 1 /\ 2 \in 1 .. n - 1
      BY <2>3
    <3>2. r[i] = st[i] /\ r[2] = st[2] /\ Seen(r, y, i) = Seen(st, x, i)
      BY <1>0, <2>3, <3>1 DEF Seen
    <3> QED BY <1>0, <1>1, <1>2, <2>3, <3>2 DEF StandsAll
  <2> QED BY <2>1, <2>2, <2>3
<1> QED BY <1>0, <1>1, <1>2 DEF StandsAll

\* Frames are left.
LEMMA StandsBelow ==
  ASSUME NEW st, Len(st) \in Nat, NEW m \in 1 .. Len(st) - 1, NEW x, NEW t,
         StandsAll(st, x, t), m >= 2 => st[2].kind # "outside",
         NEW r, Len(r) = m, \A j \in 1 .. m - 1 : r[j] = st[j], r[m].kind = st[m].kind,
         st[m].kind # "outside" => r[m] = st[m],
         NEW y, QueueKept(y),
         m >= 2 => Stands(Seen(st, x, 1), y, st[2], m, st[m].kind, t)
  PROVE  StandsAll(r, y, t) /\ (m >= 2 => Seen(r, y, 1) = Seen(st, x, 1))
<1>1. m >= 2 => Seen(r, y, 1) = Seen(st, x, 1)
  BY DEF Seen
<1>2. ASSUME NEW i \in 2 .. m, i = m \/ r[i].kind = "outside"
      PROVE  Stands(Seen(r, y, 1), Seen(r, y, i), r[2], i, r[i].kind, t)
  <2>1. m >= 2 /\ r[2] = st[2]
    <3>1. CASE m = 2
      BY <3>1
    <3>2. CASE m # 2
      BY <1>2, <3>2
    <3> QED BY <1>2, <3>1, <3>2
  <2>2. CASE i = m
    BY <1>1, <2>1, <2>2 DEF Seen
  <2>3. CASE i # m
    <3>1. i \in 1 .. m - 1
      BY <2>3
    <3>2. r[i] = st[i] /\ Seen(r, y, i) = Seen(st, x, i)
      BY <2>3, <3>1 DEF Seen
    <3> QED BY <1>1, <1>2, <2>1, <2>3, <3>2 DEF StandsAll
  <2> QED BY <2>2, <2>3
<1>3. QueueKept(Seen(r, y, 1))
  BY <1>1 DEF Seen, StandsAll
<1> QED BY <1>1, <1>2, <1>3 DEF StandsAll

-----------------------------------------------------------------------------
(***************************************************************************)
(* What an outside contract, or anyone, does while a batch is under way.   *)
(***************************************************************************)
LEMMA SnapshotType ==
  ASSUME NEW x \in Snapshot
  PROVE  x.w \in Storage /\ x.g \in History /\ x.locked \in BOOLEAN
BY DEF Snapshot

LEMMA SpentType ==
  ASSUME NEW x \in Snapshot, NEW k \in Key, NEW a \in Asset, NEW t
  PROVE  Spent(x, k, a, t) \in Nat
BY SnapshotType DEF Spent, Storage, Allowance

LEMMA WaitedStays ==
  ASSUME NEW c, NEW x, NEW y, NEW t, HasWaited(c, x, t),
         y.g.runs = x.g.runs, y.g.cosigner = x.g.cosigner
  PROVE  HasWaited(c, y, t)
BY DEF HasWaited, SecondKey

\* Everything an outside contract can do to a wallet that is locked.
Disturbed(x, y, t) ==
  /\ y.w.role = x.w.role /\ y.w.allowance = x.w.allowance
  /\ y.w.guardians = x.w.guardians /\ y.w.recoveryDelay = x.w.recoveryDelay
  /\ y.w.coldDelay = x.w.coldDelay /\ y.w.noTwoKeySkip = x.w.noTwoKeySkip
  /\ y.w.gasAllowance = x.w.gasAllowance
  /\ y.w.frozenUntil >= x.w.frozenUntil
  /\ y.w.recovery = x.w.recovery
       \/ (x.w.guardians # {} /\ y.w.recovery.executeAfter = t + x.w.recoveryDelay)
  /\ \A i \in QueueId : y.w.queued[i] = x.w.queued[i] \/ y.w.queued[i].executeAfter = 0
  /\ y.g.cosigner = x.g.cosigner /\ y.g.runs = x.g.runs
  /\ y.w.queueCount = x.w.queueCount /\ y.locked = x.locked
  /\ \A a \in Asset : x.w.coldDelay # 0 \/ a = ETH => y.w.balance[a] >= x.w.balance[a]

LEMMA ShieldedStays ==
  ASSUME NEW c \in Snapshot, NEW x \in Snapshot, NEW y \in Snapshot, NEW t, NEW k,
         Kept(c, x, k, t), Disturbed(x, y, t)
  PROVE  Kept(c, y, k, t)
<1>1. /\ c.w.frozenUntil \in Nat /\ x.w.frozenUntil \in Nat /\ y.w.frozenUntil \in Nat
  BY SnapshotType DEF Storage
<1>2. Shielded(c, y, k, t)
  BY <1>1 DEF Kept, Shielded, ProposalKept, Disturbed
<1>3. \A i \in QueueId : ActionKept(c, y, i, t)
  BY DEF Kept, ActionKept, SecondKey, Disturbed
<1> QED BY <1>2, <1>3 DEF Kept, Disturbed

LEMMA AffordedStays ==
  ASSUME NEW c \in Snapshot, NEW x \in Snapshot, NEW y \in Snapshot, NEW t \in Nat,
         NEW k, NEW calls, NEW m \in Nat, NEW a \in Asset,
         Afforded(c, x, k, calls, m, a, t),
         y.w.role[k] = x.w.role[k], y.w.allowance[k][a] = x.w.allowance[k][a],
         c.w.coldDelay # 0 \/ a = ETH => y.w.balance[a] >= x.w.balance[a]
  PROVE  Afforded(c, y, k, calls, m, a, t)
<1>1. PICK q, n :
        /\ IsCost(q, calls, m, a) /\ Charged(c, x, k, a, n, t)
        /\ (c.w.coldDelay # 0 \/ a = ETH) => c.w.balance[a] - x.w.balance[a] + q[m] <= n
  BY DEF Afforded
<1>2. c.w.balance[a] \in Nat /\ x.w.balance[a] \in Nat /\ y.w.balance[a] \in Nat
  BY SnapshotType DEF Storage
<1>3. q[m] \in Int /\ n \in Nat
  BY <1>1 DEF IsCost, Charged
<1>4. Charged(c, y, k, a, n, t)
  BY <1>1 DEF Charged, Spent
<1>5. (c.w.coldDelay # 0 \/ a = ETH) => c.w.balance[a] - y.w.balance[a] + q[m] <= n
  BY <1>1, <1>2, <1>3
<1> QED BY <1>1, <1>4, <1>5 DEF Afforded

LEMMA AloneStays ==
  ASSUME NEW c \in Snapshot, NEW x \in Snapshot, NEW y \in Snapshot, NEW t \in Nat, NEW f,
         Alone(c, x, f, t), c.w.role[f.who] = "spender", Disturbed(x, y, t)
  PROVE  Alone(c, y, f, t)
<1> DEFINE m == Len(f.calls) - Len(f.charge)
<1>1. SpenderBatch(c, x, f, t)
  BY DEF Alone, OwnerBatch
<1>2. x.w.coldDelay >= c.w.coldDelay /\ c.w.coldDelay \in Nat /\ x.w.coldDelay \in Nat
  BY SnapshotType DEF Alone, Kept, Shielded, Storage
<1>3. ASSUME NEW a \in Asset
      PROVE  Afforded(c, y, f.who, f.calls, m, a, t)
  <2>1. c.w.coldDelay # 0 \/ a = ETH => y.w.balance[a] >= x.w.balance[a]
    BY <1>2 DEF Disturbed
  <2>2. m \in Nat /\ Afforded(c, x, f.who, f.calls, m, a, t)
    BY <1>1 DEF SpenderBatch
  <2>3. /\ y.w.role[f.who] = x.w.role[f.who]
        /\ y.w.allowance[f.who][a] = x.w.allowance[f.who][a]
    BY DEF Disturbed
  <2> HIDE DEF m
  <2> QED BY <2>1, <2>2, <2>3, AffordedStays
<1>4. SpenderBatch(c, y, f, t)
  BY <1>1, <1>3 DEF SpenderBatch, Disturbed
<1>5. Kept(c, y, f.who, t)
  BY ShieldedStays DEF Alone
<1> QED BY <1>4, <1>5 DEF Alone, Disturbed

LEMMA DisturbedStands ==
  ASSUME NEW c \in Snapshot, NEW x \in Snapshot, NEW y \in Snapshot, NEW t \in Nat, NEW f,
         NEW n \in Nat, n >= 3, Stands(c, x, f, n, "outside", t), Disturbed(x, y, t)
  PROVE  Stands(c, y, f, n, "outside", t)
<1>1. QueueKept(y) /\ Grown(c, y)
  BY DEF Stands, QueueKept, Grown, Disturbed
<1>2. CASE ~Bound(c, f, t)
  BY <1>1, <1>2 DEF Stands
<1>3. CASE HasWaited(c, x, t)
  BY <1>1, <1>3, WaitedStays DEF Stands, Disturbed
<1>4. CASE n = 3 /\ c.w.role[f.who] = "spender" /\ Alone(c, x, f, t)
  BY <1>1, <1>4, AloneStays DEF Stands
<1> QED BY <1>2, <1>3, <1>4 DEF Stands

-----------------------------------------------------------------------------
(***************************************************************************)
(* The machine, one step: what is committed stays, or it was a transaction *)
(* the promise allows.                                                     *)
(***************************************************************************)
Fulfils == PromiseInv' /\ (Committed' = Committed \/ Promise!Transaction)

LEMMA CommittedSeen ==
  Committed = Seen(stack, Here, 1) /\ Committed' = Seen(stack', Here', 1)
BY DEF Committed, Seen, Here, BetweenTransactions

LEMMA StackShape ==
  ASSUME IInv, AuthorInv
  PROVE  /\ Len(stack) \in Nat /\ Len(stack) >= 1 /\ stack[1].kind = "outside"
         /\ Top = stack[Len(stack)] /\ Top.kind = stack[Len(stack)].kind
         /\ Len(stack) >= 2 => stack[2].kind # "outside"
         /\ Top.kind = "outside" => Len(stack) = 1 \/ Len(stack) >= 3
<1>1. Len(stack) \in Nat /\ Len(stack) >= 1 /\ stack[1].kind = "outside" /\ Authors(stack)
  BY StackFacts DEF AuthorInv
<1>2. Len(stack) >= 2 => stack[2].kind # "outside"
  <2>1. Len(stack) >= 2 => 2 \in 2 .. Len(stack) /\ 2 - 1 = 1
    BY <1>1
  <2> QED BY <1>1, <2>1 DEF Authors
<1>3. Top = stack[Len(stack)]
  BY DEF Top
<1>4. \A n \in Nat : n >= 1 => n = 1 \/ n = 2 \/ n >= 3
  OBVIOUS
<1>5. Len(stack) = 1 \/ Len(stack) = 2 \/ Len(stack) >= 3
  BY <1>1, <1>4
<1> QED BY <1>1, <1>2, <1>3, <1>5

LEMMA HereFields ==
  /\ Here.w = w /\ Here.actor = actor /\ Here.locked = locked /\ Here.g = g
  /\ Here'.w = w' /\ Here'.actor = actor' /\ Here'.locked = locked' /\ Here'.g = g'
BY DEF Here

LEMMA HereType ==
  /\ IInv => Here \in Snapshot
  /\ IInv' => Here' \in Snapshot
BY DEF IInv, TypeOK, Here, Snapshot

LEMMA SeenTypes ==
  ASSUME IInv
  PROVE  Here \in Snapshot /\ Committed \in Snapshot /\ now \in Nat
<1>1. Here \in Snapshot /\ now \in Nat
  BY HereType DEF IInv, TypeOK
<1>2. CASE BetweenTransactions
  BY <1>1, <1>2 DEF Committed, Here
<1>3. CASE ~BetweenTransactions
  <2>1. Len(stack) \in Nat /\ Len(stack) >= 1 /\ Len(stack) # 1 /\ stack[1].kind = "outside"
    BY <1>3, StackFacts DEF BetweenTransactions
  <2>2. \A n \in Nat : n >= 1 /\ n # 1 => 1 \in 1 .. n - 1
    OBVIOUS
  <2>3. 1 \in 1 .. Len(stack) - 1
    BY <2>1, <2>2
  <2> QED BY <1>1, <1>3, <2>1, <2>3 DEF Committed, IInv, SoundStack, Restorable
<1> QED BY <1>1, <1>2, <1>3

\* What the frame on the top stands for, and what is true between transactions.
LEMMA TopStands ==
  ASSUME IInv, AuthorInv, PromiseInv
  PROVE  /\ Len(stack) = 1 => Committed = Here /\ QueueKept(Here)
         /\ Len(stack) >= 2 =>
              Stands(Committed, Here, stack[2], Len(stack), Top.kind, now)
         /\ QueueKept(Committed) /\ QueueKept(Here)
<1>1. /\ QueueKept(Committed)
      /\ Len(stack) = 1 => Committed = Here
  BY CommittedSeen DEF PromiseInv, StandsAll, Seen
<1>2. Len(stack) >= 2 => Stands(Committed, Here, stack[2], Len(stack), Top.kind, now)
  <2>1. Len(stack) >= 2 => Len(stack) \in 2 .. Len(stack)
    BY StackShape
  <2> QED BY <2>1, CommittedSeen, StackShape DEF PromiseInv, StandsAll, Seen
<1> QED BY <1>1, <1>2, StackShape DEF Stands

\* The stack stays as it is.
LEMMA IdleFulfils ==
  ASSUME IInv, AuthorInv, PromiseInv, Top.kind = "outside", stack' = stack, now' = now,
         QueueKept(Here'),
         Len(stack) = 1 => Committed' = Committed \/ Promise!Transaction,
         Len(stack) >= 3 =>
           Stands(Committed, Here', stack[2], Len(stack), "outside", now)
  PROVE  Fulfils
<1>1. CASE Len(stack) = 1
  <2>1. StandsAll(stack, Here', now)
    BY <1>1 DEF StandsAll, Seen
  <2> QED BY <1>1, <2>1 DEF Fulfils, PromiseInv
<1>2. CASE Len(stack) >= 3
  <2>1. Len(stack) >= 2 /\ StandsAll(stack, Here, now)
    BY <1>2, StackShape DEF PromiseInv
  <2>2. StandsAll(stack, Here', now) /\ Seen(stack, Here', 1) = Seen(stack, Here, 1)
    BY <1>2, <2>1, StackShape, CommittedSeen, StandsAtTop DEF Advanced
  <2> QED BY <2>2, CommittedSeen DEF Fulfils, PromiseInv
<1> QED BY <1>1, <1>2, StackShape

LEMMA DisturbedFulfils ==
  ASSUME IInv, IInv', AuthorInv, PromiseInv, Top.kind = "outside", stack' = stack, now' = now,
         Disturbed(Here, Here', now), Len(stack) = 1 => Promise!Transaction
  PROVE  Fulfils
<1>1. QueueKept(Here')
  BY TopStands DEF QueueKept, Disturbed
<1>2. Here' \in Snapshot
  BY HereType
<1>3. ASSUME Len(stack) >= 3
      PROVE  Stands(Committed, Here', stack[2], Len(stack), "outside", now)
  BY <1>2, <1>3, TopStands, StackShape, SeenTypes, DisturbedStands
<1> QED BY <1>1, <1>3, IdleFulfils

\* One step of a guardian or of the world, between transactions.
LEMMA DisturbedStep ==
  ASSUME IInv, IInv', Len(stack) = 1, stack' = stack, Disturbed(Here, Here', now),
         \A a \in Asset : w'.balance[a] >= w.balance[a]
  PROVE  Promise!Alone
<1>1. Committed = Here /\ Committed' = Here' /\ Here \in Snapshot /\ Here' \in Snapshot
  BY CommittedSeen, HereType DEF Seen
<1>2. /\ Here.w = w /\ Here'.w = w' /\ Here.w \in Storage /\ Here'.w \in Storage
  BY <1>1, SnapshotType, HereFields
<1>3. Shielded(Here, Here', FirstKey, now)
  BY <1>2 DEF Shielded, ProposalKept, Disturbed, Storage, Allowance
<1>4. WithinLimit(Here, Here', now)
  <2>1. ASSUME NEW a \in Asset PROVE Taken(Here, Here', a) <= 0
    <3>1. w.balance[a] \in Nat /\ w'.balance[a] \in Nat /\ w.gasAllowance \in Nat
      BY <1>2 DEF Storage
    <3>2. w'.gasAllowance = w.gasAllowance /\ w'.balance[a] >= w.balance[a]
      BY <1>2 DEF Disturbed
    <3> QED BY <1>2, <3>1, <3>2 DEF Taken
  <2> QED BY <2>1 DEF WithinLimit
<1>5. \A i \in QueueId : Announces(Here, Here', i, now)
  BY DEF Disturbed, Announces, ActionKept
<1>6. Here'.g.runs = Here.g.runs
  BY DEF Disturbed
<1> QED BY <1>1, <1>2, <1>3, <1>4, <1>5, <1>6, AloneStep

LEMMA GuardianFulfils ==
  ASSUME IInv, IInv', AuthorInv, PromiseInv, GuardianCancel \/ GuardianFreeze \/ StartRecovery \/ Receive
  PROVE  Fulfils
<1>1. /\ Top.kind = "outside" /\ stack' = stack /\ now' = now
      /\ w'.balance = w.balance \/ Receive
  BY DEF GuardianCancel, GuardianFreeze, StartRecovery, Receive, CanEnter, IInv, TypeOK,
         Storage, Dequeue, Freeze
<1>2. w \in Storage /\ w' \in Storage /\ now \in Nat
  BY DEF IInv, TypeOK
<1>3. Disturbed(Here, Here', now)
  <2>1. CASE GuardianCancel
    BY <1>2, <2>1, HereFields DEF GuardianCancel, Dequeue, NotQueued, Disturbed, Storage
  <2>2. CASE GuardianFreeze
    BY <1>2, <2>2, HereFields DEF GuardianFreeze, Freeze, Disturbed, Storage
  <2>3. CASE StartRecovery
    <3>1. PICK r \in Recovery : /\ w.guardians # {} /\ r.executeAfter = now + w.recoveryDelay
                               /\ w' = [w EXCEPT !.recovery = r] /\ locked' = locked
                               /\ g' = [g EXCEPT !.quiet = TRUE]
      BY ZenonT(60), <1>2, <2>3 DEF StartRecovery, Recovery, Storage
    <3>2. g'.cosigner = g.cosigner /\ g'.runs = g.runs
      BY <3>1 DEF IInv, TypeOK, History
    <3> QED BY <1>2, <3>1, <3>2, HereFields DEF Disturbed, Storage
  <2>4. CASE Receive
    BY <1>2, <2>4, HereFields DEF Receive, Disturbed, Storage
  <2> QED BY <2>1, <2>2, <2>3, <2>4
<1>4. \A a \in Asset : w'.balance[a] >= w.balance[a]
  BY <1>1, <1>2 DEF Receive, Storage
<1>5. Len(stack) = 1 => Promise!Alone
  BY <1>1, <1>3, <1>4, DisturbedStep
<1> QED BY <1>1, <1>3, <1>5, DisturbedFulfils DEF Promise!Transaction

LEMMA SignedPullFulfils ==
  ASSUME IInv, IInv', AuthorInv, PromiseInv, SignedPull
  PROVE  Fulfils
<1>1. /\ Top.kind = "outside" /\ stack' = stack /\ now' = now /\ w.coldDelay = 0
      /\ locked' = locked /\ g' = g
  BY DEF SignedPull, CanEnter, CanSignMessages
<1>2. w \in Storage /\ w' \in Storage /\ now \in Nat
  BY DEF IInv, TypeOK
<1>3. /\ w'.balance[ETH] = w.balance[ETH] /\ w'.role = w.role /\ w'.allowance = w.allowance
      /\ w'.guardians = w.guardians /\ w'.recoveryDelay = w.recoveryDelay
      /\ w'.coldDelay = w.coldDelay /\ w'.frozenUntil = w.frozenUntil
      /\ w'.noTwoKeySkip = w.noTwoKeySkip /\ w'.queued = w.queued
      /\ w'.recovery = w.recovery /\ w'.gasAllowance = w.gasAllowance
      /\ w'.queueCount = w.queueCount
  BY <1>2, IdentityAssumption DEF SignedPull, Storage
<1>4. Disturbed(Here, Here', now)
  <2>1. /\ w.frozenUntil \in Nat /\ w.balance[ETH] \in Nat
    BY <1>2, IdentityAssumption DEF Storage
  <2> QED BY <1>1, <1>3, <2>1, HereFields DEF Disturbed
<1>5. ASSUME Len(stack) = 1 PROVE Promise!FeeOrPermit
  <2>1. Committed = Here /\ Committed' = Here'
    BY <1>1, <1>5, CommittedSeen DEF Seen
  <2>2. Here.w = w /\ Here'.w = w' /\ Here.g = g /\ Here'.g = g
    BY <1>1, HereFields
  <2> QED BY <1>1, <1>3, <2>1, <2>2, FeeStep
<1> QED BY <1>1, <1>4, <1>5, DisturbedFulfils DEF Promise!Transaction

LEMMA AddSignerFields ==
  ASSUME NEW s \in Storage, NEW k \in Key, NEW role \in Role
  PROVE  LET r == AddSigner(s, k, role) IN
           /\ r \in Storage
           /\ r.role = [s.role EXCEPT ![k] = role] /\ r.allowance = s.allowance
           /\ r.guardians = s.guardians /\ r.recoveryDelay = s.recoveryDelay
           /\ r.recovery = s.recovery /\ r.coldDelay = s.coldDelay
           /\ r.frozenUntil = s.frozenUntil /\ r.noTwoKeySkip = s.noTwoKeySkip
           /\ r.queueCount = s.queueCount /\ r.queued = s.queued
           /\ r.balance = s.balance /\ r.gasAllowance = s.gasAllowance
<1> DEFINE roles == [s.role EXCEPT ![k] = role]
           count == IF role = "owner" THEN s.ownerCount + 1 ELSE s.ownerCount
           r == AddSigner(s, k, role)
<1>1. roles \in [Key -> Role \cup {"none"}] /\ count \in Int
  BY DEF Storage
<1>2. r = [s EXCEPT !.role = roles, !.ownerCount = count]
  BY DEF AddSigner
<1> HIDE DEF roles, count, r
<1>3. r \in Storage
  BY <1>1, <1>2, RoleUpdate
<1> QED BY <1>2, <1>3 DEF Storage, roles, r

LEMMA RemoveSignerFields ==
  ASSUME NEW s \in Storage, NEW k \in Key
  PROVE  LET r == RemoveSigner(s, k) IN
           /\ r.role = [s.role EXCEPT ![k] = "none"]
           /\ \A j \in Key, a \in Asset : r.allowance[j][a].limit <= s.allowance[j][a].limit
           /\ \A j \in Key \ {k} : r.allowance[j] = s.allowance[j]
           /\ r.guardians = s.guardians /\ r.recoveryDelay = s.recoveryDelay
           /\ r.recovery = s.recovery /\ r.coldDelay = s.coldDelay
           /\ r.frozenUntil = s.frozenUntil /\ r.noTwoKeySkip = s.noTwoKeySkip
           /\ r.queueCount = s.queueCount /\ r.queued = s.queued
           /\ r.balance = s.balance /\ r.gasAllowance = s.gasAllowance
<1> DEFINE cleared == [a \in Asset |-> IF s.allowance[k][a].limit # 0 THEN NoAllowance
                                                             ELSE s.allowance[k][a]]
           r == RemoveSigner(s, k)
<1>1. /\ r.allowance = [s.allowance EXCEPT ![k] = cleared]
      /\ r.role = [s.role EXCEPT ![k] = "none"]
      /\ r.guardians = s.guardians /\ r.recoveryDelay = s.recoveryDelay
      /\ r.recovery = s.recovery /\ r.coldDelay = s.coldDelay
      /\ r.frozenUntil = s.frozenUntil /\ r.noTwoKeySkip = s.noTwoKeySkip
      /\ r.queueCount = s.queueCount /\ r.queued = s.queued
      /\ r.balance = s.balance /\ r.gasAllowance = s.gasAllowance
  BY DEF RemoveSigner, Storage
<1>2. s.allowance \in [Key -> [Asset -> Allowance]]
  BY DEF Storage
<1>3. \A a \in Asset : cleared[a].limit <= s.allowance[k][a].limit
  BY <1>2 DEF NoAllowance, Allowance
<1> HIDE DEF cleared, r
<1>4. \A j \in Key \ {k} : r.allowance[j] = s.allowance[j]
  BY <1>1, <1>2
<1>5. r.allowance[k] = cleared
  BY <1>1, <1>2
<1>6. \A j \in Key, a \in Asset : r.allowance[j][a].limit <= s.allowance[j][a].limit
  BY <1>2, <1>3, <1>4, <1>5 DEF Allowance
<1> QED BY <1>1, <1>4, <1>6 DEF r

LEMMA RemoveSignerLeaves ==
  ASSUME NEW s \in Storage, NEW k \in Key, NEW r, r = RemoveSigner(s, k)
  PROVE  /\ r.role = [s.role EXCEPT ![k] = "none"]
         /\ \A j \in Key, a \in Asset : r.allowance[j][a].limit <= s.allowance[j][a].limit
         /\ r.guardians = s.guardians /\ r.recoveryDelay = s.recoveryDelay
         /\ r.recovery = s.recovery /\ r.coldDelay = s.coldDelay
         /\ r.frozenUntil = s.frozenUntil /\ r.noTwoKeySkip = s.noTwoKeySkip
         /\ r.queueCount = s.queueCount /\ r.queued = s.queued
         /\ r.balance = s.balance /\ r.gasAllowance = s.gasAllowance
BY RemoveSignerFields

\* The wallet is not locked: no batch that acts alone is under way.
LEMMA UnlockedStands ==
  ASSUME NEW c \in Snapshot, NEW x, NEW y, NEW t, NEW f, NEW n \in Nat, n >= 3,
         Stands(c, x, f, n, "outside", t), ~x.locked, QueueKept(y),
         \A i \in QueueId : y.g.runs[i] = x.g.runs[i] /\ y.g.cosigner[i] = x.g.cosigner[i],
         NEW m, NEW kind
  PROVE  Stands(c, y, f, m, kind, t)
<1>1. Grown(c, y)
  BY DEF Stands, Grown
<1>2. HasWaited(c, x, t) => HasWaited(c, y, t)
  BY DEF HasWaited, SecondKey
<1> QED BY <1>1, <1>2 DEF Stands, Alone

LEMMA FinalizeStep ==
  ASSUME IInv, FinalizeRecovery, Len(stack) = 1
  PROVE  Promise!Recover
<1> DEFINE r == w.recovery
           s == CancelRecovery(w)
           old == IF r.replaces \in Signers(w) THEN r.replaces ELSE NoOne
<1>1. /\ w \in Storage /\ w' = w' /\ NoOne \notin Key
      /\ r.executeAfter # 0 /\ now >= r.executeAfter
      /\ r.key \in Key \ Signers(w) /\ old \in Signers(w) \cup {NoOne}
  BY IdentityAssumption DEF FinalizeRecovery, IInv, TypeOK, Sound, LiveProposal
<1>2. Committed = Here /\ Committed' = Here'
  BY CommittedSeen DEF Seen, FinalizeRecovery
<1>3. Here'.g.cosigner = Here.g.cosigner /\ Here'.g.runs = Here.g.runs
  BY HereFields DEF FinalizeRecovery, NoteOrphans, IInv, TypeOK, History
<1>4. /\ w'.recovery.executeAfter = 0
      /\ w'.role = [[w.role EXCEPT ![r.key] = IF old = NoOne THEN "owner" ELSE w.role[old]]
                      EXCEPT ![old] = "none"]
      /\ \A k \in Key, a \in Asset : w'.allowance[k][a].limit <= w.allowance[k][a].limit
      /\ w'.guardians = w.guardians /\ w'.recoveryDelay = w.recoveryDelay
      /\ w'.coldDelay = w.coldDelay /\ w'.frozenUntil = w.frozenUntil
      /\ w'.noTwoKeySkip = w.noTwoKeySkip /\ w'.balance = w.balance
      /\ w'.gasAllowance = w.gasAllowance /\ w'.queued = w.queued
  <2>1. /\ s \in Storage /\ s.recovery.executeAfter = 0 /\ s.role = w.role
        /\ s.allowance = w.allowance
        /\ s.guardians = w.guardians /\ s.recoveryDelay = w.recoveryDelay
        /\ s.coldDelay = w.coldDelay /\ s.frozenUntil = w.frozenUntil
        /\ s.noTwoKeySkip = w.noTwoKeySkip /\ s.balance = w.balance
        /\ s.gasAllowance = w.gasAllowance /\ s.queued = w.queued
    BY <1>1 DEF CancelRecovery, NoRecovery, Storage, Recovery
  <2>2. \A k \in Key, a \in Asset : w.allowance[k][a].limit \in Nat
    BY <1>1 DEF Storage, Allowance
  <2>3. CASE r.replaces \in Signers(w)
    <3> DEFINE b == AddSigner(s, r.key, w.role[r.replaces])
    <3>1. /\ w' = RemoveSigner(b, r.replaces) /\ old = r.replaces /\ old # NoOne
          /\ r.replaces \in Key /\ w.role[r.replaces] \in Role
      BY <1>1, <2>3 DEF FinalizeRecovery, Signers, Storage
    <3> HIDE DEF s, old
    <3>2. /\ b \in Storage /\ b.role = [s.role EXCEPT ![r.key] = w.role[r.replaces]]
          /\ b.allowance = s.allowance /\ b.recovery = s.recovery
          /\ b.guardians = s.guardians /\ b.recoveryDelay = s.recoveryDelay
          /\ b.coldDelay = s.coldDelay /\ b.frozenUntil = s.frozenUntil
          /\ b.noTwoKeySkip = s.noTwoKeySkip /\ b.balance = s.balance
          /\ b.gasAllowance = s.gasAllowance /\ b.queued = s.queued
      BY <1>1, <2>1, <3>1, AddSignerFields
    <3> HIDE DEF b
    <3>3. /\ w'.role = [b.role EXCEPT ![r.replaces] = "none"]
          /\ \A k \in Key, a \in Asset : w'.allowance[k][a].limit <= b.allowance[k][a].limit
          /\ w'.guardians = b.guardians /\ w'.recoveryDelay = b.recoveryDelay
          /\ w'.recovery = b.recovery /\ w'.coldDelay = b.coldDelay
          /\ w'.frozenUntil = b.frozenUntil /\ w'.noTwoKeySkip = b.noTwoKeySkip
          /\ w'.queued = b.queued /\ w'.balance = b.balance
          /\ w'.gasAllowance = b.gasAllowance
      BY <3>1, <3>2, RemoveSignerFields
    <3>4. w'.role = [[w.role EXCEPT ![r.key] = IF old = NoOne THEN "owner" ELSE w.role[old]]
                       EXCEPT ![old] = "none"]
      BY <2>1, <3>1, <3>2, <3>3
    <3> QED BY <2>1, <3>2, <3>3, <3>4
  <2>4. CASE r.replaces \notin Signers(w)
    <3>1. w' = AddSigner(s, r.key, "owner") /\ old = NoOne /\ "owner" \in Role
      BY <2>4 DEF FinalizeRecovery, Role
    <3> HIDE DEF s, old
    <3>2. w.role \in [Key -> Role \cup {"none"}]
      BY <1>1 DEF Storage
    <3>3. [[w.role EXCEPT ![r.key] = "owner"] EXCEPT ![NoOne] = "none"]
            = [w.role EXCEPT ![r.key] = "owner"]
      BY <1>1, <3>2
    <3> QED BY <1>1, <2>1, <2>2, <3>1, <3>3, AddSignerFields
  <2> QED BY <2>3, <2>4
<1>5. /\ w'.role[r.key] = IF old = NoOne THEN "owner" ELSE w.role[old]
      /\ \A k \in Key \ {r.key} : w'.role[k] = IF k = old THEN "none" ELSE w.role[k]
  <2>1. w.role \in [Key -> Role \cup {"none"}] /\ old # r.key
    BY <1>1 DEF Storage
  <2> HIDE DEF old
  <2> QED BY <1>1, <1>4, <2>1
<1>6. Here.w = w /\ Here'.w = w'
  BY HereFields
<1>7. Replaces(Here.w, Here'.w, r.key, old)
  <2>1. Replaces(w, w', r.key, old)
    BY <1>1, <1>4, <1>5 DEF Replaces
  <2> QED BY <1>6, <2>1
<1> HIDE DEF old, s
<1> QED BY <1>1, <1>2, <1>3, <1>4, <1>6, <1>7, RecoverStep

LEMMA FinalizeFulfils ==
  ASSUME IInv, AuthorInv, PromiseInv, FinalizeRecovery
  PROVE  Fulfils
<1>1. /\ Top.kind = "outside" /\ stack' = stack /\ now' = now /\ ~locked
  BY DEF FinalizeRecovery, CanEnter
<1>2. Here'.g.cosigner = Here.g.cosigner /\ Here'.g.runs = Here.g.runs
  BY HereFields DEF FinalizeRecovery, NoteOrphans, IInv, TypeOK, History
<1>3. w'.queued = w.queued /\ w'.queueCount = w.queueCount
  BY DEF FinalizeRecovery, RemoveSigner, AddSigner, CancelRecovery, IInv, TypeOK, Storage
<1>4. QueueKept(Here')
  BY <1>2, <1>3, TopStands, HereFields DEF QueueKept
<1>5. ASSUME Len(stack) >= 3
      PROVE  Stands(Committed, Here', stack[2], Len(stack), "outside", now)
  BY <1>1, <1>2, <1>4, <1>5, TopStands, StackShape, SeenTypes, HereFields, UnlockedStands
<1> QED BY <1>1, <1>4, <1>5, FinalizeStep, IdleFulfils DEF Promise!Transaction

LEMMA UserOpFulfils ==
  ASSUME IInv, AuthorInv, PromiseInv, UserOp \/ UserOpFails
  PROVE  Fulfils
<1>1. /\ Len(stack) = 1 /\ Top.kind = "outside" /\ stack' = stack /\ now' = now /\ g' = g
  BY StackShape DEF UserOp, ValidateUserOp, UserOpFails, BetweenTransactions
<1>2. w \in Storage /\ Committed = Here /\ Committed' = Here' /\ QueueKept(Here)
  BY <1>1, CommittedSeen, TopStands DEF Seen, IInv, TypeOK
<1>3. CASE UserOpFails
  <2>1. Here' = Here
    BY <1>3 DEF UserOpFails, Here
  <2> QED BY <1>1, <1>2, <2>1, IdleFulfils
<1>4. CASE UserOp
  <2>1. PICK k \in Key, permit \in BOOLEAN, fee \in Fee :
          \/ PayInUsdc(k, fee, permit)
          \/ CanSignMessages(w, k) /\ PayInEth(fee)
    BY <1>4 DEF UserOp, ValidateUserOp
  <2>2. /\ fee \in Nat /\ w.gasAllowance \in Nat /\ w.balance \in [Asset -> Nat]
        /\ ETH \in Asset /\ USDC \in Asset
    BY <1>2, BoundAssumption, IdentityAssumption DEF Storage
  <2>3. \/ w.coldDelay = 0
        \/ /\ w'.balance = [w.balance EXCEPT ![USDC] = @ - fee]
           /\ w'.gasAllowance = w.gasAllowance - fee
    BY <1>2, <2>1 DEF PayInUsdc, PayInEth, CanSignMessages, Storage
  <2>4. w.coldDelay = 0 \/ \A a \in Asset :
          w.balance[a] - w'.balance[a]
            + (IF a = USDC THEN w'.gasAllowance - w.gasAllowance ELSE 0) <= 0
    BY <2>2, <2>3
  <2>5. /\ w'.role = w.role /\ w'.allowance = w.allowance /\ w'.guardians = w.guardians
        /\ w'.recoveryDelay = w.recoveryDelay /\ w'.coldDelay = w.coldDelay
        /\ w'.frozenUntil = w.frozenUntil /\ w'.noTwoKeySkip = w.noTwoKeySkip
        /\ w'.queued = w.queued /\ w'.recovery = w.recovery /\ w'.queueCount = w.queueCount
    BY ZenonT(60), <1>2, <2>1 DEF PayInUsdc, PayInEth, Storage
  <2>6. QueueKept(Here')
    BY <1>1, <1>2, <2>5, HereFields DEF QueueKept
  <2>7. Promise!FeeOrPermit
    BY <1>1, <1>2, <2>4, <2>5, HereFields, FeeStep
  <2> QED BY <1>1, <2>6, <2>7, IdleFulfils DEF Promise!Transaction
<1> QED BY <1>3, <1>4

\* Time passes between transactions only.
LEMMA TickFulfils ==
  ASSUME IInv, AuthorInv, PromiseInv, Tick
  PROVE  PromiseInv' /\ Committed' = Committed /\ now' = now + 1
<1>1. Len(stack) = 1 /\ stack' = stack /\ Here' = Here /\ now' = now + 1
  BY DEF Tick, BetweenTransactions, Here
<1>2. QueueKept(Here)
  BY <1>1, TopStands
<1>3. StandsAll(stack', Here', now')
  <2>1. Len(stack') = 1 /\ Seen(stack', Here', 1) = Here
    BY <1>1 DEF Seen
  <2>2. 2 .. 1 = {}
    OBVIOUS
  <2> QED BY <1>2, <2>1, <2>2 DEF StandsAll
<1> QED BY <1>1, <1>3, CommittedSeen DEF PromiseInv, Seen

-----------------------------------------------------------------------------
(***************************************************************************)
(* A batch begins.                                                         *)
(***************************************************************************)
LEMMA EnterFulfils ==
  ASSUME IInv, AuthorInv, PromiseInv, Top.kind = "outside", NEW f \in RunningFrame,
         Enter(f, w), now' = now,
         Len(stack) = 1 => Stands(Committed, Here', f, 2, f.kind, now),
         Len(stack) >= 3 =>
           Stands(Committed, Here', stack[2], Len(stack) + 1, f.kind, now)
  PROVE  Fulfils
<1> DEFINE n == Len(stack)
           kept == Outside(<<Here>>)
           mid == [stack EXCEPT ![n] = kept]
<1>1. /\ stack \in Seq(RunningFrame \cup OutsideFrame) /\ n \in Nat /\ n >= 1
      /\ stack[n].kind = "outside" /\ stack[1].kind = "outside"
      /\ n >= 2 => stack[2].kind # "outside"
      /\ n = 1 \/ n >= 3
  BY StackFacts, StackShape
<1>2. stack' = Append(mid, f)
  BY DEF Enter, Here
<1>3. kept.kind = "outside" /\ kept.saved[1] = Here
  BY DEF Outside
<1> HIDE DEF kept
<1>4. /\ Len(stack') = n + 1 /\ stack'[n + 1] = f /\ stack'[n] = kept
      /\ \A j \in 1 .. n - 1 : stack'[j] = stack[j]
  <2>1. /\ mid \in Seq({kept} \cup RunningFrame \cup OutsideFrame)
        /\ Len(mid) = n /\ mid[n] = kept
        /\ \A j \in 1 .. n - 1 : mid[j] = stack[j]
    BY <1>1
  <2> HIDE DEF mid
  <2> QED BY <1>1, <1>2, <2>1
<1> HIDE DEF mid, n
<1>5. n = 1 => stack'[2] = f
  BY <1>4
<1>6. n >= 3 => stack'[2] = stack[2]
  BY <1>1, <1>4
<1>7. Stands(Seen(stack, Here, 1), Here', stack'[2], n + 1, stack'[n + 1].kind, now)
  BY <1>1, <1>4, <1>5, <1>6, CommittedSeen DEF n
<1>8. StandsAll(stack, Here, now) /\ Len(stack) = n
  BY DEF PromiseInv, n
<1>9. stack'[n].kind = stack[n].kind /\ stack'[n].saved[1] = Here
  BY <1>1, <1>3, <1>4
<1>10. /\ StandsAll(stack', Here', now)
       /\ Seen(stack', Here', 1) = Seen(stack, Here, 1)
  <2>1. Added(stack, stack', n)
    BY <1>4, <1>8, <1>9 DEF Added
  <2> QED BY <1>1, <1>7, <1>8, <1>9, <2>1, StandsAbove
<1> QED BY <1>10, CommittedSeen DEF Fulfils, PromiseInv

\* A signed message counts its nonce, and nothing else.
SameRules(s, r) ==
  /\ r.role = s.role /\ r.allowance = s.allowance /\ r.guardians = s.guardians
  /\ r.recoveryDelay = s.recoveryDelay /\ r.coldDelay = s.coldDelay
  /\ r.frozenUntil = s.frozenUntil /\ r.noTwoKeySkip = s.noTwoKeySkip
  /\ r.queueCount = s.queueCount /\ r.queued = s.queued
  /\ r.balance = s.balance /\ r.gasAllowance = s.gasAllowance

LEMMA NoLess ==
  ASSUME NEW s \in Storage
  PROVE  /\ s.coldDelay >= s.coldDelay /\ s.frozenUntil >= s.frozenUntil
         /\ \A j \in Key, a \in Asset : s.allowance[j][a].limit <= s.allowance[j][a].limit
BY DEF Storage, Allowance

LEMMA EnteredKept ==
  ASSUME NEW c \in Snapshot, NEW d, SameRules(c.w, d.w),
         d.w.recovery.executeAfter \in {0, c.w.recovery.executeAfter},
         d.g.runs = c.g.runs, d.g.cosigner = c.g.cosigner, QueueKept(c), NEW k, NEW t
  PROVE  QueueKept(d) /\ Grown(c, d) /\ Kept(c, d, k, t)
<1>1. /\ c.w \in Storage /\ c.g \in History
  BY SnapshotType
<1>2. /\ c.w.coldDelay >= c.w.coldDelay /\ c.w.frozenUntil >= c.w.frozenUntil
      /\ \A j \in Key, a \in Asset : c.w.allowance[j][a].limit <= c.w.allowance[j][a].limit
      /\ \A i \in QueueId : c.g.runs[i] >= c.g.runs[i]
  BY <1>1, NoLess DEF History
<1>3. Shielded(c, d, k, t)
  BY <1>2 DEF Shielded, SameRules, ProposalKept
<1>4. \A i \in QueueId : ActionKept(c, d, i, t)
  BY DEF ActionKept, SameRules
<1> QED BY <1>2, <1>3, <1>4 DEF Kept, QueueKept, Grown, SameRules

\* An owner's batch runs at once: it protects, or lifts a freeze, or nothing is guarded.
LEMMA OwnerStarts ==
  ASSUME NEW c \in Snapshot, NEW d, SameRules(c.w, d.w),
         d.w.recovery.executeAfter \in {0, c.w.recovery.executeAfter}, d.locked = TRUE,
         d.g.runs = c.g.runs, d.g.cosigner = c.g.cosigner, QueueKept(c),
         NEW f \in RunningFrame, f.charge = <<>>, c.w.role[f.who] = "owner",
         Guarded(c, now) => \/ AllProtect(c.w, f.calls, f.who)
                            \/ c.w.coldDelay = 0 /\ IsUnfreeze(f.calls)
  PROVE  Stands(c, d, f, 2, f.kind, now)
<1>1. QueueKept(d) /\ Grown(c, d) /\ Kept(c, d, f.who, now)
  BY EnteredKept
<1>2. ASSUME AllProtect(c.w, f.calls, f.who)
      PROVE  Alone(c, d, f, now)
  <2>1. \A a \in Asset : d.w.balance[a] >= c.w.balance[a]
    BY SnapshotType DEF SameRules, Storage
  <2>2. OwnerBatch(c, d, f)
    BY <1>2, <2>1 DEF OwnerBatch, AllProtect, SameRules
  <2> QED BY <1>1, <2>2 DEF Alone
<1>3. ASSUME c.w.coldDelay = 0, IsUnfreeze(f.calls)
      PROVE  Unfreezing(c, d, f)
  BY <1>3 DEF Unfreezing, SameRules
<1> QED BY <1>1, <1>2, <1>3 DEF Stands, Bound

\* A spender's batch: nothing is charged yet.
LEMMA SpenderStarts ==
  ASSUME NEW c \in Snapshot, NEW d, SameRules(c.w, d.w),
         d.w.recovery.executeAfter \in {0, c.w.recovery.executeAfter}, d.locked = TRUE,
         d.g.runs = c.g.runs, d.g.cosigner = c.g.cosigner, QueueKept(c),
         NEW f \in RunningFrame, f.charge = f.calls, c.w.role[f.who] = "spender"
  PROVE  Stands(c, d, f, 2, f.kind, now)
<1>1. QueueKept(d) /\ Grown(c, d) /\ Kept(c, d, f.who, now)
  BY EnteredKept
<1>2. f.calls \in Seq(Call) /\ f.who \in Key
  BY DEF RunningFrame
<1>3. Len(f.calls) \in Nat /\ Len(f.calls) - Len(f.charge) = 0
  BY <1>2
<1>4. ASSUME NEW a \in Asset
      PROVE  Afforded(c, d, f.who, f.calls, 0, a, now)
  <2> DEFINE q == [j \in 0 .. 0 |-> 0]
  <2>1. IsCost(q, f.calls, 0, a)
    BY DEF IsCost
  <2>2. c.w.allowance[f.who][a].limit \in Nat /\ c.w.balance[a] \in Nat
    BY <1>2, SnapshotType DEF Storage, Allowance
  <2>3. Charged(c, d, f.who, a, 0, now)
    <3>1. Spent(d, f.who, a, now) = Spent(c, f.who, a, now)
      BY DEF SameRules, Spent
    <3>2. Spent(c, f.who, a, now) \in Nat
      BY <1>2, SpentType
    <3> QED BY <3>1, <3>2 DEF Charged, CanSpend
  <2>4. c.w.balance[a] - d.w.balance[a] + q[0] <= 0
    BY <2>2 DEF SameRules
  <2> HIDE DEF q
  <2> QED BY <2>1, <2>3, <2>4 DEF Afforded
<1>5. SpenderBatch(c, d, f, now)
  <2>1. /\ 0 \in Nat /\ \A j \in 1 .. Len(f.charge) : f.charge[j] = f.calls[0 + j]
        /\ 1 .. 0 = {}
    BY <1>3
  <2> QED BY <1>3, <1>4, <2>1 DEF SpenderBatch, SameRules
<1> QED BY <1>1, <1>5 DEF Stands, Alone

LEMMA EnqueueFields ==
  ASSUME NEW s \in Storage, NEW k \in Key, NEW calls \in Seq(Call), NEW t \in Nat,
         s.queueCount < MaxQueue
  PROVE  LET r == Enqueue(CancelRecovery(s), k, calls, t) IN
           /\ r.role = s.role /\ r.allowance = s.allowance /\ r.guardians = s.guardians
           /\ r.recoveryDelay = s.recoveryDelay /\ r.coldDelay = s.coldDelay
           /\ r.frozenUntil = s.frozenUntil /\ r.noTwoKeySkip = s.noTwoKeySkip
           /\ r.balance = s.balance /\ r.gasAllowance = s.gasAllowance
           /\ r.recovery.executeAfter = 0
           /\ r.queueCount = s.queueCount + 1 /\ s.queueCount \in QueueId
           /\ r.queued[s.queueCount].executeAfter = t + s.coldDelay
           /\ r.queued[s.queueCount].proposer = k
           /\ \A i \in QueueId \ {s.queueCount} : r.queued[i] = s.queued[i]
<1>1. s.queueCount \in QueueId
  BY TimingAssumption DEF QueueId, Storage
<1> DEFINE b == CancelRecovery(s)
           entry == [executeAfter |-> t + b.coldDelay, proposer |-> k, calls |-> calls]
           r == Enqueue(b, k, calls, t)
<1>2. /\ b.role = s.role /\ b.allowance = s.allowance /\ b.guardians = s.guardians
      /\ b.recoveryDelay = s.recoveryDelay /\ b.coldDelay = s.coldDelay
      /\ b.frozenUntil = s.frozenUntil /\ b.noTwoKeySkip = s.noTwoKeySkip
      /\ b.balance = s.balance /\ b.gasAllowance = s.gasAllowance
      /\ b.recovery.executeAfter = 0
      /\ b.queueCount = s.queueCount /\ b.queued = s.queued /\ b \in Storage
  BY DEF CancelRecovery, NoRecovery, Storage, Recovery
<1> HIDE DEF b
<1>3. /\ r.role = b.role /\ r.allowance = b.allowance /\ r.guardians = b.guardians
      /\ r.recoveryDelay = b.recoveryDelay /\ r.coldDelay = b.coldDelay
      /\ r.frozenUntil = b.frozenUntil /\ r.noTwoKeySkip = b.noTwoKeySkip
      /\ r.balance = b.balance /\ r.gasAllowance = b.gasAllowance
      /\ r.recovery = b.recovery
      /\ r.queueCount = b.queueCount + 1
      /\ r.queued = [b.queued EXCEPT ![b.queueCount] = entry]
  BY <1>2 DEF Enqueue, Storage
<1>4. entry.executeAfter = t + b.coldDelay /\ entry.proposer = k
  OBVIOUS
<1>5. b.queued \in [QueueId -> Queued]
  BY <1>2 DEF Storage
<1> HIDE DEF r, entry
<1>6. /\ r.queued[s.queueCount] = entry
      /\ \A i \in QueueId \ {s.queueCount} : r.queued[i] = s.queued[i]
  BY <1>1, <1>2, <1>3, <1>5
<1> QED BY <1>1, <1>2, <1>3, <1>4, <1>6 DEF r, b

\* The owner's batch has to wait: all it does is to announce itself.
LEMMA QueuesFulfils ==
  ASSUME IInv, AuthorInv, PromiseInv, Top.kind = "outside", now' = now,
         NEW s \in Storage, SameRules(w, s), NEW k \in Key, NEW calls \in Seq(Call),
         OwnerQueues(s, k, calls), ~locked \/ Len(stack) = 1
  PROVE  Fulfils
<1> DEFINE id == s.queueCount
<1>1. /\ w \in Storage /\ now \in Nat /\ g \in History /\ stack' = stack
      /\ s.role[k] = "owner" /\ s.queueCount < MaxQueue
      /\ w' = Enqueue(CancelRecovery(s), k, calls, now)
      /\ g'.runs = g.runs /\ g'.cosigner = g.cosigner
  BY DEF IInv, TypeOK, OwnerQueues, History
<1>2. /\ w'.role = w.role /\ w'.allowance = w.allowance /\ w'.guardians = w.guardians
      /\ w'.recoveryDelay = w.recoveryDelay /\ w'.coldDelay = w.coldDelay
      /\ w'.frozenUntil = w.frozenUntil /\ w'.noTwoKeySkip = w.noTwoKeySkip
      /\ w'.balance = w.balance /\ w'.gasAllowance = w.gasAllowance
      /\ w'.recovery.executeAfter = 0
      /\ id = w.queueCount /\ w'.queueCount = id + 1 /\ id \in QueueId
      /\ w'.queued[id].executeAfter = now + w.coldDelay /\ w'.queued[id].proposer = k
      /\ \A i \in QueueId \ {id} : w'.queued[i] = w.queued[i]
  BY <1>1, EnqueueFields DEF SameRules
<1> HIDE DEF id
<1>3. QueueKept(Here) /\ id \in Nat
  BY <1>1, <1>2, TopStands DEF Storage
<1>4. w.queued[id].executeAfter = 0 /\ g.runs[id] = 0
  BY <1>2, <1>3, HereFields DEF QueueKept
<1>5. QueueKept(Here')
  <2>1. ASSUME NEW i \in QueueId
        PROVE  /\ w'.queued[i].executeAfter # 0 => i < id + 1 /\ g.runs[i] = 0
               /\ g.runs[i] # 0 => g.runs[i] = 1 /\ i < id + 1
    <3>1. i < id => i < id + 1
      BY <1>3 DEF QueueId
    <3>2. CASE i = id
      BY <1>3, <1>4, <3>2
    <3>3. CASE i # id
      BY <1>2, <1>3, <3>1, <3>3, HereFields DEF QueueKept
    <3> QED BY <3>2, <3>3
  <2> QED BY <1>1, <1>2, <2>1, HereFields DEF QueueKept
<1>6. ASSUME Len(stack) = 1 PROVE Promise!Alone
  <2>1. Committed = Here /\ Committed' = Here'
    BY <1>1, <1>6, CommittedSeen DEF Seen
  <2>2. Shielded(Here, Here', k, now)
    <3>1. /\ w.coldDelay >= w.coldDelay /\ w.frozenUntil >= w.frozenUntil
          /\ \A j \in Key, a \in Asset : w.allowance[j][a].limit <= w.allowance[j][a].limit
      BY <1>1, NoLess
    <3> QED BY <1>2, <3>1, HereFields DEF Shielded, ProposalKept
  <2>3. WithinLimit(Here, Here', now)
    <3>1. \A a \in Asset : w.balance[a] - w.balance[a]
                             + (IF a = USDC THEN w.gasAllowance - w.gasAllowance ELSE 0) <= 0
      BY <1>1 DEF Storage
    <3> QED BY <1>2, <3>1, HereFields DEF WithinLimit, Taken
  <2>4. ASSUME NEW i \in QueueId PROVE Announces(Here, Here', i, now)
    <3>1. k \in Owners(w) /\ now + w.coldDelay >= now + w.coldDelay
      BY <1>1 DEF SameRules, Owners, Storage
    <3>2. CASE i = id
      BY <1>1, <1>2, <1>4, <3>1, <3>2, HereFields DEF Announces
    <3>3. CASE i # id
      BY <1>1, <1>2, <3>3, HereFields DEF Announces, ActionKept
    <3> QED BY <3>2, <3>3
  <2> QED BY <1>1, <2>1, <2>2, <2>3, <2>4, HereFields, AloneStep
<1>7. ASSUME Len(stack) >= 3
      PROVE  Stands(Committed, Here', stack[2], Len(stack), "outside", now)
  <2>1. ~locked
    BY <1>7, StackShape
  <2> QED BY <1>1, <1>5, <1>7, <2>1, TopStands, StackShape, SeenTypes, HereFields, UnlockedStands
<1> QED BY <1>1, <1>5, <1>6, <1>7, IdleFulfils DEF Promise!Transaction

LEMMA DispatchFulfils ==
  ASSUME IInv, AuthorInv, PromiseInv, Top.kind = "outside", now' = now,
         NEW s \in Storage, SameRules(w, s), s.recovery = w.recovery,
         NEW k \in Key, NEW calls \in Seq(Call), NEW sponsored \in BOOLEAN,
         Dispatch(s, w, k, calls, sponsored), ~locked \/ Len(stack) = 1
  PROVE  Fulfils
<1>1. CASE OwnerQueues(s, k, calls)
  BY <1>1, QueuesFulfils
<1>2. CASE OwnerRuns(s, w, k, calls, sponsored) \/ SpenderRuns(s, w, k, calls, sponsored)
  <2> DEFINE f == Frame("dispatch", k, calls, IF s.role[k] = "owner" THEN <<>> ELSE calls,
                        sponsored)
  <2>1. /\ f \in RunningFrame /\ f.kind = "dispatch" /\ f.who = k /\ f.calls = calls
        /\ f.charge = IF s.role[k] = "owner" THEN <<>> ELSE calls
    <3>1. <<>> \in Seq(Call)
      OBVIOUS
    <3> QED BY <3>1, FrameType DEF IInv, Frame
  <2>2. /\ Enter(f, w) /\ locked' = TRUE
        /\ g'.runs = g.runs /\ g'.cosigner = g.cosigner
        /\ \/ s.role[k] = "owner" /\ ~MustWait(s, k, calls) /\ CanDispatch(s, k, calls)
           \/ s.role[k] = "spender"
    BY <1>2 DEF OwnerRuns, SpenderRuns, IInv, TypeOK, History
  <2>3. SameRules(w, w') /\ w'.recovery.executeAfter \in {0, w.recovery.executeAfter}
    BY <1>2 DEF OwnerRuns, SpenderRuns, SameRules, CancelRecovery, NoRecovery, Storage, Recovery
  <2> HIDE DEF f
  <2>4. Here \in Snapshot /\ QueueKept(Here) /\ w.role[k] = s.role[k]
    BY SeenTypes, TopStands DEF SameRules
  <2>5. ASSUME Len(stack) = 1 PROVE Stands(Committed, Here', f, 2, f.kind, now)
    <3>1. Committed = Here
      BY <2>5, TopStands
    <3>2. CASE s.role[k] = "owner"
      <4>1. Guarded(Here, now) => \/ AllProtect(w, calls, k)
                                  \/ w.coldDelay = 0 /\ IsUnfreeze(calls)
        <5>1. AllProtect(s, calls, k) => AllProtect(w, calls, k)
          BY DEF AllProtect, IsProtect, Signers, Owners, SameRules
        <5> QED BY <2>2, <3>2, <5>1, HereFields
              DEF Guarded, MustWait, CanDispatch, Frozen, SameRules
      <4> QED BY <2>1, <2>2, <2>3, <2>4, <3>1, <3>2, <4>1, HereFields, OwnerStarts
    <3>3. CASE s.role[k] = "spender"
      BY <2>1, <2>2, <2>3, <2>4, <3>1, <3>3, HereFields, SpenderStarts
    <3> QED BY <2>2, <3>2, <3>3
  <2>6. ASSUME Len(stack) >= 3
        PROVE  Stands(Committed, Here', stack[2], Len(stack) + 1, f.kind, now)
    <3>1. ~locked /\ QueueKept(Here')
      BY <2>2, <2>3, <2>4, <2>6, StackShape, HereFields DEF QueueKept, SameRules
    <3> QED BY <2>2, <2>6, <3>1, TopStands, StackShape, SeenTypes, HereFields, UnlockedStands
  <2> QED BY <2>1, <2>2, <2>5, <2>6, EnterFulfils
<1> QED BY <1>1, <1>2 DEF Dispatch

LEMMA MetaFulfils ==
  ASSUME IInv, AuthorInv, PromiseInv, NEW k \in Key, NEW calls \in Seq(Call), Meta(k, calls)
  PROVE  Fulfils
<1> DEFINE nonces == [w.nonces EXCEPT ![k] = @ + 1]
           s == [w EXCEPT !.nonces[k] = @ + 1]
<1>1. w \in Storage /\ nonces \in [Key -> Nat]
  BY DEF IInv, TypeOK, Storage
<1>2. s = [w EXCEPT !.nonces = nonces]
  OBVIOUS
<1>3. Top.kind = "outside" /\ Dispatch(s, w, k, calls, FALSE) /\ ~locked /\ now' = now
  BY DEF Meta, CanEnter
<1> HIDE DEF nonces, s
<1>4. s \in Storage /\ SameRules(w, s) /\ s.recovery = w.recovery
  BY <1>1, <1>2, NonceUpdate DEF SameRules, Storage
<1> QED BY <1>3, <1>4, DispatchFulfils

LEMMA MetaTransferFulfils ==
  ASSUME IInv, AuthorInv, PromiseInv, MetaTransfer
  PROVE  Fulfils
<1>1. PICK k \in Key, a \in Asset, n \in TransferAmount :
        Meta(k, <<[op |-> "send", asset |-> a, amount |-> n]>>)
  BY DEF MetaTransfer
<1>2. [op |-> "send", asset |-> a, amount |-> n] \in Call
  BY BoundAssumption DEF Call
<1>3. <<[op |-> "send", asset |-> a, amount |-> n]>> \in Seq(Call)
  BY <1>2
<1> QED BY <1>1, <1>3, MetaFulfils

LEMMA ExecuteUserOpFulfils ==
  ASSUME IInv, AuthorInv, PromiseInv, ExecuteUserOp
  PROVE  Fulfils
<1>1. NextOp \in Op
  BY BundleType DEF IInv, ExecuteUserOp
<1>2. NextOp.who \in Key /\ NextOp.calls \in Seq(Call) /\ NextOp.sponsored \in BOOLEAN
  BY <1>1 DEF Op
<1>3. Top.kind = "outside" /\ Len(stack) = 1 /\ now' = now
  BY StackShape DEF ExecuteUserOp, BetweenTransactions
<1>4. w \in Storage /\ Dispatch(w, w, NextOp.who, NextOp.calls, NextOp.sponsored)
  BY DEF IInv, TypeOK, ExecuteUserOp
<1>5. SameRules(w, w)
  BY DEF SameRules
<1> QED BY <1>2, <1>3, <1>4, <1>5, DispatchFulfils

(***************************************************************************)
(* A queued action begins: from here on the transaction has waited.        *)
(***************************************************************************)
LEMMA QueuedStands ==
  ASSUME NEW c \in Snapshot, NEW x \in Snapshot, NEW y, NEW t, QueueKept(x), Grown(c, x),
         NEW id \in QueueId, x.w.queued[id].executeAfter # 0, t >= x.w.queued[id].executeAfter,
         y.w.queued = [x.w.queued EXCEPT ![id] = NotQueued], y.w.queueCount = x.w.queueCount,
         y.g.runs = [x.g.runs EXCEPT ![id] = @ + 1], y.g.cosigner = x.g.cosigner,
         NEW h, Bound(c, h, t) => HasWaited(c, x, t) \/ \E k : Kept(c, x, k, t),
         NEW m, NEW kind
  PROVE  Stands(c, y, h, m, kind, t)
<1>1. /\ c.g.runs \in [QueueId -> Nat] /\ x.g.runs \in [QueueId -> Nat]
      /\ x.w.queued \in [QueueId -> Queued]
  BY SnapshotType DEF History, Storage
<1>2. x.g.runs[id] = 0 /\ id < x.w.queueCount
  BY DEF QueueKept
<1>3. /\ y.g.runs[id] = 1 /\ y.w.queued[id].executeAfter = 0
      /\ \A i \in QueueId \ {id} : y.g.runs[i] = x.g.runs[i] /\ y.w.queued[i] = x.w.queued[i]
  BY <1>1, <1>2 DEF NotQueued
<1>4. QueueKept(y)
  <2>1. ASSUME NEW i \in QueueId
        PROVE  /\ y.w.queued[i].executeAfter # 0 => i < y.w.queueCount /\ y.g.runs[i] = 0
               /\ y.g.runs[i] # 0 => y.g.runs[i] = 1 /\ i < y.w.queueCount
    <3>1. CASE i = id
      BY <1>2, <1>3, <3>1
    <3>2. CASE i # id
      BY <1>3, <3>2 DEF QueueKept
    <3> QED BY <3>1, <3>2
  <2> QED BY <2>1 DEF QueueKept
<1>5. Grown(c, y)
  <2>1. ASSUME NEW i \in QueueId PROVE y.g.runs[i] >= c.g.runs[i]
    <3>1. x.g.runs[i] >= c.g.runs[i] /\ c.g.runs[i] \in Nat
      BY <1>1 DEF Grown
    <3>2. CASE i = id
      BY <1>2, <1>3, <3>1, <3>2
    <3>3. CASE i # id
      BY <1>3, <3>1, <3>3
    <3> QED BY <3>2, <3>3
  <2> QED BY <2>1 DEF Grown
<1>6. ASSUME HasWaited(c, x, t) PROVE HasWaited(c, y, t)
  <2>1. PICK i \in QueueId :
          /\ x.g.runs[i] = c.g.runs[i] + 1 /\ c.w.queued[i].executeAfter # 0
          /\ t >= c.w.queued[i].executeAfter \/ SecondKey(c, x, i)
    BY <1>6 DEF HasWaited
  <2>2. i # id
    BY <1>1, <1>2, <2>1
  <2> QED BY <1>3, <2>1, <2>2 DEF HasWaited, SecondKey
<1>7. ASSUME NEW k, Kept(c, x, k, t) PROVE HasWaited(c, y, t)
  <2>1. ActionKept(c, x, id, t) /\ y.g.runs[id] = c.g.runs[id] + 1
    BY <1>2, <1>3, <1>7 DEF Kept
  <2>2. c.w.queued[id].executeAfter # 0
    BY <2>1 DEF ActionKept
  <2>3. t >= c.w.queued[id].executeAfter \/ SecondKey(c, y, id)
    BY <2>1 DEF ActionKept, SecondKey
  <2> QED BY <2>1, <2>2, <2>3 DEF HasWaited
<1> QED BY <1>4, <1>5, <1>6, <1>7 DEF Stands

LEMMA StartFields ==
  ASSUME IInv, NEW id \in QueueId, CanRun(w, id, now), StartQueued(id)
  PROVE  /\ Here.w.queued[id].executeAfter # 0 /\ now >= Here.w.queued[id].executeAfter
         /\ Here'.w.queued = [Here.w.queued EXCEPT ![id] = NotQueued]
         /\ Here'.w.queueCount = Here.w.queueCount
         /\ Here'.g.runs = [Here.g.runs EXCEPT ![id] = @ + 1]
         /\ Here'.g.cosigner = Here.g.cosigner
<1>1. w'.queued = [w.queued EXCEPT ![id] = NotQueued] /\ w'.queueCount = w.queueCount
  BY DEF StartQueued, Dequeue, IInv, TypeOK, Storage
<1>2. g'.runs = [g.runs EXCEPT ![id] = @ + 1] /\ g'.cosigner = g.cosigner
  BY DEF StartQueued, IInv, TypeOK, History
<1>3. w.queued[id].executeAfter # 0 /\ now >= w.queued[id].executeAfter
  BY DEF CanRun
<1> QED BY <1>1, <1>2, <1>3, HereFields

LEMMA SameKept ==
  ASSUME NEW c \in Snapshot, QueueKept(c), NEW k, NEW t
  PROVE  Grown(c, c) /\ Kept(c, c, k, t)
BY EnteredKept DEF SameRules

LEMMA ExecuteQueuedFulfils ==
  ASSUME IInv, AuthorInv, PromiseInv, ExecuteQueued
  PROVE  Fulfils
<1>1. PICK id \in QueueId :
        /\ Top.kind = "outside" /\ CanRun(w, id, now) /\ StartQueued(id)
        /\ Enter(QueuedFrame(id), w) /\ now' = now
  BY DEF ExecuteQueued, CanEnter
<1>2. QueuedFrame(id) \in RunningFrame
  BY <1>1, QueuedAuthors
<1>3. QueueKept(Here) /\ Here \in Snapshot /\ Committed \in Snapshot
  BY TopStands, SeenTypes
<1>4. Grown(Committed, Here)
  BY <1>1, <1>3, TopStands, SameKept, StackShape DEF Stands
<1>5. ASSUME NEW h, Len(stack) >= 3 => h = stack[2]
      PROVE  \A m, kind : Stands(Committed, Here', h, m, kind, now)
  <2>1. ASSUME Bound(Committed, h, now)
        PROVE  HasWaited(Committed, Here, now) \/ \E k : Kept(Committed, Here, k, now)
    <3>1. CASE Len(stack) = 1
      BY <1>3, <3>1, TopStands, SameKept
    <3>2. CASE Len(stack) >= 3
      <4>1. Len(stack) # 2 /\ Len(stack) >= 2 /\ h = stack[2]
        BY <1>5, <3>2, StackShape
      <4> QED BY <2>1, <4>1, TopStands DEF Stands, Alone
    <3> QED BY <1>1, <3>1, <3>2, StackShape
  <2> QED BY <1>1, <1>3, <1>4, <2>1, StartFields, QueuedStands
<1>6. Len(stack) >= 3 => \A m, kind : Stands(Committed, Here', stack[2], m, kind, now)
  BY <1>5
<1>7. Len(stack) = 1 =>
        \A m, kind : Stands(Committed, Here', QueuedFrame(id), m, kind, now)
  BY <1>5
<1> HIDE DEF QueuedFrame
<1> QED BY <1>1, <1>2, <1>6, <1>7, EnterFulfils

-----------------------------------------------------------------------------
(***************************************************************************)
(* The running batch.                                                      *)
(***************************************************************************)
LEMMA RunningShape ==
  ASSUME IInv, AuthorInv, Running
  PROVE  /\ Len(stack) \in Nat /\ Len(stack) >= 2 /\ Top \in RunningFrame
         /\ Top = stack[Len(stack)] /\ Top.kind # "outside"
         /\ Len(stack) = 2 \/ Len(stack) >= 3
<1>1. Top \in RunningFrame /\ Top.kind # "outside"
  BY RunningTop
<1>2. Len(stack) # 1
  BY <1>1, StackShape
<1>3. \A n \in Nat : n >= 1 /\ n # 1 => n >= 2 /\ (n = 2 \/ n >= 3)
  OBVIOUS
<1> QED BY <1>1, <1>2, <1>3, StackShape

LEMMA TopFulfils ==
  ASSUME IInv, AuthorInv, PromiseInv, now' = now, NEW n \in Nat, n >= 2,
         Advanced(stack, stack', n),
         Stands(Committed, Here', stack'[2], n, stack'[n].kind, now)
  PROVE  Fulfils
<1>1. StandsAll(stack', Here', now) /\ Seen(stack', Here', 1) = Seen(stack, Here, 1)
  BY CommittedSeen, StandsAtTop DEF PromiseInv
<1> QED BY <1>1, CommittedSeen DEF Fulfils, PromiseInv

LEMMA AboveFulfils ==
  ASSUME IInv, AuthorInv, PromiseInv, now' = now, NEW n \in Nat, n >= 1,
         Added(stack, stack', n), stack[n].kind = "outside" => stack'[n].saved[1] = Here,
         Stands(Committed, Here', stack'[2], n + 1, stack'[n + 1].kind, now)
  PROVE  Fulfils
<1>1. stack[1].kind = "outside" /\ (n >= 2 => stack[2].kind # "outside")
  BY StackShape DEF Added
<1>2. StandsAll(stack', Here', now) /\ Seen(stack', Here', 1) = Seen(stack, Here, 1)
  BY <1>1, CommittedSeen, StandsAbove DEF PromiseInv
<1> QED BY <1>2, CommittedSeen DEF Fulfils, PromiseInv

LEMMA AdvanceFulfils ==
  ASSUME IInv, AuthorInv, PromiseInv, Running, NEW f \in RunningFrame, f.kind = Top.kind,
         stack' = [stack EXCEPT ![Len(stack)] = f], now' = now,
         Len(stack) = 2 => Stands(Committed, Here', f, 2, Top.kind, now),
         Len(stack) >= 3 => Stands(Committed, Here', stack[2], Len(stack), Top.kind, now)
  PROVE  Fulfils
<1> DEFINE n == Len(stack)
<1>1. /\ stack \in Seq(RunningFrame \cup OutsideFrame) /\ n \in Nat /\ n >= 2
      /\ stack[n].kind = Top.kind /\ (n = 2 \/ n >= 3)
  BY StackFacts, RunningShape
<1>2. /\ Len(stack') = n /\ stack'[n] = f
      /\ \A j \in 1 .. n - 1 : stack'[j] = stack[j]
  BY <1>1
<1>3. n = 2 => Stands(Committed, Here', f, n, f.kind, now)
  OBVIOUS
<1>4. n >= 3 => Stands(Committed, Here', stack[2], n, f.kind, now)
  OBVIOUS
<1>5. StandsAll(stack, Here, now) /\ Len(stack) = n
  BY DEF PromiseInv
<1> HIDE DEF n
<1>6. stack'[n].kind = stack[n].kind
  BY <1>1, <1>2
<1>7. Stands(Committed, Here', stack'[2], n, stack'[n].kind, now)
  <2>1. CASE n = 2
    BY <1>2, <1>3, <2>1
  <2>2. CASE n >= 3
    <3>1. 2 \in 1 .. n - 1
      BY <1>1, <2>2
    <3> QED BY <1>2, <1>4, <2>2, <3>1
  <2> QED BY <1>1, <2>1, <2>2
<1>8. Advanced(stack, stack', n)
  BY <1>2, <1>5, <1>6 DEF Advanced
<1> QED BY <1>1, <1>7, <1>8, TopFulfils

LEMMA PushFulfils ==
  ASSUME IInv, AuthorInv, PromiseInv, Running, Top.calls # <<>>, now' = now,
         NEW f \in RunningFrame \cup OutsideFrame,
         stack' = Append([stack EXCEPT ![Len(stack)].calls = Tail(@)], f),
         Len(stack) = 2 =>
           Stands(Committed, Here', [Top EXCEPT !.calls = Tail(@)], 3, f.kind, now),
         Len(stack) >= 3 =>
           Stands(Committed, Here', stack[2], Len(stack) + 1, f.kind, now)
  PROVE  Fulfils
<1> DEFINE n == Len(stack)
           top == [Top EXCEPT !.calls = Tail(@)]
           mid == [stack EXCEPT ![n] = top]
<1>1. /\ stack \in Seq(RunningFrame \cup OutsideFrame) /\ n \in Nat /\ n >= 2
      /\ stack[n].kind = Top.kind /\ Top.kind # "outside" /\ (n = 2 \/ n >= 3)
      /\ top \in RunningFrame /\ top.kind = Top.kind
  BY StackFacts, RunningShape, TailFrame
<1>2. stack' = Append(mid, f)
  BY DEF Top
<1>3. n = 2 => Stands(Committed, Here', top, n + 1, f.kind, now)
  OBVIOUS
<1> HIDE DEF top
<1>4. /\ Len(stack') = n + 1 /\ stack'[n] = top /\ stack'[n + 1] = f
      /\ \A j \in 1 .. n - 1 : stack'[j] = stack[j]
  <2>1. /\ mid \in Seq(RunningFrame \cup OutsideFrame) /\ Len(mid) = n /\ mid[n] = top
        /\ \A j \in 1 .. n - 1 : mid[j] = stack[j]
    BY <1>1
  <2> HIDE DEF mid
  <2> QED BY <1>1, <1>2, <2>1
<1>5. (n = 2 => stack'[2] = top) /\ (n >= 3 => stack'[2] = stack[2])
  BY <1>1, <1>4
<1>6. Stands(Committed, Here', stack'[2], n + 1, stack'[n + 1].kind, now)
  BY <1>1, <1>3, <1>4, <1>5
<1>7. /\ StandsAll(stack, Here, now) /\ Len(stack) = n
      /\ stack'[n].kind = stack[n].kind
      /\ stack[1].kind = "outside" /\ stack[2].kind # "outside" /\ stack[n].kind # "outside"
  BY <1>1, <1>4, StackShape DEF PromiseInv
<1> HIDE DEF mid, n
<1>8. Added(stack, stack', n)
  BY <1>4, <1>7 DEF Added
<1>9. n >= 1 /\ (stack[n].kind = "outside" => stack'[n].saved[1] = Here)
  BY <1>1, <1>7
<1> QED BY <1>1, <1>6, <1>8, <1>9, AboveFulfils

LEMMA RunQueuedFulfils ==
  ASSUME IInv, AuthorInv, PromiseInv, RunQueued
  PROVE  Fulfils
<1>1. /\ Calling /\ Running /\ Top.calls # <<>> /\ NextCall.op = "executeQueued"
      /\ Allowed(NextCall) /\ StartQueued(NextCall.id) /\ now' = now
      /\ stack' = Append([stack EXCEPT ![Len(stack)].calls = Tail(@)],
                         QueuedFrame(NextCall.id))
  BY DEF RunQueued, Calling
<1>2. NextCall.id \in QueueId /\ CanRun(w, NextCall.id, now)
  BY <1>1, CallingTop, CallFields DEF Allowed
<1>3. QueuedFrame(NextCall.id) \in RunningFrame
  BY <1>1, <1>2, QueuedAuthors
<1>4. QueueKept(Here) /\ Here \in Snapshot /\ Committed \in Snapshot
  BY TopStands, SeenTypes
<1>5. /\ Len(stack) >= 2 /\ Stands(Committed, Here, stack[2], Len(stack), Top.kind, now)
      /\ Len(stack) = 2 => stack[2] = Top
  BY <1>1, TopStands, RunningShape
<1>6. ~(Len(stack) = 2 /\ Unfreezing(Committed, Here, stack[2]))
  BY <1>1, <1>5 DEF Unfreezing, IsUnfreeze, NextCall
<1>7. ASSUME NEW h, h.who = stack[2].who
      PROVE  \A m, kind : Stands(Committed, Here', h, m, kind, now)
  <2>1. Bound(Committed, h, now) => Bound(Committed, stack[2], now)
    BY <1>7 DEF Bound
  <2>2. /\ Grown(Committed, Here)
        /\ Bound(Committed, h, now) =>
             HasWaited(Committed, Here, now) \/ \E k : Kept(Committed, Here, k, now)
    BY <1>5, <1>6, <2>1 DEF Stands, Alone
  <2> QED BY <1>1, <1>2, <1>4, <2>2, StartFields, QueuedStands
<1>8. /\ \A m, kind : Stands(Committed, Here', stack[2], m, kind, now)
      /\ Len(stack) = 2 => \A m, kind :
            Stands(Committed, Here', [Top EXCEPT !.calls = Tail(@)], m, kind, now)
  <2>1. [Top EXCEPT !.calls = Tail(@)].who = Top.who
    BY <1>1, RunningTop DEF RunningFrame
  <2> QED BY <1>5, <1>7, <2>1
<1> HIDE DEF QueuedFrame, NextCall
<1> QED BY <1>1, <1>3, <1>8, PushFulfils

\* A step of the running batch that calls nobody.
LEMMA StepFulfils ==
  ASSUME IInv, AuthorInv, PromiseInv, Running, now' = now,
         NEW f \in RunningFrame, f.kind = Top.kind, f.who = Top.who,
         stack' = [stack EXCEPT ![Len(stack)] = f],
         QueueKept(Here'), g'.runs = g.runs,
         HasWaited(Committed, Here, now) => HasWaited(Committed, Here', now),
         Unfreezing(Committed, Here, Top) => Unfreezing(Committed, Here', f),
         Alone(Committed, Here, Top, now) => Alone(Committed, Here', f, now)
  PROVE  Fulfils
<1>1. /\ Len(stack) \in Nat /\ Len(stack) >= 2 /\ Top.kind # "outside"
      /\ Len(stack) = 2 => stack[2] = Top
      /\ Stands(Committed, Here, stack[2], Len(stack), Top.kind, now)
      /\ Here'.g.runs = Here.g.runs
  BY RunningShape, TopStands, HereFields
<1>2. QueueKept(Here') /\ Grown(Committed, Here')
  BY <1>1 DEF Stands, Grown
<1>3. ASSUME Len(stack) = 2
      PROVE  Stands(Committed, Here', f, 2, Top.kind, now)
  BY <1>1, <1>2, <1>3 DEF Stands, Bound
<1>4. ASSUME Len(stack) >= 3
      PROVE  Stands(Committed, Here', stack[2], Len(stack), Top.kind, now)
  BY <1>1, <1>2, <1>4 DEF Stands, Bound
<1> QED BY <1>3, <1>4, AdvanceFulfils

-----------------------------------------------------------------------------
(***************************************************************************)
(* A spender's calls are charged.                                          *)
(***************************************************************************)
LEMMA SpendFields ==
  ASSUME NEW s \in Storage, NEW k \in Key, NEW a \in Asset, NEW n \in Nat, NEW t \in Nat
  PROVE  LET r == Spend(s, k, a, n, t)
             al == s.allowance[k][a]
         IN  /\ r.role = s.role /\ r.guardians = s.guardians
             /\ r.recoveryDelay = s.recoveryDelay /\ r.recovery = s.recovery
             /\ r.coldDelay = s.coldDelay /\ r.frozenUntil = s.frozenUntil
             /\ r.noTwoKeySkip = s.noTwoKeySkip /\ r.queueCount = s.queueCount
             /\ r.queued = s.queued /\ r.balance = s.balance
             /\ r.gasAllowance = s.gasAllowance
             /\ \A j \in Key, b \in Asset : r.allowance[j][b].limit = s.allowance[j][b].limit
             /\ \A b \in Asset \ {a} : r.allowance[k][b] = s.allowance[k][b]
             /\ n = 0 => r = s
             /\ n # 0 /\ WindowOver(al, t) =>
                  r.allowance[k][a].spent = n /\ r.allowance[k][a].windowStart = t
             /\ n # 0 /\ ~WindowOver(al, t) =>
                  /\ r.allowance[k][a].spent = al.spent + n
                  /\ r.allowance[k][a].windowStart = al.windowStart
<1> DEFINE r == Spend(s, k, a, n, t)
           al == s.allowance[k][a]
           charged == IF WindowOver(al, t) THEN [al EXCEPT !.spent = n, !.windowStart = t]
                                           ELSE [al EXCEPT !.spent = @ + n]
<1>1. n = 0 => r = s
  BY DEF Spend
<1>2. s.allowance \in [Key -> [Asset -> Allowance]] /\ al \in Allowance
  BY DEF Storage
<1>3. n # 0 =>
        /\ r.role = s.role /\ r.guardians = s.guardians
        /\ r.recoveryDelay = s.recoveryDelay /\ r.recovery = s.recovery
        /\ r.coldDelay = s.coldDelay /\ r.frozenUntil = s.frozenUntil
        /\ r.noTwoKeySkip = s.noTwoKeySkip /\ r.queueCount = s.queueCount
        /\ r.queued = s.queued /\ r.balance = s.balance /\ r.gasAllowance = s.gasAllowance
        /\ r.allowance = [s.allowance EXCEPT ![k] = [s.allowance[k] EXCEPT ![a] = charged]]
  BY DEF Spend, Storage
<1>4. /\ charged.limit = al.limit
      /\ WindowOver(al, t) => charged.spent = n /\ charged.windowStart = t
      /\ ~WindowOver(al, t) => charged.spent = al.spent + n /\ charged.windowStart = al.windowStart
  <2> HIDE DEF al
  <2> QED BY <1>2 DEF Allowance
<1> HIDE DEF r, charged
<1>5. n # 0 => /\ r.allowance[k][a] = charged
               /\ \A b \in Asset \ {a} : r.allowance[k][b] = s.allowance[k][b]
               /\ \A j \in Key \ {k} : r.allowance[j] = s.allowance[j]
  BY <1>2, <1>3
<1>6. \A j \in Key, b \in Asset : r.allowance[j][b].limit = s.allowance[j][b].limit
  BY <1>1, <1>4, <1>5
<1> QED BY <1>1, <1>3, <1>4, <1>5, <1>6 DEF r

\* What SpendFields says of the allowance that is charged, and of the others.
LEMMA SpendCounts ==
  ASSUME NEW s \in Storage, NEW k \in Key, NEW a \in Asset, NEW n \in Nat, NEW t \in Nat,
         n # 0
  PROVE  /\ WindowOver(s.allowance[k][a], t) =>
              /\ Spend(s, k, a, n, t).allowance[k][a].spent = n
              /\ Spend(s, k, a, n, t).allowance[k][a].windowStart = t
         /\ ~WindowOver(s.allowance[k][a], t) =>
              /\ Spend(s, k, a, n, t).allowance[k][a].spent = s.allowance[k][a].spent + n
              /\ Spend(s, k, a, n, t).allowance[k][a].windowStart
                   = s.allowance[k][a].windowStart
BY SpendFields

LEMMA SpendLeaves ==
  ASSUME NEW s \in Storage, NEW k \in Key, NEW a \in Asset, NEW n \in Nat, NEW t \in Nat,
         NEW r, r = Spend(s, k, a, n, t)
  PROVE  /\ r.role = s.role /\ r.guardians = s.guardians
         /\ r.recoveryDelay = s.recoveryDelay /\ r.recovery = s.recovery
         /\ r.coldDelay = s.coldDelay /\ r.frozenUntil = s.frozenUntil
         /\ r.noTwoKeySkip = s.noTwoKeySkip /\ r.queueCount = s.queueCount
         /\ r.queued = s.queued /\ r.balance = s.balance
         /\ r.gasAllowance = s.gasAllowance
         /\ \A j \in Key, b \in Asset : r.allowance[j][b].limit = s.allowance[j][b].limit
BY SpendFields

LEMMA SpendElsewhere ==
  ASSUME NEW s \in Storage, NEW k \in Key, NEW a \in Asset, NEW n \in Nat, NEW t \in Nat,
         NEW b \in Asset \ {a}
  PROVE  Spend(s, k, a, n, t).allowance[k][b] = s.allowance[k][b]
BY SpendFields

LEMMA RemainingIs ==
  ASSUME NEW x \in Snapshot, NEW k \in Key, NEW a \in Asset, NEW t
  PROVE  LET l == x.w.allowance[k][a].limit IN
         /\ l \in Nat
         /\ Remaining(x.w, k, a, t) =
              IF l > Spent(x, k, a, t) THEN l - Spent(x, k, a, t) ELSE 0
<1> DEFINE al == x.w.allowance[k][a]
<1>1. al.limit \in Nat /\ al.spent \in Nat
  BY SnapshotType DEF Storage, Allowance
<1>2. Spent(x, k, a, t) = IF WindowOver(al, t) THEN 0 ELSE al.spent
  BY DEF Spent
<1>3. Remaining(x.w, k, a, t) =
        CASE WindowOver(al, t) -> al.limit
          [] ~WindowOver(al, t) /\ al.limit > al.spent -> al.limit - al.spent
          [] OTHER -> 0
  BY DEF Remaining
<1> HIDE DEF al
<1>4. CASE WindowOver(al, t)
  BY <1>1, <1>2, <1>3, <1>4 DEF al
<1>5. CASE ~WindowOver(al, t) /\ al.limit > al.spent
  BY <1>1, <1>2, <1>3, <1>5 DEF al
<1>6. CASE ~WindowOver(al, t) /\ ~(al.limit > al.spent)
  BY <1>1, <1>2, <1>3, <1>6 DEF al
<1> QED BY <1>4, <1>5, <1>6

\* Charging m more to an allowance of which n is counted: both are within what was left.
LEMMA ChargedMore ==
  ASSUME NEW c \in Snapshot, NEW x \in Snapshot, NEW y, NEW t \in Nat, NEW k \in Key,
         NEW a \in Asset, NEW n \in Nat, Charged(c, x, k, a, n, t), NEW m \in Nat,
         x.w.role[k] # "none", CanSpend(x.w, k, a, m, t),
         y.w.allowance = Spend(x.w, k, a, m, t).allowance,
         x.w.allowance[k][a].limit <= c.w.allowance[k][a].limit,
         x.w.frozenUntil >= c.w.frozenUntil
  PROVE  Charged(c, y, k, a, n + m, t)
<1> DEFINE cl == c.w.allowance[k][a].limit
           xl == x.w.allowance[k][a].limit
           cs == Spent(c, k, a, t)
           xs == Spent(x, k, a, t)
<1>1. /\ cl \in Nat /\ xl \in Nat /\ cs \in Nat /\ xs \in Nat /\ xl <= cl
      /\ Remaining(c.w, k, a, t) = IF cl > cs THEN cl - cs ELSE 0
      /\ Remaining(x.w, k, a, t) = IF xl > xs THEN xl - xs ELSE 0
  BY RemainingIs, SpentType
<1>2. xs >= cs + n /\ CanSpend(c.w, k, a, n, t)
  BY DEF Charged
<1> HIDE DEF cl, xl, cs, xs
<1>3. Spent(y, k, a, t) = Spent(x, k, a, t) + m
  <2> DEFINE al == x.w.allowance[k][a]
             be == Spend(x.w, k, a, m, t).allowance[k][a]
  <2>1. x.w \in Storage /\ al \in Allowance /\ WINDOW \in Nat \ {0} /\ be = y.w.allowance[k][a]
    BY SnapshotType, TimingAssumption DEF Storage
  <2>2. al.spent \in Nat /\ al.windowStart \in Nat
    BY <2>1 DEF Allowance
  <2>3. CASE m = 0
    <3>1. y.w.allowance = x.w.allowance
      BY <2>1, <2>3, SpendFields
    <3>2. Spent(y, k, a, t) = Spent(x, k, a, t)
      BY <3>1 DEF Spent
    <3> QED BY <2>3, <3>2, SpentType
  <2>4. CASE m # 0 /\ WindowOver(al, t)
    <3>1. be.spent = m /\ be.windowStart = t
      BY <2>1, <2>4, SpendCounts
    <3>2. ~WindowOver(be, t)
      BY <2>1, <3>1 DEF WindowOver
    <3> QED BY <2>1, <2>4, <3>1, <3>2 DEF Spent
  <2>5. CASE m # 0 /\ ~WindowOver(al, t)
    <3>1. be.spent = al.spent + m /\ be.windowStart = al.windowStart
      BY <2>1, <2>5, SpendCounts
    <3>2. ~WindowOver(be, t)
      BY <2>5, <3>1 DEF WindowOver
    <3> QED BY <2>1, <2>5, <3>1, <3>2 DEF Spent
  <2> QED BY <2>3, <2>4, <2>5
<1>4. CASE m = 0
  <2>1. n + m = n /\ xs + m = xs
    BY <1>1, <1>4
  <2> QED BY <1>2, <1>3, <2>1 DEF Charged, cs, xs
<1>5. CASE m # 0
  <2>1. ~Frozen(x.w, t) /\ m <= Remaining(x.w, k, a, t)
    BY <1>5 DEF CanSpend
  <2>2. ~Frozen(c.w, t)
    <3>1. c.w.frozenUntil \in Nat /\ x.w.frozenUntil \in Nat
      BY SnapshotType DEF Storage
    <3> QED BY <2>1, <3>1 DEF Frozen
  <2>3. n + m <= Remaining(c.w, k, a, t)
    BY <1>1, <1>2, <1>5, <2>1
  <2>4. CanSpend(c.w, k, a, n + m, t)
    BY <2>2, <2>3 DEF CanSpend
  <2>5. Spent(y, k, a, t) >= cs + (n + m) /\ n + m \in Nat
    <3>1. Spent(y, k, a, t) = xs + m
      BY <1>3 DEF xs
    <3> QED BY <1>1, <1>2, <3>1
  <2> QED BY <2>4, <2>5 DEF Charged, cs
<1> QED BY <1>4, <1>5

LEMMA CostMore ==
  ASSUME NEW q, NEW calls, NEW m \in Nat, NEW a, IsCost(q, calls, m, a),
         CostIn(calls[m + 1], a) \in Nat
  PROVE  \E p : IsCost(p, calls, m + 1, a) /\ p[m + 1] = q[m] + CostIn(calls[m + 1], a)
<1> DEFINE n == CostIn(calls[m + 1], a)
           p == [j \in 0 .. m + 1 |-> IF j = m + 1 THEN q[m] + n ELSE q[j]]
<1>1. q \in [0 .. m -> Int] /\ q[0] = 0 /\ \A j \in 1 .. m : q[j] = q[j - 1] + CostIn(calls[j], a)
  BY DEF IsCost
<1>2. p \in [0 .. m + 1 -> Int] /\ p[0] = 0 /\ p[m + 1] = q[m] + n
  BY <1>1
<1>3. ASSUME NEW j \in 1 .. m + 1 PROVE p[j] = p[j - 1] + CostIn(calls[j], a)
  <2>1. CASE j = m + 1
    BY <2>1
  <2>2. CASE j # m + 1
    BY <1>1, <2>2
  <2> QED BY <2>1, <2>2
<1> HIDE DEF p
<1> QED BY <1>2, <1>3 DEF IsCost

\* The next call's cost is in n_1, the charge for it: both sides grow by the same.
LEMMA AffordedMore ==
  ASSUME NEW c \in Snapshot, NEW x \in Snapshot, NEW y, NEW k, NEW calls, NEW m \in Nat,
         NEW a \in Asset, NEW t, Afforded(c, x, k, calls, m, a, t),
         y.w.balance[a] = x.w.balance[a], CostIn(calls[m + 1], a) \in Nat,
         \A n \in Nat : Charged(c, x, k, a, n, t) =>
                          Charged(c, y, k, a, n + CostIn(calls[m + 1], a), t)
  PROVE  Afforded(c, y, k, calls, m + 1, a, t)
<1> DEFINE d == CostIn(calls[m + 1], a)
<1>1. PICK q, n :
        /\ IsCost(q, calls, m, a) /\ Charged(c, x, k, a, n, t)
        /\ (c.w.coldDelay # 0 \/ a = ETH) => c.w.balance[a] - x.w.balance[a] + q[m] <= n
  BY DEF Afforded
<1>2. PICK p : IsCost(p, calls, m + 1, a) /\ p[m + 1] = q[m] + d
  BY <1>1, CostMore
<1>3. c.w.balance[a] \in Nat /\ x.w.balance[a] \in Nat /\ n \in Nat /\ q[m] \in Int /\ d \in Nat
  <2>1. c.w.balance[a] \in Nat /\ x.w.balance[a] \in Nat
    BY SnapshotType DEF Storage
  <2>2. n \in Nat /\ q[m] \in Int
    BY <1>1 DEF Charged, IsCost
  <2> QED BY <2>1, <2>2
<1>4. Charged(c, y, k, a, n + d, t)
  BY <1>1, <1>3
<1> HIDE DEF d
<1>5. (c.w.coldDelay # 0 \/ a = ETH) => c.w.balance[a] - y.w.balance[a] + p[m + 1] <= n + d
  BY <1>1, <1>2, <1>3
<1> QED BY <1>2, <1>4, <1>5 DEF Afforded

\* What protects the wallet now protected it when the transaction began.
LEMMA ProtectedBefore ==
  ASSUME NEW c \in Snapshot, NEW x \in Snapshot, NEW k, NEW t, Shielded(c, x, k, t),
         NEW call \in Call, IsProtect(x.w, call, k, FALSE)
  PROVE  IsProtect(c.w, call, k, FALSE)
<1>1. ASSUME call.op = "setLimit", call.key = k, call.key \in Signers(x.w),
             call.limit <= x.w.allowance[call.key][call.asset].limit
      PROVE  call.key \in Signers(c.w) /\ call.limit <= c.w.allowance[call.key][call.asset].limit
  <2>1. call.key \in Key /\ call.asset \in Asset /\ call.limit \in Nat
    BY <1>1, CallFields
  <2>2. /\ x.w.allowance[call.key][call.asset].limit \in Nat
        /\ c.w.allowance[call.key][call.asset].limit \in Nat
    BY <2>1, SnapshotType DEF Storage, Allowance
  <2>3. x.w.allowance[call.key][call.asset].limit <= c.w.allowance[call.key][call.asset].limit
    BY <2>1 DEF Shielded
  <2>4. call.key \in Signers(c.w)
    BY <1>1, <2>1 DEF Shielded, Signers
  <2> QED BY <1>1, <2>1, <2>2, <2>3, <2>4
<1> QED BY <1>1 DEF IsProtect

\* Charging one call of key k.
Charges(x, y, k, call, t) ==
  /\ SpenderCall(x.w, call, k)
  /\ y.locked = x.locked /\ y.g = x.g
  /\ IF call.op = "send"
     THEN /\ CanSpend(x.w, k, call.asset, call.amount, t)
          /\ y.w = Spend(x.w, k, call.asset, call.amount, t)
     ELSE y.w = x.w

LEMMA ChargesFields ==
  ASSUME NEW x \in Snapshot, NEW y, NEW k \in Key, NEW call \in Call, NEW t \in Nat,
         Charges(x, y, k, call, t)
  PROVE  /\ y.w.role = x.w.role /\ y.w.guardians = x.w.guardians
         /\ y.w.recoveryDelay = x.w.recoveryDelay /\ y.w.recovery = x.w.recovery
         /\ y.w.coldDelay = x.w.coldDelay /\ y.w.frozenUntil = x.w.frozenUntil
         /\ y.w.noTwoKeySkip = x.w.noTwoKeySkip /\ y.w.queueCount = x.w.queueCount
         /\ y.w.queued = x.w.queued /\ y.w.balance = x.w.balance
         /\ y.w.gasAllowance = x.w.gasAllowance
         /\ \A j \in Key, b \in Asset :
              y.w.allowance[j][b].limit = x.w.allowance[j][b].limit
<1>1. x.w \in Storage
  BY SnapshotType
<1>2. CASE call.op = "send"
  <2>1. call.asset \in Asset /\ call.amount \in Nat
    BY <1>2, CallFields
  <2>2. y.w = Spend(x.w, k, call.asset, call.amount, t)
    BY <1>2 DEF Charges
  <2> DEFINE s == x.w
             r == y.w
  <2>3. s \in Storage /\ r = Spend(s, k, call.asset, call.amount, t)
    BY <1>1, <2>2
  <2> HIDE DEF s, r
  <2>4. /\ r.role = s.role /\ r.guardians = s.guardians
        /\ r.recoveryDelay = s.recoveryDelay /\ r.recovery = s.recovery
        /\ r.coldDelay = s.coldDelay /\ r.frozenUntil = s.frozenUntil
        /\ r.noTwoKeySkip = s.noTwoKeySkip /\ r.queueCount = s.queueCount
        /\ r.queued = s.queued /\ r.balance = s.balance
        /\ r.gasAllowance = s.gasAllowance
        /\ \A j \in Key, b \in Asset : r.allowance[j][b].limit = s.allowance[j][b].limit
    BY <2>1, <2>3, SpendLeaves
  <2> QED BY <2>4 DEF r, s
<1>3. CASE call.op # "send"
  BY <1>3 DEF Charges
<1> QED BY <1>2, <1>3

LEMMA ChargesMore ==
  ASSUME NEW c \in Snapshot, NEW x \in Snapshot, NEW y, NEW k \in Key, NEW call \in Call,
         NEW t \in Nat, Charges(x, y, k, call, t), Shielded(c, x, k, t),
         x.w.role[k] # "none", NEW a \in Asset, NEW n \in Nat, Charged(c, x, k, a, n, t)
  PROVE  Charged(c, y, k, a, n + CostIn(call, a), t) /\ CostIn(call, a) \in Nat
<1>1. x.w \in Storage
  BY SnapshotType
<1>2. CASE call.op = "send" /\ call.asset = a
  <2>1. call.amount \in Nat /\ CostIn(call, a) = call.amount
    BY <1>2, CallFields DEF CostIn
  <2>2. /\ CanSpend(x.w, k, a, call.amount, t)
        /\ y.w.allowance = Spend(x.w, k, a, call.amount, t).allowance
    BY <1>2 DEF Charges
  <2>3. /\ x.w.allowance[k][a].limit <= c.w.allowance[k][a].limit
        /\ x.w.frozenUntil >= c.w.frozenUntil
    BY DEF Shielded
  <2> QED BY <2>1, <2>2, <2>3, ChargedMore
<1>3. CASE ~(call.op = "send" /\ call.asset = a)
  <2>1. CostIn(call, a) = 0
    BY <1>3 DEF CostIn
  <2>2. y.w.allowance[k][a] = x.w.allowance[k][a]
    <3>1. CASE call.op = "send"
      <4>1. call.asset \in Asset /\ call.amount \in Nat /\ a \in Asset \ {call.asset}
        BY <1>3, <3>1, CallFields
      <4>2. y.w = Spend(x.w, k, call.asset, call.amount, t)
        BY <3>1 DEF Charges
      <4>3. Spend(x.w, k, call.asset, call.amount, t).allowance[k][a] = x.w.allowance[k][a]
        BY <1>1, <4>1, SpendElsewhere
      <4> QED BY <4>2, <4>3
    <3>2. CASE call.op # "send"
      BY <3>2 DEF Charges
    <3> QED BY <3>1, <3>2
  <2>3. n + CostIn(call, a) = n
    BY <2>1
  <2>4. y.w.role[k] = x.w.role[k]
    BY ChargesFields
  <2>5. Charged(c, y, k, a, n, t)
    BY <2>2, <2>4 DEF Charged, Spent
  <2> QED BY <2>1, <2>3, <2>5
<1> QED BY <1>2, <1>3

LEMMA ChargesAlone ==
  ASSUME NEW c \in Snapshot, NEW x \in Snapshot, NEW y, NEW f \in RunningFrame, NEW t \in Nat,
         f.charge # <<>>, Charges(x, y, f.who, f.charge[1], t), Alone(c, x, f, t)
  PROVE  Alone(c, y, [f EXCEPT !.charge = Tail(@)], t)
<1> DEFINE k == f.who
           m == Len(f.calls) - Len(f.charge)
           call == f.charge[1]
           h == [f EXCEPT !.charge = Tail(@)]
<1>1. /\ k \in Key /\ f.calls \in Seq(Call) /\ f.charge \in Seq(Call)
  BY DEF RunningFrame
<1>2. /\ h.who = k /\ h.calls = f.calls /\ h.charge = Tail(f.charge)
  BY DEF RunningFrame
<1>3. SpenderBatch(c, x, f, t) /\ Kept(c, x, k, t) /\ x.locked
  BY DEF Alone, OwnerBatch
<1>4. /\ m \in Nat /\ c.w.role[k] = "spender" /\ x.w.role[k] = "spender"
      /\ \A j \in 1 .. Len(f.charge) : f.charge[j] = f.calls[m + j]
      /\ \A j \in 1 .. m : IsProtect(c.w, f.calls[j], k, FALSE) \/ f.calls[j].op = "send"
      /\ \A a \in Asset : Afforded(c, x, k, f.calls, m, a, t)
      /\ x.w.gasAllowance = c.w.gasAllowance
  BY <1>3 DEF SpenderBatch
<1>5. /\ call \in Call /\ Len(Tail(f.charge)) = Len(f.charge) - 1
      /\ \A j \in 1 .. Len(f.charge) - 1 : Tail(f.charge)[j] = f.charge[j + 1]
      /\ Len(f.charge) \in Nat /\ Len(f.charge) >= 1 /\ Len(f.calls) \in Nat
  BY <1>1
<1>6. call = f.calls[m + 1] /\ Len(f.calls) - Len(Tail(f.charge)) = m + 1
  <2>1. 1 \in 1 .. Len(f.charge)
    BY <1>5
  <2>2. call = f.calls[m + 1]
    BY <1>4, <2>1
  <2>3. Len(f.calls) - (Len(f.charge) - 1) = m + 1
    BY <1>5
  <2> HIDE DEF m
  <2> QED BY <1>5, <2>2, <2>3
<1> HIDE DEF h, m, k, call
<1>7. \A j \in 1 .. Len(Tail(f.charge)) : Tail(f.charge)[j] = f.calls[(m + 1) + j]
  <2> SUFFICES ASSUME NEW j \in 1 .. Len(f.charge) - 1
               PROVE  Tail(f.charge)[j] = f.calls[(m + 1) + j]
    BY <1>5
  <2>1. j + 1 \in 1 .. Len(f.charge) /\ m + (j + 1) = (m + 1) + j
    BY <1>4, <1>5
  <2> QED BY <1>4, <1>5, <2>1
<1>8. Charges(x, y, k, call, t)
  BY DEF k, call
<1>9. IsProtect(c.w, call, k, FALSE) \/ call.op = "send"
  BY <1>3, <1>5, <1>8, ProtectedBefore DEF Charges, SpenderCall, Kept
<1>10. \A j \in 1 .. m + 1 : IsProtect(c.w, f.calls[j], k, FALSE) \/ f.calls[j].op = "send"
  <2> SUFFICES ASSUME NEW j \in 1 .. m + 1
               PROVE  IsProtect(c.w, f.calls[j], k, FALSE) \/ f.calls[j].op = "send"
    OBVIOUS
  <2>1. CASE j = m + 1
    BY <1>6, <1>9, <2>1
  <2>2. CASE j # m + 1
    <3>1. j \in 1 .. m
      BY <1>4, <2>2
    <3> QED BY <1>4, <3>1
  <2> QED BY <2>1, <2>2
<1>11. ASSUME NEW a \in Asset
       PROVE  Afforded(c, y, k, f.calls, m + 1, a, t)
  <2>1. y.w.balance[a] = x.w.balance[a]
    BY <1>1, <1>5, <1>8, ChargesFields DEF k
  <2>2. Shielded(c, x, k, t) /\ x.w.role[k] # "none"
    BY <1>3, <1>4 DEF Kept
  <2>3. \A n \in Nat : Charged(c, x, k, a, n, t) =>
                         Charged(c, y, k, a, n + CostIn(call, a), t)
    BY <1>1, <1>5, <1>8, <2>2, ChargesMore DEF k
  <2>4. CostIn(call, a) \in Nat
    BY <1>5, CallFields DEF CostIn
  <2> QED BY <1>4, <1>6, <2>1, <2>3, <2>4, AffordedMore
<1>12. Kept(c, y, k, t)
  <2>0. /\ y.w.role = x.w.role /\ y.w.guardians = x.w.guardians
        /\ y.w.recoveryDelay = x.w.recoveryDelay /\ y.w.recovery = x.w.recovery
        /\ y.w.coldDelay = x.w.coldDelay /\ y.w.frozenUntil = x.w.frozenUntil
        /\ y.w.noTwoKeySkip = x.w.noTwoKeySkip /\ y.w.queued = x.w.queued
        /\ \A j \in Key, b \in Asset :
             y.w.allowance[j][b].limit = x.w.allowance[j][b].limit
    BY <1>1, <1>5, <1>8, ChargesFields DEF k
  <2>1. Shielded(c, y, k, t)
    BY <1>3, <2>0 DEF Kept, Shielded, ProposalKept
  <2>2. \A i \in QueueId : ActionKept(c, y, i, t)
    BY <1>3, <1>8, <2>0 DEF Kept, ActionKept, SecondKey, Charges
  <2> QED BY <1>3, <1>8, <2>1, <2>2 DEF Kept, Charges
<1>13. SpenderBatch(c, y, h, t)
  <2>1. y.w.role[k] = "spender" /\ y.w.gasAllowance = c.w.gasAllowance
    BY <1>1, <1>4, <1>5, <1>8, ChargesFields DEF k
  <2>2. m + 1 \in Nat
    BY <1>4
  <2> QED BY <1>2, <1>4, <1>6, <1>7, <1>10, <1>11, <2>1, <2>2 DEF SpenderBatch
<1>14. y.locked /\ h.who = k
  BY <1>2, <1>3, <1>8 DEF Charges, k
<1> QED BY <1>12, <1>13, <1>14 DEF Alone, h

LEMMA ChargeFulfils ==
  ASSUME IInv, AuthorInv, PromiseInv, Charge
  PROVE  Fulfils
<1> DEFINE f == [Top EXCEPT !.charge = Tail(@)]
<1>1. /\ Running /\ Top.charge # <<>> /\ now' = now /\ g' = g /\ locked' = locked
      /\ stack' = [stack EXCEPT ![Len(stack)].charge = Tail(@)]
      /\ CanCharge(NextCharge) /\ NextCharge = Top.charge[1]
  BY DEF Charge, Charging, NextCharge
<1>2. /\ f \in RunningFrame /\ f.kind = Top.kind /\ f.who = Top.who /\ Top \in RunningFrame
      /\ stack' = [stack EXCEPT ![Len(stack)] = f] /\ NextCharge \in Call /\ Top.who \in Key
  BY <1>1, TailFrame, RunningTop DEF RunningFrame
<1>3. Here \in Snapshot /\ Committed \in Snapshot /\ now \in Nat /\ QueueKept(Here)
  BY SeenTypes, TopStands
<1>4. Charges(Here, Here', Top.who, Top.charge[1], now)
  BY <1>1, HereFields DEF Charges, Charge, CanCharge, Cost
<1>5. Alone(Committed, Here, Top, now) => Alone(Committed, Here', f, now)
  BY <1>1, <1>2, <1>3, <1>4, ChargesAlone
<1>6. ~Unfreezing(Committed, Here, Top)
  BY <1>1 DEF Unfreezing
<1>7. QueueKept(Here') /\ g'.runs = g.runs
  <2>1. w'.queued = w.queued /\ w'.queueCount = w.queueCount
    BY <1>1, <1>2, <1>3, <1>4, ChargesFields, HereFields
  <2> QED BY <1>1, <1>3, <2>1, HereFields DEF QueueKept
<1>8. HasWaited(Committed, Here, now) => HasWaited(Committed, Here', now)
  BY <1>1, HereFields, WaitedStays
<1> HIDE DEF f
<1> QED BY <1>1, <1>2, <1>5, <1>6, <1>7, <1>8, StepFulfils

-----------------------------------------------------------------------------
(***************************************************************************)
(* A call of a batch that acts alone is made.                              *)
(***************************************************************************)
LEMMA CostShift ==
  ASSUME NEW q, NEW calls \in Seq(Call), calls # <<>>, NEW a, IsCost(q, calls, Len(calls), a)
  PROVE  \E p : /\ IsCost(p, Tail(calls), Len(Tail(calls)), a)
                /\ p[Len(Tail(calls))] = q[Len(calls)] - CostIn(calls[1], a)
<1> DEFINE n == Len(calls)
           d == CostIn(calls[1], a)
           p == [j \in 0 .. n - 1 |-> q[j + 1] - q[1]]
<1>1. /\ n \in Nat /\ n >= 1 /\ Len(Tail(calls)) = n - 1
      /\ \A j \in 1 .. n - 1 : Tail(calls)[j] = calls[j + 1]
  OBVIOUS
<1>2. q \in [0 .. n -> Int] /\ q[0] = 0 /\ \A j \in 1 .. n : q[j] = q[j - 1] + CostIn(calls[j], a)
  BY DEF IsCost
<1> HIDE DEF n
<1>3. d \in Int /\ q[1] = d
  <2>1. calls[1] \in Call
    BY <1>1 DEF n
  <2>2. d \in Int
    BY <2>1, CallFields DEF CostIn
  <2>3. 1 \in 1 .. n /\ 1 - 1 = 0
    BY <1>1
  <2>4. q[1] = 0 + d
    BY <1>2, <2>3
  <2> QED BY <2>2, <2>4
<1>4. p \in [0 .. n - 1 -> Int] /\ p[0] = 0
  <2>1. \A j \in 0 .. n - 1 : q[j + 1] \in Int /\ j + 1 \in 0 .. n
    BY <1>1, <1>2
  <2>2. p[0] = q[1] - q[1]
    BY <1>1
  <2> QED BY <1>1, <1>3, <2>1, <2>2
<1>5. ASSUME NEW j \in 1 .. n - 1 PROVE p[j] = p[j - 1] + CostIn(Tail(calls)[j], a)
  <2>1. /\ j + 1 \in 1 .. n /\ (j + 1) - 1 = j /\ j \in 0 .. n - 1 /\ j - 1 \in 0 .. n - 1
        /\ (j - 1) + 1 = j /\ j \in 0 .. n /\ j + 1 \in 0 .. n
    BY <1>1
  <2>2. q[j + 1] = q[j] + CostIn(calls[j + 1], a) /\ q[j] \in Int /\ q[j + 1] \in Int
    BY <1>2, <2>1
  <2>3. CostIn(calls[j + 1], a) \in Int
    <3>1. calls[j + 1] \in Call
      BY <2>1 DEF n
    <3> QED BY <3>1, CallFields DEF CostIn
  <2>4. p[j] = q[j + 1] - q[1] /\ p[j - 1] = q[j] - q[1]
    BY <2>1
  <2> HIDE DEF p, d
  <2> QED BY <1>1, <1>3, <2>2, <2>3, <2>4
<1>6. p[n - 1] = q[n] - d
  BY <1>1, <1>3
<1> HIDE DEF p
<1>7. IsCost(p, Tail(calls), n - 1, a)
  BY <1>4, <1>5 DEF IsCost
<1> QED BY <1>1, <1>6, <1>7 DEF n

LEMMA AffordedRuns ==
  ASSUME NEW c \in Snapshot, NEW x \in Snapshot, NEW y \in Snapshot, NEW k,
         NEW calls \in Seq(Call), calls # <<>>, NEW a \in Asset, NEW t,
         Afforded(c, x, k, calls, Len(calls), a, t),
         y.w.balance[a] = x.w.balance[a] - CostIn(calls[1], a),
         \A n : Charged(c, x, k, a, n, t) => Charged(c, y, k, a, n, t)
  PROVE  Afforded(c, y, k, Tail(calls), Len(Tail(calls)), a, t)
<1> DEFINE m == Len(calls)
           r == Len(Tail(calls))
           d == CostIn(calls[1], a)
<1>1. PICK q, n :
        /\ IsCost(q, calls, m, a) /\ Charged(c, x, k, a, n, t)
        /\ (c.w.coldDelay # 0 \/ a = ETH) => c.w.balance[a] - x.w.balance[a] + q[m] <= n
  BY DEF Afforded
<1>2. PICK p : IsCost(p, Tail(calls), r, a) /\ p[r] = q[m] - d
  BY <1>1, CostShift
<1>3. /\ c.w.balance[a] \in Nat /\ x.w.balance[a] \in Nat /\ n \in Nat /\ q[m] \in Int
      /\ y.w.balance[a] \in Nat
  <2>1. m \in Nat /\ m \in 0 .. m
    OBVIOUS
  <2> HIDE DEF m
  <2>2. q[m] \in Int
    BY <1>1, <2>1 DEF IsCost
  <2> QED BY <1>1, <2>2, SnapshotType DEF Storage, Charged
<1>4. d \in Int
  BY CallFields DEF CostIn
<1>5. Charged(c, y, k, a, n, t)
  BY <1>1
<1> HIDE DEF d, m, r
<1>6. y.w.balance[a] = x.w.balance[a] - d
  BY DEF d
<1>7. (c.w.coldDelay # 0 \/ a = ETH) => c.w.balance[a] - y.w.balance[a] + p[r] <= n
  <2>2. c.w.balance[a] - y.w.balance[a] + p[r] = c.w.balance[a] - x.w.balance[a] + q[m]
    <3>1. c.w.balance[a] - (x.w.balance[a] - d) + (q[m] - d)
            = c.w.balance[a] - x.w.balance[a] + q[m]
      BY <1>3, <1>4
    <3> QED BY <1>2, <1>6, <3>1
  <2> QED BY <1>1, <2>2
<1> QED BY <1>2, <1>5, <1>7 DEF Afforded, r

\* What k has spent in the window still counts, or k is gone.
StillCounted(x, y, k) ==
  \/ y.w.role[k] = "none"
  \/ /\ y.w.role[k] = x.w.role[k]
     /\ \A a \in Asset : /\ y.w.allowance[k][a].spent = x.w.allowance[k][a].spent
                         /\ y.w.allowance[k][a].windowStart = x.w.allowance[k][a].windowStart

LEMMA AloneRuns ==
  ASSUME NEW c \in Snapshot, NEW x \in Snapshot, NEW y \in Snapshot, NEW f \in RunningFrame,
         NEW t \in Nat, Alone(c, x, f, t), f.charge = <<>>, f.calls # <<>>,
         y.locked = x.locked, y.w.gasAllowance = x.w.gasAllowance, Kept(c, y, f.who, t),
         \A a \in Asset : y.w.balance[a] = x.w.balance[a] - CostIn(f.calls[1], a),
         c.w.role[f.who] = "spender" => StillCounted(x, y, f.who)
  PROVE  Alone(c, y, [f EXCEPT !.calls = Tail(@)], t)
<1> DEFINE h == [f EXCEPT !.calls = Tail(@)]
           k == f.who
<1>1. h.who = k /\ h.calls = Tail(f.calls) /\ h.charge = <<>> /\ f.calls \in Seq(Call)
  BY DEF RunningFrame
<1>2. /\ Len(Tail(f.calls)) = Len(f.calls) - 1 /\ Len(f.calls) \in Nat /\ Len(f.calls) >= 1
      /\ \A j \in 1 .. Len(f.calls) - 1 : Tail(f.calls)[j] = f.calls[j + 1]
      /\ Len(<<>>) = 0
  BY <1>1
<1> HIDE DEF h, k
<1>3. ASSUME OwnerBatch(c, x, f) PROVE OwnerBatch(c, y, h)
  <2>1. \A j \in 1 .. Len(Tail(f.calls)) : IsProtect(c.w, Tail(f.calls)[j], k, TRUE)
    <3> SUFFICES ASSUME NEW j \in 1 .. Len(f.calls) - 1
                 PROVE  IsProtect(c.w, Tail(f.calls)[j], k, TRUE)
      BY <1>2
    <3>1. j + 1 \in 1 .. Len(f.calls) /\ Tail(f.calls)[j] = f.calls[j + 1]
      BY <1>2
    <3> QED BY <1>3, <3>1 DEF OwnerBatch, k
  <2>2. f.calls[1].op # "send"
    <3>1. 1 \in 1 .. Len(f.calls)
      BY <1>2
    <3>2. IsProtect(c.w, f.calls[1], f.who, TRUE)
      BY <1>3, <3>1 DEF OwnerBatch
    <3> QED BY <3>2 DEF IsProtect
  <2>3. \A a \in Asset : y.w.balance[a] >= c.w.balance[a]
    <3> SUFFICES ASSUME NEW a \in Asset PROVE y.w.balance[a] >= c.w.balance[a]
      OBVIOUS
    <3>1. x.w.balance[a] \in Nat /\ c.w.balance[a] \in Nat
      BY SnapshotType DEF Storage
    <3>2. y.w.balance[a] = x.w.balance[a] - 0
      BY <2>2 DEF CostIn
    <3> QED BY <1>3, <3>1, <3>2 DEF OwnerBatch
  <2> QED BY <1>1, <1>3, <2>1, <2>3 DEF OwnerBatch, k
<1>4. ASSUME SpenderBatch(c, x, f, t) PROVE SpenderBatch(c, y, h, t)
  <2>1. /\ c.w.role[k] = "spender" /\ x.w.gasAllowance = c.w.gasAllowance
        /\ Len(f.calls) - Len(f.charge) = Len(f.calls)
        /\ \A j \in 1 .. Len(f.calls) :
             IsProtect(c.w, f.calls[j], k, FALSE) \/ f.calls[j].op = "send"
        /\ \A a \in Asset : Afforded(c, x, k, f.calls, Len(f.calls), a, t)
    <3>1. Len(f.calls) - Len(f.charge) = Len(f.calls)
      BY <1>2
    <3> QED BY <1>4, <3>1 DEF SpenderBatch, k
  <2>2. ASSUME NEW a \in Asset
        PROVE  Afforded(c, y, k, Tail(f.calls), Len(Tail(f.calls)), a, t)
    <3>1. \A n : Charged(c, x, k, a, n, t) => Charged(c, y, k, a, n, t)
      BY <2>1 DEF Charged, StillCounted, Spent, WindowOver, k
    <3> QED BY <1>1, <2>1, <3>1, AffordedRuns
  <2>3. \A j \in 1 .. Len(Tail(f.calls)) :
          IsProtect(c.w, Tail(f.calls)[j], k, FALSE) \/ Tail(f.calls)[j].op = "send"
    <3> SUFFICES ASSUME NEW j \in 1 .. Len(f.calls) - 1
                 PROVE  IsProtect(c.w, Tail(f.calls)[j], k, FALSE) \/ Tail(f.calls)[j].op = "send"
      BY <1>2
    <3>1. j + 1 \in 1 .. Len(f.calls) /\ Tail(f.calls)[j] = f.calls[j + 1]
      BY <1>2
    <3> QED BY <2>1, <3>1
  <2>4. Len(Tail(f.calls)) - Len(<<>>) = Len(Tail(f.calls)) /\ Len(Tail(f.calls)) \in Nat
        /\ 1 .. Len(<<>>) = {}
    BY <1>2
  <2> QED BY <1>1, <2>1, <2>2, <2>3, <2>4 DEF SpenderBatch
<1>5. h.who = f.who /\ y.locked
  BY <1>1 DEF Alone, k
<1> QED BY <1>3, <1>4, <1>5 DEF Alone, h

\* The storage only got tighter than s, the one the transaction found.
Tightened(s, x, y, k) ==
  /\ y.balance = x.balance /\ y.gasAllowance = x.gasAllowance
  /\ y.queueCount = x.queueCount
  /\ \A i \in QueueId : y.queued[i] = x.queued[i] \/ y.queued[i].executeAfter = 0
  /\ \A j \in Key : y.role[j] \in {x.role[j], "none"}
  /\ \A j \in Key \ {k} : s.role[j] = "owner" => y.role[j] = x.role[j]
  /\ \A j \in Key, a \in Asset : y.allowance[j][a].limit <= s.allowance[j][a].limit
  /\ y.guardians = x.guardians /\ y.recoveryDelay = x.recoveryDelay
  /\ y.coldDelay >= s.coldDelay /\ y.frozenUntil >= x.frozenUntil
  /\ y.noTwoKeySkip \in {x.noTwoKeySkip, TRUE}
  /\ y.recovery.executeAfter \in {0, x.recovery.executeAfter}

LEMMA TightenedKept ==
  ASSUME NEW c \in Snapshot, NEW x \in Snapshot, NEW y \in Snapshot, NEW k, NEW t,
         Kept(c, x, k, t), Tightened(c.w, x.w, y.w, k),
         y.g.runs = x.g.runs, y.g.cosigner = x.g.cosigner
  PROVE  Kept(c, y, k, t)
<1>1. /\ c.w.frozenUntil \in Nat /\ x.w.frozenUntil \in Nat /\ y.w.frozenUntil \in Nat
  BY SnapshotType DEF Storage
<1>2. Shielded(c, y, k, t)
  <2>1. \A j \in Key : y.w.role[j] \in {c.w.role[j], "none"}
    BY DEF Kept, Shielded, Tightened
  <2>2. \A j \in Key \ {k} : c.w.role[j] = "owner" => y.w.role[j] = "owner"
    BY DEF Kept, Shielded, Tightened
  <2>3. c.w.noTwoKeySkip => y.w.noTwoKeySkip
    BY Zenon DEF Kept, Shielded, Tightened
  <2>4. ProposalKept(c, y, t)
    BY DEF Kept, Shielded, ProposalKept, Tightened
  <2>5. y.w.frozenUntil >= c.w.frozenUntil
    BY <1>1 DEF Kept, Shielded, Tightened
  <2> QED BY <2>1, <2>2, <2>3, <2>4, <2>5 DEF Kept, Shielded, Tightened
<1>3. \A i \in QueueId : ActionKept(c, y, i, t)
  BY DEF Kept, ActionKept, SecondKey, Tightened
<1> QED BY <1>2, <1>3 DEF Kept

\* A self-call that protects, when the transaction began, only tightens.
LEMMA ProtectingCall ==
  ASSUME IInv, NEW c \in Snapshot, NEW k \in Key, Shielded(c, Here, k, now),
         NEW owner \in BOOLEAN, NEW call \in Call, IsProtect(c.w, call, k, owner), SelfCall(call), w' \in Storage
  PROVE  /\ Tightened(c.w, Here.w, Here'.w, k)
         /\ ~owner => StillCounted(Here, Here', k)
<1>1. /\ w \in Storage /\ now \in Nat /\ c.w \in Storage
      /\ w.coldDelay >= c.w.coldDelay /\ w.frozenUntil >= w.frozenUntil
      /\ \A j \in Key, a \in Asset : /\ w.allowance[j][a].limit <= c.w.allowance[j][a].limit
                                     /\ w.allowance[j][a].limit \in Nat
                                     /\ c.w.allowance[j][a].limit \in Nat
      /\ \A j \in Key : w.role[j] \in {c.w.role[j], "none"}
  <2>1. w \in Storage /\ now \in Nat /\ c.w \in Storage
    BY SnapshotType DEF IInv, TypeOK
  <2> QED BY <2>1, HereFields DEF Shielded, Storage, Allowance
<1> SUFFICES /\ Tightened(c.w, w, w', k)
             /\ ~owner => \/ w'.role[k] = "none"
                          \/ /\ w'.role[k] = w.role[k]
                             /\ \A a \in Asset :
                                  /\ w'.allowance[k][a].spent = w.allowance[k][a].spent
                                  /\ w'.allowance[k][a].windowStart = w.allowance[k][a].windowStart
  BY HereFields DEF StillCounted
<1>2. CASE call.op = "setLimit" /\ w' = SetLimit(w, call.key, call.asset, call.limit)
  <2> DEFINE al == [w.allowance EXCEPT ![call.key][call.asset].limit = call.limit]
  <2>1. /\ call.key \in Key /\ call.asset \in Asset /\ call.limit \in Nat
        /\ call.limit <= c.w.allowance[call.key][call.asset].limit
    BY <1>2, CallFields DEF IsProtect
  <2>2. /\ w'.allowance = al /\ w'.role = w.role
        /\ w'.balance = w.balance /\ w'.gasAllowance = w.gasAllowance
        /\ w'.queueCount = w.queueCount /\ w'.queued = w.queued
        /\ w'.guardians = w.guardians /\ w'.recoveryDelay = w.recoveryDelay
        /\ w'.coldDelay = w.coldDelay /\ w'.frozenUntil = w.frozenUntil
        /\ w'.noTwoKeySkip = w.noTwoKeySkip /\ w'.recovery = w.recovery
    BY <1>1, <1>2 DEF SetLimit, Storage
  <2>3. ASSUME NEW j \in Key, NEW a \in Asset
        PROVE  /\ al[j][a].limit = IF j = call.key /\ a = call.asset THEN call.limit
                                   ELSE w.allowance[j][a].limit
               /\ al[j][a].spent = w.allowance[j][a].spent
               /\ al[j][a].windowStart = w.allowance[j][a].windowStart
    BY <1>1, <2>1 DEF Storage, Allowance
  <2> HIDE DEF al
  <2>4. \A j \in Key, a \in Asset : w'.allowance[j][a].limit <= c.w.allowance[j][a].limit
    BY <1>1, <2>1, <2>2, <2>3
  <2> QED BY <1>1, <2>2, <2>3, <2>4 DEF Tightened
<1>3. CASE call.op = "removeSigner" /\ w' = RemoveSigner(w, call.key)
  <2>1. /\ call.key \in Key
        /\ call.key = k \/ (owner /\ c.w.role[call.key] # "owner")
    BY <1>3, CallFields DEF IsProtect, Owners
  <2> DEFINE r == w'
  <2>2. r = RemoveSigner(w, call.key) /\ w \in Storage
    BY <1>1, <1>3
  <2> HIDE DEF r
  <2>3. /\ r.role = [w.role EXCEPT ![call.key] = "none"]
        /\ \A j \in Key, a \in Asset : r.allowance[j][a].limit <= w.allowance[j][a].limit
        /\ r.guardians = w.guardians /\ r.recoveryDelay = w.recoveryDelay
        /\ r.recovery = w.recovery /\ r.coldDelay = w.coldDelay
        /\ r.frozenUntil = w.frozenUntil /\ r.noTwoKeySkip = w.noTwoKeySkip
        /\ r.queueCount = w.queueCount /\ r.queued = w.queued
        /\ r.balance = w.balance /\ r.gasAllowance = w.gasAllowance
    BY <2>1, <2>2, RemoveSignerLeaves
  <2>4. /\ w'.role = [w.role EXCEPT ![call.key] = "none"]
        /\ \A j \in Key, a \in Asset : w'.allowance[j][a].limit <= w.allowance[j][a].limit
        /\ w'.guardians = w.guardians /\ w'.recoveryDelay = w.recoveryDelay
        /\ w'.recovery = w.recovery /\ w'.coldDelay = w.coldDelay
        /\ w'.frozenUntil = w.frozenUntil /\ w'.noTwoKeySkip = w.noTwoKeySkip
        /\ w'.queueCount = w.queueCount /\ w'.queued = w.queued
        /\ w'.balance = w.balance /\ w'.gasAllowance = w.gasAllowance
    BY <2>3 DEF r
  <2>5. w.role \in [Key -> Role \cup {"none"}]
    BY <1>1 DEF Storage
  <2>6. \A j \in Key, a \in Asset : w'.allowance[j][a].limit <= c.w.allowance[j][a].limit
    BY <1>1, <2>4 DEF Storage, Allowance
  <2>7. /\ \A j \in Key : w'.role[j] \in {w.role[j], "none"}
        /\ \A j \in Key \ {k} : c.w.role[j] = "owner" => w'.role[j] = w.role[j]
        /\ ~owner => w'.role[k] = "none"
    BY <2>1, <2>4, <2>5
  <2> QED BY <1>1, <2>4, <2>6, <2>7 DEF Tightened
<1>4. CASE call.op = "cancelQueued" /\ w' = Dequeue(w, call.id)
  <2>1. /\ w'.queued = [w.queued EXCEPT ![call.id] = NotQueued] /\ w'.role = w.role
        /\ w'.balance = w.balance /\ w'.gasAllowance = w.gasAllowance
        /\ w'.queueCount = w.queueCount /\ w'.allowance = w.allowance
        /\ w'.guardians = w.guardians /\ w'.recoveryDelay = w.recoveryDelay
        /\ w'.coldDelay = w.coldDelay /\ w'.frozenUntil = w.frozenUntil
        /\ w'.noTwoKeySkip = w.noTwoKeySkip /\ w'.recovery = w.recovery
    BY <1>1, <1>4 DEF Dequeue, Storage
  <2>2. \A i \in QueueId : w'.queued[i] = w.queued[i] \/ w'.queued[i].executeAfter = 0
    BY <1>1, <2>1 DEF Storage, NotQueued
  <2> QED BY <1>1, <2>1, <2>2 DEF Tightened
<1>5. CASE call.op = "freeze" /\ w' = Freeze(w, now)
  <2>1. /\ w'.queued = w.queued /\ w'.role = w.role
        /\ w'.balance = w.balance /\ w'.gasAllowance = w.gasAllowance
        /\ w'.queueCount = w.queueCount /\ w'.allowance = w.allowance
        /\ w'.guardians = w.guardians /\ w'.recoveryDelay = w.recoveryDelay
        /\ w'.coldDelay = w.coldDelay
        /\ w'.noTwoKeySkip = w.noTwoKeySkip /\ w'.recovery = w.recovery
        /\ w'.frozenUntil >= w.frozenUntil
    BY <1>1, <1>5, TimingAssumption DEF Freeze, Storage
  <2> QED BY <1>1, <2>1 DEF Tightened
<1>6. CASE call.op = "setColdDelay" /\ w' = [w EXCEPT !.coldDelay = call.delay]
  <2>1. call.delay >= c.w.coldDelay /\ owner
    BY <1>6 DEF IsProtect
  <2>2. /\ w'.queued = w.queued /\ w'.role = w.role /\ w'.coldDelay = call.delay
        /\ w'.balance = w.balance /\ w'.gasAllowance = w.gasAllowance
        /\ w'.queueCount = w.queueCount /\ w'.allowance = w.allowance
        /\ w'.guardians = w.guardians /\ w'.recoveryDelay = w.recoveryDelay
        /\ w'.frozenUntil = w.frozenUntil
        /\ w'.noTwoKeySkip = w.noTwoKeySkip /\ w'.recovery = w.recovery
    BY <1>1, <1>6 DEF Storage
  <2> QED BY <1>1, <2>1, <2>2 DEF Tightened
<1>7. CASE \/ call.op = "cancelRecovery" /\ w' = CancelRecovery(w)
           \/ call.op = "setNoTwoKeySkip" /\ w' = [w EXCEPT !.noTwoKeySkip = call.off]
  <2>1. owner /\ (call.op = "setNoTwoKeySkip" => call.off = TRUE)
    <3>1. call.op = "setNoTwoKeySkip" => call.off \in BOOLEAN /\ call.off
      BY CallFields DEF IsProtect
    <3> QED BY <1>7, <3>1 DEF IsProtect
  <2>2. /\ w'.queued = w.queued /\ w'.role = w.role /\ w'.coldDelay = w.coldDelay
        /\ w'.balance = w.balance /\ w'.gasAllowance = w.gasAllowance
        /\ w'.queueCount = w.queueCount /\ w'.allowance = w.allowance
        /\ w'.guardians = w.guardians /\ w'.recoveryDelay = w.recoveryDelay
        /\ w'.frozenUntil = w.frozenUntil
    BY <1>1, <1>7 DEF CancelRecovery, Storage
  <2>3. /\ w'.noTwoKeySkip \in {w.noTwoKeySkip, TRUE}
        /\ w'.recovery.executeAfter \in {0, w.recovery.executeAfter}
    <3>1. CASE call.op = "cancelRecovery" /\ w' = CancelRecovery(w)
      BY <1>1, <3>1 DEF CancelRecovery, NoRecovery, Storage, Recovery
    <3>2. CASE call.op = "setNoTwoKeySkip" /\ w' = [w EXCEPT !.noTwoKeySkip = call.off]
      <4>1. w' = [w EXCEPT !.noTwoKeySkip = TRUE]
        BY <2>1, <3>2
      <4> QED BY <1>1, <4>1 DEF Storage
    <3> QED BY <1>7, <3>1, <3>2
  <2> QED BY <1>1, <2>1, <2>2, <2>3 DEF Tightened
<1> QED BY <1>2, <1>3, <1>4, <1>5, <1>6, <1>7 DEF SelfCall, IsProtect

\* A self-call adds nothing to the queue.
LEMMA SelfCallQueue ==
  ASSUME IInv, NEW call \in Call, SelfCall(call)
  PROVE  /\ w'.queueCount = w.queueCount
         /\ \A i \in QueueId : w'.queued[i] = w.queued[i] \/ w'.queued[i].executeAfter = 0
<1>1. w \in Storage
  BY DEF IInv, TypeOK
<1>2. w'.queueCount = w.queueCount
        /\ (w'.queued = w.queued \/ w'.queued = [w.queued EXCEPT ![call.id] = NotQueued])
  BY <1>1 DEF SelfCall, AddSigner, UpdateSigner, RemoveSigner, SetLimit, SetGuardians,
         CancelRecovery, Dequeue, Freeze, Storage
<1>3. NotQueued.executeAfter = 0 /\ w.queued \in [QueueId -> Queued]
  BY <1>1 DEF NotQueued, Storage
<1> HIDE DEF NotQueued
<1> QED BY <1>2, <1>3

\* Which calls a batch that acts alone still has to make.
LEMMA AloneCall ==
  ASSUME NEW c, NEW x, NEW f \in RunningFrame, NEW t, Alone(c, x, f, t),
         f.charge = <<>>, f.calls # <<>>
  PROVE  \/ c.w.role[f.who] = "owner" /\ IsProtect(c.w, f.calls[1], f.who, TRUE)
         \/ /\ c.w.role[f.who] = "spender"
            /\ IsProtect(c.w, f.calls[1], f.who, FALSE) \/ f.calls[1].op = "send"
<1>1. 1 \in 1 .. Len(f.calls) /\ Len(f.calls) - Len(f.charge) = Len(f.calls)
  <2>1. f.calls \in Seq(Call) /\ Len(<<>>) = 0
    BY DEF RunningFrame
  <2> QED BY <2>1
<1> QED BY <1>1 DEF Alone, OwnerBatch, SpenderBatch

LEMMA RunSelfCallFulfils ==
  ASSUME IInv, IInv', AuthorInv, PromiseInv, RunSelfCall
  PROVE  Fulfils
<1> DEFINE f == [Top EXCEPT !.calls = Tail(@)]
<1>1. /\ Running /\ Top.calls # <<>> /\ Top.charge = <<>> /\ now' = now /\ locked' = locked
      /\ SelfCall(NextCall) /\ NextCall = Top.calls[1] /\ NextCall \in Call
      /\ stack' = [stack EXCEPT ![Len(stack)].calls = Tail(@)]
  BY CallingTop DEF RunSelfCall, Calling, Advance, NextCall
<1>2. /\ f \in RunningFrame /\ f.kind = Top.kind /\ Top \in RunningFrame
      /\ stack' = [stack EXCEPT ![Len(stack)] = f] /\ Top.who \in Key
      /\ f.calls = Tail(Top.calls) /\ f.charge = <<>> /\ f.who = Top.who
      /\ Top.calls \in Seq(Call)
  BY <1>1, TailFrame, RunningTop DEF RunningFrame
<1>3. /\ Here \in Snapshot /\ Here' \in Snapshot /\ Committed \in Snapshot /\ now \in Nat
      /\ QueueKept(Here)
  BY SeenTypes, TopStands, HereType
<1>4. g'.runs = g.runs /\ g'.cosigner = g.cosigner
  BY DEF RunSelfCall, NoteOrphans, IInv, TypeOK, History
<1> HIDE DEF f
<1>5. QueueKept(Here')
  <2>1. /\ w'.queueCount = w.queueCount
        /\ \A i \in QueueId : w'.queued[i] = w.queued[i] \/ w'.queued[i].executeAfter = 0
    BY <1>1, SelfCallQueue
  <2> QED BY <1>3, <1>4, <2>1, HereFields DEF QueueKept
<1>6. HasWaited(Committed, Here, now) => HasWaited(Committed, Here', now)
  BY <1>4, HereFields, WaitedStays
<1>7. ASSUME Unfreezing(Committed, Here, Top)
      PROVE  Unfreezing(Committed, Here', f)
  <2>1. Len(Top.calls) = 1 /\ NextCall.op = "unfreeze"
    BY <1>1, <1>7 DEF Unfreezing, IsUnfreeze
  <2>2. f.calls = <<>>
    <3>1. \A s \in Seq(Call) : Len(s) = 1 => Tail(s) \in Seq(Call) /\ Len(Tail(s)) = 0
      OBVIOUS
    <3>2. \A s \in Seq(Call) : Len(s) = 0 => s = <<>>
      OBVIOUS
    <3> QED BY <1>2, <2>1, <3>1, <3>2
  <2>3. w' = [w EXCEPT !.frozenUntil = 0]
    BY <1>1, <2>1 DEF SelfCall
  <2>4. w'.frozenUntil = 0 /\ w'.balance = w.balance
    BY <2>3 DEF IInv, TypeOK, Storage
  <2> QED BY <1>2, <1>4, <1>7, <2>2, <2>4, HereFields DEF Unfreezing
<1>8. ASSUME Alone(Committed, Here, Top, now)
      PROVE  Alone(Committed, Here', f, now)
  <2>1. Kept(Committed, Here, Top.who, now) /\ Shielded(Committed, Here, Top.who, now)
    BY <1>8 DEF Alone, Kept
  <2>2. NextCall.op # "send"
    BY <1>1 DEF SelfCall
  <2>3. /\ \/ IsProtect(Committed.w, NextCall, Top.who, TRUE)
           \/ IsProtect(Committed.w, NextCall, Top.who, FALSE)
        /\ Committed.w.role[Top.who] = "spender" =>
             IsProtect(Committed.w, NextCall, Top.who, FALSE)
    BY <1>1, <1>2, <1>8, <2>2, AloneCall
  <2>4. w' \in Storage
    BY DEF IInv, TypeOK
  <2>5. Tightened(Committed.w, Here.w, Here'.w, Top.who)
    BY <1>1, <1>2, <1>3, <2>1, <2>3, <2>4, ProtectingCall
  <2>6. Committed.w.role[Top.who] = "spender" => StillCounted(Here, Here', Top.who)
    BY <1>1, <1>2, <1>3, <2>1, <2>3, <2>4, ProtectingCall
  <2>7. Kept(Committed, Here', Top.who, now)
    BY <1>3, <1>4, <2>1, <2>5, HereFields, TightenedKept
  <2>8. \A a \in Asset : Here'.w.balance[a] = Here.w.balance[a] - CostIn(Top.calls[1], a)
    <3> SUFFICES ASSUME NEW a \in Asset
                 PROVE  Here'.w.balance[a] = Here.w.balance[a] - CostIn(Top.calls[1], a)
      OBVIOUS
    <3>1. Here.w.balance[a] \in Nat /\ CostIn(Top.calls[1], a) = 0
      BY <1>1, <1>3, <2>2, SnapshotType DEF CostIn, Storage
    <3> QED BY <2>5, <3>1 DEF Tightened
  <2>9. Here'.locked = Here.locked /\ Here'.w.gasAllowance = Here.w.gasAllowance
    BY <1>1, <2>5, HereFields DEF Tightened
  <2> QED BY <1>1, <1>2, <1>3, <1>8, <2>6, <2>7, <2>8, <2>9, AloneRuns DEF f
<1> QED BY <1>1, <1>2, <1>4, <1>5, <1>6, <1>7, <1>8, StepFulfils

\* The second key's skip is its own: _actor named it.
LEMMA SkipWaitFields ==
  ASSUME IInv, AuthorInv, SkipWait
  PROVE  LET id == NextCall.id IN
           /\ id \in QueueId /\ w.queued[id].executeAfter # 0
           /\ ~w.noTwoKeySkip /\ Top.who \in Signers(w) \ {w.queued[id].proposer}
           /\ w'.queued[id].proposer = w.queued[id].proposer
           /\ \A i \in QueueId \ {id} : w'.queued[i] = w.queued[i]
           /\ g'.cosigner[id] = Top.who
           /\ \A i \in QueueId \ {id} : g'.cosigner[i] = g.cosigner[i]
           /\ g'.runs = g.runs
           /\ w'.role = w.role /\ w'.allowance = w.allowance
           /\ w'.guardians = w.guardians /\ w'.recoveryDelay = w.recoveryDelay
           /\ w'.recovery = w.recovery /\ w'.coldDelay = w.coldDelay
           /\ w'.frozenUntil = w.frozenUntil /\ w'.noTwoKeySkip = w.noTwoKeySkip
           /\ w'.queueCount = w.queueCount
           /\ w'.balance = w.balance /\ w'.gasAllowance = w.gasAllowance
<1> DEFINE id == NextCall.id
           entry == [w.queued[id] EXCEPT !.executeAfter = now]
<1>1. /\ Running /\ Calling /\ NextCall.op = "skipWait" /\ Allowed(NextCall)
      /\ w' = [w EXCEPT !.queued = [w.queued EXCEPT ![id] = entry]]
      /\ g' = [g EXCEPT !.cosigner = [g.cosigner EXCEPT ![id] = Top.who]]
  BY DEF SkipWait, Calling
<1>2. id \in QueueId
  BY <1>1, CallingTop, CallFields
<1>3. /\ w \in Storage /\ w.queued \in [QueueId -> Queued]
      /\ g \in History /\ g.cosigner \in [QueueId -> Key \cup {NoOne}]
  BY DEF IInv, TypeOK, Storage, History
<1>4. entry.proposer = w.queued[id].proposer
  BY <1>2, <1>3 DEF Queued
<1>5. /\ w.queued[id].executeAfter # 0 /\ ~w.noTwoKeySkip
      /\ actor \in Signers(w) \ {w.queued[id].proposer}
  BY <1>1 DEF Allowed
<1>6. Top.who = actor
  <2>1. actor \in {Top.who, NoOne}
    BY <1>1, RunningTop DEF AuthorInv, MayBe, Top
  <2>2. actor # NoOne
    BY <1>5, IdentityAssumption DEF Signers
  <2> QED BY <2>1, <2>2
<1> HIDE DEF id, entry
<1>7. /\ w'.queued[id] = entry
      /\ \A i \in QueueId \ {id} : w'.queued[i] = w.queued[i]
  BY <1>1, <1>2, <1>3 DEF Storage
<1>8. /\ g'.cosigner[id] = Top.who /\ g'.runs = g.runs
      /\ \A i \in QueueId \ {id} : g'.cosigner[i] = g.cosigner[i]
  BY <1>1, <1>2, <1>3 DEF History
<1>9. /\ w'.role = w.role /\ w'.allowance = w.allowance
      /\ w'.guardians = w.guardians /\ w'.recoveryDelay = w.recoveryDelay
      /\ w'.recovery = w.recovery /\ w'.coldDelay = w.coldDelay
      /\ w'.frozenUntil = w.frozenUntil /\ w'.noTwoKeySkip = w.noTwoKeySkip
      /\ w'.queueCount = w.queueCount
      /\ w'.balance = w.balance /\ w'.gasAllowance = w.gasAllowance
  BY <1>1, <1>3 DEF Storage
<1> QED BY <1>2, <1>4, <1>5, <1>6, <1>7, <1>8, <1>9 DEF id

LEMMA SkipWaitFulfils ==
  ASSUME IInv, IInv', AuthorInv, PromiseInv, SkipWait
  PROVE  Fulfils
<1> DEFINE f == [Top EXCEPT !.calls = Tail(@)]
           id == NextCall.id
<1>1. /\ Running /\ Top.calls # <<>> /\ Top.charge = <<>> /\ now' = now /\ locked' = locked
      /\ NextCall.op = "skipWait" /\ NextCall = Top.calls[1]
      /\ stack' = [stack EXCEPT ![Len(stack)].calls = Tail(@)]
  BY DEF SkipWait, Calling, Advance, NextCall
<1>2. /\ f \in RunningFrame /\ f.kind = Top.kind /\ f.who = Top.who /\ Top \in RunningFrame
      /\ stack' = [stack EXCEPT ![Len(stack)] = f] /\ Top.who \in Key
  BY <1>1, TailFrame, RunningTop DEF RunningFrame
<1>3. /\ Here \in Snapshot /\ Here' \in Snapshot /\ Committed \in Snapshot /\ now \in Nat
      /\ QueueKept(Here)
  BY SeenTypes, TopStands, HereType
<1>4. /\ id \in QueueId /\ w.queued[id].executeAfter # 0
      /\ ~w.noTwoKeySkip /\ Top.who \in Signers(w) \ {w.queued[id].proposer}
      /\ w'.queued[id].proposer = w.queued[id].proposer
      /\ \A i \in QueueId \ {id} : w'.queued[i] = w.queued[i]
      /\ g'.cosigner[id] = Top.who
      /\ \A i \in QueueId \ {id} : g'.cosigner[i] = g.cosigner[i]
      /\ g'.runs = g.runs /\ w'.queueCount = w.queueCount
  BY SkipWaitFields
<1>5. /\ w'.role = w.role /\ w'.allowance = w.allowance
      /\ w'.guardians = w.guardians /\ w'.recoveryDelay = w.recoveryDelay
      /\ w'.recovery = w.recovery /\ w'.coldDelay = w.coldDelay
      /\ w'.frozenUntil = w.frozenUntil /\ w'.noTwoKeySkip = w.noTwoKeySkip
      /\ w'.balance = w.balance /\ w'.gasAllowance = w.gasAllowance
  BY SkipWaitFields
<1> HIDE DEF f, id
<1>6. g.runs[id] = 0 /\ id < w.queueCount
  BY <1>3, <1>4, HereFields DEF QueueKept
<1>7. QueueKept(Here')
  <2>1. ASSUME NEW i \in QueueId
        PROVE  /\ w'.queued[i].executeAfter # 0 => i < w.queueCount /\ g.runs[i] = 0
               /\ g.runs[i] # 0 => g.runs[i] = 1 /\ i < w.queueCount
    <3>1. CASE i = id
      BY <1>6, <3>1
    <3>2. CASE i # id
      BY <1>3, <1>4, <3>2, HereFields DEF QueueKept
    <3> QED BY <3>1, <3>2
  <2> QED BY <1>4, <2>1, HereFields DEF QueueKept
<1>8. ASSUME HasWaited(Committed, Here, now) PROVE HasWaited(Committed, Here', now)
  <2>1. PICK i \in QueueId :
          /\ g.runs[i] = Committed.g.runs[i] + 1 /\ Committed.w.queued[i].executeAfter # 0
          /\ now >= Committed.w.queued[i].executeAfter \/ SecondKey(Committed, Here, i)
    BY <1>8, HereFields DEF HasWaited
  <2>2. Committed.g.runs[i] \in Nat
    BY <1>3, SnapshotType DEF History
  <2>3. i # id
    BY <1>6, <2>1, <2>2
  <2>4. g'.cosigner[i] = g.cosigner[i]
    BY <1>4, <2>3
  <2> QED BY <1>4, <2>1, <2>4, HereFields DEF HasWaited, SecondKey
<1>9. ~Unfreezing(Committed, Here, Top)
  BY <1>1 DEF Unfreezing, IsUnfreeze
<1>10. ASSUME Alone(Committed, Here, Top, now)
       PROVE  Alone(Committed, Here', f, now)
  <2>1. Kept(Committed, Here, Top.who, now) /\ Shielded(Committed, Here, Top.who, now)
    BY <1>10 DEF Alone, Kept
  <2>2. Shielded(Committed, Here', Top.who, now)
    BY <1>5, <2>1, HereFields DEF Shielded, ProposalKept
  <2>3. ActionKept(Committed, Here', id, now)
    <3>1. Committed.w.queued[id].executeAfter # 0
            /\ w.queued[id].proposer = Committed.w.queued[id].proposer
      BY <1>4, <2>1, HereFields DEF Kept, ActionKept
    <3>2. ~Committed.w.noTwoKeySkip /\ Signers(w) \subseteq Signers(Committed.w)
      BY <1>4, <2>1, HereFields DEF Shielded, Signers
    <3> QED BY <1>4, <3>1, <3>2, HereFields DEF ActionKept, SecondKey
  <2>4. ASSUME NEW i \in QueueId PROVE ActionKept(Committed, Here', i, now)
    <3>1. CASE i = id
      BY <2>3, <3>1
    <3>2. CASE i # id
      BY <1>4, <2>1, <3>2, HereFields DEF Kept, ActionKept, SecondKey
    <3> QED BY <3>1, <3>2
  <2>5. Kept(Committed, Here', Top.who, now)
    BY <1>4, <2>1, <2>2, <2>4, HereFields DEF Kept
  <2>6. \A a \in Asset : Here'.w.balance[a] = Here.w.balance[a] - CostIn(Top.calls[1], a)
    <3> SUFFICES ASSUME NEW a \in Asset
                 PROVE  Here'.w.balance[a] = Here.w.balance[a] - CostIn(Top.calls[1], a)
      OBVIOUS
    <3>1. Here.w.balance[a] \in Nat /\ CostIn(Top.calls[1], a) = 0
      BY <1>1, <1>3, SnapshotType DEF CostIn, Storage
    <3> QED BY <1>5, <3>1, HereFields
  <2>7. /\ Here'.locked = Here.locked /\ Here'.w.gasAllowance = Here.w.gasAllowance
        /\ StillCounted(Here, Here', Top.who)
    BY <1>1, <1>5, HereFields DEF StillCounted
  <2> QED BY <1>1, <1>2, <1>3, <1>10, <2>5, <2>6, <2>7, AloneRuns DEF f
<1> QED BY <1>1, <1>2, <1>4, <1>7, <1>8, <1>9, <1>10, StepFulfils

LEMMA CallOutsideFulfils ==
  ASSUME IInv, IInv', AuthorInv, PromiseInv, CallOutside
  PROVE  Fulfils
<1> DEFINE f == [Top EXCEPT !.calls = Tail(@)]
<1>1. /\ Running /\ Top.calls # <<>> /\ Top.charge = <<>> /\ now' = now /\ locked' = locked
      /\ NextCall.op \in {"send", "call"} /\ NextCall = Top.calls[1] /\ NextCall \in Call
      /\ g' = g
  BY CallingTop DEF CallOutside, Calling, NextCall
<1>2. /\ f \in RunningFrame /\ f.kind = Top.kind /\ Top \in RunningFrame /\ Top.who \in Key
      /\ [stack EXCEPT ![Len(stack)].calls = Tail(@)] = [stack EXCEPT ![Len(stack)] = f]
      /\ f.who = Top.who
  BY <1>1, TailFrame, RunningTop DEF RunningFrame
<1>3. /\ Here \in Snapshot /\ Here' \in Snapshot /\ Committed \in Snapshot /\ now \in Nat
      /\ QueueKept(Here) /\ w \in Storage
  BY SeenTypes, TopStands, HereType DEF IInv, TypeOK
<1>4. /\ w'.role = w.role /\ w'.allowance = w.allowance
      /\ w'.guardians = w.guardians /\ w'.recoveryDelay = w.recoveryDelay
      /\ w'.recovery = w.recovery /\ w'.coldDelay = w.coldDelay
      /\ w'.frozenUntil = w.frozenUntil /\ w'.noTwoKeySkip = w.noTwoKeySkip
      /\ w'.queueCount = w.queueCount /\ w'.queued = w.queued
      /\ w'.gasAllowance = w.gasAllowance
  BY <1>3 DEF CallOutside, Storage
<1>5. ASSUME NEW a \in Asset PROVE w'.balance[a] = w.balance[a] - CostIn(NextCall, a)
  <2>1. w.balance \in [Asset -> Nat] /\ w.balance[a] \in Nat
    BY <1>3 DEF Storage
  <2>2. CASE NextCall.op = "call" /\ w' = w
    <3>1. CostIn(NextCall, a) = 0
      BY <2>2 DEF CostIn
    <3> QED BY <2>1, <2>2, <3>1
  <2>3. CASE /\ NextCall.op = "send"
             /\ w' = [w EXCEPT !.balance[NextCall.asset] = @ - NextCall.amount]
    <3>1. NextCall.asset \in Asset /\ NextCall.amount \in Nat
      BY <1>1, <2>3, CallFields
    <3>2. w'.balance = [w.balance EXCEPT ![NextCall.asset] = @ - NextCall.amount]
      BY <1>3, <2>3 DEF Storage
    <3>3. CostIn(NextCall, a) = IF NextCall.asset = a THEN NextCall.amount ELSE 0
      BY <2>3 DEF CostIn
    <3> QED BY <2>1, <3>1, <3>2, <3>3
  <2> QED BY <2>2, <2>3 DEF CallOutside
<1> HIDE DEF f
<1>6. QueueKept(Here')
  BY <1>1, <1>3, <1>4, HereFields DEF QueueKept
<1>7. HasWaited(Committed, Here, now) => HasWaited(Committed, Here', now)
  BY <1>1, HereFields, WaitedStays
<1>8. ~Unfreezing(Committed, Here, Top)
  BY <1>1 DEF Unfreezing, IsUnfreeze
<1>9. ASSUME Alone(Committed, Here, Top, now)
      PROVE  Committed.w.role[Top.who] = "spender" /\ Alone(Committed, Here', f, now)
  <2>1. Kept(Committed, Here, Top.who, now)
    BY <1>9 DEF Alone
  <2>2. Committed.w.role[Top.who] = "spender"
    BY ZenonT(60), <1>1, <1>2, <1>9, AloneCall DEF IsProtect
  <2>3. Kept(Committed, Here', Top.who, now)
    <3>1. Shielded(Committed, Here', Top.who, now)
      BY <1>4, <2>1, HereFields DEF Kept, Shielded, ProposalKept
    <3>2. \A i \in QueueId : ActionKept(Committed, Here', i, now)
      BY <1>1, <1>4, <2>1, HereFields DEF Kept, ActionKept, SecondKey
    <3> QED BY <1>1, <2>1, <3>1, <3>2, HereFields DEF Kept
  <2>4. \A a \in Asset : Here'.w.balance[a] = Here.w.balance[a] - CostIn(Top.calls[1], a)
    BY <1>1, <1>5, HereFields
  <2>5. /\ Here'.locked = Here.locked /\ Here'.w.gasAllowance = Here.w.gasAllowance
        /\ StillCounted(Here, Here', Top.who)
    BY <1>1, <1>4, HereFields DEF StillCounted
  <2>6. Alone(Committed, Here', f, now)
    BY <1>1, <1>2, <1>3, <1>9, <2>3, <2>4, <2>5, AloneRuns DEF f
  <2> QED BY <2>2, <2>6
<1>10. CASE Advance
  <2>1. stack' = [stack EXCEPT ![Len(stack)] = f]
    BY <1>2, <1>10 DEF Advance
  <2> QED BY <1>1, <1>2, <1>6, <1>7, <1>8, <1>9, <2>1, StepFulfils
<1>11. CASE stack' = Append([stack EXCEPT ![Len(stack)].calls = Tail(@)], Outside(<<>>))
  <2>1. Outside(<<>>) \in OutsideFrame /\ Outside(<<>>).kind = "outside"
    BY DEF Outside, OutsideFrame
  <2>2. /\ Len(stack) \in Nat /\ Top.kind # "outside"
        /\ Len(stack) = 2 => stack[2] = Top
        /\ Stands(Committed, Here, stack[2], Len(stack), Top.kind, now)
    BY <1>1, RunningShape, TopStands
  <2>3. Here'.g.runs = Here.g.runs
    BY <1>1, HereFields
  <2>4. QueueKept(Here') /\ Grown(Committed, Here')
    BY <1>6, <2>2, <2>3 DEF Stands, Grown
  <2>5. Len(stack) = 2 => Stands(Committed, Here', f, 3, "outside", now)
    BY <1>2, <1>7, <1>8, <1>9, <2>2, <2>4 DEF Stands, Bound
  <2>6. Len(stack) >= 3 => Stands(Committed, Here', stack[2], Len(stack) + 1, "outside", now)
    <3>1. \A n \in Nat : n >= 3 => n # 2
      OBVIOUS
    <3> QED BY <1>7, <2>2, <2>4, <3>1 DEF Stands
  <2> QED BY <1>1, <1>11, <2>1, <2>5, <2>6, PushFulfils DEF f
<1> QED BY <1>10, <1>11 DEF CallOutside

-----------------------------------------------------------------------------
(***************************************************************************)
(* Frames are left: a callee returns, a batch fails.                       *)
(***************************************************************************)
LEMMA TruncateFields ==
  ASSUME IInv, NEW m \in 1 .. Len(stack) - 1, stack' = Truncate(m)
  PROVE  /\ Len(stack') = m /\ \A j \in 1 .. m - 1 : stack'[j] = stack[j]
         /\ stack'[m].kind = stack[m].kind
         /\ stack[m].kind # "outside" => stack'[m] = stack[m]
<1> DEFINE s == SubSeq(stack, 1, m)
<1>1. stack \in Seq(RunningFrame \cup OutsideFrame) /\ Len(stack) \in Nat /\ m \in 1 .. Len(stack)
  BY StackFacts
<1>2. /\ s \in Seq(RunningFrame \cup OutsideFrame) /\ Len(s) = m /\ m \in Nat /\ m >= 1
      /\ \A i \in 1 .. m : s[i] = stack[i]
  BY <1>1
<1>3. Outside(<<>>).kind = "outside" /\ Outside(<<>>) \in OutsideFrame
  BY DEF Outside, OutsideFrame
<1>4. stack' = IF s[m].kind = "outside" THEN [s EXCEPT ![m] = Outside(<<>>)] ELSE s
  BY DEF Truncate
<1> HIDE DEF s
<1>5. CASE s[m].kind = "outside"
  BY <1>2, <1>3, <1>4, <1>5
<1>6. CASE s[m].kind # "outside"
  BY <1>2, <1>4, <1>6
<1> QED BY <1>5, <1>6

LEMMA TruncateFulfils ==
  ASSUME IInv, AuthorInv, PromiseInv, now' = now, NEW m \in 1 .. Len(stack) - 1,
         stack' = Truncate(m), QueueKept(Here'),
         m = 1 => Committed' = Committed \/ Promise!Transaction,
         m >= 2 => Stands(Committed, Here', stack[2], m, stack[m].kind, now)
  PROVE  Fulfils
<1>1. /\ Len(stack') = m /\ \A j \in 1 .. m - 1 : stack'[j] = stack[j]
      /\ stack'[m].kind = stack[m].kind
      /\ stack[m].kind # "outside" => stack'[m] = stack[m]
  BY TruncateFields
<1>2. /\ Len(stack) \in Nat /\ StandsAll(stack, Here, now)
      /\ m >= 2 => stack[2].kind # "outside"
      /\ m = 1 \/ m >= 2
  BY StackShape DEF PromiseInv
<1>3. /\ StandsAll(stack', Here', now)
      /\ m >= 2 => Seen(stack', Here', 1) = Seen(stack, Here, 1)
  BY <1>1, <1>2, CommittedSeen, StandsBelow
<1> QED BY <1>2, <1>3, CommittedSeen DEF Fulfils, PromiseInv

LEMMA CalleeReturnsFulfils ==
  ASSUME IInv, AuthorInv, PromiseInv, CalleeReturns
  PROVE  Fulfils
<1>1. /\ Top.kind = "outside" /\ Len(stack) # 1 /\ now' = now /\ Here' = Here
      /\ stack' = Truncate(Len(stack) - 1)
  BY DEF CalleeReturns, BetweenTransactions, Leave, Here
<1>2. Len(stack) \in Nat /\ Len(stack) >= 3
  BY <1>1, StackShape
<1>3. /\ Len(stack) - 1 \in 1 .. Len(stack) - 1 /\ Len(stack) >= 2 /\ Len(stack) # 2
      /\ Len(stack) - 1 # 1 /\ (Len(stack) = 3 => Len(stack) - 1 = 2)
  <2>1. \A n \in Nat : n >= 3 => /\ n - 1 \in 1 .. n - 1 /\ n >= 2 /\ n # 2 /\ n - 1 # 1
                                 /\ (n = 3 => n - 1 = 2)
    OBVIOUS
  <2> QED BY <1>2, <2>1
<1>4. QueueKept(Here') /\ Stands(Committed, Here, stack[2], Len(stack), "outside", now)
  BY <1>1, <1>3, TopStands
<1>5. \A kind : Stands(Committed, Here', stack[2], Len(stack) - 1, kind, now)
  BY <1>1, <1>3, <1>4 DEF Stands
<1> QED BY <1>1, <1>3, <1>4, <1>5, TruncateFulfils

\* A failure restores what was seen when the frame below it called out.
LEMMA RevertFulfils ==
  ASSUME IInv, AuthorInv, PromiseInv, Revert
  PROVE  Fulfils
<1>1. PICK m \in 1 .. Len(stack) - 1 :
        /\ stack[m].kind = "outside"
        /\ w' = stack[m].saved[1].w /\ actor' = stack[m].saved[1].actor
        /\ locked' = stack[m].saved[1].locked /\ g' = stack[m].saved[1].g
        /\ stack' = Truncate(m) /\ now' = now
  BY DEF Revert
<1>2. stack[m].saved[1] \in Snapshot
  BY <1>1 DEF IInv, SoundStack, Restorable
<1>3. Here' = stack[m].saved[1]
  BY <1>1, <1>2 DEF Here, Snapshot
<1>4. Len(stack) \in Nat /\ m # Len(stack) /\ Len(stack) # 1
  BY StackShape
<1>5. Seen(stack, Here, m) = Here' /\ (m = 1 => Committed = Here')
  BY <1>3, <1>4, CommittedSeen DEF Seen
<1>6. ASSUME m = 1 PROVE Committed' = Committed /\ QueueKept(Here')
  <2>1. Len(stack') = 1
    BY <1>1, <1>6, TruncateFields
  <2>2. Committed' = Here'
    BY <2>1, CommittedSeen DEF Seen
  <2> QED BY <1>5, <1>6, <2>2, TopStands
<1>7. ASSUME m >= 2
      PROVE  /\ Stands(Committed, Here', stack[2], m, stack[m].kind, now)
             /\ QueueKept(Here')
  <2>1. m \in 2 .. Len(stack)
    BY <1>4, <1>7
  <2>2. Stands(Committed, Here', stack[2], m, stack[m].kind, now)
    BY <1>1, <1>5, <2>1, CommittedSeen DEF PromiseInv, StandsAll
  <2> QED BY <2>2 DEF Stands
<1>8. m = 1 \/ m >= 2
  OBVIOUS
<1>9. QueueKept(Here')
  BY <1>6, <1>7, <1>8
<1> QED BY <1>1, <1>6, <1>7, <1>9, TruncateFulfils

-----------------------------------------------------------------------------
(***************************************************************************)
(* The batch is done.  If it is the transaction's, all it did is committed.*)
(***************************************************************************)
\* _refillGas: an owner's wallet without a cold delay, or counted as a spend of USDC.
Refilled(s, r, k, t) ==
  /\ r.role = s.role /\ r.guardians = s.guardians /\ r.recoveryDelay = s.recoveryDelay
  /\ r.recovery = s.recovery /\ r.coldDelay = s.coldDelay /\ r.frozenUntil = s.frozenUntil
  /\ r.noTwoKeySkip = s.noTwoKeySkip /\ r.queueCount = s.queueCount
  /\ r.queued = s.queued /\ r.balance = s.balance
  /\ \A j \in Key, a \in Asset : r.allowance[j][a].limit = s.allowance[j][a].limit
  /\ \A a \in Asset \ {USDC} : r.allowance[k][a] = s.allowance[k][a]
  /\ \/ r.gasAllowance = s.gasAllowance /\ r.allowance = s.allowance
     \/ s.role[k] = "owner" /\ s.coldDelay = 0
     \/ \E n \in Nat : /\ s.role[k] \notin {"owner", "none"} /\ CanSpend(s, k, USDC, n, t)
                       /\ r.allowance = Spend(s, k, USDC, n, t).allowance
                       /\ r.gasAllowance = s.gasAllowance + n

LEMMA RefillFields ==
  ASSUME NEW s \in Storage, NEW k \in Key, NEW t \in Nat
  PROVE  Refilled(s, RefillGas(s, k, t), k, t) /\ Refilled(s, s, k, t)
<1> DEFINE need == GAS_ALLOWANCE - s.gasAllowance
           full == [s EXCEPT !.gasAllowance = GAS_ALLOWANCE]
           r == RefillGas(s, k, t)
<1>1. GAS_ALLOWANCE \in Nat /\ s.gasAllowance \in Nat /\ USDC \in Asset
  BY TimingAssumption, IdentityAssumption DEF Storage
<1>2. Refilled(s, s, k, t)
  BY DEF Refilled
<1>3. /\ full \in Storage /\ full.role = s.role /\ full.guardians = s.guardians
      /\ full.recoveryDelay = s.recoveryDelay /\ full.recovery = s.recovery
      /\ full.coldDelay = s.coldDelay /\ full.frozenUntil = s.frozenUntil
      /\ full.noTwoKeySkip = s.noTwoKeySkip /\ full.queueCount = s.queueCount
      /\ full.queued = s.queued /\ full.balance = s.balance /\ full.allowance = s.allowance
      /\ full.gasAllowance = GAS_ALLOWANCE
  BY <1>1 DEF Storage
<1> HIDE DEF full
<1>4. CASE r = s
  BY <1>2, <1>4
<1>5. CASE r = full /\ s.role[k] = "owner" /\ s.coldDelay = 0
  <2>1. Refilled(s, full, k, t)
    BY <1>3, <1>5 DEF Refilled
  <2> QED BY <1>2, <1>5, <2>1
<1>6. CASE /\ s.gasAllowance <= GAS_ALLOWANCE /\ s.role[k] \notin {"owner", "none"}
           /\ CanSpend(s, k, USDC, need, t) /\ r = Spend(full, k, USDC, need, t)
  <2>1. need \in Nat /\ GAS_ALLOWANCE = s.gasAllowance + need
    BY <1>1, <1>6
  <2> DEFINE d == Spend(full, k, USDC, need, t)
  <2>2. d.allowance = Spend(s, k, USDC, need, t).allowance
    <3> HIDE DEF need
    <3>1. CASE need = 0
      BY <1>3, <3>1 DEF Spend
    <3>2. CASE need # 0
      BY <1>3, <3>2 DEF Spend, Storage
    <3> QED BY <3>1, <3>2
  <2> HIDE DEF need, d
  <2>3. /\ d.role = full.role /\ d.guardians = full.guardians
        /\ d.recoveryDelay = full.recoveryDelay /\ d.recovery = full.recovery
        /\ d.coldDelay = full.coldDelay /\ d.frozenUntil = full.frozenUntil
        /\ d.noTwoKeySkip = full.noTwoKeySkip /\ d.queueCount = full.queueCount
        /\ d.queued = full.queued /\ d.balance = full.balance
        /\ d.gasAllowance = full.gasAllowance
        /\ \A j \in Key, b \in Asset : d.allowance[j][b].limit = full.allowance[j][b].limit
        /\ \A b \in Asset \ {USDC} : d.allowance[k][b] = full.allowance[k][b]
    <3>1. USDC \in Asset /\ full \in Storage /\ need \in Nat
      BY <1>1, <1>3, <2>1
    <3> QED BY <3>1, SpendFields DEF d
  <2>4. CanSpend(s, k, USDC, need, t) /\ r = d /\ s.role[k] \notin {"owner", "none"}
    BY <1>6 DEF need, d
  <2>5. Refilled(s, d, k, t)
    <3> HIDE DEF r
    <3> QED BY <1>3, <2>1, <2>2, <2>3, <2>4 DEF Refilled
  <2> QED BY <1>2, <2>4, <2>5
<1> QED BY <1>1, <1>4, <1>5, <1>6 DEF RefillGas, full

\* What a spender's batch took, and what the paymaster may take for it, was charged.
RefillCharged(c, y, k, a, n, t) ==
  \E m \in Nat :
    /\ Charged(c, y, k, a, n + m, t)
    /\ y.w.gasAllowance = c.w.gasAllowance + m \/ a # USDC

LEMMA TakenCharged ==
  ASSUME NEW c \in Snapshot, NEW x \in Snapshot, NEW y \in Snapshot, NEW k \in Key,
         NEW t \in Nat, Shielded(c, x, k, t), c.w.role[k] = "spender",
         x.w.gasAllowance = c.w.gasAllowance, Refilled(x.w, y.w, k, t), NEW a \in Asset,
         NEW n \in Nat, Charged(c, x, k, a, n, t)
  PROVE  RefillCharged(c, y, k, a, n, t)
<1> USE DEF RefillCharged
<1>1. /\ x.w.role[k] # "owner" /\ x.w.role[k] \in {"spender", "none"} /\ y.w.role = x.w.role
      /\ c.w.gasAllowance \in Nat /\ n + 0 = n /\ c.w.gasAllowance + 0 = c.w.gasAllowance
  BY SnapshotType DEF Shielded, Refilled, Storage
<1>2. CASE a # USDC \/ (y.w.gasAllowance = x.w.gasAllowance /\ y.w.allowance = x.w.allowance)
  <2>1. y.w.allowance[k][a] = x.w.allowance[k][a]
    BY <1>2 DEF Refilled
  <2>2. Charged(c, y, k, a, n, t)
    BY <1>1, <2>1 DEF Charged, Spent
  <2> QED BY <1>1, <1>2, <2>2
<1>3. CASE a = USDC /\ ~(y.w.gasAllowance = x.w.gasAllowance /\ y.w.allowance = x.w.allowance)
  <2>1. PICK m \in Nat :
          /\ x.w.role[k] # "none" /\ CanSpend(x.w, k, a, m, t)
          /\ y.w.allowance = Spend(x.w, k, a, m, t).allowance
          /\ y.w.gasAllowance = x.w.gasAllowance + m
    BY <1>1, <1>3 DEF Refilled
  <2>2. /\ x.w.allowance[k][a].limit <= c.w.allowance[k][a].limit
        /\ x.w.frozenUntil >= c.w.frozenUntil
    BY DEF Shielded
  <2>3. Charged(c, y, k, a, n + m, t)
    BY <2>1, <2>2, ChargedMore
  <2> QED BY <2>1, <2>3
<1> QED BY <1>2, <1>3

LEMMA SpenderCharged ==
  ASSUME NEW c \in Snapshot, NEW x \in Snapshot, NEW y \in Snapshot, NEW f, NEW t \in Nat,
         f.who \in Key, f.calls = <<>>, f.charge = <<>>, Shielded(c, x, f.who, t),
         SpenderBatch(c, x, f, t), Refilled(x.w, y.w, f.who, t), NEW a \in Asset
  PROVE  \E n \in Nat :
           /\ Charged(c, y, f.who, a, n, t)
           /\ c.w.coldDelay # 0 \/ a = ETH => c.w.balance[a] - y.w.balance[a] <= n
           /\ c.w.coldDelay # 0 \/ a = ETH => Taken(c, y, a) <= n
           /\ a = USDC => y.w.gasAllowance - c.w.gasAllowance <= n
<1> DEFINE k == f.who
<1>1. /\ c.w.role[k] = "spender"
      /\ x.w.gasAllowance = c.w.gasAllowance /\ y.w.balance = x.w.balance
  BY DEF SpenderBatch, Refilled
<1>2. PICK q, n :
        /\ IsCost(q, f.calls, 0, a) /\ Charged(c, x, k, a, n, t)
        /\ (c.w.coldDelay # 0 \/ a = ETH) => c.w.balance[a] - x.w.balance[a] + q[0] <= n
  <2>1. Len(f.calls) - Len(f.charge) = 0
    OBVIOUS
  <2>2. Afforded(c, x, k, f.calls, 0, a, t)
    BY <2>1 DEF SpenderBatch
  <2> QED BY <2>2 DEF Afforded
<1>3. n \in Nat /\ q[0] = 0
  BY <1>2 DEF Charged, IsCost
<1>4. PICK m \in Nat : /\ Charged(c, y, k, a, n + m, t)
                       /\ y.w.gasAllowance = c.w.gasAllowance + m \/ a # USDC
  <2>1. /\ Shielded(c, x, k, t) /\ Refilled(x.w, y.w, k, t) /\ Charged(c, x, k, a, n, t)
        /\ k \in Key
    BY <1>2
  <2>2. c.w.role[k] = "spender" /\ x.w.gasAllowance = c.w.gasAllowance /\ n \in Nat
    BY <1>1, <1>3
  <2> HIDE DEF k
  <2>3. RefillCharged(c, y, k, a, n, t)
    BY <2>1, <2>2, TakenCharged
  <2> QED BY <2>3 DEF RefillCharged
<1>5. /\ c.w.balance[a] \in Nat /\ y.w.balance[a] \in Nat
      /\ c.w.gasAllowance \in Nat /\ y.w.gasAllowance \in Nat
  BY SnapshotType DEF Storage
<1> HIDE DEF k
<1>6. (c.w.coldDelay # 0 \/ a = ETH) => c.w.balance[a] - y.w.balance[a] <= n
  BY <1>1, <1>2, <1>3, <1>5
<1>7. (c.w.coldDelay # 0 \/ a = ETH) => Taken(c, y, a) <= n + m
  <2>1. CASE a # USDC
    <3>1. Taken(c, y, a) = c.w.balance[a] - y.w.balance[a] + 0
      BY <2>1 DEF Taken
    <3> QED BY <1>3, <1>5, <1>6, <3>1
  <2>2. CASE a = USDC
    <3>1. Taken(c, y, a) = c.w.balance[a] - y.w.balance[a] + (y.w.gasAllowance - c.w.gasAllowance)
      BY <2>2 DEF Taken
    <3>2. y.w.gasAllowance - c.w.gasAllowance = m
      BY <1>4, <1>5, <2>2
    <3> QED BY <1>3, <1>5, <1>6, <3>1, <3>2
  <2> QED BY <2>1, <2>2
<1>8. (c.w.coldDelay # 0 \/ a = ETH) => c.w.balance[a] - y.w.balance[a] <= n + m
  BY <1>3, <1>5, <1>6
<1>9. a = USDC => y.w.gasAllowance - c.w.gasAllowance <= n + m
  BY <1>3, <1>4, <1>5
<1>10. n + m \in Nat
  BY <1>3
<1> QED BY <1>4, <1>7, <1>8, <1>9, <1>10 DEF k

LEMMA SpenderWithinLimit ==
  ASSUME NEW c \in Snapshot, NEW x \in Snapshot, NEW y \in Snapshot, NEW f, NEW t \in Nat,
         f.who \in Key, f.calls = <<>>, f.charge = <<>>, Shielded(c, x, f.who, t),
         SpenderBatch(c, x, f, t), Refilled(x.w, y.w, f.who, t), Guarded(c, t)
  PROVE  WithinLimit(c, y, t)
<1> DEFINE k == f.who
<1>1. c.w.role[k] = "spender" /\ ETH \in Asset /\ USDC \in Asset
  BY IdentityAssumption DEF SpenderBatch
<1>3. ASSUME NEW a \in Asset
      PROVE  \E n \in Nat :
               /\ n <= c.w.allowance[k][a].limit /\ (Frozen(c.w, t) => n = 0)
               /\ c.w.coldDelay # 0 \/ a = ETH => c.w.balance[a] - y.w.balance[a] <= n
               /\ c.w.coldDelay # 0 \/ a = ETH => Taken(c, y, a) <= n
               /\ a = USDC => y.w.gasAllowance - c.w.gasAllowance <= n
  <2>1. PICK n \in Nat :
          /\ Charged(c, y, k, a, n, t)
          /\ c.w.coldDelay # 0 \/ a = ETH => c.w.balance[a] - y.w.balance[a] <= n
          /\ c.w.coldDelay # 0 \/ a = ETH => Taken(c, y, a) <= n
          /\ a = USDC => y.w.gasAllowance - c.w.gasAllowance <= n
    BY SpenderCharged
  <2>2. CanSpend(c.w, k, a, n, t)
    BY <2>1 DEF Charged
  <2>3. /\ c.w.allowance[k][a].limit \in Nat /\ Spent(c, k, a, t) \in Nat
        /\ Remaining(c.w, k, a, t) =
             IF c.w.allowance[k][a].limit > Spent(c, k, a, t)
             THEN c.w.allowance[k][a].limit - Spent(c, k, a, t) ELSE 0
    BY RemainingIs, SpentType
  <2>4. n <= c.w.allowance[k][a].limit /\ (Frozen(c.w, t) => n = 0)
    BY <2>2, <2>3 DEF CanSpend
  <2> QED BY <2>1, <2>4
<1>4. CASE c.w.coldDelay # 0 /\ Frozen(c.w, t)
  <2>1. ASSUME NEW a \in Asset PROVE Taken(c, y, a) <= 0
    BY <1>3, <1>4
  <2> QED BY <2>1 DEF WithinLimit
<1>5. CASE c.w.coldDelay # 0 /\ ~Frozen(c.w, t)
  <2>1. ASSUME NEW a \in Asset PROVE Taken(c, y, a) <= c.w.allowance[k][a].limit
    <3>1. PICK n \in Nat : n <= c.w.allowance[k][a].limit /\ Taken(c, y, a) <= n
      BY <1>3, <1>5
    <3>2. /\ c.w.balance[a] \in Nat /\ y.w.balance[a] \in Nat
          /\ c.w.gasAllowance \in Nat /\ y.w.gasAllowance \in Nat
          /\ c.w.allowance[k][a].limit \in Nat
      <4>1. c.w \in Storage /\ y.w \in Storage
        BY SnapshotType
      <4>2. c.w.allowance[k][a] \in Allowance
        BY <4>1 DEF Storage
      <4> QED BY <4>1, <4>2 DEF Storage, Allowance
    <3>3. Taken(c, y, a) \in Int
      BY <3>2 DEF Taken
    <3> QED BY <3>1, <3>2, <3>3
  <2>2. k \in Signers(c.w) \ Owners(c.w)
    BY <1>1 DEF Signers, Owners
  <2> QED BY <1>5, <2>1, <2>2 DEF WithinLimit
<1>6. CASE c.w.coldDelay = 0
  <2>1. Frozen(c.w, t)
    BY <1>6 DEF Guarded
  <2>2. c.w.balance[ETH] - y.w.balance[ETH] <= 0
    BY <1>1, <1>3, <2>1
  <2>3. y.w.gasAllowance <= c.w.gasAllowance
    <3>1. c.w.gasAllowance \in Nat /\ y.w.gasAllowance \in Nat
      BY SnapshotType DEF Storage
    <3>2. y.w.gasAllowance - c.w.gasAllowance <= 0
      BY <1>1, <1>3, <2>1
    <3> QED BY <3>1, <3>2
  <2> QED BY <1>6, <2>2, <2>3 DEF WithinLimit
<1> QED BY <1>4, <1>5, <1>6

\* What one key did alone still protects after the refill.
LEMMA AloneCommits ==
  ASSUME NEW c, NEW x, NEW y, NEW f, NEW t, Alone(c, x, f, t),
         Refilled(x.w, y.w, f.who, t), y.g = x.g
  PROVE  /\ Shielded(c, x, f.who, t) /\ Shielded(c, y, f.who, t)
         /\ \A i \in QueueId : Announces(c, y, i, t)
         /\ y.g.runs = c.g.runs
<1>1. Kept(c, x, f.who, t) /\ Shielded(c, x, f.who, t)
  BY DEF Alone, Kept
<1>2. Shielded(c, y, f.who, t)
  BY <1>1 DEF Shielded, ProposalKept, Refilled
<1>3. \A i \in QueueId : Announces(c, y, i, t)
  BY <1>1 DEF Kept, Announces, ActionKept, SecondKey, Refilled
<1> QED BY <1>1, <1>2, <1>3 DEF Kept

\* What stood before the refill ran each action once.
LEMMA CommitOnce ==
  ASSUME NEW c \in Snapshot, NEW x \in Snapshot, NEW y \in Snapshot, NEW k, NEW t,
         QueueKept(c), QueueKept(x), Grown(c, x), Refilled(x.w, y.w, k, t), y.g = x.g
  PROVE  QueueKept(y) /\ RanOnce(c, y)
<1>1. QueueKept(y)
  BY DEF QueueKept, Refilled
<1>2. ASSUME NEW i \in QueueId
      PROVE  \/ y.g.runs[i] = c.g.runs[i]
             \/ c.g.runs[i] = 0 /\ y.g.runs[i] = 1 /\ y.w.queued[i].executeAfter = 0
  <2>1. c.g.runs[i] \in {0, 1} /\ y.g.runs[i] \in {0, 1}
    BY <1>1 DEF QueueKept
  <2>2. y.g.runs[i] >= c.g.runs[i]
    BY DEF Grown
  <2>3. y.g.runs[i] = 1 => y.w.queued[i].executeAfter = 0
    BY <1>1 DEF QueueKept
  <2> QED BY <2>1, <2>2, <2>3
<1> QED BY <1>1, <1>2 DEF RanOnce

\* The transaction's own frame returns: y is committed, c was.
LEMMA CommitStep ==
  ASSUME NEW c \in Snapshot, NEW x \in Snapshot, NEW y \in Snapshot, NEW f \in RunningFrame,
         NEW kind, Committed = c, Committed' = y, now \in Nat, Stands(c, x, f, 2, kind, now),
         f.calls = <<>>, f.charge = <<>>, Refilled(x.w, y.w, f.who, now), y.g = x.g,
         QueueKept(c)
  PROVE  QueueKept(y) /\ Promise!Transaction
<1> DEFINE k == f.who
<1>1. k \in Key /\ QueueKept(x) /\ Grown(c, x) /\ f.who \in Key
  BY DEF Stands, RunningFrame
<1>2. QueueKept(y)
  BY <1>1, CommitOnce
<1>3. RanOnce(c, y)
  BY <1>1, CommitOnce
<1>4. /\ y.w.frozenUntil = x.w.frozenUntil /\ y.w.balance = x.w.balance
      /\ y.w.frozenUntil \in Nat
  BY SnapshotType DEF Refilled, Storage
<1>5. CASE ~Guarded(c, now)
  <2>1. c.w.coldDelay = 0 /\ ~Frozen(c.w, now)
    BY <1>5 DEF Guarded
  <2> QED BY <1>2, <1>3, <2>1, SimpleStep DEF Promise!Transaction
<1>6. CASE HasWaited(c, x, now)
  <2>1. HasWaited(c, y, now)
    BY <1>6, WaitedStays
  <2> QED BY <1>2, <1>3, <2>1, WaitedStep DEF Promise!Transaction
<1>7. CASE Unfreezing(c, x, f)
  <2>1. c.w.coldDelay = 0 /\ ~(y.w.frozenUntil > now)
    <3>1. Len(f.calls) = 0
      OBVIOUS
    <3>2. c.w.coldDelay = 0 /\ x.w.frozenUntil = 0
      BY <1>7, <3>1 DEF Unfreezing, IsUnfreeze
    <3> QED BY <1>4, <3>2
  <2> QED BY <1>2, <1>3, <2>1, SimpleStep DEF Promise!Transaction
<1>8. CASE Alone(c, x, f, now) /\ Guarded(c, now)
  <2>1. Shielded(c, x, k, now)
    BY <1>8, AloneCommits
  <2>2. Shielded(c, y, k, now)
    BY <1>8, AloneCommits
  <2>3. \A i \in QueueId : Announces(c, y, i, now)
    BY <1>8, AloneCommits
  <2>4. y.g.runs = c.g.runs /\ c.w \in Storage
    BY <1>8, AloneCommits, SnapshotType
  <2>5. CASE OwnerBatch(c, x, f)
    <3>1. /\ \A a \in Asset : y.w.balance[a] >= c.w.balance[a]
          /\ x.w.gasAllowance = c.w.gasAllowance
          /\ \A a \in Asset : c.w.balance[a] \in Nat /\ y.w.balance[a] \in Nat
      BY <1>4, <2>5, SnapshotType DEF OwnerBatch, Storage
    <3>2. \A a \in Asset : c.w.balance[a] - y.w.balance[a] <= 0
      BY <3>1
    <3>3. CASE c.w.coldDelay = 0
      BY <1>2, <1>3, <3>2, <3>3, SimpleStep DEF Promise!Transaction
    <3>4. CASE c.w.coldDelay # 0
      <4>1. x.w.role[k] \in {"owner", "none"}
        BY <1>1, <2>1, <2>5 DEF OwnerBatch, Shielded
      <4>2. x.w.coldDelay # 0
        <5>1. c.w.coldDelay \in Nat /\ x.w.coldDelay \in Nat /\ x.w.coldDelay >= c.w.coldDelay
          BY <2>1, SnapshotType DEF Shielded, Storage
        <5> QED BY <3>4, <5>1
      <4>3. y.w.gasAllowance = c.w.gasAllowance
        BY <3>1, <4>1, <4>2 DEF Refilled
      <4>4. \A a \in Asset : Taken(c, y, a) <= 0
        <5>1. c.w.gasAllowance \in Nat
          BY SnapshotType DEF Storage
        <5> QED BY <3>1, <4>3, <5>1 DEF Taken
      <4>5. WithinLimit(c, y, now)
        BY <4>4 DEF WithinLimit
      <4> QED BY <1>2, <2>2, <2>3, <2>4, <4>5, AloneStep DEF Promise!Transaction
    <3> QED BY <3>3, <3>4
  <2>6. CASE SpenderBatch(c, x, f, now)
    <3>1. WithinLimit(c, y, now)
      BY <1>1, <1>8, <2>1, <2>6, SpenderWithinLimit
    <3> QED BY <1>2, <2>2, <2>3, <2>4, <3>1, AloneStep DEF Promise!Transaction
  <2> QED BY <1>8, <2>5, <2>6 DEF Alone
<1> QED BY <1>5, <1>6, <1>7, <1>8 DEF Stands, Bound

LEMMA ReturnFulfils ==
  ASSUME IInv, IInv', AuthorInv, PromiseInv, Return
  PROVE  Fulfils
<1>1. /\ Running /\ Top.calls = <<>> /\ Top.charge = <<>> /\ now' = now /\ g' = g
      /\ stack' = Truncate(Len(stack) - 1)
      /\ w' = w \/ w' = RefillGas(w, Top.who, now)
  BY DEF Return, Leave
<1>2. /\ Len(stack) \in Nat /\ Len(stack) >= 2 /\ Top \in RunningFrame /\ Top.kind # "outside"
      /\ Len(stack) = 2 => stack[2] = Top
      /\ Len(stack) = 2 \/ Len(stack) >= 3
  BY <1>1, RunningShape DEF RunningFrame
<1>3. /\ Here \in Snapshot /\ Here' \in Snapshot /\ Committed \in Snapshot /\ now \in Nat
      /\ QueueKept(Here) /\ QueueKept(Committed)
      /\ Stands(Committed, Here, stack[2], Len(stack), Top.kind, now)
  BY <1>2, SeenTypes, TopStands, HereType
<1>4. Refilled(Here.w, Here'.w, Top.who, now) /\ Here'.g = Here.g
  <2>1. Here.w \in Storage /\ Top.who \in Key
    BY <1>2, <1>3, SnapshotType DEF RunningFrame
  <2> QED BY <1>1, <1>3, <2>1, HereFields, RefillFields
<1>5. QueueKept(Here') /\ Grown(Committed, Here')
  BY <1>3, <1>4 DEF QueueKept, Refilled, Stands, Grown
<1>6. /\ Len(stack) - 1 \in 1 .. Len(stack) - 1
      /\ Len(stack) - 1 = 1 => Len(stack) = 2
      /\ Len(stack) - 1 >= 2 => Len(stack) # 2
  <2>1. \A n \in Nat : n >= 2 => /\ n - 1 \in 1 .. n - 1 /\ (n - 1 = 1 => n = 2)
                                 /\ (n - 1 >= 2 => n # 2)
    OBVIOUS
  <2> QED BY <1>2, <2>1
<1>7. ASSUME Len(stack) = 2
      PROVE  Promise!Transaction
  <2>1. Committed' = Here'
    <3>1. Len(stack') = 1
      BY <1>1, <1>6, <1>7, TruncateFields
    <3> QED BY <3>1, CommittedSeen DEF Seen
  <2>2. Stands(Committed, Here, Top, 2, Top.kind, now)
    BY <1>2, <1>3, <1>7
  <2> QED BY <1>1, <1>2, <1>3, <1>4, <2>1, <2>2, CommitStep
<1>8. ASSUME Len(stack) # 2
      PROVE  Stands(Committed, Here', stack[2], Len(stack) - 1, stack[Len(stack) - 1].kind, now)
  <2>1. HasWaited(Committed, Here, now) => HasWaited(Committed, Here', now)
    BY <1>4, WaitedStays
  <2> QED BY <1>2, <1>3, <1>5, <1>8, <2>1 DEF Stands
<1> QED BY <1>1, <1>5, <1>6, <1>7, <1>8, TruncateFulfils

-----------------------------------------------------------------------------
LEMMA InitPromise == Init => PromiseInv
<1> SUFFICES ASSUME Init PROVE PromiseInv
  OBVIOUS
<1>1. Len(stack) = 1 /\ Seen(stack, Here, 1) = Here /\ 2 .. 1 = {}
  BY DEF Init, Seen
<1>2. \A i \in QueueId : w.queued[i].executeAfter = 0 /\ g.runs[i] = 0
  BY DEF Init, Initialized, NotQueued
<1>3. QueueKept(Here)
  BY <1>2, HereFields DEF QueueKept
<1> QED BY <1>1, <1>3 DEF PromiseInv, StandsAll

\* Every step of the machine is a step of the promise, or shows nothing.
LEMMA NextFulfils ==
  ASSUME IInv, IInv', AuthorInv, PromiseInv, [Next]_vars
  PROVE  PromiseInv' /\ [Promise!Next]_(Promise!vars)
<1>1. ASSUME Fulfils, now' = now
      PROVE  PromiseInv' /\ [Promise!Next]_(Promise!vars)
  BY <1>1, SameStep DEF Fulfils, Promise!Next
<1>2. CASE MetaExecute
  <2>1. Fulfils
    BY <1>2, MetaFulfils, BatchAssumption DEF MetaExecute
  <2>2. now' = now
    BY <1>2 DEF MetaExecute, Meta
  <2> QED BY <1>1, <2>1, <2>2
<1>3. CASE MetaTransfer
  <2>1. now' = now
    BY <1>3 DEF MetaTransfer, Meta
  <2> QED BY <1>1, <1>3, <2>1, MetaTransferFulfils
<1>4. CASE UserOp \/ UserOpFails
  <2>1. now' = now
    BY <1>4 DEF UserOp, ValidateUserOp, UserOpFails
  <2> QED BY <1>1, <1>4, <2>1, UserOpFulfils
<1>5. CASE ExecuteUserOp
  <2>1. now' = now
    BY <1>5 DEF ExecuteUserOp
  <2> QED BY <1>1, <1>5, <2>1, ExecuteUserOpFulfils
<1>6. CASE ExecuteQueued
  <2>1. now' = now
    BY <1>6 DEF ExecuteQueued
  <2> QED BY <1>1, <1>6, <2>1, ExecuteQueuedFulfils
<1>7. CASE GuardianCancel \/ GuardianFreeze \/ StartRecovery \/ Receive
  <2>1. now' = now
    BY <1>7 DEF GuardianCancel, GuardianFreeze, StartRecovery, Receive
  <2> QED BY <1>1, <1>7, <2>1, GuardianFulfils
<1>8. CASE FinalizeRecovery
  <2>1. now' = now
    BY <1>8 DEF FinalizeRecovery
  <2> QED BY <1>1, <1>8, <2>1, FinalizeFulfils
<1>9. CASE SignedPull
  <2>1. now' = now
    BY <1>9 DEF SignedPull
  <2> QED BY <1>1, <1>9, <2>1, SignedPullFulfils
<1>10. CASE Tick
  <2>1. now \in Nat
    BY DEF IInv, TypeOK
  <2> QED BY <1>10, <2>1, TickFulfils, TickStep DEF Promise!Next
<1>11. CASE Charge
  <2>1. now' = now
    BY <1>11 DEF Charge
  <2> QED BY <1>1, <1>11, <2>1, ChargeFulfils
<1>12. CASE RunSelfCall
  <2>1. now' = now
    BY <1>12 DEF RunSelfCall
  <2> QED BY <1>1, <1>12, <2>1, RunSelfCallFulfils
<1>13. CASE SkipWait
  <2>1. now' = now
    BY <1>13 DEF SkipWait
  <2> QED BY <1>1, <1>13, <2>1, SkipWaitFulfils
<1>14. CASE RunQueued
  <2>1. now' = now
    BY <1>14 DEF RunQueued
  <2> QED BY <1>1, <1>14, <2>1, RunQueuedFulfils
<1>15. CASE CallOutside
  <2>1. now' = now
    BY <1>15 DEF CallOutside
  <2> QED BY <1>1, <1>15, <2>1, CallOutsideFulfils
<1>16. CASE CalleeReturns
  <2>1. now' = now
    BY <1>16 DEF CalleeReturns
  <2> QED BY <1>1, <1>16, <2>1, CalleeReturnsFulfils
<1>17. CASE Return
  <2>1. now' = now
    BY <1>17 DEF Return
  <2> QED BY <1>1, <1>17, <2>1, ReturnFulfils
<1>18. CASE Revert
  <2>1. now' = now
    BY <1>18 DEF Revert
  <2> QED BY <1>1, <1>18, <2>1, RevertFulfils
<1>19. CASE UNCHANGED vars
  <2>1. stack' = stack /\ Here' = Here /\ now' = now
    BY <1>19 DEF vars, Here
  <2>2. PromiseInv' /\ Committed' = Committed
    BY <2>1, CommittedSeen DEF PromiseInv
  <2> QED BY <2>1, <2>2, SameStep
<1> QED
  BY <1>2, <1>3, <1>4, <1>5, <1>6, <1>7, <1>8, <1>9, <1>10, <1>11, <1>12, <1>13, <1>14,
     <1>15, <1>16, <1>17, <1>18, <1>19 DEF Next, Enters, Runs, World

\* InstantWallet implements ColdStorage: whatever a transaction commits, by whatever
\* road through outside contracts, signed messages and queued actions, and whatever it
\* undoes on the way, it weakened the wallet or moved more than a limit only after the
\* wait, with a second key, by a recovery, or in a wallet that has no cold delay.
THEOREM ThePromiseIsKept == Spec => KeepsPromise
<1>1. Init => IInv /\ AuthorInv /\ PromiseInv
  BY InitSound, InitAuthors, InitPromise
<1>2. IInv /\ AuthorInv /\ PromiseInv /\ [Next]_vars => (IInv /\ AuthorInv /\ PromiseInv)'
  BY NextSound, NextAuthors, NextFulfils
<1>3. Spec => [](IInv /\ AuthorInv /\ PromiseInv)
  BY <1>1, <1>2, PTL DEF Spec
<1>4. IInv /\ IInv' /\ AuthorInv /\ PromiseInv /\ [Next]_vars => [Promise!Next]_(Promise!vars)
  BY NextFulfils
<1>5. Init => Promise!Init
  BY InitStep
<1>6. Spec => Promise!Spec
  BY <1>3, <1>4, <1>5, PTL DEF Spec, Promise!Spec
<1> QED BY <1>6 DEF KeepsPromise

-----------------------------------------------------------------------------
(***************************************************************************)
(* A spender's transaction, in any wallet.                                 *)
(***************************************************************************)
\* What is charged is charged for any part of it.
LEMMA PartIsCharged ==
  ASSUME NEW c \in Snapshot, NEW y \in Snapshot, Committed = c, Committed' = y,
         NEW k \in Key, NEW a \in Asset, NEW n \in Int, NEW m, Charged(c, y, k, a, m, now),
         n <= m
  PROVE  ChargedTo(k, a, n)
<1> SUFFICES ASSUME n > 0
             PROVE  /\ CanSpend(c.w, k, a, n, now)
                    /\ \/ y.w.role[k] = "none"
                       \/ Used(y.w, k, a) >= Used(c.w, k, a) + n
  BY DEF ChargedTo
<1>1. m \in Nat /\ m # 0 /\ Remaining(c.w, k, a, now) \in Nat
  <2>1. m \in Nat
    BY DEF Charged
  <2>2. Remaining(c.w, k, a, now) \in Nat
    <3>1. c.w.allowance[k][a].limit \in Nat /\ Spent(c, k, a, now) \in Nat
      BY RemainingIs, SpentType
    <3> QED BY <3>1, RemainingIs
  <2> QED BY <2>1, <2>2
<1>2. CanSpend(c.w, k, a, n, now)
  <2>1. ~Frozen(c.w, now) /\ m <= Remaining(c.w, k, a, now)
    BY <1>1 DEF Charged, CanSpend
  <2>2. n <= Remaining(c.w, k, a, now)
    BY <1>1, <2>1
  <2> QED BY <2>1, <2>2 DEF CanSpend
<1>3. Used(c.w, k, a) = Spent(c, k, a, now) /\ Used(y.w, k, a) = Spent(y, k, a, now)
  BY DEF Used, Spent
<1>4. CASE y.w.role[k] = "none"
  BY <1>2, <1>4
<1>5. CASE Spent(y, k, a, now) >= Spent(c, k, a, now) + m
  <2>1. Spent(y, k, a, now) \in Nat /\ Spent(c, k, a, now) \in Nat
    BY SpentType
  <2>2. Spent(y, k, a, now) >= Spent(c, k, a, now) + n
    BY <1>1, <1>5, <2>1
  <2> QED BY <1>2, <1>3, <2>2
<1> QED BY <1>4, <1>5 DEF Charged

LEMMA LeavesIs ==
  ASSUME NEW c \in Snapshot, NEW y \in Snapshot, Committed = c, Committed' = y,
         NEW a \in Asset
  PROVE  /\ Promise!Leaves(a) = Taken(c, y, a) /\ Taken(c, y, a) \in Int
         /\ y.w.gasAllowance - c.w.gasAllowance \in Int
<1>1. /\ c.w.balance[a] \in Nat /\ y.w.balance[a] \in Nat
      /\ c.w.gasAllowance \in Nat /\ y.w.gasAllowance \in Nat
  BY SnapshotType DEF Storage
<1>2. Promise!Leaves(a) = Taken(c, y, a)
  BY DEF Promise!Leaves, Promise!Drop, Taken, Shown
<1> QED BY <1>1, <1>2 DEF Taken

\* A spender's transaction commits y.
LEMMA SpenderCommits ==
  ASSUME NEW c \in Snapshot, NEW x \in Snapshot, NEW y \in Snapshot, NEW f \in RunningFrame,
         NEW kind, Committed = c, Committed' = y, now \in Nat, Stands(c, x, f, 2, kind, now),
         f.calls = <<>>, f.charge = <<>>, Refilled(x.w, y.w, f.who, now), y.g = x.g,
         QueueKept(c), c.w.role[f.who] = "spender"
  PROVE  Promise!Waited \/ WithinItsLimit(f.who)
<1>1. f.who \in Key /\ QueueKept(x) /\ Grown(c, x) /\ USDC \in Asset /\ c.w \in Storage
  BY IdentityAssumption, SnapshotType DEF Stands, RunningFrame
<1>2. CASE HasWaited(c, x, now)
  <2>1. HasWaited(c, y, now)
    BY <1>2, WaitedStays
  <2>2. RanOnce(c, y)
    BY <1>1, CommitOnce
  <2> QED BY <2>1, <2>2, WaitedStep
<1>3. CASE Alone(c, x, f, now)
  <2>1. /\ Shielded(c, x, f.who, now) /\ Shielded(c, y, f.who, now)
        /\ \A i \in QueueId : Announces(c, y, i, now)
        /\ y.g.runs = c.g.runs
    BY <1>3, AloneCommits
  <2>2. SpenderBatch(c, x, f, now)
    BY <1>3 DEF Alone, OwnerBatch
  <2>3. Promise!Protected
    BY <1>1, <2>1, ProtectedStep
  <2>4. Owners(c.w) \subseteq Owners(y.w)
    BY <2>1 DEF Shielded, Owners
  <2>5. ASSUME NEW a \in Asset
        PROVE  \E n \in Nat :
                 /\ Charged(c, y, f.who, a, n, now)
                 /\ c.w.coldDelay # 0 \/ a = ETH => c.w.balance[a] - y.w.balance[a] <= n
                 /\ c.w.coldDelay # 0 \/ a = ETH => Taken(c, y, a) <= n
                 /\ a = USDC => y.w.gasAllowance - c.w.gasAllowance <= n
    BY <1>1, <2>1, <2>2, SpenderCharged
  <2>6. ASSUME NEW a \in Asset, c.w.coldDelay # 0 \/ a = ETH
        PROVE  ChargedTo(f.who, a, Promise!Leaves(a))
    <3>1. PICK n \in Nat : Charged(c, y, f.who, a, n, now) /\ Taken(c, y, a) <= n
      BY <2>5, <2>6
    <3> QED BY <1>1, <3>1, LeavesIs, PartIsCharged
  <2>7. ChargedTo(f.who, USDC, y.w.gasAllowance - c.w.gasAllowance)
    <3>1. PICK n \in Nat :
            /\ Charged(c, y, f.who, USDC, n, now)
            /\ y.w.gasAllowance - c.w.gasAllowance <= n
      BY <1>1, <2>5
    <3> QED BY <1>1, <3>1, LeavesIs, PartIsCharged
  <2> QED BY <2>3, <2>4, <2>6, <2>7 DEF WithinItsLimit
<1> QED BY <1>2, <1>3 DEF Stands, Bound, Unfreezing

\* A failure commits nothing.
LEMMA NothingCommitted ==
  ASSUME NEW c \in Snapshot, Committed = c, Committed' = c, NEW k \in Key
  PROVE  WithinItsLimit(k)
<1>1. Shielded(c, c, k, now)
  <2>1. /\ \A j \in Key, a \in Asset : c.w.allowance[j][a].limit \in Nat
        /\ c.w.coldDelay \in Nat /\ c.w.frozenUntil \in Nat
    BY SnapshotType DEF Storage, Allowance
  <2> QED BY <2>1 DEF Shielded, ProposalKept
<1>2. Promise!Protected
  <2>1. \A i \in QueueId : Announces(c, c, i, now)
    BY DEF Announces, ActionKept
  <2> QED BY <1>1, <2>1, ProtectedStep, SnapshotType
<1>3. ASSUME NEW a \in Asset
      PROVE  Promise!Leaves(a) = 0 /\ c.w.gasAllowance - c.w.gasAllowance = 0
  <2>1. c.w.balance[a] \in Nat /\ c.w.gasAllowance \in Nat
    BY SnapshotType DEF Storage
  <2>2. Promise!Leaves(a) = Taken(c, c, a)
    BY LeavesIs
  <2> QED BY <2>1, <2>2 DEF Taken
<1>4. \A a \in Asset : ChargedTo(k, a, 0)
  BY DEF ChargedTo
<1>5. USDC \in Asset
  BY IdentityAssumption
<1> QED BY <1>2, <1>3, <1>4, <1>5 DEF WithinItsLimit

\* A transaction's own frame ends in one of two ways.
LEMMA OwnFrameEnds ==
  ASSUME IInv, AuthorInv, [Next]_vars, Len(stack) = 2, Len(stack') = 1
  PROVE  Return \/ Revert
<1>1. /\ stack \in Seq(RunningFrame \cup OutsideFrame) /\ Top = stack[2]
      /\ Top.kind # "outside" /\ stack' # stack
  <2>1. stack \in Seq(RunningFrame \cup OutsideFrame)
    BY StackFacts
  <2>2. Top = stack[2] /\ Top.kind # "outside"
    <3>1. Top = stack[Len(stack)] /\ Top.kind = stack[Len(stack)].kind
            /\ (Len(stack) >= 2 => stack[2].kind # "outside")
      BY StackShape
    <3> QED BY <3>1
  <2>3. stack' # stack
    OBVIOUS
  <2> QED BY <2>1, <2>2, <2>3
<1>2. Running
  <2>1. Top \in RunningFrame \cup OutsideFrame
    BY <1>1
  <2>2. Top \in RunningFrame
    BY <1>1, <2>1 DEF OutsideFrame
  <2> QED BY <1>1, <2>2 DEF Running, RunningFrame
<1>3. ASSUME NEW f \in RunningFrame, NEW h \in RunningFrame \cup OutsideFrame,
             \/ stack' = [stack EXCEPT ![2] = f]
             \/ stack' = Append([stack EXCEPT ![2] = f], h)
      PROVE  FALSE
  <2>1. [stack EXCEPT ![2] = f] \in Seq(RunningFrame \cup OutsideFrame)
          /\ Len([stack EXCEPT ![2] = f]) = 2
    BY <1>1
  <2> QED BY <1>3, <2>1
<1>4. ~Charge
  <2>1. ASSUME Charge PROVE FALSE
    <3>1. Top.charge # <<>> /\ stack' = [stack EXCEPT ![Len(stack)].charge = Tail(@)]
      BY <2>1 DEF Charge, Charging
    <3>2. PICK f \in RunningFrame : stack' = [stack EXCEPT ![2] = f]
      BY <1>2, <3>1, TailFrame
    <3> QED BY <1>3, <3>2
  <2> QED BY <2>1
<1>5. ~RunSelfCall /\ ~SkipWait /\ ~RunQueued /\ ~CallOutside
  <2>1. ASSUME RunSelfCall \/ SkipWait \/ RunQueued \/ CallOutside PROVE FALSE
    <3>1. Top.calls # <<>>
      BY <2>1 DEF RunSelfCall, SkipWait, RunQueued, CallOutside, Calling
    <3>2. PICK f \in RunningFrame :
            [stack EXCEPT ![Len(stack)].calls = Tail(@)] = [stack EXCEPT ![2] = f]
      BY <1>2, <3>1, TailFrame
    <3>3. \/ Advance
          \/ \E h \in RunningFrame \cup OutsideFrame :
               stack' = Append([stack EXCEPT ![Len(stack)].calls = Tail(@)], h)
      <4>1. CASE RunSelfCall \/ SkipWait \/ CallOutside
        <5>1. Outside(<<>>) \in OutsideFrame
          BY DEF Outside, OutsideFrame
        <5> QED BY <4>1, <5>1 DEF RunSelfCall, SkipWait, CallOutside
      <4>2. CASE RunQueued
        <5>1. /\ Calling /\ NextCall.op = "executeQueued" /\ Allowed(NextCall)
              /\ StartQueued(NextCall.id)
          BY <4>2 DEF RunQueued
        <5>2. NextCall.id \in QueueId /\ CanRun(w, NextCall.id, now)
          BY <5>1, CallingTop, CallFields DEF Allowed
        <5>3. QueuedFrame(NextCall.id) \in RunningFrame
          BY <5>1, <5>2, QueuedAuthors
        <5> QED BY <4>2, <5>3 DEF RunQueued
      <4> QED BY <2>1, <4>1, <4>2
    <3> QED BY <1>3, <3>2, <3>3 DEF Advance
  <2> QED BY <2>1
<1>6. ~CalleeReturns
  BY <1>1 DEF CalleeReturns
<1>7. ~Enters /\ ~World
  <2>1. ~CanEnter /\ ~BetweenTransactions
    BY <1>1 DEF CanEnter, BetweenTransactions
  <2>2. ~MetaExecute /\ ~MetaTransfer
    BY <2>1 DEF MetaExecute, MetaTransfer, Meta
  <2>3. ~UserOp /\ ~ExecuteUserOp /\ ~UserOpFails /\ ~Tick
    BY <2>1 DEF UserOp, ValidateUserOp, ExecuteUserOp, UserOpFails, Tick
  <2>4. ~ExecuteQueued /\ ~GuardianCancel /\ ~GuardianFreeze /\ ~StartRecovery
    BY <2>1 DEF ExecuteQueued, GuardianCancel, GuardianFreeze, StartRecovery
  <2>5. ~FinalizeRecovery /\ ~Receive /\ ~SignedPull
    BY <2>1 DEF FinalizeRecovery, Receive, SignedPull
  <2> QED BY <2>2, <2>3, <2>4, <2>5 DEF Enters, World
<1>8. ~UNCHANGED vars
  BY <1>1 DEF vars
<1> QED BY <1>4, <1>5, <1>6, <1>7, <1>8 DEF Next, Runs

LEMMA LimitStep ==
  ASSUME IInv, IInv', AuthorInv, PromiseInv, [Next]_vars, SpenderIsDone
  PROVE  Promise!Waited \/ WithinItsLimit(Top.who)
<1>1. Len(stack) = 2 /\ Len(stack') = 1 /\ Committed.w.role[Top.who] = "spender"
  BY DEF SpenderIsDone
<1>2. /\ Here \in Snapshot /\ Here' \in Snapshot /\ Committed \in Snapshot /\ now \in Nat
      /\ QueueKept(Committed) /\ Top.kind # "outside" /\ Top = stack[2]
  BY <1>1, SeenTypes, TopStands, HereType, StackShape
<1>3. Top \in RunningFrame
  <2>1. stack \in Seq(RunningFrame \cup OutsideFrame)
    BY StackFacts
  <2>2. Top \in RunningFrame \cup OutsideFrame
    BY <1>1, <1>2, <2>1
  <2> QED BY <1>2, <2>2 DEF OutsideFrame
<1>4. Committed' = Here'
  BY <1>1, CommittedSeen DEF Seen
<1>5. CASE Return
  <2>1. /\ Running /\ Top.calls = <<>> /\ Top.charge = <<>> /\ g' = g
        /\ w' = w \/ w' = RefillGas(w, Top.who, now)
    BY <1>5 DEF Return
  <2>2. Refilled(Here.w, Here'.w, Top.who, now) /\ Here'.g = Here.g
    <3>1. Here.w \in Storage /\ Top.who \in Key
      BY <1>2, <1>3, SnapshotType DEF RunningFrame
    <3> QED BY <1>2, <2>1, <3>1, HereFields, RefillFields
  <2>3. Stands(Committed, Here, Top, 2, Top.kind, now)
    BY <1>1, <1>2, TopStands
  <2> QED BY <1>1, <1>2, <1>3, <1>4, <2>1, <2>2, <2>3, SpenderCommits
<1>6. CASE Revert
  <2>1. /\ w' = stack[1].saved[1].w /\ actor' = stack[1].saved[1].actor
        /\ locked' = stack[1].saved[1].locked /\ g' = stack[1].saved[1].g
    <3>1. 1 .. 2 - 1 = {1}
      OBVIOUS
    <3> QED BY <1>1, <1>6, <3>1 DEF Revert
  <2>2. Committed = stack[1].saved[1]
    BY <1>1, CommittedSeen DEF Seen
  <2>3. Here' = Committed
    BY <1>2, <2>1, <2>2 DEF Here, Snapshot
  <2>4. Top.who \in Key
    BY <1>3 DEF RunningFrame
  <2> QED BY <1>2, <1>4, <2>3, <2>4, NothingCommitted
<1> QED BY <1>1, <1>5, <1>6, OwnFrameEnds

\* A spender's transaction changes no rule, and all that leaves, or may leave as gas,
\* was left of the limits an owner set for that key and counts against them: whatever
\* the contracts it pays come back to do, and whether or not the wallet has a cold delay.
THEOREM SpendersKeepToTheirLimits == Spec => SpenderKeepsToItsLimit
<1>1. Init => IInv /\ AuthorInv /\ PromiseInv
  BY InitSound, InitAuthors, InitPromise
<1>2. IInv /\ AuthorInv /\ PromiseInv /\ [Next]_vars => (IInv /\ AuthorInv /\ PromiseInv)'
  BY NextSound, NextAuthors, NextFulfils
<1>3. IInv /\ IInv' /\ AuthorInv /\ PromiseInv /\ [Next]_vars
        => [SpenderIsDone => Promise!Waited \/ WithinItsLimit(Top.who)]_vars
  BY LimitStep
<1> QED BY <1>1, <1>2, <1>3, PTL DEF Spec, SpenderKeepsToItsLimit
=============================================================================
