------------------------------- MODULE KeyRing -------------------------------
(***************************************************************************)
(* The arrays and counters behind a wallet's keys and their daily limits.  *)
(*                                                                         *)
(* InstantWallet.sol keeps its signers, and the assets each signer has a   *)
(* limit on, in an array plus a mapping to index + 1, and removes with a   *)
(* swap and a pop.  InstantWallet.tla sees only the sets; this module      *)
(* checks that the arrays stay such sets, and follows the spending of each *)
(* allowance over time.  The calls arrive here already authorized.         *)
(***************************************************************************)
EXTENDS Integers, Sequences, FiniteSets, FiniteSetsExt

CONSTANTS Key, Asset, WINDOW, Limit, Amount, MaxTime

ASSUME KeyRingAssumption ==
  /\ IsFiniteSet(Key) /\ IsFiniteSet(Asset)
  /\ WINDOW \in Nat \ {0} /\ MaxTime \in Nat /\ WINDOW <= MaxTime
  /\ Limit \subseteq Nat /\ Amount \subseteq Nat

VARIABLES
  now,
  signerIds,      \* _signerIds: a sequence of keys
  signerIndex,    \* _signerIndex: index + 1, 0 = absent
  limitedAssets,  \* _limitedAssets: a sequence of assets for each key
  limitedIndex,   \* _limitedIndex
  allowance,      \* _allowances
  sent,           \* history: what each key moved of each asset, by time, since
                  \* it was last removed
  peak            \* history: the highest limit each key had on each asset

vars == <<now, signerIds, signerIndex, limitedAssets, limitedIndex, allowance, sent, peak>>

Time == WINDOW .. MaxTime

TypeOK ==
  /\ now \in Time
  /\ signerIds \in Seq(Key)
  /\ signerIndex \in [Key -> 0 .. Cardinality(Key)]
  /\ limitedAssets \in [Key -> Seq(Asset)]
  /\ limitedIndex \in [Key -> [Asset -> 0 .. Cardinality(Asset)]]
  /\ allowance \in [Key -> [Asset -> [limit: Nat, spent: Nat, windowStart: Nat]]]
  /\ sent \in [Key -> [Asset -> [Time -> Nat]]]
  /\ peak \in [Key -> [Asset -> Nat]]

NoAllowance == [limit |-> 0, spent |-> 0, windowStart |-> 0]
NothingSent == [t \in Time |-> 0]

Init ==
  /\ now = WINDOW
  /\ signerIds = <<>>
  /\ signerIndex = [k \in Key |-> 0]
  /\ limitedAssets = [k \in Key |-> <<>>]
  /\ limitedIndex = [k \in Key |-> [a \in Asset |-> 0]]
  /\ allowance = [k \in Key |-> [a \in Asset |-> NoAllowance]]
  /\ sent = [k \in Key |-> [a \in Asset |-> NothingSent]]
  /\ peak = [k \in Key |-> [a \in Asset |-> 0]]

-----------------------------------------------------------------------------
(***************************************************************************)
(* Swap and pop: the last element takes the place of the one removed.      *)
(***************************************************************************)
RemoveAt(list, i) ==
  SubSeq([list EXCEPT ![i] = list[Len(list)]], 1, Len(list) - 1)

\* Mutant: the moved element keeps its old index.
ReindexDropped(list, index, x) == [index EXCEPT ![x] = 0]

\* The mapping after x left position index[x]; the order of the two updates
\* matters when x is the last element.
Reindex(list, index, x) ==
  [index EXCEPT ![list[Len(list)]] = index[x], ![x] = 0]

IsSigner(k) == signerIndex[k] # 0

AddSigner(k) ==
  /\ ~IsSigner(k)
  /\ signerIds' = Append(signerIds, k)
  /\ signerIndex' = [signerIndex EXCEPT ![k] = Len(signerIds) + 1]
  /\ UNCHANGED <<now, limitedAssets, limitedIndex, allowance, sent, peak>>

\* _removeSigner: the allowances of the listed assets go with the key.  The last
\* signer is the last owner, which stays (LastOwner).
RemoveSigner(k) ==
  LET listed == {limitedAssets[k][i] : i \in 1 .. Len(limitedAssets[k])} IN
    /\ IsSigner(k) /\ Len(signerIds) > 1
    /\ signerIds' = RemoveAt(signerIds, signerIndex[k])
    /\ signerIndex' = Reindex(signerIds, signerIndex, k)
    /\ allowance' = [allowance EXCEPT ![k] =
         [a \in Asset |-> IF a \in listed THEN NoAllowance ELSE @[a]]]
    /\ limitedIndex' = [limitedIndex EXCEPT ![k] =
         [a \in Asset |-> IF a \in listed THEN 0 ELSE @[a]]]
    /\ limitedAssets' = [limitedAssets EXCEPT ![k] = <<>>]
    /\ sent' = [sent EXCEPT ![k] = [a \in Asset |-> NothingSent]]
    /\ peak' = [peak EXCEPT ![k] = [a \in Asset |-> 0]]
    /\ UNCHANGED now

(***************************************************************************)
(* _setLimit: 0 takes the asset off the list; only the limit changes, the  *)
(* window and what was spent in it stay.                                   *)
(***************************************************************************)
\* Mutant: the mapping is not cleared.
UnlistKeepsIndex(k, a) ==
  /\ limitedAssets' = [limitedAssets EXCEPT ![k] = RemoveAt(@, limitedIndex[k][a])]
  /\ UNCHANGED limitedIndex

Unlist(k, a) ==
  /\ limitedAssets' = [limitedAssets EXCEPT ![k] = RemoveAt(@, limitedIndex[k][a])]
  /\ limitedIndex' = [limitedIndex EXCEPT ![k] = Reindex(limitedAssets[k], @, a)]

List(k, a) ==
  /\ limitedAssets' = [limitedAssets EXCEPT ![k] = Append(@, a)]
  /\ limitedIndex' = [limitedIndex EXCEPT ![k][a] = Len(limitedAssets[k]) + 1]

\* Mutant: a new limit starts a new window with nothing spent.
SetLimitRestartsWindow(k, a, limit) ==
  /\ IsSigner(k)
  /\ allowance' = [allowance EXCEPT ![k][a] = [limit |-> limit, spent |-> 0, windowStart |-> now]]
  /\ peak' = [peak EXCEPT ![k][a] = IF limit > @ THEN limit ELSE @]
  /\ UNCHANGED <<now, signerIds, signerIndex, limitedAssets, limitedIndex, sent>>

SetLimit(k, a, limit) ==
  LET listed == limitedIndex[k][a] # 0 IN
    /\ IsSigner(k)
    /\ \/ limit = 0 /\ listed /\ Unlist(k, a)
       \/ limit # 0 /\ ~listed /\ List(k, a)
       \/ (limit = 0) = ~listed /\ UNCHANGED <<limitedAssets, limitedIndex>>
    /\ allowance' = [allowance EXCEPT ![k][a].limit = limit]
    /\ peak' = [peak EXCEPT ![k][a] = IF limit > @ THEN limit ELSE @]
    /\ UNCHANGED <<now, signerIds, signerIndex, sent>>

(***************************************************************************)
(* _spend, for a key that is a signer: a transfer, or a refill of the gas  *)
(* allowance.                                                              *)
(***************************************************************************)
Current(al) ==
  IF now >= al.windowStart + WINDOW
  THEN [al EXCEPT !.windowStart = now, !.spent = 0]
  ELSE al

\* Mutant: what was spent in the window is not held against the limit.
LeftIgnoresSpent(al) == al.limit

Left(al) == IF al.limit > al.spent THEN al.limit - al.spent ELSE 0

Spend(k, a, n) ==
  LET al == Current(allowance[k][a]) IN
    /\ IsSigner(k) /\ n # 0 /\ n <= Left(al)
    /\ allowance' = [allowance EXCEPT ![k][a] = [al EXCEPT !.spent = @ + n]]
    /\ sent' = [sent EXCEPT ![k][a][now] = @ + n]
    /\ UNCHANGED <<now, signerIds, signerIndex, limitedAssets, limitedIndex, peak>>

Tick ==
  /\ now < MaxTime
  /\ now' = now + 1
  /\ UNCHANGED <<signerIds, signerIndex, limitedAssets, limitedIndex, allowance, sent, peak>>

Next ==
  \/ \E k \in Key :
       \/ AddSigner(k) \/ RemoveSigner(k)
       \/ \E a \in Asset :
            \/ \E limit \in Limit : SetLimit(k, a, limit)
            \/ \E n \in Amount : Spend(k, a, n)
  \/ Tick

Spec == Init /\ [][Next]_vars

-----------------------------------------------------------------------------
(***************************************************************************)
(* Properties.                                                             *)
(***************************************************************************)
IsIndexOf(index, list, S) ==
  /\ \A i \in 1 .. Len(list) : index[list[i]] = i
  /\ \A x \in S : index[x] # 0 => index[x] <= Len(list) /\ list[index[x]] = x

\* After any sequence of additions and swap-and-pop removals both arrays and their
\* mappings still describe the same set, so no removal takes out the wrong element.
ArraysMatchMappings ==
  /\ IsIndexOf(signerIndex, signerIds, Key)
  /\ \A k \in Key : IsIndexOf(limitedIndex[k], limitedAssets[k], Asset)

\* getLimits lists exactly the assets with a limit: that is what _removeSigner
\* walks to clear a key's allowances, so no limit survives its key.
ListedIffLimited ==
  \A k \in Key, a \in Asset :
    /\ limitedIndex[k][a] # 0 <=> allowance[k][a].limit # 0
    /\ ~IsSigner(k) => limitedIndex[k][a] = 0

SentFrom(k, a, from, to) ==
  MapThenSumSet(LAMBDA t : sent[k][a][t], {t \in Time : from <= t /\ t <= to})

\* In the window an allowance is in, a key has moved no more than the highest limit
\* it was given, however often the limit was changed meanwhile, to 0 and back too.
WindowWithinLimit ==
  \A k \in Key, a \in Asset :
    LET start == allowance[k][a].windowStart IN
      SentFrom(k, a, start, start + WINDOW - 1) <= peak[k][a]

\* Two windows touch any day, so at worst twice the limit leaves in one.
DayWithinTwoLimits ==
  \A k \in Key, a \in Asset, t \in Time :
    SentFrom(k, a, t, t + WINDOW - 1) <= 2 * peak[k][a]
=============================================================================
