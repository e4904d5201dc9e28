---------------------------- MODULE KeyRingProofs ----------------------------
(***************************************************************************)
(* Proofs about KeyRing: for any keys, assets, limits and amounts.         *)
(***************************************************************************)
EXTENDS KeyRing, FiniteSetTheorems, SequenceTheorems, WellFoundedInduction, TLAPS

\* The arrays and the limits hold each other up: a removal is right because the
\* mapping is, and leaves no limit because what has one is listed.
IInv == TypeOK /\ ArraysMatchMappings /\ ListedIffLimited

-----------------------------------------------------------------------------
(***************************************************************************)
(* An array and its mapping.                                               *)
(***************************************************************************)
\* An array that its mapping describes has no element twice.
LEMMA IndexedIsShort ==
  ASSUME NEW S, IsFiniteSet(S), NEW list \in Seq(S), NEW index \in [S -> Nat],
         IsIndexOf(index, list, S)
  PROVE  Len(list) <= Cardinality(S) /\ index \in [S -> 0..Cardinality(S)]
<1>1. Len(list) \in Nat /\ list \in [1..Len(list) -> S]
  OBVIOUS
<1>2. \A i \in 1..Len(list) : index[list[i]] = i
  BY DEF IsIndexOf
<1>3. \A i, j \in 1..Len(list) : list[i] = list[j] => i = j
  BY <1>2
<1>4. list \in Injection(1..Len(list), S)
  BY <1>1, <1>3 DEF Injection, IsInjective
<1>5. Cardinality(1..Len(list)) = Len(list)
  BY <1>1, FS_Interval
<1>6. Cardinality(1..Len(list)) <= Cardinality(S) /\ Cardinality(S) \in Nat
  BY <1>4, FS_Injection, FS_CardinalityType
<1>7. \A x \in S : index[x] \in 0..Cardinality(S)
  BY <1>1, <1>5, <1>6 DEF IsIndexOf
<1> QED BY <1>5, <1>6, <1>7

\* Appending what is not there yet.
LEMMA AppendKeepsIndex ==
  ASSUME NEW S, NEW list \in Seq(S), NEW index \in [S -> Nat], IsIndexOf(index, list, S),
         NEW x \in S, index[x] = 0
  PROVE  /\ Append(list, x) \in Seq(S) /\ [index EXCEPT ![x] = Len(list) + 1] \in [S -> Nat]
         /\ IsIndexOf([index EXCEPT ![x] = Len(list) + 1], Append(list, x), S)
<1> DEFINE l == Append(list, x)
           f == [index EXCEPT ![x] = Len(list) + 1]
<1>1. /\ l \in Seq(S) /\ Len(list) \in Nat /\ Len(l) = Len(list) + 1
      /\ \A i \in 1..Len(list) : l[i] = list[i] /\ list[i] \in S
      /\ l[Len(list) + 1] = x
  OBVIOUS
<1>2. f \in [S -> Nat] /\ \A y \in S : f[y] = IF y = x THEN Len(list) + 1 ELSE index[y]
  BY <1>1
<1> HIDE DEF l, f
<1>3. \A i \in 1..Len(l) : f[l[i]] = i
  <2> SUFFICES ASSUME NEW i \in 1..Len(l) PROVE f[l[i]] = i
    OBVIOUS
  <2>1. CASE i = Len(list) + 1
    BY <1>1, <1>2, <2>1
  <2>2. CASE i # Len(list) + 1
    <3>1. i \in 1..Len(list)
      BY <1>1, <2>2
    <3>2. index[list[i]] = i /\ list[i] # x
      BY <3>1 DEF IsIndexOf
    <3> QED BY <1>1, <1>2, <3>1, <3>2
  <2> QED BY <2>1, <2>2
<1>4. \A y \in S : f[y] # 0 => f[y] <= Len(l) /\ l[f[y]] = y
  <2> SUFFICES ASSUME NEW y \in S, f[y] # 0 PROVE f[y] <= Len(l) /\ l[f[y]] = y
    OBVIOUS
  <2>1. CASE y = x
    BY <1>1, <1>2, <2>1
  <2>2. CASE y # x
    <3>1. f[y] = index[y] /\ index[y] \in Nat
      BY <1>2, <2>2
    <3>2. index[y] <= Len(list) /\ list[index[y]] = y
      BY <3>1 DEF IsIndexOf
    <3> QED BY <1>1, <3>1, <3>2
  <2> QED BY <2>1, <2>2
<1> QED BY <1>1, <1>2, <1>3, <1>4 DEF IsIndexOf, l, f

\* Swap and pop: the last element takes the place, and the index, of the one removed.
LEMMA RemovalKeepsIndex ==
  ASSUME NEW S, NEW list \in Seq(S), NEW index \in [S -> Nat], IsIndexOf(index, list, S),
         NEW x \in S, index[x] # 0
  PROVE  /\ RemoveAt(list, index[x]) \in Seq(S) /\ Reindex(list, index, x) \in [S -> Nat]
         /\ IsIndexOf(Reindex(list, index, x), RemoveAt(list, index[x]), S)
         /\ Len(RemoveAt(list, index[x])) = Len(list) - 1
         /\ \A y \in S : Reindex(list, index, x)[y] = 0 <=> y = x \/ index[y] = 0
<1> DEFINE n == Len(list)
           p == index[x]
           swapped == [list EXCEPT ![p] = list[n]]
           l == RemoveAt(list, p)
           f == Reindex(list, index, x)
<1>1. p \in 1..n /\ list[p] = x /\ n \in Nat /\ n >= 1
  BY DEF IsIndexOf
<1>2. list[n] \in S /\ index[list[n]] = n /\ \A i \in 1..n : list[i] \in S /\ index[list[i]] = i
  BY <1>1 DEF IsIndexOf
<1>3. \A i \in 1..n : swapped[i] = IF i = p THEN list[n] ELSE list[i]
  BY <1>1
<1>4. \A i \in 1..(n - 1) : swapped[i] \in S
  BY <1>1, <1>2, <1>3
<1>5. l = SubSeq(swapped, 1, n - 1)
  BY DEF RemoveAt
<1> HIDE DEF swapped, l
<1>6. /\ l \in Seq(S) /\ Len(l) = n - 1
      /\ \A i \in 1..(n - 1) : l[i] = swapped[i]
  <2>1. 1 \in Int /\ n - 1 \in Int
    BY <1>1
  <2>2. /\ SubSeq(swapped, 1, n - 1) \in Seq(S)
        /\ Len(SubSeq(swapped, 1, n - 1)) = IF 1 <= n - 1 THEN n - 1 - 1 + 1 ELSE 0
        /\ \A i \in 1..(n - 1 - 1 + 1) : SubSeq(swapped, 1, n - 1)[i] = swapped[1 + i - 1]
    BY <1>4, <2>1, SubSeqProperties
  <2>3. n - 1 - 1 + 1 = n - 1 /\ (1 <= n - 1 \/ n - 1 = 0)
    <3> HIDE DEF n
    <3> QED BY <1>1
  <2>4. \A i \in 1..(n - 1) : 1 + i - 1 = i
    BY <1>1
  <2>5. \A i \in 1..(n - 1) : SubSeq(swapped, 1, n - 1)[i] = swapped[i]
    BY <2>2, <2>3, <2>4
  <2> QED BY <1>5, <2>2, <2>3, <2>5
<1>7. /\ f \in [S -> Nat]
      /\ \A y \in S : f[y] = IF y = x THEN 0 ELSE IF y = list[n] THEN p ELSE index[y]
  BY <1>1, <1>2 DEF Reindex
<1> HIDE DEF f
<1>8. \A i \in 1..Len(l) : f[l[i]] = i
  <2> SUFFICES ASSUME NEW i \in 1..(n - 1) PROVE f[l[i]] = i
    BY <1>6
  <2>1. i \in 1..n /\ i # n
    BY <1>1
  <2>2. CASE i = p
    <3>1. l[i] = list[n] /\ list[n] # x
      BY <1>1, <1>2, <1>3, <1>6, <2>1, <2>2
    <3> QED BY <1>2, <1>7, <2>2, <3>1
  <2>3. CASE i # p
    <3>1. l[i] = list[i] /\ list[i] # x /\ list[i] # list[n]
      BY <1>1, <1>2, <1>3, <1>6, <2>1, <2>3
    <3> QED BY <1>2, <1>7, <2>1, <3>1
  <2> QED BY <2>2, <2>3
<1>9. \A y \in S : f[y] # 0 => f[y] <= Len(l) /\ l[f[y]] = y
  <2> SUFFICES ASSUME NEW y \in S, f[y] # 0 PROVE f[y] <= n - 1 /\ l[f[y]] = y
    BY <1>6
  <2>1. y # x
    BY <1>7
  <2>2. CASE y = list[n]
    <3>1. f[y] = p /\ p # n
      BY <1>1, <1>7, <2>1, <2>2
    <3>2. p \in 1..(n - 1)
      BY <1>1, <3>1
    <3>3. l[p] = swapped[p] /\ swapped[p] = list[n]
      BY <1>1, <1>3, <1>6, <3>2
    <3> QED BY <1>1, <2>2, <3>1, <3>2, <3>3
  <2>3. CASE y # list[n]
    <3>1. f[y] = index[y] /\ index[y] \in Nat
      BY <1>7, <2>1, <2>3
    <3>2. index[y] <= n /\ list[index[y]] = y
      BY <3>1 DEF IsIndexOf
    <3>3. index[y] # n /\ index[y] # p
      BY <1>1, <2>1, <2>3, <3>2
    <3>4. index[y] \in 1..(n - 1)
      BY <1>1, <3>1, <3>2, <3>3
    <3>5. l[index[y]] = swapped[index[y]] /\ swapped[index[y]] = list[index[y]]
      <4>1. index[y] \in 1..n
        BY <1>1, <3>1, <3>2, <3>4
      <4> QED BY <1>3, <1>6, <3>3, <3>4, <4>1
    <3> QED BY <1>1, <3>1, <3>2, <3>4, <3>5
  <2> QED BY <2>2, <2>3
<1>10. \A y \in S : f[y] = 0 <=> y = x \/ index[y] = 0
  BY <1>1, <1>2, <1>7
<1> QED BY <1>6, <1>7, <1>8, <1>9, <1>10 DEF IsIndexOf, l, f

-----------------------------------------------------------------------------
(***************************************************************************)
(* The invariant without the bounds on the indexes, which follow.          *)
(***************************************************************************)
Typed ==
  /\ now \in Time
  /\ signerIds \in Seq(Key) /\ signerIndex \in [Key -> Nat]
  /\ limitedAssets \in [Key -> Seq(Asset)] /\ limitedIndex \in [Key -> [Asset -> Nat]]
  /\ allowance \in [Key -> [Asset -> [limit: Nat, spent: Nat, windowStart: Nat]]]
  /\ sent \in [Key -> [Asset -> [Time -> Nat]]]
  /\ peak \in [Key -> [Asset -> Nat]]

Loose == Typed /\ ArraysMatchMappings /\ ListedIffLimited

LEMMA TypedIsTypeOK ==
  ASSUME Typed, ArraysMatchMappings
  PROVE  TypeOK
<1>1. signerIndex \in [Key -> 0..Cardinality(Key)]
  BY IndexedIsShort, KeyRingAssumption DEF Typed, ArraysMatchMappings
<1>2. \A k \in Key : limitedIndex[k] \in [Asset -> 0..Cardinality(Asset)]
  <2> SUFFICES ASSUME NEW k \in Key PROVE limitedIndex[k] \in [Asset -> 0..Cardinality(Asset)]
    OBVIOUS
  <2>1. limitedAssets[k] \in Seq(Asset) /\ limitedIndex[k] \in [Asset -> Nat]
    BY DEF Typed
  <2> QED BY <2>1, IndexedIsShort, KeyRingAssumption DEF ArraysMatchMappings
<1> QED BY <1>1, <1>2 DEF Typed, TypeOK

LEMMA TypeOKIsTyped ==
  ASSUME TypeOK
  PROVE  Typed
<1>1. Cardinality(Key) \in Nat /\ Cardinality(Asset) \in Nat
  BY FS_CardinalityType, KeyRingAssumption
<1> QED BY <1>1 DEF TypeOK, Typed

LEMMA LooseIsInvariant == Loose <=> IInv
  BY TypedIsTypeOK, TypeOKIsTyped DEF Loose, IInv

LEMMA LooseNext == Loose' => IInv'
  BY LooseIsInvariant, PTL

LEMMA InitHolds == Init => IInv
<1> SUFFICES ASSUME Init PROVE Loose
  BY LooseIsInvariant
<1>1. Typed
  BY KeyRingAssumption DEF Init, Typed, Time, NoAllowance, NothingSent
<1>2. ArraysMatchMappings
  BY DEF Init, ArraysMatchMappings, IsIndexOf
<1>3. ListedIffLimited
  BY DEF Init, ListedIffLimited, NoAllowance
<1> QED BY <1>1, <1>2, <1>3 DEF Loose

-----------------------------------------------------------------------------
(***************************************************************************)
(* The steps.                                                              *)
(***************************************************************************)
LEMMA AddSignerKeeps ==
  ASSUME IInv, NEW k \in Key, AddSigner(k)
  PROVE  IInv'
<1>1. Typed /\ ArraysMatchMappings /\ ListedIffLimited
  BY LooseIsInvariant DEF Loose
<1>2. signerIndex[k] = 0 /\ signerIds' = Append(signerIds, k)
      /\ signerIndex' = [signerIndex EXCEPT ![k] = Len(signerIds) + 1]
      /\ UNCHANGED <<now, limitedAssets, limitedIndex, allowance, sent, peak>>
  BY DEF AddSigner, IsSigner
<1>3. IsIndexOf(signerIndex, signerIds, Key) /\ signerIds \in Seq(Key) /\ signerIndex \in [Key -> Nat]
  BY <1>1 DEF ArraysMatchMappings, Typed
<1>4. /\ signerIds' \in Seq(Key) /\ signerIndex' \in [Key -> Nat]
      /\ IsIndexOf(signerIndex', signerIds', Key)
  BY <1>2, <1>3, AppendKeepsIndex
<1>5. Typed'
  BY <1>1, <1>2, <1>4 DEF Typed
<1>6. ArraysMatchMappings'
  BY <1>1, <1>2, <1>4 DEF ArraysMatchMappings, IsIndexOf
<1>7. ListedIffLimited'
  <2>1. \A j \in Key : ~IsSigner(j)' => ~IsSigner(j)
    <3>1. Len(signerIds) + 1 # 0
      BY <1>3
    <3> QED BY <1>2, <1>3, <3>1 DEF IsSigner
  <2> QED BY <1>1, <1>2, <2>1 DEF ListedIffLimited
<1> QED BY <1>5, <1>6, <1>7, LooseNext DEF Loose

LEMMA RemoveSignerKeeps ==
  ASSUME IInv, NEW k \in Key, RemoveSigner(k)
  PROVE  IInv'
<1> DEFINE listed == {limitedAssets[k][i] : i \in 1 .. Len(limitedAssets[k])}
           allowances == [a \in Asset |-> IF a \in listed THEN NoAllowance ELSE allowance[k][a]]
           indexes == [a \in Asset |-> IF a \in listed THEN 0 ELSE limitedIndex[k][a]]
<1>1. Typed /\ ArraysMatchMappings /\ ListedIffLimited
  BY LooseIsInvariant DEF Loose
<1>2. /\ signerIndex[k] # 0
      /\ signerIds' = RemoveAt(signerIds, signerIndex[k])
      /\ signerIndex' = Reindex(signerIds, signerIndex, k)
      /\ allowance' = [allowance EXCEPT ![k] = allowances]
      /\ limitedIndex' = [limitedIndex EXCEPT ![k] = indexes]
      /\ limitedAssets' = [limitedAssets EXCEPT ![k] = <<>>]
      /\ sent' = [sent EXCEPT ![k] = [a \in Asset |-> NothingSent]]
      /\ peak' = [peak EXCEPT ![k] = [a \in Asset |-> 0]]
      /\ now' = now
  BY DEF RemoveSigner, IsSigner
<1>3. IsIndexOf(signerIndex, signerIds, Key) /\ signerIds \in Seq(Key) /\ signerIndex \in [Key -> Nat]
  BY <1>1 DEF ArraysMatchMappings, Typed
<1>4. /\ signerIds' \in Seq(Key) /\ signerIndex' \in [Key -> Nat]
      /\ IsIndexOf(signerIndex', signerIds', Key)
      /\ \A j \in Key : signerIndex'[j] = 0 <=> j = k \/ signerIndex[j] = 0
  <2> DEFINE ids == RemoveAt(signerIds, signerIndex[k])
             index == Reindex(signerIds, signerIndex, k)
  <2>1. /\ ids \in Seq(Key) /\ index \in [Key -> Nat] /\ IsIndexOf(index, ids, Key)
        /\ \A j \in Key : index[j] = 0 <=> j = k \/ signerIndex[j] = 0
    <3>1. signerIndex[k] # 0
      BY <1>2
    <3>2. signerIds \in Seq(Key) /\ signerIndex \in [Key -> Nat] /\ IsIndexOf(signerIndex, signerIds, Key)
      BY <1>3
    <3> HIDE DEF listed, allowances, indexes
    <3> QED BY <3>1, <3>2, RemovalKeepsIndex, SMTT(60)
  <2>2. signerIds' = ids /\ signerIndex' = index
    BY <1>2
  <2> HIDE DEF ids, index
  <2> QED BY <2>1, <2>2 DEF IsIndexOf
\* What had a limit was listed, so it is cleared.
<1>5. \A a \in Asset : limitedIndex[k][a] # 0 => a \in listed
  <2> SUFFICES ASSUME NEW a \in Asset, limitedIndex[k][a] # 0 PROVE a \in listed
    OBVIOUS
  <2>1. IsIndexOf(limitedIndex[k], limitedAssets[k], Asset) /\ limitedIndex[k][a] \in Nat
        /\ limitedAssets[k] \in Seq(Asset)
    BY <1>1 DEF ArraysMatchMappings, Typed
  <2>2. limitedIndex[k][a] \in 1..Len(limitedAssets[k]) /\ limitedAssets[k][limitedIndex[k][a]] = a
    BY <2>1 DEF IsIndexOf
  <2> QED BY <2>2
<1>6. \A a \in Asset : indexes[a] = 0 /\ allowances[a].limit = 0
  <2>1. \A a \in Asset : a \notin listed => limitedIndex[k][a] = 0 /\ allowance[k][a].limit = 0
    BY <1>1, <1>5 DEF ListedIffLimited
  <2> QED BY <2>1 DEF NoAllowance
<1>7. /\ allowances \in [Asset -> [limit: Nat, spent: Nat, windowStart: Nat]]
      /\ indexes \in [Asset -> Nat]
  <2>1. NoAllowance \in [limit: Nat, spent: Nat, windowStart: Nat]
    BY DEF NoAllowance
  <2>2. \A a \in Asset : allowance[k][a] \in [limit: Nat, spent: Nat, windowStart: Nat]
    BY <1>1 DEF Typed
  <2> QED BY <1>1, <1>6, <2>1, <2>2
<1> HIDE DEF listed, allowances, indexes
<1>8. /\ \A j \in Key : j # k => /\ allowance'[j] = allowance[j] /\ limitedIndex'[j] = limitedIndex[j]
                                 /\ limitedAssets'[j] = limitedAssets[j]
      /\ allowance'[k] = allowances /\ limitedIndex'[k] = indexes /\ limitedAssets'[k] = <<>>
  BY <1>1, <1>2 DEF Typed
<1>9. Typed'
  <2>1. [a \in Asset |-> NothingSent] \in [Asset -> [Time -> Nat]]
    BY DEF NothingSent
  <2>2. <<>> \in Seq(Asset) /\ [a \in Asset |-> 0] \in [Asset -> Nat]
    OBVIOUS
  <2>3. sent' \in [Key -> [Asset -> [Time -> Nat]]] /\ peak' \in [Key -> [Asset -> Nat]]
    BY <1>1, <1>2, <2>1, <2>2 DEF Typed
  <2>4. limitedAssets' \in [Key -> Seq(Asset)] /\ limitedIndex' \in [Key -> [Asset -> Nat]]
    BY <1>1, <1>2, <1>7, <2>2 DEF Typed
  <2>5. allowance' \in [Key -> [Asset -> [limit: Nat, spent: Nat, windowStart: Nat]]]
    BY <1>1, <1>2, <1>7 DEF Typed
  <2> QED BY <1>1, <1>2, <1>4, <2>3, <2>4, <2>5 DEF Typed
<1>10. ArraysMatchMappings'
  <2>1. IsIndexOf(limitedIndex'[k], limitedAssets'[k], Asset)
    BY <1>6, <1>8 DEF IsIndexOf
  <2>2. \A j \in Key : IsIndexOf(limitedIndex'[j], limitedAssets'[j], Asset)
    BY <1>1, <1>8, <2>1 DEF ArraysMatchMappings
  <2> QED BY <1>4, <2>2 DEF ArraysMatchMappings, IsIndexOf
<1>11. ListedIffLimited'
  <2> SUFFICES ASSUME NEW j \in Key, NEW a \in Asset
               PROVE  /\ limitedIndex'[j][a] # 0 <=> allowance'[j][a].limit # 0
                      /\ ~IsSigner(j)' => limitedIndex'[j][a] = 0
    BY DEF ListedIffLimited
  <2>1. CASE j = k
    BY <1>6, <1>8, <2>1
  <2>2. CASE j # k
    BY <1>1, <1>4, <1>8, <2>2 DEF ListedIffLimited, IsSigner
  <2> QED BY <2>1, <2>2
<1> QED BY <1>9, <1>10, <1>11, LooseNext DEF Loose

LEMMA SetLimitKeeps ==
  ASSUME IInv, NEW k \in Key, NEW a \in Asset, NEW limit \in Limit, SetLimit(k, a, limit)
  PROVE  IInv'
<1> DEFINE list == limitedAssets[k]
           index == limitedIndex[k]
<1>1. Typed /\ ArraysMatchMappings /\ ListedIffLimited
  BY LooseIsInvariant DEF Loose
<1>2. /\ signerIndex[k] # 0
      /\ allowance' = [allowance EXCEPT ![k] = [allowance[k] EXCEPT ![a] = [@ EXCEPT !.limit = limit]]]
      /\ peak' = [peak EXCEPT ![k] = [peak[k] EXCEPT ![a] = IF limit > @ THEN limit ELSE @]]
      /\ UNCHANGED <<now, signerIds, signerIndex, sent>>
  BY DEF SetLimit, IsSigner
<1>3. limit \in Nat
  BY KeyRingAssumption
<1>4. list \in Seq(Asset) /\ index \in [Asset -> Nat] /\ IsIndexOf(index, list, Asset)
  BY <1>1 DEF Typed, ArraysMatchMappings
\* Whatever the case, the asset is listed from here on exactly when the limit is not zero.
<1>5. /\ \A j \in Key : j # k => limitedAssets'[j] = limitedAssets[j] /\ limitedIndex'[j] = limitedIndex[j]
      /\ limitedAssets' \in [Key -> Seq(Asset)] /\ limitedIndex' \in [Key -> [Asset -> Nat]]
      /\ IsIndexOf(limitedIndex'[k], limitedAssets'[k], Asset)
      /\ \A b \in Asset : IF b = a THEN limitedIndex'[k][b] # 0 <=> limit # 0
                                   ELSE limitedIndex'[k][b] # 0 <=> index[b] # 0
  <2>1. CASE limit = 0 /\ index[a] # 0 /\ Unlist(k, a)
    <3>1. /\ limitedAssets' = [limitedAssets EXCEPT ![k] = RemoveAt(list, index[a])]
          /\ limitedIndex' = [limitedIndex EXCEPT ![k] = Reindex(list, index, a)]
      BY <2>1 DEF Unlist
    <3>2. /\ RemoveAt(list, index[a]) \in Seq(Asset) /\ Reindex(list, index, a) \in [Asset -> Nat]
          /\ IsIndexOf(Reindex(list, index, a), RemoveAt(list, index[a]), Asset)
          /\ \A b \in Asset : Reindex(list, index, a)[b] = 0 <=> b = a \/ index[b] = 0
      BY <1>4, <2>1, RemovalKeepsIndex
    <3> DEFINE l == RemoveAt(list, index[a])
               f == Reindex(list, index, a)
    <3> HIDE DEF l, f, list, index
    <3>3. /\ limitedAssets' = [limitedAssets EXCEPT ![k] = l] /\ limitedIndex' = [limitedIndex EXCEPT ![k] = f]
          /\ l \in Seq(Asset) /\ f \in [Asset -> Nat] /\ IsIndexOf(f, l, Asset)
          /\ \A b \in Asset : f[b] = 0 <=> b = a \/ index[b] = 0
      BY <3>1, <3>2 DEF l, f
    <3>4. limitedAssets'[k] = l /\ limitedIndex'[k] = f
      BY <1>1, <3>3 DEF Typed
    <3> QED BY <1>1, <2>1, <3>3, <3>4 DEF Typed
  <2>2. CASE limit # 0 /\ index[a] = 0 /\ List(k, a)
    <3> DEFINE l == Append(list, a)
               f == [index EXCEPT ![a] = Len(list) + 1]
    <3>1. limitedAssets' = [limitedAssets EXCEPT ![k] = l] /\ limitedIndex' = [limitedIndex EXCEPT ![k] = f]
      BY <2>2 DEF List
    <3>2. l \in Seq(Asset) /\ f \in [Asset -> Nat] /\ IsIndexOf(f, l, Asset)
      BY <1>4, <2>2, AppendKeepsIndex
    <3>3. \A b \in Asset : IF b = a THEN f[b] # 0 ELSE f[b] = index[b]
      BY <1>4
    <3> HIDE DEF l, f, list, index
    <3>4. limitedAssets'[k] = l /\ limitedIndex'[k] = f
      BY <1>1, <3>1 DEF Typed
    <3> QED BY <1>1, <2>2, <3>1, <3>2, <3>3, <3>4 DEF Typed
  <2>3. CASE (limit = 0) = ~(index[a] # 0) /\ UNCHANGED <<limitedAssets, limitedIndex>>
    BY <1>1, <1>4, <2>3 DEF Typed
  <2> QED BY <2>1, <2>2, <2>3 DEF SetLimit
<1>6. /\ allowance' \in [Key -> [Asset -> [limit: Nat, spent: Nat, windowStart: Nat]]]
      /\ allowance'[k][a].limit = limit
      /\ \A j \in Key, b \in Asset : j # k \/ b # a => allowance'[j][b] = allowance[j][b]
  <2> DEFINE al == [allowance[k][a] EXCEPT !.limit = limit]
             als == [allowance[k] EXCEPT ![a] = al]
  <2>1. allowance[k] \in [Asset -> [limit: Nat, spent: Nat, windowStart: Nat]]
    BY <1>1 DEF Typed
  <2>2. al \in [limit: Nat, spent: Nat, windowStart: Nat] /\ al.limit = limit
    BY <1>3, <2>1
  <2>3. allowance' = [allowance EXCEPT ![k] = als]
    BY <1>2
  <2> HIDE DEF al
  <2>4. /\ als \in [Asset -> [limit: Nat, spent: Nat, windowStart: Nat]] /\ als[a] = al
        /\ \A b \in Asset : b # a => als[b] = allowance[k][b]
    BY <2>1, <2>2
  <2> HIDE DEF als
  <2> QED BY <1>1, <2>2, <2>3, <2>4 DEF Typed
<1>7. peak' \in [Key -> [Asset -> Nat]]
  BY <1>1, <1>2, <1>3 DEF Typed
<1>8. Typed'
  BY <1>1, <1>2, <1>5, <1>6, <1>7 DEF Typed
<1>9. ArraysMatchMappings'
  <2>1. IsIndexOf(signerIndex, signerIds, Key)'
    BY <1>1, <1>2 DEF ArraysMatchMappings, IsIndexOf
  <2>2. \A j \in Key : IsIndexOf(limitedIndex'[j], limitedAssets'[j], Asset)
    BY <1>1, <1>5 DEF ArraysMatchMappings
  <2> QED BY <2>1, <2>2 DEF ArraysMatchMappings, IsIndexOf
<1>10. ListedIffLimited'
  <2> SUFFICES ASSUME NEW j \in Key, NEW b \in Asset
               PROVE  /\ limitedIndex'[j][b] # 0 <=> allowance'[j][b].limit # 0
                      /\ ~IsSigner(j)' => limitedIndex'[j][b] = 0
    BY DEF ListedIffLimited
  <2>1. CASE j # k
    <3>1. allowance'[j][b] = allowance[j][b] /\ limitedIndex'[j][b] = limitedIndex[j][b]
      BY <1>5, <1>6, <2>1
    <3>2. IsSigner(j)' = IsSigner(j)
      BY <1>2 DEF IsSigner
    <3> QED BY <1>1, <3>1, <3>2 DEF ListedIffLimited
  <2>2. CASE j = k
    <3>1. IsSigner(k)'
      BY <1>2 DEF IsSigner
    <3>2. limitedIndex[k][b] # 0 <=> allowance[k][b].limit # 0
      BY <1>1 DEF ListedIffLimited
    <3>3. limitedIndex'[k][b] # 0 <=> allowance'[k][b].limit # 0
      <4>1. CASE b = a
        BY <1>5, <1>6, <4>1
      <4>2. CASE b # a
        BY <1>5, <1>6, <3>2, <4>2
      <4> QED BY <4>1, <4>2
    <3> QED BY <2>2, <3>1, <3>3
  <2> QED BY <2>1, <2>2
<1> QED BY <1>8, <1>9, <1>10, LooseNext DEF Loose

LEMMA SpendKeeps ==
  ASSUME IInv, NEW k \in Key, NEW a \in Asset, NEW n \in Amount, Spend(k, a, n)
  PROVE  IInv'
<1> DEFINE cur == Current(allowance[k][a])
           al == [cur EXCEPT !.spent = @ + n]
<1>1. Typed /\ ArraysMatchMappings /\ ListedIffLimited
  BY LooseIsInvariant DEF Loose
<1>2. n \in Nat /\ now \in Nat /\ WINDOW \in Nat
  BY <1>1, KeyRingAssumption DEF Typed, Time
<1>3. allowance[k][a] \in [limit: Nat, spent: Nat, windowStart: Nat]
  BY <1>1 DEF Typed
<1>4. cur \in [limit: Nat, spent: Nat, windowStart: Nat] /\ cur.limit = allowance[k][a].limit
  BY <1>2, <1>3 DEF Current
<1>5. /\ allowance' = [allowance EXCEPT ![k] = [allowance[k] EXCEPT ![a] = al]]
      /\ sent' = [sent EXCEPT ![k] = [sent[k] EXCEPT ![a] = [sent[k][a] EXCEPT ![now] = @ + n]]]
      /\ UNCHANGED <<now, signerIds, signerIndex, limitedAssets, limitedIndex, peak>>
  BY DEF Spend
<1> HIDE DEF cur
<1>6. al \in [limit: Nat, spent: Nat, windowStart: Nat] /\ al.limit = allowance[k][a].limit
  BY <1>2, <1>4
<1> HIDE DEF al
<1>7. /\ allowance' \in [Key -> [Asset -> [limit: Nat, spent: Nat, windowStart: Nat]]]
      /\ \A j \in Key, b \in Asset : allowance'[j][b].limit = allowance[j][b].limit
  <2> DEFINE als == [allowance[k] EXCEPT ![a] = al]
  <2>1. /\ als \in [Asset -> [limit: Nat, spent: Nat, windowStart: Nat]]
        /\ \A b \in Asset : als[b].limit = allowance[k][b].limit
    BY <1>1, <1>6 DEF Typed
  <2> HIDE DEF als
  <2>2. allowance' = [allowance EXCEPT ![k] = als]
    BY <1>5 DEF als
  <2> QED BY <1>1, <2>1, <2>2 DEF Typed
<1>8. sent' \in [Key -> [Asset -> [Time -> Nat]]]
  <2> DEFINE day == [sent[k][a] EXCEPT ![now] = @ + n]
  <2>1. day \in [Time -> Nat]
    BY <1>1, <1>2 DEF Typed
  <2>2. sent' = [sent EXCEPT ![k] = [sent[k] EXCEPT ![a] = day]]
    BY <1>5
  <2> HIDE DEF day
  <2> QED BY <1>1, <2>1, <2>2 DEF Typed
<1>9. Typed'
  BY <1>1, <1>5, <1>7, <1>8 DEF Typed
<1>10. ArraysMatchMappings' /\ ListedIffLimited'
  BY <1>1, <1>5, <1>7 DEF ArraysMatchMappings, IsIndexOf, ListedIffLimited, IsSigner
<1> QED BY <1>9, <1>10, LooseNext DEF Loose

LEMMA TickKeeps ==
  ASSUME IInv, Tick
  PROVE  IInv'
<1>1. now' \in Time
  BY KeyRingAssumption DEF IInv, TypeOK, Tick, Time
<1> QED BY <1>1 DEF IInv, Tick, TypeOK, ArraysMatchMappings, IsIndexOf, ListedIffLimited, IsSigner

LEMMA StepKeeps == IInv /\ [Next]_vars => IInv'
<1> SUFFICES ASSUME IInv, [Next]_vars PROVE IInv'
  OBVIOUS
<1>1. CASE UNCHANGED vars
  BY <1>1 DEF vars, IInv, TypeOK, ArraysMatchMappings, IsIndexOf, ListedIffLimited, IsSigner
<1>2. CASE Next
  BY <1>2, AddSignerKeeps, RemoveSignerKeeps, SetLimitKeeps, SpendKeeps, TickKeeps DEF Next
<1> QED BY <1>1, <1>2

LEMMA RingInvariant == Spec => []IInv
  BY InitHolds, StepKeeps, PTL DEF Spec

-----------------------------------------------------------------------------
(***************************************************************************)
(* Sums over finite sets.  The library states induction for a predicate    *)
(* that is a parameter, which no backend can use; for a set of numbers it  *)
(* follows from the least element of what is left out.                     *)
(***************************************************************************)
Less == OpToRel(<, Nat)
LEMMA LessPairs == \A x, y \in Nat : <<x, y>> \in Less <=> x < y
  BY DEF Less, OpToRel

\* A set of numbers has a least one.
LEMMA NatMin ==
  ASSUME NEW T, T \subseteq Nat, T # {}
  PROVE  \E x \in T : \A y \in T : x <= y
<1>1. IsWellFoundedOn(Less, Nat)
  BY NatLessThanWellFounded DEF Less
<1>2. PICK x \in T : \A y \in T : <<y, x>> \notin Less
  BY <1>1, WFMin
<1>3. ASSUME NEW y \in T PROVE x <= y
  <2>1. x \in Nat /\ y \in Nat
    OBVIOUS
  <2>2. ~(y < x)
    BY <2>1, <1>2, LessPairs
  <2> QED BY <2>1, <2>2
<1> QED BY <1>3

LEMMA NatInd ==
  ASSUME NEW S, 0 \in S, \A n \in S : n + 1 \in S
  PROVE  Nat \subseteq S
<1> SUFFICES ASSUME Nat \ S # {} PROVE FALSE
  OBVIOUS
<1>1. PICK x \in Nat \ S : \A y \in Nat \ S : x <= y
  BY NatMin
<1>2. x \in Nat /\ x # 0 /\ x - 1 \in Nat /\ x - 1 < x
  BY <1>1
<1>3. x - 1 \in S
  BY <1>1, <1>2
<1>4. (x - 1) + 1 \in S
  BY <1>3
<1> QED BY <1>2, <1>4

\* MapThenSumSet takes an element the CHOOSE picks, and sums the others with the
\* function it chooses for all subsets: g, which has to be shown to exist.
Pick(s) == CHOOSE x \in s : TRUE
SumOf(f, g, s) == IF s = {} THEN 0 ELSE f[Pick(s)] + g[s \ {Pick(s)}]
Sums(f, S) == CHOOSE g : g = [s \in SUBSET S |-> SumOf(f, g, s)]
Total(f, S) == MapThenSumSet(LAMBDA t : f[t], S)

LEMMA TotalIs ==
  ASSUME NEW f, NEW S
  PROVE  Total(f, S) = Sums(f, S)[S]
  BY DEF Total, MapThenSumSet, MapThenFoldSet, Sums, SumOf, Pick

LEMMA SmallerSubset ==
  ASSUME NEW S, IsFiniteSet(S), NEW s \in SUBSET S, NEW x \in s
  PROVE  /\ Cardinality(s) \in Nat \ {0} /\ Cardinality(s \ {x}) = Cardinality(s) - 1
         /\ s \ {x} \in SUBSET S
<1>1. IsFiniteSet(s)
  BY FS_Subset
<1>2. Cardinality(s \ {x}) = Cardinality(s) - 1 /\ IsFiniteSet(s \ {x})
  BY <1>1, FS_RemoveElement
<1>3. Cardinality(s) \in Nat /\ Cardinality(s \ {x}) \in Nat
  BY <1>1, <1>2, FS_CardinalityType
<1> QED BY <1>2, <1>3

\* On the subsets of at most n elements, for every n in turn.
LEMMA SumsExist ==
  ASSUME NEW f, NEW S, IsFiniteSet(S)
  PROVE  Sums(f, S) = [s \in SUBSET S |-> SumOf(f, Sums(f, S), s)]
<1> DEFINE Small(n) == {s \in SUBSET S : Cardinality(s) <= n}
           N == {n \in Nat : \E g : g = [s \in Small(n) |-> SumOf(f, g, s)]}
<1>1. 0 \in N
  <2> DEFINE g == [s \in Small(0) |-> 0]
  <2>1. \A s \in Small(0) : s = {}
    BY FS_Subset, FS_EmptySet, FS_CardinalityType
  <2>2. \A s \in Small(0) : SumOf(f, g, s) = 0
    BY <2>1 DEF SumOf
  <2>3. g = [s \in Small(0) |-> SumOf(f, g, s)]
    BY <2>2
  <2> QED BY <2>3
<1>2. ASSUME NEW n \in N PROVE n + 1 \in N
  <2>1. PICK g : g = [s \in Small(n) |-> SumOf(f, g, s)]
    OBVIOUS
  <2> DEFINE h == [s \in Small(n + 1) |-> SumOf(f, g, s)]
  <2>2. Small(n) \subseteq Small(n + 1) /\ n + 1 \in Nat
    BY FS_Subset, FS_CardinalityType
  <2>3. \A s \in Small(n) : h[s] = g[s]
    BY <2>1, <2>2
  <2>4. ASSUME NEW s \in Small(n + 1) PROVE SumOf(f, h, s) = SumOf(f, g, s)
    <3>1. CASE s = {}
      BY <3>1 DEF SumOf
    <3>2. CASE s # {}
      <4>1. Pick(s) \in s
        BY <3>2 DEF Pick
      <4>2. s \ {Pick(s)} \in Small(n)
        BY <4>1, SmallerSubset
      <4>3. h[s \ {Pick(s)}] = g[s \ {Pick(s)}]
        BY <2>3, <4>2
      <4> HIDE DEF h
      <4> QED BY <4>3 DEF SumOf
    <3> QED BY <3>1, <3>2
  <2>5. h = [s \in Small(n + 1) |-> SumOf(f, h, s)]
    <3>1. \A s \in Small(n + 1) : h[s] = SumOf(f, h, s)
      BY <2>4
    <3> QED BY <3>1
  <2> QED BY <2>2, <2>5
<1>3. Cardinality(S) \in N
  BY <1>1, <1>2, NatInd, FS_CardinalityType
<1>4. Small(Cardinality(S)) = SUBSET S
  BY FS_Subset
<1>5. \E g : g = [s \in SUBSET S |-> SumOf(f, g, s)]
  BY <1>3, <1>4
<1> QED BY <1>5 DEF Sums

LEMMA SumAt ==
  ASSUME NEW f, NEW S, IsFiniteSet(S), NEW s \in SUBSET S
  PROVE  Sums(f, S)[s] = SumOf(f, Sums(f, S), s)
<1> DEFINE g == Sums(f, S)
<1>1. g = [r \in SUBSET S |-> SumOf(f, g, r)]
  BY SumsExist
<1> HIDE DEF g
<1>2. g[s] = SumOf(f, g, s)
  BY <1>1
<1> QED BY <1>2 DEF g

\* Over the subsets of a set, and over the subsets of a subset: the same sums.
LEMMA SumsAgree ==
  ASSUME NEW f, NEW S, IsFiniteSet(S), NEW T \in SUBSET S
  PROVE  Sums(f, S)[T] = Sums(f, T)[T]
<1> DEFINE g == Sums(f, S)
           h == Sums(f, T)
           N == {n \in Nat : \A s \in SUBSET T : Cardinality(s) <= n => g[s] = h[s]}
<1>0. IsFiniteSet(T) /\ (\A s \in SUBSET S : g[s] = SumOf(f, g, s)) /\ (\A s \in SUBSET T : h[s] = SumOf(f, h, s))
  BY SumAt, FS_Subset
<1> HIDE DEF g, h
<1>1. 0 \in N
  <2>1. \A s \in SUBSET T : Cardinality(s) <= 0 => s = {}
    BY <1>0, FS_Subset, FS_EmptySet, FS_CardinalityType
  <2>2. {} \in SUBSET T /\ {} \in SUBSET S
    OBVIOUS
  <2>3. g[{}] = 0 /\ h[{}] = 0
    BY <1>0, <2>2 DEF SumOf
  <2> QED BY <2>1, <2>3
<1>2. ASSUME NEW n \in N PROVE n + 1 \in N
  <2> SUFFICES ASSUME NEW s \in SUBSET T, Cardinality(s) <= n + 1 PROVE g[s] = h[s]
    OBVIOUS
  <2>1. CASE s = {}
    BY <1>0, <2>1 DEF SumOf
  <2>2. CASE s # {}
    <3>1. Pick(s) \in s
      BY <2>2 DEF Pick
    <3>2. s \ {Pick(s)} \in SUBSET T /\ Cardinality(s \ {Pick(s)}) <= n
      BY <1>0, <3>1, SmallerSubset
    <3>3. g[s \ {Pick(s)}] = h[s \ {Pick(s)}]
      BY <3>2
    <3>4. SumOf(f, g, s) = SumOf(f, h, s)
      BY <3>3 DEF SumOf
    <3>5. g[s] = SumOf(f, g, s) /\ h[s] = SumOf(f, h, s)
      BY <1>0
    <3> QED BY <3>4, <3>5
  <2> QED BY <2>1, <2>2
<1>3. Cardinality(T) \in N
  BY <1>0, <1>1, <1>2, NatInd, FS_CardinalityType
<1>4. g[T] = h[T]
  <2>1. T \in SUBSET T /\ Cardinality(T) <= Cardinality(T)
    BY <1>3
  <2> QED BY <1>3, <2>1
<1> QED BY <1>4 DEF g, h

LEMMA TotalPick ==
  ASSUME NEW f, NEW S, IsFiniteSet(S), S # {}
  PROVE  Pick(S) \in S /\ Total(f, S) = f[Pick(S)] + Total(f, S \ {Pick(S)})
<1>1. Pick(S) \in S
  BY DEF Pick
<1>2. Sums(f, S)[S] = SumOf(f, Sums(f, S), S)
  BY SumAt
<1>3. Sums(f, S)[S] = f[Pick(S)] + Sums(f, S)[S \ {Pick(S)}]
  BY <1>2 DEF SumOf
<1> QED BY <1>1, <1>3, SumsAgree, TotalIs

LEMMA TotalEmpty ==
  ASSUME NEW f PROVE Total(f, {}) = 0
<1>1. Sums(f, {})[{}] = SumOf(f, Sums(f, {}), {})
  BY SumAt, FS_EmptySet
<1> QED BY <1>1, TotalIs DEF SumOf

\* Any element may be taken first, not only the one the CHOOSE picks.
LEMMA TotalRemove ==
  ASSUME NEW S, IsFiniteSet(S), NEW f \in [S -> Nat]
  PROVE  \A s \in SUBSET S : /\ Total(f, s) \in Nat
                             /\ \A x \in s : Total(f, s) = f[x] + Total(f, s \ {x})
<1> DEFINE Ok(s) == Total(f, s) \in Nat /\ \A x \in s : Total(f, s) = f[x] + Total(f, s \ {x})
           N == {n \in Nat : \A s \in SUBSET S : Cardinality(s) <= n => Ok(s)}
<1>1. 0 \in N
  <2>1. \A s \in SUBSET S : Cardinality(s) <= 0 => s = {}
    BY FS_Subset, FS_EmptySet, FS_CardinalityType
  <2>2. Ok({})
    BY TotalEmpty
  <2> HIDE DEF Ok
  <2> QED BY <2>1, <2>2
<1>2. ASSUME NEW n \in N PROVE n + 1 \in N
  <2> SUFFICES ASSUME NEW s \in SUBSET S, Cardinality(s) <= n + 1 PROVE Ok(s)
    OBVIOUS
  <2>1. CASE s = {}
    BY <2>1, TotalEmpty
  <2>2. CASE s # {}
    <3> DEFINE p == Pick(s)
    <3>0. IsFiniteSet(s)
      BY FS_Subset
    <3>1. p \in s /\ Total(f, s) = f[p] + Total(f, s \ {p})
      BY <2>2, <3>0, TotalPick
    <3> HIDE DEF p
    <3>2. \A x \in s : s \ {x} \in SUBSET S /\ Cardinality(s \ {x}) <= n
      BY SmallerSubset
    <3>3. \A x \in s : Ok(s \ {x})
      BY <3>2
    <3>4. \A x \in s : f[x] \in Nat
      OBVIOUS
    <3>5. Total(f, s) \in Nat
      BY <3>1, <3>3, <3>4
    <3>6. ASSUME NEW x \in s, x # p PROVE Total(f, s) = f[x] + Total(f, s \ {x})
      <4>1. Total(f, s \ {p}) = f[x] + Total(f, (s \ {p}) \ {x})
        BY <3>1, <3>3, <3>6
      <4>2. Total(f, s \ {x}) = f[p] + Total(f, (s \ {x}) \ {p})
        BY <3>1, <3>3, <3>6
      <4>3. (s \ {p}) \ {x} = (s \ {x}) \ {p}
        OBVIOUS
      <4>4. Total(f, (s \ {x}) \ {p}) \in Nat
        <5>1. (s \ {x}) \ {p} \in SUBSET S /\ Cardinality((s \ {x}) \ {p}) <= n
          <6>1. s \ {x} \in SUBSET S /\ p \in s \ {x} /\ Cardinality(s \ {x}) <= n
            BY <3>1, <3>2, <3>6
          <6> QED BY <6>1, SmallerSubset
        <5> QED BY <5>1
      <4> QED BY <3>1, <3>4, <3>6, <4>1, <4>2, <4>3, <4>4
    <3> QED BY <3>1, <3>5, <3>6
  <2> QED BY <2>1, <2>2
<1>3. Cardinality(S) \in N
  BY <1>1, <1>2, NatInd, FS_CardinalityType
<1>4. \A s \in SUBSET S : Cardinality(s) <= Cardinality(S)
  BY FS_Subset
<1>5. \A s \in SUBSET S : Ok(s)
  BY <1>3, <1>4
<1> QED BY <1>5

\* The sum over two sets with nothing in common.
LEMMA TotalDisjoint ==
  ASSUME NEW S, IsFiniteSet(S), NEW f \in [S -> Nat], NEW A \in SUBSET S
  PROVE  \A B \in SUBSET S : A \cap B = {} => Total(f, A \cup B) = Total(f, A) + Total(f, B)
<1> DEFINE Ok(B) == A \cap B = {} => Total(f, A \cup B) = Total(f, A) + Total(f, B)
           N == {n \in Nat : \A B \in SUBSET S : Cardinality(B) <= n => Ok(B)}
<1>0. \A s \in SUBSET S : Total(f, s) \in Nat
  BY TotalRemove
<1>1. 0 \in N
  <2>1. \A s \in SUBSET S : Cardinality(s) <= 0 => s = {}
    BY FS_Subset, FS_EmptySet, FS_CardinalityType
  <2>2. Ok({})
    <3>1. A \cup {} = A
      OBVIOUS
    <3> QED BY <1>0, <3>1, TotalEmpty
  <2> HIDE DEF Ok
  <2> QED BY <2>1, <2>2
<1>2. ASSUME NEW n \in N PROVE n + 1 \in N
  <2> SUFFICES ASSUME NEW B \in SUBSET S, Cardinality(B) <= n + 1, A \cap B = {}
               PROVE Total(f, A \cup B) = Total(f, A) + Total(f, B)
    OBVIOUS
  <2>1. CASE B = {}
    <3>1. A \cup B = A
      BY <2>1
    <3> QED BY <1>0, <2>1, <3>1, TotalEmpty
  <2>2. CASE B # {}
    <3>1. PICK x \in B : TRUE
      BY <2>2
    <3> DEFINE C == B \ {x}
    <3>2. C \in SUBSET S /\ Cardinality(C) <= n /\ A \cap C = {}
      BY SmallerSubset
    <3>3. Total(f, A \cup C) = Total(f, A) + Total(f, C)
      BY <3>2
    <3>4. Total(f, B) = f[x] + Total(f, C)
      BY TotalRemove
    <3>5. (A \cup B) \ {x} = A \cup C /\ A \cup B \in SUBSET S /\ x \in A \cup B
      OBVIOUS
    <3>6. Total(f, A \cup B) = f[x] + Total(f, A \cup C)
      BY <3>5, TotalRemove
    <3>7. f[x] \in Nat
      OBVIOUS
    <3> HIDE DEF C
    <3> QED BY <1>0, <3>2, <3>3, <3>4, <3>6, <3>7
  <2> QED BY <2>1, <2>2
<1>3. Cardinality(S) \in N
  BY <1>1, <1>2, NatInd, FS_CardinalityType
<1>4. \A s \in SUBSET S : Cardinality(s) <= Cardinality(S)
  BY FS_Subset
<1> QED BY <1>3, <1>4

LEMMA TotalMonotone ==
  ASSUME NEW S, IsFiniteSet(S), NEW f \in [S -> Nat], NEW A \in SUBSET S, NEW B \in SUBSET A
  PROVE  Total(f, B) <= Total(f, A)
<1>1. B \cup (A \ B) = A /\ B \cap (A \ B) = {} /\ A \ B \in SUBSET S /\ B \in SUBSET S
  OBVIOUS
<1>2. Total(f, A) = Total(f, B) + Total(f, A \ B)
  BY <1>1, TotalDisjoint
<1>3. Total(f, B) \in Nat /\ Total(f, A \ B) \in Nat
  BY <1>1, TotalRemove
<1> QED BY <1>2, <1>3

\* The sum depends on what is summed only.
LEMMA TotalSame ==
  ASSUME NEW S, IsFiniteSet(S), NEW f \in [S -> Nat], NEW g \in [S -> Nat]
  PROVE  \A A \in SUBSET S : (\A x \in A : f[x] = g[x]) => Total(f, A) = Total(g, A)
<1> DEFINE Ok(A) == (\A x \in A : f[x] = g[x]) => Total(f, A) = Total(g, A)
           N == {n \in Nat : \A A \in SUBSET S : Cardinality(A) <= n => Ok(A)}
<1>1. 0 \in N
  <2>1. \A s \in SUBSET S : Cardinality(s) <= 0 => s = {}
    BY FS_Subset, FS_EmptySet, FS_CardinalityType
  <2>2. Ok({})
    BY TotalEmpty
  <2> HIDE DEF Ok
  <2> QED BY <2>1, <2>2
<1>2. ASSUME NEW n \in N PROVE n + 1 \in N
  <2> SUFFICES ASSUME NEW A \in SUBSET S, Cardinality(A) <= n + 1, \A x \in A : f[x] = g[x]
               PROVE Total(f, A) = Total(g, A)
    OBVIOUS
  <2>1. CASE A = {}
    BY <2>1, TotalEmpty
  <2>2. CASE A # {}
    <3>1. PICK x \in A : TRUE
      BY <2>2
    <3>2. A \ {x} \in SUBSET S /\ Cardinality(A \ {x}) <= n
      BY SmallerSubset
    <3>3. Total(f, A \ {x}) = Total(g, A \ {x})
      BY <3>2
    <3>4. Total(f, A) = f[x] + Total(f, A \ {x}) /\ Total(g, A) = g[x] + Total(g, A \ {x})
      BY TotalRemove
    <3> QED BY <3>3, <3>4
  <2> QED BY <2>1, <2>2
<1>3. Cardinality(S) \in N
  BY <1>1, <1>2, NatInd, FS_CardinalityType
<1>4. \A s \in SUBSET S : Cardinality(s) <= Cardinality(S)
  BY FS_Subset
<1> QED BY <1>3, <1>4

LEMMA TotalUpdate ==
  ASSUME NEW S, IsFiniteSet(S), NEW f \in [S -> Nat], NEW g \in [S -> Nat],
         NEW A \in SUBSET S, NEW y \in A, NEW n \in Nat,
         g[y] = f[y] + n, \A x \in A \ {y} : f[x] = g[x]
  PROVE  Total(g, A) = Total(f, A) + n
<1>1. Total(g, A \ {y}) = Total(f, A \ {y})
  BY TotalSame
<1>2. Total(g, A) = g[y] + Total(g, A \ {y}) /\ Total(f, A) = f[y] + Total(f, A \ {y})
  BY TotalRemove
<1>3. Total(f, A \ {y}) \in Nat /\ f[y] \in Nat
  BY TotalRemove
<1> QED BY <1>1, <1>2, <1>3

LEMMA TotalZero ==
  ASSUME NEW S, IsFiniteSet(S), NEW f \in [S -> Nat]
  PROVE  \A A \in SUBSET S : (\A x \in A : f[x] = 0) => Total(f, A) = 0
<1> DEFINE Ok(A) == (\A x \in A : f[x] = 0) => Total(f, A) = 0
           N == {n \in Nat : \A A \in SUBSET S : Cardinality(A) <= n => Ok(A)}
<1>1. 0 \in N
  <2>1. \A s \in SUBSET S : Cardinality(s) <= 0 => s = {}
    BY FS_Subset, FS_EmptySet, FS_CardinalityType
  <2>2. Ok({})
    BY TotalEmpty
  <2> HIDE DEF Ok
  <2> QED BY <2>1, <2>2
<1>2. ASSUME NEW n \in N PROVE n + 1 \in N
  <2> SUFFICES ASSUME NEW A \in SUBSET S, Cardinality(A) <= n + 1, \A x \in A : f[x] = 0
               PROVE Total(f, A) = 0
    OBVIOUS
  <2>1. CASE A = {}
    BY <2>1, TotalEmpty
  <2>2. CASE A # {}
    <3>1. PICK x \in A : TRUE
      BY <2>2
    <3>2. A \ {x} \in SUBSET S /\ Cardinality(A \ {x}) <= n
      BY SmallerSubset
    <3>3. Total(f, A \ {x}) = 0
      BY <3>2
    <3>4. Total(f, A) = f[x] + Total(f, A \ {x})
      BY TotalRemove
    <3> QED BY <3>3, <3>4
  <2> QED BY <2>1, <2>2
<1>3. Cardinality(S) \in N
  BY <1>1, <1>2, NatInd, FS_CardinalityType
<1>4. \A s \in SUBSET S : Cardinality(s) <= Cardinality(S)
  BY FS_Subset
<1> QED BY <1>3, <1>4

-----------------------------------------------------------------------------
(***************************************************************************)
(* What one allowance lets through, over time.                             *)
(***************************************************************************)
From(s) == {t \in Time : s <= t}
Between(s, e) == {t \in Time : s <= t /\ t <= e}

\* An allowance, what it let through and its highest limit.  The counter covers
\* what left since the window began, so the window is within the highest limit;
\* nothing left later than the window reaches.  Any interval no longer than a
\* window that ends before this one began is within the limit too, as it was
\* when this window began and the interval was part of the last one.
Meter(al, f, p) ==
  /\ al.limit <= p
  /\ \A u \in From(al.windowStart + WINDOW) : f[u] = 0
  /\ Total(f, From(al.windowStart)) <= al.spent
  /\ Total(f, From(al.windowStart)) <= p
  /\ \A t \in Time : al.windowStart < t + WINDOW => Total(f, Between(t, al.windowStart - 1)) <= p
  /\ \A t \in Time : Total(f, Between(t, t + WINDOW - 1)) <= 2 * p

Metered ==
  \A k \in Key, a \in Asset :
    /\ allowance[k][a].windowStart <= now
    /\ Meter(allowance[k][a], sent[k][a], peak[k][a])

Ledger == [Time -> Nat]
Allowances == [limit: Nat, spent: Nat, windowStart: Nat]

LEMMA TimeIs ==
  /\ IsFiniteSet(Time) /\ Time \subseteq Nat /\ WINDOW \in Nat \ {0}
  /\ \A t \in Time : t >= WINDOW
<1>1. WINDOW \in Nat \ {0} /\ MaxTime \in Nat
  BY KeyRingAssumption
<1> QED BY <1>1, FS_Interval DEF Time

LEMMA TotalsAreNumbers ==
  ASSUME NEW f \in Ledger
  PROVE  /\ \A s : From(s) \in SUBSET Time /\ Total(f, From(s)) \in Nat
         /\ \A s, e : Between(s, e) \in SUBSET Time /\ Total(f, Between(s, e)) \in Nat
<1>1. \A A \in SUBSET Time : Total(f, A) \in Nat
  BY TotalRemove, TimeIs DEF Ledger
<1>2. /\ \A s : From(s) \in SUBSET Time
      /\ \A s, e : Between(s, e) \in SUBSET Time
  BY DEF From, Between
<1> QED BY <1>1, <1>2

LEMMA InSpan ==
  /\ \A s : \A u : u \in From(s) <=> u \in Time /\ s <= u
  /\ \A s, e : \A u : u \in Between(s, e) <=> u \in Time /\ s <= u /\ u <= e
  BY DEF From, Between

\* A key without a limit of which nothing was sent.
LEMMA MeterCleared ==
  ASSUME NEW al \in Allowances, al.limit = 0
  PROVE  Meter(al, NothingSent, 0)
<1>1. NothingSent \in Ledger /\ \A t \in Time : NothingSent[t] = 0
  BY DEF NothingSent, Ledger
<1>2. \A A \in SUBSET Time : Total(NothingSent, A) = 0
  BY <1>1, TotalZero, TimeIs DEF Ledger
<1>3. \A s, e : From(s) \in SUBSET Time /\ Between(s, e) \in SUBSET Time
  BY DEF From, Between
<1>4. /\ \A s : Total(NothingSent, From(s)) = 0
      /\ \A s, e : Total(NothingSent, Between(s, e)) = 0
  BY <1>2, <1>3
<1>5. \A s : \A u \in From(s) : NothingSent[u] = 0
  BY <1>1 DEF From
<1> HIDE DEF NothingSent
<1> QED BY <1>4, <1>5 DEF Meter, Allowances

\* _setLimit: the highest limit follows, the window and its counter stay.
LEMMA MeterLimited ==
  ASSUME NEW al \in Allowances, NEW f \in Ledger, NEW p \in Nat, Meter(al, f, p),
         NEW q \in Nat, p <= q, NEW limit \in Nat, limit <= q
  PROVE  Meter([al EXCEPT !.limit = limit], f, q)
<1> DEFINE bl == [al EXCEPT !.limit = limit]
<1>1. bl.limit = limit /\ bl.spent = al.spent /\ bl.windowStart = al.windowStart
  BY DEF Allowances
<1> HIDE DEF bl
<1>2. \A n \in Nat : (n <= p => n <= q) /\ (n <= 2 * p => n <= 2 * q)
  OBVIOUS
<1>3. Total(f, From(al.windowStart)) <= q
  BY <1>2, TotalsAreNumbers DEF Meter
<1>4. ASSUME NEW t \in Time, al.windowStart < t + WINDOW PROVE Total(f, Between(t, al.windowStart - 1)) <= q
  BY <1>2, <1>4, TotalsAreNumbers DEF Meter
<1>5. ASSUME NEW t \in Time PROVE Total(f, Between(t, t + WINDOW - 1)) <= 2 * q
  BY <1>2, TotalsAreNumbers DEF Meter
<1>6. Meter(bl, f, q)
  BY <1>1, <1>3, <1>4, <1>5 DEF Meter
<1> QED BY <1>6 DEF bl

\* When the window is over, _spend begins one: what left in it is nothing yet, and
\* any shorter interval up to now lies in the last one and was within the limit.
LEMMA MeterRenewed ==
  ASSUME NEW al \in Allowances, NEW f \in Ledger, NEW p \in Nat, Meter(al, f, p),
         NEW s \in Time, al.windowStart + WINDOW <= s
  PROVE  Meter([al EXCEPT !.windowStart = s, !.spent = 0], f, p)
<1> DEFINE bl == [al EXCEPT !.windowStart = s, !.spent = 0]
           st == al.windowStart
<1>1. bl.limit = al.limit /\ bl.spent = 0 /\ bl.windowStart = s /\ st \in Nat /\ s \in Nat
  BY TimeIs DEF Allowances
<1> HIDE DEF bl
<1>2. From(s) \subseteq From(st + WINDOW) /\ From(s + WINDOW) \subseteq From(st + WINDOW)
      /\ From(s) \in SUBSET Time
  <2>1. s + WINDOW \in Nat /\ st + WINDOW \in Nat /\ st + WINDOW <= s + WINDOW
    BY <1>1, TimeIs
  <2> HIDE DEF st
  <2>2. \A u \in Time : (s <= u => st + WINDOW <= u) /\ (s + WINDOW <= u => st + WINDOW <= u)
    <3>1. st + WINDOW <= s
      BY DEF st
    <3> QED BY <1>1, <2>1, <3>1, TimeIs
  <2> QED BY <2>2, InSpan
<1>3. Total(f, From(s)) = 0
  <2>1. \A u \in From(s) : f[u] = 0
    BY <1>2 DEF Meter
  <2> QED BY <1>2, <2>1, TotalZero, TimeIs DEF Ledger
<1>4. ASSUME NEW t \in Time, s < t + WINDOW PROVE Total(f, Between(t, s - 1)) <= p
  <2>1. Between(t, s - 1) \subseteq From(st) /\ From(st) \in SUBSET Time
    <3>1. st <= t
      <4>1. st + WINDOW <= s /\ t \in Nat /\ WINDOW \in Nat
        BY TimeIs
      <4> HIDE DEF st
      <4> QED BY <1>1, <1>4, <4>1
    <3>2. \A u \in Time : t <= u => st <= u
      BY <1>1, <3>1, TimeIs
    <3> HIDE DEF st
    <3> QED BY <3>2, InSpan
  <2>2. Total(f, Between(t, s - 1)) <= Total(f, From(st))
    BY <2>1, TotalMonotone, TimeIs DEF Ledger
  <2>3. Total(f, From(st)) <= p /\ Total(f, From(st)) \in Nat /\ Total(f, Between(t, s - 1)) \in Nat
    BY TotalsAreNumbers DEF Meter
  <2> QED BY <2>2, <2>3
<1>5. Meter(bl, f, p)
  BY <1>1, <1>2, <1>3, <1>4 DEF Meter
<1> QED BY <1>5 DEF bl

\* _spend in the window: the amount is counted, and fits what is left of the limit.
LEMMA MeterSpent ==
  ASSUME NEW al \in Allowances, NEW f \in Ledger, NEW p \in Nat, Meter(al, f, p),
         NEW s \in Time, al.windowStart <= s, s < al.windowStart + WINDOW,
         NEW n \in Nat, n # 0, n <= Left(al)
  PROVE  Meter([al EXCEPT !.spent = @ + n], [f EXCEPT ![s] = @ + n], p)
<1> DEFINE bl == [al EXCEPT !.spent = @ + n]
           g == [f EXCEPT ![s] = @ + n]
           st == al.windowStart
<1>1. bl.limit = al.limit /\ bl.spent = al.spent + n /\ bl.windowStart = st
      /\ st \in Nat /\ s \in Nat /\ al.limit \in Nat /\ al.spent \in Nat
  BY TimeIs DEF Allowances
<1>2. g \in Ledger /\ \A u \in Time : u # s => g[u] = f[u]
  BY DEF Ledger
<1>3. \A A \in SUBSET Time : Total(g, A) = IF s \in A THEN Total(f, A) + n ELSE Total(f, A)
  <2> SUFFICES ASSUME NEW A \in SUBSET Time
               PROVE Total(g, A) = IF s \in A THEN Total(f, A) + n ELSE Total(f, A)
    OBVIOUS
  <2>1. CASE s \in A
    <3>1. g[s] = f[s] + n /\ \A u \in A \ {s} : f[u] = g[u]
      BY <1>2 DEF Ledger
    <3> HIDE DEF g
    <3>2. f \in [Time -> Nat] /\ g \in [Time -> Nat] /\ IsFiniteSet(Time)
      BY <1>2, TimeIs DEF Ledger
    <3>3. Total(g, A) = Total(f, A) + n
      BY <2>1, <3>1, <3>2, TotalUpdate
    <3> QED BY <2>1, <3>3
  <2>2. CASE s \notin A
    <3>1. \A u \in A : f[u] = g[u]
      BY <1>2, <2>2
    <3> HIDE DEF g
    <3>2. f \in [Time -> Nat] /\ g \in [Time -> Nat] /\ IsFiniteSet(Time)
      BY <1>2, TimeIs DEF Ledger
    <3>3. Total(f, A) = Total(g, A)
      BY <3>1, <3>2, TotalSame
    <3> QED BY <2>2, <3>3
  <2> QED BY <2>1, <2>2
<1> HIDE DEF bl, g
<1>4. \A t, e : From(t) \in SUBSET Time /\ Between(t, e) \in SUBSET Time
  BY DEF From, Between
<1>5. n + al.spent <= al.limit
  BY <1>1 DEF Left
<1>6. Total(g, From(st)) = Total(f, From(st)) + n
  <2>1. s \in From(st)
    BY DEF From
  <2> QED BY <1>3, <1>4, <2>1
<1>7. Total(g, From(st)) <= al.spent + n /\ Total(g, From(st)) <= p
  <2>1. Total(f, From(st)) <= al.spent /\ Total(f, From(st)) \in Nat /\ al.limit <= p
    BY TotalsAreNumbers DEF Meter
  <2> HIDE DEF st
  <2> QED BY <1>1, <1>5, <1>6, <2>1
<1>8. ASSUME NEW u \in From(st + WINDOW) PROVE g[u] = 0
  <2>1. u \in Time /\ u # s
    BY <1>1, <1>8, TimeIs DEF From
  <2> QED BY <1>2, <1>8, <2>1 DEF Meter
<1>9. ASSUME NEW t \in Time, st < t + WINDOW PROVE Total(g, Between(t, st - 1)) <= p
  <2>1. s \notin Between(t, st - 1)
    BY <1>1, TimeIs DEF Between
  <2>2. Total(g, Between(t, st - 1)) = Total(f, Between(t, st - 1))
    BY <1>3, <1>4, <2>1
  <2> QED BY <1>9, <2>2 DEF Meter
\* An interval the spending is in reaches the window: what lies before it is one
\* limit at most, and what lies in it another.
<1>10. ASSUME NEW t \in Time PROVE Total(g, Between(t, t + WINDOW - 1)) <= 2 * p
  <2> DEFINE day == Between(t, t + WINDOW - 1)
             before == Between(t, st - 1)
  <2>0. t \in Nat /\ WINDOW \in Nat
    BY TimeIs
  <2>1. CASE s \notin day
    BY <1>3, <1>4, <2>1 DEF Meter
  <2>2. CASE s \in day
    <3>1. st < t + WINDOW
      BY <1>1, <2>0, <2>2 DEF Between
    <3>2. Total(g, before) <= p
      BY <1>9, <3>1
    <3>3. before \cap From(st) = {}
      <4>1. \A u \in Time : ~(st <= u /\ u <= st - 1)
        BY <1>1, TimeIs
      <4> QED BY <4>1, InSpan
    <3>4. day \subseteq before \cup From(st)
      <4> SUFFICES ASSUME NEW u \in day, u \notin From(st) PROVE u \in before
        OBVIOUS
      <4>1. u \in Time /\ u \in Nat /\ t <= u
        BY TimeIs DEF Between
      <4>2. u < st
        BY <1>1, <4>1 DEF From
      <4> QED BY <1>1, <4>1, <4>2 DEF Between
    <3>5. before \cup From(st) \in SUBSET Time
      BY <1>4
    <3>6. Total(g, before \cup From(st)) = Total(g, before) + Total(g, From(st))
      <4>1. before \in SUBSET Time /\ From(st) \in SUBSET Time
        BY <1>4
      <4>2. g \in [Time -> Nat] /\ IsFiniteSet(Time)
        BY <1>2, TimeIs DEF Ledger
      <4> HIDE DEF before, st
      <4> QED BY <3>3, <4>1, <4>2, TotalDisjoint
    <3>7. Total(g, day) <= Total(g, before \cup From(st))
      BY <1>2, <3>4, <3>5, TotalMonotone, TimeIs DEF Ledger
    <3>8. Total(g, day) \in Nat /\ Total(g, before) \in Nat /\ Total(g, From(st)) \in Nat
      BY <1>2, TotalsAreNumbers
    <3>9. Total(g, From(st)) <= p
      BY <1>7
    <3>10. Total(g, day) <= 2 * p
      <4> HIDE DEF day, before, st
      <4> QED BY <3>2, <3>6, <3>7, <3>8, <3>9
    <3> QED BY <3>10
  <2> QED BY <2>1, <2>2
<1>11. al.limit <= p
  BY DEF Meter
<1>12. Meter(bl, g, p)
  BY <1>1, <1>7, <1>8, <1>9, <1>10, <1>11 DEF Meter
<1> QED BY <1>12 DEF bl, g

-----------------------------------------------------------------------------
LEMMA InitMetered == Init => Metered
<1> SUFFICES ASSUME Init, NEW k \in Key, NEW a \in Asset
             PROVE  /\ allowance[k][a].windowStart <= now
                    /\ Meter(allowance[k][a], sent[k][a], peak[k][a])
  BY DEF Metered
<1>1. allowance[k][a] = NoAllowance /\ sent[k][a] = NothingSent /\ peak[k][a] = 0 /\ now = WINDOW
  BY DEF Init
<1>2. NoAllowance \in Allowances /\ NoAllowance.limit = 0 /\ NoAllowance.windowStart = 0
  BY DEF NoAllowance, Allowances
<1> QED BY <1>1, <1>2, MeterCleared, TimeIs

LEMMA Types ==
  ASSUME IInv, NEW k \in Key, NEW a \in Asset
  PROVE  /\ allowance[k][a] \in Allowances /\ sent[k][a] \in Ledger /\ peak[k][a] \in Nat
         /\ now \in Time /\ now \in Nat
  BY TimeIs DEF IInv, TypeOK, Allowances, Ledger

LEMMA RemoveSignerMeters ==
  ASSUME IInv, Metered, NEW j \in Key, RemoveSigner(j)
  PROVE  Metered'
<1>1. IInv'
  BY RemoveSignerKeeps
<1> SUFFICES ASSUME NEW k \in Key, NEW a \in Asset
             PROVE  /\ allowance'[k][a].windowStart <= now'
                    /\ Meter(allowance'[k][a], sent'[k][a], peak'[k][a])
  BY DEF Metered
<1>2. TypeOK /\ TypeOK'
  BY <1>1 DEF IInv
<1>3. CASE k = j
  <2>1. sent'[k][a] = NothingSent /\ peak'[k][a] = 0 /\ now' = now
    BY <1>2, <1>3 DEF RemoveSigner, TypeOK
  <2>2. allowance'[k][a] = NoAllowance \/ allowance'[k][a] = allowance[k][a]
    BY <1>2, <1>3 DEF RemoveSigner, TypeOK
  <2>3. allowance'[k][a].windowStart <= now
    <3>1. allowance[k][a].windowStart <= now /\ 0 <= now
      BY Types DEF Metered
    <3> QED BY <2>2, <3>1 DEF NoAllowance
  \* What was listed is cleared, and what was not had no limit.
  <2>4. allowance'[k][a].limit = 0
    <3>1. signerIndex'[k] = 0
      <4>1. signerIds \in Seq(Key) /\ signerIndex \in [Key -> Nat] /\ signerIndex[k] # 0
            /\ signerIndex' = Reindex(signerIds, signerIndex, k)
        BY <1>2, <1>3, TypeOKIsTyped DEF RemoveSigner, IsSigner, Typed
      <4> QED BY <4>1 DEF Reindex
    <3>2. limitedIndex'[k][a] = 0
      BY <1>1, <3>1 DEF IInv, ListedIffLimited, IsSigner
    <3> QED BY <1>1, <3>2 DEF IInv, ListedIffLimited
  <2>5. allowance'[k][a] \in Allowances
    BY <1>2 DEF TypeOK, Allowances
  <2>6. Meter(allowance'[k][a], NothingSent, 0)
    BY <2>4, <2>5, MeterCleared
  <2> QED BY <2>1, <2>3, <2>6
<1>4. CASE k # j
  <2>1. /\ sent'[k][a] = sent[k][a] /\ peak'[k][a] = peak[k][a] /\ now' = now
        /\ allowance'[k][a] = allowance[k][a]
    BY <1>2, <1>4 DEF RemoveSigner, TypeOK
  <2> QED BY <2>1 DEF Metered
<1> QED BY <1>3, <1>4

LEMMA SetLimitMeters ==
  ASSUME IInv, Metered, NEW j \in Key, NEW b \in Asset, NEW limit \in Limit, SetLimit(j, b, limit)
  PROVE  Metered'
<1> SUFFICES ASSUME NEW k \in Key, NEW a \in Asset
             PROVE  /\ allowance'[k][a].windowStart <= now'
                    /\ Meter(allowance'[k][a], sent'[k][a], peak'[k][a])
  BY DEF Metered
<1>1. /\ allowance \in [Key -> [Asset -> Allowances]] /\ peak \in [Key -> [Asset -> Nat]]
      /\ limit \in Nat
  BY KeyRingAssumption DEF IInv, TypeOK, Allowances
<1>2. /\ allowance' = [allowance EXCEPT ![j] = [allowance[j] EXCEPT ![b] = [@ EXCEPT !.limit = limit]]]
      /\ peak' = [peak EXCEPT ![j] = [peak[j] EXCEPT ![b] = IF limit > @ THEN limit ELSE @]]
      /\ sent' = sent /\ now' = now
  BY DEF SetLimit
<1>3. CASE k = j /\ a = b
  <2> DEFINE al == allowance[k][a]
             q == IF limit > peak[k][a] THEN limit ELSE peak[k][a]
  <2>1. allowance'[k][a] = [al EXCEPT !.limit = limit] /\ peak'[k][a] = q
    BY <1>1, <1>2, <1>3
  <2>2. al \in Allowances /\ sent[k][a] \in Ledger /\ peak[k][a] \in Nat
    BY Types
  <2>3. q \in Nat /\ peak[k][a] <= q /\ limit <= q
    BY <1>1, <2>2
  <2>4. al.windowStart <= now /\ Meter(al, sent[k][a], peak[k][a])
    BY DEF Metered
  <2> HIDE DEF al, q
  <2>5. Meter([al EXCEPT !.limit = limit], sent[k][a], q)
    BY <1>1, <2>2, <2>3, <2>4, MeterLimited
  <2>6. [al EXCEPT !.limit = limit].windowStart = al.windowStart
    BY <2>2 DEF Allowances
  <2> QED BY <1>2, <2>1, <2>4, <2>5, <2>6
<1>4. CASE ~(k = j /\ a = b)
  <2>1. allowance'[k][a] = allowance[k][a] /\ peak'[k][a] = peak[k][a]
    BY <1>1, <1>2, <1>4
  <2> QED BY <1>2, <2>1 DEF Metered
<1> QED BY <1>3, <1>4

LEMMA SpendMeters ==
  ASSUME IInv, Metered, NEW j \in Key, NEW b \in Asset, NEW n \in Amount, Spend(j, b, n)
  PROVE  Metered'
<1> SUFFICES ASSUME NEW k \in Key, NEW a \in Asset
             PROVE  /\ allowance'[k][a].windowStart <= now'
                    /\ Meter(allowance'[k][a], sent'[k][a], peak'[k][a])
  BY DEF Metered
<1> DEFINE al == allowance[j][b]
           cur == Current(al)
           bl == [cur EXCEPT !.spent = @ + n]
           g == [sent[j][b] EXCEPT ![now] = @ + n]
<1>1. /\ allowance \in [Key -> [Asset -> Allowances]] /\ sent \in [Key -> [Asset -> Ledger]]
      /\ n \in Nat /\ now \in Time /\ now \in Nat /\ WINDOW \in Nat \ {0}
  BY KeyRingAssumption, Types, TimeIs DEF IInv, TypeOK, Allowances, Ledger
<1>2. /\ n # 0 /\ n <= Left(cur)
      /\ allowance' = [allowance EXCEPT ![j] = [allowance[j] EXCEPT ![b] = bl]]
      /\ sent' = [sent EXCEPT ![j] = [sent[j] EXCEPT ![b] = g]]
      /\ peak' = peak /\ now' = now
  BY DEF Spend
<1>3. al \in Allowances /\ sent[j][b] \in Ledger /\ peak[j][b] \in Nat
      /\ al.windowStart <= now /\ Meter(al, sent[j][b], peak[j][b]) /\ al.windowStart \in Nat
  BY Types DEF Metered, Allowances
<1>4. /\ cur \in Allowances /\ cur.windowStart <= now /\ now < cur.windowStart + WINDOW
      /\ Meter(cur, sent[j][b], peak[j][b])
  <2> HIDE DEF al
  <2>1. CASE now >= al.windowStart + WINDOW
    <3>1. cur = [al EXCEPT !.windowStart = now, !.spent = 0]
      BY <2>1 DEF Current
    <3>2. cur \in Allowances /\ cur.windowStart = now
      <4>1. [al EXCEPT !.windowStart = now, !.spent = 0] \in Allowances
            /\ [al EXCEPT !.windowStart = now, !.spent = 0].windowStart = now
        BY <1>1, <1>3 DEF Allowances
      <4> QED BY <3>1, <4>1
    <3>3. Meter([al EXCEPT !.windowStart = now, !.spent = 0], sent[j][b], peak[j][b])
      BY <1>1, <1>3, <2>1, MeterRenewed
    <3> HIDE DEF cur
    <3> QED BY <1>1, <3>1, <3>2, <3>3
  <2>2. CASE ~(now >= al.windowStart + WINDOW)
    <3>1. cur = al
      BY <2>2 DEF Current
    <3> HIDE DEF cur
    <3> QED BY <1>1, <1>3, <2>2, <3>1
  <2> QED BY <2>1, <2>2
<1> HIDE DEF cur
<1>5. Meter(bl, g, peak[j][b])
  BY <1>1, <1>2, <1>3, <1>4, MeterSpent
<1>6. bl.windowStart <= now
  BY <1>4 DEF Allowances
<1> HIDE DEF bl, g
<1>7. CASE k = j /\ a = b
  <2>1. allowance'[k][a] = bl /\ sent'[k][a] = g
    BY <1>1, <1>2, <1>7
  <2> QED BY <1>2, <1>5, <1>6, <1>7, <2>1
<1>8. CASE ~(k = j /\ a = b)
  <2>1. allowance'[k][a] = allowance[k][a] /\ sent'[k][a] = sent[k][a]
    BY <1>1, <1>2, <1>8
  <2> QED BY <1>2, <2>1 DEF Metered
<1> QED BY <1>7, <1>8

LEMMA StepMeters == IInv /\ Metered /\ [Next]_vars => Metered'
<1> SUFFICES ASSUME IInv, Metered, [Next]_vars PROVE Metered'
  OBVIOUS
<1>1. ASSUME UNCHANGED <<allowance, sent, peak>>, now' \in Nat, now' >= now PROVE Metered'
  <2> SUFFICES ASSUME NEW k \in Key, NEW a \in Asset
               PROVE  /\ allowance[k][a].windowStart <= now'
                      /\ Meter(allowance[k][a], sent[k][a], peak[k][a])
    BY <1>1 DEF Metered
  <2>1. allowance[k][a].windowStart \in Nat /\ now \in Nat
    BY Types DEF Allowances
  <2> QED BY <1>1, <2>1 DEF Metered
<1>2. now \in Nat
  BY TimeIs DEF IInv, TypeOK
<1>3. CASE UNCHANGED vars
  BY <1>1, <1>2, <1>3 DEF vars
<1>4. ASSUME NEW k \in Key, AddSigner(k) PROVE Metered'
  BY <1>1, <1>2, <1>4 DEF AddSigner
<1>5. CASE Tick
  BY <1>1, <1>2, <1>5 DEF Tick
<1> QED BY <1>3, <1>4, <1>5, RemoveSignerMeters, SetLimitMeters, SpendMeters DEF Next

LEMMA MetersInvariant == Spec => [](IInv /\ Metered)
  BY InitHolds, StepKeeps, InitMetered, StepMeters, PTL DEF Spec

LEMMA SentIsTotal ==
  ASSUME NEW k \in Key, NEW a \in Asset, NEW s, NEW e
  PROVE  SentFrom(k, a, s, e) = Total(sent[k][a], Between(s, e))
  BY DEF SentFrom, Total, Between

LEMMA MeteredIsWithin == IInv /\ Metered => WindowWithinLimit /\ DayWithinTwoLimits
<1> SUFFICES ASSUME IInv, Metered PROVE WindowWithinLimit /\ DayWithinTwoLimits
  OBVIOUS
<1>1. WindowWithinLimit
  <2> SUFFICES ASSUME NEW k \in Key, NEW a \in Asset
               PROVE  LET start == allowance[k][a].windowStart IN
                        SentFrom(k, a, start, start + WINDOW - 1) <= peak[k][a]
    BY DEF WindowWithinLimit
  <2> DEFINE st == allowance[k][a].windowStart
             f == sent[k][a]
  <2>1. f \in Ledger /\ peak[k][a] \in Nat
    BY Types
  <2>2. Between(st, st + WINDOW - 1) \subseteq From(st) /\ From(st) \in SUBSET Time
    BY DEF Between, From
  <2>3. Total(f, From(st)) <= peak[k][a]
    BY DEF Metered, Meter
  <2> HIDE DEF st, f
  <2>4. Total(f, Between(st, st + WINDOW - 1)) <= Total(f, From(st))
    BY <2>1, <2>2, TotalMonotone, TimeIs DEF Ledger
  <2>5. Total(f, Between(st, st + WINDOW - 1)) <= peak[k][a]
    BY <2>1, <2>3, <2>4, TotalsAreNumbers
  <2> QED BY <2>5, SentIsTotal DEF st, f
<1>2. DayWithinTwoLimits
  BY SentIsTotal DEF Metered, Meter, DayWithinTwoLimits
<1> QED BY <1>1, <1>2

-----------------------------------------------------------------------------
\* Arrays, mappings, allowances and what was sent keep their types; an index is never
\* beyond the number of keys, or of assets.
THEOREM RingTyped == Spec => []TypeOK
<1>1. IInv => TypeOK
  BY DEF IInv
<1> QED BY <1>1, RingInvariant, PTL

\* After any additions and swap-and-pop removals (_addSigner, _removeSigner, _setLimit)
\* an array and its mapping describe the same set.
THEOREM ArraysAreSets == Spec => []ArraysMatchMappings
<1>1. IInv => ArraysMatchMappings
  BY DEF IInv
<1> QED BY <1>1, RingInvariant, PTL

\* What _removeSigner walks is all that has a limit, so no limit survives its key.
THEOREM ListsAreComplete == Spec => []ListedIffLimited
<1>1. IInv => ListedIffLimited
  BY DEF IInv
<1> QED BY <1>1, RingInvariant, PTL

\* _spend with _setLimit: in the window an allowance is in, a key has moved no more
\* than the highest limit it was given, whatever the limit was changed to meanwhile.
THEOREM WindowsAreLimited == Spec => []WindowWithinLimit
  BY MeteredIsWithin, MetersInvariant, PTL

\* No interval of a window's length, wherever it begins, sees more than twice the limit.
THEOREM DaysAreLimited == Spec => []DayWithinTwoLimits
  BY MeteredIsWithin, MetersInvariant, PTL
=============================================================================
