---------------------------- MODULE MemPoolProof ----------------------------
(* Proofs about MemPool, for any sizes, addresses and counts.                *)
EXTENDS MemPool, FiniteSetTheorems, TLAPS

-----------------------------------------------------------------------------
(* PoolBuilder                                                               *)

(* Induction, for a set. *)
LEMMA NatInd ==
  ASSUME NEW set, 0 \in set, \A n \in Nat : n \in set => n + 1 \in set
  PROVE  Nat \subseteq set
<1> SUFFICES ASSUME NEW m \in Nat, m \notin set
             PROVE  FALSE
  OBVIOUS
<1> DEFINE low  == {n \in 0 .. m : n \in set}
           next == [n \in low |-> n + 1]
<1>1. IsFiniteSet(low)
  <2>1. low \in SUBSET (0 .. m) /\ IsFiniteSet(0 .. m)
    BY FS_Interval
  <2>2. QED
    BY <2>1, FS_Subset
<1>2. \A n \in low : n + 1 \in low
  OBVIOUS
<1>3. next \in Injection(low, low)
  BY <1>2 DEF Injection, IsInjective
<1>4. next \in Surjection(low, low)
  BY <1>1, <1>3, FS_Injection
<1>5. 0 \in low
  OBVIOUS
<1>6. \E n \in low : next[n] = 0
  BY <1>4, <1>5 DEF Surjection
<1>7. QED
  BY <1>6

(* A set of numbers has a least one. *)
LEMMA LeastNumber ==
  ASSUME NEW set \in SUBSET Nat, set # {}
  PROVE  Min(set) \in set /\ \A m \in set : Min(set) <= m
<1> DEFINE below == {n \in Nat : \A m \in 0 .. n : m \notin set}
<1>1. \E least \in set : \A m \in set : least <= m
  <2> SUFFICES ASSUME \A least \in set : \E m \in set : m < least
               PROVE  FALSE
    OBVIOUS
  <2>1. 0 \in below
    OBVIOUS
  <2>2. ASSUME NEW n \in Nat, n \in below
        PROVE  n + 1 \in below
    <3>1. \A m \in 0 .. n + 1 : m \in 0 .. n \/ m = n + 1
      OBVIOUS
    <3>2. n + 1 \notin set
      BY <2>2
    <3>3. QED
      BY <2>2, <3>1, <3>2
  <2> HIDE DEF below
  <2>3. Nat \subseteq below
    BY <2>1, <2>2, NatInd
  <2>4. PICK n \in Nat : n \in set
    OBVIOUS
  <2>5. n \in below
    BY <2>3
  <2>6. QED
    BY <2>4, <2>5 DEF below
<1>2. QED
  BY <1>1 DEF Min

(* What is computed step by step from a first value exists. *)
LEMMA Recursion ==
  ASSUME NEW S, NEW first \in S, NEW step \in [Nat -> [S -> S]], NEW n \in Nat
  PROVE  \E f \in [0 .. n -> S] : f[0] = first /\ \A i \in 1 .. n : f[i] = step[i][f[i - 1]]
<1> DEFINE up(k, f) == f[0] = first /\ \A i \in 1 .. k : f[i] = step[i][f[i - 1]]
           good     == {k \in Nat : \E f \in [0 .. k -> S] : up(k, f)}
<1>1. 0 \in good
  <2> DEFINE f == [i \in 0 .. 0 |-> first]
  <2>1. f \in [0 .. 0 -> S] /\ up(0, f)
    OBVIOUS
  <2>2. QED
    BY <2>1
<1>2. ASSUME NEW k \in Nat, k \in good
      PROVE  k + 1 \in good
  <2>1. PICK f \in [0 .. k -> S] : up(k, f)
    BY <1>2
  <2> DEFINE g == [i \in 0 .. k + 1 |-> IF i = k + 1 THEN step[k + 1][f[k]] ELSE f[i]]
  <2>2. g \in [0 .. k + 1 -> S]
    <3>1. f[k] \in S /\ step[k + 1] \in [S -> S]
      OBVIOUS
    <3>2. step[k + 1][f[k]] \in S
      BY <3>1
    <3>3. \A i \in 0 .. k + 1 : i # k + 1 => i \in 0 .. k
      OBVIOUS
    <3>4. QED
      BY <3>2, <3>3
  <2>3. g[k + 1] = step[k + 1][f[k]] /\ \A i \in 0 .. k : g[i] = f[i]
    OBVIOUS
  <2> HIDE DEF g
  <2>4. g[0] = first
    BY <2>1, <2>3
  <2>5. ASSUME NEW i \in 1 .. k + 1
        PROVE  g[i] = step[i][g[i - 1]]
    <3>1. CASE i = k + 1
      <4>1. i - 1 = k /\ k \in 0 .. k
        BY <3>1
      <4>2. QED
        BY <2>3, <3>1, <4>1
    <3>2. CASE i # k + 1
      <4>1. i \in 1 .. k /\ i \in 0 .. k /\ i - 1 \in 0 .. k
        BY <3>2
      <4>2. QED
        BY <2>1, <2>3, <4>1
    <3>3. QED
      BY <3>1, <3>2
  <2>6. QED
    BY <2>2, <2>4, <2>5
<1> HIDE DEF good
<1>3. n \in good
  BY <1>1, <1>2, NatInd
<1>4. QED
  BY <1>3 DEF good

(* One sequence behind another *)
LEMMA Joined ==
  ASSUME NEW S, NEW s \in Seq(S), NEW t \in Seq(S)
  PROVE  /\ s \o t \in Seq(S) /\ Len(s \o t) = Len(s) + Len(t)
         /\ \A j \in 1 .. Len(s) : (s \o t)[j] = s[j]
         /\ \A j \in Len(s) + 1 .. Len(s) + Len(t) : (s \o t)[j] = t[j - Len(s)]
OBVIOUS

(* The sequence t is s with x at i. *)
Widened(S, s, i, x, t) ==
  /\ t \in Seq(S) /\ Len(t) = Len(s) + 1 /\ t[i] = x
  /\ \A j \in 1 .. i - 1 : t[j] = s[j]
  /\ \A j \in i + 1 .. Len(s) + 1 : t[j] = s[j - 1]

(* An element is put into a sequence. *)
LEMMA Inserted ==
  ASSUME NEW S, NEW s \in Seq(S), NEW x \in S, NEW i \in 1 .. Len(s) + 1
  PROVE  Widened(S, s, i, x, InsertAt(s, i, x))
<1>1. PICK l : l = SubSeq(s, 1, i - 1)
  OBVIOUS
<1>2. PICK r : r = SubSeq(s, i, Len(s))
  OBVIOUS
<1>3. PICK one : one = <<x>>
  OBVIOUS
<1>4. PICK lx : lx = l \o one
  OBVIOUS
<1>5. PICK t : t = lx \o r
  OBVIOUS
<1>6. l \in Seq(S) /\ Len(l) = i - 1 /\ \A j \in 1 .. i - 1 : l[j] = s[j]
  BY <1>1
<1>7. r \in Seq(S) /\ Len(r) = Len(s) + 1 - i
      /\ \A j \in 1 .. Len(s) + 1 - i : r[j] = s[i + j - 1]
  BY <1>2
<1>8. one \in Seq(S) /\ Len(one) = 1 /\ one[1] = x
  BY <1>3
<1>9. InsertAt(s, i, x) = t
  BY <1>1, <1>2, <1>3, <1>4, <1>5 DEF InsertAt
<1>10. /\ lx \in Seq(S) /\ Len(lx) = i /\ \A j \in 1 .. i - 1 : lx[j] = l[j]
       /\ \A j \in i .. i : lx[j] = one[j - (i - 1)]
  <2>1. /\ lx \in Seq(S) /\ Len(lx) = Len(l) + Len(one)
        /\ \A j \in 1 .. Len(l) : lx[j] = l[j]
        /\ \A j \in Len(l) + 1 .. Len(l) + Len(one) : lx[j] = one[j - Len(l)]
    <3>1. l \in Seq(S) /\ one \in Seq(S)
      BY <1>6, <1>8
    <3>2. QED
      BY <1>4, <3>1, Joined
  <2>2. Len(l) + 1 = i /\ Len(l) + Len(one) = i
    BY <1>6, <1>8
  <2>3. QED
    BY <1>6, <2>1, <2>2
<1>11. lx[i] = x
  <2>1. i \in i .. i /\ i - (i - 1) = 1
    OBVIOUS
  <2>2. QED
    BY <1>8, <1>10, <2>1
<1>12. /\ t \in Seq(S) /\ Len(t) = Len(s) + 1 /\ \A j \in 1 .. i : t[j] = lx[j]
       /\ \A j \in i + 1 .. Len(s) + 1 : t[j] = r[j - i]
  <2>1. /\ t \in Seq(S) /\ Len(t) = Len(lx) + Len(r)
        /\ \A j \in 1 .. Len(lx) : t[j] = lx[j]
        /\ \A j \in Len(lx) + 1 .. Len(lx) + Len(r) : t[j] = r[j - Len(lx)]
    <3>1. lx \in Seq(S) /\ r \in Seq(S)
      BY <1>7, <1>10
    <3>2. QED
      BY <1>5, <3>1, Joined
  <2>2. Len(lx) = i /\ Len(lx) + Len(r) = Len(s) + 1
    BY <1>7, <1>10
  <2>3. QED
    BY <2>1, <2>2
<1>13. ASSUME NEW j \in i + 1 .. Len(s) + 1
       PROVE  t[j] = s[j - 1]
  <2>1. j - i \in 1 .. Len(s) + 1 - i /\ i + (j - i) - 1 = j - 1
    OBVIOUS
  <2>2. QED
    BY <1>7, <1>12, <2>1
<1>14. t[i] = x /\ \A j \in 1 .. i - 1 : t[j] = s[j]
  <2>1. i \in 1 .. i /\ \A j \in 1 .. i - 1 : j \in 1 .. i
    OBVIOUS
  <2>2. QED
    BY <1>6, <1>10, <1>11, <1>12, <2>1
<1>15. QED
  BY <1>9, <1>12, <1>13, <1>14 DEF Widened

(* Each size is larger than those before. *)
Ascending(s) == \A p, q \in DOMAIN s : p < q => s[p] < s[q]

(* A new size is put before the first that is not smaller. *)
LEMMA Placed ==
  ASSUME NEW s \in Seq(Nat), NEW v \in Nat
  PROVE  \E at \in 1 .. Len(s) + 1 :
           /\ Widened(Nat, s, at, v, InsertOrdered(v, s))
           /\ at \in 1 .. Len(s) => v <= s[at]
           /\ \A j \in 1 .. at - 1 : j \in 1 .. Len(s) /\ s[j] < v
<1> DEFINE set == {i \in 1 .. Len(s) + 1 : i \in DOMAIN s => v <= s[i]}
<1>1. PICK n \in Nat : n = Len(s)
  OBVIOUS
<1>2. DOMAIN s = 1 .. n /\ \A i \in 1 .. n : s[i] \in Nat
  BY <1>1
<1>3. set \in SUBSET Nat /\ n + 1 \in set
  BY <1>1, <1>2
<1>4. PICK at : at = Min(set)
  OBVIOUS
<1>5. at \in set /\ \A i \in set : at <= i
  BY <1>3, <1>4, LeastNumber
<1>6. Widened(Nat, s, at, v, InsertOrdered(v, s))
  <2>1. InsertOrdered(v, s) = InsertAt(s, at, v)
    BY <1>4 DEF InsertOrdered
  <2>2. at \in 1 .. Len(s) + 1
    BY <1>5
  <2> HIDE DEF set
  <2>3. QED
    BY <2>1, <2>2, Inserted
<1>7. at \in 1 .. n + 1 /\ (at \in 1 .. n => v <= s[at])
  BY <1>1, <1>2, <1>5
<1>8. ASSUME NEW j \in 1 .. at - 1
      PROVE  j \in 1 .. n /\ s[j] < v
  <2>1. j \in 1 .. n
    BY <1>7
  <2>2. j \notin set
    BY <1>5, <1>7
  <2>3. QED
    BY <1>1, <1>2, <2>1, <2>2
<1>9. QED
  BY <1>1, <1>6, <1>7, <1>8

(* It is put where it belongs. *)
LEMMA OrderKept ==
  ASSUME NEW s \in Seq(Nat), Ascending(s), NEW v \in Nat, \A i \in DOMAIN s : s[i] # v
  PROVE  LET t == InsertOrdered(v, s)
         IN /\ t \in Seq(Nat) /\ Ascending(t)
            /\ \E i \in DOMAIN t : t[i] = v
            /\ \A j \in DOMAIN s : \E i \in DOMAIN t : t[i] = s[j]
            /\ \A i \in DOMAIN t : t[i] = v \/ \E j \in DOMAIN s : t[i] = s[j]
<1>1. PICK n \in Nat : n = Len(s)
  OBVIOUS
<1>2. DOMAIN s = 1 .. n /\ \A i \in 1 .. n : s[i] \in Nat
  BY <1>1
<1>3. PICK t : t = InsertOrdered(v, s)
  OBVIOUS
<1>4. PICK at \in 1 .. n + 1 :
        /\ Widened(Nat, s, at, v, t)
        /\ at \in 1 .. n => v <= s[at]
        /\ \A j \in 1 .. at - 1 : j \in 1 .. n /\ s[j] < v
  BY <1>1, <1>3, Placed
<1>7. /\ t \in Seq(Nat) /\ Len(t) = n + 1 /\ t[at] = v
      /\ \A j \in 1 .. at - 1 : t[j] = s[j]
      /\ \A j \in at + 1 .. n + 1 : t[j] = s[j - 1]
  BY <1>1, <1>4 DEF Widened
<1>8. at \in 1 .. n + 1 /\ (at \in 1 .. n => v <= s[at])
  BY <1>4
<1>9. ASSUME NEW j \in 1 .. at - 1
      PROVE  j \in 1 .. n /\ s[j] < v
  BY <1>4
<1>10. ASSUME NEW j \in at .. n
       PROVE  v < s[j]
  <2>1. j \in 1 .. n /\ at \in 1 .. n
    BY <1>8
  <2>2. at = j \/ s[at] < s[j]
    BY <1>2, <2>1 DEF Ascending
  <2>3. s[j] # v
    BY <1>2, <2>1
  <2>4. QED
    BY <1>2, <1>8, <2>1, <2>2, <2>3
<1>11. DOMAIN t = 1 .. n + 1
  BY <1>7
<1>12. ASSUME NEW p \in 1 .. n + 1, NEW q \in 1 .. n + 1, p < q
       PROVE  t[p] < t[q]
  <2>1. CASE q < at
    <3>1. p \in 1 .. at - 1 /\ q \in 1 .. at - 1
      BY <1>8, <1>12, <2>1
    <3>2. p \in 1 .. n /\ q \in 1 .. n
      BY <1>9, <3>1
    <3>3. QED
      BY <1>2, <1>7, <1>12, <3>1, <3>2 DEF Ascending
  <2>2. CASE q = at
    <3>1. p \in 1 .. at - 1
      BY <1>12, <2>2
    <3>2. QED
      BY <1>7, <1>9, <2>2, <3>1
  <2>3. CASE p = at
    <3>1. q \in at + 1 .. n + 1 /\ q - 1 \in at .. n
      BY <1>8, <1>12, <2>3
    <3>2. QED
      BY <1>7, <1>10, <2>3, <3>1
  <2>4. CASE p < at /\ at < q
    <3>1. p \in 1 .. at - 1 /\ q \in at + 1 .. n + 1 /\ q - 1 \in at .. n /\ q - 1 \in 1 .. n
      BY <1>8, <2>4
    <3>2. t[p] < v /\ v < t[q] /\ t[p] \in Nat /\ t[q] \in Nat
      BY <1>2, <1>7, <1>9, <1>10, <3>1
    <3>3. QED
      BY <3>2
  <2>5. CASE at < p
    <3>1. /\ p \in at + 1 .. n + 1 /\ q \in at + 1 .. n + 1
          /\ p - 1 \in 1 .. n /\ q - 1 \in 1 .. n /\ p - 1 < q - 1
      BY <1>8, <1>12, <2>5
    <3>2. QED
      BY <1>2, <1>7, <3>1 DEF Ascending
  <2>6. QED
    BY <1>8, <2>1, <2>2, <2>3, <2>4, <2>5
<1>13. ASSUME NEW j \in 1 .. n
       PROVE  \E i \in 1 .. n + 1 : t[i] = s[j]
  <2>1. CASE j < at
    <3>1. j \in 1 .. at - 1 /\ j \in 1 .. n + 1
      BY <1>8, <2>1
    <3>2. QED
      BY <1>7, <3>1
  <2>2. CASE at <= j
    <3>1. j + 1 \in at + 1 .. n + 1 /\ j + 1 \in 1 .. n + 1 /\ (j + 1) - 1 = j
      BY <1>8, <2>2
    <3>2. t[j + 1] = s[j]
      BY <1>7, <3>1
    <3>3. QED
      BY <3>1, <3>2
  <2>3. QED
    BY <1>8, <2>1, <2>2
<1>14. ASSUME NEW i \in 1 .. n + 1
       PROVE  t[i] = v \/ \E j \in 1 .. n : t[i] = s[j]
  <2>1. CASE i < at
    <3>1. i \in 1 .. at - 1
      BY <1>8, <2>1
    <3>2. QED
      BY <1>7, <1>9, <3>1
  <2>2. CASE at < i
    <3>1. i \in at + 1 .. n + 1 /\ i - 1 \in 1 .. n
      BY <1>8, <2>2
    <3>2. QED
      BY <1>7, <3>1
  <2>3. CASE i = at
    BY <1>7, <2>3
  <2>4. QED
    BY <1>8, <2>1, <2>2, <2>3
<1>15. Ascending(t)
  <2>1. ASSUME NEW p \in DOMAIN t, NEW q \in DOMAIN t, p < q
        PROVE  t[p] < t[q]
    <3>1. p \in 1 .. n + 1 /\ q \in 1 .. n + 1
      BY <1>11
    <3>2. QED
      BY <1>12, <2>1, <3>1
  <2>2. \A p, q \in DOMAIN t : p < q => t[p] < t[q]
    BY <2>1
  <2>3. QED
    BY <2>2 DEF Ascending
<1>16. \E i \in DOMAIN t : t[i] = v
  BY <1>7, <1>8, <1>11
<1>17. \A j \in DOMAIN s : \E i \in DOMAIN t : t[i] = s[j]
  BY <1>2, <1>11, <1>13
<1>18. \A i \in DOMAIN t : t[i] = v \/ \E j \in DOMAIN s : t[i] = s[j]
  BY <1>2, <1>11, <1>14
<1>19. t \in Seq(Nat)
  BY <1>7
<1>20. QED
  BY <1>3, <1>15, <1>16, <1>17, <1>18, <1>19

(* One size in front of the others *)
LEMMA InFront ==
  ASSUME NEW s \in Seq(Nat), NEW v \in Nat
  PROVE  LET t == <<v>> \o s
         IN /\ t \in Seq(Nat) /\ Len(t) = Len(s) + 1 /\ t[1] = v
            /\ \A i \in 1 .. Len(s) : t[i + 1] = s[i]
            /\ \A i \in 2 .. Len(s) + 1 : t[i] = s[i - 1]
<1>1. PICK one : one = <<v>>
  OBVIOUS
<1>2. one \in Seq(Nat) /\ Len(one) = 1 /\ one[1] = v
  BY <1>1
<1>3. PICK t : t = one \o s
  OBVIOUS
<1>4. /\ t \in Seq(Nat) /\ Len(t) = Len(one) + Len(s)
      /\ \A j \in 1 .. Len(one) : t[j] = one[j]
      /\ \A j \in Len(one) + 1 .. Len(one) + Len(s) : t[j] = s[j - Len(one)]
  BY <1>2, <1>3, Joined
<1>5. Len(s) \in Nat
  OBVIOUS
<1>6. t[1] = v /\ Len(t) = Len(s) + 1
  BY <1>2, <1>4, <1>5
<1>7. \A i \in 1 .. Len(s) : i + 1 \in 1 + 1 .. 1 + Len(s) /\ (i + 1) - 1 = i
  BY <1>5
<1>8. \A i \in 1 .. Len(s) : t[i + 1] = s[i]
  BY <1>2, <1>4, <1>7
<1>9. \A i \in 2 .. Len(s) + 1 : t[i] = s[i - 1]
  BY <1>2, <1>4, <1>5
<1>10. QED
  BY <1>1, <1>3, <1>4, <1>6, <1>8, <1>9

(* EliminateDuplicates keeps one of each size. *)
LEMMA EachOnce ==
  LET d == EliminateDuplicates
  IN /\ d \in Seq(Nat)
     /\ \A i, j \in DOMAIN d : d[i] = d[j] => i = j
     /\ \A i \in DOMAIN TypeSizes : \E j \in DOMAIN d : d[j] = TypeSizes[i]
<1> DEFINE S       == Seq(Nat)
           count   == Len(TypeSizes)
           size(n) == TypeSizes[count + 1 - n]
           more(n) == \E j \in (count + 1 - n) + 1 .. count : TypeSizes[j] = size(n)
           one(n, q) == IF more(n) THEN q ELSE <<size(n)>> \o q
           body(f) == [n \in 0 .. count |-> IF n = 0 THEN <<>> ELSE one(n, f[n - 1])]
           step    == [n \in Nat |-> [q \in S |-> IF n \in 1 .. count THEN one(n, q) ELSE q]]
           kept    == CHOOSE f : f = body(f)
<1>1. EliminateDuplicates = kept[count]
  BY DEF EliminateDuplicates
<1>2. count \in Nat /\ DOMAIN TypeSizes = 1 .. count /\ \A i \in 1 .. count : TypeSizes[i] \in Nat
  BY PoolAssumption
<1>3. \A n \in 1 .. count : count + 1 - n \in 1 .. count /\ size(n) \in Nat
  BY <1>2
<1>4. ASSUME NEW n \in 1 .. count, NEW q \in S
      PROVE  one(n, q) \in S
  <2>1. size(n) \in Nat
    BY <1>3
  <2> HIDE DEF size, more
  <2>2. <<size(n)>> \o q \in S
    BY <2>1, InFront
  <2>3. QED
    BY <2>2
<1>5. kept \in [0 .. count -> S] /\ kept = body(kept)
  <2>1. step \in [Nat -> [S -> S]]
    <3> HIDE DEF one
    <3>1. QED
      BY <1>4
  <2>2. PICK f \in [0 .. count -> S] :
          f[0] = <<>> /\ \A n \in 1 .. count : f[n] = step[n][f[n - 1]]
    <3>1. PICK none : none = <<>>
      OBVIOUS
    <3>2. none \in S
      BY <3>1
    <3> HIDE DEF step, S, count
    <3>3. count \in Nat
      BY <1>2
    <3>4. \E f \in [0 .. count -> S] :
            f[0] = none /\ \A n \in 1 .. count : f[n] = step[n][f[n - 1]]
      BY <2>1, <3>2, <3>3, Recursion
    <3>5. QED
      BY <3>1, <3>4
  <2>3. ASSUME NEW n \in 1 .. count
        PROVE  f[n] = one(n, f[n - 1])
    <3>1. n - 1 \in 0 .. count /\ n \in Nat
      BY <1>2
    <3>2. f[n - 1] \in S
      BY <3>1
    <3>3. step[n][f[n - 1]] = one(n, f[n - 1])
      <4> HIDE DEF one, S
      <4>1. QED
        BY <3>1, <3>2
    <3>4. QED
      BY <2>2, <3>3
  <2>4. f = body(f)
    <3>1. \A n \in 0 .. count : n = 0 \/ n \in 1 .. count
      BY <1>2
    <3> HIDE DEF one, step, S
    <3>2. \A n \in 0 .. count : f[n] = IF n = 0 THEN <<>> ELSE one(n, f[n - 1])
      BY <2>2, <2>3, <3>1
    <3>3. QED
      BY <3>2
  <2> HIDE DEF body
  <2>5. kept = body(kept)
    BY <2>4
  <2>6. \A g : g = body(g) => g \in [0 .. count -> S]
    <3> SUFFICES ASSUME NEW g, g = body(g)
                 PROVE  g \in [0 .. count -> S]
      OBVIOUS
    <3> DEFINE good == {n \in Nat : n <= count => g[n] \in S}
    <3>1. /\ g[0] = <<>>
          /\ \A n \in 1 .. count : g[n] = one(n, g[n - 1])
      <4>1. \A n \in 0 .. count : body(g)[n] = IF n = 0 THEN <<>> ELSE one(n, g[n - 1])
        BY DEF body
      <4>2. 0 \in 0 .. count /\ \A n \in 1 .. count : n \in 0 .. count /\ n # 0
        BY <1>2
      <4> HIDE DEF one
      <4>3. QED
        BY <4>1, <4>2
    <3>2. 0 \in good
      <4>1. g[0] \in S
        BY <3>1
      <4> HIDE DEF one, S
      <4>2. QED
        BY <4>1
    <3>3. ASSUME NEW n \in Nat, n \in good
          PROVE  n + 1 \in good
      <4>1. SUFFICES ASSUME n + 1 <= count
                     PROVE  g[n + 1] \in S
        OBVIOUS
      <4>2. n + 1 \in 1 .. count /\ (n + 1) - 1 = n /\ g[n] \in S
        BY <1>2, <3>3, <4>1
      <4> HIDE DEF one, S
      <4>3. QED
        BY <1>4, <3>1, <4>2
    <3> HIDE DEF good
    <3>4. Nat \subseteq good
      BY <3>2, <3>3, NatInd
    <3>5. \A n \in 0 .. count : g[n] \in S
      BY <1>2, <3>4 DEF good
    <3>6. g = [n \in 0 .. count |-> g[n]]
      BY DEF body
    <3> HIDE DEF S
    <3>7. QED
      BY <3>5, <3>6
  <2>7. QED
    BY <2>5, <2>6
<1> HIDE DEF kept
<1>6. /\ kept[0] = <<>>
      /\ \A n \in 1 .. count : kept[n] = one(n, kept[n - 1])
  <2>1. \A n \in 0 .. count : body(kept)[n] = IF n = 0 THEN <<>> ELSE one(n, kept[n - 1])
    OBVIOUS
  <2>2. 0 \in 0 .. count /\ \A n \in 1 .. count : n \in 0 .. count /\ n # 0
    BY <1>2
  <2> HIDE DEF one, body
  <2>3. QED
    BY <1>5, <2>1, <2>2
(* What is kept of the last n sizes *)
<1> DEFINE last(n)    == count + 1 - n .. count
           apart(q)   == \A i, j \in DOMAIN q : q[i] = q[j] => i = j
           from(n, q) == \A i \in DOMAIN q : \E j \in last(n) : TypeSizes[j] = q[i]
           all(n, q)  == \A j \in last(n) : \E i \in DOMAIN q : q[i] = TypeSizes[j]
           good       == {n \in Nat : n <= count =>
                            apart(kept[n]) /\ from(n, kept[n]) /\ all(n, kept[n])}
<1>7. 0 \in good
  <2>1. last(0) = {}
    BY <1>2
  <2>2. DOMAIN kept[0] = {}
    BY <1>6
  <2>3. QED
    BY <2>1, <2>2
<1>8. ASSUME NEW n \in Nat, n \in good
      PROVE  n + 1 \in good
  <2>1. SUFFICES ASSUME n + 1 <= count
                 PROVE  apart(kept[n + 1]) /\ from(n + 1, kept[n + 1]) /\ all(n + 1, kept[n + 1])
    OBVIOUS
  <2>2. apart(kept[n]) /\ from(n, kept[n]) /\ all(n, kept[n])
    BY <1>8, <2>1, <1>2
  <2>3. PICK q : q = kept[n]
    OBVIOUS
  <2>4. PICK k : k = count + 1 - (n + 1)
    OBVIOUS
  <2>5. k \in 1 .. count /\ k = count - n /\ n + 1 \in 1 .. count /\ (n + 1) - 1 = n /\ n \in 0 .. count
    <3> HIDE DEF count
    <3>1. k = count - n
      BY <1>2, <2>4
    <3>2. QED
      BY <1>2, <2>1, <3>1
  <2>6. last(n) = k + 1 .. count /\ last(n + 1) = k .. count
    BY <1>2, <2>5
  <2>7. q \in Seq(Nat)
    BY <1>5, <2>3, <2>5
  <2>8. kept[n + 1] = IF \E j \in k + 1 .. count : TypeSizes[j] = TypeSizes[k]
                      THEN q ELSE <<TypeSizes[k]>> \o q
    <3>1. kept[n + 1] = one(n + 1, q)
      <4> HIDE DEF one
      <4>1. QED
        BY <1>6, <2>3, <2>5
    <3>2. one(n + 1, q) = IF \E j \in k + 1 .. count : TypeSizes[j] = TypeSizes[k]
                          THEN q ELSE <<TypeSizes[k]>> \o q
      BY <2>4
    <3>3. QED
      BY <3>1, <3>2
  <2>9. k .. count = {k} \cup (k + 1 .. count)
    BY <1>2, <2>5
  <2> HIDE DEF last
  <2>10. CASE \E j \in k + 1 .. count : TypeSizes[j] = TypeSizes[k]
    <3>1. kept[n + 1] = q
      BY <2>8, <2>10
    <3>2. PICK j \in k + 1 .. count : TypeSizes[j] = TypeSizes[k]
      BY <2>10
    <3>3. \E i \in DOMAIN q : q[i] = TypeSizes[k]
      BY <2>2, <2>3, <2>6, <3>2
    <3>4. \A i \in DOMAIN q : \E l \in last(n + 1) : TypeSizes[l] = q[i]
      BY <2>2, <2>3, <2>6, <2>9
    <3>5. \A l \in last(n + 1) : \E i \in DOMAIN q : q[i] = TypeSizes[l]
      BY <2>2, <2>3, <2>6, <2>9, <3>3
    <3>6. QED
      BY <2>2, <2>3, <3>1, <3>4, <3>5
  <2>11. CASE ~ \E j \in k + 1 .. count : TypeSizes[j] = TypeSizes[k]
    <3>1. PICK t : t = <<TypeSizes[k]>> \o q
      OBVIOUS
    <3>2. kept[n + 1] = t
      BY <2>8, <2>11, <3>1
    <3>3. /\ t \in Seq(Nat) /\ Len(t) = Len(q) + 1 /\ t[1] = TypeSizes[k]
          /\ \A i \in 1 .. Len(q) : t[i + 1] = q[i]
          /\ \A i \in 2 .. Len(q) + 1 : t[i] = q[i - 1]
      BY <1>2, <2>5, <2>7, <3>1, InFront
    <3>4. PICK m \in Nat : m = Len(q) /\ DOMAIN q = 1 .. m /\ DOMAIN t = 1 .. m + 1
      BY <2>7, <3>3
    <3>5. ASSUME NEW i \in 2 .. m + 1
          PROVE  i - 1 \in 1 .. m /\ t[i] = q[i - 1] /\ t[i] # TypeSizes[k]
      <4>1. i - 1 \in 1 .. m /\ t[i] = q[i - 1]
        BY <3>3, <3>4
      <4>2. \E j \in k + 1 .. count : TypeSizes[j] = q[i - 1]
        BY <2>2, <2>3, <2>6, <3>4, <4>1
      <4>3. QED
        BY <2>11, <4>1, <4>2
    <3>6. \A i \in 1 .. m + 1 : i = 1 \/ i \in 2 .. m + 1
      OBVIOUS
    <3>7. ASSUME NEW i \in 1 .. m + 1, NEW j \in 1 .. m + 1, t[i] = t[j]
          PROVE  i = j
      <4>1. CASE i \in 2 .. m + 1 /\ j \in 2 .. m + 1
        <5>1. q[i - 1] = q[j - 1] /\ i - 1 \in DOMAIN q /\ j - 1 \in DOMAIN q
          BY <3>4, <3>5, <3>7, <4>1
        <5>2. i - 1 = j - 1
          BY <2>2, <2>3, <5>1
        <5>3. QED
          BY <5>2
      <4>2. CASE i = 1 \/ j = 1
        BY <3>3, <3>5, <3>6, <3>7, <4>2
      <4>3. QED
        BY <3>6, <4>1, <4>2
    <3>8. apart(t)
      BY <3>4, <3>7
    <3>9. ASSUME NEW i \in DOMAIN t
          PROVE  \E j \in last(n + 1) : TypeSizes[j] = t[i]
      <4>1. CASE i = 1
        BY <2>6, <2>9, <3>3, <4>1
      <4>2. CASE i \in 2 .. m + 1
        <5>1. \E j \in last(n) : TypeSizes[j] = q[i - 1]
          BY <2>2, <2>3, <3>4, <3>5, <4>2
        <5>2. QED
          BY <2>6, <2>9, <3>5, <4>2, <5>1
      <4>3. QED
        BY <3>4, <3>6, <4>1, <4>2
    <3>10. ASSUME NEW j \in last(n + 1)
           PROVE  \E i \in DOMAIN t : t[i] = TypeSizes[j]
      <4>1. CASE j = k
        <5>1. 1 \in DOMAIN t
          BY <3>4
        <5>2. QED
          BY <3>3, <4>1, <5>1
      <4>2. CASE j \in last(n)
        <5>1. PICK i \in DOMAIN q : q[i] = TypeSizes[j]
          BY <2>2, <2>3, <4>2
        <5>2. i + 1 \in DOMAIN t /\ t[i + 1] = q[i]
          BY <3>3, <3>4
        <5>3. QED
          BY <5>1, <5>2
      <4>3. QED
        BY <2>6, <2>9, <4>1, <4>2
    <3>11. QED
      BY <3>2, <3>8, <3>9, <3>10
  <2>12. QED
    BY <2>10, <2>11
<1> HIDE DEF good
<1>9. count \in good
  BY <1>2, <1>7, <1>8, NatInd
<1>10. apart(kept[count]) /\ all(count, kept[count])
  BY <1>2, <1>9 DEF good
<1>11. last(count) = 1 .. count
  BY <1>2
<1>12. kept[count] \in Seq(Nat)
  <2>1. count \in 0 .. count
    BY <1>2
  <2> HIDE DEF body, count
  <2>2. QED
    BY <1>5, <2>1
<1>13. QED
  BY <1>1, <1>2, <1>10, <1>11, <1>12

(* The sizes are in order, and each type finds its own. *)
LEMMA SizesOrdered ==
  /\ Sizes \in Seq(Nat) /\ Ascending(Sizes)
  /\ \A i \in DOMAIN TypeSizes : \E p \in DOMAIN Sizes : Sizes[p] = TypeSizes[i]
<1>1. PICK d : d = EliminateDuplicates
  OBVIOUS
<1>2. /\ d \in Seq(Nat) /\ \A i, j \in DOMAIN d : d[i] = d[j] => i = j
      /\ \A i \in DOMAIN TypeSizes : \E j \in DOMAIN d : d[j] = TypeSizes[i]
  BY <1>1, EachOnce
<1> DEFINE S        == Seq(Nat)
           count    == Len(d)
           size(n)  == d[count + 1 - n]
           one(n, q) == InsertOrdered(size(n), q)
           body(f)  == [n \in 0 .. count |-> IF n = 0 THEN <<>> ELSE one(n, f[n - 1])]
           step     == [n \in Nat |-> [q \in S |-> IF n \in 1 .. count THEN one(n, q) ELSE q]]
           sorted   == CHOOSE f : f = body(f)
<1>3. Sizes = sorted[count]
  BY <1>1 DEF Sizes
<1>4. count \in Nat /\ DOMAIN d = 1 .. count /\ \A i \in 1 .. count : d[i] \in Nat
  BY <1>2
<1>5. \A n \in 1 .. count : count + 1 - n \in 1 .. count /\ size(n) \in Nat
  BY <1>4
<1> HIDE DEF count
<1>6. ASSUME NEW n \in 1 .. count, NEW q \in S
      PROVE  one(n, q) \in S
  <2>1. size(n) \in Nat
    BY <1>5
  <2> HIDE DEF size
  <2>2. QED
    BY <2>1, Placed DEF Widened
<1>7. \E f \in [0 .. count -> S] : f = body(f)
  <2>1. step \in [Nat -> [S -> S]]
    <3> HIDE DEF one
    <3>1. QED
      BY <1>6
  <2>2. PICK f \in [0 .. count -> S] :
          f[0] = <<>> /\ \A n \in 1 .. count : f[n] = step[n][f[n - 1]]
    <3>1. PICK none : none = <<>>
      OBVIOUS
    <3>2. none \in S
      BY <3>1
    <3>3. count \in Nat
      BY <1>4
    <3> HIDE DEF step, S
    <3>4. \E f \in [0 .. count -> S] :
            f[0] = none /\ \A n \in 1 .. count : f[n] = step[n][f[n - 1]]
      BY <2>1, <3>2, <3>3, Recursion
    <3>5. QED
      BY <3>1, <3>4
  <2>3. ASSUME NEW n \in 1 .. count
        PROVE  f[n] = one(n, f[n - 1])
    <3>1. n - 1 \in 0 .. count /\ n \in Nat
      BY <1>4
    <3>2. f[n - 1] \in S
      BY <3>1
    <3>3. step[n][f[n - 1]] = one(n, f[n - 1])
      <4> HIDE DEF one, S
      <4>1. QED
        BY <3>1, <3>2
    <3>4. QED
      BY <2>2, <3>3
  <2>4. f = body(f)
    <3>1. \A n \in 0 .. count : n = 0 \/ n \in 1 .. count
      BY <1>4
    <3> HIDE DEF one, step, S
    <3>2. \A n \in 0 .. count : f[n] = IF n = 0 THEN <<>> ELSE one(n, f[n - 1])
      BY <2>2, <2>3, <3>1
    <3>3. QED
      BY <3>2
  <2>5. QED
    BY <2>4
<1>8. sorted = body(sorted)
  <2> HIDE DEF body
  <2>1. QED
    BY <1>7
<1> HIDE DEF sorted
<1>9. /\ sorted[0] = <<>>
      /\ \A n \in 1 .. count : sorted[n] = one(n, sorted[n - 1])
  <2>1. \A n \in 0 .. count : body(sorted)[n] = IF n = 0 THEN <<>> ELSE one(n, sorted[n - 1])
    OBVIOUS
  <2>2. 0 \in 0 .. count /\ \A n \in 1 .. count : n \in 0 .. count /\ n # 0
    BY <1>4
  <2> HIDE DEF one, body
  <2>3. QED
    BY <1>8, <2>1, <2>2
(* The last n of d are sorted. *)
<1> DEFINE last(n)    == count + 1 - n .. count
           from(n, q) == \A i \in DOMAIN q : \E j \in last(n) : d[j] = q[i]
           all(n, q)  == \A j \in last(n) : \E i \in DOMAIN q : q[i] = d[j]
           fine(n, q) == q \in Seq(Nat) /\ Ascending(q) /\ from(n, q) /\ all(n, q)
           good       == {n \in Nat : n <= count => fine(n, sorted[n])}
<1>10. 0 \in good
  <2>1. last(0) = {}
    BY <1>4
  <2>2. DOMAIN sorted[0] = {} /\ sorted[0] \in Seq(Nat)
    BY <1>9
  <2>3. QED
    BY <2>1, <2>2 DEF Ascending
<1>11. ASSUME NEW n \in Nat, n \in good
       PROVE  n + 1 \in good
  <2>1. SUFFICES ASSUME n + 1 <= count
                 PROVE  fine(n + 1, sorted[n + 1])
    <3> HIDE DEF fine
    <3>1. QED
      OBVIOUS
  <2>2. n <= count
    BY <1>4, <2>1
  <2>3. PICK q : q = sorted[n]
    OBVIOUS
  <2>4. q \in Seq(Nat) /\ Ascending(q) /\ from(n, q) /\ all(n, q)
    BY <1>11, <2>2, <2>3
  <2>5. PICK k : k = count + 1 - (n + 1)
    OBVIOUS
  <2>6. k \in 1 .. count /\ k = count - n /\ n + 1 \in 1 .. count /\ (n + 1) - 1 = n
    BY <1>4, <2>1, <2>5
  <2>7. last(n) = k + 1 .. count /\ last(n + 1) = k .. count
    BY <1>4, <2>6
  <2>8. PICK v : v = d[k]
    OBVIOUS
  <2>9. PICK t : t = InsertOrdered(v, q)
    OBVIOUS
  <2>10. sorted[n + 1] = t
    <3>1. sorted[n + 1] = one(n + 1, q)
      <4> HIDE DEF one
      <4>1. QED
        BY <1>9, <2>3, <2>6
    <3>2. QED
      BY <2>5, <2>8, <2>9, <3>1
  <2>11. k .. count = {k} \cup (k + 1 .. count)
    BY <1>4, <2>6
  <2>12. v \in Nat /\ \A j \in k + 1 .. count : d[j] # v
    <3>1. \A j \in k + 1 .. count : j \in 1 .. count /\ j # k
      BY <1>4, <2>6
    <3>2. QED
      BY <1>2, <1>4, <2>6, <2>8, <3>1
  <2> HIDE DEF last
  <2>13. \A i \in DOMAIN q : q[i] # v
    BY <2>4, <2>7, <2>12
  <2>14. /\ t \in Seq(Nat) /\ Ascending(t)
         /\ \E i \in DOMAIN t : t[i] = v
         /\ \A j \in DOMAIN q : \E i \in DOMAIN t : t[i] = q[j]
         /\ \A i \in DOMAIN t : t[i] = v \/ \E j \in DOMAIN q : t[i] = q[j]
    BY <2>4, <2>9, <2>12, <2>13, OrderKept
  <2>15. ASSUME NEW i \in DOMAIN t
         PROVE  \E j \in last(n + 1) : d[j] = t[i]
    <3>1. CASE t[i] = v
      BY <2>7, <2>8, <2>11, <3>1
    <3>2. CASE \E j \in DOMAIN q : t[i] = q[j]
      BY <2>4, <2>7, <2>11, <3>2
    <3>3. QED
      BY <2>14, <3>1, <3>2
  <2>16. ASSUME NEW j \in last(n + 1)
         PROVE  \E i \in DOMAIN t : t[i] = d[j]
    <3>1. CASE j = k
      BY <2>8, <2>14, <3>1
    <3>2. CASE j \in last(n)
      <4>1. PICK i \in DOMAIN q : q[i] = d[j]
        BY <2>4, <3>2
      <4>2. QED
        BY <2>14, <4>1
    <3>3. QED
      BY <2>7, <2>11, <3>1, <3>2
  <2>17. QED
    BY <2>10, <2>14, <2>15, <2>16
<1> HIDE DEF good
<1>12. count \in good
  BY <1>4, <1>10, <1>11, NatInd
<1>13. fine(count, sorted[count])
  <2>1. count <= count
    BY <1>4
  <2> HIDE DEF fine
  <2>2. QED
    BY <1>12, <2>1 DEF good
<1>14. last(count) = 1 .. count
  BY <1>4
<1> HIDE DEF last
<1>15. QED
  BY <1>2, <1>3, <1>4, <1>13, <1>14

(***************************************************************************)
(* PoolBuilder's sizes pass the static assertions of mem::Pool, and each     *)
(* type has a list of its own size, whatever types it is given.             *)
(***************************************************************************)
THEOREM BuilderSuits == StaticAsserts /\ SizesKept
<1>1. /\ Sizes \in Seq(Nat) /\ Ascending(Sizes)
      /\ \A i \in DOMAIN TypeSizes : \E p \in Pool : Sizes[p] = TypeSizes[i]
  BY SizesOrdered DEF Pool
<1>2. PICK n \in Nat : Pool = 1 .. n
  BY <1>1 DEF Pool
<1>3. ASSUME NEW i \in DOMAIN TypeSizes
      PROVE  \E p \in Pool : Suits(p, TypeSizes[i])
  <2>1. PICK p \in Pool : Sizes[p] = TypeSizes[i]
    BY <1>1
  <2>2. \A q \in 1 .. p - 1 : q \in Pool /\ q < p
    BY <1>2
  <2>3. Sizes[p] \in Nat
    BY <1>1 DEF Pool
  <2>4. Suits(p, TypeSizes[i])
    BY <1>1, <2>1, <2>2, <2>3 DEF Suits, Ascending, Pool
  <2>5. QED
    BY <2>4
<1>4. \A p, q \in Pool : p < q => Sizes[p] < Sizes[q]
  BY <1>1 DEF Ascending, Pool
<1>5. QED
  BY <1>1, <1>3, <1>4 DEF StaticAsserts, SizesKept

-----------------------------------------------------------------------------
(* Walks *)

(***************************************************************************)
(* During a walk every taken block was taken when it began, as only the     *)
(* walking thread takes blocks, and so was every block passed; extra_blocks *)
(* is how many blocks the list lacks.  An object is constructed in the block *)
(* the call has reserved.                                                   *)
(***************************************************************************)
Walking == call.op \in {"allocate", "resize", "shrink"}

WalkInv ==
  /\ Walking => \A b \in Members(call.pool) : taken[b] => b \in call.busy
  /\ Walking => \A i \in 1 .. call.at - 1 : Walked[i] \in call.busy
  /\ call.op = "resize" => call.extra = call.count - Len(Walked)
  /\ call.op = "resize" /\ call.extra > 0 => call.at = 1
  /\ call.op = "shrink" => call.count = 0
  /\ call.op = "construct" => buffer[Walked[call.at]].is = "building"

IInv == TypeOK /\ InUseKept /\ WalkInv

LEMMA RemoveAtFacts ==
  ASSUME NEW S, NEW s \in Seq(S), NEW i \in DOMAIN s
  PROVE  /\ RemoveAt(s, i) \in Seq(S)
         /\ Len(RemoveAt(s, i)) = Len(s) - 1
         /\ \A k \in 1 .. Len(s) - 1 :
              RemoveAt(s, i)[k] = IF k < i THEN s[k] ELSE s[k + 1]
<1> DEFINE l == SubSeq(s, 1, i - 1)
           r == SubSeq(s, i + 1, Len(s))
<1>1. i \in 1 .. Len(s) /\ Len(s) \in Nat
  OBVIOUS
<1>2. l \in Seq(S) /\ Len(l) = i - 1 /\ \A k \in 1 .. i - 1 : l[k] = s[k]
  BY <1>1
<1>3. /\ r \in Seq(S) /\ Len(r) = Len(s) - i
      /\ \A k \in 1 .. Len(s) - i : r[k] = s[k + i]
  BY <1>1
<1>4. RemoveAt(s, i) = l \o r
  BY DEF RemoveAt
<1> HIDE DEF l, r
<1>5. l \o r \in Seq(S) /\ Len(l \o r) = Len(s) - 1
  BY <1>1, <1>2, <1>3
<1>6. ASSUME NEW k \in 1 .. Len(s) - 1
      PROVE  (l \o r)[k] = IF k < i THEN s[k] ELSE s[k + 1]
  <2>1. CASE k < i
    BY <1>1, <1>2, <1>3, <2>1
  <2>2. CASE ~ (k < i)
    <3>0. k \in Nat /\ k > Len(l) /\ k <= Len(l) + Len(r)
      <4>1. Len(l) = i - 1 /\ Len(r) = Len(s) - i
        BY <1>2, <1>3
      <4>2. QED
        BY <1>1, <2>2, <4>1
    <3>1. (l \o r)[k] = r[k - (i - 1)]
      <4>1. l \in Seq(S) /\ r \in Seq(S) /\ Len(l) = i - 1
        BY <1>2, <1>3
      <4>2. (l \o r)[k] = r[k - Len(l)]
        <5>1. k \in Len(l) + 1 .. Len(l) + Len(r)
          BY <3>0, <4>1
        <5>2. QED
          BY <4>1, <5>1, Joined
      <4>3. QED
        BY <4>1, <4>2
    <3>2. k - (i - 1) \in 1 .. Len(s) - i /\ k - (i - 1) + i = k + 1
      BY <1>1, <2>2
    <3>3. QED
      BY <1>3, <2>2, <3>1, <3>2
  <2>3. QED
    BY <2>1, <2>2
<1>7. QED
  BY <1>4, <1>5, <1>6

(* What the operations on lists do to the set of their blocks. *)
LEMMA RangeRemoveAt ==
  ASSUME NEW S, NEW s \in Seq(S), NEW i \in DOMAIN s
  PROVE  /\ Range(RemoveAt(s, i)) \subseteq Range(s)
         /\ Range(s) \subseteq Range(RemoveAt(s, i)) \cup {s[i]}
<1> DEFINE t == RemoveAt(s, i)
<1>1. /\ t \in Seq(S) /\ Len(t) = Len(s) - 1
      /\ \A k \in 1 .. Len(s) - 1 : t[k] = IF k < i THEN s[k] ELSE s[k + 1]
  BY RemoveAtFacts
<1>2. i \in 1 .. Len(s) /\ Len(s) \in Nat /\ DOMAIN s = 1 .. Len(s)
  OBVIOUS
<1> HIDE DEF t
<1>3. DOMAIN t = 1 .. Len(s) - 1
  BY <1>1, <1>2
<1>4. ASSUME NEW k \in DOMAIN t
      PROVE  t[k] \in Range(s)
  <2>1. k \in 1 .. Len(s) - 1
    BY <1>3, <1>4
  <2>2. t[k] = IF k < i THEN s[k] ELSE s[k + 1]
    BY <1>1, <2>1
  <2>3. k \in DOMAIN s /\ k + 1 \in DOMAIN s
    BY <1>2, <2>1
  <2>4. \E j \in DOMAIN s : t[k] = s[j]
    BY <2>2, <2>3
  <2>5. QED
    BY <2>4 DEF Range
<1>5. ASSUME NEW k \in DOMAIN s
      PROVE  s[k] \in Range(t) \cup {s[i]}
  <2>1. CASE k < i
    <3>1. k \in DOMAIN t /\ t[k] = s[k]
      BY <1>1, <1>2, <1>3, <2>1
    <3>2. QED
      BY <3>1 DEF Range
  <2>2. CASE k > i
    <3>1. k - 1 \in DOMAIN t /\ t[k - 1] = s[k]
      BY <1>1, <1>2, <1>3, <2>2
    <3>2. QED
      BY <3>1 DEF Range
  <2>3. CASE k = i
    BY <2>3
  <2>4. QED
    BY <1>2, <2>1, <2>2, <2>3
<1>6. QED
  BY <1>4, <1>5 DEF Range, t

LEMMA RangeAppend ==
  ASSUME NEW S, NEW s \in Seq(S), NEW b \in S
  PROVE  Range(Append(s, b)) = Range(s) \cup {b}
<1>1. /\ DOMAIN Append(s, b) = 1 .. Len(s) + 1 /\ DOMAIN s = 1 .. Len(s)
      /\ Append(s, b)[Len(s) + 1] = b
      /\ \A k \in 1 .. Len(s) : Append(s, b)[k] = s[k]
  OBVIOUS
<1>2. Len(s) \in Nat
  OBVIOUS
<1>3. Range(Append(s, b)) \subseteq Range(s) \cup {b}
  BY <1>1, <1>2 DEF Range
<1>4. Range(s) \cup {b} \subseteq Range(Append(s, b))
  BY <1>1, <1>2 DEF Range
<1>5. QED
  BY <1>3, <1>4

LEMMA RangeFront ==
  ASSUME NEW S, NEW s \in Seq(S), NEW b \in S
  PROVE  Range(<<b>> \o s) = Range(s) \cup {b}
<1>1. /\ DOMAIN (<<b>> \o s) = 1 .. Len(s) + 1 /\ DOMAIN s = 1 .. Len(s)
      /\ (<<b>> \o s)[1] = b
      /\ \A k \in 1 .. Len(s) : (<<b>> \o s)[k + 1] = s[k]
  OBVIOUS
<1>2. Len(s) \in Nat
  OBVIOUS
<1>3. ASSUME NEW k \in DOMAIN (<<b>> \o s)
      PROVE  (<<b>> \o s)[k] \in Range(s) \cup {b}
  <2>1. CASE k = 1
    BY <1>1, <2>1
  <2>2. CASE k # 1
    <3>1. k - 1 \in 1 .. Len(s) /\ (k - 1) + 1 = k
      BY <1>1, <1>2, <2>2
    <3>2. QED
      BY <1>1, <3>1 DEF Range
  <2>3. QED
    BY <2>1, <2>2
<1> DEFINE t == <<b>> \o s
<1>a. DOMAIN t = 1 .. Len(s) + 1 /\ t[1] = b /\ \A k \in 1 .. Len(s) : t[k + 1] = s[k]
  BY <1>1
<1> HIDE DEF t
<1>b. b \in Range(t)
  BY <1>a, <1>2 DEF Range
<1>c. ASSUME NEW k \in 1 .. Len(s)
      PROVE  s[k] \in Range(t)
  <2>1. k + 1 \in DOMAIN t /\ t[k + 1] = s[k]
    BY <1>a, <1>2
  <2>2. QED
    BY <2>1 DEF Range
<1>4. Range(s) \cup {b} \subseteq Range(<<b>> \o s)
  BY <1>1, <1>b, <1>c DEF Range, t
<1>5. QED
  BY <1>3, <1>4 DEF Range

(* The static assertions give every call a list to begin with. *)
LEMMA PoolFacts ==
  /\ Pool = 1 .. Len(Sizes) /\ Len(Sizes) \in Pool /\ Pool \subseteq Nat
  /\ \A i \in DOMAIN TypeSizes : SuitablePool(TypeSizes[i]) \in Pool
<1>1. Pool = 1 .. Len(Sizes) /\ Len(Sizes) \in Nat
  BY BuilderSuits DEF StaticAsserts, Pool
<1>2. 1 \in DOMAIN TypeSizes
  BY PoolAssumption
<1>3. \E p \in Pool : TRUE
  BY <1>2, BuilderSuits DEF StaticAsserts
<1>4. \A i \in DOMAIN TypeSizes : SuitablePool(TypeSizes[i]) \in Pool
  BY BuilderSuits DEF StaticAsserts, SuitablePool
<1>5. QED
  BY <1>1, <1>3, <1>4

(* A new walk satisfies what is required of walks. *)
LEMMA WalkFacts ==
  ASSUME TypeOK, NEW op \in {"resize", "shrink"}, NEW p \in Pool, NEW n \in Nat,
         op = "shrink" => n = 0,
         call' = Walk(op, p, n), UNCHANGED <<blocks, taken, buffer>>
  PROVE  TypeOK' /\ WalkInv'
<1>1. Len(blocks[p]) \in Nat
  BY DEF TypeOK
<1>2. p \in Nat
  BY PoolFacts
<1>3. Busy(p) \subseteq Block
  BY DEF TypeOK, Busy, Members, Range
<1>4. call' \in Call
  BY <1>1, <1>2, <1>3 DEF Walk, Call
<1>5. call'.op = op /\ call'.pool = p /\ call'.at = 1 /\ call'.busy = Busy(p)
      /\ call'.count = n /\ (op = "resize" => call'.extra = n - Len(blocks[p]))
  BY DEF Walk
<1>6. TypeOK'
  BY <1>1, <1>4, <1>5 DEF TypeOK
<1>7. WalkInv'
  BY <1>5 DEF WalkInv, Walking, Busy, Walked, Members
<1>8. QED
  BY <1>6, <1>7

LEMMA InitInv == Init => IInv
<1> SUFFICES ASSUME Init
             PROVE  IInv
  OBVIOUS
<1>1. blocks \in [Pool -> Seq(Block)]
  <2>1. InitialCount \in Nat
    BY PoolAssumption
  <2>2. [1 .. InitialCount -> Block] \subseteq Seq(Block)
    BY <2>1
  <2>3. QED
    BY <2>2 DEF Init
<1>2. call = NoCall /\ call.op = "none"
  BY DEF Init, NoCall
<1>3. NoCall \in Call
  BY DEF NoCall, Call
<1>4. TypeOK
  BY <1>1, <1>2, <1>3 DEF Init, TypeOK, Raw, Contents
<1>5. InUseKept
  BY DEF Init, InUseKept, Raw
<1>6. WalkInv
  BY <1>2 DEF WalkInv, Walking
<1>7. QED
  BY <1>4, <1>5, <1>6 DEF IInv

-----------------------------------------------------------------------------
(* Steps that change neither lists nor blocks.                               *)

LEMMA QuietInUse ==
  ASSUME IInv, UNCHANGED <<blocks, taken, buffer>>
  PROVE  InUseKept'
BY DEF IInv, InUseKept, InLists, Members

LEMMA BeginAllocateInv ==
  ASSUME IInv, NEW i \in DOMAIN TypeSizes, BeginAllocate(TypeSizes[i])
  PROVE  IInv'
<1> DEFINE p == SuitablePool(TypeSizes[i])
<1>1. p \in Pool /\ p \in Nat
  BY PoolFacts
<1>2. TypeSizes[i] \in Nat
  BY PoolAssumption
<1>3. /\ call' = [op |-> "allocate", pool |-> p, at |-> 1, size |-> TypeSizes[i],
                  count |-> 0, extra |-> 0, busy |-> Busy(p)]
      /\ UNCHANGED <<blocks, taken, buffer>>
  BY DEF BeginAllocate, Begin
<1> HIDE DEF p
<1>4. Busy(p) \subseteq Block
  BY <1>1 DEF IInv, TypeOK, Busy, Members, Range
<1>5. call' \in Call
  BY <1>1, <1>2, <1>3, <1>4 DEF Call
<1>6. Len(blocks[p]) \in Nat
  BY <1>1 DEF IInv, TypeOK
<1>7. TypeOK'
  BY <1>1, <1>3, <1>5, <1>6 DEF IInv, TypeOK
<1>8. WalkInv'
  BY <1>3 DEF WalkInv, Walking, Busy, Members
<1>9. QED
  BY <1>3, <1>7, <1>8, QuietInUse DEF IInv

LEMMA NoCallInv ==
  ASSUME IInv, call' = NoCall, UNCHANGED blocks,
         taken' \in [Block -> BOOLEAN], buffer' \in [Block -> Contents]
  PROVE  TypeOK' /\ WalkInv'
<1>1. NoCall \in Call /\ NoCall.op = "none"
  BY DEF NoCall, Call
<1>2. QED
  BY <1>1 DEF IInv, TypeOK, WalkInv, Walking

LEMMA BeginWalkInv ==
  ASSUME IInv, BeginShrink \/ \E n \in Counts : BeginResize(n)
  PROVE  IInv'
<1>1. UNCHANGED <<blocks, taken, buffer>>
  BY DEF BeginShrink, BeginResize
<1>2. CASE BeginShrink
  <2>1. call' = Walk("shrink", Len(Sizes), 0)
    BY <1>2 DEF BeginShrink, Begin
  <2>2. QED
    BY <1>1, <2>1, PoolFacts, WalkFacts, QuietInUse DEF IInv
<1>3. CASE \E n \in Counts : BeginResize(n)
  <2>1. PICK n \in Counts : BeginResize(n)
    BY <1>3
  <2>2. call' = Walk("resize", Len(Sizes), n) /\ n \in Nat
    BY <2>1, PoolAssumption DEF BeginResize, Begin
  <2>3. QED
    BY <1>1, <2>2, PoolFacts, WalkFacts, QuietInUse DEF IInv
<1>4. QED
  BY <1>2, <1>3

LEMMA LeavePoolInv ==
  ASSUME IInv, LeavePool
  PROVE  IInv'
<1>1. UNCHANGED <<blocks, taken, buffer>>
  BY DEF LeavePool
<1>2. InUseKept'
  BY <1>1, QuietInUse
<1>3. CASE call.pool = 1
  <2>1. call' = NoCall
    BY <1>3 DEF LeavePool
  <2>2. QED
    BY <1>1, <1>2, <2>1, NoCallInv DEF IInv, TypeOK
<1>4. CASE call.pool # 1
  <2>1. call' = Walk(call.op, call.pool - 1, call.count)
    BY <1>4 DEF LeavePool
  <2>2. call.op \in {"resize", "shrink"}
    BY DEF LeavePool, WalkOver
  <2>3. call.pool - 1 \in Pool
    BY <1>4, <2>2, PoolFacts DEF IInv, TypeOK
  <2>4. call.count \in Nat /\ (call.op = "shrink" => call.count = 0)
    BY DEF IInv, TypeOK, Call, WalkInv
  <2>5. QED
    BY <1>1, <1>2, <2>1, <2>2, <2>3, <2>4, WalkFacts DEF IInv
<1>5. QED
  BY <1>3, <1>4

LEMMA SkipTakenInv ==
  ASSUME IInv, SkipTaken
  PROVE  IInv'
<1>1. UNCHANGED <<blocks, taken, buffer>> /\ call' = [call EXCEPT !.at = @ + 1]
  BY DEF SkipTaken
<1>2. /\ call.at \in DOMAIN Walked /\ taken[Walked[call.at]]
      /\ call.op \in {"allocate", "resize", "shrink"}
      /\ call.op = "resize" => call.extra < 0
  BY DEF SkipTaken, Testing
<1>3. call \in Call /\ call.pool \in Pool /\ blocks[call.pool] \in Seq(Block)
  BY <1>2 DEF IInv, TypeOK
<1>4. /\ call'.op = call.op /\ call'.pool = call.pool /\ call'.at = call.at + 1
      /\ call'.busy = call.busy /\ call'.extra = call.extra
      /\ call'.count = call.count /\ call' \in Call
  BY <1>1, <1>3 DEF Call
<1>5. /\ DOMAIN Walked = 1 .. Len(Walked) /\ Len(Walked) \in Nat
      /\ call.at \in 1 .. Len(Walked)
  BY <1>2, <1>3 DEF Walked
<1>6. TypeOK'
  BY <1>1, <1>2, <1>3, <1>4, <1>5 DEF IInv, TypeOK, Walked
<1>7. Walked[call.at] \in call.busy
  BY <1>2 DEF IInv, WalkInv, Walking, Members, Range, Walked
<1>8. \A i \in 1 .. call'.at - 1 : i = call.at \/ i \in 1 .. call.at - 1
  BY <1>4, <1>5
<1>9. ~ (call.op = "resize" /\ call.extra > 0)
  BY <1>2, <1>3 DEF Call
<1>10. WalkInv'
  BY <1>1, <1>2, <1>4, <1>7, <1>8, <1>9 DEF IInv, WalkInv, Walking, Members, Walked
<1>11. QED
  BY <1>1, <1>6, <1>10, QuietInUse DEF IInv

-----------------------------------------------------------------------------
(* Steps that replace the list walked.                                       *)

LEMMA ListStep ==
  ASSUME TypeOK, NEW p \in Pool, NEW s \in Seq(Block), NEW D,
         blocks' = [blocks EXCEPT ![p] = s],
         Range(blocks[p]) \subseteq Range(s) \cup D
  PROVE  /\ blocks' \in [Pool -> Seq(Block)] /\ blocks'[p] = s
         /\ InLists \subseteq InLists' \cup D
         /\ InLists' \subseteq InLists \cup Range(s)
         /\ Range(s) \subseteq InLists'
<1>1. /\ blocks' \in [Pool -> Seq(Block)] /\ blocks'[p] = s
      /\ \A q \in Pool \ {p} : blocks'[q] = blocks[q]
  BY DEF TypeOK
<1>2. ASSUME NEW q \in Pool
      PROVE  Range(blocks[q]) \subseteq Range(blocks'[q]) \cup D
  BY <1>1
<1>3. ASSUME NEW q \in Pool
      PROVE  Range(blocks'[q]) \subseteq Range(blocks[q]) \cup Range(s)
  BY <1>1
<1>4. QED
  BY <1>1, <1>2, <1>3 DEF InLists, Members

LEMMA TakeFreeFacts ==
  ASSUME IInv, TakeFree
  PROVE  /\ Walked[call.at] \in Block /\ ~ taken[Walked[call.at]]
         /\ InLists' = InLists /\ Walked[call.at] \in InLists
         /\ Walked[call.at] \in Members(call.pool)
         /\ \A q \in Pool : Members(q)' = Members(q)
         /\ call.pool \in Pool /\ blocks' \in [Pool -> Seq(Block)]
         /\ Len(blocks'[call.pool]) = Len(Walked)
         /\ blocks'[call.pool][Len(Walked)] = Walked[call.at]
<1> DEFINE b == Walked[call.at]
           p == call.pool
           r == RemoveAt(Walked, call.at)
           s == Append(r, b)
<1>1. /\ call.op = "allocate" /\ call.at \in DOMAIN Walked /\ ~ taken[b]
      /\ blocks' = [blocks EXCEPT ![p] = Append(RemoveAt(@, call.at), b)]
  BY DEF TakeFree, Testing
<1>2. p \in Pool /\ Walked \in Seq(Block) /\ blocks[p] = Walked
  BY <1>1 DEF IInv, TypeOK, Walked
<1>3. b \in Block
  BY <1>1, <1>2
<1>4. r \in Seq(Block) /\ Len(r) = Len(Walked) - 1
  BY <1>1, <1>2, RemoveAtFacts
<1>5. /\ Range(r) \subseteq Range(Walked)
      /\ Range(Walked) \subseteq Range(r) \cup {b}
  BY <1>1, <1>2, RangeRemoveAt
<1>6. b \in Range(Walked)
  BY <1>1 DEF Range
<1>7. blocks' = [blocks EXCEPT ![p] = s]
  BY <1>1, <1>2 DEF IInv, TypeOK
<1> HIDE DEF b, r
<1>8. /\ s \in Seq(Block) /\ Len(s) = Len(Walked) /\ Range(s) = Range(r) \cup {b}
      /\ s[Len(Walked)] = b
  <2>1. Len(Walked) \in Nat
    BY <1>2
  <2>2. QED
    BY <1>3, <1>4, <2>1, RangeAppend
<1> HIDE DEF p, s
<1>9. Range(s) = Range(Walked)
  BY <1>5, <1>6, <1>8
<1>10. /\ blocks' \in [Pool -> Seq(Block)] /\ blocks'[p] = s
       /\ InLists \subseteq InLists' /\ InLists' \subseteq InLists \cup Range(s)
  BY <1>2, <1>7, <1>8, <1>9, ListStep DEF IInv
<1>11. Range(s) \subseteq InLists
  BY <1>2, <1>9 DEF InLists, Members
<1>12. \A q \in Pool : Members(q)' = Members(q)
  <2>1. \A q \in Pool \ {p} : blocks'[q] = blocks[q]
    BY <1>7 DEF IInv, TypeOK
  <2>2. QED
    BY <1>2, <1>9, <1>10, <2>1 DEF Members
<1>13. b \in Members(p)
  BY <1>2, <1>6 DEF Members
<1>14. QED
  BY <1>1, <1>2, <1>3, <1>6, <1>8, <1>9, <1>10, <1>11, <1>12, <1>13 DEF b, p

LEMMA TakeFreeInv ==
  ASSUME IInv, TakeFree
  PROVE  IInv'
<1> DEFINE b == Walked[call.at]
<1>1. /\ b \in Block /\ InLists' = InLists /\ b \in InLists
      /\ call.pool \in Pool /\ blocks' \in [Pool -> Seq(Block)]
      /\ Len(blocks'[call.pool]) = Len(Walked)
      /\ blocks'[call.pool][Len(Walked)] = b
  BY TakeFreeFacts
<1>2. /\ taken' = [taken EXCEPT ![b] = TRUE]
      /\ buffer' = [buffer EXCEPT ![b] = Building(call.size)]
      /\ call' = [call EXCEPT !.op = "construct", !.at = Len(Walked)]
      /\ call.at \in DOMAIN Walked
  BY DEF TakeFree, Testing
<1> HIDE DEF b
<1>3. call \in Call /\ Walked \in Seq(Block)
  BY <1>1 DEF IInv, TypeOK, Walked
<1>4. Len(Walked) \in Nat /\ Len(Walked) >= 1
  BY <1>2, <1>3
<1>5. call' \in Call /\ call'.op = "construct" /\ call'.pool = call.pool
      /\ call'.at = Len(Walked)
  BY <1>2, <1>3, <1>4 DEF Call
<1>6. buffer' \in [Block -> Contents] /\ taken' \in [Block -> BOOLEAN]
  BY <1>2, <1>3 DEF IInv, TypeOK, Building, Contents, Call
<1>7. DOMAIN (blocks'[call.pool]) = 1 .. Len(Walked)
  BY <1>1
<1>8. TypeOK'
  BY <1>1, <1>4, <1>5, <1>6, <1>7 DEF TypeOK
<1>9. InUseKept'
  BY <1>1, <1>2 DEF IInv, TypeOK, InUseKept
<1>10. Walked'[call'.at] = b
  BY <1>1, <1>5 DEF Walked
<1>11. buffer'[b].is = "building"
  BY <1>1, <1>2 DEF IInv, TypeOK, Building
<1>12. WalkInv'
  BY <1>5, <1>10, <1>11 DEF WalkInv, Walking
<1>13. QED
  BY <1>8, <1>9, <1>12 DEF IInv

LEMMA GrowInv ==
  ASSUME IInv, Grow
  PROVE  /\ IInv'
         /\ \E b \in Block \ InLists :
              /\ buffer' = [buffer EXCEPT ![b] = Building(call.size)]
              /\ InLists' = InLists \cup {b}
<1> DEFINE p == call.pool
<1>1. PICK b \in Fresh :
        /\ taken'  = [taken EXCEPT ![b] = TRUE]
        /\ buffer' = [buffer EXCEPT ![b] = Building(call.size)]
        /\ blocks' = [blocks EXCEPT ![p] = Append(@, b)]
  BY DEF Grow
<1>2. /\ call.op = "allocate" /\ call.at = Len(Walked) + 1
      /\ call' = [call EXCEPT !.op = "construct"]
  BY DEF Grow
<1>3. b \in Block /\ b \notin InLists
  BY DEF Fresh
<1>4. call \in Call /\ p \in Pool /\ Walked \in Seq(Block) /\ blocks[p] = Walked
  BY <1>2 DEF IInv, TypeOK, Walked
<1> DEFINE s == Append(Walked, b)
<1>5. blocks' = [blocks EXCEPT ![p] = s]
  BY <1>1, <1>4 DEF IInv, TypeOK
<1>6. s \in Seq(Block) /\ Len(s) = Len(Walked) + 1 /\ Len(Walked) \in Nat
      /\ Range(s) = Range(Walked) \cup {b} /\ s[Len(Walked) + 1] = b
  BY <1>3, <1>4, RangeAppend
<1> HIDE DEF p, s
<1>7. /\ blocks' \in [Pool -> Seq(Block)] /\ blocks'[p] = s
      /\ InLists \subseteq InLists' /\ InLists' \subseteq InLists \cup Range(s)
      /\ Range(s) \subseteq InLists'
  BY <1>4, <1>5, <1>6, ListStep DEF IInv
<1>8. Range(Walked) \subseteq InLists
  BY <1>4 DEF InLists, Members
<1>9. InLists' = InLists \cup {b}
  BY <1>6, <1>7, <1>8
<1>10. call' \in Call /\ call'.op = "construct" /\ call'.pool = p
       /\ call'.at = Len(Walked) + 1
  BY <1>2, <1>4 DEF Call, p
<1>11. buffer' \in [Block -> Contents] /\ taken' \in [Block -> BOOLEAN]
  BY <1>1, <1>4 DEF IInv, TypeOK, Building, Contents, Call
<1>12. DOMAIN (blocks'[p]) = 1 .. Len(Walked) + 1
  BY <1>6, <1>7
<1>13. TypeOK'
  BY <1>4, <1>6, <1>7, <1>10, <1>11, <1>12 DEF TypeOK
<1>14. InUseKept'
  BY <1>1, <1>3, <1>9 DEF IInv, TypeOK, InUseKept
<1>15. Walked'[call'.at] = b
  BY <1>6, <1>7, <1>10 DEF Walked
<1>16. buffer'[b].is = "building"
  BY <1>1, <1>3 DEF IInv, TypeOK, Building
<1>17. WalkInv'
  BY <1>10, <1>15, <1>16 DEF WalkInv, Walking
<1>18. QED
  BY <1>1, <1>3, <1>9, <1>13, <1>14, <1>17 DEF IInv

LEMMA ExtendInv ==
  ASSUME IInv, Extend
  PROVE  /\ IInv'
         /\ buffer' = buffer /\ \E b \in Block : InLists' = InLists \cup {b}
<1> DEFINE p == call.pool
<1>1. PICK b \in Fresh :
        /\ blocks' = [blocks EXCEPT ![p] = <<b>> \o @]
        /\ taken'  = [taken EXCEPT ![b] = FALSE]
  BY DEF Extend
<1>2. /\ call.op = "resize" /\ call.extra > 0 /\ buffer' = buffer
      /\ call' = [call EXCEPT !.extra = @ - 1]
  BY DEF Extend
<1>3. b \in Block /\ b \notin InLists
  BY DEF Fresh
<1>4. call \in Call /\ p \in Pool /\ Walked \in Seq(Block) /\ blocks[p] = Walked
  BY <1>2 DEF IInv, TypeOK, Walked
<1> DEFINE s == <<b>> \o Walked
<1>5. blocks' = [blocks EXCEPT ![p] = s]
  BY <1>1, <1>4 DEF IInv, TypeOK
<1>6. /\ s \in Seq(Block) /\ Len(s) = Len(Walked) + 1 /\ Len(Walked) \in Nat
      /\ s[1] = b /\ \A k \in 1 .. Len(Walked) : s[k + 1] = Walked[k]
  BY <1>3, <1>4
<1>7. Range(s) = Range(Walked) \cup {b}
  BY <1>3, <1>4, RangeFront
<1> HIDE DEF p, s
<1>8. /\ blocks' \in [Pool -> Seq(Block)] /\ blocks'[p] = s
      /\ InLists \subseteq InLists' /\ InLists' \subseteq InLists \cup Range(s)
      /\ Range(s) \subseteq InLists'
  BY <1>4, <1>5, <1>6, <1>7, ListStep DEF IInv
<1>9. Range(Walked) \subseteq InLists
  BY <1>4 DEF InLists, Members
<1>10. InLists' = InLists \cup {b}
  BY <1>7, <1>8, <1>9
<1>11. /\ call'.op = call.op /\ call'.pool = p /\ call'.at = call.at
       /\ call'.busy = call.busy /\ call'.extra = call.extra - 1
       /\ call'.count = call.count /\ call' \in Call
  BY <1>2, <1>4 DEF Call, p
<1>12. call.extra = call.count - Len(Walked) /\ call.count \in Nat
  BY <1>2, <1>4 DEF IInv, WalkInv, Call
<1>13. taken' \in [Block -> BOOLEAN]
  BY <1>1 DEF IInv, TypeOK
<1>14. call.at \in 1 .. Len(Walked) + 1
  BY <1>2, <1>4 DEF IInv, TypeOK, p
<1>15. TypeOK'
  BY <1>2, <1>4, <1>6, <1>8, <1>11, <1>13, <1>14 DEF IInv, TypeOK
<1>16. InUseKept'
  BY <1>1, <1>2, <1>3, <1>10 DEF IInv, TypeOK, InUseKept
<1>17. \A c \in Range(s) : taken'[c] => c \in call.busy
  <2>1. \A c \in Range(Walked) : taken[c] => c \in call.busy
    BY <1>2, <1>4 DEF IInv, WalkInv, Walking, Members, p
  <2>2. \A c \in Block : taken'[c] => taken[c] /\ c # b
    BY <1>1, <1>3 DEF IInv, TypeOK
  <2>3. Range(s) \subseteq Block
    BY <1>6 DEF Range
  <2>4. QED
    BY <1>7, <2>1, <2>2, <2>3
<1>18. call.at = 1
  BY <1>2 DEF IInv, WalkInv
<1>19. WalkInv'
  <2>1. Walked' = s /\ Members(call.pool)' = Range(s)
    BY <1>8, <1>11 DEF Walked, Members
  <2>2. call'.extra = call'.count - Len(s)
    BY <1>6, <1>11, <1>12
  <2>3. \A i \in 1 .. call'.at - 1 : Walked'[i] \in call'.busy
    BY <1>11, <1>18
  <2>4. \A c \in Members(call.pool)' : taken'[c] => c \in call'.busy
    BY <1>11, <1>17, <2>1
  <2>5. QED
    BY <1>2, <1>11, <1>18, <2>1, <2>2, <2>3, <2>4 DEF WalkInv
<1>20. QED
  BY <1>2, <1>3, <1>10, <1>15, <1>16, <1>19 DEF IInv

LEMMA RemoveFreeInv ==
  ASSUME IInv, RemoveFree
  PROVE  /\ IInv'
         /\ buffer' = buffer
         /\ \E b \in Block :
              buffer[b].is = "raw" /\ InLists' \in {InLists, InLists \ {b}}
<1> DEFINE p == call.pool
           b == Walked[call.at]
           s == RemoveAt(Walked, call.at)
<1>1. /\ call.op \in {"resize", "shrink"} /\ ~ taken[b]
      /\ call.at \in DOMAIN Walked
      /\ call.op = "resize" => call.extra < 0
      /\ UNCHANGED <<taken, buffer>>
      /\ call' = [call EXCEPT !.extra = IF call.op = "resize" THEN @ + 1 ELSE @]
      /\ blocks' = [blocks EXCEPT ![p] = RemoveAt(@, call.at)]
  BY DEF RemoveFree, Testing
<1>2. call \in Call /\ p \in Pool /\ Walked \in Seq(Block) /\ blocks[p] = Walked
  BY <1>1 DEF IInv, TypeOK, Walked
<1>3. b \in Block /\ buffer[b].is = "raw"
  BY <1>1, <1>2 DEF IInv, InUseKept
<1>4. blocks' = [blocks EXCEPT ![p] = s]
  BY <1>1, <1>2 DEF IInv, TypeOK
<1>5. /\ s \in Seq(Block) /\ Len(s) = Len(Walked) - 1
      /\ \A k \in 1 .. Len(Walked) - 1 :
           s[k] = IF k < call.at THEN Walked[k] ELSE Walked[k + 1]
  BY <1>1, <1>2, RemoveAtFacts
<1>6. Range(s) \subseteq Range(Walked) /\ Range(Walked) \subseteq Range(s) \cup {b}
  BY <1>1, <1>2, RangeRemoveAt
<1>7. Len(Walked) \in Nat /\ call.at \in 1 .. Len(Walked)
  BY <1>1, <1>2
<1> HIDE DEF p, b, s
<1>8. /\ blocks' \in [Pool -> Seq(Block)] /\ blocks'[p] = s
      /\ InLists \subseteq InLists' \cup {b} /\ InLists' \subseteq InLists \cup Range(s)
  BY <1>2, <1>4, <1>5, <1>6, ListStep DEF IInv
<1>9. Range(Walked) \subseteq InLists
  BY <1>2 DEF InLists, Members
<1>10. InLists' = InLists \/ InLists' = InLists \ {b}
  BY <1>6, <1>8, <1>9
<1>11. /\ call'.op = call.op /\ call'.pool = p /\ call'.at = call.at
       /\ call'.busy = call.busy /\ call'.count = call.count
       /\ call'.extra = IF call.op = "resize" THEN call.extra + 1 ELSE call.extra
       /\ call' \in Call
  BY <1>1, <1>2 DEF Call, p
<1>12. TypeOK'
  BY <1>1, <1>2, <1>5, <1>7, <1>8, <1>11 DEF IInv, TypeOK
<1>13. InUseKept'
  BY <1>1, <1>3, <1>10 DEF IInv, InUseKept
<1>14. \A c \in Range(s) : taken'[c] => c \in call.busy
  BY <1>1, <1>2, <1>6 DEF IInv, WalkInv, Walking, Members, p
<1>15. \A i \in 1 .. call.at - 1 : s[i] \in call.busy
  <2>1. ASSUME NEW i \in 1 .. call.at - 1
        PROVE  s[i] = Walked[i]
    BY <1>5, <1>7
  <2>2. QED
    BY <1>1, <2>1 DEF IInv, WalkInv, Walking
<1>16. call.op = "resize" => /\ call'.extra = call.count - Len(s)
                             /\ ~ (call'.extra > 0)
  <2>1. call.op = "resize" => call.extra = call.count - Len(Walked) /\ call.extra < 0
    BY <1>1 DEF IInv, WalkInv
  <2>2. call.extra \in Int /\ call.count \in Nat
    BY <1>2 DEF Call
  <2>3. QED
    BY <1>5, <1>7, <1>11, <2>1, <2>2
<1>17. WalkInv'
  BY <1>1, <1>8, <1>11, <1>14, <1>15, <1>16 DEF IInv, WalkInv, Walking, Members, Walked
<1>18. QED
  BY <1>1, <1>3, <1>10, <1>12, <1>13, <1>17 DEF IInv

-----------------------------------------------------------------------------
(* Steps that change a buffer.                                               *)

(* Only the block that becomes free loses its mark, and what was taken when  *)
(* a walk began is remembered.                                               *)
LEMMA BufferStep ==
  ASSUME IInv, UNCHANGED <<blocks, call>>, taken' \in [Block -> BOOLEAN],
         buffer' \in [Block -> Contents],
         \A b \in Block : taken'[b] => taken[b],
         \A b \in Block : buffer[b].is = "building" => buffer'[b] = buffer[b]
  PROVE  TypeOK' /\ WalkInv'
<1>1. TypeOK'
  BY DEF IInv, TypeOK
<1>2. \A b \in Members(call.pool) : taken'[b] => taken[b] \/ ~ Walking
  <2>1. Walking => Members(call.pool) \subseteq Block
    BY DEF IInv, TypeOK, Walking, Members, Range
  <2>2. QED
    BY <2>1
<1>3. call.op = "construct" => Walked[call.at] \in Block
  BY DEF IInv, TypeOK, Walked
<1>4. WalkInv'
  BY <1>2, <1>3 DEF IInv, WalkInv, Walking, Members, Walked
<1>5. QED
  BY <1>1, <1>4

LEMMA ConstructInv ==
  ASSUME IInv, Construct
  PROVE  IInv' /\ InUse' = InUse /\ InLists' = InLists
<1> DEFINE b == Walked[call.at]
<1>1. /\ call.op = "construct" /\ call' = NoCall /\ UNCHANGED <<blocks, taken>>
      /\ buffer' = [buffer EXCEPT ![b] = Object(call.size)]
  BY DEF Construct
<1>2. call.size \in Nat /\ b \in Block /\ buffer[b].is = "building"
  BY <1>1 DEF IInv, TypeOK, Call, Walked, WalkInv
<1> HIDE DEF b
<1>3. InLists' = InLists
  BY <1>1 DEF InLists, Members
<1>4. buffer' \in [Block -> Contents] /\ taken' \in [Block -> BOOLEAN]
  BY <1>1, <1>2 DEF IInv, TypeOK, Object, Contents
<1>5. \A c \in Block : buffer'[c].is # "raw" <=> buffer[c].is # "raw"
  BY <1>1, <1>2 DEF IInv, TypeOK, Object, b
<1>6. QED
  BY <1>1, <1>3, <1>4, <1>5, NoCallInv DEF IInv, InUseKept, InUse

LEMMA ConstructorThrowsInv ==
  ASSUME IInv, ConstructorThrows
  PROVE  /\ IInv' /\ InLists' = InLists
         /\ \E b \in InUse : InUse' = InUse \ {b}
<1> DEFINE b == Walked[call.at]
<1>1. /\ call.op = "construct" /\ call' = NoCall /\ UNCHANGED blocks
      /\ buffer' = [buffer EXCEPT ![b] = Raw]
      /\ taken'  = [taken EXCEPT ![b] = FALSE]
  BY DEF ConstructorThrows
<1>2. b \in Block /\ buffer[b].is = "building"
  BY <1>1 DEF IInv, TypeOK, Walked, WalkInv
<1> HIDE DEF b
<1>3. InLists' = InLists
  BY <1>1 DEF InLists, Members
<1>4. buffer' \in [Block -> Contents] /\ taken' \in [Block -> BOOLEAN]
  BY <1>1, <1>2 DEF IInv, TypeOK, Raw, Contents
<1>5. \A c \in Block : buffer'[c].is # "raw" <=> buffer[c].is # "raw" /\ c # b
  BY <1>1, <1>2 DEF IInv, TypeOK, Raw
<1>6. \A c \in Block : c # b => taken'[c] = taken[c]
  BY <1>1 DEF IInv, TypeOK
<1>7. InUseKept'
  BY <1>3, <1>5, <1>6 DEF IInv, InUseKept
<1>8. b \in InUse /\ InUse' = InUse \ {b}
  BY <1>2, <1>5 DEF InUse
<1>9. QED
  BY <1>1, <1>3, <1>4, <1>7, <1>8, NoCallInv DEF IInv

LEMMA DestroyInv ==
  ASSUME IInv, NEW b \in Block, Destroy(b)
  PROVE  IInv' /\ InUse' = InUse /\ InLists' = InLists
<1>1. /\ buffer[b].is = "object" /\ UNCHANGED <<blocks, taken, call>>
      /\ buffer' = [buffer EXCEPT ![b] = Dying(buffer[b].size)]
  BY DEF Destroy
<1>2. InLists' = InLists
  BY <1>1 DEF InLists, Members
<1>3. buffer[b].size \in Nat
  BY DEF IInv, TypeOK, Contents
<1>4. buffer' \in [Block -> Contents] /\ taken' \in [Block -> BOOLEAN]
  BY <1>1, <1>3 DEF IInv, TypeOK, Dying, Contents
<1>5. \A c \in Block : buffer'[c].is # "raw" <=> buffer[c].is # "raw"
  BY <1>1 DEF IInv, TypeOK, Dying
<1>6. \A c \in Block : buffer[c].is = "building" => buffer'[c] = buffer[c]
  BY <1>1 DEF IInv, TypeOK
<1>7. TypeOK' /\ WalkInv'
  BY <1>1, <1>4, <1>6, BufferStep
<1>8. QED
  BY <1>1, <1>2, <1>5, <1>7 DEF IInv, InUseKept, InUse

LEMMA ClearInv ==
  ASSUME IInv, NEW b \in Block, Clear(b)
  PROVE  /\ IInv' /\ InLists' = InLists
         /\ b \in InUse /\ InUse' = InUse \ {b}
<1>1. /\ buffer[b].is = "dying" /\ UNCHANGED <<blocks, call>>
      /\ buffer' = [buffer EXCEPT ![b] = Raw]
      /\ taken'  = [taken EXCEPT ![b] = FALSE]
  BY DEF Clear
<1>2. InLists' = InLists
  BY <1>1 DEF InLists, Members
<1>3. buffer' \in [Block -> Contents] /\ taken' \in [Block -> BOOLEAN]
  BY <1>1 DEF IInv, TypeOK, Raw, Contents
<1>4. \A c \in Block : buffer'[c].is # "raw" <=> buffer[c].is # "raw" /\ c # b
  BY <1>1 DEF IInv, TypeOK, Raw
<1>5. /\ \A c \in Block : buffer[c].is = "building" => buffer'[c] = buffer[c]
      /\ \A c \in Block : taken'[c] => taken[c]
      /\ \A c \in Block : c # b => taken'[c] = taken[c]
  BY <1>1 DEF IInv, TypeOK
<1>6. TypeOK' /\ WalkInv'
  BY <1>1, <1>3, <1>5, BufferStep
<1>7. InUseKept'
  BY <1>2, <1>4, <1>5 DEF IInv, InUseKept
<1>8. b \in InUse /\ InUse' = InUse \ {b}
  BY <1>1, <1>4 DEF InUse
<1>9. QED
  BY <1>2, <1>6, <1>7, <1>8 DEF IInv

-----------------------------------------------------------------------------
LEMMA NextInv == IInv /\ [Next]_vars => IInv'
<1> SUFFICES ASSUME IInv, [Next]_vars
             PROVE  IInv'
  OBVIOUS
<1>1. ASSUME NEW i \in DOMAIN TypeSizes, BeginAllocate(TypeSizes[i])
      PROVE  IInv'
  BY <1>1, BeginAllocateInv
<1>2. CASE SkipTaken
  BY <1>2, SkipTakenInv
<1>3. CASE TakeFree
  BY <1>3, TakeFreeInv
<1>4. CASE Grow
  BY <1>4, GrowInv
<1>5. CASE Construct
  BY <1>5, ConstructInv
<1>6. CASE ConstructorThrows
  BY <1>6, ConstructorThrowsInv
<1>7. ASSUME NEW b \in Block, Destroy(b) \/ Clear(b)
      PROVE  IInv'
  BY <1>7, DestroyInv, ClearInv
<1>8. CASE BeginShrink \/ \E n \in Counts : BeginResize(n)
  BY <1>8, BeginWalkInv
<1>9. CASE Extend
  BY <1>9, ExtendInv
<1>10. CASE RemoveFree
  BY <1>10, RemoveFreeInv
<1>11. CASE LeavePool
  BY <1>11, LeavePoolInv
<1>12. CASE UNCHANGED vars
  BY <1>12 DEF vars, IInv, TypeOK, InUseKept, InLists, Members, WalkInv, Walking, Walked
<1>13. QED
  BY <1>1, <1>2, <1>3, <1>4, <1>5, <1>6, <1>7, <1>8, <1>9, <1>10, <1>11, <1>12 DEF Next

(***************************************************************************)
(* The strengthened invariant, from which the following theorems derive.    *)
(***************************************************************************)
THEOREM InductiveInvariant == Spec => []IInv
BY InitInv, NextInv, PTL DEF Spec

(***************************************************************************)
(* The lists hold blocks, and no walk leaves its list.                      *)
(***************************************************************************)
THEOREM TypeCorrect == Spec => []TypeOK
<1>1. IInv => TypeOK
  BY DEF IInv
<1>2. QED
  BY <1>1, InductiveInvariant, PTL

(***************************************************************************)
(* A block with an object being made, living or dying stays in its list and *)
(* taken, whatever Deallocate does on other threads during a walk.          *)
(***************************************************************************)
THEOREM BlocksInUseAreKept == Spec => []InUseKept
<1>1. IInv => InUseKept
  BY DEF IInv
<1>2. QED
  BY <1>1, InductiveInvariant, PTL

(***************************************************************************)
(* Allocate takes memory from the heap only if no block of its list was     *)
(* free when it began.                                                      *)
(***************************************************************************)
THEOREM GrowthIsNecessary == Spec => GrowsOnlyWhenFull
<1>1. ASSUME IInv, Grow
      PROVE  Members(call.pool) \subseteq call.busy
  <2>1. call.op = "allocate" /\ call.at = Len(Walked) + 1
    BY <1>1 DEF Grow
  <2>2. Walked \in Seq(Block)
    BY <1>1, <2>1 DEF IInv, TypeOK, Walked
  <2>3. DOMAIN Walked = 1 .. call.at - 1
    BY <2>1, <2>2
  <2>4. QED
    BY <1>1, <2>1, <2>3 DEF IInv, WalkInv, Walking, Members, Range, Walked
<1>2. IInv => [Grow => Members(call.pool) \subseteq call.busy]_vars
  BY <1>1
<1>3. QED
  BY <1>2, InductiveInvariant, PTL DEF GrowsOnlyWhenFull

(***************************************************************************)
(* ShrinkToFit and Resize leave no surplus block that was free all the time. *)
(***************************************************************************)
THEOREM SurplusIsGivenBack == Spec => GivesBackFree
<1> DEFINE Given ==
      \/ call.op = "resize" /\ Len(Walked) = call.count
      \/ Len(Walked) >= call.count /\ Members(call.pool) \subseteq call.busy
<1>1. ASSUME IInv, LeavePool
      PROVE  Given
  <2>1. WalkOver /\ call.op \in {"resize", "shrink"}
    BY <1>1 DEF LeavePool, WalkOver
  <2>2. Walked \in Seq(Block) /\ call \in Call
    BY <1>1, <2>1 DEF IInv, TypeOK, Walked
  <2>3. Len(Walked) \in Nat /\ call.count \in Nat
    BY <2>2 DEF Call
  <2>4. CASE call.op = "resize" /\ call.extra = 0
    BY <1>1, <2>3, <2>4 DEF IInv, WalkInv
  <2>5. CASE call.at = Len(Walked) + 1 /\ (call.op = "resize" => call.extra < 0)
    <3>1. DOMAIN Walked = 1 .. call.at - 1
      BY <2>2, <2>5
    <3>2. Members(call.pool) \subseteq call.busy
      BY <1>1, <2>1, <3>1 DEF IInv, WalkInv, Walking, Members, Range, Walked
    <3>3. Len(Walked) >= call.count
      BY <1>1, <2>1, <2>3, <2>5 DEF IInv, WalkInv
    <3>4. QED
      BY <3>2, <3>3
  <2>6. QED
    BY <2>1, <2>4, <2>5 DEF WalkOver
<1>2. IInv => [LeavePool => Given]_vars
  BY <1>1
<1>3. QED
  BY <1>2, InductiveInvariant, PTL DEF GivesBackFree

-----------------------------------------------------------------------------
(* The refinement of Allocator.                                              *)

LEMMA MemoryInit == IInv /\ Init => Memory!Init
<1> SUFFICES ASSUME IInv, Init
             PROVE  InLists \subseteq Block /\ InUse = {}
  BY DEF Memory!Init
<1>1. InLists \subseteq Block
  BY DEF IInv, TypeOK, InLists, Members, Range
<1>2. QED
  BY <1>1 DEF Init, InUse, Raw

LEMMA MemoryNext ==
  IInv /\ [Next]_vars => [Memory!Next]_<<InLists, InUse>>
<1> SUFFICES ASSUME IInv, [Next]_vars
             PROVE  Memory!Next \/ UNCHANGED <<InLists, InUse>>
  OBVIOUS
<1>1. CASE UNCHANGED <<blocks, buffer>>
  BY <1>1 DEF InLists, Members, InUse
<1>2. CASE TakeFree
  <2> DEFINE b == Walked[call.at]
  <2>1. /\ b \in Block /\ ~ taken[b] /\ InLists' = InLists /\ b \in InLists
    BY <1>2, TakeFreeFacts
  <2>2. buffer' = [buffer EXCEPT ![b] = Building(call.size)]
    BY <1>2 DEF TakeFree
  <2> HIDE DEF b
  <2>3. b \notin InUse
    BY <2>1 DEF IInv, InUseKept, InUse
  <2>4. InUse' = InUse \cup {b}
    BY <2>1, <2>2 DEF IInv, TypeOK, InUse, Building
  <2>5. Memory!Acquire(b)
    BY <2>1, <2>3, <2>4 DEF Memory!Acquire
  <2>6. QED
    BY <2>1, <2>5 DEF Memory!Next
<1>3. CASE Grow
  <2>1. PICK b \in Block \ InLists :
          /\ buffer' = [buffer EXCEPT ![b] = Building(call.size)]
          /\ InLists' = InLists \cup {b}
    BY <1>3, GrowInv
  <2>2. b \notin InUse
    BY <2>1 DEF IInv, InUseKept, InUse
  <2>3. InUse' = InUse \cup {b}
    BY <2>1 DEF IInv, TypeOK, InUse, Building
  <2>4. Memory!Acquire(b)
    BY <2>1, <2>2, <2>3 DEF Memory!Acquire
  <2>5. QED
    BY <2>1, <2>4 DEF Memory!Next
<1>4. CASE Construct
  BY <1>4, ConstructInv
<1>5. CASE ConstructorThrows
  <2>1. PICK b \in InUse : InUse' = InUse \ {b} /\ InLists' = InLists
    BY <1>5, ConstructorThrowsInv
  <2>2. QED
    BY <2>1 DEF Memory!Next, Memory!Release, InUse
<1>6. ASSUME NEW b \in Block, Destroy(b)
      PROVE  UNCHANGED <<InLists, InUse>>
  BY <1>6, DestroyInv
<1>7. ASSUME NEW b \in Block, Clear(b)
      PROVE  Memory!Next
  <2>1. b \in InUse /\ InUse' = InUse \ {b} /\ InLists' = InLists
    BY <1>7, ClearInv
  <2>2. QED
    BY <2>1 DEF Memory!Next, Memory!Release
<1>8. CASE Extend
  <2>1. PICK b \in Block : InLists' = InLists \cup {b} /\ buffer' = buffer
    BY <1>8, ExtendInv
  <2>2. InUse' = InUse
    BY <2>1 DEF InUse
  <2>3. QED
    BY <2>1, <2>2 DEF Memory!Next, Memory!Reserve
<1>9. CASE RemoveFree
  <2>1. PICK b \in Block :
          /\ buffer[b].is = "raw" /\ InLists' \in {InLists, InLists \ {b}}
          /\ buffer' = buffer
    BY <1>9, RemoveFreeInv
  <2>2. InUse' = InUse /\ b \notin InUse
    BY <2>1 DEF InUse
  <2>3. QED
    BY <2>1, <2>2 DEF Memory!Next, Memory!GiveBack
<1>10. QED
  BY <1>1, <1>2, <1>3, <1>4, <1>5, <1>6, <1>7, <1>8, <1>9
     DEF Next, vars, BeginAllocate, SkipTaken, BeginShrink, BeginResize, LeavePool

(***************************************************************************)
(* The pool implements the allocator, for any sizes, addresses and counts.  *)
(***************************************************************************)
THEOREM PoolIsAllocator == Spec => AllocatorSpec
<1>1. Spec => Memory!Init
  BY InitInv, MemoryInit DEF Spec
<1>2. QED
  BY <1>1, MemoryNext, InductiveInvariant, PTL DEF Spec, AllocatorSpec, Memory!Spec

-----------------------------------------------------------------------------
(***************************************************************************)
(* Objects are in the lists PoolFinder chose for them: no block is in two   *)
(* lists, and a call keeps the size it was made for.                        *)
(***************************************************************************)
Disjoint == \A p, q \in Pool : p # q => Members(p) \cap Members(q) = {}
Served   == \A p \in Pool : \A b \in Members(p) :
              buffer[b].is # "raw" => Suits(p, buffer[b].size)
CallServed ==
  /\ call.op \in {"allocate", "construct"} => Suits(call.pool, call.size)
  /\ call.op = "construct" => buffer[Walked[call.at]].size = call.size

FitInv == Disjoint /\ Served /\ CallServed

LEMMA BlocksOfLists ==
  ASSUME TypeOK
  PROVE  InLists \subseteq Block
BY DEF TypeOK, InLists, Members, Range

(* The lists change by a block at most, and no other buffer changes. *)
LEMMA FitLists ==
  ASSUME Disjoint, Served, NEW p \in Pool, NEW b,
         b \in Members(p) \/ b \notin InLists,
         \A q \in Pool \ {p} : Members(q)' \subseteq Members(q),
         Members(p)' \subseteq Members(p) \cup {b},
         \A c \in InLists \ {b} : buffer'[c] = buffer[c],
         buffer'[b].is # "raw" => Suits(p, buffer'[b].size)
  PROVE  Disjoint' /\ Served'
<1>1. \A q \in Pool : Members(q) \subseteq InLists
  BY DEF InLists
<1>2. \A q \in Pool \ {p} : b \notin Members(q)
  BY <1>1 DEF Disjoint
<1>3. Disjoint'
  <2>1. SUFFICES ASSUME NEW q \in Pool, NEW r \in Pool, q # r, NEW c,
                        c \in Members(q)', c \in Members(r)'
                 PROVE  FALSE
    BY DEF Disjoint
  <2>2. c \in Members(q) \/ (q = p /\ c = b)
    BY <2>1
  <2>3. c \in Members(r) \/ (r = p /\ c = b)
    BY <2>1
  <2>4. QED
    BY <1>2, <2>1, <2>2, <2>3 DEF Disjoint
<1>4. Served'
  <2>1. SUFFICES ASSUME NEW q \in Pool, NEW c \in Members(q)', buffer'[c].is # "raw"
                 PROVE  Suits(q, buffer'[c].size)
    BY DEF Served
  <2>2. CASE c = b
    BY <1>2, <2>1, <2>2
  <2>3. CASE c # b
    <3>1. c \in Members(q) /\ buffer'[c] = buffer[c]
      BY <1>1, <2>1, <2>3
    <3>2. QED
      BY <2>1, <3>1 DEF Served
  <2>4. QED
    BY <2>2, <2>3
<1>5. QED
  BY <1>3, <1>4

LEMMA FitInit == Init => FitInv
<1> SUFFICES ASSUME Init
             PROVE  FitInv
  OBVIOUS
<1>1. PICK f \in [Pool -> [1 .. InitialCount -> Block]] :
        /\ \A p, q \in Pool : \A i, j \in 1 .. InitialCount :
             f[p][i] = f[q][j] => p = q /\ i = j
        /\ blocks = f
  BY DEF Init
<1> DEFINE places == 1 .. InitialCount
<1>2. \A p \in Pool : /\ DOMAIN blocks[p] = places
                      /\ \A i \in places : blocks[p][i] = f[p][i] /\ f[p][i] \in Block
  <2>1. \A p \in Pool : f[p] \in [places -> Block]
    OBVIOUS
  <2>2. blocks = f
    BY <1>1
  <2> HIDE DEF places
  <2>3. QED
    BY <2>1, <2>2
<1> HIDE DEF places
<1>3. Disjoint
  <2>1. SUFFICES ASSUME NEW p \in Pool, NEW q \in Pool, NEW i \in places, NEW j \in places,
                        f[p][i] = f[q][j]
                 PROVE  p = q
    BY <1>2 DEF Disjoint, Members, Range
  <2>2. QED
    BY <1>1, <2>1 DEF places
<1>4. Served
  <2>1. \A p \in Pool : Members(p) \subseteq Block
    BY <1>2 DEF Members, Range
  <2>2. QED
    BY <2>1 DEF Init, Served, Raw
<1>5. CallServed
  BY DEF Init, CallServed, NoCall
<1>6. QED
  BY <1>3, <1>4, <1>5 DEF FitInv

(* Steps of the walk that leave lists and buffers alone. *)
LEMMA FitQuiet ==
  ASSUME IInv, FitInv, UNCHANGED <<blocks, buffer>>,
         \/ call'.op \notin {"allocate", "construct"}
         \/ call'.op = "allocate" /\ Suits(call'.pool, call'.size)
  PROVE  FitInv'
<1>1. Disjoint' /\ Served'
  BY DEF FitInv, Disjoint, Served, Members
<1>2. CallServed'
  BY DEF CallServed
<1>3. QED
  BY <1>1, <1>2 DEF FitInv

LEMMA FitTakeFree ==
  ASSUME IInv, FitInv, TakeFree
  PROVE  FitInv'
<1>1. PICK b : b = Walked[call.at]
  OBVIOUS
<1>2. /\ b \in Block /\ call.pool \in Pool /\ b \in Members(call.pool)
      /\ \A q \in Pool : Members(q)' = Members(q)
      /\ blocks'[call.pool][Len(Walked)] = b
  BY <1>1, TakeFreeFacts
<1>3. /\ buffer' = [buffer EXCEPT ![b] = Building(call.size)]
      /\ call' = [call EXCEPT !.op = "construct", !.at = Len(Walked)]
      /\ call.op = "allocate" /\ call \in Call
  BY <1>1 DEF TakeFree, Testing, IInv, TypeOK
<1>4. Suits(call.pool, call.size)
  BY <1>3 DEF FitInv, CallServed
<1>5. buffer'[b].size = call.size
  BY <1>2, <1>3 DEF IInv, TypeOK, Building
<1>6. \A c \in InLists \ {b} : buffer'[c] = buffer[c]
  BY <1>3, BlocksOfLists DEF IInv, TypeOK
<1>7. Disjoint' /\ Served'
  BY <1>2, <1>4, <1>5, <1>6, FitLists DEF FitInv
<1>8. /\ call'.op = "construct" /\ call'.pool = call.pool /\ call'.size = call.size
      /\ call'.at = Len(Walked)
  BY <1>3 DEF Call
<1>9. Walked'[call'.at] = b
  BY <1>2, <1>8 DEF Walked
<1>10. CallServed'
  BY <1>4, <1>5, <1>8, <1>9 DEF CallServed
<1>11. QED
  BY <1>7, <1>10 DEF FitInv

(* A block from the heap is added to the list walked. *)
LEMMA FitHeap ==
  ASSUME IInv, FitInv, Grow \/ Extend
  PROVE  FitInv'
<1>1. PICK p : p = call.pool
  OBVIOUS
<1>2. /\ call \in Call /\ p \in Pool /\ blocks[p] \in Seq(Block) /\ Walked = blocks[p]
      /\ blocks \in [Pool -> Seq(Block)]
  BY <1>1 DEF Grow, Extend, IInv, TypeOK, Walked
<1>3. PICK b \in Fresh :
        \/ /\ blocks' = [blocks EXCEPT ![p] = Append(@, b)] /\ Grow
           /\ buffer' = [buffer EXCEPT ![b] = Building(call.size)]
        \/ /\ blocks' = [blocks EXCEPT ![p] = <<b>> \o @] /\ Extend
           /\ buffer' = buffer
  BY <1>1 DEF Grow, Extend
<1>4. b \in Block /\ b \notin InLists /\ buffer[b].is = "raw"
  BY <1>3 DEF Fresh, IInv, InUseKept
<1>5. /\ Range(Append(blocks[p], b)) = Range(blocks[p]) \cup {b}
      /\ Range(<<b>> \o blocks[p]) = Range(blocks[p]) \cup {b}
  BY <1>2, <1>4, RangeAppend, RangeFront
<1>6. /\ Members(p)' = Members(p) \cup {b}
      /\ \A q \in Pool \ {p} : Members(q)' = Members(q)
  BY <1>2, <1>3, <1>5 DEF Members
<1>7. \A c \in InLists \ {b} : buffer'[c] = buffer[c]
  BY <1>3, BlocksOfLists DEF IInv, TypeOK
<1>8. CASE Grow
  <2>1. ~Extend
    BY <1>8 DEF Grow, Extend
  <2>2. /\ buffer' = [buffer EXCEPT ![b] = Building(call.size)]
        /\ blocks' = [blocks EXCEPT ![p] = Append(@, b)]
        /\ call.op = "allocate" /\ call.at = Len(Walked) + 1
        /\ call' = [call EXCEPT !.op = "construct"]
    BY <1>3, <1>8, <2>1 DEF Grow
  <2>3. Suits(p, call.size)
    BY <1>1, <2>2 DEF FitInv, CallServed
  <2>4. buffer'[b].size = call.size
    BY <1>4, <2>2 DEF IInv, TypeOK, Building
  <2>5. Disjoint' /\ Served'
    BY <1>2, <1>4, <1>6, <1>7, <2>3, <2>4, FitLists DEF FitInv
  <2>6. /\ call'.op = "construct" /\ call'.pool = p /\ call'.size = call.size
        /\ call'.at = Len(blocks[p]) + 1
    BY <1>1, <1>2, <2>2 DEF Call
  <2>7. Walked'[call'.at] = b
    <3>1. blocks'[p] = Append(blocks[p], b)
      BY <1>2, <2>2
    <3>2. Append(blocks[p], b)[Len(blocks[p]) + 1] = b
      BY <1>2, <1>4
    <3>3. QED
      BY <2>6, <3>1, <3>2 DEF Walked
  <2>8. CallServed'
    BY <2>3, <2>4, <2>6, <2>7 DEF CallServed
  <2>9. QED
    BY <2>5, <2>8 DEF FitInv
<1>9. CASE Extend
  <2>1. ~Grow
    BY <1>9 DEF Grow, Extend
  <2>2. buffer' = buffer /\ call' = [call EXCEPT !.extra = @ - 1] /\ call.op = "resize"
    BY <1>9 DEF Extend
  <2>3. Disjoint' /\ Served'
    BY <1>2, <1>4, <1>6, <1>7, <2>2, FitLists DEF FitInv
  <2>4. call'.op = "resize"
    BY <1>2, <2>2 DEF Call
  <2>5. QED
    BY <2>3, <2>4 DEF FitInv, CallServed
<1>10. QED
  BY <1>8, <1>9

LEMMA FitRemoveFree ==
  ASSUME IInv, FitInv, RemoveFree
  PROVE  FitInv'
<1>1. PICK p : p = call.pool
  OBVIOUS
<1>2. /\ call \in Call /\ p \in Pool /\ blocks[p] \in Seq(Block) /\ Walked = blocks[p]
      /\ blocks \in [Pool -> Seq(Block)] /\ call.at \in DOMAIN blocks[p]
      /\ call.op \in {"resize", "shrink"}
      /\ blocks' = [blocks EXCEPT ![p] = RemoveAt(@, call.at)] /\ buffer' = buffer
      /\ call' = [call EXCEPT !.extra = IF call.op = "resize" THEN @ + 1 ELSE @]
  BY <1>1 DEF RemoveFree, Testing, IInv, TypeOK, Walked
<1>3. Range(RemoveAt(blocks[p], call.at)) \subseteq Range(blocks[p])
  BY <1>2, RangeRemoveAt
<1>4. \A q \in Pool : Members(q)' \subseteq Members(q)
  BY <1>2, <1>3 DEF Members
<1>5. Disjoint' /\ Served'
  BY <1>2, <1>4 DEF FitInv, Disjoint, Served
<1>6. call'.op = call.op
  BY <1>2 DEF Call
<1>7. QED
  BY <1>2, <1>5, <1>6 DEF FitInv, CallServed

(* A buffer changes what it holds, but not the size of it. *)
LEMMA FitBuffer ==
  ASSUME IInv, FitInv, NEW b \in Block, UNCHANGED blocks,
         \A c \in Block \ {b} : buffer'[c] = buffer[c],
         buffer[b].is # "raw",
         buffer'[b].is = "raw" \/ buffer'[b].size = buffer[b].size,
         call' = NoCall \/ (call' = call /\ buffer[b].is # "building")
  PROVE  FitInv'
<1>1. PICK p \in Pool : b \in Members(p)
  BY DEF IInv, InUseKept, InLists
<1>2. Suits(p, buffer[b].size)
  BY <1>1 DEF FitInv, Served
<1>3. \A q \in Pool : Members(q)' = Members(q)
  BY DEF Members
<1>4. \A c \in InLists \ {b} : buffer'[c] = buffer[c]
  BY BlocksOfLists DEF IInv
<1>5. Disjoint' /\ Served'
  BY <1>1, <1>2, <1>3, <1>4, FitLists DEF FitInv
<1>6. CASE call' = NoCall
  BY <1>5, <1>6 DEF FitInv, CallServed, NoCall
<1>7. CASE call' = call /\ buffer[b].is # "building"
  <2>1. Walked' = Walked
    BY <1>7 DEF Walked
  <2>2. CASE call.op = "construct"
    <3>1. Walked[call.at] \in Block /\ buffer[Walked[call.at]].is = "building"
      BY <2>2 DEF IInv, TypeOK, WalkInv, Walked
    <3>2. buffer'[Walked[call.at]] = buffer[Walked[call.at]]
      BY <1>7, <3>1
    <3>3. QED
      BY <1>5, <1>7, <2>1, <3>2 DEF FitInv, CallServed
  <2>3. CASE call.op # "construct"
    BY <1>5, <1>7, <2>3 DEF FitInv, CallServed
  <2>4. QED
    BY <2>2, <2>3
<1>8. QED
  BY <1>6, <1>7

LEMMA FitNext == IInv /\ FitInv /\ [Next]_vars => FitInv'
<1> SUFFICES ASSUME IInv, FitInv, [Next]_vars
             PROVE  FitInv'
  OBVIOUS
<1>1. ASSUME NEW i \in DOMAIN TypeSizes, BeginAllocate(TypeSizes[i])
      PROVE  FitInv'
  <2>1. Suits(SuitablePool(TypeSizes[i]), TypeSizes[i])
    BY BuilderSuits DEF StaticAsserts, SuitablePool
  <2>2. /\ call'.op = "allocate" /\ call'.pool = SuitablePool(TypeSizes[i])
        /\ call'.size = TypeSizes[i] /\ UNCHANGED <<blocks, buffer>>
    BY <1>1 DEF BeginAllocate, Begin
  <2>3. QED
    BY <2>1, <2>2, FitQuiet
<1>2. CASE SkipTaken
  <2>1. UNCHANGED <<blocks, buffer>> /\ call' = [call EXCEPT !.at = @ + 1]
        /\ call.op \in {"allocate", "shrink", "resize"} /\ call \in Call
    BY <1>2 DEF SkipTaken, Testing, IInv, TypeOK
  <2>2. call'.op = call.op /\ call'.pool = call.pool /\ call'.size = call.size
    BY <2>1 DEF Call
  <2>3. call.op = "allocate" => Suits(call.pool, call.size)
    BY DEF FitInv, CallServed
  <2>4. QED
    BY <2>1, <2>2, <2>3, FitQuiet
<1>3. CASE TakeFree
  BY <1>3, FitTakeFree
<1>4. CASE Grow \/ Extend
  BY <1>4, FitHeap
<1>5. CASE Construct \/ ConstructorThrows
  <2>1. PICK b : b = Walked[call.at]
    OBVIOUS
  <2>2. /\ call.op = "construct" /\ call' = NoCall /\ UNCHANGED blocks
        /\ buffer' = [buffer EXCEPT ![b] = Object(call.size)] \/ buffer' = [buffer EXCEPT ![b] = Raw]
    BY <1>5, <2>1 DEF Construct, ConstructorThrows
  <2>3. b \in Block /\ buffer[b].is = "building" /\ buffer[b].size = call.size
    BY <2>1, <2>2 DEF IInv, TypeOK, WalkInv, Walked, FitInv, CallServed
  <2>4. buffer'[b].is = "raw" \/ buffer'[b].size = call.size
    BY <2>2, <2>3 DEF IInv, TypeOK, Object, Raw
  <2>5. \A c \in Block \ {b} : buffer'[c] = buffer[c]
    BY <2>2 DEF IInv, TypeOK
  <2>6. QED
    BY <2>2, <2>3, <2>4, <2>5, FitBuffer
<1>6. ASSUME NEW b \in Block, Destroy(b) \/ Clear(b)
      PROVE  FitInv'
  <2>1. /\ buffer[b].is \in {"object", "dying"} /\ UNCHANGED <<blocks, call>>
        /\ buffer' = [buffer EXCEPT ![b] = Dying(buffer[b].size)] \/ buffer' = [buffer EXCEPT ![b] = Raw]
    BY <1>6 DEF Destroy, Clear
  <2>2. buffer'[b].is = "raw" \/ buffer'[b].size = buffer[b].size
    BY <2>1 DEF IInv, TypeOK, Dying, Raw
  <2>3. \A c \in Block \ {b} : buffer'[c] = buffer[c]
    BY <2>1 DEF IInv, TypeOK
  <2>4. QED
    BY <2>1, <2>2, <2>3, FitBuffer
<1>7. CASE BeginShrink \/ (\E n \in Counts : BeginResize(n)) \/ LeavePool
  <2>1. UNCHANGED <<blocks, buffer>>
    BY <1>7 DEF BeginShrink, BeginResize, LeavePool
  <2>2. call'.op \notin {"allocate", "construct"}
    BY <1>7 DEF BeginShrink, BeginResize, Begin, LeavePool, WalkOver, Walk, NoCall
  <2>3. QED
    BY <2>1, <2>2, FitQuiet
<1>8. CASE RemoveFree
  BY <1>8, FitRemoveFree
<1>9. CASE UNCHANGED vars
  BY <1>9 DEF vars, FitInv, Disjoint, Served, CallServed, Members, Walked
<1>10. QED
  BY <1>1, <1>2, <1>3, <1>4, <1>5, <1>6, <1>7, <1>8, <1>9 DEF Next

(***************************************************************************)
(* Each object is in a block of the smallest size that holds it, whatever   *)
(* is allocated, destroyed, resized and shrunk.                             *)
(***************************************************************************)
THEOREM ObjectsFit == Spec => []SmallestFit
<1>1. ASSUME IInv, FitInv
      PROVE  SmallestFit
  <2>1. SUFFICES ASSUME NEW p \in Pool, NEW b \in Members(p), buffer[b].is # "raw"
                 PROVE  /\ buffer[b].size <= Sizes[p]
                        /\ \A i \in DOMAIN TypeSizes :
                             buffer[b].size <= TypeSizes[i] => Sizes[p] <= TypeSizes[i]
    BY DEF SmallestFit
  <2>2. PICK size : size = buffer[b].size
    OBVIOUS
  <2>3. size \in Nat
    <3>1. b \in Block
      BY <1>1, <2>1 DEF IInv, TypeOK, Members, Range
    <3>2. QED
      BY <1>1, <2>2, <3>1 DEF IInv, TypeOK, Contents
  <2>4. size <= Sizes[p] /\ \A q \in 1 .. p - 1 : Sizes[q] < size
    BY <1>1, <2>1, <2>2 DEF FitInv, Served, Suits
  <2>5. ASSUME NEW i \in DOMAIN TypeSizes, size <= TypeSizes[i]
        PROVE  Sizes[p] <= TypeSizes[i]
    <3>1. PICK q \in Pool : Sizes[q] = TypeSizes[i]
      BY BuilderSuits DEF SizesKept
    <3>2. Pool \subseteq Nat /\ Pool = 1 .. Len(Sizes)
      BY PoolFacts
    <3>3. Sizes[q] \in Nat /\ Sizes[p] \in Nat
      BY BuilderSuits DEF StaticAsserts, Pool
    <3>4. CASE q < p
      <4>1. q \in 1 .. p - 1
        BY <3>2, <3>4
      <4>2. Sizes[q] < size
        BY <2>4, <4>1
      <4>3. QED
        BY <2>3, <2>5, <3>1, <3>3, <4>2
    <3>5. CASE p = q
      BY <3>1, <3>3, <3>5
    <3>6. CASE p < q
      <4>1. Sizes[p] < Sizes[q]
        BY <3>6, BuilderSuits DEF StaticAsserts
      <4>2. QED
        BY <3>1, <3>3, <4>1
    <3>7. QED
      BY <3>2, <3>4, <3>5, <3>6
  <2>6. QED
    BY <2>2, <2>4, <2>5
<1>2. Init => FitInv
  BY FitInit
<1>3. IInv /\ FitInv /\ [Next]_vars => FitInv'
  BY FitNext
<1>4. QED
  BY <1>1, <1>2, <1>3, InductiveInvariant, PTL DEF Spec

=============================================================================
