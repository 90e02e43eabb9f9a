--------------------------- MODULE MessagesProof ---------------------------
(***************************************************************************)
(* Proofs about what the messages mean to who reads them, for casts of any  *)
(* size, any types of dice, thresholds and rounds.                          *)
(***************************************************************************)
EXTENDS MCPlaying, FiniteSetTheorems, TLAPS

-----------------------------------------------------------------------------
(* Numbers and sequences                                                     *)

(* Induction, for a set. *)
LEMMA NatInd ==
  ASSUME NEW set, 0 \in set, \A n \in Nat : n \in set => n + 1 \in set
  PROVE  Nat \subseteq set
<1> SUFFICES ASSUME NEW m \in Nat, m \notin set
             PROVE  FALSE
  OBVIOUS
<1> DEFINE low  == {n \in 0 .. m : n \in set}
           next == [n \in low |-> n + 1]
<1>1. IsFiniteSet(low)
  <2>1. low \in SUBSET (0 .. m) /\ IsFiniteSet(0 .. m)
    BY FS_Interval
  <2>2. QED
    BY <2>1, FS_Subset
<1>2. \A n \in low : n + 1 \in low
  OBVIOUS
<1>3. next \in Injection(low, low)
  BY <1>2 DEF Injection, IsInjective
<1>4. next \in Surjection(low, low)
  BY <1>1, <1>3, FS_Injection
<1>5. 0 \in low
  OBVIOUS
<1>6. \E n \in low : next[n] = 0
  BY <1>4, <1>5 DEF Surjection
<1>7. QED
  BY <1>6

(* One sequence behind another *)
LEMMA Joined ==
  ASSUME NEW S, NEW s \in Seq(S), NEW t \in Seq(S)
  PROVE  /\ s \o t \in Seq(S) /\ Len(s \o t) = Len(s) + Len(t)
         /\ \A j \in 1 .. Len(s) : (s \o t)[j] = s[j]
         /\ \A j \in Len(s) + 1 .. Len(s) + Len(t) : (s \o t)[j] = t[j - Len(s)]
OBVIOUS

(* The sequence t is s with x at i. *)
Widened(S, s, i, x, t) ==
  /\ t \in Seq(S) /\ Len(t) = Len(s) + 1 /\ t[i] = x
  /\ \A j \in 1 .. i - 1 : t[j] = s[j]
  /\ \A j \in i + 1 .. Len(s) + 1 : t[j] = s[j - 1]

(* An element is put into a sequence. *)
LEMMA Inserted ==
  ASSUME NEW S, NEW s \in Seq(S), NEW x \in S, NEW i \in 1 .. Len(s) + 1
  PROVE  Widened(S, s, i, x, InsertAt(s, i, x))
<1>1. PICK l : l = SubSeq(s, 1, i - 1)
  OBVIOUS
<1>2. PICK r : r = SubSeq(s, i, Len(s))
  OBVIOUS
<1>3. PICK one : one = <<x>>
  OBVIOUS
<1>4. PICK lx : lx = l \o one
  OBVIOUS
<1>5. PICK t : t = lx \o r
  OBVIOUS
<1>6. l \in Seq(S) /\ Len(l) = i - 1 /\ \A j \in 1 .. i - 1 : l[j] = s[j]
  BY <1>1
<1>7. r \in Seq(S) /\ Len(r) = Len(s) + 1 - i
      /\ \A j \in 1 .. Len(s) + 1 - i : r[j] = s[i + j - 1]
  BY <1>2
<1>8. one \in Seq(S) /\ Len(one) = 1 /\ one[1] = x
  BY <1>3
<1>9. InsertAt(s, i, x) = t
  BY <1>1, <1>2, <1>3, <1>4, <1>5 DEF InsertAt
<1>10. /\ lx \in Seq(S) /\ Len(lx) = i /\ \A j \in 1 .. i - 1 : lx[j] = l[j]
       /\ \A j \in i .. i : lx[j] = one[j - (i - 1)]
  <2>1. /\ lx \in Seq(S) /\ Len(lx) = Len(l) + Len(one)
        /\ \A j \in 1 .. Len(l) : lx[j] = l[j]
        /\ \A j \in Len(l) + 1 .. Len(l) + Len(one) : lx[j] = one[j - Len(l)]
    <3>1. l \in Seq(S) /\ one \in Seq(S)
      BY <1>6, <1>8
    <3>2. QED
      BY <1>4, <3>1, Joined
  <2>2. Len(l) + 1 = i /\ Len(l) + Len(one) = i
    BY <1>6, <1>8
  <2>3. QED
    BY <1>6, <2>1, <2>2
<1>11. lx[i] = x
  <2>1. i \in i .. i /\ i - (i - 1) = 1
    OBVIOUS
  <2>2. QED
    BY <1>8, <1>10, <2>1
<1>12. /\ t \in Seq(S) /\ Len(t) = Len(s) + 1 /\ \A j \in 1 .. i : t[j] = lx[j]
       /\ \A j \in i + 1 .. Len(s) + 1 : t[j] = r[j - i]
  <2>1. /\ t \in Seq(S) /\ Len(t) = Len(lx) + Len(r)
        /\ \A j \in 1 .. Len(lx) : t[j] = lx[j]
        /\ \A j \in Len(lx) + 1 .. Len(lx) + Len(r) : t[j] = r[j - Len(lx)]
    <3>1. lx \in Seq(S) /\ r \in Seq(S)
      BY <1>7, <1>10
    <3>2. QED
      BY <1>5, <3>1, Joined
  <2>2. Len(lx) = i /\ Len(lx) + Len(r) = Len(s) + 1
    BY <1>7, <1>10
  <2>3. QED
    BY <2>1, <2>2
<1>13. ASSUME NEW j \in i + 1 .. Len(s) + 1
       PROVE  t[j] = s[j - 1]
  <2>1. j - i \in 1 .. Len(s) + 1 - i /\ i + (j - i) - 1 = j - 1
    OBVIOUS
  <2>2. QED
    BY <1>7, <1>12, <2>1
<1>14. t[i] = x /\ \A j \in 1 .. i - 1 : t[j] = s[j]
  <2>1. i \in 1 .. i /\ \A j \in 1 .. i - 1 : j \in 1 .. i
    OBVIOUS
  <2>2. QED
    BY <1>6, <1>10, <1>11, <1>12, <2>1
<1>15. QED
  BY <1>9, <1>12, <1>13, <1>14 DEF Widened

(* Two sequences are equal when their elements are. *)
LEMMA SameSeq ==
  ASSUME NEW S, NEW s \in Seq(S), NEW R, NEW t \in Seq(R), Len(s) = Len(t),
         \A j \in 1 .. Len(s) : s[j] = t[j]
  PROVE  s = t
OBVIOUS

(***************************************************************************)
(* RemoveGaps keeps all other tokens in their order: pos says how many of   *)
(* the kept ones come up to a token.                                        *)
(***************************************************************************)
LEMMA GapsGone ==
  ASSUME NEW S, NEW d \in Seq(S), NEW s \in Seq(S), NEW pos \in [0 .. Len(d) -> 0 .. Len(s)],
         pos[0] = 0, pos[Len(d)] = Len(s),
         \A i \in 1 .. Len(d) :
           IF d[i].kind = "gap" THEN pos[i] = pos[i - 1]
           ELSE pos[i] = pos[i - 1] + 1 /\ d[i] = s[pos[i]]
  PROVE  WithoutGaps(d) = s
<1> DEFINE n       == Len(d)
           body(k) == [i \in 0 .. n |->
                         IF i = 0 THEN <<>>
                         ELSE IF d[i].kind = "gap" THEN k[i - 1] ELSE Append(k[i - 1], d[i])]
           kept    == CHOOSE k : k = body(k)
           part    == [i \in 0 .. n |-> SubSeq(s, 1, pos[i])]
<1>1. WithoutGaps(d) = kept[n]
  BY DEF WithoutGaps
<1>2. n \in Nat /\ Len(s) \in Nat
  OBVIOUS
<1>3. part[0] = <<>>
  OBVIOUS
<1>4. ASSUME NEW i \in 1 .. n
      PROVE  part[i] = IF d[i].kind = "gap" THEN part[i - 1] ELSE Append(part[i - 1], d[i])
  <2>1. i - 1 \in 0 .. n /\ i \in 0 .. n /\ pos[i] \in 0 .. Len(s) /\ pos[i - 1] \in 0 .. Len(s)
    OBVIOUS
  <2>2. part[i] = SubSeq(s, 1, pos[i]) /\ part[i - 1] = SubSeq(s, 1, pos[i - 1])
    BY <2>1
  <2> HIDE DEF part
  <2>3. CASE d[i].kind = "gap"
    BY <2>2, <2>3
  <2>4. CASE d[i].kind # "gap"
    <3>1. pos[i] = pos[i - 1] + 1 /\ d[i] = s[pos[i]]
      BY <2>4
    <3>2. \A p \in 0 .. Len(s) : p + 1 <= Len(s) =>
            SubSeq(s, 1, p + 1) = Append(SubSeq(s, 1, p), s[p + 1])
      OBVIOUS
    <3>3. SubSeq(s, 1, pos[i]) = Append(SubSeq(s, 1, pos[i - 1]), s[pos[i]])
      BY <2>1, <3>1, <3>2
    <3>4. QED
      BY <2>2, <2>4, <3>1, <3>3
  <2>5. QED
    BY <2>3, <2>4
<1>5. part = body(part)
  <2>1. part = [i \in 0 .. n |-> part[i]]
    OBVIOUS
  <2> HIDE DEF part, n
  <2>2. \A i \in 0 .. n : i # 0 => i \in 1 .. n
    BY <1>2
  <2>3. \A i \in 0 .. n :
          part[i] = IF i = 0 THEN <<>>
                    ELSE IF d[i].kind = "gap" THEN part[i - 1] ELSE Append(part[i - 1], d[i])
    BY <1>3, <1>4, <2>2
  <2>4. QED
    BY <2>1, <2>3
<1> HIDE DEF n
<1>6. kept = body(kept)
  <2> HIDE DEF part
  <2>1. QED
    BY <1>5
<1> HIDE DEF kept
<1>7. /\ kept[0] = <<>>
      /\ \A i \in 1 .. n :
           kept[i] = IF d[i].kind = "gap" THEN kept[i - 1] ELSE Append(kept[i - 1], d[i])
  <2>1. \A i \in 0 .. n :
          body(kept)[i] = IF i = 0 THEN <<>>
                          ELSE IF d[i].kind = "gap" THEN kept[i - 1] ELSE Append(kept[i - 1], d[i])
    OBVIOUS
  <2> HIDE DEF body
  <2>2. \A i \in 1 .. n : i \in 0 .. n /\ i # 0
    BY <1>2
  <2>3. 0 \in 0 .. n
    BY <1>2
  <2>4. QED
    BY <1>6, <2>1, <2>2, <2>3
<1> HIDE DEF part
<1>8. n \in {i \in Nat : i <= n => kept[i] = part[i]}
  <2> DEFINE good == {i \in Nat : i <= n => kept[i] = part[i]}
  <2>1. 0 \in good
    BY <1>3, <1>7
  <2>2. ASSUME NEW i \in Nat, i \in good
        PROVE  i + 1 \in good
    <3>1. SUFFICES ASSUME i + 1 <= n
                   PROVE  kept[i + 1] = part[i + 1]
      OBVIOUS
    <3>2. i + 1 \in 1 .. n /\ (i + 1) - 1 = i /\ kept[i] = part[i]
      BY <1>2, <2>2, <3>1
    <3>3. QED
      BY <1>4, <1>7, <3>2
  <2> HIDE DEF good
  <2>3. Nat \subseteq good
    BY <2>1, <2>2, NatInd
  <2>4. QED
    BY <1>2, <2>3 DEF good
<1>9. kept[n] = part[n]
  BY <1>2, <1>8
<1>10. part[n] = s
  <2>1. part[n] = SubSeq(s, 1, Len(s))
    BY <1>2 DEF part, n
  <2>2. SubSeq(s, 1, Len(s)) = s
    OBVIOUS
  <2>3. QED
    BY <2>1, <2>2
<1>11. QED
  BY <1>1, <1>9, <1>10

-----------------------------------------------------------------------------
(* Building the element tree                                                 *)

(* BuildElementTree is in state "end" when it has read the tokens d. *)
EndsIn(d, end) ==
  \E st : /\ st = [i \in 1 .. Len(d) |-> st[i]]
          /\ st[1] = Start(d[1]) /\ st[Len(d)] = end
          /\ \A i \in 2 .. Len(d) : st[i] = BuildStep(st[i - 1], d[i])

(* A document whose elements are all closed, or that is one single tag. *)
LEMMA BuildIs ==
  ASSUME NEW S, NEW d \in Seq(S), d # <<>>, NEW end, EndsIn(d, end), NEW root,
         end.stack = <<root>>
  PROVE  Build(d) = [failed |-> end.failed, root |-> root]
<1> DEFINE n       == Len(d)
           body(k) == [i \in 1 .. n |-> IF i = 1 THEN Start(d[1]) ELSE BuildStep(k[i - 1], d[i])]
           state   == CHOOSE k : k = body(k)
           stack   == state[n].stack
           twig(k) == [i \in 1 .. Len(stack) |->
                         IF i = Len(stack) THEN stack[i]
                         ELSE WithChild(stack[i], k[i + 1])]
           tree    == CHOOSE k : k = twig(k)
<1>1. Build(d) = [failed |-> state[n].failed, root |-> tree[1]]
  BY DEF Build
<1>2. n \in Nat /\ n >= 1
  OBVIOUS
<1>3. PICK st : /\ st = [i \in 1 .. n |-> st[i]]
                /\ st[1] = Start(d[1]) /\ st[n] = end
                /\ \A i \in 2 .. n : st[i] = BuildStep(st[i - 1], d[i])
  BY DEF EndsIn
<1> HIDE DEF n
<1>4. \A i \in 1 .. n : i # 1 => i \in 2 .. n
  BY <1>2
<1>5. st = body(st)
  <2>1. \A i \in 1 .. n : st[i] = IF i = 1 THEN Start(d[1]) ELSE BuildStep(st[i - 1], d[i])
    BY <1>3, <1>4
  <2>2. QED
    BY <1>3, <2>1
<1>6. state = body(state)
  BY <1>5
<1> HIDE DEF state
<1>7. /\ state[1] = Start(d[1])
      /\ \A i \in 2 .. n : state[i] = BuildStep(state[i - 1], d[i])
  <2>1. \A i \in 1 .. n :
          body(state)[i] = IF i = 1 THEN Start(d[1]) ELSE BuildStep(state[i - 1], d[i])
    OBVIOUS
  <2> HIDE DEF body
  <2>2. 1 \in 1 .. n /\ \A i \in 2 .. n : i \in 1 .. n /\ i # 1
    BY <1>2
  <2>3. QED
    BY <1>6, <2>1, <2>2
<1>8. state[n] = end
  <2> DEFINE good == {i \in Nat : i + 1 <= n => state[i + 1] = st[i + 1]}
  <2>1. 0 \in good
    BY <1>3, <1>7
  <2>2. ASSUME NEW i \in Nat, i \in good
        PROVE  i + 1 \in good
    <3>1. SUFFICES ASSUME (i + 1) + 1 <= n
                   PROVE  state[(i + 1) + 1] = st[(i + 1) + 1]
      OBVIOUS
    <3> DEFINE j == (i + 1) + 1
    <3>2. j \in 2 .. n /\ j - 1 = i + 1 /\ state[i + 1] = st[i + 1]
      BY <1>2, <2>2, <3>1
    <3> HIDE DEF j
    <3>3. state[j] = st[j]
      BY <1>3, <1>7, <3>2
    <3>4. QED
      BY <3>3 DEF j
  <2> HIDE DEF good
  <2>3. Nat \subseteq good
    BY <2>1, <2>2, NatInd
  <2>4. n - 1 \in good
    BY <1>2, <2>3
  <2>5. (n - 1) + 1 = n
    BY <1>2
  <2>6. QED
    BY <1>3, <2>4, <2>5 DEF good
<1>9. stack = <<root>>
  BY <1>8
<1> HIDE DEF stack
<1>10. tree[1] = root
  <2> DEFINE one == [i \in 1 .. 1 |-> root]
  <2>1. Len(stack) = 1 /\ stack[1] = root
    BY <1>9
  <2>2. one = twig(one)
    <3>1. \A i \in 1 .. 1 : i = 1
      OBVIOUS
    <3>2. \A i \in 1 .. 1 :
            root = IF i = Len(stack) THEN stack[i]
                   ELSE WithChild(stack[i], one[i + 1])
      BY <2>1, <3>1
    <3> HIDE DEF one
    <3>3. one = [i \in 1 .. 1 |-> root]
      BY DEF one
    <3>4. QED
      BY <2>1, <3>2, <3>3
  <2>3. tree = twig(tree)
    <3> HIDE DEF one, twig
    <3>1. QED
      BY <2>2
  <2> HIDE DEF tree
  <2>4. twig(tree)[1] = root
    BY <2>1
  <2> HIDE DEF twig
  <2>5. QED
    BY <2>3, <2>4
<1>11. QED
  BY <1>1, <1>8, <1>10

(* What does not change the state may stand between the tokens. *)
LEMMA CommentRead ==
  ASSUME NEW S, NEW d \in Seq(S), NEW end, EndsIn(d, end), NEW i \in 2 .. Len(d),
         NEW token, token.kind = "comment"
  PROVE  EndsIn(InsertAt(d, i, token), end)
<1> DEFINE n == Len(d)  e == InsertAt(d, i, token)
<1>1. PICK st : /\ st = [j \in 1 .. n |-> st[j]]
                /\ st[1] = Start(d[1]) /\ st[n] = end
                /\ \A j \in 2 .. n : st[j] = BuildStep(st[j - 1], d[j])
  BY DEF EndsIn
<1>2. n \in Nat /\ i \in 2 .. n
  OBVIOUS
<1>3. /\ e \in Seq(S \cup {token}) /\ Len(e) = n + 1 /\ e[i] = token
      /\ \A j \in 1 .. i - 1 : e[j] = d[j]
      /\ \A j \in i + 1 .. n + 1 : e[j] = d[j - 1]
  <2> DEFINE T == S \cup {token}
  <2>1. d \in Seq(T) /\ i \in 1 .. Len(d) + 1 /\ token \in T
    OBVIOUS
  <2> HIDE DEF T
  <2>2. /\ e \in Seq(T) /\ Len(e) = Len(d) + 1 /\ e[i] = token
        /\ \A j \in 1 .. i - 1 : e[j] = d[j]
        /\ \A j \in i + 1 .. Len(d) + 1 : e[j] = d[j - 1]
    <3>1. Widened(T, d, i, token, InsertAt(d, i, token))
      BY <2>1, Inserted
    <3>2. QED
      BY <3>1 DEF Widened, e
  <2>3. QED
    BY <2>2 DEF n, T
<1> HIDE DEF n, e
<1> DEFINE longer == [j \in 1 .. n + 1 |-> IF j < i THEN st[j] ELSE st[j - 1]]
<1>4. \A s : BuildStep(s, token) = s
  BY DEF BuildStep
<1>5. longer[1] = Start(e[1]) /\ longer[n + 1] = end
  <2>1. 1 \in 1 .. n + 1 /\ n + 1 \in 1 .. n + 1 /\ 1 < i /\ ~(n + 1 < i) /\ (n + 1) - 1 = n
        /\ 1 \in 1 .. i - 1
    BY <1>2
  <2>2. longer[1] = st[1] /\ longer[n + 1] = st[n] /\ e[1] = d[1]
    BY <1>3, <2>1
  <2>3. QED
    BY <1>1, <2>2
<1>6. ASSUME NEW j \in 2 .. n + 1
      PROVE  longer[j] = BuildStep(longer[j - 1], e[j])
  <2>1. j \in 1 .. n + 1 /\ j - 1 \in 1 .. n + 1
    BY <1>2
  <2>2. CASE j < i
    <3>1. longer[j] = st[j] /\ longer[j - 1] = st[j - 1] /\ e[j] = d[j] /\ j \in 2 .. n
      BY <1>2, <1>3, <2>1, <2>2
    <3>2. QED
      BY <1>1, <3>1
  <2>3. CASE j = i
    <3>1. longer[j] = st[j - 1] /\ longer[j - 1] = st[j - 1] /\ e[j] = token
      BY <1>2, <1>3, <2>1, <2>3
    <3>2. QED
      BY <1>4, <3>1
  <2>4. CASE j > i
    <3>1. longer[j] = st[j - 1] /\ longer[j - 1] = st[(j - 1) - 1] /\ e[j] = d[j - 1]
          /\ j - 1 \in 2 .. n
      BY <1>2, <1>3, <2>1, <2>4
    <3>2. QED
      BY <1>1, <3>1
  <2>5. QED
    BY <1>2, <2>2, <2>3, <2>4
<1>7. longer = [j \in 1 .. n + 1 |-> longer[j]]
  OBVIOUS
<1> HIDE DEF longer
<1>8. QED
  BY <1>3, <1>5, <1>6, <1>7 DEF EndsIn, e

(* The next token is read. *)
LEMMA ReadOn ==
  ASSUME NEW S, NEW d \in Seq(S), d # <<>>, NEW end, EndsIn(d, end), NEW token
  PROVE  EndsIn(Append(d, token), BuildStep(end, token))
<1> DEFINE n == Len(d)  e == Append(d, token)  last == BuildStep(end, token)
<1>1. PICK st : /\ st = [j \in 1 .. n |-> st[j]]
                /\ st[1] = Start(d[1]) /\ st[n] = end
                /\ \A j \in 2 .. n : st[j] = BuildStep(st[j - 1], d[j])
  BY DEF EndsIn
<1>2. n \in Nat /\ n >= 1
  OBVIOUS
<1>3. Len(e) = n + 1 /\ e[n + 1] = token /\ \A j \in 1 .. n : e[j] = d[j]
  OBVIOUS
<1> HIDE DEF n, e
<1> DEFINE longer == [j \in 1 .. n + 1 |-> IF j <= n THEN st[j] ELSE last]
<1> HIDE DEF last
<1>4. longer[1] = Start(e[1]) /\ longer[n + 1] = last
  <2>1. 1 \in 1 .. n + 1 /\ n + 1 \in 1 .. n + 1 /\ 1 <= n /\ ~(n + 1 <= n) /\ 1 \in 1 .. n
    BY <1>2
  <2>2. longer[1] = st[1] /\ longer[n + 1] = last /\ e[1] = d[1]
    BY <1>3, <2>1
  <2>3. QED
    BY <1>1, <2>2
<1>5. ASSUME NEW j \in 2 .. n + 1
      PROVE  longer[j] = BuildStep(longer[j - 1], e[j])
  <2>1. j \in 1 .. n + 1 /\ j - 1 \in 1 .. n + 1
    BY <1>2
  <2>2. CASE j <= n
    <3>1. longer[j] = st[j] /\ longer[j - 1] = st[j - 1] /\ e[j] = d[j] /\ j \in 2 .. n
      BY <1>2, <1>3, <2>1, <2>2
    <3>2. QED
      BY <1>1, <3>1
  <2>3. CASE ~(j <= n)
    <3>1. j = n + 1 /\ j - 1 = n
      BY <1>2, <2>3
    <3>2. longer[j] = last /\ longer[j - 1] = end /\ e[j] = token
      BY <1>1, <1>2, <1>3, <2>1, <3>1
    <3>3. QED
      BY <3>2 DEF last
  <2>4. QED
    BY <2>2, <2>3
<1>6. longer = [j \in 1 .. n + 1 |-> longer[j]]
  OBVIOUS
<1> HIDE DEF longer
<1>7. QED
  BY <1>3, <1>4, <1>5, <1>6 DEF EndsIn, e, last

-----------------------------------------------------------------------------
(* The constructor of Document                                               *)

(* What stands in front of the first token that is no comment is removed. *)
LEMMA CommentsGone ==
  ASSUME NEW S, NEW d \in Seq(S), NEW i \in 1 .. Len(d), d[i].kind # "comment",
         \A j \in 1 .. i - 1 : d[j].kind = "comment"
  PROVE  WithoutLeadingComments(d) = SubSeq(d, i, Len(d))
<1> DEFINE others == {j \in DOMAIN d : d[j].kind # "comment"}
<1>1. DOMAIN d = 1 .. Len(d) /\ Len(d) \in Nat
  OBVIOUS
<1>2. i \in others /\ \A j \in others : i <= j
  BY <1>1
<1>3. \A k \in others : (\A j \in others : k <= j) => k = i
  BY <1>1, <1>2
<1>4. Min(others) = i
  <2> HIDE DEF others
  <2>1. QED
    BY <1>2, <1>3 DEF Min
<1>5. QED
  BY <1>4 DEF WithoutLeadingComments

(* Nothing is removed where there is no gap. *)
LEMMA NoGaps ==
  ASSUME NEW S, NEW d \in Seq(S), \A j \in 1 .. Len(d) : d[j].kind # "gap"
  PROVE  WithoutGaps(d) = d
<1> DEFINE pos == [j \in 0 .. Len(d) |-> j]
<1>1. pos \in [0 .. Len(d) -> 0 .. Len(d)] /\ pos[0] = 0 /\ pos[Len(d)] = Len(d)
  OBVIOUS
<1>2. \A j \in 1 .. Len(d) : pos[j] = pos[j - 1] + 1 /\ d[j] = d[pos[j]]
  OBVIOUS
<1> HIDE DEF pos
<1>3. QED
  BY <1>1, <1>2, GapsGone

(* One gap between the tokens is removed. *)
LEMMA OneGap ==
  ASSUME NEW S, NEW d \in Seq(S), \A j \in 1 .. Len(d) : d[j].kind # "gap",
         NEW token, token.kind = "gap", NEW i \in 1 .. Len(d) + 1
  PROVE  WithoutGaps(InsertAt(d, i, token)) = d
<1> DEFINE n == Len(d)  e == InsertAt(d, i, token)  T == S \cup {token}
           pos == [j \in 0 .. n + 1 |-> IF j < i THEN j ELSE j - 1]
<1>1. n \in Nat /\ d \in Seq(T) /\ token \in T
  OBVIOUS
<1>2. /\ e \in Seq(T) /\ Len(e) = n + 1 /\ e[i] = token
      /\ \A j \in 1 .. i - 1 : e[j] = d[j]
      /\ \A j \in i + 1 .. n + 1 : e[j] = d[j - 1]
  <2> HIDE DEF T
  <2>1. Widened(T, d, i, token, InsertAt(d, i, token))
    BY <1>1, Inserted
  <2>2. QED
    BY <2>1 DEF Widened
<1> HIDE DEF T, e
<1>3. pos \in [0 .. n + 1 -> 0 .. n] /\ pos[0] = 0 /\ pos[n + 1] = n
  BY <1>1
<1>4. ASSUME NEW j \in 1 .. n + 1
      PROVE  IF e[j].kind = "gap" THEN pos[j] = pos[j - 1]
             ELSE pos[j] = pos[j - 1] + 1 /\ e[j] = d[pos[j]]
  <2>1. CASE j < i
    <3>1. e[j] = d[j] /\ j \in 1 .. n /\ pos[j] = j /\ pos[j - 1] = j - 1
      BY <1>1, <1>2, <2>1
    <3>2. QED
      BY <1>1, <3>1
  <2>2. CASE j = i
    <3>1. e[j] = token /\ pos[j] = j - 1 /\ pos[j - 1] = j - 1
      BY <1>1, <1>2, <2>2
    <3>2. QED
      BY <3>1
  <2>3. CASE j > i
    <3>1. e[j] = d[j - 1] /\ j - 1 \in 1 .. n /\ pos[j] = j - 1 /\ pos[j - 1] = j - 2
      BY <1>1, <1>2, <2>3
    <3>2. QED
      BY <1>1, <3>1
  <2>4. QED
    BY <1>1, <2>1, <2>2, <2>3
<1> HIDE DEF pos
<1>5. n = Len(d) /\ n + 1 = Len(e)
  BY <1>2
<1> HIDE DEF n
<1>6. WithoutGaps(e) = d
  BY <1>1, <1>2, <1>3, <1>4, <1>5, GapsGone
<1>7. QED
  BY <1>6 DEF e

(* Tokens laid out in all the ways of Decorated, and in some more. *)
LaidOut(tokens) ==
  {tokens, <<Mark("comment")>> \o tokens,
   <<Mark("declaration"), Mark("gap"), Mark("comment"), Mark("comment")>> \o tokens}
  \cup {InsertAt(tokens, i, Mark("comment")) : i \in 2 .. Len(tokens)}
  \cup {InsertAt(tokens, i, Mark("gap")) : i \in 2 .. Len(tokens)}

(* Tags and contents, without gaps, that start with a tag. *)
Plain(S, d) ==
  /\ d \in Seq(S) /\ d # <<>>
  /\ d[1].kind \in {"open", "single"}
  /\ \A j \in 1 .. Len(d) : d[j].kind # "gap"

(* A document that starts with its root. *)
LEMMA DocumentIsBuilt ==
  ASSUME NEW S, NEW d, Plain(S, d)
  PROVE  Document(d) = Build(d)
<1>1. d \in Seq(S) /\ 1 \in 1 .. Len(d) /\ d[1].kind \in {"open", "single"}
  BY DEF Plain
<1>2. WithoutGaps(d) = d
  BY NoGaps DEF Plain
<1>3. WithoutLeadingComments(d) = SubSeq(d, 1, Len(d)) /\ SubSeq(d, 1, Len(d)) = d
  <2>1. \A j \in 1 .. 1 - 1 : d[j].kind = "comment"
    OBVIOUS
  <2>2. d[1].kind # "comment"
    BY <1>1
  <2>3. WithoutLeadingComments(d) = SubSeq(d, 1, Len(d))
    BY <1>1, <2>1, <2>2, CommentsGone
  <2>4. QED
    BY <1>1, <2>3
<1>4. Head(d).kind # "declaration" /\ Head(d).kind # "content"
  BY <1>1
<1>5. QED
  BY <1>2, <1>3, <1>4 DEF Document

(* A document with a gap. *)
LEMMA DocumentWithGap ==
  ASSUME NEW S, NEW d, Plain(S, d), NEW i \in 2 .. Len(d)
  PROVE  Document(InsertAt(d, i, Mark("gap"))) = Document(d)
<1>1. d \in Seq(S) /\ i \in 1 .. Len(d) + 1 /\ \A j \in 1 .. Len(d) : d[j].kind # "gap"
  BY DEF Plain
<1>2. WithoutGaps(d) = d
  BY <1>1, NoGaps
<1>3. Mark("gap").kind = "gap"
  BY DEF Mark, Token
<1>4. WithoutGaps(InsertAt(d, i, Mark("gap"))) = d
  BY <1>1, <1>3, OneGap
<1>5. QED
  BY <1>2, <1>4 DEF Document

(* A document with a comment somewhere behind its root. *)
LEMMA DocumentWithComment ==
  ASSUME NEW S, NEW d, Plain(S, d), NEW i \in 2 .. Len(d), NEW token, token.kind = "comment"
  PROVE  Plain(S \cup {token}, InsertAt(d, i, token))
<1> DEFINE T == S \cup {token}  e == InsertAt(d, i, token)
<1>1. d \in Seq(S) /\ Len(d) \in Nat /\ i \in 1 .. Len(d) + 1
  BY DEF Plain
<1>2. d \in Seq(T) /\ token \in T /\ i \in 1 .. Len(d) + 1
  BY <1>1
<1>3. /\ e \in Seq(T) /\ Len(e) = Len(d) + 1 /\ e[i] = token
      /\ \A j \in 1 .. i - 1 : e[j] = d[j]
      /\ \A j \in i + 1 .. Len(d) + 1 : e[j] = d[j - 1]
  <2> HIDE DEF T
  <2>1. Widened(T, d, i, token, InsertAt(d, i, token))
    BY <1>2, Inserted
  <2>2. QED
    BY <2>1 DEF Widened
<1> HIDE DEF T, e
<1>4. 1 \in 1 .. i - 1 /\ e[1] = d[1] /\ e # <<>>
  BY <1>1, <1>3
<1>5. ASSUME NEW j \in 1 .. Len(e)
      PROVE  e[j].kind # "gap"
  <2>1. CASE j < i
    <3>1. j \in 1 .. Len(d) /\ e[j] = d[j]
      BY <1>1, <1>3, <2>1
    <3>2. QED
      BY <3>1 DEF Plain
  <2>2. CASE j = i
    BY <1>3, <2>2
  <2>3. CASE j > i
    <3>1. j - 1 \in 1 .. Len(d) /\ e[j] = d[j - 1]
      BY <1>1, <1>3, <2>3
    <3>2. QED
      BY <3>1 DEF Plain
  <2>4. QED
    BY <1>1, <1>3, <2>1, <2>2, <2>3
<1>6. Plain(T, e)
  BY <1>3, <1>4, <1>5 DEF Plain
<1>7. QED
  BY <1>6 DEF e, T

(* A document with a comment in front. *)
LEMMA DocumentAfterComment ==
  ASSUME NEW S, NEW d, Plain(S, d)
  PROVE  Document(<<Mark("comment")>> \o d) = Build(d)
<1> DEFINE token == Mark("comment")  T == S \cup {token}  e == <<token>> \o d
<1>1. token.kind = "comment"
  BY DEF Mark, Token
<1> HIDE DEF token
<1>2. d \in Seq(T) /\ token \in T /\ Len(d) \in Nat /\ Len(d) >= 1
      /\ d[1].kind \in {"open", "single"}
  BY DEF Plain
<1> HIDE DEF T
<1>3. /\ e \in Seq(T) /\ Len(e) = Len(d) + 1 /\ e[1] = token
      /\ \A j \in 2 .. Len(d) + 1 : e[j] = d[j - 1]
  BY <1>2
<1>4. SubSeq(e, 2, Len(e)) = d
  <2>1. SubSeq(e, 2, Len(e)) = Tail(e) /\ Tail(e) = d
    BY <1>2
  <2>2. QED
    BY <2>1
<1> HIDE DEF e
<1>5. \A j \in 1 .. Len(e) : e[j].kind # "gap"
  <2>1. \A j \in 2 .. Len(e) : j - 1 \in 1 .. Len(d) /\ e[j] = d[j - 1]
    BY <1>2, <1>3
  <2>2. \A j \in 2 .. Len(e) : e[j].kind # "gap"
    BY <2>1 DEF Plain
  <2>3. \A j \in 1 .. Len(e) : j = 1 \/ j \in 2 .. Len(e)
    BY <1>2, <1>3
  <2>4. e[1].kind # "gap"
    BY <1>1, <1>3
  <2>5. QED
    BY <2>2, <2>3, <2>4
<1>6. WithoutGaps(e) = e
  BY <1>3, <1>5, NoGaps
<1>7. WithoutLeadingComments(e) = d
  <2>1. 2 \in 1 .. Len(e) /\ 1 \in 1 .. Len(d) /\ e[2] = d[2 - 1]
    BY <1>2, <1>3
  <2>2. e[2].kind # "comment"
    BY <1>2, <2>1
  <2>3. \A j \in 1 .. 2 - 1 : e[j].kind = "comment"
    <3>1. \A j \in 1 .. 2 - 1 : j = 1
      OBVIOUS
    <3>2. QED
      BY <1>1, <1>3, <3>1
  <2>4. WithoutLeadingComments(e) = SubSeq(e, 2, Len(e))
    BY <1>3, <2>1, <2>2, <2>3, CommentsGone
  <2>5. QED
    BY <1>4, <2>4
<1>8. Head(d).kind # "declaration" /\ Head(d).kind # "content"
  BY <1>2
<1>9. QED
  BY <1>6, <1>7, <1>8 DEF Document, e, token

(* A document with a declaration, a gap and comments in front. *)
LEMMA DocumentAfterDeclaration ==
  ASSUME NEW S, NEW d, Plain(S, d)
  PROVE  Document(<<Mark("declaration"), Mark("gap"), Mark("comment"), Mark("comment")>> \o d)
           = Build(d)
<1> DEFINE dec == Mark("declaration")  gap == Mark("gap")  com == Mark("comment")
           T   == S \cup {dec, gap, com}  n == Len(d)
           e   == <<dec, gap, com, com>> \o d
           f   == <<dec, com, com>> \o d
           g   == <<com, com>> \o d
<1>1. dec.kind = "declaration" /\ gap.kind = "gap" /\ com.kind = "comment"
  BY DEF Mark, Token
<1> HIDE DEF dec, gap, com
<1>2. d \in Seq(T) /\ dec \in T /\ gap \in T /\ com \in T /\ n \in Nat /\ n >= 1
      /\ d[1].kind \in {"open", "single"}
  BY DEF Plain
<1> HIDE DEF T
<1>3. e \in Seq(T) /\ Len(e) = n + 4 /\ e[1] = dec /\ e[2] = gap /\ e[3] = com /\ e[4] = com
      /\ \A j \in 5 .. n + 4 : e[j] = d[j - 4]
  BY <1>2
<1>4. f \in Seq(T) /\ Len(f) = n + 3 /\ f[1] = dec /\ f[2] = com /\ f[3] = com
      /\ \A j \in 4 .. n + 3 : f[j] = d[j - 3]
  BY <1>2
<1>5. g \in Seq(T) /\ Len(g) = n + 2 /\ g[1] = com /\ g[2] = com
      /\ \A j \in 3 .. n + 2 : g[j] = d[j - 2]
  BY <1>2
<1>6. Head(f) = dec /\ Tail(f) = g
  <2>1. Head(f) = dec /\ Tail(f) \in Seq(T) /\ Len(Tail(f)) = n + 2
        /\ \A j \in 1 .. n + 2 : Tail(f)[j] = f[j + 1]
    BY <1>4
  <2>2. \A j \in 1 .. n + 2 : f[j + 1] = g[j]
    <3> SUFFICES ASSUME NEW j \in 1 .. n + 2
                 PROVE  f[j + 1] = g[j]
      OBVIOUS
    <3>1. CASE j \in {1, 2}
      BY <1>4, <1>5, <3>1
    <3>2. CASE j \notin {1, 2}
      <4>1. j + 1 \in 4 .. n + 3 /\ j \in 3 .. n + 2 /\ (j + 1) - 3 = j - 2
        BY <1>2, <3>2
      <4>2. QED
        BY <1>4, <1>5, <4>1
    <3>3. QED
      BY <3>1, <3>2
  <2> HIDE DEF f, g
  <2>3. Tail(f) = g
    BY <1>5, <2>1, <2>2, SameSeq
  <2>4. QED
    BY <2>1, <2>3
<1> HIDE DEF e, f, g
<1>7. WithoutGaps(e) = f
  <2> DEFINE pos == [j \in 0 .. n + 4 |-> IF j < 2 THEN j ELSE j - 1]
  <2>1. pos \in [0 .. n + 4 -> 0 .. n + 3] /\ pos[0] = 0 /\ pos[n + 4] = n + 3
    BY <1>2
  <2>2. ASSUME NEW j \in 1 .. n + 4
        PROVE  IF e[j].kind = "gap" THEN pos[j] = pos[j - 1]
               ELSE pos[j] = pos[j - 1] + 1 /\ e[j] = f[pos[j]]
    <3>1. CASE j = 1
      <4>1. pos[1] = 1 /\ pos[1 - 1] = 0
        BY <1>2
      <4>2. QED
        BY <1>1, <1>3, <1>4, <3>1, <4>1
    <3>2. CASE j = 2
      <4>1. pos[2] = 1 /\ pos[2 - 1] = 1
        BY <1>2
      <4>2. QED
        BY <1>1, <1>3, <3>2, <4>1
    <3>3. CASE j \in {3, 4}
      <4>1. pos[j] = j - 1 /\ pos[j - 1] = j - 2
        BY <1>2, <3>3
      <4>2. e[j] = com /\ f[j - 1] = com
        BY <1>3, <1>4, <3>3
      <4>3. QED
        BY <1>1, <3>3, <4>1, <4>2
    <3>4. CASE j \in 5 .. n + 4
      <4>1. pos[j] = j - 1 /\ pos[j - 1] = j - 2
        BY <1>2, <3>4
      <4>2. j - 1 \in 4 .. n + 3 /\ (j - 1) - 3 = j - 4 /\ j - 4 \in 1 .. n
        BY <1>2, <3>4
      <4>3. e[j] = d[j - 4] /\ f[j - 1] = d[j - 4]
        BY <1>3, <1>4, <3>4, <4>2
      <4>4. d[j - 4].kind # "gap"
        BY <4>2 DEF Plain
      <4>5. QED
        BY <3>4, <4>1, <4>3, <4>4
    <3>5. QED
      BY <1>2, <3>1, <3>2, <3>3, <3>4
  <2> HIDE DEF pos
  <2> DEFINE p == Len(e)  q == Len(f)
  <2>3. p = n + 4 /\ q = n + 3
    BY <1>3, <1>4
  <2> HIDE DEF n, p, q
  <2>4. pos \in [0 .. p -> 0 .. q] /\ pos[0] = 0 /\ pos[p] = q
        /\ \A j \in 1 .. p : IF e[j].kind = "gap" THEN pos[j] = pos[j - 1]
                             ELSE pos[j] = pos[j - 1] + 1 /\ e[j] = f[pos[j]]
    BY <2>1, <2>2, <2>3
  <2>5. e \in Seq(T) /\ f \in Seq(T)
    BY <1>3, <1>4
  <2>6. QED
    BY <2>4, <2>5, GapsGone DEF p, q
<1>8. WithoutLeadingComments(f) = f
  <2>1. 1 \in 1 .. Len(f) /\ f[1].kind # "comment" /\ \A j \in 1 .. 1 - 1 : f[j].kind = "comment"
    BY <1>1, <1>2, <1>4
  <2>2. WithoutLeadingComments(f) = SubSeq(f, 1, Len(f))
    BY <1>4, <2>1, CommentsGone
  <2>3. QED
    BY <1>4, <2>2
<1>9. WithoutLeadingComments(g) = d
  <2>1. 3 \in 1 .. Len(g) /\ g[3] = d[3 - 2]
    BY <1>2, <1>5
  <2>2. g[3].kind # "comment"
    BY <1>2, <2>1
  <2>3. \A j \in 1 .. 3 - 1 : g[j].kind = "comment"
    <3>1. \A j \in 1 .. 3 - 1 : j = 1 \/ j = 2
      OBVIOUS
    <3>2. QED
      BY <1>1, <1>5, <3>1
  <2>4. WithoutLeadingComments(g) = SubSeq(g, 3, Len(g))
    BY <1>5, <2>1, <2>2, <2>3, CommentsGone
  <2>5. /\ SubSeq(g, 3, Len(g)) \in Seq(T) /\ Len(SubSeq(g, 3, Len(g))) = n
        /\ \A j \in 1 .. n : SubSeq(g, 3, Len(g))[j] = g[j + 2]
    BY <1>2, <1>5
  <2>6. \A j \in 1 .. n : j + 2 \in 3 .. n + 2 /\ (j + 2) - 2 = j
    BY <1>2
  <2>7. \A j \in 1 .. n : g[j + 2] = d[j]
    BY <1>5, <2>6
  <2>8. SubSeq(g, 3, Len(g)) = d
    BY <1>2, <2>5, <2>7, SameSeq
  <2>9. QED
    BY <2>4, <2>8
<1>10. Document(e) = Build(d)
  <2>1. Head(f).kind = "declaration"
    BY <1>1, <1>6
  <2>2. QED
    BY <1>6, <1>7, <1>8, <1>9, <2>1 DEF Document
<1>11. QED
  BY <1>10 DEF e, dec, gap, com

(***************************************************************************)
(* However tokens are laid out, the document has the root they end with.    *)
(***************************************************************************)
LEMMA DocumentOf ==
  ASSUME NEW S, NEW tokens, Plain(S, tokens), NEW end, EndsIn(tokens, end), NEW root,
         end.stack = <<root>>, end.failed = FALSE, NEW d \in LaidOut(tokens)
  PROVE  Document(d) = [failed |-> FALSE, root |-> root]
<1>1. tokens \in Seq(S) /\ tokens # <<>>
  BY DEF Plain
<1>2. Build(tokens) = [failed |-> FALSE, root |-> root]
  BY <1>1, BuildIs
<1>3. Document(tokens) = Build(tokens)
  BY DocumentIsBuilt
<1>4. CASE d = tokens
  BY <1>2, <1>3, <1>4
<1>5. CASE d = <<Mark("comment")>> \o tokens
  BY <1>2, <1>5, DocumentAfterComment
<1>6. CASE d = <<Mark("declaration"), Mark("gap"), Mark("comment"), Mark("comment")>> \o tokens
  BY <1>2, <1>6, DocumentAfterDeclaration
<1>7. ASSUME NEW i \in 2 .. Len(tokens), d = InsertAt(tokens, i, Mark("comment"))
      PROVE  Document(d) = [failed |-> FALSE, root |-> root]
  <2> DEFINE token == Mark("comment")
  <2>1. token.kind = "comment"
    BY DEF Mark, Token
  <2> HIDE DEF token
  <2>2. EndsIn(InsertAt(tokens, i, token), end)
    BY <1>1, <2>1, CommentRead
  <2>3. Plain(S \cup {token}, InsertAt(tokens, i, token))
    BY <2>1, DocumentWithComment
  <2>4. d = InsertAt(tokens, i, token)
    BY <1>7 DEF token
  <2> DEFINE T == S \cup {token}
  <2>5. Plain(T, d) /\ EndsIn(d, end)
    BY <2>2, <2>3, <2>4
  <2> HIDE DEF T
  <2>6. d \in Seq(T) /\ d # <<>>
    BY <2>5 DEF Plain
  <2>7. Build(d) = [failed |-> FALSE, root |-> root]
    BY <2>5, <2>6, BuildIs
  <2>8. Document(d) = Build(d)
    BY <2>5, DocumentIsBuilt
  <2>9. QED
    BY <2>7, <2>8
<1>8. ASSUME NEW i \in 2 .. Len(tokens), d = InsertAt(tokens, i, Mark("gap"))
      PROVE  Document(d) = [failed |-> FALSE, root |-> root]
  BY <1>2, <1>3, <1>8, DocumentWithGap
<1>9. QED
  BY <1>4, <1>5, <1>6, <1>7, <1>8 DEF LaidOut

(* What follows a document is laid out with it. *)
LEMMA OverrunLaidOut ==
  ASSUME NEW S, NEW tokens \in Seq(S), NEW t \in Decorated(tokens), NEW d \in Overrun(t)
  PROVE  \/ d \in LaidOut(tokens)
         \/ d \in LaidOut(Append(tokens, Token("content", "", NoAttributes, Word("mac"))))
<1> DEFINE rest == Token("content", "", NoAttributes, Word("mac"))  more == Append(tokens, rest)
           com == Mark("comment")  gap == Mark("gap")  dec == Mark("declaration")
           T == S \cup {rest, com, gap, dec}
<1>1. tokens \in Seq(T) /\ rest \in T /\ com \in T /\ gap \in T /\ dec \in T
  <2> HIDE DEF rest, com, gap, dec
  <2>1. QED
    OBVIOUS
<1>2. d = t \/ d = Append(t, rest)
  BY DEF Overrun
<1>3. \/ t = tokens \/ t = <<com>> \o tokens \/ t = <<dec, gap, com, com>> \o tokens
      \/ \E i \in 2 .. Len(tokens) : t = InsertAt(tokens, i, com)
      \/ \E i \in 2 .. Len(tokens) : t = InsertAt(tokens, i, gap)
  BY DEF Decorated
<1>4. \A u : u \in LaidOut(more) <=>
        \/ u = more \/ u = <<com>> \o more \/ u = <<dec, gap, com, com>> \o more
        \/ \E i \in 2 .. Len(more) : u = InsertAt(more, i, com)
        \/ \E i \in 2 .. Len(more) : u = InsertAt(more, i, gap)
  BY DEF LaidOut
<1>5. \A u : u \in LaidOut(tokens) <=>
        \/ u = tokens \/ u = <<com>> \o tokens \/ u = <<dec, gap, com, com>> \o tokens
        \/ \E i \in 2 .. Len(tokens) : u = InsertAt(tokens, i, com)
        \/ \E i \in 2 .. Len(tokens) : u = InsertAt(tokens, i, gap)
  BY DEF LaidOut
<1> HIDE DEF rest, com, gap, dec, T
<1>6. Len(more) = Len(tokens) + 1 /\ more \in Seq(T) /\ Len(tokens) \in Nat
      /\ more[Len(tokens) + 1] = rest /\ \A j \in 1 .. Len(tokens) : more[j] = tokens[j]
  BY <1>1
<1>7. Append(<<com>> \o tokens, rest) = <<com>> \o more
  BY <1>1
<1>8. Append(<<dec, gap, com, com>> \o tokens, rest) = <<dec, gap, com, com>> \o more
  BY <1>1
<1> HIDE DEF more
<1>9. ASSUME NEW i \in 2 .. Len(tokens), NEW x \in T
      PROVE  Append(InsertAt(tokens, i, x), rest) = InsertAt(more, i, x) /\ i \in 2 .. Len(more)
  <2> DEFINE n == Len(tokens)  e == InsertAt(tokens, i, x)  f == InsertAt(more, i, x)
             a == Append(e, rest)
  <2>1. i \in 1 .. Len(tokens) + 1 /\ i \in 1 .. Len(more) + 1
    BY <1>6
  <2>2. /\ e \in Seq(T) /\ Len(e) = Len(tokens) + 1 /\ e[i] = x
        /\ \A j \in 1 .. i - 1 : e[j] = tokens[j]
        /\ \A j \in i + 1 .. Len(tokens) + 1 : e[j] = tokens[j - 1]
    <3>1. Widened(T, tokens, i, x, InsertAt(tokens, i, x))
      BY <1>1, <2>1, Inserted
    <3>2. QED
      BY <3>1 DEF Widened
  <2>3. /\ f \in Seq(T) /\ Len(f) = Len(more) + 1 /\ f[i] = x
        /\ \A j \in 1 .. i - 1 : f[j] = more[j]
        /\ \A j \in i + 1 .. Len(more) + 1 : f[j] = more[j - 1]
    <3>1. more \in Seq(T) /\ i \in 1 .. Len(more) + 1
      BY <1>6, <2>1
    <3>2. Widened(T, more, i, x, InsertAt(more, i, x))
      BY <3>1, Inserted
    <3>3. QED
      BY <3>2 DEF Widened
  <2> HIDE DEF e, f
  <2>4. a \in Seq(T) /\ Len(a) = Len(tokens) + 2 /\ a[Len(tokens) + 2] = rest
        /\ \A j \in 1 .. Len(tokens) + 1 : a[j] = e[j]
    BY <1>1, <2>2
  <2> HIDE DEF a
  <2>5. ASSUME NEW j \in 1 .. n + 2
        PROVE  a[j] = f[j]
    <3>1. CASE j < i
      <4>1. j \in 1 .. i - 1 /\ j \in 1 .. n /\ j \in 1 .. n + 1
        BY <1>6, <3>1
      <4>2. QED
        BY <1>6, <2>2, <2>3, <2>4, <4>1
    <3>2. CASE j = i
      BY <1>6, <2>2, <2>3, <2>4, <3>2
    <3>3. CASE j > i /\ j <= n + 1
      <4>1. j \in i + 1 .. n + 1 /\ j \in i + 1 .. Len(more) + 1 /\ j - 1 \in 1 .. n
        BY <1>6, <3>3
      <4>2. QED
        BY <1>6, <2>2, <2>3, <2>4, <4>1
    <3>4. CASE j = n + 2
      <4>1. j \in i + 1 .. Len(more) + 1 /\ j - 1 = n + 1
        BY <1>6, <3>4
      <4>2. QED
        BY <1>6, <2>3, <2>4, <3>4, <4>1
    <3>5. QED
      BY <1>6, <3>1, <3>2, <3>3, <3>4
  <2>6. a = f
    BY <1>6, <2>3, <2>4, <2>5, SameSeq
  <2>7. QED
    BY <1>6, <2>6 DEF a, e, f
<1>10. CASE d = t
  <2>1. d \in LaidOut(tokens)
    BY <1>3, <1>5, <1>10
  <2>2. QED
    BY <2>1
<1>11. CASE d = Append(t, rest)
  <2>1. CASE t = tokens
    BY <1>4, <1>11, <2>1 DEF more, rest
  <2>2. CASE t = <<com>> \o tokens
    BY <1>4, <1>7, <1>11, <2>2 DEF more, rest
  <2>3. CASE t = <<dec, gap, com, com>> \o tokens
    BY <1>4, <1>8, <1>11, <2>3 DEF more, rest
  <2>4. ASSUME NEW i \in 2 .. Len(tokens), NEW x \in {com, gap}, t = InsertAt(tokens, i, x)
        PROVE  d \in LaidOut(more)
    <3>1. d = InsertAt(more, i, x) /\ i \in 2 .. Len(more)
      BY <1>1, <1>9, <1>11, <2>4
    <3>2. QED
      BY <1>4, <3>1
  <2>5. d \in LaidOut(more)
    BY <1>3, <1>4, <1>7, <1>8, <1>11, <2>1, <2>2, <2>3, <2>4 DEF more
  <2>6. QED
    BY <2>5 DEF more, rest
<1>12. QED
  BY <1>2, <1>10, <1>11

-----------------------------------------------------------------------------
(* Reading a tree of leaves                                                  *)

(* A sequence of two *)
LEMMA Pair ==
  ASSUME NEW e, NEW x
  PROVE  Append(<<e>>, x) = <<e, x>>
<1> DEFINE S == {e, x}  s == Append(<<e>>, x)  t == <<e, x>>
<1>1. s \in Seq(S) /\ Len(s) = 2 /\ s[1] = e /\ s[2] = x
  <2>1. <<e>> \in Seq(S) /\ Len(<<e>>) = 1 /\ <<e>>[1] = e
    OBVIOUS
  <2> DEFINE o == <<e>>
  <2> HIDE DEF o, S
  <2>2. x \in S
    BY DEF S
  <2>3. QED
    BY <2>1, <2>2 DEF o
<1>2. t \in Seq(S) /\ Len(t) = 2 /\ t[1] = e /\ t[2] = x
  OBVIOUS
<1> HIDE DEF s, t, S
<1>3. s = t
  BY <1>1, <1>2
<1>4. QED
  BY <1>3 DEF s, t

(* Stacks of one and of two elements: the top, what is below, another top *)
LEMMA TopOfOne ==
  ASSUME NEW e
  PROVE  Last(<<e>>) = e
BY DEF Last

(* The top of two elements *)
LEMMA TopOfTwo ==
  ASSUME NEW e, NEW x
  PROVE  Last(<<e, x>>) = x
BY DEF Last

(* What is below the top *)
LEMMA BelowTop ==
  ASSUME NEW e, NEW x
  PROVE  Front(<<e, x>>) = <<e>>
<1> DEFINE S == {e, x}  s == <<e, x>>  t == Front(s)  o == <<e>>
<1>1. s \in Seq(S) /\ Len(s) = 2 /\ s[1] = e /\ o \in Seq(S) /\ Len(o) = 1 /\ o[1] = e
  OBVIOUS
<1> HIDE DEF s, o, S
<1>2. t \in Seq(S) /\ Len(t) = 1 /\ t[1] = e
  BY <1>1 DEF Front
<1> HIDE DEF t
<1>3. t = o
  BY <1>1, <1>2
<1>4. QED
  BY <1>3 DEF t, s, o

(* Another element in the place of the only one *)
LEMMA OnTopOfNone ==
  ASSUME NEW e, NEW f
  PROVE  OnTop(<<e>>, f) = <<f>>
<1>1. Front(<<e>>) = <<>>
  BY DEF Front
<1>2. Append(<<>>, f) = <<f>>
  OBVIOUS
<1>3. QED
  BY <1>1, <1>2 DEF OnTop

(* Another element in the place of the second *)
LEMMA OnTopOfOne ==
  ASSUME NEW e, NEW x, NEW f
  PROVE  OnTop(<<e, x>>, f) = <<e, f>>
<1>1. Front(<<e, x>>) = <<e>>
  BY BelowTop
<1>2. Append(<<e>>, f) = <<e, f>>
  BY Pair
<1>3. QED
  BY <1>1, <1>2 DEF OnTop

(* What an element is given that has no content yet *)
LEMMA GivenContent ==
  ASSUME NEW name, NEW attrs, NEW children, NEW text
  PROVE  WithContent(Element(name, attrs, <<>>, children), text)
           = Element(name, attrs, <<text>>, children)
<1> DEFINE none == <<>>
<1>1. Append(none, text) = <<text>>
  OBVIOUS
<1> HIDE DEF none
<1>2. WithContent(Element(name, attrs, none, children), text)
        = Element(name, attrs, Append(none, text), children)
  BY DEF WithContent, Element
<1>3. QED
  BY <1>1, <1>2 DEF none

(* An element with one more child *)
LEMMA GivenChild ==
  ASSUME NEW name, NEW attrs, NEW content, NEW children, NEW child
  PROVE  WithChild(Element(name, attrs, content, children), child)
           = Element(name, attrs, content, Append(children, child))
<1> DEFINE more == Append(children, child)  e == Element(name, attrs, content, children)
<1>1. e.children = children
  BY DEF Element
<1> HIDE DEF more
<1>2. [e EXCEPT !.children = more] = Element(name, attrs, content, more)
  BY DEF Element
<1> HIDE DEF e
<1>3. WithChild(e, child) = [e EXCEPT !.children = more]
  BY <1>1 DEF WithChild, more
<1>4. QED
  BY <1>2, <1>3 DEF e, more

(* One round of the loop, on a stack that is still open *)
LEMMA StepOf ==
  ASSUME NEW stack, NEW token
  PROVE  /\ token.kind = "open" =>
              BuildStep(Read(stack, FALSE, FALSE), token)
                = Read(Append(stack, Opened(token)), FALSE, FALSE)
         /\ token.kind = "content" =>
              BuildStep(Read(stack, FALSE, FALSE), token)
                = Read(OnTop(stack, WithContent(Last(stack), token.text)), FALSE, FALSE)
         /\ token.kind = "close" /\ Len(stack) = 2 =>
              BuildStep(Read(stack, FALSE, FALSE), token) = Read(Pop(stack), FALSE, FALSE)
         /\ token.kind = "close" /\ Len(stack) = 1 =>
              BuildStep(Read(stack, FALSE, FALSE), token) = Read(stack, TRUE, FALSE)
<1> DEFINE state == Read(stack, FALSE, FALSE)
<1>1. state.stack = stack /\ ~state.closed /\ ~state.failed
  BY DEF Read
<1> HIDE DEF state
<1>2. token.kind = "open" => BuildStep(state, token) = Read(Append(stack, Opened(token)), FALSE, FALSE)
  BY <1>1 DEF BuildStep
<1>3. token.kind = "content" =>
        BuildStep(state, token)
          = Read(OnTop(stack, WithContent(Last(stack), token.text)), FALSE, FALSE)
  BY <1>1 DEF BuildStep
<1>4. token.kind = "close" /\ Len(stack) = 2 =>
        BuildStep(state, token) = Read(Pop(stack), FALSE, FALSE)
  <2>1. 2 # 1
    OBVIOUS
  <2>2. token.kind = "close" =>
          BuildStep(state, token) = IF Len(stack) = 1 THEN Read(stack, TRUE, FALSE)
                                    ELSE Read(Pop(stack), FALSE, FALSE)
    BY <1>1 DEF BuildStep
  <2>3. QED
    BY <2>1, <2>2
<1>5. token.kind = "close" /\ Len(stack) = 1 =>
        BuildStep(state, token) = Read(stack, TRUE, FALSE)
  BY <1>1 DEF BuildStep
<1>6. QED
  BY <1>2, <1>3, <1>4, <1>5 DEF state

(* What an element looks like while its children are read. *)
Reading(name, attrs, children) ==
  Read(<<Element(name, attrs, <<>>, children)>>, FALSE, FALSE)

(* The three tokens of a leaf *)
LEMMA LeafRead ==
  ASSUME NEW S, NEW d \in Seq(S), d # <<>>, NEW name, NEW attrs, NEW children,
         EndsIn(d, Reading(name, attrs, children)),
         NEW a \in S, NEW b \in S, NEW c \in S,
         a.kind = "open", b.kind = "content", c.kind = "close", a.attrs = NoAttributes
  PROVE  EndsIn(d \o <<a, b, c>>,
                Reading(name, attrs, Append(children, Leaf(a.name, b.text))))
<1> DEFINE e    == Element(name, attrs, <<>>, children)
           more == Element(name, attrs, <<>>, Append(children, Leaf(a.name, b.text)))
           leaf == Leaf(a.name, b.text)
           z0   == <<e>>
           z1   == <<e, Opened(a)>>
           z2   == <<e, leaf>>
           z3   == <<more>>
           d1   == Append(d, a)
           d2   == Append(d1, b)
           d3   == Append(d2, c)
<1>1. BuildStep(Read(z0, FALSE, FALSE), a) = Read(z1, FALSE, FALSE)
  <2>1. Append(z0, Opened(a)) = z1
    BY Pair
  <2> HIDE DEF z0, z1
  <2>2. QED
    BY <2>1, StepOf
<1>2. BuildStep(Read(z1, FALSE, FALSE), b) = Read(z2, FALSE, FALSE)
  <2>1. WithContent(Opened(a), b.text) = leaf
    <3>1. Opened(a) = Element(a.name, NoAttributes, <<>>, <<>>)
      BY DEF Opened
    <3>2. leaf = Element(a.name, NoAttributes, <<b.text>>, <<>>)
      BY DEF Leaf
    <3>3. QED
      BY <3>1, <3>2, GivenContent
  <2> HIDE DEF e, leaf
  <2>2. Last(z1) = Opened(a)
    BY TopOfTwo
  <2>3. OnTop(z1, leaf) = z2
    BY OnTopOfOne
  <2> HIDE DEF z1, z2
  <2>4. QED
    BY <2>1, <2>2, <2>3, StepOf
<1>3. BuildStep(Read(z2, FALSE, FALSE), c) = Read(z3, FALSE, FALSE)
  <2>1. WithChild(e, leaf) = more
    BY GivenChild
  <2> HIDE DEF e, leaf, more
  <2>2. Len(z2) = 2
    OBVIOUS
  <2>3. Front(z2) = z0
    BY BelowTop
  <2>4. Last(z2) = leaf
    BY TopOfTwo
  <2>5. Last(z0) = e
    BY TopOfOne
  <2>6. OnTop(z0, more) = z3
    BY OnTopOfNone
  <2> HIDE DEF z0, z2, z3
  <2>7. Pop(z2) = z3
    BY <2>1, <2>3, <2>4, <2>5, <2>6 DEF Pop
  <2>8. QED
    BY <2>2, <2>7, StepOf
<1> HIDE DEF e, more, leaf, z0, z1, z2, z3
<1>4. EndsIn(d, Read(z0, FALSE, FALSE))
  BY DEF Reading, z0, e
<1>5. d1 \in Seq(S) /\ d1 # <<>> /\ EndsIn(d1, Read(z1, FALSE, FALSE))
  <2>1. EndsIn(Append(d, a), BuildStep(Read(z0, FALSE, FALSE), a))
    BY <1>4, ReadOn
  <2>2. d1 \in Seq(S) /\ d1 # <<>>
    OBVIOUS
  <2>3. QED
    BY <1>1, <2>1, <2>2
<1>6. d2 \in Seq(S) /\ d2 # <<>> /\ EndsIn(d2, Read(z2, FALSE, FALSE))
  <2> HIDE DEF d1
  <2>1. EndsIn(Append(d1, b), BuildStep(Read(z1, FALSE, FALSE), b))
    BY <1>5, ReadOn
  <2>2. d2 \in Seq(S) /\ d2 # <<>>
    BY <1>5
  <2>3. QED
    BY <1>2, <2>1, <2>2
<1>7. EndsIn(d3, Read(z3, FALSE, FALSE))
  <2> HIDE DEF d2
  <2>1. EndsIn(Append(d2, c), BuildStep(Read(z2, FALSE, FALSE), c))
    BY <1>6, ReadOn
  <2>2. QED
    BY <1>3, <2>1
<1>8. d3 = d \o <<a, b, c>>
  OBVIOUS
<1>9. Read(z3, FALSE, FALSE) = Reading(name, attrs, Append(children, Leaf(a.name, b.text)))
  BY DEF Reading, z3, more
<1>10. QED
  BY <1>7, <1>8, <1>9

-----------------------------------------------------------------------------
(* What operator<< prints                                                    *)

(* One more element *)
LEMMA Appended ==
  ASSUME NEW S, NEW s \in Seq(S), NEW x \in S
  PROVE  /\ Append(s, x) \in Seq(S) /\ Len(Append(s, x)) = Len(s) + 1
         /\ Append(s, x)[Len(s) + 1] = x
         /\ \A j \in 1 .. Len(s) : Append(s, x)[j] = s[j]
OBVIOUS

(* FlattenSeq joins the pieces one by one. *)
LEMMA Flattened ==
  ASSUME NEW S, NEW seqs \in Seq(S), Len(seqs) >= 1
  PROVE  \E flat : /\ FlattenSeq(seqs) = flat[Len(seqs)] /\ flat[1] = seqs[1]
                   /\ \A i \in 2 .. Len(seqs) : flat[i] = flat[i - 1] \o seqs[i]
<1> DEFINE n          == Len(seqs)
           body(m, f) == [i \in 1 .. m |-> IF i = 1 THEN seqs[i] ELSE f[i - 1] \o seqs[i]]
           flatten    == CHOOSE f : f = body(n, f)
           good       == {k \in Nat : \E f : f = body(k + 1, f)}
<1>1. n \in Nat /\ n >= 1 /\ ~(n = 0)
  OBVIOUS
<1>2. FlattenSeq(seqs) = flatten[n]
  BY <1>1 DEF FlattenSeq
<1> HIDE DEF n
<1>3. 0 \in good
  <2> DEFINE f == [i \in 1 .. 0 + 1 |-> seqs[i]]
  <2>1. \A i \in 1 .. 0 + 1 : i = 1
    OBVIOUS
  <2>2. f = body(0 + 1, f)
    BY <2>1
  <2>3. QED
    BY <2>2
<1>4. ASSUME NEW k \in Nat, k \in good
      PROVE  k + 1 \in good
  <2>1. PICK f : f = body(k + 1, f)
    BY <1>4
  <2>2. \A i \in 1 .. k + 1 : f[i] = IF i = 1 THEN seqs[i] ELSE f[i - 1] \o seqs[i]
    <3>1. \A i \in 1 .. k + 1 : body(k + 1, f)[i] = IF i = 1 THEN seqs[i] ELSE f[i - 1] \o seqs[i]
      OBVIOUS
    <3> HIDE DEF body
    <3>2. QED
      BY <2>1, <3>1
  <2> DEFINE m == (k + 1) + 1
             g == [i \in 1 .. m |-> IF i <= k + 1 THEN f[i] ELSE f[k + 1] \o seqs[i]]
  <2>3. g = [i \in 1 .. m |-> g[i]]
    OBVIOUS
  <2>4. ASSUME NEW i \in 1 .. m
        PROVE  g[i] = IF i = 1 THEN seqs[i] ELSE g[i - 1] \o seqs[i]
    <3>1. CASE i = 1
      <4>1. g[1] = f[1] /\ 1 \in 1 .. k + 1
        OBVIOUS
      <4>2. QED
        BY <2>2, <3>1, <4>1
    <3>2. CASE i # 1 /\ i <= k + 1
      <4>1. g[i] = f[i] /\ g[i - 1] = f[i - 1] /\ i \in 1 .. k + 1
        BY <3>2
      <4> HIDE DEF g, m
      <4>2. QED
        BY <2>2, <3>2, <4>1
    <3>3. CASE i = m
      <4>1. i - 1 = k + 1 /\ i - 1 <= k + 1 /\ i - 1 \in 1 .. m /\ ~(i <= k + 1) /\ i # 1
        BY <3>3
      <4>2. g[i - 1] = f[i - 1] /\ f[i - 1] = f[k + 1]
        BY <4>1
      <4>3. g[i] = f[k + 1] \o seqs[i]
        BY <4>1
      <4> HIDE DEF g, m
      <4>4. QED
        BY <4>1, <4>2, <4>3
    <3>4. QED
      BY <3>1, <3>2, <3>3
  <2> HIDE DEF g
  <2>5. g = body(m, g)
    <3> HIDE DEF m
    <3>1. QED
      BY <2>3, <2>4
  <2>6. \E h : h = body((k + 1) + 1, h)
    BY <2>5 DEF m
  <2> HIDE DEF body
  <2>7. QED
    BY <2>6
<1> HIDE DEF good
<1>5. n - 1 \in good
  BY <1>1, <1>3, <1>4, NatInd
<1>6. \E f : f = body(n, f)
  <2>1. (n - 1) + 1 = n
    BY <1>1
  <2>2. \E f : f = body((n - 1) + 1, f)
    BY <1>5 DEF good
  <2> HIDE DEF body
  <2>3. QED
    BY <2>1, <2>2
<1>7. flatten = body(n, flatten)
  <2> HIDE DEF body
  <2>1. QED
    BY <1>6
<1> HIDE DEF flatten
<1>8. \A i \in 1 .. n : flatten[i] = IF i = 1 THEN seqs[i] ELSE flatten[i - 1] \o seqs[i]
  <2>1. \A i \in 1 .. n :
          body(n, flatten)[i] = IF i = 1 THEN seqs[i] ELSE flatten[i - 1] \o seqs[i]
    OBVIOUS
  <2> HIDE DEF body
  <2>2. QED
    BY <1>7, <2>1
<1>9. flatten[1] = seqs[1] /\ \A i \in 2 .. n : flatten[i] = flatten[i - 1] \o seqs[i]
  <2>1. 1 \in 1 .. n /\ \A i \in 2 .. n : i \in 1 .. n /\ i # 1
    BY <1>1
  <2>2. QED
    BY <1>8, <2>1
<1>10. QED
  BY <1>2, <1>9 DEF n

(* A leaf is three tokens. *)
LEMMA LeafPrinted ==
  ASSUME NEW name, NEW text
  PROVE  PrintLeaf(Leaf(name, text))
           = <<Token("open", name, NoAttributes, Word("")),
               Token("content", "", NoAttributes, text),
               Token("close", name, NoAttributes, Word(""))>>
<1> DEFINE e == Leaf(name, text)
<1>1. /\ e.name = name /\ e.attrs = NoAttributes /\ e.content = <<text>>
  BY DEF Leaf, Element
<1>2. <<text>> # <<>> /\ <<text>>[1] = text
  OBVIOUS
<1> HIDE DEF e
<1>3. PrintLeaf(e)
        = <<Token("open", e.name, e.attrs, Word("")),
            Token("content", "", NoAttributes, e.content[1]),
            Token("close", e.name, NoAttributes, Word(""))>>
  BY <1>1, <1>2 DEF PrintLeaf
<1>4. QED
  BY <1>1, <1>2, <1>3 DEF e

(* An element without content and children is printed as one tag, and read. *)
LEMMA EmptyRead ==
  ASSUME NEW name, NEW attrs
  PROVE  LET e      == Element(name, attrs, <<>>, <<>>)
             tokens == PrintTree(e)
             rest   == Token("content", "", NoAttributes, Word("mac"))
         IN /\ \E S : Plain(S, tokens) /\ Plain(S, Append(tokens, rest))
            /\ EndsIn(tokens, Read(<<e>>, FALSE, FALSE))
            /\ EndsIn(Append(tokens, rest),
                      Read(<<Element(name, attrs, <<Word("mac")>>, <<>>)>>, FALSE, FALSE))
<1> DEFINE e      == Element(name, attrs, <<>>, <<>>)
           t      == Token("single", name, attrs, Word(""))
           tokens == <<t>>
           rest   == Token("content", "", NoAttributes, Word("mac"))
           full   == Element(name, attrs, <<Word("mac")>>, <<>>)
           S      == {t, rest}
<1>1. PrintTree(e) = tokens
  <2>1. e.children = <<>> /\ e.content = <<>> /\ e.name = name /\ e.attrs = attrs
    BY DEF Element
  <2> HIDE DEF e
  <2>2. PrintTree(e) = PrintLeaf(e)
    BY <2>1 DEF PrintTree
  <2>3. PrintLeaf(e) = <<Token("single", e.name, e.attrs, Word(""))>>
    BY <2>1 DEF PrintLeaf
  <2>4. QED
    BY <2>1, <2>2, <2>3
<1>2. t.kind = "single" /\ rest.kind = "content" /\ Opened(t) = e /\ rest.text = Word("mac")
  BY DEF Token, Opened
<1>3. t \in S /\ rest \in S
  OBVIOUS
<1>4. WithContent(e, rest.text) = full
  <2>1. rest.text = Word("mac")
    BY <1>2
  <2> HIDE DEF rest
  <2>2. WithContent(Element(name, attrs, <<>>, <<>>), Word("mac")) = full
    BY GivenContent
  <2>3. QED
    BY <2>1, <2>2
<1> HIDE DEF t, rest, S, e, full
<1>5. /\ tokens \in Seq(S) /\ Len(tokens) = 1 /\ tokens[1] = t /\ tokens # <<>>
      /\ Append(tokens, rest) \in Seq(S) /\ Len(Append(tokens, rest)) = 2
      /\ Append(tokens, rest)[1] = t /\ Append(tokens, rest)[2] = rest
      /\ Append(tokens, rest) # <<>>
  <2>1. Append(tokens, rest) = <<t, rest>>
    BY Pair
  <2>2. /\ tokens \in Seq(S) /\ Len(tokens) = 1 /\ tokens[1] = t /\ tokens # <<>>
    BY <1>3
  <2>3. /\ <<t, rest>> \in Seq(S) /\ Len(<<t, rest>>) = 2
        /\ <<t, rest>>[1] = t /\ <<t, rest>>[2] = rest /\ <<t, rest>> # <<>>
    BY <1>3
  <2>4. QED
    BY <2>1, <2>2, <2>3
<1> HIDE DEF tokens
<1>6. Plain(S, tokens)
  BY <1>2, <1>5 DEF Plain
<1>7. Plain(S, Append(tokens, rest))
  <2> DEFINE more == Append(tokens, rest)
  <2>1. more \in Seq(S) /\ Len(more) = 2 /\ more[1] = t /\ more[2] = rest /\ more # <<>>
    BY <1>5
  <2> HIDE DEF more
  <2>2. \A j \in 1 .. 2 : j = 1 \/ j = 2
    OBVIOUS
  <2>3. \A j \in 1 .. Len(more) : more[j].kind # "gap"
    BY <1>2, <2>1, <2>2
  <2>4. Plain(S, more)
    BY <1>2, <2>1, <2>3 DEF Plain
  <2>5. QED
    BY <2>4 DEF more
<1>8. EndsIn(tokens, Read(<<e>>, FALSE, FALSE))
  <2> DEFINE end == Read(<<e>>, FALSE, FALSE)  st == [i \in 1 .. 1 |-> end]
  <2>1. Start(tokens[1]) = end
    BY <1>2, <1>5 DEF Start
  <2> HIDE DEF end
  <2>2. st = [i \in 1 .. 1 |-> st[i]] /\ st[1] = end
    OBVIOUS
  <2> HIDE DEF st
  <2>3. \A i \in 2 .. 1 : st[i] = BuildStep(st[i - 1], tokens[i])
    OBVIOUS
  <2>4. EndsIn(tokens, end)
    BY <1>5, <2>1, <2>2, <2>3 DEF EndsIn
  <2>5. QED
    BY <2>4 DEF end
<1>9. BuildStep(Read(<<e>>, FALSE, FALSE), rest) = Read(<<full>>, FALSE, FALSE)
  <2> DEFINE z0 == <<e>>  z1 == <<full>>
  <2>1. Last(z0) = e
    BY TopOfOne
  <2>2. OnTop(z0, full) = z1
    BY OnTopOfNone
  <2> HIDE DEF z0, z1
  <2>3. BuildStep(Read(z0, FALSE, FALSE), rest) = Read(z1, FALSE, FALSE)
    BY <1>2, <1>4, <2>1, <2>2, StepOf
  <2>4. QED
    BY <2>3 DEF z0, z1
<1>10. EndsIn(Append(tokens, rest), Read(<<full>>, FALSE, FALSE))
  BY <1>5, <1>8, <1>9, ReadOn
<1>11. QED
  BY <1>1, <1>6, <1>7, <1>8, <1>10 DEF e, rest, full

(* A sequence of one *)
LEMMA OneElement ==
  ASSUME NEW S, NEW s \in Seq(S), Len(s) = 1
  PROVE  s = <<s[1]>>
<1> SUFFICES ASSUME NEW t, t = <<s[1]>>
             PROVE  s = t
  OBVIOUS
<1>1. t \in Seq(S) /\ Len(t) = 1 /\ t[1] = s[1]
  OBVIOUS
<1>2. QED
  BY <1>1

(* Three more tokens *)
LEMMA LeafAppended ==
  ASSUME NEW S, NEW d \in Seq(S), d # <<>>, NEW a \in S, NEW b \in S, NEW c \in S,
         \A j \in 1 .. Len(d) : d[j].kind # "gap",
         a.kind # "gap", b.kind # "gap", c.kind # "gap"
  PROVE  /\ d \o <<a, b, c>> \in Seq(S) /\ d \o <<a, b, c>> # <<>>
         /\ (d \o <<a, b, c>>)[1] = d[1]
         /\ \A j \in 1 .. Len(d \o <<a, b, c>>) : (d \o <<a, b, c>>)[j].kind # "gap"
<1> SUFFICES ASSUME NEW leaf, leaf = <<a, b, c>>, NEW more, more = d \o leaf
             PROVE  /\ more \in Seq(S) /\ more # <<>> /\ more[1] = d[1]
                    /\ \A j \in 1 .. Len(more) : more[j].kind # "gap"
  OBVIOUS
<1>1. /\ leaf \in Seq(S) /\ Len(leaf) = 3 /\ leaf[1] = a /\ leaf[2] = b /\ leaf[3] = c
  OBVIOUS
<1>2. /\ more \in Seq(S) /\ Len(more) = Len(d) + 3
      /\ \A j \in 1 .. Len(d) : more[j] = d[j]
      /\ \A j \in Len(d) + 1 .. Len(d) + 3 : more[j] = leaf[j - Len(d)]
  BY <1>1, Joined
<1>3. 1 \in 1 .. Len(d) /\ Len(d) \in Nat /\ more # <<>>
  BY <1>2
<1>4. ASSUME NEW j \in 1 .. Len(more), j \notin 1 .. Len(d)
      PROVE  more[j] \in {a, b, c}
  <2>1. j \in Len(d) + 1 .. Len(d) + 3 /\ j - Len(d) \in {1, 2, 3}
    BY <1>2, <1>3, <1>4
  <2>2. QED
    BY <1>1, <1>2, <2>1
<1>5. QED
  BY <1>2, <1>3, <1>4

(***************************************************************************)
(* The opening tag o and the first k of n leaves have been read; all leaves  *)
(* have the tags a and c, b[i] is the content of the i-th, and flat[i] is    *)
(* what the first i are printed as.                                         *)
(***************************************************************************)
LeavesGiven(S, o, a, b, c, n, name, attrs, flat, C, children) ==
  /\ o \in S /\ a \in S /\ c \in S /\ n \in Nat /\ n >= 1 /\ b \in [1 .. n -> S]
  /\ o.kind = "open" /\ a.kind = "open" /\ c.kind = "close" /\ a.attrs = NoAttributes
  /\ \A i \in 1 .. n : b[i].kind = "content"
  /\ Opened(o) = Element(name, attrs, <<>>, <<>>)
  /\ flat[1] = <<a, b[1], c>>
  /\ \A i \in 2 .. n : flat[i] = flat[i - 1] \o <<a, b[i], c>>
  /\ \A i \in 1 .. n : flat[i] \in Seq(S)
  /\ children \in Seq(C) /\ Len(children) = n
  /\ \A i \in 1 .. n : children[i] = Leaf(a.name, b[i].text)

(* The leaves of an element are read one after the other. *)
LEMMA LeavesRead ==
  ASSUME NEW S, NEW o, NEW a, NEW b, NEW c, NEW n, NEW name, NEW attrs, NEW flat, NEW C,
         NEW children, LeavesGiven(S, o, a, b, c, n, name, attrs, flat, C, children),
         NEW k \in 1 .. n
  PROVE  /\ <<o>> \o flat[k] \in Seq(S) /\ <<o>> \o flat[k] # <<>>
         /\ (<<o>> \o flat[k])[1] = o
         /\ \A j \in 1 .. Len(<<o>> \o flat[k]) : (<<o>> \o flat[k])[j].kind # "gap"
         /\ EndsIn(<<o>> \o flat[k], Reading(name, attrs, SubSeq(children, 1, k)))
<1> USE DEF LeavesGiven
<1> DEFINE Good(d, ch) == /\ d \in Seq(S) /\ d # <<>> /\ d[1] = o
                          /\ \A j \in 1 .. Len(d) : d[j].kind # "gap"
                          /\ EndsIn(d, Reading(name, attrs, ch))
           good == {i \in Nat : i + 1 <= n =>
                      Good(<<o>> \o flat[i + 1], SubSeq(children, 1, i + 1))}
<1>1. ASSUME NEW d, NEW ch, Good(d, ch), NEW i \in 1 .. n
      PROVE  Good(d \o <<a, b[i], c>>, Append(ch, Leaf(a.name, b[i].text)))
  <2>1. b[i] \in S /\ b[i].kind = "content"
    OBVIOUS
  <2>2. EndsIn(d \o <<a, b[i], c>>,
               Reading(name, attrs, Append(ch, Leaf(a.name, b[i].text))))
    BY <1>1, <2>1, LeafRead
  <2>3. /\ d \o <<a, b[i], c>> \in Seq(S) /\ d \o <<a, b[i], c>> # <<>>
        /\ (d \o <<a, b[i], c>>)[1] = d[1]
        /\ \A j \in 1 .. Len(d \o <<a, b[i], c>>) : (d \o <<a, b[i], c>>)[j].kind # "gap"
    <3>1. d \in Seq(S) /\ d # <<>> /\ \A j \in 1 .. Len(d) : d[j].kind # "gap"
      BY <1>1
    <3>2. a.kind # "gap" /\ b[i].kind # "gap" /\ c.kind # "gap"
      BY <2>1
    <3> SUFFICES ASSUME NEW x, x = b[i]
                 PROVE  /\ d \o <<a, x, c>> \in Seq(S) /\ d \o <<a, x, c>> # <<>>
                        /\ (d \o <<a, x, c>>)[1] = d[1]
                        /\ \A j \in 1 .. Len(d \o <<a, x, c>>) : (d \o <<a, x, c>>)[j].kind # "gap"
      OBVIOUS
    <3>3. x \in S /\ x.kind # "gap" /\ a \in S /\ c \in S
      BY <2>1, <3>2
    <3> HIDE DEF LeavesGiven
    <3>4. QED
      BY <3>1, <3>2, <3>3, LeafAppended
  <2>4. QED
    BY <1>1, <2>2, <2>3
<1>2. Good(<<o>>, <<>>)
  <2>1. <<o>> \in Seq(S) /\ <<o>> # <<>> /\ <<o>>[1] = o /\ Len(<<o>>) = 1
    OBVIOUS
  <2>2. \A j \in 1 .. Len(<<o>>) : <<o>>[j].kind # "gap"
    BY <2>1
  <2>3. EndsIn(<<o>>, Reading(name, attrs, <<>>))
    <3> DEFINE d == <<o>>  end == Reading(name, attrs, <<>>)  st == [i \in 1 .. 1 |-> end]
    <3>1. Start(o) = end
      BY DEF Start, Reading
    <3> HIDE DEF end
    <3>2. st = [i \in 1 .. 1 |-> st[i]] /\ st[1] = end
      OBVIOUS
    <3> HIDE DEF st
    <3>3. Len(d) = 1 /\ d[1] = o
      BY <2>1
    <3> HIDE DEF d
    <3>4. \A i \in 2 .. 1 : st[i] = BuildStep(st[i - 1], d[i])
      OBVIOUS
    <3>5. EndsIn(d, end)
      BY <3>1, <3>2, <3>3, <3>4 DEF EndsIn
    <3>6. QED
      BY <3>5 DEF d, end
  <2>4. QED
    BY <2>1, <2>2, <2>3
<1> HIDE DEF Good
<1>3. 0 \in good
  <2>1. 1 \in 1 .. n /\ flat[1] \in Seq(S)
    OBVIOUS
  <2>2. <<o>> \o <<a, b[1], c>> = <<o>> \o flat[1]
    OBVIOUS
  <2>3. Append(<<>>, Leaf(a.name, b[1].text)) = SubSeq(children, 1, 1)
    <3>1. children[1] = Leaf(a.name, b[1].text)
      BY <2>1
    <3>2. SubSeq(children, 1, 1) = <<children[1]>>
      <4>1. /\ SubSeq(children, 1, 1) \in Seq(C) /\ Len(SubSeq(children, 1, 1)) = 1
            /\ SubSeq(children, 1, 1)[1] = children[1]
        OBVIOUS
      <4>2. QED
        BY <4>1, OneElement
    <3> DEFINE leaf == Leaf(a.name, b[1].text)
    <3> HIDE DEF leaf
    <3>3. Append(<<>>, leaf) = <<leaf>>
      OBVIOUS
    <3>4. QED
      BY <3>1, <3>2, <3>3 DEF leaf
  <2>4. Good(<<o>> \o <<a, b[1], c>>, Append(<<>>, Leaf(a.name, b[1].text)))
    BY <1>1, <1>2, <2>1
  <2>5. Good(<<o>> \o flat[1], SubSeq(children, 1, 1))
    BY <2>2, <2>3, <2>4
  <2>6. 0 + 1 = 1
    OBVIOUS
  <2>7. Good(<<o>> \o flat[0 + 1], SubSeq(children, 1, 0 + 1))
    BY <2>5, <2>6
  <2>8. QED
    BY <2>7
<1>4. ASSUME NEW i \in Nat, i \in good
      PROVE  i + 1 \in good
  <2>1. SUFFICES ASSUME (i + 1) + 1 <= n
                 PROVE  Good(<<o>> \o flat[(i + 1) + 1], SubSeq(children, 1, (i + 1) + 1))
    OBVIOUS
  <2> DEFINE h == i + 1  p == (i + 1) + 1
  <2>2. h \in 1 .. n /\ p \in 2 .. n /\ p \in 1 .. n /\ p - 1 = h /\ p = h + 1 /\ h + 1 \in 1 .. n
    BY <2>1
  <2>3. Good(<<o>> \o flat[h], SubSeq(children, 1, h))
    BY <1>4, <2>2
  <2> HIDE DEF h, p
  <2>4. flat[p] = flat[h] \o <<a, b[p], c>> /\ flat[h] \in Seq(S) /\ b[p] \in S
    BY <2>2
  <2>5. <<o>> \o flat[p] = (<<o>> \o flat[h]) \o <<a, b[p], c>>
    <3> DEFINE x == flat[h]  y == <<a, b[p], c>>  z == <<o>>
    <3>1. x \in Seq(S) /\ y \in Seq(S) /\ z \in Seq(S)
      BY <2>4
    <3> HIDE DEF x, y, z
    <3>2. z \o (x \o y) = (z \o x) \o y
      BY <3>1
    <3>3. QED
      BY <2>4, <3>2 DEF x, y, z
  <2>6. SubSeq(children, 1, p) = Append(SubSeq(children, 1, h), Leaf(a.name, b[p].text))
    <3>1. \A q \in 1 .. n : q + 1 \in 1 .. n =>
            SubSeq(children, 1, q + 1) = Append(SubSeq(children, 1, q), children[q + 1])
      OBVIOUS
    <3>2. children[p] = Leaf(a.name, b[p].text)
      BY <2>2
    <3>3. QED
      BY <2>2, <3>1, <3>2
  <2>7. Good((<<o>> \o flat[h]) \o <<a, b[p], c>>,
             Append(SubSeq(children, 1, h), Leaf(a.name, b[p].text)))
    BY <1>1, <2>2, <2>3
  <2>8. Good(<<o>> \o flat[p], SubSeq(children, 1, p))
    BY <2>5, <2>6, <2>7
  <2>9. QED
    BY <2>8 DEF p
<1> HIDE DEF good
<1>5. k - 1 \in good
  BY <1>3, <1>4, NatInd
<1>6. (k - 1) + 1 = k
  OBVIOUS
<1>7. Good(<<o>> \o flat[k], SubSeq(children, 1, k))
  <2>1. Good(<<o>> \o flat[(k - 1) + 1], SubSeq(children, 1, (k - 1) + 1))
    BY <1>5 DEF good
  <2>2. QED
    BY <1>6, <2>1
<1>8. QED
  BY <1>7 DEF Good

(* What has leaves only is printed with all its leaves, and read. *)
LEMMA TreeRead ==
  ASSUME NEW name, NEW attrs, NEW leafName, NEW n \in Nat, n >= 1, NEW texts, NEW children,
         children = [i \in 1 .. n |-> Leaf(leafName, texts[i])]
  PROVE  \E S : /\ Plain(S, PrintTree(Element(name, attrs, <<>>, children)))
                /\ EndsIn(PrintTree(Element(name, attrs, <<>>, children)),
                          Read(<<Element(name, attrs, <<>>, children)>>, TRUE, FALSE))
<1> DEFINE oT == Token("open", name, attrs, Word(""))
           cT == Token("close", name, NoAttributes, Word(""))
           aT == Token("open", leafName, NoAttributes, Word(""))
           zT == Token("close", leafName, NoAttributes, Word(""))
           bT == [i \in 1 .. n |-> Token("content", "", NoAttributes, texts[i])]
           eT == Element(name, attrs, <<>>, children)
<1>1. /\ oT.kind = "open" /\ cT.kind = "close" /\ aT.kind = "open" /\ zT.kind = "close"
      /\ aT.attrs = NoAttributes /\ aT.name = leafName
      /\ \A i \in 1 .. n : bT[i].kind = "content" /\ bT[i].text = texts[i]
      /\ Opened(oT) = Element(name, attrs, <<>>, <<>>)
      /\ bT = [i \in 1 .. n |-> bT[i]]
  BY DEF Token, Opened
<1>2. children \in Seq({Leaf(leafName, texts[i]) : i \in 1 .. n}) /\ Len(children) = n
      /\ \A i \in 1 .. n : children[i] = Leaf(leafName, texts[i])
  <2> SUFFICES ASSUME NEW f, f = [i \in 1 .. n |-> Leaf(leafName, texts[i])]
               PROVE  children \in Seq({f[i] : i \in 1 .. n}) /\ Len(children) = n
                      /\ \A i \in 1 .. n : children[i] = f[i]
    OBVIOUS
  <2>1. children = [i \in 1 .. n |-> f[i]]
    OBVIOUS
  <2> HIDE <1>1
  <2>2. QED
    BY <2>1
<1>3. /\ eT.children = children /\ eT.name = name /\ eT.attrs = attrs /\ children # <<>>
  BY <1>2 DEF Element
<1>4. \A i \in 1 .. n : PrintLeaf(children[i]) = <<aT, bT[i], zT>>
  BY <1>2, LeafPrinted
<1> SUFFICES ASSUME NEW o, o = oT, NEW c, c = cT, NEW a, a = aT, NEW z, z = zT,
                    NEW b, b = bT, NEW e, e = eT
             PROVE  \E S : Plain(S, PrintTree(e)) /\ EndsIn(PrintTree(e), Read(<<e>>, TRUE, FALSE))
  OBVIOUS
<1> HIDE DEF oT, cT, aT, zT, bT, eT
<1>5. PICK S : S = {o, c, a, z} \cup {b[i] : i \in 1 .. n}
  OBVIOUS
<1>6. o \in S /\ c \in S /\ a \in S /\ z \in S /\ b \in [1 .. n -> S]
  BY <1>1, <1>5
<1>7. PICK seqs : seqs = [i \in DOMAIN e.children |-> PrintLeaf(e.children[i])]
  OBVIOUS
<1>8. PrintTree(e) = <<o>> \o FlattenSeq(seqs) \o <<c>>
  <2>1. PrintTree(e)
          = <<Token("open", e.name, e.attrs, Word(""))>> \o FlattenSeq(seqs)
            \o <<Token("close", e.name, NoAttributes, Word(""))>>
    BY <1>3, <1>7 DEF PrintTree
  <2>2. QED
    BY <1>3, <2>1 DEF oT, cT
<1>9. /\ seqs \in Seq(Seq(S)) /\ Len(seqs) = n
      /\ \A i \in 1 .. n : seqs[i] = <<a, b[i], z>> /\ seqs[i] \in Seq(S)
  <2>1. DOMAIN e.children = 1 .. n
    BY <1>2, <1>3
  <2>2. \A i \in 1 .. n : PrintLeaf(e.children[i]) = <<a, b[i], z>>
    BY <1>3, <1>4
  <2>3. seqs = [i \in 1 .. n |-> <<a, b[i], z>>]
    BY <1>7, <2>1, <2>2
  <2>4. \A i \in 1 .. n : <<a, b[i], z>> \in Seq(S)
    <3>1. \A x \in S : <<a, x, z>> \in Seq(S)
      BY <1>6
    <3>2. QED
      BY <1>6, <3>1
  <2>5. QED
    BY <2>3, <2>4
<1>10. PICK flat : /\ FlattenSeq(seqs) = flat[n] /\ flat[1] = seqs[1]
                   /\ \A i \in 2 .. n : flat[i] = flat[i - 1] \o seqs[i]
  <2> SUFFICES ASSUME NEW R, seqs \in Seq(R)
               PROVE  \E flat : /\ FlattenSeq(seqs) = flat[n] /\ flat[1] = seqs[1]
                                /\ \A i \in 2 .. n : flat[i] = flat[i - 1] \o seqs[i]
    BY <1>9
  <2>1. Len(seqs) = n
    BY <1>9
  <2>2. \E flat : /\ FlattenSeq(seqs) = flat[Len(seqs)] /\ flat[1] = seqs[1]
                  /\ \A i \in 2 .. Len(seqs) : flat[i] = flat[i - 1] \o seqs[i]
    BY <2>1, Flattened
  <2>3. QED
    BY <2>1, <2>2
<1>11. \A i \in 1 .. n : flat[i] \in Seq(S)
  <2> DEFINE good == {i \in Nat : i + 1 <= n => flat[i + 1] \in Seq(S)}
  <2>1. 0 \in good
    BY <1>9, <1>10
  <2>2. ASSUME NEW i \in Nat, i \in good
        PROVE  i + 1 \in good
    <3>1. SUFFICES ASSUME (i + 1) + 1 <= n
                   PROVE  flat[(i + 1) + 1] \in Seq(S)
      OBVIOUS
    <3> DEFINE p == (i + 1) + 1
    <3>2. p \in 2 .. n /\ p \in 1 .. n /\ p - 1 = i + 1 /\ flat[i + 1] \in Seq(S)
      BY <2>2, <3>1
    <3> HIDE DEF p
    <3>3. seqs[p] \in Seq(S) /\ flat[p] = flat[p - 1] \o seqs[p] /\ flat[p - 1] \in Seq(S)
      BY <1>9, <1>10, <3>2
    <3>4. flat[p] \in Seq(S)
      BY <3>3, Joined
    <3>5. QED
      BY <3>4 DEF p
  <2> HIDE DEF good
  <2>3. Nat \subseteq good
    BY <2>1, <2>2, NatInd
  <2>4. ASSUME NEW i \in 1 .. n
        PROVE  flat[i] \in Seq(S)
    <3>1. i - 1 \in good /\ (i - 1) + 1 = i /\ i <= n
      BY <2>3
    <3>2. QED
      BY <3>1 DEF good
  <2>5. QED
    BY <2>4
<1>12. flat[1] = <<a, b[1], z>> /\ \A i \in 2 .. n : flat[i] = flat[i - 1] \o <<a, b[i], z>>
  <2>1. 1 \in 1 .. n /\ \A i \in 2 .. n : i \in 1 .. n
    OBVIOUS
  <2>2. QED
    BY <1>9, <1>10, <2>1
<1>13. PICK C : C = {Leaf(leafName, texts[i]) : i \in 1 .. n}
  OBVIOUS
<1>14. children \in Seq(C)
  BY <1>2, <1>13
<1>15. /\ o.kind = "open" /\ c.kind = "close" /\ a.kind = "open" /\ z.kind = "close"
       /\ a.attrs = NoAttributes
       /\ \A i \in 1 .. n : b[i].kind = "content"
       /\ Opened(o) = Element(name, attrs, <<>>, <<>>)
       /\ \A i \in 1 .. n : children[i] = Leaf(a.name, b[i].text)
  BY <1>1, <1>2
<1>16. PICK d : d = <<o>> \o flat[n]
  OBVIOUS
<1>17. /\ d \in Seq(S) /\ d # <<>> /\ d[1] = o
       /\ \A j \in 1 .. Len(d) : d[j].kind # "gap"
       /\ EndsIn(d, Reading(name, attrs, children))
  <2>1. n \in 1 .. n /\ SubSeq(children, 1, n) = children
    BY <1>2, <1>14
  <2>2. /\ <<o>> \o flat[n] \in Seq(S) /\ <<o>> \o flat[n] # <<>>
        /\ (<<o>> \o flat[n])[1] = o
        /\ \A j \in 1 .. Len(<<o>> \o flat[n]) : (<<o>> \o flat[n])[j].kind # "gap"
        /\ EndsIn(<<o>> \o flat[n], Reading(name, attrs, SubSeq(children, 1, n)))
    <3>1. LeavesGiven(S, o, a, b, z, n, name, attrs, flat, C, children)
      BY <1>2, <1>6, <1>11, <1>12, <1>14, <1>15 DEF LeavesGiven
    <3>2. QED
      BY <2>1, <3>1, LeavesRead
  <2>3. QED
    BY <1>16, <2>1, <2>2
<1>18. PrintTree(e) = Append(d, c)
  <2>1. d \o <<c>> = Append(d, c)
    BY <1>6, <1>17
  <2>2. QED
    BY <1>8, <1>10, <1>16, <2>1
<1>19. EndsIn(Append(d, c), Read(<<e>>, TRUE, FALSE))
  <2>1. Len(<<e>>) = 1
    OBVIOUS
  <2>2. BuildStep(Read(<<e>>, FALSE, FALSE), c) = Read(<<e>>, TRUE, FALSE)
    BY <1>15, <2>1, StepOf
  <2>3. EndsIn(d, Read(<<e>>, FALSE, FALSE))
    BY <1>17 DEF Reading, eT
  <2>4. EndsIn(Append(d, c), BuildStep(Read(<<e>>, FALSE, FALSE), c))
    BY <1>17, <2>3, ReadOn
  <2>5. QED
    BY <2>2, <2>4
<1>20. Plain(S, Append(d, c))
  <2> SUFFICES ASSUME NEW m, m = Append(d, c)
               PROVE  Plain(S, m)
    OBVIOUS
  <2>1. /\ m \in Seq(S) /\ Len(m) = Len(d) + 1 /\ m[Len(d) + 1] = c
        /\ \A j \in 1 .. Len(d) : m[j] = d[j]
    BY <1>6, <1>17, Appended
  <2>2. 1 \in 1 .. Len(d) /\ Len(d) \in Nat
    BY <1>17
  <2>3. m # <<>> /\ m[1] = o
    BY <1>17, <2>1, <2>2
  <2>4. \A j \in 1 .. Len(m) : j \in 1 .. Len(d) \/ j = Len(d) + 1
    BY <2>1, <2>2
  <2>5. \A j \in 1 .. Len(m) : m[j].kind # "gap"
    BY <1>15, <1>17, <2>1, <2>4
  <2>6. QED
    BY <1>15, <2>1, <2>3, <2>5 DEF Plain
<1>21. QED
  BY <1>18, <1>19, <1>20

-----------------------------------------------------------------------------
(* Whole documents                                                           *)

Leaves(name, n, texts) == [i \in 1 .. n |-> Leaf(name, texts[i])]

(* An element of leaves is read back from all its layouts. *)
LEMMA DocumentOfLeaves ==
  ASSUME NEW name, NEW attrs, NEW leafName, NEW n \in Nat, n >= 1, NEW texts,
         NEW t \in Decorated(PrintTree(Element(name, attrs, <<>>, Leaves(leafName, n, texts)))),
         NEW d \in Overrun(t)
  PROVE  Document(d) = [failed |-> FALSE,
                        root   |-> Element(name, attrs, <<>>, Leaves(leafName, n, texts))]
<1>0. PICK children : children = Leaves(leafName, n, texts)
  OBVIOUS
<1> SUFFICES ASSUME NEW e, e = Element(name, attrs, <<>>, children),
                    NEW tokens, tokens = PrintTree(e), t \in Decorated(tokens)
             PROVE  Document(d) = [failed |-> FALSE, root |-> e]
  BY <1>0
<1> DEFINE end == Read(<<e>>, TRUE, FALSE)
<1>1. PICK S : Plain(S, tokens) /\ EndsIn(tokens, end)
  BY <1>0, TreeRead DEF Leaves
<1>2. tokens \in Seq(S) /\ tokens # <<>>
  BY <1>1 DEF Plain
<1>3. PICK rest : rest = Token("content", "", NoAttributes, Word("mac"))
  OBVIOUS
<1>4. end.stack = <<e>> /\ end.failed = FALSE /\ BuildStep(end, rest) = end
  BY DEF BuildStep, Read
<1>5. rest.kind = "content"
  BY <1>3 DEF Token
<1> HIDE DEF end
<1>6. CASE d \in LaidOut(tokens)
  BY <1>1, <1>4, <1>6, DocumentOf
<1>7. CASE d \in LaidOut(Append(tokens, rest))
  <2>1. EndsIn(Append(tokens, rest), end)
    <3>1. EndsIn(Append(tokens, rest), BuildStep(end, rest))
      BY <1>1, <1>2, ReadOn
    <3>2. QED
      BY <1>4, <3>1
  <2>2. PICK T : T = S \cup {rest}
    OBVIOUS
  <2>3. tokens \in Seq(T) /\ rest \in T
    BY <1>2, <2>2
  <2>4. PICK m : m = Append(tokens, rest)
    OBVIOUS
  <2>5. /\ m \in Seq(T) /\ Len(m) = Len(tokens) + 1 /\ m[Len(tokens) + 1] = rest
        /\ \A j \in 1 .. Len(tokens) : m[j] = tokens[j]
    BY <2>3, <2>4, Appended
  <2>6. 1 \in 1 .. Len(tokens) /\ Len(tokens) \in Nat
    BY <1>2
  <2>7. m # <<>> /\ m[1] = tokens[1]
    BY <2>5, <2>6
  <2>8. \A j \in 1 .. Len(m) : j \in 1 .. Len(tokens) \/ j = Len(tokens) + 1
    BY <2>5, <2>6
  <2>9. \A j \in 1 .. Len(m) : m[j].kind # "gap"
    BY <1>1, <1>5, <2>5, <2>8 DEF Plain
  <2>10. Plain(T, m)
    BY <1>1, <2>5, <2>7, <2>9 DEF Plain
  <2>11. d \in LaidOut(m) /\ EndsIn(m, end)
    BY <1>7, <2>1, <2>4
  <2>12. QED
    BY <1>4, <2>10, <2>11, DocumentOf
<1>8. QED
  BY <1>2, <1>3, <1>6, <1>7, OverrunLaidOut

(* So is an element without any, up to a content that follows it. *)
LEMMA DocumentOfNone ==
  ASSUME NEW name, NEW attrs,
         NEW t \in Decorated(PrintTree(Element(name, attrs, <<>>, <<>>))), NEW d \in Overrun(t)
  PROVE  \E content : Document(d) = [failed |-> FALSE, root |-> Element(name, attrs, content, <<>>)]
<1> SUFFICES ASSUME NEW e, e = Element(name, attrs, <<>>, <<>>),
                    NEW tokens, tokens = PrintTree(e), t \in Decorated(tokens)
             PROVE  \E content :
                      Document(d) = [failed |-> FALSE, root |-> Element(name, attrs, content, <<>>)]
  OBVIOUS
<1>1. PICK rest : rest = Token("content", "", NoAttributes, Word("mac"))
  OBVIOUS
<1>2. PICK full : full = Element(name, attrs, <<Word("mac")>>, <<>>)
  OBVIOUS
<1>3. /\ \E S : Plain(S, tokens) /\ Plain(S, Append(tokens, rest))
      /\ EndsIn(tokens, Read(<<e>>, FALSE, FALSE))
      /\ EndsIn(Append(tokens, rest), Read(<<full>>, FALSE, FALSE))
  BY <1>1, <1>2, EmptyRead
<1>4. PICK S : Plain(S, tokens) /\ Plain(S, Append(tokens, rest))
  BY <1>3
<1>5. ASSUME NEW x
      PROVE  Read(<<x>>, FALSE, FALSE).stack = <<x>> /\ Read(<<x>>, FALSE, FALSE).failed = FALSE
  BY DEF Read
<1>6. CASE d \in LaidOut(tokens)
  <2>1. PICK end : end = Read(<<e>>, FALSE, FALSE)
    OBVIOUS
  <2>2. end.stack = <<e>> /\ end.failed = FALSE /\ EndsIn(tokens, end)
    BY <1>3, <1>5, <2>1
  <2>3. Document(d) = [failed |-> FALSE, root |-> e]
    BY <1>4, <1>6, <2>2, DocumentOf
  <2>4. QED
    BY <2>3
<1>7. CASE d \in LaidOut(Append(tokens, rest))
  <2>1. PICK m : m = Append(tokens, rest)
    OBVIOUS
  <2>2. PICK end : end = Read(<<full>>, FALSE, FALSE)
    OBVIOUS
  <2>3. end.stack = <<full>> /\ end.failed = FALSE
    BY <1>5, <2>2
  <2>4. d \in LaidOut(m) /\ Plain(S, m) /\ EndsIn(m, end)
    BY <1>3, <1>4, <1>7, <2>1, <2>2
  <2>5. Document(d) = [failed |-> FALSE, root |-> full]
    BY <2>3, <2>4, DocumentOf
  <2>6. QED
    BY <1>2, <2>5
<1>8. tokens \in Seq(S)
  BY <1>4 DEF Plain
<1>9. QED
  BY <1>1, <1>6, <1>7, <1>8, OverrunLaidOut

-----------------------------------------------------------------------------
(* The messages                                                              *)

(* What a parser reads of a cast *)
CastIs(e, optional, type, size, value) ==
  /\ CastReadable(e, optional) /\ e.attrs["type"].word = type
  /\ CastSize(e) = size /\ Optional(e, optional) = value

(* Attributes of a cast are read back. *)
LEMMA CastRead ==
  ASSUME NEW cast, cast.type \in CastType, NEW optional, optional # "type", optional # "size",
         NEW value, NEW e, e.attrs = Attributes(cast, optional, value)
  PROVE  CastIs(e, optional, cast.type, Len(cast.values), value)
<1>1. DOMAIN e.attrs = {"type", "size"} \cup (IF value = NoCount THEN {} ELSE {optional})
  BY DEF Attributes
<1>2. "type" \in DOMAIN e.attrs /\ "size" \in DOMAIN e.attrs
  BY <1>1
<1>3. e.attrs["type"] = Word(cast.type)
  BY <1>1 DEF Attributes
<1>4. e.attrs["size"] = Numeral(Len(cast.values))
  BY <1>1 DEF Attributes
<1>5. value # NoCount => optional \in DOMAIN e.attrs /\ e.attrs[optional] = Numeral(value)
  BY <1>1 DEF Attributes
<1>6. value = NoCount => optional \notin DOMAIN e.attrs
  BY <1>1
<1>7. ASSUME NEW x
      PROVE  IsNumber(Numeral(x)) /\ Numeral(x).number = x /\ Word(x).word = x
  BY DEF IsNumber, Numeral, Word
<1> HIDE DEF Attributes
<1>8. \A a \in {"size", optional} \cap DOMAIN e.attrs : IsNumber(e.attrs[a])
  BY <1>4, <1>5, <1>6, <1>7
<1>9. CastReadable(e, optional)
  BY <1>2, <1>3, <1>8 DEF CastReadable
<1>10. e.attrs["type"].word = cast.type
  BY <1>3, <1>7
<1>11. CastSize(e) = Len(cast.values)
  BY <1>4, <1>7 DEF CastSize
<1>12. Optional(e, optional) = value
  BY <1>5, <1>6, <1>7 DEF Optional
<1>13. QED
  BY <1>9, <1>10, <1>11, <1>12 DEF CastIs

(* A request is read back. *)
LEMMA RequestRead ==
  ASSUME NEW type \in CastType, NEW size \in Nat, NEW threshold, NEW m,
         m = RequestOf(MakeCast(type, size), threshold),
         NEW t \in Decorated(Serialize(m)), NEW d \in Overrun(t)
  PROVE  Deserialize(d) = m
<1>1. m.is = "Request" /\ m.threshold = threshold /\ m.cast = MakeCast(type, size)
  BY DEF RequestOf
<1>2. m.cast.type = type /\ Len(m.cast.values) = size
  BY <1>1 DEF MakeCast
<1>3. PICK attrs : attrs = Attributes(m.cast, "successFrom", m.threshold)
  OBVIOUS
<1>4. Serialize(m) = PrintTree(Element("Request", attrs, <<>>, <<>>))
  BY <1>1, <1>3 DEF Serialize, SerializeRequest
<1>5. PICK content :
        Document(d) = [failed |-> FALSE, root |-> Element("Request", attrs, content, <<>>)]
  BY <1>4, DocumentOfNone
<1>6. PICK e : e = Element("Request", attrs, content, <<>>)
  OBVIOUS
<1>7. e.name = "Request" /\ e.attrs = attrs
  BY <1>6 DEF Element
<1>8. Document(d).failed = FALSE /\ Document(d).root = e
  BY <1>5, <1>6
<1>9. Deserialize(d) = ParseRequest(e)
  BY <1>7, <1>8 DEF Deserialize
<1>10. /\ CastReadable(e, "successFrom") /\ e.attrs["type"].word = type
       /\ CastSize(e) = size /\ Optional(e, "successFrom") = threshold
  <2>1. e.attrs = Attributes(m.cast, "successFrom", threshold)
    BY <1>1, <1>3, <1>7
  <2>2. PICK cast : cast = m.cast
    OBVIOUS
  <2>3. e.attrs = Attributes(cast, "successFrom", threshold) /\ cast.type = type
        /\ Len(cast.values) = size
    BY <1>2, <2>1, <2>2
  <2>4. "successFrom" # "type" /\ "successFrom" # "size"
    OBVIOUS
  <2>5. CastIs(e, "successFrom", cast.type, Len(cast.values), threshold)
    BY <2>3, <2>4, CastRead
  <2>6. QED
    BY <2>3, <2>5 DEF CastIs
<1>11. ParseRequest(e) = RequestOf(MakeCast(type, size), threshold)
  BY <1>10 DEF ParseRequest
<1>12. QED
  BY <1>9, <1>11

(* A response is read back, with the value of every die. *)
LEMMA ResponseRead ==
  ASSUME NEW type \in CastType, NEW size \in Nat, NEW values \in [1 .. size -> Nat],
         NEW count, NEW m, m = ResponseOf([type |-> type, values |-> values], count),
         NEW t \in Decorated(Serialize(m)), NEW d \in Overrun(t)
  PROVE  Deserialize(d) = m
<1>1. m.is = "Response" /\ m.successCount = count /\ m.cast = [type |-> type, values |-> values]
  BY DEF ResponseOf
<1>2. m.cast.type = type /\ m.cast.values = values /\ Len(values) = size /\ DOMAIN values = 1 .. size
  BY <1>1
<1>3. PICK attrs : attrs = Attributes(m.cast, "successCount", m.successCount)
  OBVIOUS
<1>4. PICK texts : texts = [i \in 1 .. size |-> Numeral(values[i])]
  OBVIOUS
<1>5. PICK children : children = Leaves("Val", size, texts)
  OBVIOUS
<1>6. children = [i \in DOMAIN m.cast.values |-> Leaf("Val", Numeral(m.cast.values[i]))]
  <2>1. \A i \in 1 .. size : Leaf("Val", texts[i]) = Leaf("Val", Numeral(m.cast.values[i]))
    BY <1>2, <1>4
  <2>2. DOMAIN m.cast.values = 1 .. size
    BY <1>2
  <2>3. QED
    BY <1>5, <2>1, <2>2 DEF Leaves
<1>7. Serialize(m) = PrintTree(Element("Response", attrs, <<>>, children))
  <2>1. SerializeResponse(m) = Element("Response", attrs, <<>>, children)
    BY <1>3, <1>6 DEF SerializeResponse
  <2>2. QED
    BY <1>1, <2>1 DEF Serialize
<1>8. \E content : Document(d) = [failed |-> FALSE,
                                  root |-> Element("Response", attrs, content, children)]
  <2>1. CASE size = 0
    <3>1. children = <<>>
      BY <1>5, <2>1 DEF Leaves
    <3>2. QED
      BY <1>7, <3>1, DocumentOfNone
  <2>2. CASE size # 0
    <3>1. size >= 1
      BY <2>2
    <3>2. t \in Decorated(PrintTree(Element("Response", attrs, <<>>, Leaves("Val", size, texts))))
      BY <1>5, <1>7
    <3>3. Document(d) = [failed |-> FALSE,
                         root   |-> Element("Response", attrs, <<>>, Leaves("Val", size, texts))]
      BY <3>1, <3>2, DocumentOfLeaves
    <3>4. QED
      BY <1>5, <3>3
  <2>3. QED
    BY <2>1, <2>2
<1>9. PICK content : Document(d) = [failed |-> FALSE,
                                    root |-> Element("Response", attrs, content, children)]
  BY <1>8
<1>10. PICK e : e = Element("Response", attrs, content, children)
  OBVIOUS
<1>11. e.name = "Response" /\ e.attrs = attrs /\ e.children = children
  BY <1>10 DEF Element
<1>12. Document(d).failed = FALSE /\ Document(d).root = e
  BY <1>9, <1>10
<1>13. Deserialize(d) = ParseResponse(e)
  BY <1>11, <1>12 DEF Deserialize
<1>14. /\ CastReadable(e, "successCount") /\ e.attrs["type"].word = type
       /\ CastSize(e) = size /\ Optional(e, "successCount") = count
  <2>1. e.attrs = Attributes(m.cast, "successCount", count)
    BY <1>1, <1>3, <1>11
  <2>2. PICK cast : cast = m.cast
    OBVIOUS
  <2>3. e.attrs = Attributes(cast, "successCount", count) /\ cast.type = type
        /\ Len(cast.values) = size
    BY <1>2, <2>1, <2>2
  <2>4. "successCount" # "type" /\ "successCount" # "size" /\ cast.type \in CastType
    BY <2>3
  <2>5. CastIs(e, "successCount", cast.type, Len(cast.values), count)
    BY <2>3, <2>4, CastRead
  <2>6. QED
    BY <2>3, <2>5 DEF CastIs
<1>15. ASSUME NEW i \in 1 .. size
       PROVE  /\ Len(e.children[i].content) = 1 /\ IsNumber(e.children[i].content[1])
              /\ e.children[i].content[1].number = values[i]
  <2>1. e.children[i] = Leaf("Val", Numeral(values[i]))
    BY <1>4, <1>5, <1>11 DEF Leaves
  <2>2. e.children[i].content = <<Numeral(values[i])>>
    BY <2>1 DEF Leaf, Element
  <2>3. PICK text : text = Numeral(values[i])
    OBVIOUS
  <2>4. IsNumber(text) /\ text.number = values[i]
    BY <2>3 DEF IsNumber, Numeral
  <2>5. Len(<<text>>) = 1 /\ <<text>>[1] = text
    OBVIOUS
  <2>6. QED
    BY <2>2, <2>3, <2>4, <2>5
<1>16. Len(e.children) = size
  BY <1>5, <1>11 DEF Leaves
<1>17. [i \in 1 .. size |-> e.children[i].content[1].number] = values
  <2>1. values = [i \in 1 .. size |-> values[i]]
    OBVIOUS
  <2>2. QED
    BY <1>15, <2>1
<1>18. ParseResponse(e) = ResponseOf([type |-> type, values |-> values], count)
  <2>1. ~(\/ ~CastReadable(e, "successCount") \/ Len(e.children) < CastSize(e)
          \/ \E i \in 1 .. CastSize(e) :
               ~(Len(e.children[i].content) = 1 /\ IsNumber(e.children[i].content[1])))
    BY <1>14, <1>15, <1>16
  <2>2. [i \in 1 .. CastSize(e) |-> e.children[i].content[1].number] = values
    BY <1>14, <1>17
  <2>3. ParseResponse(e)
          = ResponseOf([type   |-> e.attrs["type"].word,
                        values |-> [i \in 1 .. CastSize(e) |-> e.children[i].content[1].number]],
                       Optional(e, "successCount"))
    BY <2>1 DEF ParseResponse
  <2>4. QED
    BY <1>14, <2>2, <2>3
<1>19. QED
  BY <1>13, <1>18

(* The document of a hello or of an offer *)
HasMac(doc, name, attrs, mac) ==
  /\ doc.failed = FALSE /\ doc.root.name = name /\ doc.root.attrs = attrs
  /\ Named(doc.root, "Mac") # {} /\ MacOf(doc.root) = mac

(* It is an element with one child Mac. *)
LEMMA MacRead ==
  ASSUME NEW name, NEW attrs, NEW mac,
         NEW t \in Decorated(PrintTree(Element(name, attrs, <<>>, <<Leaf("Mac", Word(mac))>>))),
         NEW d \in Overrun(t)
  PROVE  HasMac(Document(d), name, attrs, mac)
<1>1. PICK leaf : leaf = Leaf("Mac", Word(mac))
  OBVIOUS
<1>2. PICK texts : texts = [i \in 1 .. 1 |-> Word(mac)]
  OBVIOUS
<1>3. <<leaf>> = Leaves("Mac", 1, texts)
  <2>1. \A i \in 1 .. 1 : Leaf("Mac", texts[i]) = leaf
    BY <1>1, <1>2
  <2>2. <<leaf>> = [i \in 1 .. 1 |-> leaf]
    OBVIOUS
  <2>3. QED
    BY <2>1, <2>2 DEF Leaves
<1>4. Document(d) = [failed |-> FALSE, root |-> Element(name, attrs, <<>>, <<leaf>>)]
  <2>1. t \in Decorated(PrintTree(Element(name, attrs, <<>>, Leaves("Mac", 1, texts))))
    BY <1>1, <1>3
  <2>2. Document(d) = [failed |-> FALSE,
                       root   |-> Element(name, attrs, <<>>, Leaves("Mac", 1, texts))]
    BY <2>1, DocumentOfLeaves
  <2>3. QED
    BY <1>3, <2>2
<1>5. PICK e : e = Element(name, attrs, <<>>, <<leaf>>)
  OBVIOUS
<1>6. e.name = name /\ e.attrs = attrs /\ e.children = <<leaf>>
  BY <1>1, <1>5 DEF Element
<1>7. leaf.name = "Mac" /\ leaf.content = <<Word(mac)>>
  BY <1>1 DEF Leaf, Element
<1>8. Named(e, "Mac") = {1}
  <2>1. DOMAIN e.children = 1 .. 1 /\ e.children[1] = leaf
    BY <1>6
  <2>2. \A i \in 1 .. 1 : i = 1
    OBVIOUS
  <2>3. QED
    BY <1>7, <2>1, <2>2 DEF Named
<1>9. Min(Named(e, "Mac")) = 1
  BY <1>8 DEF Min
<1>10. GetChild(e, "Mac") = leaf
  BY <1>6, <1>9 DEF GetChild
<1>11. MacOf(e) = mac
  <2>1. PICK text : text = Word(mac)
    OBVIOUS
  <2>2. <<text>> # <<>> /\ <<text>>[1] = text /\ text.word = mac
    BY <2>1 DEF Word
  <2>3. QED
    BY <1>7, <1>10, <2>1, <2>2 DEF MacOf
<1>12. Document(d).failed = FALSE /\ Document(d).root = e
  BY <1>4, <1>5
<1>13. QED
  BY <1>6, <1>8, <1>11, <1>12 DEF HasMac

(* A hello is read back. *)
LEMMA HelloRead ==
  ASSUME NEW mac, NEW m, m = HelloOf(mac), NEW t \in Decorated(Serialize(m)), NEW d \in Overrun(t)
  PROVE  Deserialize(d) = m
<1>1. m.is = "Hello" /\ m.mac = mac
  BY DEF HelloOf
<1>2. PICK name, attrs : name = "Hello" /\ attrs = NoAttributes
  OBVIOUS
<1>3. Serialize(m) = PrintTree(Element(name, attrs, <<>>, <<Leaf("Mac", Word(mac))>>))
  BY <1>1, <1>2 DEF Serialize, SerializeHello
<1>4. PICK e : e = Document(d).root
  OBVIOUS
<1>5. /\ Document(d).failed = FALSE /\ e.name = "Hello"
      /\ Named(e, "Mac") # {} /\ MacOf(e) = mac
  <2>1. t \in Decorated(PrintTree(Element(name, attrs, <<>>, <<Leaf("Mac", Word(mac))>>)))
    BY <1>3
  <2>2. HasMac(Document(d), name, attrs, mac)
    BY <2>1, MacRead
  <2>3. QED
    BY <1>2, <1>4, <2>2 DEF HasMac
<1>6. Deserialize(d) = ParseHello(e)
  BY <1>4, <1>5 DEF Deserialize
<1>7. ParseHello(e) = HelloOf(mac)
  BY <1>5 DEF ParseHello
<1>8. QED
  BY <1>6, <1>7

(* An offer is read back, or refused when its round is no int. *)
LEMMA OfferRead ==
  ASSUME NEW mac, NEW round, NEW m, m = OfferOf(mac, round),
         NEW t \in Decorated(Serialize(m)), NEW d \in Overrun(t)
  PROVE  Deserialize(d) = IF round > INT_MAX THEN Thrown ELSE m
<1>1. m.is = "Offer" /\ m.mac = mac /\ m.round = round
  BY DEF OfferOf
<1>2. PICK name : name = "Offer"
  OBVIOUS
<1>3. PICK attrs : attrs = [round |-> Numeral(round)]
  OBVIOUS
<1>4. Serialize(m) = PrintTree(Element(name, attrs, <<>>, <<Leaf("Mac", Word(mac))>>))
  BY <1>1, <1>2, <1>3 DEF Serialize, SerializeOffer
<1>5. PICK e : e = Document(d).root
  OBVIOUS
<1>6. /\ Document(d).failed = FALSE /\ e.name = "Offer" /\ e.attrs = attrs
      /\ Named(e, "Mac") # {} /\ MacOf(e) = mac
  <2>1. t \in Decorated(PrintTree(Element(name, attrs, <<>>, <<Leaf("Mac", Word(mac))>>)))
    BY <1>4
  <2>2. HasMac(Document(d), name, attrs, mac)
    BY <2>1, MacRead
  <2>3. QED
    BY <1>2, <1>5, <2>2 DEF HasMac
<1>7. Deserialize(d) = ParseOffer(e)
  BY <1>5, <1>6 DEF Deserialize
<1>8. "round" \in DOMAIN attrs /\ attrs["round"] = Numeral(round)
  BY <1>3
<1>9. IsNumber(Numeral(round)) /\ Numeral(round).number = round
  BY DEF IsNumber, Numeral
<1>10. ParseOffer(e) = IF round > INT_MAX THEN Thrown ELSE OfferOf(mac, round)
  <2> HIDE DEF INT_MAX
  <2>1. QED
    BY <1>6, <1>8, <1>9 DEF ParseOffer
<1>11. QED
  BY <1>7, <1>10

-----------------------------------------------------------------------------
(* The messages of phones                                                    *)

(* What the dice engine makes of a request *)
LEMMA ResultIs ==
  ASSUME NEW type \in CastType, NEW size \in Nat, NEW result \in GenerateResult(MakeCast(type, size))
  PROVE  \E values \in [1 .. size -> Nat] : result = [type |-> type, values |-> values]
<1>1. PICK cast : cast = MakeCast(type, size)
  OBVIOUS
<1>2. PICK zeros : zeros = [i \in 1 .. size |-> 0]
  OBVIOUS
<1>3. cast = [type |-> type, values |-> zeros] /\ DOMAIN zeros = 1 .. size
  BY <1>1, <1>2 DEF MakeCast
<1>4. cast.type = type /\ DOMAIN cast.values = 1 .. size
  BY <1>3
<1>5. LargestValue[type] \in Nat
  BY MessagesAssumption DEF LargestValue
<1>6. PICK v \in [1 .. size -> 1 .. LargestValue[type]] : result = [cast EXCEPT !.values = v]
  BY <1>1, <1>4 DEF GenerateResult
<1>7. [cast EXCEPT !.values = v] = [type |-> type, values |-> v]
  BY <1>3
<1>8. v \in [1 .. size -> Nat]
  BY <1>5, <1>6
<1>9. QED
  BY <1>6, <1>7, <1>8

(* A request of a phone *)
LEMMA RequestIs ==
  ASSUME NEW r \in AllRequests
  PROVE  \E type \in CastType, size \in Nat, threshold \in Nat \cup {NoCount} :
           r = RequestOf(MakeCast(type, size), threshold)
BY MessagesAssumption DEF AllRequests

(* A response to a request is read back, in all its layouts. *)
LEMMA GeneratedRead ==
  ASSUME NEW type \in CastType, NEW size \in Nat, NEW threshold,
         NEW result \in GenerateResult(MakeCast(type, size)), NEW m,
         m = GenerateResponse(RequestOf(MakeCast(type, size), threshold), result),
         NEW t \in Decorated(Serialize(m)), NEW d \in Overrun(t)
  PROVE  Deserialize(d) = m
<1>1. PICK values \in [1 .. size -> Nat] : result = [type |-> type, values |-> values]
  BY ResultIs
<1>2. \E count : m = ResponseOf(result, count)
  BY DEF GenerateResponse
<1>3. PICK count : m = ResponseOf([type |-> type, values |-> values], count)
  BY <1>1, <1>2
<1>4. QED
  BY <1>3, ResponseRead

(***************************************************************************)
(* What a phone writes every phone reads as the same message, whatever the  *)
(* layout of the document and whatever follows it; an offer of a round that  *)
(* is no int is refused.                                                    *)
(***************************************************************************)
THEOREM MessagesAreReadBack ==
  Spec => []MessagesReadBack
<1>1. ASSUME NEW m \in AllMessages, NEW t \in Decorated(Serialize(m)), NEW d \in Overrun(t)
      PROVE  Deserialize(d) = IF m.is = "Offer" /\ m.round > INT_MAX THEN Thrown ELSE m
  <2>1. CASE m = HelloOf("mac")
    <3>1. Deserialize(d) = m
      BY <2>1, HelloRead
    <3>2. m.is = "Hello"
      BY <2>1 DEF HelloOf
    <3>3. QED
      BY <3>1, <3>2
  <2>2. ASSUME NEW round \in 0 .. UINT_MAX, m = OfferOf("mac", round)
        PROVE  Deserialize(d) = IF m.is = "Offer" /\ m.round > INT_MAX THEN Thrown ELSE m
    <3> HIDE DEF INT_MAX
    <3>1. Deserialize(d) = IF round > INT_MAX THEN Thrown ELSE m
      BY <2>2, OfferRead
    <3>2. m.is = "Offer" /\ m.round = round
      BY <2>2 DEF OfferOf
    <3>3. QED
      BY <3>1, <3>2
  <2>3. CASE m \in AllRequests
    <3>1. PICK type \in CastType, size \in Nat, threshold \in Nat \cup {NoCount} :
            m = RequestOf(MakeCast(type, size), threshold)
      BY <2>3, RequestIs
    <3>2. Deserialize(d) = m
      BY <3>1, RequestRead
    <3>3. m.is = "Request"
      BY <3>1 DEF RequestOf
    <3>4. QED
      BY <3>2, <3>3
  <2>4. CASE m \in AllResponses
    <3>1. PICK r \in AllRequests : \E result \in GenerateResult(r.cast) : m = GenerateResponse(r, result)
      BY <2>4 DEF AllResponses
    <3>2. PICK type \in CastType, size \in Nat, threshold \in Nat \cup {NoCount} :
            r = RequestOf(MakeCast(type, size), threshold)
      BY RequestIs
    <3>3. r.cast = MakeCast(type, size)
      BY <3>2 DEF RequestOf
    <3>4. PICK result \in GenerateResult(MakeCast(type, size)) :
            m = GenerateResponse(RequestOf(MakeCast(type, size), threshold), result)
      BY <3>1, <3>2, <3>3
    <3>5. Deserialize(d) = m
      BY <3>4, GeneratedRead
    <3>6. m.is = "Response"
      BY <3>4 DEF GenerateResponse, ResponseOf
    <3>7. QED
      BY <3>5, <3>6
  <2>5. QED
    BY <2>1, <2>2, <2>3, <2>4 DEF AllMessages
<1>2. MessagesReadBack
  BY <1>1 DEF MessagesReadBack
<1>3. QED
  BY <1>2, PTL

(* A document as it is printed is one of its layouts. *)
LEMMA AsPrinted ==
  ASSUME NEW tokens
  PROVE  tokens \in Decorated(tokens) /\ tokens \in Overrun(tokens)
BY DEF Decorated, Overrun

(* A count is a number. *)
LEMMA CountIsNumber ==
  ASSUME NEW size \in Nat, NEW cast, DOMAIN cast.values = 1 .. size, NEW threshold
  PROVE  GetSuccessCount(cast, threshold) \in Nat
<1> DEFINE hits == {i \in DOMAIN cast.values : cast.values[i] >= threshold}
<1>1. hits \in SUBSET (1 .. size) /\ IsFiniteSet(1 .. size)
  BY FS_Interval
<1>2. IsFiniteSet(hits)
  BY <1>1, FS_Subset
<1> HIDE DEF hits
<1>3. Cardinality(hits) \in Nat
  BY <1>2, FS_CardinalityType
<1>4. QED
  BY <1>3 DEF GetSuccessCount, hits

(***************************************************************************)
(* Whatever the dice show, the response to a request answers the request,    *)
(* and no request for other dice, or that differs in having a threshold.    *)
(***************************************************************************)
THEOREM AnswersAreMatched ==
  Spec => []AnswersMatch
<1>1. ASSUME NEW request \in AllRequests
      PROVE  LET asked == Deserialize(Serialize(request))
             IN \A result \in GenerateResult(asked.cast) :
                  LET answer == Deserialize(Serialize(GenerateResponse(asked, result)))
                  IN /\ answer.is = "Response"
                     /\ \A other \in AllRequests :
                          IsAnswer(answer, other) <=>
                            /\ other.cast = request.cast
                            /\ other.threshold = NoCount <=> request.threshold = NoCount
  <2>1. PICK type \in CastType, size \in Nat, threshold \in Nat \cup {NoCount} :
          request = RequestOf(MakeCast(type, size), threshold)
    BY RequestIs
  <2>2. Deserialize(Serialize(request)) = request
    BY <2>1, AsPrinted, RequestRead
  <2>3. request.cast = MakeCast(type, size) /\ request.threshold = threshold
    BY <2>1 DEF RequestOf
  <2>4. ASSUME NEW result \in GenerateResult(request.cast), NEW answer,
               answer = Deserialize(Serialize(GenerateResponse(request, result)))
        PROVE  /\ answer.is = "Response"
               /\ \A other \in AllRequests :
                    IsAnswer(answer, other) <=>
                      /\ other.cast = request.cast
                      /\ other.threshold = NoCount <=> request.threshold = NoCount
    <3>1. PICK m : m = GenerateResponse(request, result)
      OBVIOUS
    <3>2. result \in GenerateResult(MakeCast(type, size))
      BY <2>3, <2>4
    <3>3. Deserialize(Serialize(m)) = m
      BY <2>1, <3>1, <3>2, AsPrinted, GeneratedRead
    <3>4. PICK values \in [1 .. size -> Nat] : result = [type |-> type, values |-> values]
      BY <3>2, ResultIs
    <3>5. result.type = type /\ result.values = values /\ DOMAIN result.values = 1 .. size
          /\ Len(result.values) = size
      BY <3>4
    <3>6. PICK count : count = IF threshold = NoCount THEN NoCount
                               ELSE GetSuccessCount(result, threshold)
      OBVIOUS
    <3>7. m = ResponseOf(result, count)
      BY <2>3, <3>1, <3>6 DEF GenerateResponse
    <3>8. m.is = "Response" /\ m.cast = result /\ m.successCount = count
      BY <3>7 DEF ResponseOf
    <3>9. answer = m
      BY <2>4, <3>1, <3>3
    <3>10. (count = NoCount) <=> (threshold = NoCount)
      BY <3>5, <3>6, CountIsNumber, MessagesAssumption
    <3>11. ASSUME NEW other \in AllRequests
           PROVE  IsAnswer(m, other) <=>
                    /\ other.cast = request.cast
                    /\ other.threshold = NoCount <=> request.threshold = NoCount
      <4>1. PICK type2 \in CastType, size2 \in Nat, threshold2 \in Nat \cup {NoCount} :
              other = RequestOf(MakeCast(type2, size2), threshold2)
        BY RequestIs
      <4>2. other.cast = MakeCast(type2, size2) /\ other.threshold = threshold2
        BY <4>1 DEF RequestOf
      <4>3. ASSUME NEW ty, NEW n \in Nat
            PROVE  MakeCast(ty, n).type = ty /\ Len(MakeCast(ty, n).values) = n
        BY DEF MakeCast
      <4>4. other.cast.type = type2 /\ Len(other.cast.values) = size2
        BY <4>2, <4>3
      <4>5. other.cast = request.cast <=> type2 = type /\ size2 = size
        BY <2>3, <4>2, <4>3
      <4>6. IsAnswer(m, other) <=>
              /\ type = type2 /\ size = size2
              /\ (count = NoCount) = (threshold2 = NoCount)
        BY <3>5, <3>8, <4>2, <4>4 DEF IsAnswer
      <4>7. QED
        BY <2>3, <3>10, <4>2, <4>5, <4>6
    <3>12. QED
      BY <3>8, <3>9, <3>11
  <2>5. QED
    BY <2>2, <2>4
<1>2. AnswersMatch
  BY <1>1 DEF AnswersMatch
<1>3. QED
  BY <1>2, PTL

-----------------------------------------------------------------------------
(* What is shown                                                             *)

(***************************************************************************)
(* Casts whose values have up to two digits are shown whole, and a result    *)
(* that can be sent is shown so that Java reads nothing behind it, unless    *)
(* too many dice show 100.                                                  *)
(***************************************************************************)
THEOREM ResultsAreShownWhole ==
  Spec => []ResultsShownWhole
<1>1. /\ Dictionary.ShowResponse.long = 256 /\ Dictionary.ShowLongResponse.long = 1024
      /\ Dictionary.SendLongMessage.long = 1024
  BY DEF Dictionary, LongTraits, ExtraLongTraits
<1>2. MaxShown = 341 /\ MAX_BUFFER_SIZE(Dictionary.ShowResponse) \div 3 = 85
  BY <1>1 DEF MaxShown, MAX_BUFFER_SIZE
<1>3. ASSUME NEW size \in 0 .. MaxShown + 1, NEW digits \in size .. 3 * size
      PROVE  LET text     == CastLength(size, digits)
                 cmd      == ShowCommand(size)
                 sendable == IsSendable(ResponseLength(size, digits))
             IN /\ sendable => size <= MaxShown
                /\ size <= MaxShown /\ digits <= 2 * size => Kept(cmd, 1, text) = text
                /\ sendable /\ digits <= 2 * size + 38 => text < BufferSize(cmd, 1) - 1
  <2> DEFINE cmd == ShowCommand(size)  length == ResponseLength(size, digits)
  <2>1. size \in Nat /\ digits \in Nat /\ size <= digits /\ digits <= 3 * size /\ size <= 342
    BY <1>2
  <2>2. cmd.long = IF size <= 85 THEN 256 ELSE 1024
    BY <1>1, <1>2 DEF ShowCommand
  <2>3. IsSendable(length) <=> length <= 1023
    BY <1>1 DEF IsSendable, MAX_BUFFER_SIZE
  <2>4. Digits(size) \in {1, 2, 3} /\ (size >= 10 => Digits(size) >= 2)
    BY <2>1 DEF Digits
  <2>5. length = 27 + Digits(size) + (IF size = 0 THEN 3 ELSE 12 + 11 * size + digits)
    BY <2>1, <2>4 DEF ResponseLength, AttributeLength
  <2> HIDE DEF cmd, length
  <2>6. IsSendable(length) => size <= 81
    BY <2>1, <2>3, <2>4, <2>5
  <2>7. CastLength(size, digits) = digits + size
    BY DEF CastLength
  <2>8. BufferSize(cmd, 1) = cmd.long
    BY DEF BufferSize
  <2>9. ASSUME size <= 341, digits <= 2 * size
        PROVE  Kept(cmd, 1, digits + size) = digits + size
    <3>1. digits + size <= cmd.long - 1 /\ cmd.long - 1 \in Nat /\ digits + size \in Nat
      BY <2>1, <2>2, <2>9
    <3>2. \A a, b \in Nat : a <= b => Min({a, b}) = a
      BY DEF Min
    <3>3. QED
      BY <2>8, <3>1, <3>2 DEF Kept
  <2>10. ASSUME IsSendable(length), digits <= 2 * size + 38
         PROVE  digits + size < cmd.long - 1
    BY <2>1, <2>2, <2>3, <2>4, <2>5, <2>6, <2>10
  <2>11. QED
    BY <1>2, <2>6, <2>7, <2>8, <2>9, <2>10 DEF cmd, length
<1>4. ResultsShownWhole
  BY <1>3 DEF ResultsShownWhole
<1>5. QED
  BY <1>4, PTL

=============================================================================
