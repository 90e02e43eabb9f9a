---------------------------- MODULE WorkerProof ----------------------------
(* Proofs about Worker, for any threads, delays and bounds.                  *)
EXTENDS Worker, TLAPS, FiniteSetTheorems, SequenceTheorems

-----------------------------------------------------------------------------
(* Sequences                                                                 *)

(* A set of numbers from 1 on that has no gap. *)
LEMMA Prefix ==
  ASSUME NEW n \in Nat, NEW S \in SUBSET (1 .. n),
         \A x \in S : \A y \in 1 .. x : y \in S
  PROVE  \E c \in 0 .. n : Cardinality(S) = c /\ S = 1 .. c
<1>2. S \subseteq 1 .. n
  OBVIOUS
<1>3. IsFiniteSet(S) /\ Cardinality(S) <= n
  <2> DEFINE T == 1 .. n
  <2>1. IsFiniteSet(T) /\ Cardinality(T) = n
    BY FS_Interval
  <2>2. S \in SUBSET T
    OBVIOUS
  <2> HIDE DEF T
  <2>3. IsFiniteSet(S) /\ Cardinality(S) <= Cardinality(T)
    BY <2>1, <2>2, FS_Subset
  <2>4. QED
    BY <2>1, <2>3
<1>4. PICK c \in Nat : Cardinality(S) = c
  BY <1>3, FS_CardinalityType
<1>5. c \in 0 .. n
  BY <1>3, <1>4
<1>6. ASSUME NEW x \in S
      PROVE  x <= c
  <2>1. 1 .. x \subseteq S /\ x \in Nat
    BY <1>2
  <2>2. Cardinality(1 .. x) = x
    <3>1. Cardinality(1 .. x) = IF 1 > x THEN 0 ELSE x - 1 + 1
      BY <2>1, FS_Interval
    <3>2. QED
      BY <2>1, <3>1
  <2>3. Cardinality(1 .. x) <= Cardinality(S)
    BY <1>3, <2>1, FS_Subset
  <2>4. QED
    BY <1>4, <2>2, <2>3
<1>7. S \subseteq 1 .. c
  BY <1>2, <1>6
<1>8. IsFiniteSet(1 .. c) /\ Cardinality(1 .. c) = c
  <2>1. /\ IsFiniteSet(1 .. c)
        /\ Cardinality(1 .. c) = IF 1 > c THEN 0 ELSE c - 1 + 1
    BY FS_Interval
  <2>2. QED
    BY <2>1
<1>9. S = 1 .. c
  BY <1>4, <1>7, <1>8, FS_Subset
<1>10. QED
  BY <1>4, <1>5, <1>9

(* The elements of a sequence made of two, of a slice, and after an insertion. *)
LEMMA Joined ==
  ASSUME NEW S, NEW a \in Seq(S), NEW b \in Seq(S)
  PROVE  /\ a \o b \in Seq(S)
         /\ Len(a \o b) = Len(a) + Len(b)
         /\ \A i \in 1 .. Len(a) : (a \o b)[i] = a[i]
         /\ \A i \in 1 .. Len(b) : (a \o b)[Len(a) + i] = b[i]
OBVIOUS

LEMMA Slice ==
  ASSUME NEW S, NEW s \in Seq(S),
         NEW m \in Nat \ {0}, NEW n \in 0 .. Len(s), m <= n + 1
  PROVE  /\ SubSeq(s, m, n) \in Seq(S)
         /\ Len(SubSeq(s, m, n)) = n - m + 1
         /\ \A i \in 1 .. n - m + 1 : SubSeq(s, m, n)[i] = s[m + i - 1]
<1>1. Len(s) \in Nat
  OBVIOUS
<1>2. SubSeq(s, m, n) \in Seq(S)
  OBVIOUS
<1>3. Len(SubSeq(s, m, n)) = n - m + 1
  BY <1>1
<1>4. \A i \in 1 .. n - m + 1 : SubSeq(s, m, n)[i] = s[m + i - 1]
  BY <1>1
<1>5. QED
  BY <1>2, <1>3, <1>4

LEMMA Inserted ==
  ASSUME NEW S, NEW s \in Seq(S), NEW k \in 1 .. Len(s) + 1, NEW e \in S
  PROVE  /\ InsertAt(s, k, e) \in Seq(S)
         /\ Len(InsertAt(s, k, e)) = Len(s) + 1
         /\ \A i \in 1 .. k - 1 : InsertAt(s, k, e)[i] = s[i]
         /\ InsertAt(s, k, e)[k] = e
         /\ \A i \in k .. Len(s) : InsertAt(s, k, e)[i + 1] = s[i]
<1>1. PICK n \in Nat : Len(s) = n
  OBVIOUS
<1>2. PICK a \in Seq(S) : /\ a = SubSeq(s, 1, k - 1)
                          /\ Len(a) = k - 1 /\ \A i \in 1 .. k - 1 : a[i] = s[i]
  <2>1. k - 1 \in 0 .. Len(s) /\ 1 <= k - 1 + 1 /\ k - 1 - 1 + 1 = k - 1
    BY <1>1
  <2>2. /\ SubSeq(s, 1, k - 1) \in Seq(S)
        /\ Len(SubSeq(s, 1, k - 1)) = k - 1 - 1 + 1
        /\ \A i \in 1 .. k - 1 - 1 + 1 : SubSeq(s, 1, k - 1)[i] = s[1 + i - 1]
    BY <2>1, Slice
  <2>3. \A i \in 1 .. k - 1 : 1 + i - 1 = i
    BY <1>1
  <2>4. QED
    BY <2>1, <2>2, <2>3
<1>3. PICK b \in Seq(S) : /\ b = SubSeq(s, k, n) /\ Len(b) = n - k + 1
                          /\ \A i \in 1 .. n - k + 1 : b[i] = s[k + i - 1]
  <2>1. k \in Nat \ {0} /\ n \in 0 .. Len(s) /\ k <= n + 1
    BY <1>1
  <2>2. /\ SubSeq(s, k, n) \in Seq(S)
        /\ Len(SubSeq(s, k, n)) = n - k + 1
        /\ \A i \in 1 .. n - k + 1 : SubSeq(s, k, n)[i] = s[k + i - 1]
    BY <2>1, Slice
  <2>3. QED
    BY <2>2
<1>4. PICK c \in Seq(S) : c = <<e>> /\ Len(c) = 1 /\ c[1] = e
  <2>1. <<e>> \in Seq(S) /\ Len(<<e>>) = 1 /\ <<e>>[1] = e
    OBVIOUS
  <2>2. QED
    BY <2>1
<1>5. PICK d \in Seq(S) : /\ d = a \o c /\ Len(d) = k
                          /\ \A i \in 1 .. k - 1 : d[i] = s[i]
                          /\ d[k] = e
  <2>1. /\ a \o c \in Seq(S) /\ Len(a \o c) = Len(a) + Len(c)
        /\ \A i \in 1 .. Len(a) : (a \o c)[i] = a[i]
        /\ \A i \in 1 .. Len(c) : (a \o c)[Len(a) + i] = c[i]
    BY Joined
  <2>2. Len(a \o c) = k /\ (a \o c)[k] = e
    BY <1>2, <1>4, <2>1
  <2>3. \A i \in 1 .. k - 1 : (a \o c)[i] = s[i]
    BY <1>2, <2>1
  <2>4. QED
    BY <2>1, <2>2, <2>3
<1>6. PICK r \in Seq(S) : /\ r = d \o b /\ Len(r) = k + (n - k + 1)
                          /\ \A i \in 1 .. k : r[i] = d[i]
                          /\ \A i \in 1 .. n - k + 1 : r[k + i] = b[i]
  <2>1. /\ d \o b \in Seq(S) /\ Len(d \o b) = Len(d) + Len(b)
        /\ \A i \in 1 .. Len(d) : (d \o b)[i] = d[i]
        /\ \A i \in 1 .. Len(b) : (d \o b)[Len(d) + i] = b[i]
    BY Joined
  <2>2. Len(d \o b) = k + (n - k + 1) /\ \A i \in 1 .. k : (d \o b)[i] = d[i]
    BY <1>3, <1>5, <2>1
  <2>3. \A i \in 1 .. n - k + 1 : (d \o b)[k + i] = b[i]
    BY <1>3, <1>5, <2>1
  <2>4. QED
    BY <2>1, <2>2, <2>3
<1>7. r = InsertAt(s, k, e)
  BY <1>1, <1>2, <1>3, <1>4, <1>5, <1>6 DEF InsertAt
<1>8. Len(r) = n + 1 /\ r[k] = e
  BY <1>1, <1>5, <1>6
<1>9. \A i \in 1 .. k - 1 : r[i] = s[i]
  BY <1>1, <1>5, <1>6
<1>10. ASSUME NEW i \in k .. n
       PROVE  r[i + 1] = s[i]
  <2>1. i - k + 1 \in 1 .. n - k + 1 /\ k + (i - k + 1) = i + 1 /\ k + (i - k + 1) - 1 = i
    BY <1>1
  <2>2. r[i + 1] = b[i - k + 1]
    BY <1>6, <2>1
  <2>3. QED
    BY <1>3, <2>1, <2>2
<1>11. QED
  BY <1>1, <1>6, <1>7, <1>8, <1>9, <1>10

(* An insertion behind a prefix is one into the whole sequence. *)
LEMMA InsertedBehind ==
  ASSUME NEW S, NEW a \in Seq(S), NEW s \in Seq(S), NEW k \in 1 .. Len(s) + 1, NEW e \in S
  PROVE  a \o InsertAt(s, k, e) = InsertAt(a \o s, Len(a) + k, e)
<1>1. PICK n \in Nat, l \in Nat : Len(s) = n /\ Len(a) = l
  OBVIOUS
<1>2. PICK t \in Seq(S) : /\ t = InsertAt(s, k, e)
                          /\ Len(t) = n + 1
                          /\ \A i \in 1 .. k - 1 : t[i] = s[i]
                          /\ t[k] = e
                          /\ \A i \in k .. n : t[i + 1] = s[i]
  <2>1. InsertAt(s, k, e) \in Seq(S)
    BY Inserted
  <2>2. /\ Len(InsertAt(s, k, e)) = Len(s) + 1
        /\ \A i \in 1 .. k - 1 : InsertAt(s, k, e)[i] = s[i]
        /\ InsertAt(s, k, e)[k] = e
        /\ \A i \in k .. Len(s) : InsertAt(s, k, e)[i + 1] = s[i]
    BY Inserted
  <2>3. QED
    BY <1>1, <2>1, <2>2
<1>3. PICK w \in Seq(S) : /\ w = a \o s
                          /\ Len(w) = l + n
                          /\ \A i \in 1 .. l : w[i] = a[i]
                          /\ \A i \in 1 .. n : w[l + i] = s[i]
  <2>1. a \o s \in Seq(S)
    BY Joined
  <2>2. /\ Len(a \o s) = Len(a) + Len(s)
        /\ \A i \in 1 .. Len(a) : (a \o s)[i] = a[i]
        /\ \A i \in 1 .. Len(s) : (a \o s)[Len(a) + i] = s[i]
    BY Joined
  <2>3. QED
    BY <1>1, <2>1, <2>2
<1>4. PICK x \in Seq(S) : /\ x = a \o t
                          /\ Len(x) = l + (n + 1)
                          /\ \A i \in 1 .. l : x[i] = a[i]
                          /\ \A i \in 1 .. n + 1 : x[l + i] = t[i]
  <2>1. a \o t \in Seq(S)
    BY Joined
  <2>2. /\ Len(a \o t) = Len(a) + Len(t)
        /\ \A i \in 1 .. Len(a) : (a \o t)[i] = a[i]
        /\ \A i \in 1 .. Len(t) : (a \o t)[Len(a) + i] = t[i]
    BY Joined
  <2>3. QED
    BY <1>1, <1>2, <2>1, <2>2
<1>5. l + k \in 1 .. Len(w) + 1
  BY <1>1, <1>3
<1>6. PICK y \in Seq(S) : /\ y = InsertAt(w, l + k, e)
                          /\ Len(y) = l + n + 1
                          /\ \A i \in 1 .. l + k - 1 : y[i] = w[i]
                          /\ y[l + k] = e
                          /\ \A i \in l + k .. l + n : y[i + 1] = w[i]
  <2>1. InsertAt(w, l + k, e) \in Seq(S)
    BY <1>5, Inserted
  <2>2. /\ Len(InsertAt(w, l + k, e)) = Len(w) + 1
        /\ \A i \in 1 .. l + k - 1 : InsertAt(w, l + k, e)[i] = w[i]
        /\ InsertAt(w, l + k, e)[l + k] = e
        /\ \A i \in l + k .. Len(w) : InsertAt(w, l + k, e)[i + 1] = w[i]
    BY <1>5, Inserted
  <2>3. QED
    BY <1>3, <2>1, <2>2
<1>7. ASSUME NEW i \in 1 .. l
      PROVE  x[i] = y[i]
  <2>1. i \in 1 .. l + k - 1
    BY <1>1
  <2>2. y[i] = w[i]
    BY <1>6, <2>1
  <2>3. QED
    BY <1>3, <1>4, <2>2
<1>8. ASSUME NEW i \in 1 .. n + 1
      PROVE  x[l + i] = y[l + i]
  <2>1. x[l + i] = t[i]
    BY <1>4
  <2>2. CASE i < k
    <3>1. i \in 1 .. k - 1 /\ i \in 1 .. n /\ l + i \in 1 .. l + k - 1
      BY <1>1, <2>2
    <3>2. t[i] = s[i] /\ y[l + i] = w[l + i]
      BY <1>2, <1>6, <3>1
    <3>3. QED
      BY <1>3, <2>1, <3>1, <3>2
  <2>3. CASE i = k
    BY <1>2, <1>6, <2>1, <2>3
  <2>4. CASE i > k
    <3>1. i - 1 \in k .. n /\ i - 1 + 1 = i /\ i - 1 \in 1 .. n
      BY <1>1, <2>4
    <3>2. t[i] = s[i - 1]
      BY <1>2, <3>1
    <3>3. l + (i - 1) \in l + k .. l + n /\ l + (i - 1) + 1 = l + i
      BY <1>1, <3>1
    <3>4. y[l + i] = w[l + (i - 1)]
      BY <1>6, <3>3
    <3>5. QED
      BY <1>3, <2>1, <3>1, <3>2, <3>4
  <2>5. QED
    BY <1>1, <2>2, <2>3, <2>4
<1>9. ASSUME NEW i \in 1 .. l + n + 1
      PROVE  x[i] = y[i]
  <2>1. CASE i <= l
    BY <1>1, <1>7, <2>1
  <2>2. CASE i > l
    <3>1. i - l \in 1 .. n + 1 /\ l + (i - l) = i
      BY <1>1, <2>2
    <3>2. QED
      BY <1>8, <3>1
  <2>3. QED
    BY <1>1, <2>1, <2>2
<1>10. x = y
  <2>1. Len(x) = Len(y) /\ Len(x) = l + n + 1
    BY <1>1, <1>4, <1>6
  <2>2. QED
    BY <1>9, <2>1, SeqEqual
<1>11. QED
  BY <1>1, <1>2, <1>3, <1>4, <1>6, <1>10

-----------------------------------------------------------------------------
(* Inductive invariant                                                       *)

(* The tasks run so far, the one about to run and those in the queue. *)
Doing == IF worker \in {"notifying", "running"} THEN <<work>> ELSE <<>>
Line  == order \o Doing \o tasks

Sorted(queue) ==
  \A i, j \in DOMAIN queue : i < j => queue[i].at <= queue[j].at

Fifo(line) ==
  \A i, j \in DOMAIN line :
     i < j /\ line[i].by = line[j].by /\ line[j].id < line[i].id =>
       line[j].at > line[i].at

(* The owner's only task is the last; any other has the number of its call.  *)
Numbered(t) == IF t.by = Owner THEN t.id = MaxTasks + 1 ELSE t.id <= calls

(* A task about to enter the queue is the last its thread has asked for. *)
Pending(p) == thread[p].at \in {"locking", "waiting"}

Latest(p) ==
  /\ thread[p].task.by = p /\ Numbered(thread[p].task)
  /\ p # Owner =>
       \A i \in DOMAIN Line : Line[i].by = p => Line[i].id < thread[p].task.id

LineInv ==
  /\ Sorted(tasks)
  /\ Fifo(Line)
  /\ \A i \in DOMAIN Line : Numbered(Line[i])
  /\ \A p \in Caller : Pending(p) => Latest(p)

(***************************************************************************)
(* While a caller waits for room, each place the queue has is taken, about  *)
(* to be taken by a caller that is not asleep, or about to be announced.    *)
(***************************************************************************)
Locking == {p \in Caller : thread[p].at = "locking"}
Announced == IF worker = "notifying" THEN 1 ELSE 0

RoomInv ==
  (\E p \in Caller : thread[p].at = "waiting") =>
    Len(tasks) + Cardinality(Locking) + Announced >= Capacity

WakeInv ==
  /\ worker = "sleeping" => tasks # <<>>
  /\ worker = "idle" => tasks = <<>> \/ \E p \in Caller : thread[p].at = "notifying"
  /\ worker = "sleeping" =>
       Head(tasks).at >= until \/ \E p \in Caller : thread[p].at = "notifying"

IInv == TypeOK /\ NotEarly /\ LineInv /\ RoomInv /\ WakeInv
LEMMA InsertedBetween ==
  ASSUME NEW S, NEW a \in Seq(S), NEW b \in Seq(S), NEW e \in S,
         NEW one \in Seq(S), one = <<e>>
  PROVE  (a \o one) \o b = InsertAt(a \o b, Len(a) + 1, e)
<1>2. InsertAt(b, 1, e) = one \o b
  <2>1. SubSeq(b, 1, 0) = <<>> /\ SubSeq(b, 1, Len(b)) = b
    BY SubSeqFull, SubSeqEmpty
  <2>2. <<>> \o one = one
    BY ConcatEmptySeq
  <2>3. QED
    BY <2>1, <2>2 DEF InsertAt
<1>3. (a \o one) \o b = a \o (one \o b)
  BY ConcatAssociative
<1>4. PICK k \in 1 .. Len(b) + 1 : k = 1
  OBVIOUS
<1>5. a \o InsertAt(b, k, e) = InsertAt(a \o b, Len(a) + k, e)
  BY InsertedBehind
<1>6. QED
  BY <1>2, <1>3, <1>4, <1>5

-----------------------------------------------------------------------------
(* The queue                                                                 *)

LEMMA TaskFields ==
  ASSUME NEW t \in Task
  PROVE  t.at \in Nat /\ t.id \in Nat /\ t.at <= MaxTime /\ t.by \in Caller \cup {Self}
BY WorkerAssumption DEF Task

(* Emplaced finds its place: nothing before it is later, all behind it is. *)
LEMMA EmplacedAt ==
  ASSUME NEW queue \in Seq(Task), Sorted(queue), NEW t \in Task
  PROVE  \E k \in 1 .. Len(queue) + 1 :
            /\ Emplaced(queue, t) = InsertAt(queue, k, t)
            /\ \A i \in 1 .. k - 1 : queue[i].at <= t.at
            /\ \A i \in k .. Len(queue) : t.at < queue[i].at
<1>1. PICK n \in Nat : Len(queue) = n /\ DOMAIN queue = 1 .. n
  OBVIOUS
<1>2. t.at \in Nat /\ \A i \in 1 .. n : queue[i] \in Task /\ queue[i].at \in Nat
  BY <1>1, TaskFields
<1>3. PICK S \in SUBSET (1 .. n) : S = {j \in DOMAIN queue : queue[j].at <= t.at}
  BY <1>1
<1>4. ASSUME NEW x \in S, NEW y \in 1 .. x
      PROVE  y \in S
  <2>1. x \in 1 .. n /\ y \in 1 .. n /\ queue[x].at <= t.at
    BY <1>1, <1>3
  <2>2. queue[y].at <= queue[x].at
    BY <1>1, <1>2, <2>1 DEF Sorted
  <2>3. QED
    BY <1>1, <1>2, <1>3, <2>1, <2>2
<1>5. PICK c \in 0 .. n : Cardinality(S) = c /\ S = 1 .. c
  BY <1>4, Prefix
<1>6. Emplaced(queue, t) = InsertAt(queue, c + 1, t)
  BY <1>3, <1>5 DEF Emplaced
<1>7. \A i \in 1 .. c : queue[i].at <= t.at
  BY <1>3, <1>5
<1>8. ASSUME NEW i \in c + 1 .. n
      PROVE  t.at < queue[i].at
  <2>1. i \in 1 .. n /\ i \notin S
    BY <1>5
  <2>2. ~ (queue[i].at <= t.at)
    BY <1>1, <1>3, <2>1
  <2>3. QED
    BY <1>2, <2>1, <2>2
<1>9. c + 1 \in 1 .. n + 1 /\ c + 1 - 1 = c
  BY <1>5
<1>10. QED
  BY <1>1, <1>6, <1>7, <1>8, <1>9

LEMMA EmplacedKeeps ==
  ASSUME NEW queue \in Seq(Task), Sorted(queue), NEW t \in Task
  PROVE  /\ Emplaced(queue, t) \in Seq(Task)
         /\ Len(Emplaced(queue, t)) = Len(queue) + 1
         /\ Sorted(Emplaced(queue, t))
<1>1. PICK n \in Nat : Len(queue) = n /\ DOMAIN queue = 1 .. n
  OBVIOUS
<1>2. t.at \in Nat /\ \A i \in 1 .. n : queue[i] \in Task /\ queue[i].at \in Nat
  BY <1>1, TaskFields
<1>3. PICK k \in 1 .. Len(queue) + 1 :
            /\ Emplaced(queue, t) = InsertAt(queue, k, t)
            /\ \A i \in 1 .. k - 1 : queue[i].at <= t.at
            /\ \A i \in k .. Len(queue) : t.at < queue[i].at
  BY EmplacedAt
<1>4. PICK r \in Seq(Task) : /\ r = InsertAt(queue, k, t)
                             /\ Len(r) = n + 1
                             /\ \A i \in 1 .. k - 1 : r[i] = queue[i]
                             /\ r[k] = t
                             /\ \A i \in k .. n : r[i + 1] = queue[i]
  <2>1. InsertAt(queue, k, t) \in Seq(Task)
    BY Inserted
  <2>2. /\ Len(InsertAt(queue, k, t)) = Len(queue) + 1
        /\ \A i \in 1 .. k - 1 : InsertAt(queue, k, t)[i] = queue[i]
        /\ InsertAt(queue, k, t)[k] = t
        /\ \A i \in k .. Len(queue) : InsertAt(queue, k, t)[i + 1] = queue[i]
    BY Inserted
  <2>3. QED
    BY <1>1, <2>1, <2>2
<1>5. DOMAIN r = 1 .. n + 1
  BY <1>4
<1>6. ASSUME NEW i \in 1 .. n + 1
      PROVE  /\ i < k => r[i] = queue[i] /\ i \in 1 .. n
             /\ i > k => r[i] = queue[i - 1] /\ i - 1 \in k .. n
  <2>1. i < k => i \in 1 .. k - 1 /\ i \in 1 .. n
    BY <1>1
  <2>2. i > k => i - 1 \in k .. n /\ i - 1 + 1 = i
    BY <1>1
  <2>3. i > k => r[i] = queue[i - 1]
    BY <1>4, <2>2
  <2>4. QED
    BY <1>4, <2>1, <2>2, <2>3
<1>7. ASSUME NEW i \in 1 .. n + 1, NEW j \in 1 .. n + 1, i < j
      PROVE  r[i].at <= r[j].at
  <2>1. CASE j < k
    <3>1. i < k
      BY <1>7, <2>1
    <3>2. QED
      BY <1>1, <1>6, <1>7, <2>1, <3>1 DEF Sorted
  <2>2. CASE j = k
    <3>1. i < k /\ i \in 1 .. k - 1
      BY <1>7, <2>2
    <3>2. QED
      BY <1>3, <1>4, <1>6, <2>2, <3>1
  <2>3. CASE j > k
    <3>1. r[j] = queue[j - 1] /\ j - 1 \in k .. n /\ j - 1 \in 1 .. n
      BY <1>1, <1>6, <2>3
    <3>2. CASE i < k
      <4>1. r[i] = queue[i] /\ i \in 1 .. n /\ i < j - 1
        BY <1>6, <3>1, <3>2
      <4>2. QED
        BY <1>1, <3>1, <4>1 DEF Sorted
    <3>3. CASE i = k
      <4>1. t.at < queue[j - 1].at
        BY <1>1, <1>3, <3>1
      <4>2. QED
        BY <1>2, <1>4, <3>1, <3>3, <4>1
    <3>4. CASE i > k
      <4>1. r[i] = queue[i - 1] /\ i - 1 \in 1 .. n /\ i - 1 < j - 1
        BY <1>1, <1>6, <1>7, <3>4
      <4>2. QED
        BY <1>1, <3>1, <4>1 DEF Sorted
    <3>5. QED
      BY <3>2, <3>3, <3>4
  <2>4. QED
    BY <2>1, <2>2, <2>3
<1>8. Sorted(r)
  BY <1>5, <1>7 DEF Sorted
<1>9. QED
  BY <1>1, <1>3, <1>4, <1>8

(* A new task that no earlier one of its thread overtakes keeps the order.   *)
LEMMA FifoInserted ==
  ASSUME NEW line \in Seq(Task), Fifo(line), NEW t \in Task, NEW m \in 1 .. Len(line) + 1,
         \A i \in DOMAIN line : line[i].by = t.by => line[i].id <= t.id,
         \A i \in m .. Len(line) : t.at < line[i].at
  PROVE  /\ Fifo(InsertAt(line, m, t))
         /\ \A i \in DOMAIN InsertAt(line, m, t) :
              \/ InsertAt(line, m, t)[i] = t
              \/ \E j \in DOMAIN line : InsertAt(line, m, t)[i] = line[j]
<1>1. PICK n \in Nat : Len(line) = n /\ DOMAIN line = 1 .. n
  OBVIOUS
<1>2. /\ t.at \in Nat /\ t.id \in Nat
      /\ \A i \in 1 .. n : line[i] \in Task /\ line[i].at \in Nat /\ line[i].id \in Nat
  BY <1>1, TaskFields
<1>3. PICK r \in Seq(Task) : /\ r = InsertAt(line, m, t)
                             /\ Len(r) = n + 1
                             /\ \A i \in 1 .. m - 1 : r[i] = line[i]
                             /\ r[m] = t
                             /\ \A i \in m .. n : r[i + 1] = line[i]
  <2>1. InsertAt(line, m, t) \in Seq(Task)
    BY Inserted
  <2>2. /\ Len(InsertAt(line, m, t)) = Len(line) + 1
        /\ \A i \in 1 .. m - 1 : InsertAt(line, m, t)[i] = line[i]
        /\ InsertAt(line, m, t)[m] = t
        /\ \A i \in m .. Len(line) : InsertAt(line, m, t)[i + 1] = line[i]
    BY Inserted
  <2>3. QED
    BY <1>1, <2>1, <2>2
<1>4. DOMAIN r = 1 .. n + 1
  BY <1>3
<1>5. ASSUME NEW i \in 1 .. n + 1
      PROVE  /\ i < m => r[i] = line[i] /\ i \in 1 .. n
             /\ i > m => r[i] = line[i - 1] /\ i - 1 \in m .. n /\ i - 1 \in 1 .. n
  <2>1. i < m => i \in 1 .. m - 1 /\ i \in 1 .. n
    BY <1>1
  <2>2. i > m => i - 1 \in m .. n /\ i - 1 + 1 = i /\ i - 1 \in 1 .. n
    BY <1>1
  <2>3. i > m => r[i] = line[i - 1]
    BY <1>3, <2>2
  <2>4. QED
    BY <1>3, <2>1, <2>2, <2>3
<1>6. ASSUME NEW i \in 1 .. n + 1, NEW j \in 1 .. n + 1,
             i < j, r[i].by = r[j].by, r[j].id < r[i].id
      PROVE  r[j].at > r[i].at
  <2>1. CASE j < m
    <3>1. i < m
      BY <1>6, <2>1
    <3>2. QED
      BY <1>1, <1>5, <1>6, <2>1, <3>1 DEF Fifo
  <2>2. CASE j = m
    <3>1. r[i] = line[i] /\ i \in 1 .. n /\ r[j] = t
      BY <1>3, <1>5, <1>6, <2>2
    <3>2. line[i].id <= t.id /\ t.id < line[i].id
      BY <1>1, <1>6, <3>1
    <3>3. QED
      BY <1>2, <3>1, <3>2
  <2>3. CASE j > m
    <3>1. r[j] = line[j - 1] /\ j - 1 \in m .. n /\ j - 1 \in 1 .. n
      BY <1>1, <1>5, <2>3
    <3>2. CASE i < m
      <4>1. r[i] = line[i] /\ i \in 1 .. n /\ i < j - 1
        BY <1>5, <3>1, <3>2
      <4>2. QED
        BY <1>1, <1>6, <3>1, <4>1 DEF Fifo
    <3>3. CASE i = m
      <4>1. t.at < line[j - 1].at
        BY <1>1, <3>1
      <4>2. r[i] = t
        BY <1>3, <3>3
      <4>3. QED
        BY <1>2, <3>1, <4>1, <4>2
    <3>4. CASE i > m
      <4>1. r[i] = line[i - 1] /\ i - 1 \in 1 .. n /\ i - 1 < j - 1
        BY <1>1, <1>5, <1>6, <3>4
      <4>2. QED
        BY <1>1, <1>6, <3>1, <4>1 DEF Fifo
    <3>5. QED
      BY <3>2, <3>3, <3>4
  <2>4. QED
    BY <2>1, <2>2, <2>3
<1>7. Fifo(r)
  BY <1>4, <1>6 DEF Fifo
<1>8. ASSUME NEW i \in DOMAIN r
      PROVE  r[i] = t \/ \E j \in DOMAIN line : r[i] = line[j]
  <2>1. CASE i = m
    BY <1>3, <2>1
  <2>2. CASE i < m
    BY <1>1, <1>4, <1>5, <2>2
  <2>3. CASE i > m
    BY <1>1, <1>4, <1>5, <2>3
  <2>4. QED
    BY <1>4, <2>1, <2>2, <2>3
<1>9. QED
  BY <1>3, <1>7, <1>8

(* A line that lacks one of its tasks is still in order. *)
LEMMA FifoRemoved ==
  ASSUME NEW line \in Seq(Task), NEW t \in Task, NEW m \in 1 .. Len(line) + 1,
         Fifo(InsertAt(line, m, t))
  PROVE  /\ Fifo(line)
         /\ \A i \in DOMAIN line : \E j \in DOMAIN InsertAt(line, m, t) :
              InsertAt(line, m, t)[j] = line[i]
<1>1. PICK n \in Nat : Len(line) = n /\ DOMAIN line = 1 .. n
  OBVIOUS
<1>2. PICK r \in Seq(Task) : /\ r = InsertAt(line, m, t)
                             /\ Len(r) = n + 1
                             /\ \A i \in 1 .. m - 1 : r[i] = line[i]
                             /\ \A i \in m .. n : r[i + 1] = line[i]
  <2>1. InsertAt(line, m, t) \in Seq(Task)
    BY Inserted
  <2>2. /\ Len(InsertAt(line, m, t)) = Len(line) + 1
        /\ \A i \in 1 .. m - 1 : InsertAt(line, m, t)[i] = line[i]
        /\ \A i \in m .. Len(line) : InsertAt(line, m, t)[i + 1] = line[i]
    BY Inserted
  <2>3. QED
    BY <1>1, <2>1, <2>2
<1>3. DOMAIN r = 1 .. n + 1 /\ Fifo(r)
  BY <1>2
<1> DEFINE place(i) == IF i < m THEN i ELSE i + 1
<1>5. ASSUME NEW i \in 1 .. n
      PROVE  r[place(i)] = line[i] /\ place(i) \in 1 .. n + 1
  <2>1. CASE i < m
    <3>1. i \in 1 .. m - 1 /\ place(i) = i /\ i \in 1 .. n + 1
      BY <1>1, <2>1
    <3>2. QED
      BY <1>2, <3>1
  <2>2. CASE ~ (i < m)
    <3>1. i \in m .. n /\ place(i) = i + 1 /\ i + 1 \in 1 .. n + 1
      BY <1>1, <2>2
    <3>2. QED
      BY <1>2, <3>1
  <2>3. QED
    BY <2>1, <2>2
<1>6. ASSUME NEW i \in 1 .. n, NEW j \in 1 .. n, i < j
      PROVE  place(i) < place(j)
  BY <1>1, <1>6
<1> HIDE DEF place
<1>7. ASSUME NEW i \in 1 .. n, NEW j \in 1 .. n,
             i < j, line[i].by = line[j].by, line[j].id < line[i].id
      PROVE  line[j].at > line[i].at
  <2>1. place(i) < place(j) /\ place(i) \in DOMAIN r /\ place(j) \in DOMAIN r
    BY <1>3, <1>5, <1>6, <1>7
  <2>2. r[place(i)] = line[i] /\ r[place(j)] = line[j]
    BY <1>5
  <2>3. QED
    BY <1>3, <1>7, <2>1, <2>2 DEF Fifo
<1>8. Fifo(line)
  BY <1>1, <1>7 DEF Fifo
<1>9. \A i \in DOMAIN line : \E j \in DOMAIN r : r[j] = line[i]
  BY <1>1, <1>3, <1>5
<1>10. QED
  BY <1>2, <1>8, <1>9

-----------------------------------------------------------------------------
(* Types                                                                     *)

LEMMA TypeFacts ==
  ASSUME TypeOK
  PROVE  /\ now \in Nat /\ calls \in Nat /\ now <= MaxTime /\ calls <= MaxTasks
         /\ tasks \in Seq(Task) /\ Len(tasks) \in Nat /\ Len(tasks) <= Capacity
         /\ thread \in [Caller -> Place] /\ work \in Task /\ order \in Seq(Task)
<1>1. now \in 0 .. MaxTime /\ calls \in 0 .. MaxTasks
  BY DEF TypeOK
<1>2. tasks \in Seq(Task)
  BY DEF TypeOK
<1>3. Len(tasks) <= Capacity
  BY DEF TypeOK
<1>4. thread \in [Caller -> Place] /\ work \in Task /\ order \in Seq(Task)
  BY DEF TypeOK
<1>5. now \in Nat /\ calls \in Nat /\ now <= MaxTime /\ calls <= MaxTasks
  BY <1>1, WorkerAssumption
<1>6. Len(tasks) \in Nat
  BY <1>2
<1>7. QED
  BY <1>2, <1>3, <1>4, <1>5, <1>6

LEMMA NewTaskType ==
  ASSUME now \in Nat, NEW id \in 0 .. MaxTasks + 1, NEW p \in Caller \cup {Self},
         NEW delay \in Nat, now + delay <= MaxTime, NEW must \in BOOLEAN
  PROVE  NewTask(id, p, delay, must) \in Task
<1>1. now + delay \in 0 .. MaxTime
  BY WorkerAssumption
<1>2. QED
  BY <1>1 DEF NewTask, Task

(* Only the place of a thread changes, or the thread has a task of its own.  *)
LEMMA Moved ==
  ASSUME thread \in [Caller -> Place], NEW p \in Caller,
         NEW place \in {"out", "locking", "waiting", "notifying", "joining", "over"},
         Move(p, place)
  PROVE  /\ thread' \in [Caller -> Place]
         /\ thread'[p].at = place /\ thread'[p].task = thread[p].task
         /\ \A q \in Caller \ {p} : thread'[q] = thread[q]
BY DEF Move, Place

LEMMA Called ==
  ASSUME thread \in [Caller -> Place], NEW p \in Caller, NEW t \in Task,
         thread' = [thread EXCEPT ![p] = At("locking", t)]
  PROVE  /\ thread' \in [Caller -> Place]
         /\ thread'[p].at = "locking" /\ thread'[p].task = t
         /\ \A q \in Caller \ {p} : thread'[q] = thread[q]
BY DEF At, Place

LEMMA TypeInit ==
  ASSUME Init
  PROVE  TypeOK
<1>1. Blank \in Task /\ Owner \in Caller
  BY WorkerAssumption DEF Blank, Task, Caller
<1>2. thread \in [Caller -> Place]
  BY <1>1 DEF Init, At, Place
<1>3. /\ 0 \in 0 .. MaxTime /\ 0 \in 0 .. MaxTasks
      /\ <<>> \in Seq(Task) /\ Len(<<>>) <= Capacity
  BY WorkerAssumption
<1>4. QED
  BY <1>1, <1>2, <1>3 DEF Init, TypeOK

LEMMA TypeStep ==
  ASSUME TypeOK, Sorted(tasks), [Next]_vars
  PROVE  TypeOK'
<1> USE WorkerAssumption
<1>1. CASE Tick
  <2>1. now' \in 0 .. MaxTime
    <3>1. now \in Nat
      BY TypeFacts
    <3>2. QED
      BY <1>1, <3>1 DEF Tick
  <2>2. QED
    BY <1>1, <2>1 DEF Tick, TypeOK
<1>2. CASE GetNextTask
  <2>1. CASE tasks = <<>> /\ UNCHANGED <<tasks, work, until>> /\ worker' = "idle"
    BY <1>2, <2>1 DEF GetNextTask, TypeOK
  <2>2. CASE tasks # <<>>
    <3>1. /\ Head(tasks) \in Task /\ Tail(tasks) \in Seq(Task)
          /\ Len(Tail(tasks)) = Len(tasks) - 1
      BY <2>2, TypeFacts, HeadTailProperties
    <3>2. Head(tasks).at \in 0 .. MaxTime
      BY <3>1 DEF Task
    <3>3. tasks' \in Seq(Task) /\ Len(tasks') <= Capacity
      <4>1. tasks' = tasks \/ tasks' = Tail(tasks)
        BY <1>2, <2>2 DEF GetNextTask
      <4>2. CASE tasks' = tasks
        BY <4>2, TypeFacts
      <4>3. CASE tasks' = Tail(tasks)
        <5>1. Len(tasks) - 1 <= Capacity
          BY TypeFacts
        <5>2. QED
          BY <3>1, <4>3, <5>1
      <4>4. QED
        BY <4>1, <4>2, <4>3
    <3>4. /\ work' \in Task /\ until' \in 0 .. MaxTime
          /\ worker' \in {"sleeping", "notifying"}
      BY <1>2, <2>2, <3>1, <3>2 DEF GetNextTask, TypeOK
    <3>5. QED
      BY <1>2, <3>3, <3>4 DEF GetNextTask, TypeOK
  <2>3. QED
    BY <1>2, <2>1, <2>2 DEF GetNextTask
<1>3. CASE NotifyEmptied
  <2>1. thread' \in [Caller -> Place]
    BY <1>3, Moved DEF NotifyEmptied, TypeOK
  <2>2. QED
    BY <1>3, <2>1 DEF NotifyEmptied, TypeOK
<1>4. CASE RunTask
  <2>1. order' \in Seq(Task)
    BY <1>4 DEF RunTask, TypeOK
  <2>2. stop' \in BOOLEAN
    BY <1>4 DEF RunTask, StopTask
  <2>3. QED
    BY <1>4, <2>1, <2>2 DEF RunTask, TypeOK
<1>5. CASE WakeUp
  BY <1>5 DEF WakeUp, TypeOK
<1>6. ASSUME NEW p \in Producer, NEW delay \in Delay, NEW must \in BOOLEAN,
             Call(p, delay, must)
      PROVE  TypeOK'
  <2>1. p \in Caller /\ calls + 1 \in 0 .. MaxTasks /\ delay \in Nat /\ now \in Nat
    BY <1>6, TypeFacts DEF Call, Caller
  <2>2. NewTask(calls + 1, p, delay, must) \in Task
    <3>1. calls + 1 \in 0 .. MaxTasks + 1 /\ now + delay <= MaxTime
      BY <1>6, <2>1 DEF Call
    <3>2. QED
      BY <1>6, <2>1, <3>1, NewTaskType
  <2>3. thread' \in [Caller -> Place]
    BY <1>6, <2>1, <2>2, Called DEF Call, TypeOK
  <2>4. QED
    BY <1>6, <2>1, <2>3 DEF Call, TypeOK
<1>7. ASSUME NEW p \in Producer, SpuriousWakeup(p)
      PROVE  TypeOK'
  <2>1. thread' \in [Caller -> Place]
    BY <1>7, Moved DEF SpuriousWakeup, TypeOK, Caller
  <2>2. QED
    BY <1>7, <2>1 DEF SpuriousWakeup, TypeOK
<1>8. ASSUME NEW p \in Caller, Lock(p)
      PROVE  TypeOK'
  <2>1. thread' \in [Caller -> Place]
    <3>1. \E place \in {"notifying", "waiting", "out"} : Move(p, place)
      BY <1>8 DEF Lock
    <3>2. QED
      BY <3>1, Moved DEF TypeOK
  <2>2. tasks' \in Seq(Task) /\ Len(tasks') <= Capacity
    <3>1. CASE Len(tasks) < Capacity /\ tasks' = Emplaced(tasks, thread[p].task)
      <4>1. thread[p].task \in Task
        BY <1>8 DEF TypeOK, Place
      <4>2. tasks' \in Seq(Task) /\ Len(tasks') = Len(tasks) + 1
        BY <3>1, <4>1, EmplacedKeeps DEF TypeOK
      <4>3. Len(tasks) \in Nat
        BY TypeFacts
      <4>4. QED
        BY <3>1, <4>2, <4>3
    <3>2. CASE UNCHANGED tasks
      BY <3>2 DEF TypeOK
    <3>3. QED
      BY <1>8, <3>1, <3>2 DEF Lock
  <2>3. QED
    BY <1>8, <2>1, <2>2 DEF Lock, TypeOK
<1>9. ASSUME NEW p \in Caller, NotifyFilled(p)
      PROVE  TypeOK'
  <2>1. thread' \in [Caller -> Place]
    <3>1. \E place \in {"joining", "out"} : Move(p, place)
      BY <1>9 DEF NotifyFilled
    <3>2. QED
      BY <3>1, Moved DEF TypeOK
  <2>2. QED
    BY <1>9, <2>1 DEF NotifyFilled, TypeOK
<1>10. CASE Destroy
  <2>1. Owner \in Caller /\ now \in Nat /\ now + 0 <= MaxTime /\ MaxTasks + 1 \in 0 .. MaxTasks + 1
    BY TypeFacts DEF Caller
  <2>2. NewTask(MaxTasks + 1, Owner, 0, TRUE) \in Task
    BY <2>1, NewTaskType
  <2>3. thread' \in [Caller -> Place]
    BY <1>10, <2>1, <2>2, Called DEF Destroy, TypeOK
  <2>4. QED
    BY <1>10, <2>3 DEF Destroy, TypeOK
<1>11. CASE Join
  <2>1. thread' \in [Caller -> Place]
    BY <1>11, Moved DEF Join, TypeOK, Caller
  <2>2. QED
    BY <1>11, <2>1 DEF Join, TypeOK
<1>12. ASSUME NEW delay \in Delay, ScheduleFromTask(delay)
       PROVE  TypeOK'
  <2>1. calls + 1 \in 0 .. MaxTasks /\ delay \in Nat /\ now \in Nat /\ Len(tasks) \in Nat
    <3>1. calls < MaxTasks
      BY <1>12 DEF ScheduleFromTask
    <3>2. QED
      BY <3>1, TypeFacts
  <2>2. NewTask(calls + 1, Self, delay, TRUE) \in Task
    <3>1. calls + 1 \in 0 .. MaxTasks + 1 /\ now + delay <= MaxTime
      <4>1. now + delay <= MaxTime
        BY <1>12 DEF ScheduleFromTask
      <4>2. QED
        BY <2>1, <4>1
    <3>2. QED
      BY <1>12, <2>1, <3>1, NewTaskType
  <2>3. tasks' \in Seq(Task) /\ Len(tasks') <= Capacity
    <3>1. CASE Len(tasks) < Capacity /\ tasks' = Emplaced(tasks, NewTask(calls + 1, Self, delay, TRUE))
      <4>1. tasks' \in Seq(Task) /\ Len(tasks') = Len(tasks) + 1
        BY <2>2, <3>1, EmplacedKeeps DEF TypeOK
      <4>2. Len(tasks) + 1 <= Capacity
        BY <2>1, <3>1
      <4>3. QED
        BY <4>1, <4>2
    <3>2. CASE UNCHANGED tasks
      BY <3>2 DEF TypeOK
    <3>3. QED
      BY <1>12, <3>1, <3>2 DEF ScheduleFromTask
  <2>4. QED
    BY <1>12, <2>1, <2>3 DEF ScheduleFromTask, TypeOK
<1>13. CASE UNCHANGED vars
  BY <1>13 DEF vars, TypeOK
<1>14. QED
  BY <1>1, <1>2, <1>3, <1>4, <1>5, <1>6, <1>7, <1>8, <1>9, <1>10, <1>11, <1>12, <1>13
  DEF Next, Run, Calls

-----------------------------------------------------------------------------
(* The order of the tasks                                                    *)

LEMMA LineType ==
  ASSUME TypeOK
  PROVE  /\ order \in Seq(Task) /\ Doing \in Seq(Task) /\ order \o Doing \in Seq(Task)
         /\ Line \in Seq(Task) /\ DOMAIN Line = 1 .. Len(Line)
<1>1. order \in Seq(Task) /\ Doing \in Seq(Task) /\ tasks \in Seq(Task)
  <2>1. <<work>> \in Seq(Task) /\ <<>> \in Seq(Task)
    BY TypeFacts
  <2>2. QED
    BY <2>1, TypeFacts DEF Doing
<1>2. order \o Doing \in Seq(Task)
  BY <1>1
<1>3. Line \in Seq(Task)
  BY <1>1, <1>2 DEF Line
<1>4. QED
  BY <1>1, <1>2, <1>3

(* The line is the same, and so is every task about to enter it. *)
LEMMA LineKept ==
  ASSUME TypeOK, LineInv, Line' = Line, Sorted(tasks'), calls' = calls,
         \A p \in Caller : Pending(p)' => Pending(p) /\ thread'[p].task = thread[p].task
  PROVE  LineInv'
<1>1. Fifo(Line)' /\ \A i \in DOMAIN Line' : Numbered(Line[i])'
  BY DEF LineInv, Fifo, Numbered
<1>2. ASSUME NEW p \in Caller, Pending(p)'
      PROVE  Latest(p)'
  <2>1. Latest(p) /\ thread'[p].task = thread[p].task
    BY <1>2 DEF LineInv
  <2>2. QED
    BY <2>1 DEF Latest, Numbered
<1>3. Sorted(tasks)'
  BY DEF Sorted
<1>4. QED
  BY <1>1, <1>2, <1>3 DEF LineInv

(* A task enters the queue, and only tasks of other threads are still to come. *)
LEMMA LineGrown ==
  ASSUME TypeOK, LineInv, NEW t \in Task, tasks' = Emplaced(tasks, t),
         order' = order, Doing' = Doing, calls' \in Nat, calls <= calls', Numbered(t)',
         \A i \in DOMAIN Line : Line[i].by = t.by => Line[i].id <= t.id,
         \A p \in Caller : Pending(p)' =>
           Pending(p) /\ thread'[p].task = thread[p].task /\ p # t.by
  PROVE  LineInv'
<1> DEFINE a == order \o Doing
<1>1. a \in Seq(Task) /\ tasks \in Seq(Task) /\ Sorted(tasks) /\ calls \in Nat
  BY LineType, TypeFacts DEF LineInv
<1>2. Line = a \o tasks /\ Line' = a \o Emplaced(tasks, t)
  BY DEF Line
<1> HIDE DEF a
<1>3. PICK k \in 1 .. Len(tasks) + 1 :
            /\ Emplaced(tasks, t) = InsertAt(tasks, k, t)
            /\ \A i \in k .. Len(tasks) : t.at < tasks[i].at
  BY <1>1, EmplacedAt
<1>4. Line' = InsertAt(Line, Len(a) + k, t)
  <2>1. a \o InsertAt(tasks, k, t) = InsertAt(a \o tasks, Len(a) + k, t)
    BY <1>1, InsertedBehind
  <2>2. QED
    BY <1>2, <1>3, <2>1
<1>5. /\ Line \in Seq(Task) /\ Len(Line) = Len(a) + Len(tasks) /\ DOMAIN Line = 1 .. Len(Line)
      /\ \A i \in 1 .. Len(tasks) : Line[Len(a) + i] = tasks[i]
  BY <1>1, <1>2, Joined
<1>6. PICK l \in Nat, n \in Nat : Len(a) = l /\ Len(tasks) = n
  BY <1>1
<1>7. Len(a) + k \in 1 .. Len(Line) + 1
  BY <1>5, <1>6
<1>8. ASSUME NEW i \in Len(a) + k .. Len(Line)
      PROVE  t.at < Line[i].at
  <2>1. i - l \in k .. n /\ i - l \in 1 .. n /\ l + (i - l) = i
    BY <1>5, <1>6
  <2>2. Line[i] = tasks[i - l]
    BY <1>5, <1>6, <2>1
  <2>3. QED
    BY <1>3, <1>6, <2>1, <2>2
<1>9. Fifo(Line)
  BY DEF LineInv
<1>10. /\ Fifo(Line')
       /\ \A i \in DOMAIN Line' : Line'[i] = t \/ \E j \in DOMAIN Line : Line'[i] = Line[j]
  BY <1>4, <1>5, <1>7, <1>8, <1>9, FifoInserted
<1>11. Sorted(tasks')
  BY <1>1, EmplacedKeeps
<1>12. ASSUME NEW u \in Task, Numbered(u)
       PROVE  Numbered(u)'
  <2>1. u.id \in Nat
    BY TaskFields
  <2>2. QED
    BY <1>1, <1>12, <2>1 DEF Numbered
<1>13. ASSUME NEW i \in DOMAIN Line'
       PROVE  Numbered(Line[i])'
  <2>1. CASE Line'[i] = t
    BY <2>1 DEF Numbered
  <2>2. CASE \E j \in DOMAIN Line : Line'[i] = Line[j]
    <3>1. PICK j \in DOMAIN Line : Line'[i] = Line[j]
      BY <2>2
    <3>2. PICK u \in Task : u = Line[j] /\ Numbered(u)
      BY <1>5 DEF LineInv
    <3>3. Numbered(u)'
      BY <1>12, <3>2
    <3>4. QED
      BY <3>1, <3>2, <3>3 DEF Numbered
  <2>3. QED
    BY <1>10, <2>1, <2>2
<1>14. ASSUME NEW p \in Caller, Pending(p)'
       PROVE  Latest(p)'
  <2>1. Latest(p) /\ thread'[p].task = thread[p].task /\ p # t.by
    BY <1>14 DEF LineInv
  <2>2. thread[p].task \in Task
    BY DEF TypeOK, Place
  <2>3. Numbered(thread[p].task)'
    <3>1. PICK u \in Task : u = thread[p].task /\ Numbered(u)
      BY <2>1, <2>2 DEF Latest
    <3>2. Numbered(u)'
      BY <1>12, <3>1
    <3>3. QED
      BY <2>1, <3>1, <3>2 DEF Numbered
  <2>4. ASSUME p # Owner, NEW i \in DOMAIN Line', Line'[i].by = p
        PROVE  Line'[i].id < thread'[p].task.id
    <3>1. PICK j \in DOMAIN Line : Line'[i] = Line[j]
      BY <1>10, <2>1, <2>4
    <3>2. QED
      BY <2>1, <2>4, <3>1 DEF Latest
  <2>5. QED
    BY <2>1, <2>3, <2>4 DEF Latest
<1>15. QED
  BY <1>10, <1>11, <1>13, <1>14 DEF LineInv, Sorted, Fifo

(* The calling thread asks for its next task. *)
LEMMA LineAsked ==
  ASSUME TypeOK, LineInv, Line' = Line, tasks' = tasks, calls' \in Nat, calls <= calls',
         NEW p \in Caller, NEW t \in Task, t.by = p,
         thread' = [thread EXCEPT ![p] = At("locking", t)],
         IF p = Owner THEN t.id = MaxTasks + 1 ELSE calls < t.id /\ t.id <= calls'
  PROVE  LineInv'
<1>1. /\ thread'[p].at = "locking" /\ thread'[p].task = t
      /\ \A q \in Caller \ {p} : thread'[q] = thread[q]
  BY Called DEF TypeOK
<1>2. Line \in Seq(Task) /\ \A i \in DOMAIN Line : Line[i] \in Task /\ Line[i].id \in Nat
  BY LineType, TaskFields
<1>3. calls \in Nat /\ t.id \in Nat
  BY TaskFields, TypeFacts
<1>4. ASSUME NEW u \in Task, Numbered(u)
      PROVE  Numbered(u)'
  <2>1. u.id \in Nat
    BY TaskFields
  <2>2. QED
    BY <1>3, <1>4, <2>1 DEF Numbered
<1>5. ASSUME NEW i \in DOMAIN Line'
      PROVE  Numbered(Line[i])'
  <2>1. PICK u \in Task : u = Line[i] /\ Numbered(u)
    BY <1>2, <1>5 DEF LineInv
  <2>2. Numbered(u)'
    BY <1>4, <2>1
  <2>3. QED
    BY <2>1, <2>2 DEF Numbered
<1>6. Latest(p)'
  <2>1. Numbered(t)'
    BY DEF Numbered
  <2>2. ASSUME p # Owner, NEW i \in DOMAIN Line, Line[i].by = p
        PROVE  Line[i].id < t.id
    <3>1. Line[i].id <= calls
      BY <2>2 DEF LineInv, Numbered
    <3>2. QED
      BY <1>2, <1>3, <2>2, <3>1
  <2>3. QED
    BY <1>1, <2>1, <2>2 DEF Latest, Numbered
<1>7. ASSUME NEW q \in Caller, q # p, Pending(q)'
      PROVE  Latest(q)'
  <2>1. thread'[q] = thread[q] /\ Latest(q)
    BY <1>1, <1>7 DEF LineInv, Pending
  <2>2. PICK u \in Task : u = thread[q].task /\ Numbered(u)
    BY <2>1 DEF TypeOK, Place, Latest
  <2>3. Numbered(u)'
    BY <1>4, <2>2
  <2>4. QED
    BY <2>1, <2>2, <2>3 DEF Latest, Numbered
<1>8. QED
  BY <1>5, <1>6, <1>7 DEF LineInv, Sorted, Fifo

(* The worker waits for itself, and the task it has will never be over. *)
LEMMA LineShrunk ==
  ASSUME TypeOK, LineInv, worker = "running", worker' = "stuck",
         calls' \in Nat, calls <= calls', order' = order, tasks' = tasks, thread' = thread
  PROVE  LineInv'
<1> DEFINE one == <<work>>
           rest == order \o tasks
<1>1. order \in Seq(Task) /\ tasks \in Seq(Task) /\ work \in Task /\ calls \in Nat
  BY TypeFacts
<1>2. one \in Seq(Task) /\ one = Doing
  BY <1>1 DEF Doing
<1>3. rest \in Seq(Task) /\ Line' = rest
  <2>1. Doing' = <<>>
    BY DEF Doing
  <2>2. order \o <<>> = order
    BY <1>1
  <2>3. QED
    BY <1>1, <2>1, <2>2 DEF Line
<1>7. Line = InsertAt(rest, Len(order) + 1, work)
  <2>1. PICK w \in Seq(Task) : w = <<work>> /\ w = Doing
    BY <1>2
  <2>2. (order \o w) \o tasks = InsertAt(order \o tasks, Len(order) + 1, work)
    BY <1>1, <2>1, InsertedBetween
  <2>3. QED
    BY <2>1, <2>2 DEF Line
<1>8. Len(order) + 1 \in 1 .. Len(rest) + 1
  BY <1>1
<1> HIDE DEF rest
<1>9. /\ Fifo(rest)
      /\ \A i \in DOMAIN rest : \E j \in DOMAIN Line : Line[j] = rest[i]
  BY <1>1, <1>3, <1>7, <1>8, FifoRemoved DEF LineInv
<1>10. ASSUME NEW u \in Task, Numbered(u)
       PROVE  Numbered(u)'
  <2>1. u.id \in Nat
    BY TaskFields
  <2>2. QED
    BY <1>1, <1>10, <2>1 DEF Numbered
<1>11. ASSUME NEW i \in DOMAIN Line'
       PROVE  Numbered(Line[i])'
  <2>1. PICK j \in DOMAIN Line : Line[j] = Line'[i]
    BY <1>3, <1>9
  <2>2. PICK u \in Task : u = Line[j] /\ Numbered(u)
    BY LineType DEF LineInv
  <2>3. Numbered(u)'
    BY <1>10, <2>2
  <2>4. QED
    BY <2>1, <2>2, <2>3 DEF Numbered
<1>12. ASSUME NEW p \in Caller, Pending(p)'
       PROVE  Latest(p)'
  <2>1. Latest(p) /\ thread'[p] = thread[p]
    BY <1>12 DEF LineInv, Pending
  <2>2. PICK u \in Task : u = thread[p].task /\ Numbered(u)
    BY <2>1 DEF TypeOK, Place, Latest
  <2>3. Numbered(u)'
    BY <1>10, <2>2
  <2>4. ASSUME p # Owner, NEW i \in DOMAIN Line', Line'[i].by = p
        PROVE  Line'[i].id < thread'[p].task.id
    BY <1>3, <1>9, <2>1, <2>4 DEF Latest
  <2>5. QED
    BY <2>1, <2>2, <2>3, <2>4 DEF Latest, Numbered
<1>13. QED
  BY <1>3, <1>9, <1>11, <1>12 DEF LineInv, Sorted

LEMMA LineInit ==
  ASSUME Init
  PROVE  LineInv
<1>1. Line = <<>>
  BY DEF Init, Line, Doing
<1>2. DOMAIN Line = {} /\ tasks = <<>> /\ DOMAIN tasks = {}
  BY <1>1 DEF Init
<1>3. \A p \in Caller : ~ Pending(p)
  BY DEF Init, Pending, At
<1>4. QED
  BY <1>2, <1>3 DEF LineInv, Sorted, Fifo

LEMMA LineStep ==
  ASSUME TypeOK, TypeOK', LineInv, [Next]_vars
  PROVE  LineInv'
<1> USE WorkerAssumption
<1>1. Sorted(tasks)
  BY DEF LineInv
<1>2. ASSUME NEW p \in Caller,
             NEW place \in {"out", "locking", "waiting", "notifying", "joining", "over"},
             Move(p, place), place \in {"locking", "waiting"} => Pending(p)
      PROVE  \A q \in Caller : Pending(q)' =>
               /\ Pending(q) /\ thread'[q].task = thread[q].task
               /\ q = p => place \in {"locking", "waiting"}
  <2>1. /\ thread'[p].at = place /\ thread'[p].task = thread[p].task
        /\ \A q \in Caller \ {p} : thread'[q] = thread[q]
    BY <1>2, Moved DEF TypeOK
  <2>2. QED
    BY <1>2, <2>1 DEF Pending
<1>3. ASSUME UNCHANGED thread
      PROVE  \A q \in Caller : Pending(q)' => Pending(q) /\ thread'[q].task = thread[q].task
  BY <1>3 DEF Pending
<1>4. CASE Tick
  <2>1. Line' = Line /\ UNCHANGED <<tasks, calls, thread>>
    BY <1>4 DEF Tick, Line, Doing
  <2>2. QED
    BY <1>1, <1>3, <2>1, LineKept
<1>5. CASE GetNextTask
  <2>1. UNCHANGED <<calls, thread, order>> /\ worker = "seeking"
    BY <1>5 DEF GetNextTask
  <2>2. Line' = Line /\ Sorted(tasks')
    <3>1. CASE worker' # "notifying"
      BY <1>1, <1>5, <3>1 DEF GetNextTask, Line, Doing
    <3>2. CASE worker' = "notifying"
      <4>1. /\ tasks # <<>> /\ tasks' = Tail(tasks)
            /\ work' = Head(tasks) /\ Doing = <<>> /\ Doing' = <<Head(tasks)>>
        BY <1>5, <3>2 DEF GetNextTask, Doing
      <4>2. /\ tasks \in Seq(Task) /\ Tail(tasks) \in Seq(Task) /\ Head(tasks) \in Task
            /\ order \in Seq(Task)
        BY <4>1, TypeFacts, HeadTailProperties
      <4>3. tasks = <<Head(tasks)>> \o Tail(tasks)
        BY <4>1, <4>2
      <4>4. PICK one \in Seq(Task) : one = <<Head(tasks)>>
        <5>1. <<Head(tasks)>> \in Seq(Task)
          BY <4>2
        <5>2. QED
          BY <5>1
      <4>5. (order \o one) \o Tail(tasks) = order \o (one \o Tail(tasks))
        BY <4>2, ConcatAssociative
      <4>6. Line' = (order \o one) \o Tail(tasks)
        BY <2>1, <4>1, <4>4 DEF Line
      <4>7. Line = order \o tasks
        <5>1. order \o <<>> = order
          BY <4>2
        <5>2. QED
          BY <4>1, <5>1 DEF Line
      <4>8. Sorted(tasks')
        <5>1. PICK n \in Nat : Len(tasks) = n + 1 /\ Len(Tail(tasks)) = n
          <6>1. /\ Len(Tail(tasks)) = Len(tasks) - 1
                /\ Len(Tail(tasks)) \in Nat /\ Len(tasks) \in Nat
            BY <4>1, <4>2, HeadTailProperties
          <6>2. Len(tasks) = Len(Tail(tasks)) + 1
            BY <6>1
          <6>3. QED
            BY <6>1, <6>2
        <5>2. DOMAIN tasks = 1 .. n + 1 /\ DOMAIN Tail(tasks) = 1 .. n
          BY <4>2, <5>1
        <5>3. \A i \in 1 .. n : Tail(tasks)[i] = tasks[i + 1]
          BY <4>1, <4>2, <5>1
        <5>4. ASSUME NEW i \in 1 .. n, NEW j \in 1 .. n, i < j
              PROVE  Tail(tasks)[i].at <= Tail(tasks)[j].at
          <6>1. i + 1 \in 1 .. n + 1 /\ j + 1 \in 1 .. n + 1 /\ i + 1 < j + 1
            BY <5>4
          <6>2. QED
            BY <1>1, <5>2, <5>3, <6>1 DEF Sorted
        <5>5. QED
          BY <4>1, <5>2, <5>4 DEF Sorted
      <4>9. QED
        BY <4>3, <4>4, <4>5, <4>6, <4>7, <4>8
    <3>3. QED
      BY <3>1, <3>2
  <2>3. QED
    BY <1>3, <2>1, <2>2, LineKept
<1>6. CASE NotifyEmptied
  <2>1. Line' = Line /\ UNCHANGED <<tasks, calls>>
    BY <1>6 DEF NotifyEmptied, Line, Doing
  <2>2. \A q \in Caller : Pending(q)' => Pending(q) /\ thread'[q].task = thread[q].task
    <3>1. ASSUME NEW p \in Caller, thread[p].at = "waiting", Move(p, "locking")
          PROVE  \A q \in Caller : Pending(q)' => Pending(q) /\ thread'[q].task = thread[q].task
      BY <1>2, <3>1 DEF Pending
    <3>2. QED
      BY <1>3, <1>6, <3>1 DEF NotifyEmptied
  <2>3. QED
    BY <1>1, <2>1, <2>2, LineKept
<1>7. CASE RunTask
  <2>1. UNCHANGED <<calls, thread, tasks, work>> /\ order' = Append(order, work)
    BY <1>7 DEF RunTask
  <2>2. order \in Seq(Task) /\ work \in Task
    BY DEF TypeOK
  <2>3. Doing = <<work>> /\ Doing' = <<>>
    BY <1>7 DEF RunTask, Doing
  <2>4. Append(order, work) = order \o <<work>> /\ Append(order, work) \in Seq(Task)
    BY <2>2, AppendIsConcat
  <2>5. Append(order, work) \o <<>> = Append(order, work)
    BY <2>4
  <2>6. Line' = Line
    BY <2>1, <2>3, <2>4, <2>5 DEF Line
  <2>7. QED
    BY <1>1, <1>3, <2>1, <2>6, LineKept
<1>8. CASE WakeUp
  <2>1. Line' = Line /\ UNCHANGED <<tasks, calls, thread>>
    BY <1>8 DEF WakeUp, Asleep, Line, Doing
  <2>2. QED
    BY <1>1, <1>3, <2>1, LineKept
<1>9. ASSUME NEW p \in Producer, NEW delay \in Delay, NEW must \in BOOLEAN,
             Call(p, delay, must)
      PROVE  LineInv'
  <2>1. PICK t : t = NewTask(calls + 1, p, delay, must)
    OBVIOUS
  <2>2. thread' = [thread EXCEPT ![p] = At("locking", t)] /\ p \in Caller
    BY <1>9, <2>1 DEF Call, Caller
  <2>3. t \in Task /\ t.by = p /\ t.id = calls + 1
    <3>1. t.by = p /\ t.id = calls + 1
      BY <2>1 DEF NewTask
    <3>2. calls + 1 \in 0 .. MaxTasks + 1 /\ now \in Nat /\ delay \in Nat /\ now + delay <= MaxTime
      BY <1>9, TypeFacts DEF Call
    <3>3. t \in Task
      BY <2>1, <2>2, <3>2, NewTaskType
    <3>4. QED
      BY <3>1, <3>3
  <2>4. Line' = Line /\ tasks' = tasks
    BY <1>9 DEF Call, Line, Doing
  <2>5. calls \in Nat /\ calls' = calls + 1 /\ p # Owner
    BY <1>9, ThreadAssumption, TypeFacts DEF Call
  <2>6. calls' \in Nat /\ calls <= calls' /\ calls < t.id /\ t.id <= calls'
    BY <2>3, <2>5
  <2>7. QED
    BY <2>2, <2>3, <2>4, <2>5, <2>6, LineAsked
<1>10. ASSUME NEW p \in Producer, SpuriousWakeup(p)
       PROVE  LineInv'
  <2>1. Line' = Line /\ UNCHANGED <<tasks, calls>>
    BY <1>10 DEF SpuriousWakeup, Line, Doing
  <2>2. p \in Caller /\ Move(p, "locking") /\ Pending(p)
    BY <1>10 DEF SpuriousWakeup, Caller, Pending
  <2>3. \A q \in Caller : Pending(q)' => Pending(q) /\ thread'[q].task = thread[q].task
    BY <1>2, <2>2
  <2>4. QED
    BY <1>1, <2>1, <2>3, LineKept
<1>11. ASSUME NEW p \in Caller, Lock(p)
       PROVE  LineInv'
  <2>1. Pending(p) /\ UNCHANGED <<calls, worker, work, order>>
    BY <1>11 DEF Lock, Pending
  <2>2. Doing' = Doing
    BY <2>1 DEF Doing
  <2>3. CASE tasks' = Emplaced(tasks, thread[p].task) /\ Move(p, "notifying")
    <3>1. PICK t \in Task : t = thread[p].task
      BY DEF TypeOK, Place
    <3>2. Latest(p)
      BY <2>1 DEF LineInv
    <3>3. t.by = p /\ Numbered(t)'
      BY <2>1, <3>1, <3>2 DEF Latest, Numbered
    <3>4. ASSUME NEW i \in DOMAIN Line, Line[i].by = t.by
          PROVE  Line[i].id <= t.id
      <4>1. Line[i] \in Task /\ Line[i].id \in Nat /\ t.id \in Nat
        BY LineType, TaskFields
      <4>2. CASE p = Owner
        <5>1. Line[i].id = MaxTasks + 1 /\ t.id = MaxTasks + 1
          BY <3>1, <3>2, <3>3, <3>4, <4>2 DEF LineInv, Latest, Numbered
        <5>2. QED
          BY <5>1
      <4>3. CASE p # Owner
        BY <3>1, <3>2, <3>3, <3>4, <4>1, <4>3 DEF Latest
      <4>4. QED
        BY <4>2, <4>3
    <3>5. \A q \in Caller : Pending(q)' =>
            Pending(q) /\ thread'[q].task = thread[q].task /\ q # t.by
      BY <1>2, <2>3, <3>3
    <3>6. calls \in Nat /\ calls' = calls
      BY <2>1, TypeFacts
    <3>7. calls' \in Nat /\ calls <= calls' /\ order' = order /\ tasks' = Emplaced(tasks, t)
      BY <2>1, <2>3, <3>1, <3>6
    <3>8. QED
      BY <2>2, <3>3, <3>4, <3>5, <3>7, LineGrown
  <2>4. CASE UNCHANGED tasks /\ Move(p, IF thread[p].task.must THEN "waiting" ELSE "out")
    <3>1. \A q \in Caller : Pending(q)' => Pending(q) /\ thread'[q].task = thread[q].task
      <4>1. PICK place \in {"waiting", "out"} : Move(p, place)
        BY <2>4
      <4>2. QED
        BY <1>2, <2>1, <4>1
    <3>2. Line' = Line
      BY <2>1, <2>2, <2>4 DEF Line
    <3>3. QED
      BY <1>1, <2>1, <2>4, <3>1, <3>2, LineKept
  <2>5. QED
    BY <1>11, <2>3, <2>4 DEF Lock
<1>12. ASSUME NEW p \in Caller, NotifyFilled(p)
       PROVE  LineInv'
  <2>1. Line' = Line /\ UNCHANGED <<tasks, calls>>
    BY <1>12 DEF NotifyFilled, Asleep, Line, Doing
  <2>2. \A q \in Caller : Pending(q)' => Pending(q) /\ thread'[q].task = thread[q].task
    <3>1. PICK place \in {"joining", "out"} : Move(p, place)
      BY <1>12 DEF NotifyFilled
    <3>2. QED
      BY <1>2, <3>1
  <2>3. QED
    BY <1>1, <2>1, <2>2, LineKept
<1>13. CASE Destroy
  <2>1. PICK t : t = NewTask(MaxTasks + 1, Owner, 0, TRUE)
    OBVIOUS
  <2>2. thread' = [thread EXCEPT ![Owner] = At("locking", t)] /\ Owner \in Caller
    BY <1>13, <2>1 DEF Destroy, Caller
  <2>3. t \in Task /\ t.by = Owner /\ t.id = MaxTasks + 1
    <3>1. t.by = Owner /\ t.id = MaxTasks + 1
      BY <2>1 DEF NewTask
    <3>2. MaxTasks + 1 \in 0 .. MaxTasks + 1 /\ now \in Nat /\ now + 0 <= MaxTime
      BY TypeFacts
    <3>3. t \in Task
      BY <2>1, <2>2, <3>2, NewTaskType
    <3>4. QED
      BY <3>1, <3>3
  <2>4. Line' = Line /\ tasks' = tasks
    BY <1>13 DEF Destroy, Line, Doing
  <2>5. calls \in Nat /\ calls' = calls /\ calls' \in Nat /\ calls <= calls'
    BY <1>13, TypeFacts DEF Destroy
  <2>6. QED
    BY <2>2, <2>3, <2>4, <2>5, LineAsked
<1>14. CASE Join
  <2>1. Line' = Line /\ UNCHANGED <<tasks, calls>> /\ Move(Owner, "over") /\ Owner \in Caller
    BY <1>14 DEF Join, Line, Doing, Caller
  <2>2. \A q \in Caller : Pending(q)' => Pending(q) /\ thread'[q].task = thread[q].task
    BY <1>2, <2>1
  <2>3. QED
    BY <1>1, <2>1, <2>2, LineKept
<1>15. ASSUME NEW delay \in Delay, ScheduleFromTask(delay)
       PROVE  LineInv'
  <2>1. /\ calls \in Nat /\ calls' = calls + 1 /\ calls' \in Nat /\ calls <= calls'
        /\ worker = "running" /\ UNCHANGED <<thread, work, order>>
    BY <1>15, TypeFacts DEF ScheduleFromTask
  <2>2. CASE /\ tasks' = Emplaced(tasks, NewTask(calls + 1, Self, delay, TRUE))
             /\ UNCHANGED worker
    <3>1. PICK t : t = NewTask(calls + 1, Self, delay, TRUE)
      OBVIOUS
    <3>2. t.by = Self /\ t.id = calls + 1
      BY <3>1 DEF NewTask
    <3>3. t \in Task
      <4>1. calls + 1 \in 0 .. MaxTasks + 1 /\ now \in Nat /\ delay \in Nat /\ now + delay <= MaxTime
        BY <1>15, TypeFacts DEF ScheduleFromTask
      <4>2. QED
        BY <3>1, <4>1, NewTaskType
    <3>4. Self \notin Caller
      BY ThreadAssumption DEF Caller
    <3>5. Numbered(t)'
      <4>1. t.id <= calls'
        BY <2>1, <3>2
      <4>2. QED
        BY <3>2, <3>4, <4>1, ThreadAssumption DEF Numbered
    <3>6. ASSUME NEW i \in DOMAIN Line, Line[i].by = t.by
          PROVE  Line[i].id <= t.id
      <4>1. Line[i] \in Task /\ Line[i].id \in Nat
        BY LineType, TaskFields
      <4>2. Line[i].id <= calls
        BY <3>2, <3>6, ThreadAssumption DEF LineInv, Numbered
      <4>3. QED
        BY <2>1, <3>2, <4>1, <4>2
    <3>7. \A q \in Caller : Pending(q)' =>
            Pending(q) /\ thread'[q].task = thread[q].task /\ q # t.by
      BY <1>3, <2>1, <3>2, <3>4
    <3>8. Doing' = Doing /\ tasks' = Emplaced(tasks, t)
      BY <2>1, <2>2, <3>1 DEF Doing
    <3>9. QED
      BY <2>1, <3>3, <3>5, <3>6, <3>7, <3>8, LineGrown
  <2>3. CASE worker' = "stuck" /\ UNCHANGED tasks
    BY <2>1, <2>3, LineShrunk
  <2>4. QED
    BY <1>15, <2>2, <2>3 DEF ScheduleFromTask
<1>16. CASE UNCHANGED vars
  <2>1. Line' = Line /\ UNCHANGED <<tasks, calls, thread>>
    BY <1>16 DEF vars, Line, Doing
  <2>2. QED
    BY <1>1, <1>3, <2>1, LineKept
<1>17. QED
  BY <1>4, <1>5, <1>6, <1>7, <1>8, <1>9, <1>10, <1>11, <1>12, <1>13, <1>14, <1>15, <1>16
  DEF Next, Run, Calls

-----------------------------------------------------------------------------
(* The times and the wake-ups                                                *)

LEMMA NotEarlyStep ==
  ASSUME TypeOK, NotEarly, [Next]_vars
  PROVE  NotEarly'
<1>1. now \in Nat /\ work \in Task /\ work.at \in Nat
  BY TypeFacts, TaskFields
<1>2. ASSUME now' = now \/ now' = now + 1, work' = work,
             worker' \in {"notifying", "running"} => worker \in {"notifying", "running"}
      PROVE  NotEarly'
  <2>1. now <= now'
    BY <1>1, <1>2
  <2>2. now' \in Nat
    BY <1>1, <1>2
  <2>3. QED
    BY <1>1, <1>2, <2>1, <2>2 DEF NotEarly
<1>3. CASE GetNextTask
  <2>1. CASE worker' = "notifying"
    BY <1>3, <2>1 DEF GetNextTask, NotEarly
  <2>2. CASE worker' # "notifying"
    BY <1>3, <2>2 DEF GetNextTask, NotEarly
  <2>3. QED
    BY <2>1, <2>2
<1>4. CASE Tick
  BY <1>2, <1>4 DEF Tick
<1>5. CASE NotifyEmptied
  BY <1>2, <1>5 DEF NotifyEmptied
<1>6. CASE RunTask
  BY <1>2, <1>6 DEF RunTask
<1>7. CASE WakeUp
  BY <1>2, <1>7 DEF WakeUp
<1>8. ASSUME NEW p \in Producer, Calls(p)
      PROVE  NotEarly'
  BY <1>2, <1>8 DEF Calls, Call, SpuriousWakeup
<1>9. ASSUME NEW p \in Caller, Lock(p) \/ NotifyFilled(p)
      PROVE  NotEarly'
  <2>1. now' = now /\ work' = work
    BY <1>9 DEF Lock, NotifyFilled
  <2>2. worker' \in {"notifying", "running"} => worker \in {"notifying", "running"}
    BY <1>9 DEF Lock, NotifyFilled
  <2>3. QED
    BY <1>2, <2>1, <2>2
<1>10. CASE Destroy \/ Join
  BY <1>2, <1>10 DEF Destroy, Join
<1>11. ASSUME NEW delay \in Delay, ScheduleFromTask(delay)
       PROVE  NotEarly'
  <2>1. now' = now /\ work' = work /\ worker = "running"
    BY <1>11 DEF ScheduleFromTask
  <2>2. QED
    BY <1>2, <2>1
<1>12. CASE UNCHANGED vars
  BY <1>2, <1>12 DEF vars
<1>13. QED
  BY <1>3, <1>4, <1>5, <1>6, <1>7, <1>8, <1>9, <1>10, <1>11, <1>12 DEF Next, Run

LEMMA LockingType ==
  /\ IsFiniteSet(Locking) /\ Cardinality(Locking) \in Nat
<1>1. IsFiniteSet(Caller)
  BY ThreadAssumption, FS_AddElement DEF Caller
<1>2. Locking \in SUBSET Caller
  BY DEF Locking
<1>3. QED
  BY <1>1, <1>2, FS_Subset, FS_CardinalityType

(* Nobody goes to sleep, and no room is made without an announcement. *)
LEMMA RoomKept ==
  ASSUME TypeOK, RoomInv, Len(tasks') \in Nat,
         Len(tasks) + Announced <= Len(tasks') + Announced',
         Locking \subseteq Locking',
         \A p \in Caller : thread'[p].at = "waiting" => thread[p].at = "waiting"
  PROVE  RoomInv'
<1>1. Cardinality(Locking) \in Nat
  BY LockingType
<1>2. IsFiniteSet(Locking') /\ Cardinality(Locking') \in Nat
  <2>1. IsFiniteSet(Caller)
    BY ThreadAssumption, FS_AddElement DEF Caller
  <2>2. Locking' \in SUBSET Caller
    BY DEF Locking
  <2>3. QED
    BY <2>1, <2>2, FS_Subset, FS_CardinalityType
<1>3. Cardinality(Locking) <= Cardinality(Locking')
  BY <1>2, FS_Subset
<1>4. Len(tasks) \in Nat /\ Announced \in Nat /\ Announced' \in Nat
  BY TypeFacts DEF Announced
<1>5. Capacity \in Nat
  BY WorkerAssumption
<1>6. ASSUME \E p \in Caller : thread'[p].at = "waiting"
      PROVE  Len(tasks') + Cardinality(Locking') + Announced' >= Capacity
  <2>1. Len(tasks) + Cardinality(Locking) + Announced >= Capacity
    BY <1>6 DEF RoomInv
  <2>2. QED
    BY <1>1, <1>2, <1>3, <1>4, <1>5, <2>1
<1>7. QED
  BY <1>6 DEF RoomInv

LEMMA RoomStep ==
  ASSUME TypeOK, TypeOK', Sorted(tasks), RoomInv, [Next]_vars
  PROVE  RoomInv'
<1>1. Len(tasks) \in Nat /\ Len(tasks') \in Nat /\ Announced \in Nat /\ thread \in [Caller -> Place]
  <2>1. tasks' \in Seq(Task)
    BY DEF TypeOK
  <2>2. QED
    BY <2>1, TypeFacts DEF Announced
<1>2. ASSUME tasks' = tasks, worker = "notifying" => worker' = "notifying",
             \A p \in Caller : thread[p].at = "locking" => thread'[p].at = "locking",
             \A p \in Caller : thread'[p].at = "waiting" => thread[p].at = "waiting"
      PROVE  RoomInv'
  <2>1. Announced <= Announced' /\ Announced' \in Nat
    BY <1>2 DEF Announced
  <2>2. Len(tasks) + Announced <= Len(tasks') + Announced'
    BY <1>1, <1>2, <2>1
  <2>3. Locking \subseteq Locking'
    BY <1>2 DEF Locking
  <2>4. QED
    BY <1>1, <1>2, <2>2, <2>3, RoomKept
<1>3. ASSUME NEW p \in Caller,
             NEW place \in {"out", "locking", "waiting", "notifying", "joining", "over"},
             Move(p, place)
      PROVE  thread'[p].at = place /\ \A q \in Caller \ {p} : thread'[q] = thread[q]
  BY <1>1, <1>3, Moved
<1>4. CASE Tick
  BY <1>2, <1>4 DEF Tick
<1>5. CASE GetNextTask
  <2>1. UNCHANGED thread /\ worker = "seeking"
    BY <1>5 DEF GetNextTask
  <2>2. CASE worker' = "notifying"
    <3>1. tasks # <<>> /\ tasks' = Tail(tasks)
      BY <1>5, <2>2 DEF GetNextTask
    <3>2. Len(tasks') = Len(tasks) - 1
      BY <3>1, TypeFacts, HeadTailProperties
    <3>3. Announced = 0 /\ Announced' = 1
      BY <2>1, <2>2 DEF Announced
    <3>4. Len(tasks) + Announced <= Len(tasks') + Announced'
      BY <1>1, <3>2, <3>3
    <3>5. Locking \subseteq Locking'
      BY <2>1 DEF Locking
    <3>6. QED
      BY <1>1, <2>1, <3>4, <3>5, RoomKept
  <2>3. CASE worker' # "notifying"
    <3>1. tasks' = tasks
      BY <1>5, <2>3 DEF GetNextTask
    <3>2. QED
      BY <1>2, <2>1, <3>1
  <2>4. QED
    BY <2>2, <2>3
<1>6. CASE NotifyEmptied
  <2>1. worker = "notifying" /\ worker' = "running" /\ tasks' = tasks
    BY <1>6 DEF NotifyEmptied
  <2>2. CASE (\A p \in Caller : thread[p].at # "waiting") /\ UNCHANGED thread
    BY <2>2 DEF RoomInv
  <2>3. ASSUME NEW p \in Caller, thread[p].at = "waiting", Move(p, "locking")
        PROVE  RoomInv'
    <3>1. thread'[p].at = "locking" /\ \A q \in Caller \ {p} : thread'[q] = thread[q]
      BY <1>3, <2>3
    <3>2. Locking' = Locking \cup {p} /\ p \notin Locking
      BY <2>3, <3>1 DEF Locking
    <3>3. Cardinality(Locking') = Cardinality(Locking) + 1
      BY <3>2, LockingType, FS_AddElement
    <3>4. Len(tasks) + Cardinality(Locking) + 1 >= Capacity
      BY <2>1, <2>3 DEF RoomInv, Announced
    <3>5. Len(tasks') + Cardinality(Locking') + Announced' >= Capacity
      <4>1. Announced' = 0
        BY <2>1 DEF Announced
      <4>2. QED
        BY <1>1, <2>1, <3>3, <3>4, <4>1, LockingType
    <3>6. QED
      BY <3>5 DEF RoomInv
  <2>4. QED
    BY <1>6, <2>2, <2>3 DEF NotifyEmptied
<1>7. CASE RunTask
  BY <1>2, <1>7 DEF RunTask
<1>8. CASE WakeUp
  BY <1>2, <1>8 DEF WakeUp, Asleep
<1>9. ASSUME NEW p \in Producer, NEW delay \in Delay, NEW must \in BOOLEAN,
             Call(p, delay, must)
      PROVE  RoomInv'
  <2>1. p \in Caller /\ thread'[p].at = "locking" /\ \A q \in Caller \ {p} : thread'[q] = thread[q]
    BY <1>1, <1>9 DEF Call, Caller, At
  <2>2. QED
    BY <1>2, <1>9, <2>1 DEF Call
<1>10. ASSUME NEW p \in Producer, SpuriousWakeup(p)
       PROVE  RoomInv'
  <2>1. p \in Caller /\ thread'[p].at = "locking" /\ \A q \in Caller \ {p} : thread'[q] = thread[q]
    BY <1>3, <1>10 DEF SpuriousWakeup, Caller
  <2>2. QED
    BY <1>2, <1>10, <2>1 DEF SpuriousWakeup
<1>11. ASSUME NEW p \in Caller, Lock(p)
       PROVE  RoomInv'
  <2>1. p \in Locking /\ worker' = worker /\ Announced' = Announced
    BY <1>11 DEF Lock, Locking, Announced
  <2>2. CASE tasks' = Emplaced(tasks, thread[p].task) /\ Move(p, "notifying")
    <3>1. thread'[p].at = "notifying" /\ \A q \in Caller \ {p} : thread'[q] = thread[q]
      BY <1>3, <2>2
    <3>2. Locking' = Locking \ {p}
      BY <3>1 DEF Locking
    <3>3. Cardinality(Locking') = Cardinality(Locking) - 1
      BY <2>1, <3>2, LockingType, FS_RemoveElement
    <3>4. thread[p].task \in Task
      BY <1>1 DEF Place
    <3>5. Len(tasks') = Len(tasks) + 1
      BY <1>11, <2>2, <3>4, TypeFacts, EmplacedKeeps
    <3>6. ASSUME \E q \in Caller : thread'[q].at = "waiting"
          PROVE  Len(tasks') + Cardinality(Locking') + Announced' >= Capacity
      <4>1. \E q \in Caller : thread[q].at = "waiting"
        BY <3>1, <3>6
      <4>2. Len(tasks) + Cardinality(Locking) + Announced >= Capacity
        BY <4>1 DEF RoomInv
      <4>3. QED
        BY <1>1, <2>1, <3>3, <3>5, <4>2, LockingType
    <3>7. QED
      BY <3>6 DEF RoomInv
  <2>3. CASE Len(tasks) >= Capacity /\ UNCHANGED tasks
    <3>1. Locking' \in SUBSET Caller /\ IsFiniteSet(Caller)
      BY ThreadAssumption, FS_AddElement DEF Caller, Locking
    <3>2. Cardinality(Locking') \in Nat
      BY <3>1, FS_Subset, FS_CardinalityType
    <3>3. Capacity \in Nat
      BY WorkerAssumption
    <3>4. Len(tasks') + Cardinality(Locking') + Announced' >= Capacity
      BY <1>1, <2>1, <2>3, <3>2, <3>3
    <3>5. QED
      BY <3>4 DEF RoomInv
  <2>4. QED
    BY <1>11, <2>2, <2>3 DEF Lock
<1>12. ASSUME NEW p \in Caller, NotifyFilled(p)
       PROVE  RoomInv'
  <2>1. tasks' = tasks /\ thread[p].at = "notifying"
    BY <1>12 DEF NotifyFilled
  <2>2. worker = "notifying" => worker' = "notifying"
    BY <1>12 DEF NotifyFilled, Asleep
  <2>3. thread'[p].at \in {"joining", "out"} /\ \A q \in Caller \ {p} : thread'[q] = thread[q]
    BY <1>3, <1>12 DEF NotifyFilled
  <2>4. QED
    BY <1>2, <2>1, <2>2, <2>3
<1>13. CASE Destroy
  <2>1. Owner \in Caller /\ thread'[Owner].at = "locking" /\ \A q \in Caller \ {Owner} : thread'[q] = thread[q]
    BY <1>1, <1>13 DEF Destroy, Caller, At
  <2>2. QED
    BY <1>2, <1>13, <2>1 DEF Destroy
<1>14. CASE Join
  <2>1. Owner \in Caller /\ thread'[Owner].at = "over" /\ \A q \in Caller \ {Owner} : thread'[q] = thread[q]
    BY <1>3, <1>14 DEF Join, Caller
  <2>2. QED
    BY <1>2, <1>14, <2>1 DEF Join
<1>15. ASSUME NEW delay \in Delay, ScheduleFromTask(delay)
       PROVE  RoomInv'
  <2>1. UNCHANGED thread /\ worker = "running"
    BY <1>15 DEF ScheduleFromTask
  <2>2. CASE tasks' = tasks
    BY <1>2, <2>1, <2>2
  <2>3. CASE UNCHANGED worker /\ tasks' = Emplaced(tasks, NewTask(calls + 1, Self, delay, TRUE))
    <3>1. NewTask(calls + 1, Self, delay, TRUE) \in Task
      <4>1. /\ calls + 1 \in 0 .. MaxTasks + 1 /\ now \in Nat /\ delay \in Nat
            /\ now + delay <= MaxTime
        <5>1. calls < MaxTasks /\ now + delay <= MaxTime
          BY <1>15 DEF ScheduleFromTask
        <5>2. QED
          BY <5>1, TypeFacts, WorkerAssumption
      <4>2. QED
        BY <4>1, NewTaskType
    <3>2. Len(tasks') = Len(tasks) + 1
      BY <1>15, <2>3, <3>1, TypeFacts, EmplacedKeeps
    <3>3. Announced' = Announced
      BY <2>3 DEF Announced
    <3>4. Len(tasks) + Announced <= Len(tasks') + Announced'
      BY <1>1, <3>2, <3>3
    <3>5. Locking \subseteq Locking'
      BY <2>1 DEF Locking
    <3>6. QED
      BY <1>1, <2>1, <3>4, <3>5, RoomKept
  <2>4. QED
    BY <1>15, <2>2, <2>3 DEF ScheduleFromTask
<1>16. CASE UNCHANGED vars
  BY <1>2, <1>16 DEF vars
<1>17. QED
  BY <1>4, <1>5, <1>6, <1>7, <1>8, <1>9, <1>10, <1>11, <1>12, <1>13, <1>14, <1>15, <1>16
  DEF Next, Run, Calls

LEMMA WakeStep ==
  ASSUME TypeOK, Sorted(tasks), WakeInv, [Next]_vars
  PROVE  WakeInv'
<1>1. thread \in [Caller -> Place]
  BY TypeFacts
<1>2. ASSUME worker' \notin {"idle", "sleeping"}
      PROVE  WakeInv'
  BY <1>2 DEF WakeInv
<1>3. ASSUME worker' = worker, tasks' = tasks, until' = until,
             \A p \in Caller : thread[p].at = "notifying" => thread'[p].at = "notifying"
      PROVE  WakeInv'
  BY <1>3 DEF WakeInv
<1>4. ASSUME NEW p \in Caller, thread'[p].at = "notifying",
             worker' = "sleeping" => tasks' # <<>>
      PROVE  WakeInv'
  BY <1>4 DEF WakeInv
<1>5. ASSUME NEW p \in Caller,
             NEW place \in {"out", "locking", "waiting", "notifying", "joining", "over"},
             Move(p, place)
      PROVE  thread'[p].at = place /\ \A q \in Caller \ {p} : thread'[q] = thread[q]
  BY <1>1, <1>5, Moved
<1>6. CASE Tick
  BY <1>3, <1>6 DEF Tick
<1>7. CASE GetNextTask
  <2>1. CASE worker' = "idle"
    BY <1>7, <2>1 DEF GetNextTask, WakeInv
  <2>2. CASE worker' = "sleeping"
    <3>1. tasks' = tasks /\ tasks # <<>> /\ until' = Head(tasks).at
      BY <1>7, <2>2 DEF GetNextTask
    <3>2. Head(tasks').at \in Nat
      BY <3>1, TypeFacts, TaskFields, HeadTailProperties
    <3>3. QED
      BY <2>2, <3>1, <3>2 DEF WakeInv
  <2>3. QED
    BY <1>2, <1>7, <2>1, <2>2 DEF GetNextTask
<1>8. CASE NotifyEmptied
  BY <1>2, <1>8 DEF NotifyEmptied
<1>9. CASE RunTask
  BY <1>2, <1>9 DEF RunTask
<1>10. CASE WakeUp
  BY <1>2, <1>10 DEF WakeUp
<1>11. ASSUME NEW p \in Producer, NEW delay \in Delay, NEW must \in BOOLEAN,
              Call(p, delay, must)
       PROVE  WakeInv'
  <2>1. p \in Caller /\ \A q \in Caller \ {p} : thread'[q] = thread[q]
    BY <1>1, <1>11 DEF Call, Caller
  <2>2. QED
    BY <1>3, <1>11, <2>1 DEF Call
<1>12. ASSUME NEW p \in Producer, SpuriousWakeup(p)
       PROVE  WakeInv'
  <2>1. p \in Caller /\ \A q \in Caller \ {p} : thread'[q] = thread[q]
    BY <1>5, <1>12 DEF SpuriousWakeup, Caller
  <2>2. QED
    BY <1>3, <1>12, <2>1 DEF SpuriousWakeup
<1>13. ASSUME NEW p \in Caller, Lock(p)
       PROVE  WakeInv'
  <2>1. CASE tasks' = Emplaced(tasks, thread[p].task) /\ Move(p, "notifying")
    <3>1. thread'[p].at = "notifying"
      BY <1>5, <2>1
    <3>2. thread[p].task \in Task
      BY <1>1 DEF Place
    <3>3. tasks' \in Seq(Task) /\ Len(tasks') = Len(tasks) + 1 /\ Len(tasks) \in Nat
      BY <2>1, <3>2, TypeFacts, EmplacedKeeps
    <3>4. tasks' # <<>>
      BY <3>3
    <3>5. QED
      BY <1>4, <3>1, <3>4
  <2>2. CASE UNCHANGED tasks /\ Move(p, IF thread[p].task.must THEN "waiting" ELSE "out")
    <3>1. PICK place \in {"waiting", "out"} : Move(p, place)
      BY <2>2
    <3>2. \A q \in Caller \ {p} : thread'[q] = thread[q]
      BY <1>5, <3>1
    <3>3. thread[p].at = "locking" /\ worker' = worker /\ until' = until
      BY <1>13 DEF Lock
    <3>4. QED
      BY <1>3, <2>2, <3>2, <3>3
  <2>3. QED
    BY <1>13, <2>1, <2>2 DEF Lock
<1>14. ASSUME NEW p \in Caller, NotifyFilled(p)
       PROVE  WakeInv'
  <2>1. worker' \notin {"idle", "sleeping"}
    BY <1>14 DEF NotifyFilled, Asleep
  <2>2. QED
    BY <1>2, <2>1
<1>15. CASE Destroy
  <2>1. Owner \in Caller /\ \A q \in Caller \ {Owner} : thread'[q] = thread[q]
    BY <1>1, <1>15 DEF Destroy, Caller
  <2>2. QED
    BY <1>3, <1>15, <2>1 DEF Destroy
<1>16. CASE Join
  <2>1. Owner \in Caller /\ \A q \in Caller \ {Owner} : thread'[q] = thread[q]
    BY <1>5, <1>16 DEF Join, Caller
  <2>2. QED
    BY <1>3, <1>16, <2>1 DEF Join
<1>17. ASSUME NEW delay \in Delay, ScheduleFromTask(delay)
       PROVE  WakeInv'
  <2>1. worker' \in {"running", "stuck"}
    BY <1>17 DEF ScheduleFromTask
  <2>2. QED
    BY <1>2, <2>1
<1>18. CASE UNCHANGED vars
  BY <1>3, <1>18 DEF vars
<1>19. QED
  BY <1>6, <1>7, <1>8, <1>9, <1>10, <1>11, <1>12, <1>13, <1>14, <1>15, <1>16, <1>17, <1>18
  DEF Next, Run, Calls

-----------------------------------------------------------------------------
(* The theorems                                                              *)

LEMMA Inductive ==
  Spec => []IInv
<1>1. ASSUME Init
      PROVE  IInv
  <2>1. TypeOK /\ LineInv
    BY <1>1, TypeInit, LineInit
  <2>2. NotEarly /\ WakeInv
    BY <1>1 DEF Init, NotEarly, WakeInv
  <2>3. RoomInv
    BY <1>1 DEF Init, RoomInv, At
  <2>4. QED
    BY <2>1, <2>2, <2>3 DEF IInv
<1>2. ASSUME IInv, [Next]_vars
      PROVE  IInv'
  <2>1. TypeOK /\ Sorted(tasks) /\ LineInv /\ NotEarly /\ RoomInv /\ WakeInv
    BY <1>2 DEF IInv, LineInv
  <2>2. TypeOK'
    BY <1>2, <2>1, TypeStep
  <2>3. LineInv' /\ RoomInv'
    BY <1>2, <2>1, <2>2, LineStep, RoomStep
  <2>4. NotEarly' /\ WakeInv'
    BY <1>2, <2>1, NotEarlyStep, WakeStep
  <2>5. QED
    BY <2>2, <2>3, <2>4 DEF IInv
<1>3. QED
  BY <1>1, <1>2, PTL DEF Spec

(* TypeOK: threads and queue have the shape the code gives them, and the     *)
(* queue of async::Worker never holds more tasks than its capacity.          *)
THEOREM TypeCorrect ==
  Spec => []TypeOK
<1>1. IInv => TypeOK
  BY DEF IInv
<1>2. QED
  BY <1>1, Inductive, PTL

(***************************************************************************)
(* InTimeAndOrder: GetNextTask returns no task before its time, and what one *)
(* thread schedules first and not later runs first, for any number of       *)
(* threads, any capacity and any delays.                                    *)
(***************************************************************************)
THEOREM TasksRunInTimeAndOrder ==
  Spec => []InTimeAndOrder
<1>1. IInv => InTimeAndOrder
  <2>1. ASSUME Fifo(Line)
        PROVE  FifoPerThread
    BY <2>1 DEF Fifo, Line, Doing, FifoPerThread
  <2>2. QED
    BY <2>1 DEF IInv, LineInv, InTimeAndOrder
<1>2. QED
  BY <1>1, Inductive, PTL

(***************************************************************************)
(* NoLostWakeup: the notify_one of Schedule and that of GetNextTask reach    *)
(* every thread that has something to wake up for, although both are called  *)
(* without the mutex and any thread may run in between.                      *)
(***************************************************************************)
THEOREM WakeupsAreNotLost ==
  Spec => []NoLostWakeup
<1>1. ASSUME IInv
      PROVE  NoLostWakeup
  <2>1. TypeOK /\ WakeInv /\ RoomInv
    BY <1>1 DEF IInv
  <2>2. worker = "idle" /\ tasks # <<>> => \E p \in Caller : thread[p].at = "notifying"
    BY <2>1 DEF WakeInv
  <2>3. worker = "sleeping" /\ Head(tasks).at < until =>
          \E p \in Caller : thread[p].at = "notifying"
    <3>1. ASSUME worker = "sleeping", Head(tasks).at < until, Head(tasks).at >= until
          PROVE  FALSE
      <4>1. Head(tasks).at \in Nat /\ until \in Nat
        <5>1. tasks # <<>>
          BY <2>1, <3>1 DEF WakeInv
        <5>2. until \in 0 .. MaxTime
          BY <2>1 DEF TypeOK
        <5>3. QED
          BY <2>1, <5>1, <5>2, TypeFacts, TaskFields, HeadTailProperties
      <4>2. QED
        BY <3>1, <4>1
    <3>2. QED
      BY <2>1, <3>1 DEF WakeInv
  <2>4. ASSUME \E p \in Caller : thread[p].at = "waiting", Len(tasks) < Capacity,
               worker # "notifying", \A p \in Caller : thread[p].at # "locking"
        PROVE  FALSE
    <3>1. Locking = {} /\ Announced = 0
      BY <2>4 DEF Locking, Announced
    <3>2. Cardinality(Locking) = 0
      BY <3>1, FS_EmptySet
    <3>3. Len(tasks) + 0 + 0 >= Capacity
      BY <2>1, <2>4, <3>1, <3>2 DEF RoomInv
    <3>4. Len(tasks) \in Nat /\ Capacity \in Nat
      BY <2>1, TypeFacts, WorkerAssumption
    <3>5. QED
      BY <2>4, <3>3, <3>4
  <2>5. QED
    BY <2>2, <2>3, <2>4 DEF NoLostWakeup
<1>2. QED
  BY <1>1, Inductive, PTL
=============================================================================
