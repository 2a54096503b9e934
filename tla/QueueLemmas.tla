------------------------------- MODULE QueueLemmas -------------------------------
(***************************************************************************)
(* What the queue operations of both kernels do to a queue: inserting      *)
(* before the first element that comes later, and taking an element out.   *)
(* The proofs of OsekAlarm and of JspKernel rest on these lemmas.          *)
(***************************************************************************)
EXTENDS Integers, Sequences, SequencesExt, SequenceTheorems, WellFoundedInduction, TLAPS

Elements(q)    == {q[i] : i \in 1 .. Len(q)}
Distinct(q)    == \A i, j \in 1 .. Len(q) : q[i] = q[j] => i = j
InOrder(q, key) == \A i, j \in 1 .. Len(q) : i < j => key[q[i]] <= key[q[j]]

\* A set of numbers that is not empty has a least one: what an induction over data needs here.
LEMMA LeastNumber ==
  ASSUME NEW S, S \subseteq Nat, S # {}
  PROVE  \E m \in S : \A n \in S : m <= n
<1>1. PICK m \in S : \A n \in S : ~ (<<n, m>> \in OpToRel(<, Nat))
  BY NatLessThanWellFounded, WFMin
<1>2. \A n \in S : ~ (n < m)
  BY <1>1 DEF OpToRel
<1>3. \A n \in S : n \in Nat
  OBVIOUS
<1>4. m \in Nat
  OBVIOUS
<1>5. \A n \in S : m <= n
  BY <1>2, <1>3, <1>4
<1> QED BY <1>5

LEMMA QueueFacts ==
  ASSUME NEW S, NEW q \in Seq(S)
  PROVE  /\ Len(q) \in Nat
         /\ \A i \in 1 .. Len(q) : q[i] \in S
         /\ Elements(q) \subseteq S
         /\ Elements(q) = {} <=> q = << >>
         /\ q # << >> => Len(q) >= 1 /\ Head(q) = q[1] /\ Head(q) \in Elements(q)
BY DEF Elements

LEMMA EmptyQueue == Elements(<< >>) = {} /\ Distinct(<< >>)
BY DEF Elements, Distinct

--------------------------------------------------------------------------------
(* Inserting. *)

LEMMA InsertedElement ==
  ASSUME NEW S, NEW q \in Seq(S), NEW e \in S, NEW i \in 1 .. Len(q) + 1
  PROVE  /\ InsertAt(q, i, e) \in Seq(S) /\ Len(InsertAt(q, i, e)) = Len(q) + 1
         /\ \A j \in 1 .. Len(q) + 1 :
              InsertAt(q, i, e)[j] = IF j < i THEN q[j] ELSE IF j = i THEN e ELSE q[j - 1]
<1>0. PICK x, y, z : x = SubSeq(q, 1, i - 1) /\ y = SubSeq(q, i, Len(q)) /\ z = x \o <<e>>
  OBVIOUS
<1>1. Len(q) \in Nat /\ i \in Nat /\ i >= 1 /\ i <= Len(q) + 1
  OBVIOUS
<1>2. x \in Seq(S) /\ Len(x) = i - 1 /\ \A j \in 1 .. i - 1 : x[j] = q[j]
  BY <1>0
<1>3. y \in Seq(S) /\ Len(y) = Len(q) - i + 1 /\ \A j \in 1 .. Len(q) - i + 1 : y[j] = q[i + j - 1]
  BY <1>0
<1>4. z \in Seq(S) /\ Len(z) = i /\ z[i] = e /\ \A j \in 1 .. i - 1 : z[j] = q[j]
  BY <1>0, <1>2
<1>5. PICK p : p = z \o y
  OBVIOUS
<1>6. /\ p \in Seq(S) /\ Len(p) = Len(z) + Len(y)
      /\ \A j \in 1 .. Len(z) + Len(y) : p[j] = IF j <= Len(z) THEN z[j] ELSE y[j - Len(z)]
  <2>1. z \in Seq(S) /\ y \in Seq(S)
    BY <1>3, <1>4
  <2> QED BY <2>1, <1>5, ConcatProperties
<1>7. Len(p) = Len(q) + 1
  BY <1>1, <1>3, <1>4, <1>6
<1>8. \A j \in 1 .. Len(p) : p[j] = IF j <= i THEN z[j] ELSE y[j - i]
  BY <1>4, <1>6
<1>9. ASSUME NEW j \in i + 1 .. Len(p) PROVE y[j - i] = q[j - 1]
  <2>1. j - i \in 1 .. Len(q) - i + 1 /\ i + (j - i) - 1 = j - 1
    BY <1>1, <1>7
  <2> QED BY <2>1, <1>3
<1>10. ASSUME NEW j \in 1 .. Len(p)
       PROVE  p[j] = IF j < i THEN q[j] ELSE IF j = i THEN e ELSE q[j - 1]
  <2>1. CASE j < i
    BY <1>1, <1>4, <1>8, <2>1
  <2>2. CASE j = i
    BY <1>4, <1>8, <2>2
  <2>3. CASE j > i
    <3>1. j \in i + 1 .. Len(p)
      BY <1>1, <1>7, <2>3
    <3>2. p[j] = y[j - i]
      BY <1>1, <1>8, <2>3
    <3> QED BY <1>1, <1>9, <2>3, <3>1, <3>2
  <2> QED BY <1>1, <2>1, <2>2, <2>3
<1> QED BY <1>0, <1>5, <1>6, <1>7, <1>10 DEF InsertAt

LEMMA InsertedSet ==
  ASSUME NEW S, NEW q \in Seq(S), NEW e \in S, NEW i \in 1 .. Len(q) + 1
  PROVE  /\ Elements(InsertAt(q, i, e)) = Elements(q) \cup {e}
         /\ Distinct(q) /\ e \notin Elements(q) => Distinct(InsertAt(q, i, e))
<1>1. Len(q) \in Nat /\ i \in Nat /\ i >= 1 /\ i <= Len(q) + 1
  OBVIOUS
<1>2. PICK p : /\ p = InsertAt(q, i, e) /\ Len(p) = Len(q) + 1
               /\ \A j \in 1 .. Len(p) :
                    p[j] = IF j < i THEN q[j] ELSE IF j = i THEN e ELSE q[j - 1]
  BY InsertedElement
<1>3. ASSUME NEW j \in 1 .. Len(p) PROVE p[j] \in Elements(q) \cup {e}
  <2>1. j < i => j \in 1 .. Len(q)
    BY <1>1, <1>2
  <2>2. j > i => j - 1 \in 1 .. Len(q)
    BY <1>1, <1>2
  <2> QED BY <1>1, <1>2, <2>1, <2>2 DEF Elements
<1>4. e \in Elements(p)
  BY <1>1, <1>2 DEF Elements
<1>5. ASSUME NEW j \in 1 .. Len(q) PROVE q[j] \in Elements(p)
  <2>1. CASE j < i
    BY <1>1, <1>2, <2>1 DEF Elements
  <2>2. CASE j >= i
    <3>1. j + 1 \in 1 .. Len(p) /\ p[j + 1] = q[j]
      BY <1>1, <1>2, <2>2
    <3> QED BY <3>1 DEF Elements
  <2> QED BY <1>1, <2>1, <2>2
<1>6. Elements(p) = Elements(q) \cup {e}
  BY <1>3, <1>4, <1>5 DEF Elements
<1>7. ASSUME Distinct(q), e \notin Elements(q), NEW j \in 1 .. Len(p), NEW k \in 1 .. Len(p), j < k
      PROVE  p[j] # p[k]
  <2>1. \A n \in 1 .. Len(q) : q[n] # e
    BY <1>7 DEF Elements
  <2>2. k < i => j \in 1 .. Len(q) /\ k \in 1 .. Len(q)
    BY <1>1, <1>2, <1>7
  <2>3. k = i => j \in 1 .. Len(q)
    BY <1>1, <1>2, <1>7
  <2>4. CASE k < i
    BY <1>1, <1>2, <1>7, <2>2, <2>4 DEF Distinct
  <2>5. CASE k = i
    BY <1>1, <1>2, <1>7, <2>1, <2>3, <2>5
  <2>6. CASE k > i /\ j = i
    <3>1. p[j] = e /\ p[k] = q[k - 1] /\ k - 1 \in 1 .. Len(q)
      BY <1>1, <1>2, <2>6
    <3> QED BY <2>1, <3>1
  <2>7. CASE k > i /\ j < i
    <3>1. p[j] = q[j] /\ p[k] = q[k - 1] /\ j \in 1 .. Len(q) /\ k - 1 \in 1 .. Len(q) /\ j # k - 1
      BY <1>1, <1>2, <2>7
    <3> QED BY <1>7, <3>1 DEF Distinct
  <2>8. CASE k > i /\ j > i
    <3>1. p[j] = q[j - 1] /\ p[k] = q[k - 1] /\ j - 1 \in 1 .. Len(q) /\ k - 1 \in 1 .. Len(q)
          /\ j - 1 # k - 1
      BY <1>1, <1>2, <1>7, <2>8
    <3> QED BY <1>7, <3>1 DEF Distinct
  <2> QED BY <1>1, <1>2, <2>4, <2>5, <2>6, <2>7, <2>8
<1>8. Distinct(q) /\ e \notin Elements(q) => Distinct(p)
  <2>1. ASSUME Distinct(q), e \notin Elements(q), NEW j \in 1 .. Len(p), NEW k \in 1 .. Len(p), j # k
        PROVE  p[j] # p[k]
    <3>1. CASE j < k
      BY <2>1, <3>1, <1>7
    <3>2. CASE k < j
      BY <2>1, <3>2, <1>7
    <3> QED BY <2>1, <3>1, <3>2, <1>2, <1>1
  <2> QED BY <2>1 DEF Distinct
<1> QED BY <1>2, <1>6, <1>8

\* Where a search from the head of a queue stops that goes past the places of a set.
LEMMA StopsAt ==
  ASSUME NEW S, NEW q \in Seq(S), NEW past, past \subseteq 1 .. Len(q),
         NEW at, at = CHOOSE i \in 1 .. Len(q) + 1 : i \notin past /\ \A j \in 1 .. i - 1 : j \in past
  PROVE  at \in 1 .. Len(q) + 1 /\ at \notin past /\ \A j \in 1 .. at - 1 : j \in past
<1>1. PICK rest : rest = (1 .. Len(q) + 1) \ past
  OBVIOUS
<1>2. Len(q) \in Nat
  OBVIOUS
<1>3. rest \subseteq Nat /\ Len(q) + 1 \in rest
  BY <1>1, <1>2
<1>4. PICK i \in rest : \A j \in rest : i <= j
  BY <1>3, LeastNumber
<1>5. i \in 1 .. Len(q) + 1 /\ i \notin past
  BY <1>1
<1>6. ASSUME NEW j \in 1 .. i - 1 PROVE j \in past
  <2>1. j \in 1 .. Len(q) + 1 /\ ~ (i <= j)
    BY <1>2, <1>5
  <2> QED BY <2>1, <1>1, <1>4
<1>7. \E n \in 1 .. Len(q) + 1 : n \notin past /\ \A j \in 1 .. n - 1 : j \in past
  BY <1>5, <1>6
<1> QED BY <1>7

\* Inserted after the last of those that come no later, the queue stays in order.
LEMMA InsertedInOrder ==
  ASSUME NEW S, NEW q \in Seq(S), NEW e \in S, NEW i \in 1 .. Len(q) + 1,
         NEW key \in [S -> Int], InOrder(q, key),
         \A j \in 1 .. i - 1 : key[q[j]] <= key[e],
         i \in 1 .. Len(q) => key[e] <= key[q[i]]
  PROVE  InOrder(InsertAt(q, i, e), key)
<1>1. Len(q) \in Nat /\ i \in Nat /\ i >= 1 /\ i <= Len(q) + 1
  OBVIOUS
<1>2. PICK p : /\ p = InsertAt(q, i, e) /\ Len(p) = Len(q) + 1
               /\ \A j \in 1 .. Len(p) :
                    p[j] = IF j < i THEN q[j] ELSE IF j = i THEN e ELSE q[j - 1]
  BY InsertedElement
<1>3. \A j \in 1 .. Len(q) : q[j] \in S /\ key[q[j]] \in Int
  BY QueueFacts
<1>4. key[e] \in Int
  OBVIOUS
<1>5. ASSUME NEW j \in i .. Len(q) PROVE key[e] <= key[q[j]]
  <2>1. i \in 1 .. Len(q) /\ j \in 1 .. Len(q) /\ (i = j \/ i < j)
    BY <1>1
  <2>2. key[q[i]] <= key[q[j]]
    BY <1>3, <2>1 DEF InOrder
  <2> QED BY <1>3, <1>4, <2>1, <2>2
<1>6. ASSUME NEW j \in 1 .. Len(p), NEW k \in 1 .. Len(p), j < k
      PROVE  key[p[j]] <= key[p[k]]
  <2>1. CASE k < i
    <3>1. j \in 1 .. Len(q) /\ k \in 1 .. Len(q) /\ p[j] = q[j] /\ p[k] = q[k]
      BY <1>1, <1>2, <1>6, <2>1
    <3> QED BY <3>1, <1>6 DEF InOrder
  <2>2. CASE k = i
    <3>1. j \in 1 .. i - 1 /\ p[j] = q[j] /\ p[k] = e
      BY <1>1, <1>2, <1>6, <2>2
    <3> QED BY <3>1
  <2>3. CASE k > i /\ j = i
    <3>1. k - 1 \in i .. Len(q) /\ p[k] = q[k - 1] /\ p[j] = e
      BY <1>1, <1>2, <2>3
    <3> QED BY <3>1, <1>5
  <2>4. CASE k > i /\ j < i
    <3>1. /\ k - 1 \in i .. Len(q) /\ p[k] = q[k - 1] /\ k - 1 \in 1 .. Len(q)
          /\ j \in 1 .. i - 1 /\ p[j] = q[j] /\ j \in 1 .. Len(q)
      BY <1>1, <1>2, <2>4
    <3>2. key[q[j]] <= key[e] /\ key[e] <= key[q[k - 1]]
      BY <3>1, <1>5
    <3> QED BY <1>3, <1>4, <3>1, <3>2
  <2>5. CASE k > i /\ j > i
    <3>1. /\ k - 1 \in 1 .. Len(q) /\ p[k] = q[k - 1]
          /\ j - 1 \in 1 .. Len(q) /\ p[j] = q[j - 1] /\ j - 1 < k - 1
      BY <1>1, <1>2, <1>6, <2>5
    <3> QED BY <3>1 DEF InOrder
  <2> QED BY <1>1, <1>2, <2>1, <2>2, <2>3, <2>4, <2>5
<1> QED BY <1>2, <1>6 DEF InOrder

--------------------------------------------------------------------------------
(* Taking out. *)

LEMMA TakenOut ==
  ASSUME NEW S, NEW q \in Seq(S), NEW i \in 1 .. Len(q)
  PROVE  /\ RemoveAt(q, i) \in Seq(S) /\ Len(RemoveAt(q, i)) = Len(q) - 1
         /\ \A j \in 1 .. Len(q) - 1 : RemoveAt(q, i)[j] = IF j < i THEN q[j] ELSE q[j + 1]
<1>0. PICK x, y, p : x = SubSeq(q, 1, i - 1) /\ y = SubSeq(q, i + 1, Len(q)) /\ p = x \o y
  OBVIOUS
<1>1. Len(q) \in Nat /\ i \in Nat /\ i >= 1 /\ i <= Len(q)
  OBVIOUS
<1>2. x \in Seq(S) /\ Len(x) = i - 1 /\ \A j \in 1 .. i - 1 : x[j] = q[j]
  BY <1>0
<1>3. y \in Seq(S) /\ Len(y) = Len(q) - i /\ \A j \in 1 .. Len(q) - i : y[j] = q[i + 1 + j - 1]
  BY <1>0
<1>4. /\ p \in Seq(S) /\ Len(p) = Len(x) + Len(y)
      /\ \A j \in 1 .. Len(x) + Len(y) : p[j] = IF j <= Len(x) THEN x[j] ELSE y[j - Len(x)]
  <2>1. x \in Seq(S) /\ y \in Seq(S)
    BY <1>2, <1>3
  <2> QED BY <2>1, <1>0, ConcatProperties
<1>5. Len(p) = Len(q) - 1
  BY <1>1, <1>2, <1>3, <1>4
<1>6. \A j \in 1 .. Len(p) : p[j] = IF j <= i - 1 THEN x[j] ELSE y[j - (i - 1)]
  BY <1>2, <1>4
<1>7. ASSUME NEW j \in i .. Len(p) PROVE y[j - (i - 1)] = q[j + 1]
  <2>1. j - (i - 1) \in 1 .. Len(q) - i /\ i + 1 + (j - (i - 1)) - 1 = j + 1
    BY <1>1, <1>5
  <2> QED BY <2>1, <1>3
<1>8. \A j \in 1 .. Len(p) : p[j] = IF j < i THEN q[j] ELSE q[j + 1]
  BY <1>1, <1>2, <1>5, <1>6, <1>7
<1> QED BY <1>0, <1>4, <1>5, <1>8 DEF RemoveAt

LEMMA RemovedElement ==
  ASSUME NEW S, NEW q \in Seq(S), Distinct(q), NEW e \in Elements(q)
  PROVE  \E i \in 1 .. Len(q) : q[i] = e /\ RemoveFirst(q, e) = RemoveAt(q, i)
<1>1. PICK i \in 1 .. Len(q) : q[i] = e
  BY DEF Elements
<1>2. \A n \in 1 .. Len(q) : q[n] = e => n = i
  BY <1>1 DEF Distinct
<1>3. PICK I : I = {n \in 1 .. Len(q) : q[n] = e}
  OBVIOUS
<1>4. I = {i}
  BY <1>1, <1>2, <1>3
<1>5. (CHOOSE x \in I : \A y \in I : x <= y) = i
  BY <1>4
<1>6. Min(I) = i
  BY <1>5 DEF Min
<1>7. SelectInSeq(q, LAMBDA v : v = e) = IF I # {} THEN Min(I) ELSE 0
  BY <1>3 DEF SelectInSeq
<1>8. SelectInSeq(q, LAMBDA v : v = e) = i
  BY <1>4, <1>6, <1>7
<1> QED BY <1>1, <1>8 DEF RemoveFirst

LEMMA NothingRemoved ==
  ASSUME NEW S, NEW q \in Seq(S), NEW e, e \notin Elements(q)
  PROVE  RemoveFirst(q, e) = q
BY DEF Elements, RemoveFirst

\* An element taken out of a queue, or its head, leaves the others in their order.
LEMMA TakenOutSet ==
  ASSUME NEW S, NEW q \in Seq(S), Distinct(q), NEW i \in 1 .. Len(q)
  PROVE  /\ Elements(RemoveAt(q, i)) = Elements(q) \ {q[i]}
         /\ Distinct(RemoveAt(q, i))
         /\ \A key \in [S -> Int] : InOrder(q, key) => InOrder(RemoveAt(q, i), key)
<1>1. Len(q) \in Nat /\ i \in Nat /\ i >= 1 /\ i <= Len(q)
  OBVIOUS
<1>2. PICK p : /\ p = RemoveAt(q, i) /\ Len(p) = Len(q) - 1
               /\ \A j \in 1 .. Len(p) : p[j] = IF j < i THEN q[j] ELSE q[j + 1]
  BY TakenOut
<1>3. \A j \in 1 .. Len(p) : \E n \in 1 .. Len(q) : n # i /\ p[j] = q[n] /\ (n = j \/ n = j + 1)
                                                   /\ (n = j <=> j < i)
  <2>1. ASSUME NEW j \in 1 .. Len(p), j < i
        PROVE  j \in 1 .. Len(q) /\ j # i /\ p[j] = q[j]
    BY <1>1, <1>2, <2>1
  <2>2. ASSUME NEW j \in 1 .. Len(p), j >= i
        PROVE  j + 1 \in 1 .. Len(q) /\ j + 1 # i /\ p[j] = q[j + 1] /\ j + 1 # j
    BY <1>1, <1>2, <2>2
  <2> QED BY <1>1, <1>2, <2>1, <2>2
<1>4. ASSUME NEW n \in 1 .. Len(q), n # i PROVE q[n] \in Elements(p)
  <2>1. CASE n < i
    BY <1>1, <1>2, <2>1 DEF Elements
  <2>2. CASE n > i
    <3>1. n - 1 \in 1 .. Len(p) /\ p[n - 1] = q[n]
      BY <1>1, <1>2, <2>2
    <3> QED BY <3>1 DEF Elements
  <2> QED BY <1>1, <1>4, <2>1, <2>2
<1>5. Elements(p) = Elements(q) \ {q[i]}
  BY <1>3, <1>4 DEF Elements, Distinct
<1>6. ASSUME NEW j \in 1 .. Len(p), NEW k \in 1 .. Len(p), j < k
      PROVE  \E m, n \in 1 .. Len(q) : m < n /\ p[j] = q[m] /\ p[k] = q[n]
  <2>1. PICK m \in 1 .. Len(q) : p[j] = q[m] /\ (m = j \/ m = j + 1) /\ (m = j <=> j < i)
    BY <1>3
  <2>2. PICK n \in 1 .. Len(q) : p[k] = q[n] /\ (n = k \/ n = k + 1) /\ (n = k <=> k < i)
    BY <1>3
  <2>3. m < n
    BY <1>1, <1>2, <1>6, <2>1, <2>2
  <2> QED BY <2>1, <2>2, <2>3
<1>7. ASSUME NEW key \in [S -> Int], InOrder(q, key) PROVE InOrder(p, key)
  <2>1. ASSUME NEW j \in 1 .. Len(p), NEW k \in 1 .. Len(p), j < k PROVE key[p[j]] <= key[p[k]]
    <3>1. PICK m, n \in 1 .. Len(q) : m < n /\ p[j] = q[m] /\ p[k] = q[n]
      BY <1>6, <2>1
    <3>2. key[q[m]] <= key[q[n]]
      BY <1>7, <3>1 DEF InOrder
    <3> QED BY <3>1, <3>2
  <2> QED BY <2>1 DEF InOrder
<1>8. Distinct(p)
  <2>1. ASSUME NEW j \in 1 .. Len(p), NEW k \in 1 .. Len(p), j < k PROVE p[j] # p[k]
    BY <1>1, <1>6, <2>1 DEF Distinct
  <2> QED BY <1>1, <1>2, <2>1 DEF Distinct
<1> QED BY <1>2, <1>5, <1>7, <1>8

LEMMA HeadTakenOut ==
  ASSUME NEW S, NEW q \in Seq(S), q # << >>
  PROVE  1 \in 1 .. Len(q) /\ Tail(q) = RemoveAt(q, 1)
<1>1. Len(q) \in Nat /\ Len(q) >= 1
  OBVIOUS
<1>2. RemoveAt(q, 1) \in Seq(S) /\ Len(RemoveAt(q, 1)) = Len(q) - 1
      /\ \A j \in 1 .. Len(q) - 1 : RemoveAt(q, 1)[j] = q[j + 1]
  BY <1>1, TakenOut
<1>3. Tail(q) \in Seq(S) /\ Len(Tail(q)) = Len(q) - 1
      /\ \A j \in 1 .. Len(q) - 1 : Tail(q)[j] = q[j + 1]
  BY <1>1
<1> QED BY <1>1, <1>2, <1>3

================================================================================
