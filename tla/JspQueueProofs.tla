---------------------------- MODULE JspQueueProofs -----------------------------
(***************************************************************************)
(* The functions inside of the TOPPERS/JSP kernel, for any number of       *)
(* tasks, priorities and handlers, and heaps and queues of every size:     *)
(* time_event.c, task.c and wait.c, and the services that chain them.      *)
(*                                                                         *)
(* The heap of time events: insert and delete change exactly one event,    *)
(* leave the others' blocks with their new places, and keep every event    *)
(* behind the one above it. A hole moves through the heap along a path and *)
(* is filled at its end: the path exists (the recursion goes to ever       *)
(* smaller or ever larger places), the filled heap holds what it should,   *)
(* and it is in order since the path goes past just the nodes that must    *)
(* move.                                                                   *)
(*                                                                         *)
(* The queues of tasks: each function keeps the ready queues, the wait     *)
(* queues, the heap and the states of the tasks in agreement (Sound), but  *)
(* for the task it is called for: Mid says that everything fits but for    *)
(* one task, as it is in the middle of a service.  The services of         *)
(* semaphore.c to mempfix.c, task_manage.c and task_sync.c lead from Sound *)
(* to Sound, and ask for a dispatch when the task that should run changes. *)
(***************************************************************************)
EXTENDS JspKernel, QueueLemmas, FiniteSetTheorems, TLAPS

--------------------------------------------------------------------------------
(* The places a hole passes through: a recursive path function exists, and what it yields. *)

\* One entry of the places a hole passes through, given those that follow.
PathFrom(stop, succ, f, i) == IF i \in stop THEN <<i>> ELSE <<i>> \o f[succ[i]]

\* The hole starts at i, goes on from every place but the last, and never comes back.
IsPath(P, i, N, stop, succ, rank) ==
  /\ P \in Seq(1 .. N) /\ Len(P) >= 1 /\ P[1] = i
  /\ \A j \in 1 .. Len(P) - 1 : P[j] \notin stop /\ P[j + 1] = succ[P[j]]
  /\ P[Len(P)] \in stop
  /\ \A a, b \in 1 .. Len(P) : a < b => rank[P[b]] < rank[P[a]]

LEMMA PathDefined ==
  ASSUME NEW N \in Nat, NEW stop, NEW succ, NEW top \in Nat, NEW rank \in [1 .. N -> 0 .. top],
         \A i \in 1 .. N : i \notin stop => succ[i] \in 1 .. N /\ rank[succ[i]] < rank[i]
  PROVE  \E f : f = [i \in 1 .. N |-> PathFrom(stop, succ, f, i)]
<1> DEFINE D == 1 .. N
           solves(g, n) == \A i \in D : rank[i] < n => g[i] = PathFrom(stop, succ, g, i)
           bad == {n \in Nat : ~ \E g : g = [i \in D |-> g[i]] /\ solves(g, n)}
<1>0. \A i \in D : rank[i] \in Nat /\ rank[i] <= top
  OBVIOUS
<1>1. bad = {}
  <2>1. SUFFICES ASSUME bad # {} PROVE FALSE
    OBVIOUS
  <2>2. bad \subseteq Nat
    OBVIOUS
  <2>3. PICK n \in bad : \A m \in bad : n <= m
    <3> HIDE DEF bad
    <3> QED BY <2>1, <2>2, LeastNumber
  <2>4. n \in Nat /\ ~ \E g : g = [i \in D |-> g[i]] /\ solves(g, n)
    BY <2>3
  <2>5. CASE n = 0
    <3>1. PICK g : g = [i \in D |-> << >>]
      OBVIOUS
    <3>2. g = [i \in D |-> g[i]] /\ solves(g, n)
      BY <1>0, <2>5, <3>1
    <3> QED BY <2>4, <3>2
  <2>6. CASE n # 0
    <3>1. n - 1 \in Nat /\ ~ (n <= n - 1)
      BY <2>4, <2>6
    <3>2. n - 1 \notin bad
      BY <2>3, <3>1
    <3>3. PICK g : g = [i \in D |-> g[i]] /\ solves(g, n - 1)
      BY <3>1, <3>2
    <3>4. PICK r : r = [i \in D |-> IF rank[i] < n - 1 THEN g[i] ELSE PathFrom(stop, succ, g, i)]
      OBVIOUS
    <3>5. r = [i \in D |-> r[i]]
      BY <3>4
    <3>6. ASSUME NEW i \in D, rank[i] < n PROVE r[i] = PathFrom(stop, succ, r, i)
      <4>1. PathFrom(stop, succ, r, i) = PathFrom(stop, succ, g, i)
        <5>1. CASE i \in stop
          BY <5>1 DEF PathFrom
        <5>2. CASE i \notin stop
          <6>1. succ[i] \in D /\ rank[succ[i]] < n - 1
            BY <1>0, <2>4, <3>6, <5>2
          <6>2. r[succ[i]] = g[succ[i]]
            BY <3>4, <6>1
          <6> QED BY <5>2, <6>2 DEF PathFrom
        <5> QED BY <5>1, <5>2
      <4>2. r[i] = PathFrom(stop, succ, g, i)
        BY <3>3, <3>4
      <4> QED BY <4>1, <4>2
    <3> QED BY <2>4, <3>5, <3>6
  <2> QED BY <2>5, <2>6
<1>2. PICK f : f = [i \in D |-> f[i]] /\ solves(f, top + 1)
  <2> HIDE DEF solves
  <2> QED BY <1>1
<1>3. \A i \in D : f[i] = PathFrom(stop, succ, f, i)
  BY <1>0, <1>2
<1>4. f = [i \in D |-> PathFrom(stop, succ, f, i)]
  BY <1>2, <1>3
<1> QED BY <1>4

LEMMA Preceded ==
  ASSUME NEW S, NEW q \in Seq(S), NEW e \in S
  PROVE  /\ <<e>> \o q \in Seq(S) /\ Len(<<e>> \o q) = Len(q) + 1 /\ (<<e>> \o q)[1] = e
         /\ \A j \in 1 .. Len(q) + 1 : (<<e>> \o q)[j] = IF j = 1 THEN e ELSE q[j - 1]
OBVIOUS

LEMMA PathLonger ==
  ASSUME NEW N \in Nat, NEW stop, NEW succ, NEW rank \in [1 .. N -> Int],
         NEW i \in 1 .. N, i \notin stop, NEW s \in 1 .. N, s = succ[i], rank[s] < rank[i],
         NEW Q, IsPath(Q, s, N, stop, succ, rank)
  PROVE  IsPath(<<i>> \o Q, i, N, stop, succ, rank)
<1>1. PICK D : D = 1 .. N
  OBVIOUS
<1>2. PICK P : P = <<i>> \o Q
  OBVIOUS
<1>3. /\ Q \in Seq(D) /\ Len(Q) >= 1 /\ Q[1] = s
      /\ \A j \in 1 .. Len(Q) - 1 : Q[j] \notin stop /\ Q[j + 1] = succ[Q[j]]
      /\ Q[Len(Q)] \in stop
      /\ \A a, b \in 1 .. Len(Q) : a < b => rank[Q[b]] < rank[Q[a]]
  BY <1>1 DEF IsPath
<1>4. /\ P \in Seq(D) /\ Len(P) = Len(Q) + 1 /\ P[1] = i /\ Len(Q) \in Nat
      /\ \A j \in 1 .. Len(Q) + 1 : P[j] = IF j = 1 THEN i ELSE Q[j - 1]
  BY <1>1, <1>2, <1>3, Preceded
<1>5. ASSUME NEW j \in 1 .. Len(P) - 1 PROVE P[j] \notin stop /\ P[j + 1] = succ[P[j]]
  <2>1. j \in Nat /\ j >= 1 /\ j <= Len(Q) /\ j \in 1 .. Len(Q) + 1 /\ j + 1 \in 1 .. Len(Q) + 1
    BY <1>4
  <2>2. P[j + 1] = Q[j]
    BY <1>4, <2>1
  <2>3. CASE j = 1
    BY <1>3, <1>4, <2>2, <2>3
  <2>4. CASE j # 1
    <3>1. PICK l : l = j - 1
      OBVIOUS
    <3>2. l \in 1 .. Len(Q) - 1 /\ j = l + 1
      BY <1>4, <2>1, <2>4, <3>1
    <3>3. P[j] = Q[l]
      BY <1>4, <2>1, <2>4, <3>1
    <3>4. Q[l] \notin stop /\ Q[l + 1] = succ[Q[l]]
      BY <1>3, <3>2
    <3> QED BY <2>2, <3>2, <3>3, <3>4
  <2> QED BY <2>3, <2>4
<1>6. P[Len(P)] \in stop
  BY <1>3, <1>4
<1>7. ASSUME NEW j \in 1 .. Len(Q) PROVE Q[j] \in D /\ rank[Q[j]] < rank[i]
  <2>1. Q[j] \in D /\ rank[Q[j]] \in Int /\ rank[i] \in Int /\ rank[s] \in Int
    <3>1. Q[j] \in D
      BY <1>3
    <3>2. rank \in [D -> Int] /\ i \in D /\ s \in D
      BY <1>1
    <3> QED BY <3>1, <3>2
  <2>2. 1 \in 1 .. Len(Q) /\ (j = 1 \/ 1 < j)
    BY <1>3, <1>4
  <2>3. j # 1 => rank[Q[j]] < rank[Q[1]]
    BY <1>3, <2>2
  <2> QED BY <1>3, <2>1, <2>2, <2>3
<1>8. ASSUME NEW a \in 1 .. Len(P), NEW b \in 1 .. Len(P), a < b PROVE rank[P[b]] < rank[P[a]]
  <2>1. PICK l : l = b - 1
    OBVIOUS
  <2>2. l \in 1 .. Len(Q) /\ P[b] = Q[l]
    BY <1>4, <1>8, <2>1
  <2>3. CASE a = 1
    BY <1>4, <1>7, <2>2, <2>3
  <2>4. CASE a # 1
    <3>1. PICK c : c = a - 1
      OBVIOUS
    <3>2. c \in 1 .. Len(Q) /\ P[a] = Q[c] /\ c < l
      BY <1>4, <1>8, <2>1, <2>4, <3>1
    <3> QED BY <1>3, <2>2, <3>2
  <2> QED BY <2>3, <2>4
<1>9. P \in Seq(1 .. N) /\ Len(P) >= 1
  BY <1>1, <1>3, <1>4
<1>10. IsPath(P, i, N, stop, succ, rank)
  BY <1>4, <1>5, <1>6, <1>8, <1>9 DEF IsPath
<1> QED BY <1>2, <1>10

LEMMA PathEnds ==
  ASSUME NEW N \in Nat, NEW stop, NEW succ, NEW rank, NEW i \in 1 .. N, i \in stop
  PROVE  IsPath(<<i>>, i, N, stop, succ, rank)
<1>1. PICK P : P = <<i>>
  OBVIOUS
<1>2. P \in Seq(1 .. N) /\ Len(P) = 1 /\ P[1] = i
  BY <1>1
<1>3. IsPath(P, i, N, stop, succ, rank)
  BY <1>2 DEF IsPath
<1> QED BY <1>1, <1>3

LEMMA PathFacts ==
  ASSUME NEW N \in Nat, NEW stop, NEW succ, NEW top \in Nat, NEW rank \in [1 .. N -> 0 .. top],
         \A i \in 1 .. N : i \notin stop => succ[i] \in 1 .. N /\ rank[succ[i]] < rank[i],
         NEW f, \A i \in 1 .. N : f[i] = PathFrom(stop, succ, f, i)
  PROVE  \A i \in 1 .. N : IsPath(f[i], i, N, stop, succ, rank)
<1> DEFINE good(i) == IsPath(f[i], i, N, stop, succ, rank)
           bad == {n \in Nat : \E i \in 1 .. N : rank[i] = n /\ ~ good(i)}
<1>0. \A i \in 1 .. N : rank[i] \in Nat /\ rank[i] <= top
  OBVIOUS
<1>1. SUFFICES ASSUME bad # {} PROVE FALSE
  BY <1>0
<1>2. PICK n \in bad : \A m \in bad : n <= m
  <2>1. bad \subseteq Nat
    OBVIOUS
  <2> HIDE DEF bad
  <2> QED BY <1>1, <2>1, LeastNumber
<1>3. PICK i \in 1 .. N : rank[i] = n /\ ~ good(i)
  BY <1>2
<1>4. CASE i \in stop
  <2>1. f[i] = <<i>>
    BY <1>4 DEF PathFrom
  <2>2. good(i)
    <3>1. IsPath(<<i>>, i, N, stop, succ, rank)
      BY <1>4, PathEnds
    <3> QED BY <2>1, <3>1
  <2> QED BY <1>3, <2>2
<1>5. CASE i \notin stop
  <2>1. PICK s : s = succ[i]
    OBVIOUS
  <2>2. s \in 1 .. N /\ rank[s] < rank[i] /\ rank[s] \in Nat /\ ~ (n <= rank[s])
    BY <1>0, <1>3, <1>5, <2>1
  <2>3. rank[s] \notin bad
    BY <1>2, <2>2
  <2>4. good(s)
    BY <2>2, <2>3
  <2>5. f[i] = <<i>> \o f[s]
    BY <1>5, <2>1 DEF PathFrom
  <2>6. rank \in [1 .. N -> Int]
    OBVIOUS
  <2>7. good(i)
    <3>1. PICK Q : Q = f[s]
      OBVIOUS
    <3>2. IsPath(Q, s, N, stop, succ, rank)
      BY <2>4, <3>1
    <3>3. IsPath(<<i>> \o Q, i, N, stop, succ, rank)
      BY <1>5, <2>1, <2>2, <2>6, <3>2, PathLonger
    <3> QED BY <2>5, <3>1, <3>3
  <2> QED BY <1>3, <2>7
<1> QED BY <1>4, <1>5

\* The fields of the kernel's state that the time events are kept in.
Clock == {"heap", "index", "current_time", "next_time"}

Injective(P) == \A a, b \in 1 .. Len(P) : P[a] = P[b] => a = b

\* What Fill makes of the heap g when the hole passes through the places P.
Filled(h, g, P, node) ==
  /\ \A i \in 1 .. Len(g) : (\A a \in 1 .. Len(P) : P[a] # i) => h[i] = g[i]
  /\ \A a \in 1 .. Len(P) - 1 : h[P[a]] = g[P[a + 1]]
  /\ h[P[Len(P)]] = node

Reheaped(m, k, S, P, node) ==
  /\ m.heap \in Seq(S) /\ Len(m.heap) = Len(k.heap)
  /\ Filled(m.heap, k.heap, P, node)

LEMMA FillHeap ==
  ASSUME NEW k, Clock \subseteq DOMAIN k, NEW S, k.heap \in Seq(S), NEW node \in S,
         NEW P \in Seq(1 .. Len(k.heap)), Len(P) >= 1, Injective(P),
         NEW m, m = Fill(k, P, node)
  PROVE  Reheaped(m, k, S, P, node)
<1> DEFINE step(i) == CHOOSE n \in 1 .. Len(P) : P[n] = i
           moved   == {i \in DOMAIN k.heap : \E n \in 1 .. Len(P) : P[n] = i}
           into(i) == IF step(i) = Len(P) THEN node ELSE k.heap[P[step(i) + 1]]
<1>1. m.heap = [i \in DOMAIN k.heap |-> IF i \in moved THEN into(i) ELSE k.heap[i]]
  BY DEF Fill, Clock
<1>2. PICK g, N, L : g = k.heap /\ N = Len(k.heap) /\ L = Len(P)
  OBVIOUS
<1>3. /\ g \in Seq(S) /\ DOMAIN g = 1 .. N /\ N \in Nat /\ \A i \in 1 .. N : g[i] \in S
      /\ L \in Nat /\ L >= 1 /\ \A a \in 1 .. L : P[a] \in 1 .. N
  BY <1>2
<1>4. ASSUME NEW a \in 1 .. L PROVE step(P[a]) = a /\ P[a] \in moved
  BY <1>2, <1>3 DEF Injective
<1>5. \A i \in 1 .. N : i \in moved <=> \E a \in 1 .. L : P[a] = i
  BY <1>2, <1>3
<1>6. m.heap = [i \in 1 .. N |-> IF i \in moved THEN into(i) ELSE g[i]]
  BY <1>1, <1>2, <1>3
<1>7. ASSUME NEW a \in 1 .. L PROVE into(P[a]) = IF a = L THEN node ELSE g[P[a + 1]]
  <2>1. step(P[a]) = a
    BY <1>4
  <2> HIDE DEF step
  <2> QED BY <1>2, <2>1
<1> HIDE DEF step, moved, into
<1>8. ASSUME NEW i \in 1 .. N PROVE m.heap[i] \in S
  <2>1. CASE i \in moved
    <3>1. PICK a \in 1 .. L : P[a] = i
      BY <1>5, <2>1
    <3>2. m.heap[i] = into(P[a])
      BY <1>6, <2>1, <3>1
    <3>3. a # L => a + 1 \in 1 .. L
      BY <1>3
    <3> QED BY <1>3, <1>7, <3>2, <3>3
  <2>2. CASE i \notin moved
    BY <1>3, <1>6, <2>2
  <2> QED BY <2>1, <2>2
<1>9. m.heap \in Seq(S) /\ Len(m.heap) = N
  BY <1>3, <1>6, <1>8
<1>10. \A i \in 1 .. N : (\A a \in 1 .. L : P[a] # i) => m.heap[i] = g[i]
  BY <1>5, <1>6
<1>11. \A a \in 1 .. L : m.heap[P[a]] = into(P[a])
  BY <1>3, <1>4, <1>6
<1>12. \A a \in 1 .. L - 1 : m.heap[P[a]] = g[P[a + 1]]
  BY <1>3, <1>7, <1>11
<1>13. m.heap[P[L]] = node
  BY <1>3, <1>7, <1>11
<1>14. Filled(m.heap, k.heap, P, node)
  BY <1>2, <1>10, <1>12, <1>13 DEF Filled
<1> QED BY <1>2, <1>9, <1>14 DEF Reheaped

\* Where the node that is at each place afterwards came from: another place, or 0 if it is the
\* new one.  Every place but the one where the hole began gives its node to exactly one.
Sources(src, h, g, P, node) ==
  /\ src \in [1 .. Len(g) -> 0 .. Len(g)]
  /\ \A i \in 1 .. Len(g) :
       /\ src[i] = 0 => h[i] = node
       /\ src[i] # 0 => src[i] # P[1] /\ h[i] = g[src[i]]
       /\ (\A a \in 1 .. Len(P) : P[a] # i) => src[i] = i
  /\ \A i, j \in 1 .. Len(g) : src[i] = src[j] => i = j
  /\ \A n \in 0 .. Len(g) : n # P[1] => \E i \in 1 .. Len(g) : src[i] = n

LEMMA FillSource ==
  ASSUME NEW k, Clock \subseteq DOMAIN k, NEW S, k.heap \in Seq(S), NEW node \in S,
         NEW P \in Seq(1 .. Len(k.heap)), Len(P) >= 1, Injective(P),
         NEW m, m = Fill(k, P, node)
  PROVE  \E src : Sources(src, m.heap, k.heap, P, node)
<1>1. PICK g, N, L, h : g = k.heap /\ N = Len(k.heap) /\ L = Len(P) /\ h = m.heap
  OBVIOUS
<1>2. /\ N \in Nat /\ L \in Nat /\ L >= 1 /\ \A a \in 1 .. L : P[a] \in 1 .. N
      /\ \A a, b \in 1 .. L : P[a] = P[b] => a = b
  BY <1>1 DEF Injective
<1>3. /\ \A i \in 1 .. N : (\A a \in 1 .. L : P[a] # i) => h[i] = g[i]
      /\ \A a \in 1 .. L - 1 : h[P[a]] = g[P[a + 1]]
      /\ h[P[L]] = node
  <2>1. /\ \A i \in 1 .. Len(k.heap) : (\A a \in 1 .. Len(P) : P[a] # i) => m.heap[i] = k.heap[i]
        /\ \A a \in 1 .. Len(P) - 1 : m.heap[P[a]] = k.heap[P[a + 1]]
        /\ m.heap[P[Len(P)]] = node
    <3>1. Reheaped(m, k, S, P, node)
      BY FillHeap
    <3> QED BY <3>1 DEF Reheaped, Filled
  <2> QED BY <1>1, <2>1
<1> DEFINE from(i) == IF \E a \in 1 .. L : P[a] = i
                      THEN CHOOSE n \in 0 .. N :
                             \E a \in 1 .. L : P[a] = i /\ n = (IF a = L THEN 0 ELSE P[a + 1])
                      ELSE i
           src == [i \in 1 .. N |-> from(i)]
<1>4. ASSUME NEW a \in 1 .. L
      PROVE  src[P[a]] = (IF a = L THEN 0 ELSE P[a + 1]) /\ src[P[a]] \in 0 .. N
  <2>1. PICK n : n = IF a = L THEN 0 ELSE P[a + 1]
    OBVIOUS
  <2>2. n \in 0 .. N
    <3>1. a # L => a + 1 \in 1 .. L
      BY <1>2
    <3> QED BY <1>2, <2>1, <3>1
  <2>3. \A b \in 1 .. L : P[b] = P[a] => b = a
    BY <1>2
  <2>4. from(P[a]) = n
    BY <2>1, <2>2, <2>3
  <2> QED BY <1>2, <2>1, <2>2, <2>4
<1>5. \A i \in 1 .. N : (\A a \in 1 .. L : P[a] # i) => src[i] = i
  OBVIOUS
<1> HIDE DEF src
<1>6. src \in [1 .. N -> 0 .. N]
  <2>1. ASSUME NEW i \in 1 .. N PROVE src[i] \in 0 .. N
    <3>1. CASE \E a \in 1 .. L : P[a] = i
      BY <1>4, <3>1
    <3>2. CASE \A a \in 1 .. L : P[a] # i
      BY <1>2, <1>5, <3>2
    <3> QED BY <3>1, <3>2
  <2>2. src = [i \in 1 .. N |-> src[i]]
    BY DEF src
  <2> QED BY <2>1, <2>2
<1>7. ASSUME NEW i \in 1 .. N
      PROVE  /\ src[i] = 0 => h[i] = node
             /\ src[i] # 0 => src[i] # P[1] /\ h[i] = g[src[i]]
  <2>1. CASE \E a \in 1 .. L : P[a] = i
    <3>1. PICK a \in 1 .. L : P[a] = i
      BY <2>1
    <3>2. CASE a = L
      BY <1>3, <1>4, <3>1, <3>2
    <3>3. CASE a # L
      <4>1. a \in 1 .. L - 1 /\ a + 1 \in 1 .. L /\ a + 1 # 1 /\ 1 \in 1 .. L
        BY <1>2, <3>3
      <4>2. src[i] = P[a + 1] /\ h[i] = g[P[a + 1]] /\ P[a + 1] # P[1] /\ P[a + 1] \in 1 .. N
        BY <1>2, <1>3, <1>4, <3>1, <3>3, <4>1
      <4> QED BY <4>2
    <3> QED BY <3>2, <3>3
  <2>2. CASE \A a \in 1 .. L : P[a] # i
    <3>1. 1 \in 1 .. L /\ P[1] # i /\ i # 0
      BY <1>2, <2>2
    <3>2. src[i] = i /\ h[i] = g[i]
      BY <1>3, <1>5, <2>2
    <3> QED BY <3>1, <3>2
  <2> QED BY <2>1, <2>2
<1>8. ASSUME NEW i \in 1 .. N, NEW j \in 1 .. N, src[i] = src[j] PROVE i = j
  <2>1. CASE \E a \in 1 .. L : P[a] = i
    <3>1. PICK a \in 1 .. L : P[a] = i
      BY <2>1
    <3>2. CASE \E b \in 1 .. L : P[b] = j
      <4>1. PICK b \in 1 .. L : P[b] = j
        BY <3>2
      <4>2. /\ src[i] = (IF a = L THEN 0 ELSE P[a + 1])
            /\ src[j] = (IF b = L THEN 0 ELSE P[b + 1])
        BY <1>4, <3>1, <4>1
      <4>3. (a # L => a + 1 \in 1 .. L) /\ (b # L => b + 1 \in 1 .. L)
        BY <1>2
      <4>4. CASE a = L \/ b = L
        <5>1. P[a + 1] # 0 \/ a = L
          BY <1>2, <4>3
        <5>2. P[b + 1] # 0 \/ b = L
          BY <1>2, <4>3
        <5>3. a = b
          BY <1>8, <4>2, <4>4, <5>1, <5>2
        <5> QED BY <3>1, <4>1, <5>3
      <4>5. CASE a # L /\ b # L
        <5>1. P[a + 1] = P[b + 1]
          BY <1>8, <4>2, <4>5
        <5>2. a + 1 = b + 1
          BY <1>2, <4>3, <4>5, <5>1
        <5>3. a = b
          BY <1>2, <5>2
        <5> QED BY <3>1, <4>1, <5>3
      <4> QED BY <4>4, <4>5
    <3>3. CASE \A b \in 1 .. L : P[b] # j
      <4>1. src[j] = j /\ src[i] = (IF a = L THEN 0 ELSE P[a + 1])
        BY <1>4, <1>5, <3>1, <3>3
      <4>2. a # L => a + 1 \in 1 .. L
        BY <1>2
      <4> QED BY <1>8, <3>3, <4>1, <4>2
    <3> QED BY <3>2, <3>3
  <2>2. CASE \A a \in 1 .. L : P[a] # i
    <3>1. src[i] = i
      BY <1>5, <2>2
    <3>2. CASE \E b \in 1 .. L : P[b] = j
      <4>1. PICK b \in 1 .. L : P[b] = j
        BY <3>2
      <4>2. src[j] = (IF b = L THEN 0 ELSE P[b + 1])
        BY <1>4, <4>1
      <4>3. b # L => b + 1 \in 1 .. L /\ P[b + 1] # i
        BY <1>2, <2>2
      <4>4. i # 0
        OBVIOUS
      <4> QED BY <1>8, <3>1, <4>2, <4>3, <4>4
    <3>3. CASE \A b \in 1 .. L : P[b] # j
      BY <1>5, <1>8, <3>1, <3>3
    <3> QED BY <3>2, <3>3
  <2> QED BY <2>1, <2>2
<1>9. ASSUME NEW n \in 0 .. N, n # P[1] PROVE \E i \in 1 .. N : src[i] = n
  <2>1. CASE n = 0
    <3>1. L \in 1 .. L
      BY <1>2
    <3> QED BY <1>2, <1>4, <2>1, <3>1
  <2>2. CASE n # 0 /\ \E a \in 1 .. L : P[a] = n
    <3>1. PICK a \in 1 .. L : P[a] = n
      BY <2>2
    <3>2. PICK b : b = a - 1
      OBVIOUS
    <3>3. b \in 1 .. L /\ b # L /\ a = b + 1
      BY <1>2, <1>9, <3>1, <3>2
    <3> QED BY <1>2, <1>4, <3>1, <3>3
  <2>3. CASE n # 0 /\ \A a \in 1 .. L : P[a] # n
    BY <1>2, <1>5, <2>3
  <2> QED BY <2>1, <2>2, <2>3
<1>10. Sources(src, h, g, P, node)
  BY <1>1, <1>5, <1>6, <1>7, <1>8, <1>9 DEF Sources
<1> QED BY <1>1, <1>10

--------------------------------------------------------------------------------
(* Filling the hole. *)

Callbacks == {"wait_tmout", "wait_tmout_ok", "call_cychdr"}
Node == [time : EVTTIM, owner : EventOwner, callback : Callbacks]

\* The nodes at all places but the hole are those whose blocks say so.
Indexed(h, index, hole) ==
  \A i \in 1 .. Len(h) : i # hole => index[h[i].owner] = i

\* The nodes at all places but the hole.
Outside(h, hole) == {h[i] : i \in 1 .. Len(h) \ {hole}}

Refilled(m, k, hole, node) ==
  /\ m.index \in [EventOwner -> Nat]
  /\ Indexed(m.heap, m.index, 0)
  /\ Elements(m.heap) = Outside(k.heap, hole) \cup {node}

\* Filled again, the heap has the node and what was in it outside the place where the hole
\* began, and every block says where its node is.
LEMMA FillIndex ==
  ASSUME NEW k, Clock \subseteq DOMAIN k, k.heap \in Seq(Node), NEW node \in Node,
         k.index \in [EventOwner -> Nat],
         NEW P \in Seq(1 .. Len(k.heap)), Len(P) >= 1, Injective(P),
         Indexed(k.heap, k.index, P[1]),
         \A i \in 1 .. Len(k.heap) : i # P[1] => k.heap[i].owner # node.owner,
         NEW m, m = Fill(k, P, node)
  PROVE  Refilled(m, k, P[1], node)
<1>1. PICK g, N, L, h : g = k.heap /\ N = Len(k.heap) /\ L = Len(P) /\ h = m.heap
  OBVIOUS
<1>2. h \in Seq(Node) /\ Len(h) = N /\ Filled(h, g, P, node)
  <2>1. Reheaped(m, k, Node, P, node)
    BY FillHeap
  <2> QED BY <1>1, <2>1 DEF Reheaped
<1>3. PICK src : Sources(src, h, g, P, node)
  <2>1. PICK src : Sources(src, m.heap, k.heap, P, node)
    BY FillSource
  <2> QED BY <1>1, <2>1
<1>4. /\ N \in Nat /\ L \in Nat /\ L >= 1 /\ P[1] \in 1 .. N
      /\ \A i \in 1 .. N : g[i] \in Node /\ h[i] \in Node
      /\ DOMAIN k.heap = 1 .. N
  BY <1>1, <1>2
<1>5. /\ src \in [1 .. N -> 0 .. N]
      /\ \A i \in 1 .. N : /\ src[i] = 0 => h[i] = node
                           /\ src[i] # 0 => src[i] # P[1] /\ h[i] = g[src[i]]
                           /\ (\A a \in 1 .. L : P[a] # i) => src[i] = i
      /\ \A i, j \in 1 .. N : src[i] = src[j] => i = j
      /\ \A n \in 0 .. N : n # P[1] => \E i \in 1 .. N : src[i] = n
  BY <1>1, <1>3 DEF Sources
<1>6. \A i \in 1 .. N : i # P[1] => k.index[g[i].owner] = i /\ g[i].owner # node.owner
  BY <1>1 DEF Indexed
<1>7. ASSUME NEW i \in 1 .. N, NEW j \in 1 .. N, h[i].owner = h[j].owner PROVE i = j
  <2>1. src[i] \in 0 .. N /\ src[j] \in 0 .. N
    BY <1>5
  <2>2. src[i] = src[j]
    <3>1. CASE src[i] = 0 /\ src[j] # 0
      BY <1>5, <1>6, <1>7, <2>1, <3>1
    <3>2. CASE src[i] # 0 /\ src[j] = 0
      BY <1>5, <1>6, <1>7, <2>1, <3>2
    <3>3. CASE src[i] # 0 /\ src[j] # 0
      <4>1. src[i] \in 1 .. N /\ src[j] \in 1 .. N /\ src[i] # P[1] /\ src[j] # P[1]
        BY <1>5, <2>1, <3>3
      <4>2. g[src[i]].owner = g[src[j]].owner
        BY <1>5, <1>7, <3>3
      <4> QED BY <1>6, <4>1, <4>2
    <3> QED BY <3>1, <3>2, <3>3
  <2> QED BY <1>5, <2>2
<1> DEFINE step(i) == CHOOSE n \in 1 .. Len(P) : P[n] = i
           moved   == {i \in DOMAIN k.heap : \E n \in 1 .. Len(P) : P[n] = i}
           into(i) == IF step(i) = Len(P) THEN node ELSE k.heap[P[step(i) + 1]]
<1>8. /\ m.heap = [i \in DOMAIN k.heap |-> IF i \in moved THEN into(i) ELSE k.heap[i]]
      /\ m.index = [o \in EventOwner |-> IF \E i \in moved : into(i).owner = o
                                          THEN CHOOSE i \in moved : into(i).owner = o
                                          ELSE k.index[o]]
  BY DEF Fill, Clock
<1> HIDE DEF step, into
<1>9. /\ moved \subseteq 1 .. N /\ \A i \in moved : h[i] = into(i)
      /\ \A i \in 1 .. N : i \notin moved => h[i] = g[i] /\ i # P[1] /\ src[i] = i
  <2>1. moved \subseteq 1 .. N /\ \A i \in moved : h[i] = into(i)
    BY <1>1, <1>4, <1>8
  <2>2. ASSUME NEW i \in 1 .. N, i \notin moved PROVE h[i] = g[i] /\ i # P[1] /\ src[i] = i
    <3>1. \A a \in 1 .. L : P[a] # i
      BY <1>1, <1>4, <2>2
    <3>2. 1 \in 1 .. L
      BY <1>4
    <3>3. i # P[1] /\ src[i] = i
      BY <1>5, <3>1, <3>2
    <3>4. i \in DOMAIN k.heap
      BY <1>4
    <3>5. m.heap[i] = k.heap[i]
      <4> HIDE DEF moved
      <4> QED BY <1>8, <2>2, <3>4
    <3> QED BY <1>1, <3>3, <3>5
  <2> QED BY <2>1, <2>2
<1> HIDE DEF moved
<1>10. \A o \in EventOwner : m.index[o] = IF \E i \in moved : h[i].owner = o
                                          THEN CHOOSE i \in moved : h[i].owner = o
                                          ELSE k.index[o]
  <2>1. ASSUME NEW o \in EventOwner
        PROVE  m.index[o] = IF \E i \in moved : h[i].owner = o
                            THEN CHOOSE i \in moved : h[i].owner = o
                            ELSE k.index[o]
    <3>1. m.index[o] = IF \E i \in moved : into(i).owner = o
                       THEN CHOOSE i \in moved : into(i).owner = o ELSE k.index[o]
      BY <1>8
    <3>2. CASE \E i \in moved : into(i).owner = o
      <4>1. PICK i \in moved : into(i).owner = o
        BY <3>2
      <4>2. \A j \in moved : into(j).owner = o => j = i
        BY <1>7, <1>9, <4>1
      <4>3. \A j \in moved : h[j].owner = o => j = i
        BY <1>7, <1>9, <4>1
      <4>4. (CHOOSE j \in moved : into(j).owner = o) = i
        BY <4>1, <4>2
      <4>5. h[i].owner = o
        BY <1>9, <4>1
      <4>6. (CHOOSE j \in moved : h[j].owner = o) = i
        BY <4>5, <4>3
      <4> QED BY <3>1, <4>1, <4>4, <4>5, <4>6
    <3>3. CASE ~ \E i \in moved : into(i).owner = o
      <4>1. ~ \E i \in moved : h[i].owner = o
        BY <1>9, <3>3
      <4> QED BY <3>1, <3>3, <4>1
    <3> QED BY <3>2, <3>3
  <2> QED BY <2>1
<1>11. ASSUME NEW i \in 1 .. N PROVE m.index[h[i].owner] = i
  <2>1. h[i].owner \in EventOwner
    BY <1>4 DEF Node
  <2>2. PICK o : o = h[i].owner
    OBVIOUS
  <2>3. CASE i \in moved
    <3>1. \A j \in moved : h[j].owner = o => j = i
      BY <1>7, <1>9, <2>2
    <3>2. (CHOOSE j \in moved : h[j].owner = o) = i
      BY <2>2, <2>3, <3>1
    <3> QED BY <1>10, <2>1, <2>2, <2>3, <3>2
  <2>4. CASE i \notin moved
    <3>1. ~ \E j \in moved : h[j].owner = o
      BY <1>7, <1>9, <2>2, <2>4
    <3>2. k.index[o] = i
      BY <1>6, <1>9, <2>2, <2>4
    <3> QED BY <1>10, <2>1, <2>2, <3>1, <3>2
  <2> QED BY <2>3, <2>4
<1>12. m.index \in [EventOwner -> Nat]
  <2>1. ASSUME NEW o \in EventOwner PROVE m.index[o] \in Nat
    <3>1. CASE \E i \in moved : h[i].owner = o
      <4>1. PICK i \in moved : h[i].owner = o
        BY <3>1
      <4>2. m.index[o] = i /\ i \in 1 .. N
        BY <1>9, <1>11, <4>1
      <4> QED BY <4>2
    <3>2. CASE ~ \E i \in moved : h[i].owner = o
      BY <1>10, <3>2
    <3> QED BY <3>1, <3>2
  <2>2. m.index = [o \in EventOwner |-> m.index[o]]
    BY <1>8
  <2> QED BY <2>1, <2>2
<1>13. Indexed(m.heap, m.index, 0)
  BY <1>1, <1>2, <1>11 DEF Indexed
<1>14. Elements(h) = {g[i] : i \in 1 .. N \ {P[1]}} \cup {node}
  <2>1. ASSUME NEW i \in 1 .. N PROVE h[i] \in {g[n] : n \in 1 .. N \ {P[1]}} \cup {node}
    <3>1. src[i] \in 0 .. N
      BY <1>5
    <3> QED BY <1>5, <3>1
  <2>2. ASSUME NEW n \in 0 .. N, n # P[1]
        PROVE  \E i \in 1 .. N : h[i] = IF n = 0 THEN node ELSE g[n]
    <3>1. PICK i \in 1 .. N : src[i] = n
      BY <1>5, <2>2
    <3>2. h[i] = IF n = 0 THEN node ELSE g[n]
      BY <1>5, <3>1
    <3> QED BY <3>2
  <2>3. node \in Elements(h)
    <3>1. 0 \in 0 .. N /\ 0 # P[1]
      BY <1>4
    <3>2. PICK i \in 1 .. N : h[i] = node
      BY <2>2, <3>1
    <3> QED BY <1>2, <3>2 DEF Elements
  <2>4. \A n \in 1 .. N \ {P[1]} : g[n] \in Elements(h)
    BY <1>2, <1>4, <2>2 DEF Elements
  <2> QED BY <1>2, <2>1, <2>3, <2>4 DEF Elements
<1> QED BY <1>1, <1>12, <1>13, <1>14 DEF Outside, Refilled

\* No node of a heap is due before its parent.
HeapOrder(h, key) == \A i \in 2 .. Len(h) : key[h[PARENT(i)]] <= key[h[i]]

LEMMA Halves ==
  ASSUME NEW N \in Nat, NEW i \in 2 .. N
  PROVE  PARENT(i) \in 1 .. N /\ PARENT(i) < i /\ 2 * PARENT(i) <= i /\ i <= 2 * PARENT(i) + 1
BY DEF PARENT

\* The hole goes up, past the parents that are due later than the node.
GoesUp(P, g, node, key) ==
  /\ P \in Seq(1 .. Len(g)) /\ Len(P) >= 1
  /\ \A a, b \in 1 .. Len(P) : a < b => P[b] < P[a]
  /\ \A a \in 1 .. Len(P) - 1 :
       P[a] # 1 /\ P[a + 1] = PARENT(P[a]) /\ key[node] < key[g[P[a + 1]]]
  /\ P[Len(P)] # 1 => key[g[PARENT(P[Len(P)])]] <= key[node]

\* The node may replace the one in the hole as far as the children of the hole are concerned.
FitsAbove(hole, g, node, key) ==
  /\ \A i \in 2 .. Len(g) : i # hole \/ 2 * hole <= Len(g) => key[g[PARENT(i)]] <= key[g[i]]
  /\ 2 * hole <= Len(g) => key[node] <= key[g[hole]]

LEMMA OrderUp ==
  ASSUME NEW S, NEW g \in Seq(S), NEW h \in Seq(S), Len(h) = Len(g), NEW node \in S,
         NEW key \in [S -> Int], NEW P,
         GoesUp(P, g, node, key), FitsAbove(P[1], g, node, key), Filled(h, g, P, node)
  PROVE  HeapOrder(h, key)
<1>1. PICK N, L : N = Len(g) /\ L = Len(P)
  OBVIOUS
<1>2. /\ N \in Nat /\ L \in Nat /\ L >= 1 /\ \A a \in 1 .. L : P[a] \in 1 .. N
      /\ \A i \in 1 .. N : key[g[i]] \in Int /\ key[h[i]] \in Int
      /\ key[node] \in Int
  <2>1. P \in Seq(1 .. N) /\ L >= 1
    BY <1>1 DEF GoesUp
  <2>2. N \in Nat /\ L \in Nat /\ key[node] \in Int
    BY <1>1, <2>1
  <2>3. \A i \in 1 .. N : g[i] \in S /\ h[i] \in S
    BY <1>1
  <2>4. \A a \in 1 .. L : P[a] \in 1 .. N
    BY <1>1, <2>1
  <2>5. \A i \in 1 .. N : key[g[i]] \in Int /\ key[h[i]] \in Int
    BY <2>3
  <2> QED BY <2>1, <2>2, <2>4, <2>5
<1>3. /\ \A i \in 1 .. N : (\A a \in 1 .. L : P[a] # i) => h[i] = g[i]
      /\ \A a \in 1 .. L - 1 : h[P[a]] = g[P[a + 1]]
      /\ h[P[L]] = node
  BY <1>1 DEF Filled
<1>5. /\ \A a, b \in 1 .. L : a < b => P[b] < P[a]
      /\ \A a \in 1 .. L - 1 : P[a] # 1 /\ P[a + 1] = PARENT(P[a]) /\ key[node] < key[g[P[a + 1]]]
      /\ P[L] # 1 => key[g[PARENT(P[L])]] <= key[node]
  BY <1>1 DEF GoesUp
<1>6. /\ \A i \in 2 .. N : i # P[1] \/ 2 * P[1] <= N => key[g[PARENT(i)]] <= key[g[i]]
      /\ 2 * P[1] <= N => key[node] <= key[g[P[1]]]
  BY <1>1 DEF FitsAbove
<1>4. ASSUME NEW i \in 2 .. N PROVE key[h[PARENT(i)]] <= key[h[i]]
  <2>1. PICK p : p = PARENT(i)
    OBVIOUS
  <2>2. p \in 1 .. N /\ p < i /\ 2 * p <= N /\ i \in 1 .. N
    <3>1. N \in Nat
      BY <1>2
    <3>2. p \in 1 .. N /\ p < i /\ 2 * p <= i
      BY <2>1, <3>1, Halves
    <3> QED BY <3>1, <3>2
  <2>3. CASE \E a \in 1 .. L : P[a] = i
    <3>1. PICK a \in 1 .. L : P[a] = i
      BY <2>3
    <3>2. CASE a < L
      <4>1. a \in 1 .. L - 1 /\ a + 1 \in 1 .. L /\ 1 \in 1 .. L /\ 1 < a + 1
        BY <1>2, <3>2
      <4>2. p = P[a + 1] /\ h[i] = g[p] /\ key[node] < key[g[p]]
        BY <1>5, <1>6, <1>3, <2>1, <3>1, <4>1
      <4>3. CASE a + 1 = L
        <5>1. h[p] = node
          BY <1>3, <4>2, <4>3
        <5>2. key[node] < key[h[i]]
          BY <4>2
        <5>3. key[h[i]] \in Int
          BY <1>2, <2>2
        <5> QED BY <1>2, <2>1, <5>1, <5>2, <5>3
      <4>4. CASE a + 1 < L
        <5>1. a + 1 \in 1 .. L - 1
          BY <1>2, <4>1, <4>4
        <5>2. p # 1 /\ h[p] = g[PARENT(p)]
          BY <1>5, <1>6, <1>3, <4>2, <5>1
        <5>3. p # P[1]
          <6>1. P[a + 1] < P[1]
            BY <1>5, <1>6, <4>1
          <6> QED BY <1>2, <4>1, <4>2, <6>1
        <5>4. key[g[PARENT(p)]] <= key[g[p]]
          BY <1>5, <1>6, <2>2, <5>2, <5>3
        <5> QED BY <2>1, <4>2, <5>2, <5>4
      <4> QED BY <1>2, <4>1, <4>3, <4>4
    <3>3. CASE a = L
      <4>1. key[g[p]] <= key[node] /\ h[i] = node
        BY <1>5, <1>6, <1>3, <2>1, <3>1, <3>3
      <4>2. \A b \in 1 .. L : P[b] # p
        <5>1. ASSUME NEW b \in 1 .. L PROVE P[b] # p
          <6>1. (b = L \/ b < L) /\ L \in 1 .. L
            BY <1>2
          <6>2. b = L \/ P[L] < P[b]
            BY <1>5, <1>6, <1>2, <6>1
          <6> QED BY <1>2, <2>2, <3>1, <3>3, <6>2
        <5> QED BY <5>1
      <4>3. h[p] = g[p]
        BY <1>3, <2>2, <4>2
      <4> QED BY <2>1, <4>1, <4>3
    <3> QED BY <1>2, <3>2, <3>3
  <2>4. CASE \A a \in 1 .. L : P[a] # i
    <3>1. 1 \in 1 .. L /\ i # P[1]
      BY <1>2, <2>4
    <3>2. h[i] = g[i] /\ key[g[p]] <= key[g[i]]
      BY <1>5, <1>6, <1>3, <2>1, <2>2, <2>4, <3>1
    <3>3. CASE \E a \in 1 .. L : P[a] = p
      <4>1. PICK a \in 1 .. L : P[a] = p
        BY <3>3
      <4>2. CASE a < L
        <5>1. a \in 1 .. L - 1
          BY <1>2, <4>2
        <5>2. p # 1 /\ h[p] = g[PARENT(p)]
          BY <1>5, <1>6, <1>3, <4>1, <5>1
        <5>3. p # P[1] \/ 2 * P[1] <= N
          BY <2>2
        <5>4. p \in 2 .. N
          BY <2>2, <5>2
        <5>5. key[g[PARENT(p)]] <= key[g[p]]
          BY <1>5, <1>6, <5>3, <5>4
        <5>6. key[g[PARENT(p)]] \in Int /\ key[g[p]] \in Int /\ key[g[i]] \in Int
          BY <1>2, <2>2, <5>4, Halves
        <5> QED BY <2>1, <3>2, <5>2, <5>5, <5>6
      <4>3. CASE a = L
        <5>1. h[p] = node
          BY <1>3, <4>1, <4>3
        <5>2. key[node] <= key[g[p]]
          <6>1. CASE L = 1
            <7>1. p = P[1] /\ 2 * P[1] <= N
              BY <1>5, <1>6, <2>2, <4>1, <4>3, <6>1
            <7> QED BY <1>6, <7>1
          <6>2. CASE L # 1
            <7>1. PICK b : b = L - 1
              OBVIOUS
            <7>2. b \in 1 .. L - 1 /\ b + 1 = L
              BY <1>5, <1>6, <1>2, <6>2, <7>1
            <7>3. key[node] < key[g[P[b + 1]]]
              BY <1>5, <7>2
            <7> QED BY <1>2, <2>2, <4>1, <4>3, <7>2, <7>3
          <6> QED BY <6>1, <6>2
        <5>3. PICK x, y, z : x = key[node] /\ y = key[g[p]] /\ z = key[g[i]]
          OBVIOUS
        <5>4. x \in Int /\ y \in Int /\ z \in Int
          BY <1>2, <2>2, <5>3
        <5>5. x <= z
          BY <3>2, <5>2, <5>3, <5>4
        <5> QED BY <2>1, <3>2, <5>1, <5>3, <5>5
      <4> QED BY <1>2, <4>2, <4>3
    <3>4. CASE \A a \in 1 .. L : P[a] # p
      <4>1. h[p] = g[p]
        BY <1>3, <2>2, <3>4
      <4> QED BY <2>1, <3>2, <4>1
    <3> QED BY <3>3, <3>4
  <2> QED BY <2>3, <2>4
<1> QED BY <1>1, <1>4 DEF HeapOrder

\* The hole goes down, to the child that is due first while that is before the node.
GoesDown(P, g, node, key) ==
  /\ P \in Seq(1 .. Len(g)) /\ Len(P) >= 1
  /\ \A a, b \in 1 .. Len(P) : a < b => P[a] < P[b]
  /\ \A a \in 1 .. Len(P) - 1 :
       /\ P[a + 1] \in 2 .. Len(g) /\ PARENT(P[a + 1]) = P[a]
       /\ key[g[P[a + 1]]] < key[node]
       /\ \A i \in 2 .. Len(g) : PARENT(i) = P[a] => key[g[P[a + 1]]] <= key[g[i]]
  /\ \A i \in 2 .. Len(g) : PARENT(i) = P[Len(P)] => key[node] <= key[g[i]]

FitsBelow(hole, g, node, key) == hole # 1 => key[g[PARENT(hole)]] <= key[node]

LEMMA OrderDown ==
  ASSUME NEW S, NEW g \in Seq(S), NEW h \in Seq(S), Len(h) = Len(g), NEW node \in S,
         NEW key \in [S -> Int], NEW P,
         HeapOrder(g, key), GoesDown(P, g, node, key), FitsBelow(P[1], g, node, key),
         Filled(h, g, P, node)
  PROVE  HeapOrder(h, key)
<1>1. PICK N, L : N = Len(g) /\ L = Len(P)
  OBVIOUS
<1>2. /\ N \in Nat /\ L \in Nat /\ L >= 1 /\ \A a \in 1 .. L : P[a] \in 1 .. N
      /\ \A i \in 1 .. N : key[g[i]] \in Int /\ key[h[i]] \in Int
      /\ key[node] \in Int
  <2>1. P \in Seq(1 .. N) /\ L >= 1
    BY <1>1 DEF GoesDown
  <2>2. N \in Nat /\ L \in Nat /\ key[node] \in Int
    BY <1>1, <2>1
  <2>3. \A i \in 1 .. N : g[i] \in S /\ h[i] \in S
    BY <1>1
  <2>4. \A a \in 1 .. L : P[a] \in 1 .. N
    BY <1>1, <2>1
  <2>5. \A i \in 1 .. N : key[g[i]] \in Int /\ key[h[i]] \in Int
    BY <2>3
  <2> QED BY <2>1, <2>2, <2>4, <2>5
<1>3. /\ \A i \in 1 .. N : (\A a \in 1 .. L : P[a] # i) => h[i] = g[i]
      /\ \A a \in 1 .. L - 1 : h[P[a]] = g[P[a + 1]]
      /\ h[P[L]] = node
  BY <1>1 DEF Filled
<1>4. \A i \in 2 .. N : key[g[PARENT(i)]] <= key[g[i]]
  BY <1>1 DEF HeapOrder
<1>6. /\ \A a, b \in 1 .. L : a < b => P[a] < P[b]
      /\ \A a \in 1 .. L - 1 :
           /\ P[a + 1] \in 2 .. N /\ PARENT(P[a + 1]) = P[a] /\ key[g[P[a + 1]]] < key[node]
           /\ \A i \in 2 .. N : PARENT(i) = P[a] => key[g[P[a + 1]]] <= key[g[i]]
      /\ \A i \in 2 .. N : PARENT(i) = P[L] => key[node] <= key[g[i]]
  BY <1>1 DEF GoesDown
<1>7. P[1] # 1 => key[g[PARENT(P[1])]] <= key[node]
  BY DEF FitsBelow
<1>5. ASSUME NEW i \in 2 .. N PROVE key[h[PARENT(i)]] <= key[h[i]]
  <2>1. PICK p : p = PARENT(i)
    OBVIOUS
  <2>2. p \in 1 .. N /\ p < i /\ i \in 1 .. N
    BY <1>2, <2>1, Halves
  <2>3. CASE \E a \in 1 .. L : P[a] = i
    <3>1. PICK a \in 1 .. L : P[a] = i
      BY <2>3
    <3>2. a < L => h[i] = g[P[a + 1]] /\ key[g[i]] <= key[g[P[a + 1]]]
      <4>1. SUFFICES ASSUME a < L PROVE h[i] = g[P[a + 1]] /\ key[g[i]] <= key[g[P[a + 1]]]
        OBVIOUS
      <4>2. a \in 1 .. L - 1
        BY <1>2, <4>1
      <4>3. h[i] = g[P[a + 1]] /\ P[a + 1] \in 2 .. N /\ PARENT(P[a + 1]) = i
        BY <1>6, <1>7, <1>3, <3>1, <4>2
      <4> QED BY <1>4, <4>3
    <3>3. CASE a # 1
      <4>1. PICK b : b = a - 1
        OBVIOUS
      <4>2. b \in 1 .. L - 1 /\ b + 1 = a
        BY <1>2, <3>3, <4>1
      <4>3. p = P[b] /\ h[p] = g[i] /\ key[g[i]] < key[node]
        BY <1>6, <1>7, <1>3, <2>1, <3>1, <4>2
      <4>4. CASE a = L
        <5>1. h[i] = node
          BY <1>3, <3>1, <4>4
        <5>2. key[g[i]] \in Int /\ key[node] \in Int
          BY <1>2, <2>2
        <5>3. key[g[i]] <= key[node]
          BY <4>3, <5>2
        <5> QED BY <2>1, <4>3, <5>1, <5>3
      <4>5. CASE a < L
        BY <2>1, <3>2, <4>3, <4>5
      <4> QED BY <1>2, <4>4, <4>5
    <3>4. CASE a = 1
      <4>1. \A b \in 1 .. L : P[b] # p
        <5>1. ASSUME NEW b \in 1 .. L PROVE P[b] # p
          <6>1. b = 1 \/ 1 < b
            BY <1>2
          <6>2. b = 1 \/ P[1] < P[b]
            BY <1>6, <1>7, <1>2, <6>1
          <6> QED BY <1>2, <2>2, <3>1, <3>4, <6>2
        <5> QED BY <5>1
      <4>2. h[p] = g[p]
        BY <1>3, <2>2, <4>1
      <4>3. CASE L = 1
        <5>1. h[i] = node /\ key[g[p]] <= key[node]
          BY <1>6, <1>7, <1>3, <2>1, <3>1, <3>4, <4>3
        <5> QED BY <2>1, <4>2, <5>1
      <4>4. CASE L # 1
        <5>1. a < L /\ a + 1 \in 1 .. L
          BY <1>2, <3>4, <4>4
        <5>2. key[g[p]] <= key[g[i]]
          BY <1>4, <2>1
        <5>3. key[g[p]] \in Int /\ key[g[i]] \in Int /\ key[g[P[a + 1]]] \in Int
          BY <1>2, <2>2, <5>1
        <5>4. h[i] = g[P[a + 1]] /\ key[g[i]] <= key[g[P[a + 1]]]
          BY <3>2, <5>1
        <5>5. key[g[p]] <= key[g[P[a + 1]]]
          <6>1. PICK x, y, z : x = key[g[p]] /\ y = key[g[i]] /\ z = key[g[P[a + 1]]]
            OBVIOUS
          <6>2. x \in Int /\ y \in Int /\ z \in Int /\ x <= y /\ y <= z
            BY <5>2, <5>3, <5>4, <6>1
          <6>3. x <= z
            BY <6>2
          <6> QED BY <6>1, <6>3
        <5> QED BY <2>1, <4>2, <5>4, <5>5
      <4> QED BY <4>3, <4>4
    <3> QED BY <3>3, <3>4
  <2>4. CASE \A a \in 1 .. L : P[a] # i
    <3>1. h[i] = g[i] /\ key[g[p]] <= key[g[i]]
      BY <1>3, <1>4, <2>1, <2>2, <2>4
    <3>2. CASE \E a \in 1 .. L : P[a] = p
      <4>1. PICK a \in 1 .. L : P[a] = p
        BY <3>2
      <4>2. CASE a < L
        <5>1. a \in 1 .. L - 1
          BY <1>2, <4>2
        <5>2. h[p] = g[P[a + 1]] /\ key[g[P[a + 1]]] <= key[g[i]]
          BY <1>6, <1>7, <1>3, <2>1, <4>1, <5>1
        <5> QED BY <2>1, <3>1, <5>2
      <4>3. CASE a = L
        BY <1>6, <1>7, <1>3, <2>1, <3>1, <4>1, <4>3
      <4> QED BY <1>2, <4>2, <4>3
    <3>3. CASE \A a \in 1 .. L : P[a] # p
      BY <1>3, <2>1, <2>2, <3>1, <3>3
    <3> QED BY <3>2, <3>3
  <2> QED BY <2>3, <2>4
<1> QED BY <1>1, <1>5 DEF HeapOrder

--------------------------------------------------------------------------------
(* Times and paths. *)

LEMMA WordSize == 2 ^ EVTTIM_BITS \in Nat \ {0} /\ 2 ^ (EVTTIM_BITS - 1) \in Nat \ {0}
<1>1. ASSUME NEW n \in Nat PROVE 2 ^ n \in Nat \ {0}
  <2>1. IsFiniteSet(1 .. n) /\ Cardinality(1 .. n) = n
    BY <1>1, FS_Interval
  <2>2. IsFiniteSet(SUBSET (1 .. n)) /\ Cardinality(SUBSET (1 .. n)) = 2 ^ n
    BY <2>1, FS_Subset, FS_SUBSET
  <2>3. SUBSET (1 .. n) # {}
    OBVIOUS
  <2>4. Cardinality(SUBSET (1 .. n)) \in Nat /\ Cardinality(SUBSET (1 .. n)) # 0
    BY <2>2, <2>3, FS_CardinalityType, FS_EmptySet
  <2> QED BY <2>2, <2>4
<1>2. EVTTIM_BITS \in Nat /\ EVTTIM_BITS - 1 \in Nat
  BY TickFitsWord
<1> QED BY <1>1, <1>2

\* Times wrap to words, and so do distances.
LEMMA Times ==
  /\ EVTTIM \subseteq Nat /\ 0 \in EVTTIM /\ TIC_NUME \in Nat
  /\ \A n \in Int : Wrap(n) \in EVTTIM
<1>1. PICK M : M = 2 ^ EVTTIM_BITS
  OBVIOUS
<1>2. M \in Nat \ {0}
  BY <1>1, WordSize
<1>3. \A n \in Int : n % M \in 0 .. M - 1
  BY <1>2
<1>4. \A n \in Int : Wrap(n) \in EVTTIM
  BY <1>1, <1>3 DEF Wrap, EVTTIM
<1>5. EVTTIM \subseteq Nat /\ 0 \in EVTTIM
  BY <1>1, <1>2 DEF EVTTIM
<1>6. TIC_NUME \in Nat
  BY TickFitsWord, WordSize
<1> QED BY <1>4, <1>5, <1>6

\* How far ahead a node is due.
Due(k) == [node \in Node |-> Ahead(k, node.time)]

LEMMA DueFacts ==
  ASSUME NEW k, k.current_time \in EVTTIM
  PROVE  /\ Due(k) \in [Node -> Int] /\ Due(k) \in [Node -> EVTTIM]
         /\ \A node \in Node : node.time \in EVTTIM /\ Due(k)[node] = Ahead(k, node.time)
         /\ \A time \in EVTTIM : Ahead(k, time) \in EVTTIM
<1>1. \A time \in EVTTIM : Ahead(k, time) \in EVTTIM
  <2>1. ASSUME NEW time \in EVTTIM PROVE Ahead(k, time) \in EVTTIM
    <3>1. time \in Nat /\ k.current_time \in Nat
      BY Times
    <3>2. time - k.current_time \in Int
      BY <3>1
    <3> QED BY <3>2, Times DEF Ahead
  <2> QED BY <2>1
<1>2. \A node \in Node : node.time \in EVTTIM
  BY DEF Node
<1>3. EVTTIM \subseteq Int
  BY Times
<1> QED BY <1>1, <1>2, <1>3 DEF Due

LEMMA UpPath ==
  ASSUME NEW k, k.heap \in Seq(Node), k.current_time \in EVTTIM,
         NEW node \in Node, NEW index \in 1 .. Len(k.heap),
         NEW P, P = tmevt_up(k, index, node.time)
  PROVE  GoesUp(P, k.heap, node, Due(k)) /\ P[1] = index /\ Injective(P)
<1>0. PICK n, N, time, key : n = Len(k.heap) /\ N = n + 1 /\ time = node.time /\ key = Due(k)
  OBVIOUS
<1>1. n \in Nat /\ N \in Nat /\ last_index(k) = n /\ \A i \in 1 .. n : k.heap[i] \in Node
  BY <1>0 DEF last_index
<1> DEFINE ends(i) == i = 1 \/ EVTTIM_LE(k, k.heap[PARENT(i)].time, time)
<1>2. PICK stop, succ, rank :
        /\ stop = {i \in 1 .. N : ends(i)}
        /\ succ = [i \in 1 .. N |-> PARENT(i)] /\ rank = [i \in 1 .. N |-> i]
  OBVIOUS
<1>3. \A i \in 1 .. N : i \notin stop => i \in 2 .. N
  BY <1>1, <1>2
<1>4. rank \in [1 .. N -> 0 .. N]
      /\ \A i \in 1 .. N : i \notin stop => succ[i] \in 1 .. N /\ rank[succ[i]] < rank[i]
  <2>1. rank \in [1 .. N -> 0 .. N]
    BY <1>1, <1>2
  <2>2. ASSUME NEW i \in 1 .. N, i \notin stop
        PROVE  succ[i] \in 1 .. N /\ rank[succ[i]] < rank[i]
    <3>1. PARENT(i) \in 1 .. N /\ PARENT(i) < i
      BY <1>1, <1>3, <2>2, Halves
    <3> QED BY <1>2, <3>1
  <2> QED BY <2>1, <2>2
<1>5. \E f : f = [i \in 1 .. N |-> PathFrom(stop, succ, f, i)]
  BY <1>1, <1>4, PathDefined
<1>6. \A f : \A i \in 1 .. N :
        PathFrom(stop, succ, f, i) = IF ends(i) THEN <<i>> ELSE <<i>> \o f[PARENT(i)]
  BY <1>2 DEF PathFrom
<1>7. \E f : f = [i \in 1 .. N |-> IF ends(i) THEN <<i>> ELSE <<i>> \o f[PARENT(i)]]
  <2>1. PICK f : f = [i \in 1 .. N |-> PathFrom(stop, succ, f, i)]
    BY <1>5
  <2>2. f = [i \in 1 .. N |-> IF ends(i) THEN <<i>> ELSE <<i>> \o f[PARENT(i)]]
    BY <1>6, <2>1
  <2> QED BY <2>2
<1>8. PICK up : /\ up = [i \in 1 .. N |-> IF ends(i) THEN <<i>> ELSE <<i>> \o up[PARENT(i)]]
                /\ P = up[index]
  <2>1. PICK up : up = CHOOSE f : f = [i \in 1 .. last_index(k) + 1 |->
                    IF i = 1 \/ EVTTIM_LE(k, k.heap[PARENT(i)].time, node.time)
                    THEN <<i>> ELSE <<i>> \o f[PARENT(i)]]
    OBVIOUS
  <2>2. P = up[index]
    BY <2>1 DEF tmevt_up
  <2>3. up = CHOOSE f : f = [i \in 1 .. N |-> IF ends(i) THEN <<i>> ELSE <<i>> \o f[PARENT(i)]]
    BY <1>0, <1>1, <2>1
  <2>4. up = [i \in 1 .. N |-> IF ends(i) THEN <<i>> ELSE <<i>> \o up[PARENT(i)]]
    BY <1>7, <2>3
  <2> QED BY <2>2, <2>4
<1> HIDE DEF ends
<1>9. \A i \in 1 .. N : up[i] = PathFrom(stop, succ, up, i)
  BY <1>6, <1>8
<1>10. index \in 1 .. N /\ index \in Nat
  BY <1>0, <1>1
<1>11. IsPath(P, index, N, stop, succ, rank)
  <2>1. \A i \in 1 .. N : IsPath(up[i], i, N, stop, succ, rank)
    BY <1>1, <1>4, <1>9, PathFacts
  <2> QED BY <1>8, <1>10, <2>1
<1>12. PICK L : L = Len(P)
  OBVIOUS
<1>13. /\ P \in Seq(1 .. N) /\ L \in Nat /\ L >= 1 /\ P[1] = index
       /\ \A j \in 1 .. L - 1 : P[j] \notin stop /\ P[j + 1] = succ[P[j]]
       /\ P[L] \in stop
       /\ \A a, b \in 1 .. L : a < b => rank[P[b]] < rank[P[a]]
  BY <1>11, <1>12 DEF IsPath
<1>14. \A a \in 1 .. L : P[a] \in 1 .. N /\ rank[P[a]] = P[a]
  <2>1. PICK T : T = 1 .. N
    OBVIOUS
  <2>2. P \in Seq(T)
    BY <1>13, <2>1
  <2>3. \A a \in 1 .. L : P[a] \in T
    BY <1>12, <2>2
  <2> QED BY <1>2, <2>1, <2>3
<1>15. \A a, b \in 1 .. L : a < b => P[b] < P[a]
  BY <1>13, <1>14
<1>16. \A a \in 1 .. L : P[a] \in 1 .. n
  <2>1. ASSUME NEW a \in 1 .. L PROVE P[a] \in 1 .. n
    <3>1. 1 \in 1 .. L /\ (a = 1 \/ 1 < a)
      BY <1>13
    <3>2. P[a] <= index
      BY <1>10, <1>13, <1>14, <1>15, <3>1
    <3> QED BY <1>0, <1>1, <1>14, <3>2
  <2> QED BY <2>1
<1>17. P \in Seq(1 .. n)
  <2>1. PICK T, U : T = 1 .. N /\ U = 1 .. n
    OBVIOUS
  <2>2. P \in Seq(T) /\ \A a \in 1 .. Len(P) : P[a] \in U
    BY <1>12, <1>13, <1>16, <2>1
  <2>3. P \in Seq(U)
    BY <2>2
  <2> QED BY <2>1, <2>3
<1>18. \A other \in Node : key[other] = Ahead(k, other.time) /\ key[other] \in Int
  <2>1. Due(k) \in [Node -> Int] /\ \A other \in Node : Due(k)[other] = Ahead(k, other.time)
    BY DueFacts
  <2> QED BY <1>0, <2>1
<1>19. \A i \in 2 .. n : ends(i) <=> key[k.heap[PARENT(i)]] <= key[node]
  <2>1. ASSUME NEW i \in 2 .. n PROVE ends(i) <=> key[k.heap[PARENT(i)]] <= key[node]
    <3>1. PARENT(i) \in 1 .. n /\ i # 1
      BY <1>1, Halves
    <3>2. k.heap[PARENT(i)] \in Node
      BY <1>1, <3>1
    <3>3. key[node] = Ahead(k, time) /\ key[k.heap[PARENT(i)]] = Ahead(k, k.heap[PARENT(i)].time)
      BY <1>0, <1>18, <3>2
    <3> QED BY <3>1, <3>3 DEF ends, EVTTIM_LE
  <2> QED BY <2>1
<1>20. ASSUME NEW a \in 1 .. L - 1
       PROVE  P[a] # 1 /\ P[a + 1] = PARENT(P[a]) /\ key[node] < key[k.heap[P[a + 1]]]
  <2>1. a \in 1 .. L /\ P[a] \in 1 .. n /\ P[a] \in 1 .. N
    BY <1>13, <1>14, <1>16
  <2>2. P[a] \notin stop /\ P[a + 1] = PARENT(P[a])
    BY <1>2, <1>13, <2>1
  <2>3. ~ ends(P[a]) /\ P[a] # 1
    BY <1>2, <2>1, <2>2 DEF ends
  <2>4. P[a] \in 2 .. n
    BY <2>1, <2>3
  <2>5. ~ (key[k.heap[PARENT(P[a])]] <= key[node])
    BY <1>19, <2>3, <2>4
  <2>6. k.heap[PARENT(P[a])] \in Node
    BY <1>1, <2>4, Halves
  <2>7. key[k.heap[PARENT(P[a])]] \in Int /\ key[node] \in Int
    BY <1>18, <2>6
  <2> QED BY <2>2, <2>3, <2>5, <2>7
<1>21. P[L] # 1 => key[k.heap[PARENT(P[L])]] <= key[node]
  <2>1. L \in 1 .. L /\ ends(P[L])
    BY <1>2, <1>13
  <2>2. P[L] # 1 => P[L] \in 2 .. n
    BY <1>16, <2>1
  <2> QED BY <1>19, <2>1, <2>2
<1>22. Injective(P)
  <2>1. \A a, b \in 1 .. L : a = b \/ a < b \/ b < a
    BY <1>13
  <2>2. \A a, b \in 1 .. L : P[a] = P[b] => a = b
    BY <1>14, <1>15, <2>1
  <2> QED BY <1>12, <2>2 DEF Injective
<1>23. GoesUp(P, k.heap, node, key)
  BY <1>0, <1>12, <1>13, <1>15, <1>17, <1>20, <1>21 DEF GoesUp
<1> QED BY <1>0, <1>13, <1>22, <1>23

LEMMA Children ==
  ASSUME NEW N \in Nat, NEW i \in Nat, i >= 1
  PROVE  /\ \A j \in 2 .. N : PARENT(j) = i <=> j = 2 * i \/ j = 2 * i + 1
         /\ 2 * i <= N => 2 * i \in 2 .. N /\ 2 * i > i
         /\ 2 * i + 1 <= N => 2 * i + 1 \in 2 .. N
BY DEF PARENT

\* The child that the hole may move to is the one that is due first.
LEMMA Earlier ==
  ASSUME NEW k, k.heap \in Seq(Node), k.current_time \in EVTTIM,
         NEW i \in Nat, i >= 1, 2 * i <= Len(k.heap),
         NEW c, c = EarlierChild(k, i), NEW key, key = Due(k)
  PROVE  /\ c \in 2 .. Len(k.heap) /\ c > i /\ PARENT(c) = i
         /\ \A j \in 2 .. Len(k.heap) : PARENT(j) = i => key[k.heap[c]] <= key[k.heap[j]]
<1>1. PICK n, l : n = Len(k.heap) /\ l = 2 * i
  OBVIOUS
<1>2. n \in Nat /\ last_index(k) = n /\ LCHILD(i) = l /\ \A j \in 1 .. n : k.heap[j] \in Node
  BY <1>1 DEF last_index, LCHILD
<1>3. \A other \in Node : key[other] = Ahead(k, other.time) /\ key[other] \in Int
  <2>1. Due(k) \in [Node -> Int] /\ \A other \in Node : Due(k)[other] = Ahead(k, other.time)
    BY DueFacts
  <2> QED BY <2>1
<1>4. \A j \in 1 .. n : key[k.heap[j]] = Ahead(k, k.heap[j].time) /\ key[k.heap[j]] \in Int
  BY <1>2, <1>3
<1>5. l \in 2 .. n /\ l > i /\ \A j \in 2 .. n : PARENT(j) = i <=> j = l \/ j = l + 1
  BY <1>1, <1>2, Children
<1>6. CASE l + 1 <= n /\ key[k.heap[l + 1]] < key[k.heap[l]]
  <2>1. l + 1 \in 1 .. n /\ l \in 1 .. n /\ l + 1 \in 2 .. n
    BY <1>5, <1>6
  <2>2. EVTTIM_LT(k, k.heap[l + 1].time, k.heap[l].time)
    BY <1>4, <1>6, <2>1 DEF EVTTIM_LT
  <2>3. c = l + 1
    BY <1>2, <1>6, <2>2 DEF EarlierChild
  <2>4. \A j \in 2 .. n : PARENT(j) = i => key[k.heap[c]] <= key[k.heap[j]]
    BY <1>4, <1>5, <1>6, <2>1, <2>3
  <2> QED BY <1>1, <1>5, <2>1, <2>3, <2>4
<1>7. CASE ~ (l + 1 <= n /\ key[k.heap[l + 1]] < key[k.heap[l]])
  <2>1. l \in 1 .. n /\ (l + 1 <= n => l + 1 \in 1 .. n)
    BY <1>5
  <2>2. ~ (l + 1 <= n /\ EVTTIM_LT(k, k.heap[l + 1].time, k.heap[l].time))
    BY <1>4, <1>7, <2>1 DEF EVTTIM_LT
  <2>3. c = l
    BY <1>2, <2>2 DEF EarlierChild
  <2>4. \A j \in 2 .. n : PARENT(j) = i => key[k.heap[c]] <= key[k.heap[j]]
    <3>1. l + 1 <= n => key[k.heap[l]] <= key[k.heap[l + 1]]
      BY <1>4, <1>7, <2>1
    <3>2. key[k.heap[l]] <= key[k.heap[l]]
      BY <1>4, <2>1
    <3> QED BY <1>5, <2>3, <3>1, <3>2
  <2> QED BY <1>1, <1>5, <2>3, <2>4
<1> QED BY <1>6, <1>7

LEMMA DownPath ==
  ASSUME NEW k, k.heap \in Seq(Node), k.current_time \in EVTTIM,
         NEW node \in Node, NEW index \in 1 .. Len(k.heap) + 1,
         NEW P, P = tmevt_down(k, index, node.time)
  PROVE  /\ P[1] = index /\ Injective(P)
         /\ index <= Len(k.heap) => GoesDown(P, k.heap, node, Due(k))
         /\ index = Len(k.heap) + 1 => Len(P) = 1
<1>0. PICK n, N, time, key : n = Len(k.heap) /\ N = n + 1 /\ time = node.time /\ key = Due(k)
  OBVIOUS
<1>1. n \in Nat /\ N \in Nat /\ last_index(k) = n /\ \A i \in 1 .. n : k.heap[i] \in Node
  BY <1>0 DEF last_index
<1> DEFINE ends(i) == LCHILD(i) > n \/ EVTTIM_LE(k, time, k.heap[EarlierChild(k, i)].time)
<1>2. PICK stop, succ, rank :
        /\ stop = {i \in 1 .. N : ends(i)}
        /\ succ = [i \in 1 .. N |-> EarlierChild(k, i)] /\ rank = [i \in 1 .. N |-> N - i]
  OBVIOUS
<1>3. \A i \in 1 .. N : i \notin stop =>
        /\ i \in Nat /\ i >= 1 /\ 2 * i <= n /\ succ[i] \in 2 .. n /\ succ[i] > i
        /\ PARENT(succ[i]) = i
        /\ \A j \in 2 .. n : PARENT(j) = i => key[k.heap[succ[i]]] <= key[k.heap[j]]
  <2>1. ASSUME NEW i \in 1 .. N, i \notin stop
        PROVE  /\ i \in Nat /\ i >= 1 /\ 2 * i <= n /\ succ[i] \in 2 .. n /\ succ[i] > i
               /\ PARENT(succ[i]) = i
               /\ \A j \in 2 .. n : PARENT(j) = i => key[k.heap[succ[i]]] <= key[k.heap[j]]
    <3>1. ~ ends(i) /\ succ[i] = EarlierChild(k, i)
      BY <1>2, <2>1
    <3>2. i \in Nat /\ i >= 1 /\ 2 * i <= n
      BY <1>1, <3>1 DEF LCHILD
    <3>3. PICK c : c = EarlierChild(k, i)
      OBVIOUS
    <3>4. /\ c \in 2 .. Len(k.heap) /\ c > i /\ PARENT(c) = i
          /\ \A j \in 2 .. Len(k.heap) : PARENT(j) = i => key[k.heap[c]] <= key[k.heap[j]]
      BY <1>0, <3>2, <3>3, Earlier
    <3> QED BY <1>0, <3>1, <3>2, <3>3, <3>4
  <2> QED BY <2>1
<1>4. rank \in [1 .. N -> 0 .. N]
      /\ \A i \in 1 .. N : i \notin stop => succ[i] \in 1 .. N /\ rank[succ[i]] < rank[i]
  <2>1. rank \in [1 .. N -> 0 .. N]
    BY <1>1, <1>2
  <2>2. ASSUME NEW i \in 1 .. N, i \notin stop
        PROVE  succ[i] \in 1 .. N /\ rank[succ[i]] < rank[i]
    <3>1. succ[i] \in 2 .. n /\ succ[i] > i
      BY <1>3, <2>2
    <3>2. succ[i] \in 1 .. N
      BY <1>0, <1>1, <3>1
    <3>3. rank[succ[i]] = N - succ[i] /\ rank[i] = N - i
      BY <1>2, <3>2
    <3> QED BY <1>1, <3>1, <3>2, <3>3
  <2> QED BY <2>1, <2>2
<1>5. \E f : f = [i \in 1 .. N |-> PathFrom(stop, succ, f, i)]
  BY <1>1, <1>4, PathDefined
<1>6. \A f : \A i \in 1 .. N :
        PathFrom(stop, succ, f, i) = IF ends(i) THEN <<i>> ELSE <<i>> \o f[EarlierChild(k, i)]
  BY <1>2 DEF PathFrom
<1>7. \E f : f = [i \in 1 .. N |-> IF ends(i) THEN <<i>> ELSE <<i>> \o f[EarlierChild(k, i)]]
  <2>1. PICK f : f = [i \in 1 .. N |-> PathFrom(stop, succ, f, i)]
    BY <1>5
  <2>2. f = [i \in 1 .. N |-> IF ends(i) THEN <<i>> ELSE <<i>> \o f[EarlierChild(k, i)]]
    BY <1>6, <2>1
  <2> QED BY <2>2
<1>8. PICK down :
        /\ down = [i \in 1 .. N |-> IF ends(i) THEN <<i>> ELSE <<i>> \o down[EarlierChild(k, i)]]
        /\ P = down[index]
  <2>1. PICK down : down = CHOOSE f : f = [i \in 1 .. last_index(k) + 1 |->
                    IF LCHILD(i) > last_index(k)
                       \/ EVTTIM_LE(k, node.time, k.heap[EarlierChild(k, i)].time)
                    THEN <<i>> ELSE <<i>> \o f[EarlierChild(k, i)]]
    OBVIOUS
  <2>2. P = down[index]
    BY <2>1 DEF tmevt_down
  <2>3. down = CHOOSE f : f = [i \in 1 .. N |->
                                 IF ends(i) THEN <<i>> ELSE <<i>> \o f[EarlierChild(k, i)]]
    BY <1>0, <1>1, <2>1
  <2>4. down = [i \in 1 .. N |-> IF ends(i) THEN <<i>> ELSE <<i>> \o down[EarlierChild(k, i)]]
    BY <1>7, <2>3
  <2> QED BY <2>2, <2>4
<1> HIDE DEF ends
<1>9. \A i \in 1 .. N : down[i] = PathFrom(stop, succ, down, i)
  BY <1>6, <1>8
<1>10. index \in 1 .. N /\ index \in Nat
  BY <1>0, <1>1
<1>11. IsPath(P, index, N, stop, succ, rank)
  <2>1. \A i \in 1 .. N : IsPath(down[i], i, N, stop, succ, rank)
    BY <1>1, <1>4, <1>9, PathFacts
  <2> QED BY <1>8, <1>10, <2>1
<1>12. PICK L : L = Len(P)
  OBVIOUS
<1>13. /\ P \in Seq(1 .. N) /\ L \in Nat /\ L >= 1 /\ P[1] = index
       /\ \A j \in 1 .. L - 1 : P[j] \notin stop /\ P[j + 1] = succ[P[j]]
       /\ P[L] \in stop
       /\ \A a, b \in 1 .. L : a < b => rank[P[b]] < rank[P[a]]
  BY <1>11, <1>12 DEF IsPath
<1>14. \A a \in 1 .. L : P[a] \in 1 .. N /\ rank[P[a]] = N - P[a]
  <2>1. PICK T : T = 1 .. N
    OBVIOUS
  <2>2. P \in Seq(T)
    BY <1>13, <2>1
  <2>3. \A a \in 1 .. L : P[a] \in T
    BY <1>12, <2>2
  <2> QED BY <1>2, <2>1, <2>3
<1>15. ASSUME NEW a \in 1 .. L, NEW b \in 1 .. L, a < b PROVE P[a] < P[b]
  <2>1. rank[P[b]] < rank[P[a]]
    BY <1>13, <1>15
  <2>2. P[a] \in Nat /\ P[b] \in Nat /\ rank[P[a]] = N - P[a] /\ rank[P[b]] = N - P[b]
    BY <1>1, <1>14
  <2> QED BY <1>1, <2>1, <2>2
<1>16. Injective(P)
  <2>1. \A a, b \in 1 .. L : a = b \/ a < b \/ b < a
    BY <1>13
  <2>2. \A a, b \in 1 .. L : P[a] = P[b] => a = b
    BY <1>14, <1>15, <2>1
  <2> QED BY <1>12, <2>2 DEF Injective
<1>17. \A a \in 1 .. L - 1 :
         /\ P[a] \notin stop /\ P[a + 1] = succ[P[a]] /\ P[a] \in 1 .. N
         /\ P[a + 1] \in 2 .. n /\ PARENT(P[a + 1]) = P[a]
         /\ \A j \in 2 .. n : PARENT(j) = P[a] => key[k.heap[P[a + 1]]] <= key[k.heap[j]]
  <2>1. ASSUME NEW a \in 1 .. L - 1
        PROVE  P[a] \notin stop /\ P[a + 1] = succ[P[a]] /\ P[a] \in 1 .. N
    <3>1. a \in 1 .. L
      BY <1>13
    <3> QED BY <1>13, <1>14, <3>1
  <2> QED BY <1>3, <2>1
<1>18. index = N => L = 1
  <2>1. SUFFICES ASSUME index = N, L # 1 PROVE FALSE
    OBVIOUS
  <2>2. 1 \in 1 .. L - 1
    BY <1>13, <2>1
  <2>3. P[1] \notin stop /\ P[1] = N /\ P[1] \in 1 .. N
    BY <1>13, <1>17, <2>1, <2>2
  <2>4. 2 * N <= n
    BY <1>3, <2>3
  <2> QED BY <1>0, <1>1, <2>4
<1>19. index <= n => P \in Seq(1 .. n)
  <2>1. SUFFICES ASSUME index <= n PROVE P \in Seq(1 .. n)
    OBVIOUS
  <2>2. ASSUME NEW a \in 1 .. L PROVE P[a] \in 1 .. n
    <3>1. CASE a = 1
      BY <1>1, <1>10, <1>13, <2>1, <3>1
    <3>2. CASE a # 1
      <4>1. PICK b : b = a - 1
        OBVIOUS
      <4>2. b \in 1 .. L - 1 /\ b + 1 = a
        BY <1>13, <3>2, <4>1
      <4>3. P[a] \in 2 .. n
        BY <1>17, <4>2
      <4> QED BY <1>1, <4>3
    <3> QED BY <3>1, <3>2
  <2>3. PICK T, U : T = 1 .. N /\ U = 1 .. n
    OBVIOUS
  <2>4. P \in Seq(T) /\ \A a \in 1 .. Len(P) : P[a] \in U
    BY <1>12, <1>13, <2>2, <2>3
  <2>5. P \in Seq(U)
    BY <2>4
  <2> QED BY <2>3, <2>5
<1>20. \A other \in Node : key[other] = Ahead(k, other.time) /\ key[other] \in Int
  <2>1. Due(k) \in [Node -> Int] /\ \A other \in Node : Due(k)[other] = Ahead(k, other.time)
    BY DueFacts
  <2> QED BY <1>0, <2>1
<1>21. ASSUME NEW i \in 1 .. N, 2 * i <= n
       PROVE  /\ succ[i] \in 2 .. n /\ PARENT(succ[i]) = i
              /\ \A j \in 2 .. n : PARENT(j) = i => key[k.heap[succ[i]]] <= key[k.heap[j]]
              /\ ends(i) <=> key[node] <= key[k.heap[succ[i]]]
  <2>1. i \in Nat /\ i >= 1 /\ succ[i] = EarlierChild(k, i)
    BY <1>1, <1>2
  <2>2. PICK c : c = EarlierChild(k, i)
    OBVIOUS
  <2>3. /\ c \in 2 .. Len(k.heap) /\ c > i /\ PARENT(c) = i
        /\ \A j \in 2 .. Len(k.heap) : PARENT(j) = i => key[k.heap[c]] <= key[k.heap[j]]
    BY <1>0, <1>21, <2>1, <2>2, Earlier
  <2>4. c \in 1 .. n /\ k.heap[c] \in Node
    BY <1>0, <1>1, <2>3
  <2>5. key[node] = Ahead(k, time) /\ key[k.heap[c]] = Ahead(k, k.heap[c].time)
    BY <1>0, <1>20, <2>4
  <2>6. ends(i) <=> EVTTIM_LE(k, time, k.heap[c].time)
    BY <1>1, <1>21, <2>1, <2>2 DEF ends, LCHILD
  <2>7. ends(i) <=> key[node] <= key[k.heap[c]]
    BY <2>5, <2>6 DEF EVTTIM_LE
  <2> QED BY <1>0, <2>1, <2>2, <2>3, <2>7
<1>22. ASSUME NEW a \in 1 .. L - 1 PROVE key[k.heap[P[a + 1]]] < key[node]
  <2>1. P[a] \in 1 .. N /\ P[a] \notin stop /\ P[a + 1] = succ[P[a]] /\ P[a + 1] \in 2 .. n
    BY <1>17
  <2>2. 2 * P[a] <= n
    BY <1>3, <2>1
  <2>3. ~ ends(P[a])
    BY <1>2, <2>1
  <2>4. ~ (key[node] <= key[k.heap[P[a + 1]]])
    BY <1>21, <2>1, <2>2, <2>3
  <2>5. k.heap[P[a + 1]] \in Node
    BY <1>1, <2>1
  <2>6. key[node] \in Int /\ key[k.heap[P[a + 1]]] \in Int
    BY <1>20, <2>5
  <2> QED BY <2>4, <2>6
<1>23. ASSUME NEW j \in 2 .. n, PARENT(j) = P[L] PROVE key[node] <= key[k.heap[j]]
  <2>1. L \in 1 .. L /\ P[L] \in 1 .. N /\ ends(P[L])
    BY <1>2, <1>13, <1>14
  <2>2. 2 * P[L] <= n
    <3>1. PICK p : p = PARENT(j)
      OBVIOUS
    <3>2. 2 * p <= j /\ p \in 1 .. n
      BY <1>1, <3>1, Halves
    <3>3. j <= n /\ j \in Nat /\ p \in Nat /\ P[L] = p
      BY <1>1, <1>23, <3>1, <3>2
    <3>4. 2 * p <= n
      BY <1>1, <3>2, <3>3
    <3> QED BY <3>3, <3>4
  <2>3. PICK s : s = succ[P[L]]
    OBVIOUS
  <2>4. s \in 2 .. n /\ key[node] <= key[k.heap[s]] /\ key[k.heap[s]] <= key[k.heap[j]]
    BY <1>21, <1>23, <2>1, <2>2, <2>3
  <2>5. k.heap[s] \in Node /\ k.heap[j] \in Node
    BY <1>1, <2>4
  <2>6. key[node] \in Int /\ key[k.heap[s]] \in Int /\ key[k.heap[j]] \in Int
    BY <1>20, <2>5
  <2> QED BY <2>4, <2>6
<1>24. index <= n => GoesDown(P, k.heap, node, key)
  BY <1>0, <1>12, <1>13, <1>15, <1>17, <1>19, <1>22, <1>23 DEF GoesDown
<1> QED BY <1>0, <1>12, <1>13, <1>16, <1>18, <1>24

LEMMA HalfWord == 2 ^ (EVTTIM_BITS - 1) < 2 ^ EVTTIM_BITS
<1>1. PICK n \in Nat : n = EVTTIM_BITS - 1 /\ EVTTIM_BITS = n + 1
  BY TickFitsWord
<1>2. PICK A, B : A = SUBSET (1 .. n) /\ B = SUBSET (1 .. n + 1)
  OBVIOUS
<1>3. IsFiniteSet(B) /\ Cardinality(A) = 2 ^ n /\ Cardinality(B) = 2 ^ (n + 1)
  <2>1. IsFiniteSet(1 .. n) /\ Cardinality(1 .. n) = n
    BY FS_Interval
  <2>2. IsFiniteSet(1 .. n + 1) /\ Cardinality(1 .. n + 1) = n + 1
    <3>1. n + 1 \in Nat
      OBVIOUS
    <3> QED BY <3>1, FS_Interval
  <2> QED BY <1>2, <2>1, <2>2, FS_SUBSET
<1>4. A \subseteq B /\ A # B
  <2>1. 1 .. n \subseteq 1 .. n + 1 /\ n + 1 \in 1 .. n + 1 /\ n + 1 \notin 1 .. n
    OBVIOUS
  <2>2. PICK X, Y, e : X = 1 .. n /\ Y = 1 .. n + 1 /\ e = n + 1
    OBVIOUS
  <2>3. X \subseteq Y /\ e \in Y /\ e \notin X /\ A = SUBSET X /\ B = SUBSET Y
    BY <1>2, <2>1, <2>2
  <2>4. Y \in B /\ Y \notin A
    BY <2>3
  <2> QED BY <2>3, <2>4
<1>5. Cardinality(A) < Cardinality(B)
  BY <1>3, <1>4, FS_Subset
<1> QED BY <1>1, <1>3, <1>5

LEMMA RemainderIs ==
  ASSUME NEW M \in Nat \ {0}, NEW x \in Int, NEW q \in {-1, 0, 1},
         NEW r \in 0 .. M - 1, x = M * q + r
  PROVE  x % M = r
OBVIOUS

LEMMA ShortMod ==
  ASSUME NEW M \in Nat \ {0}, NEW x \in Int, 0 - M <= x, x < 2 * M
  PROVE  x % M = IF x < 0 THEN x + M ELSE IF x < M THEN x ELSE x - M
<1>1. CASE x < 0
  BY <1>1, RemainderIs
<1>2. CASE 0 <= x /\ x < M
  BY <1>2, RemainderIs
<1>3. CASE x >= M
  BY <1>3, RemainderIs
<1> QED BY <1>1, <1>2, <1>3

\* A tick brings every time that lies further ahead nearer by the tick.
LEMMA TickShift ==
  ASSUME NEW c \in EVTTIM, NEW x \in EVTTIM, NEW next, next = Wrap(c + TIC_NUME)
  PROVE  /\ Wrap(next - c) = TIC_NUME
         /\ Wrap(x - c) > TIC_NUME => Wrap(x - next) = Wrap(x - c) - TIC_NUME
<1>1. PICK M, t : M = 2 ^ EVTTIM_BITS /\ t = TIC_NUME
  OBVIOUS
<1>2. M \in Nat \ {0} /\ c \in Nat /\ c < M /\ x \in Nat /\ x < M /\ t \in Nat /\ t < M
  <2>1. M \in Nat \ {0} /\ t \in Nat
    BY <1>1, WordSize, Times
  <2>2. c \in 0 .. M - 1 /\ x \in 0 .. M - 1
    BY <1>1 DEF EVTTIM
  <2>3. t < M
    <3>1. PICK H : H = 2 ^ (EVTTIM_BITS - 1)
      OBVIOUS
    <3>2. H \in Nat \ {0} /\ t <= H
      BY <1>1, <3>1, WordSize, TickFitsWord
    <3>3. H < M
      BY <1>1, <3>1, HalfWord
    <3> QED BY <2>1, <3>2, <3>3
  <2> QED BY <2>1, <2>2, <2>3
<1>3. \A n \in Int : Wrap(n) = n % M
  BY <1>1 DEF Wrap
<1>4. ASSUME NEW y \in Int, 0 - M <= y, y < 2 * M
      PROVE  Wrap(y) = IF y < 0 THEN y + M ELSE IF y < M THEN y ELSE y - M
  BY <1>2, <1>3, <1>4, ShortMod
<1>5. next \in Nat /\ next < M /\ (next = c + t \/ next = c + t - M)
  <2>1. PICK y : y = c + t
    OBVIOUS
  <2>2. y \in Int /\ 0 - M <= y /\ y < 2 * M /\ y >= 0
    BY <1>2, <2>1
  <2>3. next = Wrap(y)
    BY <1>1, <2>1
  <2>4. next = IF y < M THEN y ELSE y - M
    BY <1>2, <1>4, <2>2, <2>3
  <2> QED BY <1>2, <2>1, <2>2, <2>4
<1>6. Wrap(next - c) = t
  <2>1. PICK y : y = next - c
    OBVIOUS
  <2>2. y \in Int /\ 0 - M <= y /\ y < 2 * M
    BY <1>2, <1>5, <2>1
  <2>3. Wrap(y) = IF y < 0 THEN y + M ELSE IF y < M THEN y ELSE y - M
    BY <1>4, <2>2
  <2> QED BY <1>2, <1>5, <2>1, <2>3
<1>7. ASSUME Wrap(x - c) > t PROVE Wrap(x - next) = Wrap(x - c) - t
  <2>1. PICK y, z : y = x - c /\ z = x - next
    OBVIOUS
  <2>2. y \in Int /\ 0 - M <= y /\ y < M /\ z \in Int /\ 0 - M <= z /\ z < M
    BY <1>2, <1>5, <2>1
  <2>3. Wrap(y) = IF y < 0 THEN y + M ELSE y
    BY <1>2, <1>4, <2>2
  <2>4. Wrap(z) = IF z < 0 THEN z + M ELSE z
    BY <1>2, <1>4, <2>2
  <2>5. Wrap(y) > t
    BY <1>7, <2>1
  <2>6. Wrap(z) = Wrap(y) - t
    BY <1>2, <1>5, <2>1, <2>2, <2>3, <2>4, <2>5
  <2> QED BY <2>1, <2>6
<1> QED BY <1>1, <1>6, <1>7

--------------------------------------------------------------------------------
(* The operations. *)

\* The time events as they should be: every block says where its node is, and no node is due
\* before its parent.
Heaped(k) ==
  /\ k.heap \in Seq(Node) /\ k.index \in [EventOwner -> Nat]
  /\ k.current_time \in EVTTIM /\ k.next_time \in EVTTIM
  /\ Indexed(k.heap, k.index, 0)
  /\ HeapOrder(k.heap, Due(k))

\* Only the heap has changed.
Moved(m, k) == m = [k EXCEPT !.heap = m.heap, !.index = m.index]

Unowned(k, owner) == \A node \in Elements(k.heap) : node.owner # owner

LEMMA FillMoved ==
  ASSUME NEW k, Clock \subseteq DOMAIN k, NEW r, Moved(r, k), NEW P, NEW node
  PROVE  Moved(Fill(r, P, node), k)
<1>1. PICK h, i : Fill(r, P, node) = [r EXCEPT !.heap = h, !.index = i]
  BY DEF Fill
<1>2. PICK m : m = [r EXCEPT !.heap = h, !.index = i]
  OBVIOUS
<1>3. "heap" \in DOMAIN k /\ "index" \in DOMAIN k
  BY DEF Clock
<1>4. r = [k EXCEPT !.heap = r.heap, !.index = r.index]
  BY DEF Moved
<1>5. m.heap = h /\ m.index = i
  BY <1>2, <1>3, <1>4
<1>6. m = [k EXCEPT !.heap = h, !.index = i]
  BY <1>2, <1>3, <1>4
<1>7. m = [k EXCEPT !.heap = m.heap, !.index = m.index]
  BY <1>5, <1>6
<1> QED BY <1>1, <1>2, <1>7 DEF Moved

LEMMA MovedFacts ==
  ASSUME NEW k, Clock \subseteq DOMAIN k, NEW m, Moved(m, k)
  PROVE  /\ DOMAIN m = DOMAIN k /\ Clock \subseteq DOMAIN m
         /\ \A f \in DOMAIN k : f # "heap" /\ f # "index" => m[f] = k[f]
         /\ m.current_time = k.current_time /\ m.next_time = k.next_time
<1>1. m = [k EXCEPT !.heap = m.heap, !.index = m.index]
  BY DEF Moved
<1>2. DOMAIN m = DOMAIN k
  BY <1>1
<1>3. \A f \in DOMAIN k : f # "heap" /\ f # "index" => m[f] = k[f]
  BY <1>1
<1>4. "current_time" \in DOMAIN k /\ "next_time" \in DOMAIN k
  BY DEF Clock
<1> QED BY <1>2, <1>3, <1>4

LEMMA SameDue ==
  ASSUME NEW k, NEW m, m.current_time = k.current_time
  PROVE  Due(m) = Due(k)
BY DEF Due, Ahead

\* Inserting: one more node, and all is as it should be.
THEOREM InsertHeaped ==
  ASSUME NEW k, Clock \subseteq DOMAIN k, Heaped(k), NEW owner \in EventOwner, Unowned(k, owner),
         NEW callback \in Callbacks, NEW time \in EVTTIM,
         NEW m, m = tmevtb_insert(k, owner, callback, time)
  PROVE  /\ Moved(m, k) /\ Heaped(m)
         /\ Elements(m.heap) =
              Elements(k.heap) \cup {[time |-> time, owner |-> owner, callback |-> callback]}
<1>1. PICK node : node = [time |-> time, owner |-> owner, callback |-> callback]
  OBVIOUS
<1>2. node \in Node /\ node.time = time /\ node.owner = owner
  BY <1>1 DEF Node
<1>3. PICK g : g = [k EXCEPT !.heap = Append(@, node)]
  OBVIOUS
<1>4. PICK N, P : N = Len(g.heap) /\ P = tmevt_up(g, N, time)
  OBVIOUS
<1>5. m = Fill(g, P, node)
  BY <1>1, <1>3, <1>4 DEF tmevtb_insert, last_index
<1>6. /\ k.heap \in Seq(Node) /\ k.index \in [EventOwner -> Nat]
      /\ k.current_time \in EVTTIM /\ k.next_time \in EVTTIM
      /\ Indexed(k.heap, k.index, 0) /\ HeapOrder(k.heap, Due(k))
  BY DEF Heaped
<1>7. /\ g.heap = Append(k.heap, node) /\ g.index = k.index /\ DOMAIN g = DOMAIN k
      /\ g.current_time = k.current_time
  BY <1>3 DEF Clock
<1>8. Moved(g, k)
  BY <1>3, <1>7 DEF Moved, Clock
<1>9. Clock \subseteq DOMAIN g
  BY <1>7
<1>10. /\ g.heap \in Seq(Node) /\ N = Len(k.heap) + 1 /\ N \in Nat /\ N \in 1 .. N
       /\ g.heap[N] = node /\ \A i \in 1 .. N - 1 : g.heap[i] = k.heap[i]
  BY <1>2, <1>4, <1>6, <1>7
<1>11. GoesUp(P, g.heap, node, Due(g)) /\ P[1] = N /\ Injective(P)
  <2>1. PICK index : index = N
    OBVIOUS
  <2>2. index \in 1 .. Len(g.heap) /\ P = tmevt_up(g, index, node.time) /\ g.current_time \in EVTTIM
    BY <1>2, <1>4, <1>6, <1>7, <1>10, <2>1
  <2>3. GoesUp(P, g.heap, node, Due(g)) /\ P[1] = index /\ Injective(P)
    BY <1>2, <1>10, <2>2, UpPath
  <2> QED BY <2>1, <2>3
<1>12. P \in Seq(1 .. Len(g.heap)) /\ Len(P) >= 1
  BY <1>11 DEF GoesUp
<1>13. m.heap \in Seq(Node) /\ Len(m.heap) = N /\ Filled(m.heap, g.heap, P, node)
  <2>1. Reheaped(m, g, Node, P, node)
    BY <1>2, <1>5, <1>9, <1>10, <1>11, <1>12, FillHeap
  <2> QED BY <1>4, <2>1 DEF Reheaped
<1>14. Indexed(g.heap, g.index, P[1])
  <2>1. \A i \in 1 .. N - 1 : k.index[k.heap[i].owner] = i
    BY <1>6, <1>10 DEF Indexed
  <2> QED BY <1>4, <1>7, <1>10, <1>11, <2>1 DEF Indexed
<1>15. \A i \in 1 .. Len(g.heap) : i # P[1] => g.heap[i].owner # node.owner
  <2>1. \A i \in 1 .. N - 1 : k.heap[i].owner # owner
    BY <1>6, <1>10 DEF Unowned, Elements
  <2> QED BY <1>2, <1>4, <1>10, <1>11, <2>1
<1>16. /\ m.index \in [EventOwner -> Nat] /\ Indexed(m.heap, m.index, 0)
       /\ Elements(m.heap) = Outside(g.heap, P[1]) \cup {node}
  <2>1. g.index \in [EventOwner -> Nat]
    BY <1>6, <1>7
  <2>2. Refilled(m, g, P[1], node)
    BY <1>2, <1>5, <1>9, <1>10, <1>11, <1>12, <1>14, <1>15, <2>1, FillIndex
  <2> QED BY <2>2 DEF Refilled
<1>17. Elements(m.heap) = Elements(k.heap) \cup {node}
  <2>1. 1 .. Len(g.heap) \ {P[1]} = 1 .. Len(k.heap)
    BY <1>4, <1>10, <1>11
  <2>2. Outside(g.heap, P[1]) = {k.heap[i] : i \in 1 .. Len(k.heap)}
    BY <1>10, <2>1 DEF Outside
  <2> QED BY <1>16, <2>2 DEF Elements
<1>18. Moved(m, k)
  BY <1>5, <1>8, FillMoved
<1>19. m.current_time = k.current_time /\ m.next_time = k.next_time
  BY <1>18, MovedFacts
<1>20. HeapOrder(m.heap, Due(m))
  <2>1. PICK key : key = Due(k)
    OBVIOUS
  <2>2. Due(g) = key /\ Due(m) = key
    BY <1>7, <1>19, <2>1, SameDue
  <2>3. key \in [Node -> Int]
    BY <1>6, <2>1, DueFacts
  <2>4. FitsAbove(P[1], g.heap, node, key)
    <3>1. \A i \in 2 .. N : i # N => key[g.heap[PARENT(i)]] <= key[g.heap[i]]
      <4>1. ASSUME NEW i \in 2 .. N, i # N PROVE key[g.heap[PARENT(i)]] <= key[g.heap[i]]
        <5>1. i \in 2 .. Len(k.heap) /\ i \in 1 .. N - 1 /\ Len(k.heap) \in Nat
          BY <1>6, <1>10, <4>1
        <5>2. PARENT(i) \in 1 .. Len(k.heap)
          BY <5>1, Halves
        <5>3. key[k.heap[PARENT(i)]] <= key[k.heap[i]]
          BY <1>6, <2>1, <5>1 DEF HeapOrder
        <5> QED BY <1>10, <5>1, <5>2, <5>3
      <4> QED BY <4>1
    <3>2. ~ (2 * N <= N)
      BY <1>10
    <3> QED BY <1>4, <1>11, <3>1, <3>2 DEF FitsAbove
  <2>5. GoesUp(P, g.heap, node, key) /\ Len(m.heap) = Len(g.heap)
    BY <1>4, <1>11, <1>13, <2>2
  <2>6. HeapOrder(m.heap, key)
    BY <1>2, <1>10, <1>13, <2>3, <2>4, <2>5, OrderUp
  <2> QED BY <2>2, <2>6
<1>21. Heaped(m)
  BY <1>6, <1>13, <1>16, <1>19, <1>20 DEF Heaped
<1> QED BY <1>1, <1>17, <1>18, <1>21

\* The heap without its last node, before the hole is filled.
Short(r, k, index, last) ==
  /\ Moved(r, k) /\ Clock \subseteq DOMAIN r /\ r.current_time = k.current_time
  /\ r.heap \in Seq(Node) /\ Len(r.heap) = Len(k.heap) - 1 /\ Len(k.heap) \in Nat
  /\ \A i \in 1 .. Len(r.heap) : r.heap[i] = k.heap[i]
  /\ r.index \in [EventOwner -> Nat] /\ Indexed(r.heap, r.index, index)
  /\ \A i \in 1 .. Len(r.heap) : r.heap[i].owner # last.owner
  /\ HeapOrder(r.heap, Due(k)) /\ last \in Node

LEMMA Shortened ==
  ASSUME NEW k, Clock \subseteq DOMAIN k, Heaped(k), k.heap # << >>, NEW owner \in EventOwner,
         NEW index \in 1 .. Len(k.heap), k.heap[index].owner = owner,
         NEW r, r = [k EXCEPT !.heap = SubSeq(@, 1, Len(@) - 1), !.index[owner] = 0],
         NEW last, last = k.heap[Len(k.heap)]
  PROVE  Short(r, k, index, last)
<1>1. /\ k.heap \in Seq(Node) /\ k.index \in [EventOwner -> Nat]
      /\ Indexed(k.heap, k.index, 0) /\ HeapOrder(k.heap, Due(k))
  BY DEF Heaped
<1>2. /\ r.heap = SubSeq(k.heap, 1, Len(k.heap) - 1) /\ r.index = [k.index EXCEPT ![owner] = 0]
      /\ DOMAIN r = DOMAIN k /\ r.current_time = k.current_time
  BY DEF Clock
<1>3. Moved(r, k)
  BY <1>2 DEF Moved, Clock
<1>4. PICK n : n = Len(k.heap) - 1
  OBVIOUS
<1>5. n \in Nat /\ Len(k.heap) = n + 1 /\ \A i \in 1 .. n + 1 : k.heap[i] \in Node
  BY <1>1, <1>4
<1>6. r.heap \in Seq(Node) /\ Len(r.heap) = n /\ \A i \in 1 .. n : r.heap[i] = k.heap[i]
  BY <1>1, <1>2, <1>4, <1>5
<1>7. \A i \in 1 .. n + 1 : k.index[k.heap[i].owner] = i /\ k.heap[i].owner \in EventOwner
  <2>1. \A i \in 1 .. n + 1 : k.index[k.heap[i].owner] = i
    BY <1>1, <1>5 DEF Indexed
  <2> QED BY <1>5, <2>1 DEF Node
<1>8. \A i, j \in 1 .. n + 1 : k.heap[i].owner = k.heap[j].owner => i = j
  BY <1>7
<1>9. Indexed(r.heap, r.index, index)
  <2>1. ASSUME NEW i \in 1 .. n, i # index PROVE r.index[r.heap[i].owner] = i
    <3>1. i \in 1 .. n + 1 /\ index \in 1 .. n + 1
      BY <1>5
    <3>2. k.heap[i].owner # owner
      BY <1>8, <2>1, <3>1
    <3> QED BY <1>1, <1>2, <1>6, <1>7, <3>1, <3>2
  <2> QED BY <1>6, <2>1 DEF Indexed
<1>10. r.index \in [EventOwner -> Nat]
  BY <1>1, <1>2
<1>11. ASSUME NEW i \in 1 .. n PROVE r.heap[i].owner # last.owner
  <2>1. i \in 1 .. n + 1 /\ n + 1 \in 1 .. n + 1 /\ i # n + 1
    BY <1>5
  <2> QED BY <1>5, <1>6, <1>8, <2>1
<1>12. HeapOrder(r.heap, Due(k))
  <2>1. PICK key : key = Due(k)
    OBVIOUS
  <2>2. ASSUME NEW i \in 2 .. n PROVE key[r.heap[PARENT(i)]] <= key[r.heap[i]]
    <3>1. i \in 2 .. n + 1 /\ i \in 1 .. n
      BY <1>5
    <3>2. PARENT(i) \in 1 .. n
      BY <1>5, Halves
    <3>3. key[k.heap[PARENT(i)]] <= key[k.heap[i]]
      BY <1>1, <1>5, <2>1, <3>1 DEF HeapOrder
    <3> QED BY <1>6, <3>1, <3>2, <3>3
  <2> QED BY <1>6, <2>1, <2>2 DEF HeapOrder
<1>13. last \in Node
  <2>1. n + 1 \in 1 .. n + 1
    BY <1>5
  <2> QED BY <1>5, <2>1
<1>14. Clock \subseteq DOMAIN r /\ Len(r.heap) = Len(k.heap) - 1 /\ Len(k.heap) \in Nat
  BY <1>2, <1>4, <1>5, <1>6
<1> QED BY <1>2, <1>3, <1>6, <1>9, <1>10, <1>11, <1>12, <1>13, <1>14 DEF Short

\* The hole past the end needs no filling.
LEMMA NothingFilled ==
  ASSUME NEW r, Clock \subseteq DOMAIN r, r.heap \in Seq(Node), r.index \in [EventOwner -> Nat],
         NEW P, Len(P) = 1, P[1] = Len(r.heap) + 1, NEW node,
         NEW m, m = Fill(r, P, node)
  PROVE  m.heap = r.heap /\ m.index = r.index
<1>1. Len(r.heap) \in Nat /\ DOMAIN r.heap = 1 .. Len(r.heap)
  OBVIOUS
<1>2. PICK moved : moved = {i \in DOMAIN r.heap : \E n \in 1 .. Len(P) : P[n] = i}
  OBVIOUS
<1>3. moved = {}
  BY <1>1, <1>2
<1>4. m.heap = [i \in DOMAIN r.heap |-> r.heap[i]]
  BY <1>2, <1>3 DEF Fill, Clock
<1>5. m.index = [o \in EventOwner |-> r.index[o]]
  BY <1>2, <1>3 DEF Fill, Clock
<1> QED BY <1>4, <1>5

\* The nodes that remain when an owner's node is deleted.
Without(k, owner) == {node \in Elements(k.heap) : node.owner # owner}

LEMMA OrderFilled ==
  ASSUME NEW g \in Seq(Node), NEW h \in Seq(Node), Len(h) = Len(g), NEW node \in Node,
         NEW key \in [Node -> Int], NEW P, HeapOrder(g, key), Filled(h, g, P, node),
         \/ GoesUp(P, g, node, key) /\ FitsAbove(P[1], g, node, key)
         \/ GoesDown(P, g, node, key) /\ FitsBelow(P[1], g, node, key)
  PROVE  HeapOrder(h, key)
<1>1. CASE GoesUp(P, g, node, key) /\ FitsAbove(P[1], g, node, key)
  BY <1>1, OrderUp
<1>2. CASE GoesDown(P, g, node, key) /\ FitsBelow(P[1], g, node, key)
  BY <1>2, OrderDown
<1> QED BY <1>1, <1>2

Deleted(m, k, owner) == Moved(m, k) /\ Heaped(m) /\ Elements(m.heap) = Without(k, owner)

\* The hole is filled by the last node, in either direction.
LEMMA DeleteFills ==
  ASSUME NEW k, Clock \subseteq DOMAIN k, Heaped(k), k.heap # << >>, NEW owner \in EventOwner,
         NEW index \in 1 .. Len(k.heap), k.heap[index].owner = owner,
         NEW r, NEW last, Short(r, k, index, last),
         last = k.heap[Len(k.heap)], index # Len(k.heap),
         NEW P \in Seq(1 .. Len(r.heap)), Len(P) >= 1, Injective(P), P[1] = index,
         \/ GoesUp(P, r.heap, last, Due(k)) /\ FitsAbove(index, r.heap, last, Due(k))
         \/ GoesDown(P, r.heap, last, Due(k)) /\ FitsBelow(index, r.heap, last, Due(k)),
         NEW m, m = Fill(r, P, last)
  PROVE  Deleted(m, k, owner)
<1>1. /\ Moved(r, k) /\ Clock \subseteq DOMAIN r /\ r.current_time = k.current_time
      /\ r.heap \in Seq(Node) /\ Len(r.heap) = Len(k.heap) - 1 /\ Len(k.heap) \in Nat
      /\ \A i \in 1 .. Len(r.heap) : r.heap[i] = k.heap[i]
      /\ r.index \in [EventOwner -> Nat] /\ Indexed(r.heap, r.index, index)
      /\ \A i \in 1 .. Len(r.heap) : r.heap[i].owner # last.owner
      /\ HeapOrder(r.heap, Due(k)) /\ last \in Node
  BY DEF Short
<1>2. Moved(m, k)
  BY <1>1, FillMoved
<1>3. m.current_time = k.current_time /\ m.next_time = k.next_time
  BY <1>2, MovedFacts
<1>4. /\ k.heap \in Seq(Node) /\ k.current_time \in EVTTIM /\ k.next_time \in EVTTIM
      /\ Indexed(k.heap, k.index, 0)
  BY DEF Heaped
<1>5. Reheaped(m, r, Node, P, last)
  BY <1>1, FillHeap
<1>6. m.heap \in Seq(Node) /\ Len(m.heap) = Len(r.heap)
  BY <1>5 DEF Reheaped
<1>7. Filled(m.heap, r.heap, P, last)
  BY <1>5 DEF Reheaped
<1>8. Refilled(m, r, P[1], last)
  <2>1. \A i \in 1 .. Len(r.heap) : i # P[1] => r.heap[i].owner # last.owner
    BY <1>1
  <2> QED BY <1>1, <2>1, FillIndex
<1>9. HeapOrder(m.heap, Due(m))
  <2>1. PICK key : key = Due(k)
    OBVIOUS
  <2>2. Due(m) = key /\ key \in [Node -> Int]
    <3>1. Due(k) \in [Node -> Int]
      BY <1>4, DueFacts
    <3> QED BY <1>3, <2>1, <3>1, SameDue
  <2>3. PICK g, h : g = r.heap /\ h = m.heap
    OBVIOUS
  <2>4. g \in Seq(Node) /\ h \in Seq(Node) /\ Len(h) = Len(g) /\ last \in Node
    BY <1>1, <1>6, <2>3
  <2>5. HeapOrder(g, key) /\ Filled(h, g, P, last)
    BY <1>1, <1>7, <2>1, <2>3
  <2>6. \/ GoesUp(P, g, last, key) /\ FitsAbove(P[1], g, last, key)
        \/ GoesDown(P, g, last, key) /\ FitsBelow(P[1], g, last, key)
    BY <2>1, <2>3
  <2>7. HeapOrder(h, key)
    BY <2>2, <2>4, <2>5, <2>6, OrderFilled
  <2> QED BY <2>2, <2>3, <2>7
<1>10. Elements(m.heap) = Without(k, owner)
  <2>1. PICK n : n = Len(r.heap) /\ n \in Nat /\ Len(k.heap) = n + 1
    BY <1>1
  <2>2. Elements(m.heap) = Outside(r.heap, index) \cup {last}
    BY <1>8 DEF Refilled
  <2>3. \A i, j \in 1 .. n + 1 : k.heap[i].owner = k.heap[j].owner => i = j
    <3>1. \A i \in 1 .. n + 1 : k.index[k.heap[i].owner] = i
      BY <1>4, <2>1 DEF Indexed
    <3> QED BY <3>1
  <2>4. ASSUME NEW i \in 1 .. n + 1
        PROVE  k.heap[i] \in Outside(r.heap, index) \cup {last} <=> k.heap[i].owner # owner
    <3>1. CASE i = index
      <4>1. k.heap[i] \notin Outside(r.heap, index)
        <5>1. ASSUME NEW j \in 1 .. n, j # index PROVE r.heap[j] # k.heap[i]
          <6>1. j \in 1 .. n + 1
            BY <2>1
          <6> QED BY <1>1, <2>1, <2>3, <3>1, <5>1, <6>1
        <5> QED BY <2>1, <5>1 DEF Outside
      <4>2. k.heap[i] # last
        <5>1. n + 1 \in 1 .. n + 1 /\ last = k.heap[n + 1] /\ i # n + 1
          BY <2>1, <3>1
        <5> QED BY <2>3, <5>1
      <4> QED BY <3>1, <4>1, <4>2
    <3>2. CASE i # index
      <4>1. k.heap[i].owner # owner
        <5>1. index \in 1 .. n + 1
          BY <2>1
        <5> QED BY <2>3, <3>2, <5>1
      <4>2. CASE i = n + 1
        BY <2>1, <4>1, <4>2
      <4>3. CASE i # n + 1
        <5>1. i \in 1 .. n /\ r.heap[i] = k.heap[i]
          BY <1>1, <2>1, <4>3
        <5> QED BY <2>1, <3>2, <4>1, <5>1 DEF Outside
      <4> QED BY <4>2, <4>3
    <3> QED BY <3>1, <3>2
  <2>5. \A e \in Outside(r.heap, index) \cup {last} : \E i \in 1 .. n + 1 : e = k.heap[i]
    <3>1. \A i \in 1 .. n : i \in 1 .. n + 1 /\ r.heap[i] = k.heap[i]
      BY <1>1, <2>1
    <3>2. n + 1 \in 1 .. n + 1 /\ last = k.heap[n + 1]
      BY <2>1
    <3> QED BY <2>1, <3>1, <3>2 DEF Outside
  <2>6. PICK E : E = Outside(r.heap, index) \cup {last}
    OBVIOUS
  <2>7. E = {e \in Elements(k.heap) : e.owner # owner}
    <3>1. \A e \in E : \E i \in 1 .. n + 1 : e = k.heap[i]
      BY <2>5, <2>6
    <3>2. \A i \in 1 .. n + 1 : k.heap[i] \in E <=> k.heap[i].owner # owner
      BY <2>4, <2>6
    <3>3. Elements(k.heap) = {k.heap[i] : i \in 1 .. n + 1}
      BY <2>1 DEF Elements
    <3> QED BY <3>1, <3>2, <3>3
  <2> QED BY <2>2, <2>6, <2>7 DEF Without
<1>11. m.index \in [EventOwner -> Nat] /\ Indexed(m.heap, m.index, 0)
  BY <1>8 DEF Refilled
<1> QED BY <1>2, <1>3, <1>4, <1>6, <1>9, <1>10, <1>11 DEF Heaped, Deleted

\* Deleting: the owner's node has gone, and all is as it should be.
THEOREM DeleteHeaped ==
  ASSUME NEW k, Clock \subseteq DOMAIN k, Heaped(k), NEW owner \in EventOwner, ~ Unowned(k, owner),
         NEW m, m = tmevtb_delete(k, owner)
  PROVE  Deleted(m, k, owner)
<1>1. PICK i0 \in 1 .. Len(k.heap) : k.heap[i0].owner = owner
  BY DEF Unowned, Elements
<1>2. /\ k.heap \in Seq(Node) /\ k.index \in [EventOwner -> Nat]
      /\ k.current_time \in EVTTIM /\ k.next_time \in EVTTIM
      /\ Indexed(k.heap, k.index, 0) /\ HeapOrder(k.heap, Due(k))
  BY DEF Heaped
<1>3. PICK index \in 1 .. Len(k.heap) : index = k.index[owner] /\ k.heap[index].owner = owner
  <2>1. k.index[k.heap[i0].owner] = i0
    BY <1>1, <1>2 DEF Indexed
  <2> QED BY <1>1, <2>1
<1>4. PICK r, last : /\ r = [k EXCEPT !.heap = SubSeq(@, 1, Len(@) - 1), !.index[owner] = 0]
                     /\ last = k.heap[Len(k.heap)]
  OBVIOUS
<1>5. k.heap # << >> /\ Len(k.heap) \in Nat /\ Len(k.heap) >= 1
  BY <1>2, <1>3
<1>0. Short(r, k, index, last)
  BY <1>3, <1>4, <1>5, Shortened
<1>6. /\ Moved(r, k) /\ Clock \subseteq DOMAIN r /\ r.current_time = k.current_time
      /\ r.heap \in Seq(Node) /\ Len(r.heap) = Len(k.heap) - 1
      /\ \A i \in 1 .. Len(r.heap) : r.heap[i] = k.heap[i]
      /\ r.index \in [EventOwner -> Nat] /\ Indexed(r.heap, r.index, index)
      /\ HeapOrder(r.heap, Due(k)) /\ last \in Node
  BY <1>0 DEF Short
<1>7. PICK n : n = Len(r.heap) /\ n \in Nat /\ Len(k.heap) = n + 1
  BY <1>5, <1>6
<1>8. m = IF r.heap = << >> THEN r
          ELSE IF index > 1 /\ EVTTIM_LT(k, last.time, k.heap[PARENT(index)].time)
          THEN Fill(r, tmevt_up(r, index, last.time), last)
          ELSE Fill(r, tmevt_down(r, index, last.time), last)
  BY <1>3, <1>4 DEF tmevtb_delete, last_index
<1>9. r.heap = << >> <=> n = 0
  <2>1. r.heap \in Seq(Node) /\ Len(r.heap) = n
    BY <1>6, <1>7
  <2> QED BY <2>1
<1>10. PICK key : key = Due(k)
  OBVIOUS
<1>11. key \in [Node -> Int] /\ Due(r) = key
       /\ \A other \in Node : key[other] = Ahead(k, other.time) /\ key[other] \in Int
  <2>1. Due(k) \in [Node -> Int] /\ \A other \in Node : Due(k)[other] = Ahead(k, other.time)
    BY <1>2, DueFacts
  <2> QED BY <1>6, <1>10, <2>1, SameDue
<1>12. \A i \in 1 .. n + 1 : k.heap[i] \in Node /\ key[k.heap[i]] \in Int
  BY <1>2, <1>7, <1>11
\* The last node itself is deleted.
<1>13. ASSUME index = n + 1, m.heap = r.heap, m.index = r.index, Moved(m, k)
       PROVE  Deleted(m, k, owner)
  <2>1. m.current_time = k.current_time /\ m.next_time = k.next_time
    BY <1>13, MovedFacts
  <2>2. Due(m) = key
    BY <1>10, <2>1, SameDue
  <2>3. Indexed(m.heap, m.index, 0)
    BY <1>6, <1>7, <1>13 DEF Indexed
  <2>4. Heaped(m)
    BY <1>2, <1>6, <1>10, <1>13, <2>1, <2>2, <2>3 DEF Heaped
  <2>5. \A i, j \in 1 .. n + 1 : k.heap[i].owner = k.heap[j].owner => i = j
    <3>1. \A i \in 1 .. n + 1 : k.index[k.heap[i].owner] = i
      BY <1>2, <1>7 DEF Indexed
    <3> QED BY <3>1
  <2>6. \A i \in 1 .. n + 1 : k.heap[i].owner # owner <=> i # n + 1
    BY <1>3, <1>7, <1>13, <2>5
  <2>7. \A i \in 1 .. n + 1 : i # n + 1 <=> i \in 1 .. n
    BY <1>7
  <2>8. Elements(m.heap) = {k.heap[i] : i \in 1 .. n}
    <3>1. PICK h : h = m.heap
      OBVIOUS
    <3>2. Len(h) = n /\ \A i \in 1 .. n : h[i] = k.heap[i]
      BY <1>6, <1>7, <1>13, <3>1
    <3>3. Elements(h) = {h[i] : i \in 1 .. n}
      BY <3>2 DEF Elements
    <3>4. {h[i] : i \in 1 .. n} = {k.heap[i] : i \in 1 .. n}
      BY <3>2
    <3> QED BY <3>1, <3>3, <3>4
  <2>9. {k.heap[i] : i \in 1 .. n} = {e \in Elements(k.heap) : e.owner # owner}
    <3>1. PICK h : h = k.heap /\ Len(h) = n + 1
      BY <1>7
    <3>2. \A i \in 1 .. n + 1 : h[i].owner # owner <=> i \in 1 .. n
      BY <2>6, <2>7, <3>1
    <3>3. Elements(h) = {h[i] : i \in 1 .. n + 1}
      BY <3>1 DEF Elements
    <3>4. \A i \in 1 .. n : i \in 1 .. n + 1
      BY <1>7
    <3>5. {h[i] : i \in 1 .. n} = {e \in {h[i] : i \in 1 .. n + 1} : e.owner # owner}
      BY <3>2, <3>4
    <3> QED BY <3>1, <3>3, <3>5
  <2> QED BY <1>13, <2>4, <2>8, <2>9 DEF Without, Deleted
<1>14. CASE n = 0
  <2>1. m = r /\ index = n + 1
    BY <1>3, <1>7, <1>8, <1>9, <1>14
  <2> QED BY <1>6, <1>13, <2>1
<1>15. CASE n # 0 /\ index > 1 /\ EVTTIM_LT(k, last.time, k.heap[PARENT(index)].time)
  <2>1. PICK P : P = tmevt_up(r, index, last.time)
    OBVIOUS
  <2>2. m = Fill(r, P, last)
    BY <1>8, <1>9, <1>15, <2>1
  <2>3. index \in 2 .. n + 1 /\ PARENT(index) \in 1 .. n + 1
    <3>1. PICK l : l = n + 1
      OBVIOUS
    <3>2. l \in Nat /\ index \in 2 .. l
      BY <1>3, <1>7, <1>15, <3>1
    <3>3. PARENT(index) \in 1 .. l
      BY <3>2, Halves
    <3> QED BY <3>1, <3>2, <3>3
  <2>4. key[last] < key[k.heap[PARENT(index)]] /\ key[k.heap[PARENT(index)]] <= key[k.heap[index]]
    <3>1. key[k.heap[PARENT(index)]] <= key[k.heap[index]]
      BY <1>2, <1>7, <1>10, <2>3 DEF HeapOrder
    <3>2. key[last] = Ahead(k, last.time) /\ k.heap[PARENT(index)] \in Node
      BY <1>6, <1>11, <1>12, <2>3
    <3>3. key[k.heap[PARENT(index)]] = Ahead(k, k.heap[PARENT(index)].time)
      BY <1>11, <3>2
    <3> QED BY <1>15, <3>1, <3>2, <3>3 DEF EVTTIM_LT
  <2>5. key[last] < key[k.heap[index]]
    <3>1. key[last] \in Int /\ key[k.heap[PARENT(index)]] \in Int /\ key[k.heap[index]] \in Int
      BY <1>6, <1>7, <1>11, <1>12, <2>3
    <3> QED BY <2>4, <3>1
  <2>6. index # n + 1
    <3>1. key[last] \in Int
      BY <1>6, <1>11
    <3> QED BY <1>4, <1>7, <2>5, <3>1
  <2>7. index \in 1 .. n
    BY <1>7, <2>3, <2>6
  <2>8. GoesUp(P, r.heap, last, key) /\ P[1] = index /\ Injective(P)
    <3>1. index \in 1 .. Len(r.heap) /\ r.current_time \in EVTTIM
      BY <1>2, <1>6, <1>7, <2>7
    <3>2. GoesUp(P, r.heap, last, Due(r)) /\ P[1] = index /\ Injective(P)
      BY <1>6, <2>1, <3>1, UpPath
    <3> QED BY <1>11, <3>2
  <2>9. P \in Seq(1 .. Len(r.heap)) /\ Len(P) >= 1
    BY <2>8 DEF GoesUp
  <2>10. FitsAbove(index, r.heap, last, key)
    <3>1. \A i \in 2 .. n : key[r.heap[PARENT(i)]] <= key[r.heap[i]]
      BY <1>6, <1>7, <1>10 DEF HeapOrder
    <3>2. key[last] <= key[r.heap[index]]
      <4>1. r.heap[index] = k.heap[index] /\ k.heap[index] \in Node /\ key[last] \in Int
        BY <1>6, <1>7, <1>11, <1>12, <2>3, <2>7
      <4>2. key[k.heap[index]] \in Int
        BY <1>11, <4>1
      <4> QED BY <2>5, <4>1, <4>2
    <3> QED BY <1>7, <3>1, <3>2 DEF FitsAbove
  <2>11. index # Len(k.heap)
    BY <1>7, <2>6
  <2>12. \/ GoesUp(P, r.heap, last, Due(k)) /\ FitsAbove(index, r.heap, last, Due(k))
         \/ GoesDown(P, r.heap, last, Due(k)) /\ FitsBelow(index, r.heap, last, Due(k))
    BY <1>10, <2>8, <2>10
  <2> QED BY <1>3, <1>4, <1>0, <1>5, <2>2, <2>8, <2>9, <2>11, <2>12, DeleteFills
<1>16. CASE n # 0 /\ ~ (index > 1 /\ EVTTIM_LT(k, last.time, k.heap[PARENT(index)].time))
  <2>1. PICK P : P = tmevt_down(r, index, last.time)
    OBVIOUS
  <2>2. m = Fill(r, P, last)
    BY <1>8, <1>9, <1>16, <2>1
  <2>3. /\ P[1] = index /\ Injective(P)
        /\ index <= n => GoesDown(P, r.heap, last, key)
        /\ index = n + 1 => Len(P) = 1
    <3>1. index \in 1 .. Len(r.heap) + 1 /\ r.current_time \in EVTTIM
      BY <1>2, <1>6, <1>7
    <3>2. /\ P[1] = index /\ Injective(P)
          /\ index <= Len(r.heap) => GoesDown(P, r.heap, last, Due(r))
          /\ index = Len(r.heap) + 1 => Len(P) = 1
      BY <1>6, <2>1, <3>1, DownPath
    <3> QED BY <1>7, <1>11, <3>2
  <2>4. CASE index = n + 1
    <3>1. P[1] = Len(r.heap) + 1 /\ Len(P) = 1
      BY <1>7, <2>3, <2>4
    <3>0. Clock \subseteq DOMAIN r /\ r.heap \in Seq(Node) /\ r.index \in [EventOwner -> Nat]
      BY <1>6
    <3>2. m.heap = r.heap /\ m.index = r.index
      BY <2>2, <3>0, <3>1, NothingFilled
    <3>3. Moved(m, k)
      BY <1>6, <2>2, FillMoved
    <3> QED BY <1>13, <2>4, <3>2, <3>3
  <2>5. CASE index # n + 1
    <3>1. index \in 1 .. n /\ index <= n /\ index # Len(k.heap)
      BY <1>3, <1>7, <2>5
    <3>2. GoesDown(P, r.heap, last, key)
      BY <2>3, <3>1
    <3>3. P \in Seq(1 .. Len(r.heap)) /\ Len(P) >= 1
      BY <3>2 DEF GoesDown
    <3>4. FitsBelow(index, r.heap, last, key)
      <4>1. SUFFICES ASSUME index # 1 PROVE key[r.heap[PARENT(index)]] <= key[last]
        BY DEF FitsBelow
      <4>2. index \in 2 .. n /\ index > 1
        BY <1>7, <3>1, <4>1
      <4>3. PARENT(index) \in 1 .. n
        BY <1>7, <4>2, Halves
      <4>4. r.heap[PARENT(index)] = k.heap[PARENT(index)] /\ k.heap[PARENT(index)] \in Node
        BY <1>6, <1>7, <1>12, <4>3
      <4>5. ~ (Ahead(k, last.time) < Ahead(k, k.heap[PARENT(index)].time))
        BY <1>16, <4>2 DEF EVTTIM_LT
      <4>6. ~ (key[last] < key[k.heap[PARENT(index)]])
        BY <1>6, <1>11, <4>4, <4>5
      <4>7. key[last] \in Int /\ key[k.heap[PARENT(index)]] \in Int
        BY <1>6, <1>11, <4>4
      <4> QED BY <4>4, <4>6, <4>7
    <3>5. \/ GoesUp(P, r.heap, last, Due(k)) /\ FitsAbove(index, r.heap, last, Due(k))
          \/ GoesDown(P, r.heap, last, Due(k)) /\ FitsBelow(index, r.heap, last, Due(k))
      BY <1>10, <3>2, <3>4
    <3> QED BY <1>3, <1>4, <1>0, <1>5, <2>2, <2>3, <3>1, <3>3, <3>5, DeleteFills
  <2> QED BY <2>4, <2>5
<1> QED BY <1>14, <1>15, <1>16

\* The node at the top is due first: an event that is due is never missed by looking there.
THEOREM RootFirst ==
  ASSUME NEW k, Heaped(k)
  PROVE  \A i \in 1 .. Len(k.heap) : Ahead(k, k.heap[1].time) <= Ahead(k, k.heap[i].time)
<1>1. PICK n, key : n = Len(k.heap) /\ key = Due(k)
  OBVIOUS
<1>2. /\ k.heap \in Seq(Node) /\ k.current_time \in EVTTIM
      /\ \A i \in 2 .. n : key[k.heap[PARENT(i)]] <= key[k.heap[i]]
  BY <1>1 DEF Heaped, HeapOrder
<1>3. n \in Nat /\ \A i \in 1 .. n : k.heap[i] \in Node
  BY <1>1, <1>2
<1>4. \A other \in Node : key[other] = Ahead(k, other.time) /\ key[other] \in Int
  <2>1. Due(k) \in [Node -> Int] /\ \A other \in Node : Due(k)[other] = Ahead(k, other.time)
    BY <1>2, DueFacts
  <2> QED BY <1>1, <2>1
<1>5. \A i \in 1 .. n : key[k.heap[i]] = Ahead(k, k.heap[i].time) /\ key[k.heap[i]] \in Int
  BY <1>3, <1>4
<1>6. PICK late : late = {i \in 1 .. n : ~ (key[k.heap[1]] <= key[k.heap[i]])}
  OBVIOUS
<1>7. late = {}
  <2>1. SUFFICES ASSUME late # {} PROVE FALSE
    OBVIOUS
  <2>2. late \subseteq Nat
    BY <1>3, <1>6
  <2>3. PICK i \in late : \A j \in late : i <= j
    BY <2>1, <2>2, LeastNumber
  <2>4. i \in 1 .. n /\ 1 \in 1 .. n /\ ~ (key[k.heap[1]] <= key[k.heap[i]])
    BY <1>3, <1>6, <2>3
  <2>5. key[k.heap[1]] \in Int /\ key[k.heap[i]] \in Int
    BY <1>5, <2>4
  <2>6. i \in 2 .. n
    BY <1>3, <2>4, <2>5
  <2>7. PICK p : p = PARENT(i)
    OBVIOUS
  <2>8. p \in 1 .. n /\ p < i /\ key[k.heap[p]] <= key[k.heap[i]]
    BY <1>2, <1>3, <2>6, <2>7, Halves
  <2>9. key[k.heap[p]] \in Int
    BY <1>5, <2>8
  <2>10. ~ (key[k.heap[1]] <= key[k.heap[p]])
    BY <2>4, <2>5, <2>8, <2>9
  <2>11. p \in late
    BY <1>6, <2>8, <2>10
  <2>12. i <= p
    BY <2>3, <2>11
  <2> QED BY <1>3, <2>6, <2>8, <2>12
<1>8. ASSUME NEW i \in 1 .. n PROVE Ahead(k, k.heap[1].time) <= Ahead(k, k.heap[i].time)
  <2>1. 1 \in 1 .. n
    BY <1>3
  <2>2. key[k.heap[1]] <= key[k.heap[i]]
    BY <1>6, <1>7
  <2> QED BY <1>5, <2>1, <2>2
<1> QED BY <1>1, <1>8

\* The tick ends when nothing is due: all that is left is nearer by the tick, in the same order.
THEOREM TickHeaped ==
  ASSUME NEW k, Clock \subseteq DOMAIN k, Heaped(k), k.next_time = Wrap(k.current_time + TIC_NUME),
         ~ EventDue(k), NEW m, m = NextTick(k)
  PROVE  /\ Heaped(m) /\ m.next_time = Wrap(m.current_time + TIC_NUME)
         /\ \A i \in 1 .. Len(k.heap) :
              Ahead(m, k.heap[i].time) = Ahead(k, k.heap[i].time) - TIC_NUME
<1>1. /\ m.heap = k.heap /\ m.index = k.index /\ m.current_time = k.next_time
      /\ m.next_time = Wrap(k.next_time + TIC_NUME)
  BY DEF NextTick, Clock
<1>2. /\ k.heap \in Seq(Node) /\ k.index \in [EventOwner -> Nat]
      /\ k.current_time \in EVTTIM /\ k.next_time \in EVTTIM
      /\ Indexed(k.heap, k.index, 0) /\ HeapOrder(k.heap, Due(k))
  BY DEF Heaped
<1>3. PICK n : n = Len(k.heap)
  OBVIOUS
<1>4. n \in Nat /\ \A i \in 1 .. n : k.heap[i] \in Node /\ k.heap[i].time \in EVTTIM
  <2>1. n \in Nat /\ \A i \in 1 .. n : k.heap[i] \in Node
    BY <1>2, <1>3
  <2> QED BY <2>1 DEF Node
<1>5. \A i \in 1 .. n : Ahead(k, k.heap[i].time) \in Nat
  BY <1>2, <1>4, DueFacts, Times
<1>6. ASSUME NEW i \in 1 .. n
      PROVE  Ahead(m, k.heap[i].time) = Ahead(k, k.heap[i].time) - TIC_NUME
  <2>1. 1 \in 1 .. n /\ k.heap # << >>
    BY <1>2, <1>3, <1>4
  <2>2. Ahead(k, k.next_time) = TIC_NUME
    BY <1>2, TickShift DEF Ahead
  <2>3. ~ (Ahead(k, k.heap[1].time) <= TIC_NUME)
    BY <2>1, <2>2 DEF EventDue, EVTTIM_LE
  <2>4. Ahead(k, k.heap[1].time) <= Ahead(k, k.heap[i].time)
    BY <1>3, RootFirst
  <2>5. Ahead(k, k.heap[i].time) > TIC_NUME
    BY <1>5, <2>1, <2>3, <2>4, Times
  <2>6. Wrap(k.heap[i].time - k.current_time) > TIC_NUME
    BY <2>5 DEF Ahead
  <2>7. PICK x, c, next : x = k.heap[i].time /\ c = k.current_time /\ next = k.next_time
    OBVIOUS
  <2>8. Wrap(x - next) = Wrap(x - c) - TIC_NUME
    BY <1>2, <1>4, <2>6, <2>7, TickShift
  <2> QED BY <1>1, <2>7, <2>8 DEF Ahead
<1>7. HeapOrder(m.heap, Due(m))
  <2>1. ASSUME NEW i \in 2 .. n PROVE Due(m)[m.heap[PARENT(i)]] <= Due(m)[m.heap[i]]
    <3>1. PICK p : p = PARENT(i)
      OBVIOUS
    <3>2. p \in 1 .. n /\ i \in 1 .. n
      BY <1>4, <3>1, Halves
    <3>3. Due(k)[k.heap[p]] <= Due(k)[k.heap[i]]
      BY <1>2, <1>3, <3>1 DEF HeapOrder
    <3>4. /\ Due(k)[k.heap[p]] = Ahead(k, k.heap[p].time)
          /\ Due(k)[k.heap[i]] = Ahead(k, k.heap[i].time)
          /\ Due(m)[k.heap[p]] = Ahead(m, k.heap[p].time)
          /\ Due(m)[k.heap[i]] = Ahead(m, k.heap[i].time)
      BY <1>4, <3>2 DEF Due
    <3>5. /\ Ahead(m, k.heap[p].time) = Ahead(k, k.heap[p].time) - TIC_NUME
          /\ Ahead(m, k.heap[i].time) = Ahead(k, k.heap[i].time) - TIC_NUME
      BY <1>6, <3>2
    <3>6. Ahead(k, k.heap[p].time) \in Nat /\ Ahead(k, k.heap[i].time) \in Nat /\ TIC_NUME \in Nat
      BY <1>5, <3>2, Times
    <3>7. Due(m)[k.heap[p]] <= Due(m)[k.heap[i]]
      BY <3>3, <3>4, <3>5, <3>6
    <3> QED BY <1>1, <3>1, <3>7
  <2> QED BY <1>1, <1>3, <2>1 DEF HeapOrder
<1>8. m.next_time \in EVTTIM
  <2>0. k.next_time \in Nat /\ TIC_NUME \in Nat
    BY <1>2, Times
  <2>1. k.next_time + TIC_NUME \in Int
    BY <2>0
  <2> QED BY <1>1, <2>1, Times
<1>9. Heaped(m)
  BY <1>1, <1>2, <1>7, <1>8 DEF Heaped
<1> QED BY <1>1, <1>3, <1>6, <1>9

--------------------------------------------------------------------------------
(* Queues of tasks. *)

LEMMA AppendedSet ==
  ASSUME NEW S, NEW q \in Seq(S), NEW e \in S
  PROVE  /\ Append(q, e) \in Seq(S) /\ Append(q, e) # << >>
         /\ Elements(Append(q, e)) = Elements(q) \cup {e}
         /\ Distinct(q) /\ e \notin Elements(q) => Distinct(Append(q, e))
<1>1. PICK p, n : p = Append(q, e) /\ n = Len(q)
  OBVIOUS
<1>2. /\ n \in Nat /\ p \in Seq(S) /\ Len(p) = n + 1 /\ p[n + 1] = e
      /\ \A j \in 1 .. n : p[j] = q[j]
  BY <1>1
<1>3. \A j \in 1 .. n + 1 : j \in 1 .. n \/ j = n + 1
  BY <1>2
<1>4. Elements(p) = Elements(q) \cup {e}
  <2>1. Elements(p) \subseteq Elements(q) \cup {e}
    BY <1>1, <1>2, <1>3 DEF Elements
  <2>2. n + 1 \in 1 .. n + 1 /\ \A j \in 1 .. n : j \in 1 .. n + 1
    BY <1>2
  <2>3. Elements(q) \cup {e} \subseteq Elements(p)
    BY <1>1, <1>2, <2>2 DEF Elements
  <2> QED BY <2>1, <2>3
<1>5. Distinct(q) /\ e \notin Elements(q) => Distinct(p)
  BY <1>1, <1>2, <1>3 DEF Elements, Distinct
<1>6. p # << >>
  BY <1>2
<1> QED BY <1>1, <1>2, <1>4, <1>5, <1>6

LEMMA DeletedSet ==
  ASSUME NEW S, NEW q \in Seq(S), Distinct(q), NEW t
  PROVE  /\ queue_delete(q, t) \in Seq(S) /\ Distinct(queue_delete(q, t))
         /\ Elements(queue_delete(q, t)) = Elements(q) \ {t}
         /\ \A key \in [S -> Int] : InOrder(q, key) => InOrder(queue_delete(q, t), key)
<1>1. CASE t \in Elements(q)
  <2>1. PICK i \in 1 .. Len(q) : q[i] = t /\ RemoveFirst(q, t) = RemoveAt(q, i)
    BY <1>1, RemovedElement
  <2>2. queue_delete(q, t) = RemoveAt(q, i)
    BY <2>1 DEF queue_delete
  <2>3. RemoveAt(q, i) \in Seq(S)
    BY TakenOut
  <2>4. /\ Elements(RemoveAt(q, i)) = Elements(q) \ {q[i]} /\ Distinct(RemoveAt(q, i))
        /\ \A key \in [S -> Int] : InOrder(q, key) => InOrder(RemoveAt(q, i), key)
    BY TakenOutSet
  <2> QED BY <2>1, <2>2, <2>3, <2>4
<1>2. CASE t \notin Elements(q)
  <2>1. queue_delete(q, t) = q
    BY <1>2, NothingRemoved DEF queue_delete
  <2> QED BY <1>2, <2>1
<1> QED BY <1>1, <1>2

LEMMA TailSet ==
  ASSUME NEW S, NEW q \in Seq(S), Distinct(q), q # << >>
  PROVE  /\ Tail(q) \in Seq(S) /\ Distinct(Tail(q)) /\ Head(q) \in S
         /\ Head(q) \in Elements(q) /\ Elements(Tail(q)) = Elements(q) \ {Head(q)}
         /\ \A key \in [S -> Int] : InOrder(q, key) => InOrder(Tail(q), key)
<1>1. 1 \in 1 .. Len(q) /\ Tail(q) = RemoveAt(q, 1)
  BY HeadTakenOut
<1>2. Head(q) = q[1] /\ Head(q) \in Elements(q) /\ Head(q) \in S
  BY QueueFacts, <1>1
<1>3. RemoveAt(q, 1) \in Seq(S)
  BY <1>1, TakenOut
<1>4. /\ Elements(RemoveAt(q, 1)) = Elements(q) \ {q[1]} /\ Distinct(RemoveAt(q, 1))
      /\ \A key \in [S -> Int] : InOrder(q, key) => InOrder(RemoveAt(q, 1), key)
  BY <1>1, TakenOutSet
<1> QED BY <1>1, <1>2, <1>3, <1>4

--------------------------------------------------------------------------------
(* The ready queues, of the tasks R with the priorities pr. *)

Queues(rq, pm, R, pr) ==
  /\ rq \in [Priority -> Seq(Task)]
  /\ \A p \in Priority : Distinct(rq[p]) /\ Elements(rq[p]) = {t \in R : pr[t] = p}
  /\ pm = {p \in Priority : rq[p] # << >>}

\* x is the first task of the highest priority.
First(x, rq, R, pr) ==
  IF R = {} THEN x = NULL
  ELSE x \in R /\ x = Head(rq[pr[x]]) /\ \A t \in R : pr[x] <= pr[t]

LEMMA Priorities == Priority \subseteq Nat /\ NULL \notin Task /\ Task \subseteq Nat
BY PriorityCount, TickFitsWord DEF Priority, Task

LEMMA HighestFacts ==
  ASSUME NEW P, P \subseteq Priority, P # {}
  PROVE  Highest(P) \in P /\ \A r \in P : Highest(P) <= r
<1>1. P \subseteq Nat
  BY Priorities
<1>2. \E p \in P : \A r \in P : p <= r
  BY <1>1, LeastNumber
<1> QED BY <1>2 DEF Highest

AtPriority(p, rq, pm, R, pr) ==
  /\ rq[p] \in Seq(Task) /\ (p \in pm <=> rq[p] # << >>)
  /\ rq[p] # << >> => Head(rq[p]) \in R /\ pr[Head(rq[p])] = p
  /\ \A t \in R : pr[t] = p => rq[p] # << >>

LEMMA HeadIsReady ==
  ASSUME NEW R, R \subseteq Task, NEW pr \in [Task -> Priority], NEW rq, NEW pm,
         Queues(rq, pm, R, pr), NEW p \in Priority
  PROVE  AtPriority(p, rq, pm, R, pr)
<1>1. rq[p] \in Seq(Task) /\ Elements(rq[p]) = {t \in R : pr[t] = p} /\ (p \in pm <=> rq[p] # << >>)
  BY DEF Queues
<1>2. rq[p] # << >> => Head(rq[p]) \in Elements(rq[p])
  BY <1>1, QueueFacts
<1>3. Elements(rq[p]) = {} <=> rq[p] = << >>
  BY <1>1, QueueFacts
<1> QED BY <1>1, <1>2, <1>3 DEF AtPriority

\* What search_schedtsk finds.
SearchFinds(x, rq, pm, R, pr) == (R = {} <=> pm = {}) /\ (R # {} => First(x, rq, R, pr))

LEMMA SearchFirst ==
  ASSUME NEW R, R \subseteq Task, NEW pr \in [Task -> Priority], NEW rq, NEW pm,
         Queues(rq, pm, R, pr), NEW x, x = Head(rq[Highest(pm)])
  PROVE  SearchFinds(x, rq, pm, R, pr)
<1>1. pm \subseteq Priority /\ \A t \in R : pr[t] \in Priority
  BY DEF Queues
<1>2. ASSUME NEW t \in R PROVE pr[t] \in pm
  <2>1. AtPriority(pr[t], rq, pm, R, pr)
    BY <1>1, HeadIsReady
  <2> QED BY <2>1 DEF AtPriority
<1>3. ASSUME NEW p \in pm PROVE Head(rq[p]) \in R /\ pr[Head(rq[p])] = p
  <2>1. p \in Priority /\ rq[p] # << >>
    BY <1>1 DEF Queues
  <2>2. AtPriority(p, rq, pm, R, pr)
    BY <2>1, HeadIsReady
  <2> QED BY <2>1, <2>2 DEF AtPriority
<1>4. R = {} <=> pm = {}
  BY <1>2, <1>3
<1>5. ASSUME R # {} PROVE First(x, rq, R, pr)
  <2>1. PICK h : h = Highest(pm)
    OBVIOUS
  <2>2. h \in pm /\ \A r \in pm : h <= r
    BY <1>1, <1>4, <1>5, <2>1, HighestFacts
  <2>3. x = Head(rq[h])
    BY <2>1
  <2>4. x \in R /\ pr[x] = h
    BY <1>3, <2>2, <2>3
  <2>5. \A t \in R : pr[x] <= pr[t]
    BY <1>2, <2>2, <2>4
  <2> QED BY <1>5, <2>3, <2>4, <2>5 DEF First
<1> QED BY <1>4, <1>5 DEF SearchFinds

Added(rq1, pm1, rq, pm, t, p) == rq1 = [rq EXCEPT ![p] = Append(@, t)] /\ pm1 = pm \cup {p}

Overtakes(y, t, x, pr) == y = IF x = NULL \/ pr[t] < pr[x] THEN t ELSE x

\* A task that is made runnable comes last at its priority.
LEMMA ReadyAdded ==
  ASSUME NEW R, R \subseteq Task, NEW pr \in [Task -> Priority], NEW rq, NEW pm,
         Queues(rq, pm, R, pr), NEW t \in Task, t \notin R,
         NEW rq1, NEW pm1, Added(rq1, pm1, rq, pm, t, pr[t])
  PROVE  Queues(rq1, pm1, R \cup {t}, pr)
<1>0. rq1 = [rq EXCEPT ![pr[t]] = Append(@, t)] /\ pm1 = pm \cup {pr[t]}
  BY DEF Added
<1> USE <1>0
<1>1. /\ rq \in [Priority -> Seq(Task)] /\ pm = {p \in Priority : rq[p] # << >>}
      /\ \A p \in Priority : Distinct(rq[p]) /\ Elements(rq[p]) = {u \in R : pr[u] = p}
  BY DEF Queues
<1>2. PICK o : o = pr[t] /\ o \in Priority
  OBVIOUS
<1>3. t \notin Elements(rq[o]) /\ rq[o] \in Seq(Task) /\ Distinct(rq[o])
  BY <1>1, <1>2
<1>4. PICK a : a = Append(rq[o], t)
  OBVIOUS
<1>5. a \in Seq(Task) /\ a # << >> /\ Elements(a) = Elements(rq[o]) \cup {t} /\ Distinct(a)
  BY <1>3, <1>4, AppendedSet
<1>6. rq1 = [rq EXCEPT ![o] = a]
  BY <1>2, <1>4
<1>7. rq1 \in [Priority -> Seq(Task)] /\ rq1[o] = a /\ \A p \in Priority \ {o} : rq1[p] = rq[p]
  BY <1>1, <1>2, <1>5, <1>6
<1>8. ASSUME NEW p \in Priority
      PROVE  Distinct(rq1[p]) /\ Elements(rq1[p]) = {u \in R \cup {t} : pr[u] = p}
  <2>1. CASE p = o
    BY <1>1, <1>2, <1>5, <1>7, <2>1
  <2>2. CASE p # o
    <3>1. {u \in R \cup {t} : pr[u] = p} = {u \in R : pr[u] = p}
      BY <1>2, <2>2
    <3> QED BY <1>1, <1>7, <2>2, <3>1
  <2> QED BY <2>1, <2>2
<1>9. pm1 = {p \in Priority : rq1[p] # << >>}
  BY <1>1, <1>2, <1>5, <1>7
<1> QED BY <1>7, <1>8, <1>9 DEF Queues

LEMMA FirstAdded ==
  ASSUME NEW R, R \subseteq Task, NEW pr \in [Task -> Priority], NEW rq, NEW pm,
         Queues(rq, pm, R, pr), NEW t \in Task, t \notin R, NEW x, First(x, rq, R, pr),
         NEW rq1, NEW pm1, Added(rq1, pm1, rq, pm, t, pr[t]),
         NEW y, Overtakes(y, t, x, pr)
  PROVE  First(y, rq1, R \cup {t}, pr)
<1>0. rq1 = [rq EXCEPT ![pr[t]] = Append(@, t)] /\ y = IF x = NULL \/ pr[t] < pr[x] THEN t ELSE x
  BY DEF Added, Overtakes
<1> USE <1>0
<1>1. \A u \in Task : pr[u] \in Priority /\ pr[u] \in Nat /\ u # NULL
  BY Priorities
<1>2. rq \in [Priority -> Seq(Task)] /\ \A p \in Priority : Elements(rq[p]) = {u \in R : pr[u] = p}
  BY DEF Queues
<1>3. PICK o : o = pr[t] /\ o \in Priority
  OBVIOUS
<1>4. rq1[o] = Append(rq[o], t) /\ \A p \in Priority \ {o} : rq1[p] = rq[p]
  BY <1>2, <1>3
<1>5. rq[o] \in Seq(Task) /\ Head(Append(rq[o], t)) = IF rq[o] = << >> THEN t ELSE Head(rq[o])
  BY <1>2, <1>3
<1>6. CASE R = {}
  <2>1. x = NULL /\ y = t
    BY <1>6 DEF First
  <2>2. rq[o] = << >>
    BY <1>2, <1>3, <1>5, <1>6, QueueFacts
  <2>3. t = Head(rq1[pr[t]])
    BY <1>3, <1>4, <1>5, <2>2
  <2> QED BY <1>1, <1>6, <2>1, <2>3 DEF First
<1>7. CASE R # {} /\ pr[t] < pr[x]
  <2>1. x \in R /\ \A u \in R : pr[x] <= pr[u]
    BY <1>7 DEF First
  <2>2. \A u \in R : pr[t] < pr[u]
    BY <1>1, <1>7, <2>1
  <2>3. rq[o] = << >>
    <3>1. Elements(rq[o]) = {}
      BY <1>1, <1>2, <1>3, <2>2
    <3> QED BY <1>5, <3>1, QueueFacts
  <2>4. y = t /\ t = Head(rq1[pr[t]])
    BY <1>3, <1>4, <1>5, <1>7, <2>3
  <2>5. \A u \in R \cup {t} : pr[t] <= pr[u]
    BY <1>1, <2>2
  <2> QED BY <2>4, <2>5 DEF First
<1>8. CASE R # {} /\ ~ (pr[t] < pr[x])
  <2>1. x \in R /\ x = Head(rq[pr[x]]) /\ \A u \in R : pr[x] <= pr[u]
    BY <1>8 DEF First
  <2>2. x # NULL /\ y = x
    BY <1>1, <1>8, <2>1
  <2>3. rq[pr[x]] # << >>
    <3>1. x \in Elements(rq[pr[x]])
      BY <1>1, <1>2, <2>1
    <3> QED BY <1>1, <1>2, <2>1, <3>1, QueueFacts
  <2>4. x = Head(rq1[pr[x]])
    <3>1. CASE pr[x] = o
      BY <1>4, <1>5, <2>1, <2>3, <3>1
    <3>2. CASE pr[x] # o
      BY <1>1, <1>4, <2>1, <3>2
    <3> QED BY <3>1, <3>2
  <2>5. \A u \in R \cup {t} : pr[x] <= pr[u]
    BY <1>1, <1>8, <2>1
  <2> QED BY <2>1, <2>2, <2>4, <2>5 DEF First
<1> QED BY <1>6, <1>7, <1>8

Removed(rq1, pm1, q, rq, pm, t, p) ==
  /\ q = queue_delete(rq[p], t) /\ rq1 = [rq EXCEPT ![p] = q]
  /\ pm1 = IF q = << >> THEN pm \ {p} ELSE pm

Succeeds(y, t, x, q, rq1, pm1) ==
  y = IF x # t THEN x
      ELSE IF q # << >> THEN Head(q)
      ELSE IF pm1 = {} THEN NULL ELSE Head(rq1[Highest(pm1)])

\* A task that stops being runnable leaves its queue, and its place to the next one.
LEMMA ReadyRemoved ==
  ASSUME NEW R, R \subseteq Task, NEW pr \in [Task -> Priority], NEW rq, NEW pm,
         Queues(rq, pm, R, pr), NEW t \in R,
         NEW q, NEW rq1, NEW pm1, Removed(rq1, pm1, q, rq, pm, t, pr[t])
  PROVE  Queues(rq1, pm1, R \ {t}, pr)
<1>0. /\ q = queue_delete(rq[pr[t]], t) /\ rq1 = [rq EXCEPT ![pr[t]] = q]
      /\ pm1 = IF q = << >> THEN pm \ {pr[t]} ELSE pm
  BY DEF Removed
<1> USE <1>0
<1>1. /\ rq \in [Priority -> Seq(Task)] /\ pm = {p \in Priority : rq[p] # << >>}
      /\ \A p \in Priority : Distinct(rq[p]) /\ Elements(rq[p]) = {u \in R : pr[u] = p}
  BY DEF Queues
<1>2. PICK o : o = pr[t] /\ o \in Priority
  OBVIOUS
<1>3. rq[o] \in Seq(Task) /\ Distinct(rq[o])
  BY <1>1, <1>2
<1>4. q \in Seq(Task) /\ Distinct(q) /\ Elements(q) = Elements(rq[o]) \ {t}
  BY <1>2, <1>3, DeletedSet
<1>5. rq1 = [rq EXCEPT ![o] = q]
  BY <1>2
<1>6. rq1 \in [Priority -> Seq(Task)] /\ rq1[o] = q /\ \A p \in Priority \ {o} : rq1[p] = rq[p]
  BY <1>1, <1>2, <1>4, <1>5
<1>7. ASSUME NEW p \in Priority
      PROVE  Distinct(rq1[p]) /\ Elements(rq1[p]) = {u \in R \ {t} : pr[u] = p}
  <2>1. CASE p = o
    BY <1>1, <1>2, <1>4, <1>6, <2>1
  <2>2. CASE p # o
    <3>1. {u \in R \ {t} : pr[u] = p} = {u \in R : pr[u] = p}
      BY <1>2, <2>2
    <3> QED BY <1>1, <1>6, <2>2, <3>1
  <2> QED BY <2>1, <2>2
<1>8. rq[o] # << >>
  <2>1. t \in Elements(rq[o])
    BY <1>1, <1>2
  <2> QED BY <1>3, <2>1, QueueFacts
<1>9. pm1 = {p \in Priority : rq1[p] # << >>}
  BY <1>1, <1>2, <1>6, <1>8
<1> QED BY <1>6, <1>7, <1>9 DEF Queues

LEMMA FirstRemoved ==
  ASSUME NEW R, R \subseteq Task, NEW pr \in [Task -> Priority], NEW rq, NEW pm,
         Queues(rq, pm, R, pr), NEW t \in R, NEW x, First(x, rq, R, pr),
         NEW q, NEW rq1, NEW pm1, Removed(rq1, pm1, q, rq, pm, t, pr[t]),
         NEW y, Succeeds(y, t, x, q, rq1, pm1)
  PROVE  First(y, rq1, R \ {t}, pr)
<1>1. Queues(rq1, pm1, R \ {t}, pr)
  BY ReadyRemoved
<1>0. /\ q = queue_delete(rq[pr[t]], t) /\ rq1 = [rq EXCEPT ![pr[t]] = q]
      /\ pm1 = IF q = << >> THEN pm \ {pr[t]} ELSE pm
      /\ y = IF x # t THEN x
             ELSE IF q # << >> THEN Head(q)
             ELSE IF pm1 = {} THEN NULL ELSE Head(rq1[Highest(pm1)])
  BY DEF Removed, Succeeds
<1> USE <1>0
<1>2. \A u \in Task : pr[u] \in Priority /\ pr[u] \in Nat
  BY Priorities
<1>3. /\ rq \in [Priority -> Seq(Task)]
      /\ \A p \in Priority : Distinct(rq[p]) /\ Elements(rq[p]) = {u \in R : pr[u] = p}
  BY DEF Queues
<1>4. x \in R /\ x = Head(rq[pr[x]]) /\ \A u \in R : pr[x] <= pr[u]
  BY DEF First
<1>5. PICK Q, s, pm2 : /\ Q = R \ {t} /\ Q \subseteq Task /\ s = rq1 /\ pm2 = pm1
                        /\ Queues(s, pm2, Q, pr)
  BY <1>1
<1>6. CASE x # t
  <2>1. x \in Q /\ \A u \in Q : pr[x] <= pr[u]
    BY <1>4, <1>5, <1>6
  <2>2. x = Head(rq1[pr[x]])
    <3>1. CASE pr[x] # pr[t]
      <4>1. rq1[pr[x]] = rq[pr[x]]
        BY <1>2, <1>3, <1>4, <3>1
      <4> QED BY <1>4, <4>1
    <3>2. CASE pr[x] = pr[t]
      <4>1. PICK r : r = rq[pr[t]]
        OBVIOUS
      <4>2. r \in Seq(Task) /\ Distinct(r) /\ t \in Elements(r) /\ x \in Elements(r) /\ r # << >>
        <5>1. r \in Seq(Task) /\ Distinct(r) /\ t \in Elements(r) /\ x \in Elements(r)
          BY <1>2, <1>3, <1>4, <3>2, <4>1
        <5> QED BY <5>1, QueueFacts
      <4>3. PICK i \in 1 .. Len(r) : r[i] = t /\ q = RemoveAt(r, i)
        BY <4>1, <4>2, RemovedElement DEF queue_delete
      <4>4. r[1] = x /\ 1 \in 1 .. Len(r) /\ Len(r) \in Nat
        BY <1>4, <3>2, <4>1, <4>2, QueueFacts
      <4>5. i # 1 /\ 1 < i /\ 1 \in 1 .. Len(r) - 1
        BY <1>6, <4>3, <4>4
      <4>6. Len(q) = Len(r) - 1 /\ q \in Seq(Task) /\ q[1] = x
        BY <4>2, <4>3, <4>4, <4>5, TakenOut
      <4>7. Head(q) = x
        BY <4>4, <4>5, <4>6
      <4>8. rq1[pr[x]] = q
        BY <1>2, <1>3, <3>2
      <4> QED BY <4>7, <4>8
    <3> QED BY <3>1, <3>2
  <2> QED BY <1>5, <1>6, <2>1, <2>2 DEF First
<1>7. CASE x = t /\ q # << >>
  <2>1. PICK p : p = pr[t] /\ p \in Priority
    BY <1>2
  <2>2. rq1[p] = q
    BY <1>3, <2>1
  <2>3. Head(q) \in Q /\ pr[Head(q)] = p
    <3>1. s[p] # << >>
      BY <1>5, <1>7, <2>2
    <3>0. AtPriority(p, s, pm2, Q, pr)
      BY <1>5, <2>1, HeadIsReady
    <3>2. Head(s[p]) \in Q /\ pr[Head(s[p])] = p
      BY <3>0, <3>1 DEF AtPriority
    <3> QED BY <1>5, <2>2, <3>2
  <2>4. y = Head(q) /\ \A u \in Q : pr[y] <= pr[u]
    BY <1>4, <1>5, <1>7, <2>1, <2>3
  <2> QED BY <1>5, <2>2, <2>3, <2>4 DEF First
<1>8. CASE x = t /\ q = << >>
  <2>1. y = IF pm1 = {} THEN NULL ELSE Head(rq1[Highest(pm1)])
    BY <1>8
  <2>2. (Q = {} <=> pm1 = {}) /\ (Q # {} => First(Head(rq1[Highest(pm1)]), rq1, Q, pr))
    <3>1. PICK z : z = Head(s[Highest(pm2)])
      OBVIOUS
    <3>0. Q \subseteq Task /\ Queues(s, pm2, Q, pr)
      BY <1>5
    <3>2. SearchFinds(z, s, pm2, Q, pr)
      BY <3>0, <3>1, SearchFirst
    <3> QED BY <1>5, <3>1, <3>2 DEF SearchFinds
  <2>3. Q = {} => First(NULL, rq1, Q, pr)
    BY DEF First
  <2> QED BY <1>5, <2>1, <2>2, <2>3
<1> QED BY <1>6, <1>7, <1>8

Shifted(R, t, left, pm1, rq1, pm2, pr, pr1) ==
  /\ Queues(left, pm1, R \ {t}, pr1) /\ Queues(rq1, pm2, R, pr1)
  /\ \A x : First(x, left, R \ {t}, pr) => First(x, left, R \ {t}, pr1)

\* A task at another priority comes last there.
LEMMA ReadyShifted ==
  ASSUME NEW R, R \subseteq Task, NEW pr \in [Task -> Priority], NEW rq, NEW pm,
         Queues(rq, pm, R, pr), NEW t \in R, NEW newpri \in Priority,
         NEW q, NEW left, NEW pm1, Removed(left, pm1, q, rq, pm, t, pr[t]),
         NEW rq1, NEW pm2, Added(rq1, pm2, left, pm1, t, newpri),
         NEW pr1 \in [Task -> Priority], pr1[t] = newpri, \A u \in Task \ {t} : pr1[u] = pr[u]
  PROVE  Shifted(R, t, left, pm1, rq1, pm2, pr, pr1)
<1>1. Queues(left, pm1, R \ {t}, pr)
  BY ReadyRemoved
<1>2. PICK Q : Q = R \ {t}
  OBVIOUS
<1>3. Q \subseteq Task /\ t \notin Q /\ Q \cup {t} = R /\ \A u \in Q : pr1[u] = pr[u]
  BY <1>2
<1>5. \A p \in Priority : {u \in Q : pr1[u] = p} = {u \in Q : pr[u] = p}
  BY <1>3
<1>6. Queues(left, pm1, Q, pr1)
  BY <1>1, <1>2, <1>5 DEF Queues
<1>8. Queues(rq1, pm2, Q \cup {t}, pr1)
  BY <1>3, <1>6, ReadyAdded
<1>10. \A x : First(x, left, Q, pr) => First(x, left, Q, pr1)
  BY <1>3 DEF First
<1> QED BY <1>2, <1>3, <1>6, <1>8, <1>10 DEF Shifted

\* Which task change_priority takes for the first.
Shifts(y, t, x, pr, newpri, rq1, pm2) ==
  y = IF x = t /\ newpri >= pr[t] THEN Head(rq1[Highest(pm2)])
      ELSE IF x # t /\ newpri < pr[x] THEN t ELSE x

LEMMA FirstShifted ==
  ASSUME NEW R, R \subseteq Task, NEW pr \in [Task -> Priority], NEW rq, NEW pm,
         Queues(rq, pm, R, pr), NEW t \in R, NEW newpri \in Priority, NEW x, First(x, rq, R, pr),
         NEW q, NEW left, NEW pm1, Removed(left, pm1, q, rq, pm, t, pr[t]),
         NEW rq1, NEW pm2, Added(rq1, pm2, left, pm1, t, newpri),
         NEW pr1 \in [Task -> Priority], pr1[t] = newpri, \A u \in Task \ {t} : pr1[u] = pr[u],
         NEW y, Shifts(y, t, x, pr, newpri, rq1, pm2)
  PROVE  First(y, rq1, R, pr1)
<1>1. /\ Queues(left, pm1, R \ {t}, pr1) /\ Queues(rq1, pm2, R, pr1)
      /\ \A z : First(z, left, R \ {t}, pr) => First(z, left, R \ {t}, pr1)
  <2>1. Shifted(R, t, left, pm1, rq1, pm2, pr, pr1)
    BY ReadyShifted
  <2> QED BY <2>1 DEF Shifted
<1>2. PICK Q : Q = R \ {t}
  OBVIOUS
<1>3. Q \subseteq Task /\ t \notin Q /\ Q \cup {t} = R
  BY <1>2
<1>4. \A u \in Task : pr[u] \in Nat /\ u # NULL
  BY Priorities
<1>5. x \in R /\ \A u \in R : pr[x] <= pr[u]
  BY DEF First
<1>6. newpri \in Nat
  BY Priorities
<1>7. ASSUME NEW z, First(z, left, Q, pr), NEW w, w = IF z = NULL \/ newpri < pr1[z] THEN t ELSE z
      PROVE  First(w, rq1, R, pr1)
  <2>1. First(z, left, Q, pr1) /\ Queues(left, pm1, Q, pr1)
    BY <1>1, <1>2, <1>7
  <2>2. Overtakes(w, t, z, pr1)
    BY <1>7 DEF Overtakes
  <2>3. First(w, rq1, Q \cup {t}, pr1)
    BY <1>3, <2>1, <2>2, FirstAdded
  <2> QED BY <1>3, <2>3
<1>12. PICK z : Succeeds(z, t, x, q, left, pm1)
  BY DEF Succeeds
<1>13. First(z, left, Q, pr)
  <2>1. First(z, left, R \ {t}, pr)
    BY <1>12, FirstRemoved
  <2> QED BY <1>2, <2>1
<1>8. CASE x = t /\ newpri >= pr[t]
  <2>1. y = Head(rq1[Highest(pm2)])
    BY <1>8 DEF Shifts
  <2>2. SearchFinds(y, rq1, pm2, R, pr1)
    BY <1>1, <2>1, SearchFirst
  <2> QED BY <2>2 DEF SearchFinds
<1>9. CASE x # t
  <2>1. z = x
    BY <1>9, <1>12 DEF Succeeds
  <2>2. x \in Task /\ x # NULL /\ pr1[x] = pr[x]
    BY <1>4, <1>5, <1>9
  <2>3. y = IF z = NULL \/ newpri < pr1[z] THEN t ELSE z
    BY <1>9, <2>1, <2>2 DEF Shifts
  <2> QED BY <1>7, <1>13, <2>3
<1>10. CASE x = t /\ newpri < pr[t]
  <2>2. z = NULL \/ newpri < pr1[z]
    <3>1. CASE Q = {}
      BY <1>13, <3>1 DEF First
    <3>2. CASE Q # {}
      <4>1. z \in Q
        BY <1>13, <3>2 DEF First
      <4>2. z \in Task \ {t} /\ pr[t] <= pr[z] /\ pr1[z] = pr[z]
        BY <1>2, <1>3, <1>5, <1>10, <4>1
      <4>3. pr[t] \in Nat /\ pr[z] \in Nat
        BY <1>4, <4>2
      <4> QED BY <1>6, <1>10, <4>2, <4>3
    <3> QED BY <3>1, <3>2
  <2>3. y = t
    BY <1>4, <1>6, <1>10 DEF Shifts
  <2>4. y = IF z = NULL \/ newpri < pr1[z] THEN t ELSE z
    BY <2>2, <2>3
  <2> QED BY <1>7, <1>13, <2>4
<1>11. newpri >= pr[t] \/ newpri < pr[t]
  BY <1>4, <1>6
<1> QED BY <1>8, <1>9, <1>10, <1>11

\* A ready queue is turned: the first task becomes its last.
Turned(rq1, y, rq, x, p) ==
  LET q == Append(Tail(rq[p]), Head(rq[p])) IN
  Len(rq[p]) >= 2 /\ rq1 = [rq EXCEPT ![p] = q] /\ y = IF x = Head(rq[p]) THEN Head(q) ELSE x

LEMMA ReadyTurned ==
  ASSUME NEW R, R \subseteq Task, NEW pr \in [Task -> Priority], NEW rq, NEW pm,
         Queues(rq, pm, R, pr), NEW p \in Priority, NEW x, First(x, rq, R, pr),
         NEW rq1, NEW y, Turned(rq1, y, rq, x, p)
  PROVE  Queues(rq1, pm, R, pr) /\ First(y, rq1, R, pr)
<1>1. /\ rq \in [Priority -> Seq(Task)] /\ pm = {o \in Priority : rq[o] # << >>}
      /\ \A o \in Priority : Distinct(rq[o]) /\ Elements(rq[o]) = {u \in R : pr[u] = o}
  BY DEF Queues
<1>0. PICK s, q : /\ s = rq[p] /\ q = Append(Tail(s), Head(s)) /\ Len(s) >= 2
                  /\ rq1 = [rq EXCEPT ![p] = q] /\ y = IF x = Head(s) THEN Head(q) ELSE x
  BY DEF Turned
<1>2. s \in Seq(Task) /\ Distinct(s) /\ Elements(s) = {u \in R : pr[u] = p}
  BY <1>0, <1>1
<1>3. s # << >> /\ Len(s) \in Nat
  BY <1>0, <1>2
<1>4. /\ Tail(s) \in Seq(Task) /\ Distinct(Tail(s)) /\ Head(s) \in Task /\ Head(s) \in Elements(s)
      /\ Elements(Tail(s)) = Elements(s) \ {Head(s)}
  BY <1>2, <1>3, TailSet
<1>5. /\ q \in Seq(Task) /\ q # << >> /\ Distinct(q)
      /\ Elements(q) = Elements(Tail(s)) \cup {Head(s)}
  <2>1. PICK l, e : l = Tail(s) /\ e = Head(s)
    OBVIOUS
  <2>2. l \in Seq(Task) /\ Distinct(l) /\ e \in Task /\ e \notin Elements(l)
    BY <1>4, <2>1
  <2>3. q = Append(l, e)
    BY <1>0, <2>1
  <2>4. /\ Append(l, e) \in Seq(Task) /\ Append(l, e) # << >> /\ Distinct(Append(l, e))
        /\ Elements(Append(l, e)) = Elements(l) \cup {e}
    BY <2>2, AppendedSet
  <2> QED BY <2>1, <2>3, <2>4
<1>6. Elements(q) = Elements(s)
  BY <1>4, <1>5
<1>7. rq1 \in [Priority -> Seq(Task)] /\ rq1[p] = q /\ \A o \in Priority \ {p} : rq1[o] = rq[o]
  BY <1>0, <1>1, <1>5
<1>8. Queues(rq1, pm, R, pr)
  <2>1. \A o \in Priority : Distinct(rq1[o]) /\ Elements(rq1[o]) = {u \in R : pr[u] = o}
    BY <1>1, <1>2, <1>5, <1>6, <1>7
  <2>3. rq[p] # << >>
    BY <1>0, <1>3
  <2>2. pm = {o \in Priority : rq1[o] # << >>}
    BY <1>1, <1>5, <1>7, <2>3
  <2> QED BY <1>7, <2>1, <2>2 DEF Queues
<1>9. Head(s) \in R /\ pr[Head(s)] = p
  BY <1>2, <1>4
<1>10. x \in R /\ x = Head(rq[pr[x]]) /\ \A u \in R : pr[x] <= pr[u]
  BY <1>9 DEF First
<1>11. Head(q) \in R /\ pr[Head(q)] = p /\ Head(q) # Head(s)
  <2>1. Head(q) \in Elements(q)
    BY <1>5, QueueFacts
  <2>2. PICK l, e : l = Tail(s) /\ e = Head(s)
    OBVIOUS
  <2>4. l # << >> /\ l \in Seq(Task) /\ q = Append(l, e) /\ e \in Task
    <3>1. s \in Seq(Task) /\ Len(s) >= 2
      BY <1>0, <1>2
    <3>2. l # << >>
      <4>1. Len(Tail(s)) = Len(s) - 1 /\ Len(s) \in Int
        BY <3>1
      <4>2. Len(l) # 0
        BY <2>2, <3>1, <4>1
      <4> QED BY <4>2
    <3>3. l \in Seq(Task) /\ e \in Task
      BY <1>4, <2>2
    <3>4. q = Append(l, e)
      BY <1>0, <2>2
    <3> QED BY <3>2, <3>3, <3>4
  <2>5. Head(Append(l, e)) = Head(l)
    BY <2>4
  <2>6. Head(l) \in Elements(l)
    BY <2>4, QueueFacts
  <2>3. Head(q) = Head(Tail(s)) /\ Head(Tail(s)) \in Elements(Tail(s))
    BY <2>2, <2>4, <2>5, <2>6
  <2> QED BY <1>2, <1>4, <1>6, <2>1, <2>3
<1>12. CASE x = Head(s)
  <2>1. y = Head(q) /\ rq1[pr[y]] = q /\ \A u \in R : pr[y] <= pr[u]
    BY <1>0, <1>2, <1>7, <1>9, <1>10, <1>11, <1>12
  <2>2. First(y, rq1, R, pr)
    BY <1>11, <2>1 DEF First
  <2> QED BY <1>8, <2>2
<1>13. CASE x # Head(s)
  <2>1. pr[x] # p /\ pr[x] \in Priority /\ y = x
    BY <1>0, <1>2, <1>10, <1>13
  <2>2. rq1[pr[x]] = rq[pr[x]]
    BY <1>7, <2>1
  <2>3. First(y, rq1, R, pr)
    BY <1>10, <2>1, <2>2 DEF First
  <2> QED BY <1>8, <2>3
<1> QED BY <1>12, <1>13

Behind(r, q, e, key) == r = InsertBehind(q, {i \in DOMAIN q : key[q[i]] <= key[e]}, e)

\* In a queue by priority, behind those of the same priority.
LEMMA InsertedBehind ==
  ASSUME NEW S, NEW q \in Seq(S), NEW e \in S, Distinct(q), e \notin Elements(q),
         NEW key \in [S -> Int], NEW r, Behind(r, q, e, key)
  PROVE  /\ r \in Seq(S) /\ Distinct(r) /\ Elements(r) = Elements(q) \cup {e}
         /\ InOrder(q, key) => InOrder(r, key)
<1>0. PICK past : past = {i \in DOMAIN q : key[q[i]] <= key[e]} /\ r = InsertBehind(q, past, e)
  BY DEF Behind
<1>1. DOMAIN q = 1 .. Len(q) /\ past \subseteq 1 .. Len(q)
  BY <1>0
<1>2. PICK at : at = CHOOSE i \in 1 .. Len(q) + 1 : i \notin past /\ \A j \in 1 .. i - 1 :
             j \in past
  OBVIOUS
<1>3. at \in 1 .. Len(q) + 1 /\ at \notin past /\ \A j \in 1 .. at - 1 : j \in past
  BY <1>1, <1>2, StopsAt
<1>4. r = InsertAt(q, at, e)
  BY <1>0, <1>2 DEF InsertBehind
<1>5. r \in Seq(S)
  BY <1>3, <1>4, InsertedElement
<1>6. Elements(r) = Elements(q) \cup {e} /\ Distinct(r)
  BY <1>3, <1>4, InsertedSet
<1>7. ASSUME InOrder(q, key) PROVE InOrder(r, key)
  <2>1. \A j \in 1 .. at - 1 : key[q[j]] <= key[e]
    BY <1>0, <1>3
  <2>2. at \in 1 .. Len(q) => key[e] <= key[q[at]]
    <3>1. SUFFICES ASSUME at \in 1 .. Len(q) PROVE key[e] <= key[q[at]]
      OBVIOUS
    <3>2. ~ (key[q[at]] <= key[e])
      BY <1>0, <1>1, <1>3, <3>1
    <3>3. q[at] \in S
      BY <3>1
    <3>4. key[q[at]] \in Int /\ key[e] \in Int
      BY <3>3
    <3> QED BY <3>2, <3>4
  <2>3. InOrder(InsertAt(q, at, e), key)
    BY <1>3, <1>7, <2>1, <2>2, InsertedInOrder
  <2> QED BY <1>4, <2>3
<1> QED BY <1>5, <1>6, <1>7

--------------------------------------------------------------------------------
(* The state of the kernel as it should be, but for one task or handler. *)

Fields ==
  {"runtsk", "schedtsk", "reqflg", "enadsp", "ret", "ready_queue", "ready_primap", "tcb",
   "heap", "index", "current_time", "next_time", "obj", "sent", "delivered", "held",
   "cfg", "interrupt", "ticking", "locked", "cycsta", "evttim"}
Blocks ==
  {"tstat", "priority", "actcnt", "wupcnt", "enatex", "texptn", "texnest", "winfo", "data"}
Queued == {"wait_queue", "rwait_queue", "store"}
Flags == {"reqflg", "enadsp", "ret", "interrupt", "ticking", "locked"}

Block(b) ==
  /\ b = [f \in Blocks |-> b[f]]
  /\ b.priority \in Priority /\ b.enatex \in BOOLEAN /\ b.texptn \in BOOLEAN

Shape(k) ==
  /\ k = [f \in Fields |-> k[f]]
  /\ k.tcb = [t \in Task |-> k.tcb[t]] /\ \A t \in Task : Block(k.tcb[t])
  /\ k.obj = [f \in Queued |-> k.obj[f]]
  /\ k.cfg \in Configurations
  /\ \A f \in Flags : k[f] \in BOOLEAN

Prio(k) == [t \in Task |-> k.tcb[t].priority]

Sched(k, R) ==
  /\ R \subseteq Task
  /\ Queues(k.ready_queue, k.ready_primap, R, Prio(k))
  /\ First(k.schedtsk, k.ready_queue, R, Prio(k))

\* The tasks of a queue of an object.
Queue(q, Q) == q \in Seq(Task) /\ Distinct(q) /\ Elements(q) = Q

Waits(k, C, S) ==
  /\ Queue(k.obj.wait_queue, C) /\ Queue(k.obj.rwait_queue, S)
  /\ k.cfg.tpri => InOrder(k.obj.wait_queue, Prio(k))

Events(k) ==
  /\ Heaped(k) /\ k.next_time = Wrap(k.current_time + TIC_NUME)
  /\ k.cycsta \in [Cyclic -> BOOLEAN] /\ k.evttim \in [Cyclic -> EVTTIM]

Base(k, R, C, S) == Shape(k) /\ Sched(k, R) /\ Waits(k, C, S) /\ Events(k)

Nodes(k, o) == {node \in Elements(k.heap) : node.owner = o}

Waitings == {{}, {"WAIT_SLEEP"}, {"WAIT_WOBJ"}, {"WAIT_WOBJ", "WAIT_WOBJCB"}}
Legal ==
  {{}, {"RUNNABLE"}, {"SUSPENDED"}} \cup {{"WAITING"} \cup bits : bits \in Waitings}
     \cup {{"WAITING", "SUSPENDED"} \cup bits : bits \in Waitings}

\* The bits of the state of a task say on which queues it is,
Agrees(t, tstat, R, C, S) ==
  /\ t \in R <=> "RUNNABLE" \in tstat
  /\ t \in C <=> "WAIT_WOBJCB" \in tstat
  /\ t \in S <=> "WAIT_WOBJ" \in tstat /\ "WAIT_WOBJCB" \notin tstat

\* and whether it has a time event.
Watched(tstat, winfo, nodes) ==
  /\ tstat \in Legal
  /\ "WAITING" \in tstat => winfo \in {Zero, TMEVTB}
  /\ nodes # {} <=> "WAITING" \in tstat /\ winfo = TMEVTB
  /\ \A node \in nodes :
       /\ node.callback \in {"wait_tmout", "wait_tmout_ok"}
       /\ "WAIT_WOBJ" \in tstat => node.callback = "wait_tmout"

Handled(started, nodes) ==
  /\ nodes # {} <=> started
  /\ \A node \in nodes : node.callback = "call_cychdr"

TaskFits(k, t, R, C, S) ==
  /\ Agrees(t, k.tcb[t].tstat, R, C, S)
  /\ Watched(k.tcb[t].tstat, k.tcb[t].winfo, Nodes(k, t))

CyclicFits(k, c) == Handled(k.cycsta[c], Nodes(k, c))

Mid(k, o, R, C, S) ==
  /\ Base(k, R, C, S)
  /\ \A t \in Task \ {o} : TaskFits(k, t, R, C, S)
  /\ \A c \in Cyclic \ {o} : CyclicFits(k, c)

Fits(k, R, C, S) ==
  /\ Base(k, R, C, S)
  /\ \A t \in Task : TaskFits(k, t, R, C, S)
  /\ \A c \in Cyclic : CyclicFits(k, c)

Sound(k) == \E R, C, S : Fits(k, R, C, S)

--------------------------------------------------------------------------------
(* What functions leave alone. *)

Same(m, k, F) == \A f \in Fields \ F : m[f] = k[f]

\* Of the tasks, only t changes; the rest that decides what runs and what is due does not.
Calm(m, k, t) ==
  /\ Same(m, k, {"tcb", "ready_queue", "ready_primap", "schedtsk", "ret", "heap", "index", "obj",
                 "sent", "delivered", "held"})
  /\ \A u \in Task \ {t} : m.tcb[u] = k.tcb[u]
  /\ t \in Task /\ m.tcb[t].enatex /\ m.tcb[t].texptn => k.tcb[t].enatex /\ k.tcb[t].texptn

LEMMA CalmCalm ==
  ASSUME NEW k, NEW m, NEW n, NEW t, Calm(m, k, t), Calm(n, m, t)
  PROVE  Calm(n, k, t)
<1>1. /\ \A u \in Task \ {t} : n.tcb[u] = k.tcb[u]
      /\ t \in Task /\ n.tcb[t].enatex /\ n.tcb[t].texptn => k.tcb[t].enatex /\ k.tcb[t].texptn
  BY DEF Calm
<1>2. Same(n, k, {"tcb", "ready_queue", "ready_primap", "schedtsk", "ret", "heap", "index", "obj",
                  "sent", "delivered", "held"})
  BY DEF Calm, Same
<1> QED BY <1>1, <1>2 DEF Calm

LEMMA MidKept ==
  ASSUME NEW k, NEW m, NEW o, NEW R, NEW C, NEW S, Mid(k, o, R, C, S),
         NEW R1, NEW C1, NEW S1, Base(m, R1, C1, S1),
         \A u \in Task \ {o} : (u \in R1 <=> u \in R) /\ (u \in C1 <=> u \in C)
           /\ (u \in S1 <=> u \in S),
         \A u \in Task \ {o} : m.tcb[u] = k.tcb[u],
         \A u \in EventOwner \ {o} : Nodes(m, u) = Nodes(k, u),
         m.cycsta = k.cycsta
  PROVE  Mid(m, o, R1, C1, S1)
<1>1. ASSUME NEW t \in Task \ {o} PROVE TaskFits(m, t, R1, C1, S1)
  <2>1. TaskFits(k, t, R, C, S)
    BY DEF Mid
  <2>2. m.tcb[t] = k.tcb[t] /\ Nodes(m, t) = Nodes(k, t)
    BY DEF EventOwner
  <2>3. Agrees(t, k.tcb[t].tstat, R1, C1, S1)
    BY <2>1 DEF TaskFits, Agrees
  <2> QED BY <2>1, <2>2, <2>3 DEF TaskFits
<1>2. ASSUME NEW c \in Cyclic \ {o} PROVE CyclicFits(m, c)
  <2>1. CyclicFits(k, c) /\ Nodes(m, c) = Nodes(k, c)
    BY DEF Mid, EventOwner
  <2> QED BY <2>1 DEF CyclicFits
<1> QED BY <1>1, <1>2 DEF Mid

LEMMA TheSchedule ==
  ASSUME NEW k, NEW R, Sched(k, R), NEW m, Prio(m) = Prio(k), m.ready_queue = k.ready_queue,
         m.ready_primap = k.ready_primap, m.schedtsk = k.schedtsk
  PROVE  Sched(m, R)
BY DEF Sched

LEMMA TheWaits ==
  ASSUME NEW k, NEW C, NEW S, Waits(k, C, S), NEW m, Prio(m) = Prio(k), m.cfg = k.cfg,
         m.obj.wait_queue = k.obj.wait_queue, m.obj.rwait_queue = k.obj.rwait_queue
  PROVE  Waits(m, C, S)
BY DEF Waits

Timing == {"heap", "index", "current_time", "next_time", "cycsta", "evttim"}

LEMMA TheEvents ==
  ASSUME NEW k, Events(k), NEW m, \A f \in Timing : m[f] = k[f]
  PROVE  Events(m) /\ \A o : Nodes(m, o) = Nodes(k, o)
<1>1. /\ m.heap = k.heap /\ m.index = k.index /\ m.current_time = k.current_time
      /\ m.next_time = k.next_time /\ m.cycsta = k.cycsta /\ m.evttim = k.evttim
  BY DEF Timing
<1>2. Due(m) = Due(k)
  BY <1>1, SameDue
<1>3. Heaped(m)
  BY <1>1, <1>2 DEF Heaped, Events
<1> QED BY <1>1, <1>3 DEF Events, Nodes

LEMMA ThePriorities ==
  ASSUME NEW k, NEW m, \A t \in Task : m.tcb[t].priority = k.tcb[t].priority
  PROVE  Prio(m) = Prio(k)
BY DEF Prio

LEMMA PrioFacts ==
  ASSUME NEW k, Shape(k)
  PROVE  /\ Prio(k) \in [Task -> Priority] /\ Prio(k) \in [Task -> Int]
         /\ \A t \in Task : Prio(k)[t] = k.tcb[t].priority
<1>1. \A t \in Task : k.tcb[t].priority \in Priority
  BY DEF Shape, Block
<1>2. Priority \subseteq Int
  BY Priorities
<1> QED BY <1>1, <1>2 DEF Prio

\* The blocks of the task and what does not bear on queues and time may change.
Rewritten(m, k, t) ==
  /\ Shape(m)
  /\ Same(m, k, {"tcb", "ret", "obj", "sent", "delivered", "held"})
  /\ \A u \in Task \ {t} : m.tcb[u] = k.tcb[u]
  /\ t \in Task /\ m.tcb[t].enatex /\ m.tcb[t].texptn => k.tcb[t].enatex /\ k.tcb[t].texptn
  /\ t \in Task => m.tcb[t].priority = k.tcb[t].priority
  /\ m.obj.wait_queue = k.obj.wait_queue /\ m.obj.rwait_queue = k.obj.rwait_queue

LEMMA RewrittenKept ==
  ASSUME NEW k, NEW t, NEW R, NEW C, NEW S, Mid(k, t, R, C, S), NEW m, Rewritten(m, k, t)
  PROVE  Mid(m, t, R, C, S) /\ Calm(m, k, t) /\ Nodes(m, t) = Nodes(k, t)
<1>1. Shape(k) /\ Sched(k, R) /\ Waits(k, C, S) /\ Events(k)
  BY DEF Mid, Base
<1>2. \A u \in Task : m.tcb[u].priority = k.tcb[u].priority
  BY DEF Rewritten
<1>3. Prio(m) = Prio(k)
  BY <1>2, ThePriorities
<1>4. /\ m.ready_queue = k.ready_queue /\ m.ready_primap = k.ready_primap
      /\ m.schedtsk = k.schedtsk /\ m.cfg = k.cfg /\ m.cycsta = k.cycsta
  BY DEF Rewritten, Same, Fields
<1>5. \A f \in Timing : m[f] = k[f]
  BY DEF Rewritten, Same, Fields, Timing
<1>6. Sched(m, R)
  BY <1>1, <1>3, <1>4, TheSchedule
<1>7. Waits(m, C, S)
  BY <1>1, <1>3, <1>4, TheWaits DEF Rewritten
<1>8. Events(m) /\ \A o : Nodes(m, o) = Nodes(k, o)
  BY <1>1, <1>5, TheEvents
<1>9. Base(m, R, C, S)
  BY <1>6, <1>7, <1>8 DEF Base, Rewritten
<1>10. \A u \in Task \ {t} : m.tcb[u] = k.tcb[u]
  BY DEF Rewritten
<1>11. Mid(m, t, R, C, S)
  BY <1>4, <1>8, <1>9, <1>10, MidKept
<1>12. Calm(m, k, t)
  BY DEF Rewritten, Calm, Same
<1> QED BY <1>8, <1>11, <1>12

\* The task's block b becomes c, but for what is in F.
BlockKept(c, b, F) == Block(c) /\ \A f \in Blocks \ F : c[f] = b[f]

LEMMA BlockWritten ==
  ASSUME NEW b, Block(b), NEW F, F \subseteq Blocks \ {"priority", "enatex", "texptn"},
         NEW c, c = [f \in Blocks |-> c[f]], \A f \in Blocks \ F : c[f] = b[f]
  PROVE  BlockKept(c, b, F)
<1>1. c["priority"] = b["priority"] /\ c["enatex"] = b["enatex"] /\ c["texptn"] = b["texptn"]
  BY DEF Blocks
<1> QED BY <1>1 DEF Block, BlockKept

\* Only blocks of the task are written, those in B, and what does not bear on the queues, F.
TaskWrite(m, k, t, B, F) ==
  /\ m = [f \in Fields |-> m[f]] /\ Same(m, k, F \cup {"tcb"})
  /\ m.tcb = [u \in Task |-> m.tcb[u]] /\ \A u \in Task \ {t} : m.tcb[u] = k.tcb[u]
  /\ m.tcb[t] = [f \in Blocks |-> m.tcb[t][f]]
  /\ \A f \in Blocks \ B : m.tcb[t][f] = k.tcb[t][f]

TaskKept(m, k, t, B) ==
  /\ Shape(m) /\ Calm(m, k, t) /\ Prio(m) = Prio(k) /\ BlockKept(m.tcb[t], k.tcb[t], B)
  /\ m.obj = k.obj /\ m.cfg = k.cfg /\ \A f \in Timing : m[f] = k[f]

LEMMA TaskShape ==
  ASSUME NEW k, Shape(k), NEW t \in Task, NEW B, B \subseteq Blocks \ {"priority", "enatex",
         "texptn"},
         NEW F, F \subseteq {"ret", "sent", "delivered", "held", "ready_queue", "ready_primap",
           "schedtsk"},
         NEW m, TaskWrite(m, k, t, B, F), m.ret \in BOOLEAN
  PROVE  TaskKept(m, k, t, B)
<1>1. PICK b, c : b = k.tcb[t] /\ c = m.tcb[t]
  OBVIOUS
<1>2. Block(b)
  BY <1>1 DEF Shape
<1>3. c = [f \in Blocks |-> c[f]] /\ \A f \in Blocks \ B : c[f] = b[f]
  BY <1>1 DEF TaskWrite
<1>4. BlockKept(c, b, B)
  BY <1>2, <1>3, BlockWritten
<1>5. Block(c) /\ c.priority = b.priority /\ c.enatex = b.enatex /\ c.texptn = b.texptn
  BY <1>4 DEF BlockKept, Blocks
<1>6. \A u \in Task : Block(m.tcb[u])
  BY <1>1, <1>5 DEF TaskWrite, Shape
<1>7. \A f \in Fields \ {"tcb", "ret", "sent", "delivered", "held", "ready_queue", "ready_primap",
                          "schedtsk"} : m[f] = k[f]
  BY DEF TaskWrite, Same
<1>8. m.obj = k.obj /\ m.cfg = k.cfg /\ \A f \in Flags : m[f] \in BOOLEAN
  BY <1>7 DEF Fields, Flags, Shape
<1>9. Shape(m)
  BY <1>6, <1>8 DEF Shape, TaskWrite
<1>10. Calm(m, k, t)
  BY <1>1, <1>5, <1>7 DEF TaskWrite, Calm, Same
<1>11. \A f \in Timing : m[f] = k[f]
  BY <1>7 DEF Timing, Fields
<1>12. \A u \in Task : m.tcb[u].priority = k.tcb[u].priority
  BY <1>1, <1>5 DEF TaskWrite
<1>13. Prio(m) = Prio(k)
  BY <1>12, ThePriorities
<1> QED BY <1>1, <1>4, <1>8, <1>9, <1>10, <1>11, <1>13 DEF TaskKept

LEMMA TaskWritten ==
  ASSUME NEW k, Shape(k), NEW t \in Task, NEW B, B \subseteq Blocks \ {"priority", "enatex",
         "texptn"},
         NEW F, F \subseteq {"ret", "sent", "delivered", "held"},
         NEW m, TaskWrite(m, k, t, B, F), m.ret \in BOOLEAN
  PROVE  Rewritten(m, k, t) /\ m.obj = k.obj /\ BlockKept(m.tcb[t], k.tcb[t], B)
<1>1. /\ Shape(m) /\ Calm(m, k, t) /\ BlockKept(m.tcb[t], k.tcb[t], B) /\ m.obj = k.obj
  <2>1. F \subseteq {"ret", "sent", "delivered", "held", "ready_queue", "ready_primap", "schedtsk"}
    OBVIOUS
  <2>2. TaskKept(m, k, t, B)
    BY <2>1, TaskShape
  <2> QED BY <2>2 DEF TaskKept
<1>2. \A f \in Fields \ {"tcb", "ret", "sent", "delivered", "held"} : m[f] = k[f]
  BY DEF TaskWrite, Same
<1>3. m.tcb[t].priority = k.tcb[t].priority
  BY <1>1 DEF BlockKept, Blocks
<1> QED BY <1>1, <1>2, <1>3 DEF Rewritten, Calm, Same

--------------------------------------------------------------------------------
(* task.c. *)

\* The function returned TRUE, FALSE.
Asked(m)   == m.ret = TRUE
Unasked(m) == m.ret = FALSE

\* It returns TRUE when the caller has to dispatch.
Asks(m, k) == k.enadsp /\ m.schedtsk # k.schedtsk => m.ret

LEMMA RunnableIs ==
  ASSUME NEW k, Shape(k), k.schedtsk = NULL \/ k.schedtsk \in Task,
         NEW t \in Task, NEW m, m = make_runnable(k, t)
  PROVE  /\ TaskWrite(m, k, t, {"tstat"}, {"ready_queue", "ready_primap", "schedtsk", "ret"})
         /\ m.tcb[t].tstat = {"RUNNABLE"}
         /\ Added(m.ready_queue, m.ready_primap, k.ready_queue, k.ready_primap, t, Prio(k)[t])
         /\ Overtakes(m.schedtsk, t, k.schedtsk, Prio(k))
         /\ Asks(m, k) /\ m.ret \in BOOLEAN
<1>1. /\ m = [f \in Fields |-> m[f]]
      /\ Same(m, k, {"ready_queue", "ready_primap", "schedtsk", "ret", "tcb"})
  BY DEF make_runnable, Shape, Fields, Same
<1>2. m.tcb = [u \in Task |-> m.tcb[u]] /\ \A u \in Task \ {t} : m.tcb[u] = k.tcb[u]
  BY DEF make_runnable, Shape, Fields
<1>3. m.tcb[t] = [k.tcb[t] EXCEPT !.tstat = {"RUNNABLE"}]
  BY DEF make_runnable, Shape, Fields
<1>4. /\ m.tcb[t] = [f \in Blocks |-> m.tcb[t][f]] /\ m.tcb[t].tstat = {"RUNNABLE"}
      /\ \A f \in Blocks \ {"tstat"} : m.tcb[t][f] = k.tcb[t][f]
  BY <1>3 DEF Shape, Block, Blocks
<1>5. PICK pri : pri = k.tcb[t].priority /\ pri = Prio(k)[t]
  BY DEF Prio
<1>6. Added(m.ready_queue, m.ready_primap, k.ready_queue, k.ready_primap, t, pri)
  BY <1>5 DEF make_runnable, Shape, Fields, Added
<1>7. /\ m.schedtsk = IF k.schedtsk = NULL \/ pri < k.tcb[k.schedtsk].priority THEN t
         ELSE k.schedtsk
      /\ m.ret = ((k.schedtsk = NULL \/ pri < k.tcb[k.schedtsk].priority) /\ k.enadsp)
  BY <1>5 DEF make_runnable, Shape, Fields
<1>8. Asks(m, k) /\ m.ret \in BOOLEAN
  BY <1>7 DEF Asks
<1>9. Overtakes(m.schedtsk, t, k.schedtsk, Prio(k))
  BY <1>5, <1>7 DEF Overtakes, Prio
<1>10. Added(m.ready_queue, m.ready_primap, k.ready_queue, k.ready_primap, t, Prio(k)[t])
  BY <1>5, <1>6
<1>11. TaskWrite(m, k, t, {"tstat"}, {"ready_queue", "ready_primap", "schedtsk", "ret"})
  BY <1>1, <1>2, <1>4 DEF TaskWrite, Same
<1> QED BY <1>4, <1>8, <1>9, <1>10, <1>11

LEMMA ScheduledTask ==
  ASSUME NEW k, NEW R, Sched(k, R)
  PROVE  \/ k.schedtsk = NULL /\ R = {}
         \/ k.schedtsk \in R /\ k.schedtsk \in Task
BY DEF Sched, First

\* The scheduler's part has changed: queues of objects and times have not.
LEMMA Rescheduled ==
  ASSUME NEW k, NEW t \in Task, NEW R, NEW C, NEW S, Mid(k, t, R, C, S),
         NEW B, B \subseteq Blocks \ {"priority", "enatex", "texptn"},
         NEW m, TaskWrite(m, k, t, B, {"ready_queue", "ready_primap", "schedtsk", "ret"}),
         m.ret \in BOOLEAN, NEW R1, R1 \ {t} = R \ {t}, Prio(m) = Prio(k) => Sched(m, R1)
  PROVE  /\ Mid(m, t, R1, C, S) /\ Calm(m, k, t) /\ BlockKept(m.tcb[t], k.tcb[t], B)
         /\ Nodes(m, t) = Nodes(k, t)
<1>1. Shape(k) /\ Waits(k, C, S) /\ Events(k)
  BY DEF Mid, Base
<1>2. /\ Shape(m) /\ Calm(m, k, t) /\ Prio(m) = Prio(k) /\ BlockKept(m.tcb[t], k.tcb[t], B)
      /\ m.obj = k.obj /\ m.cfg = k.cfg /\ \A f \in Timing : m[f] = k[f]
  <2>1. {"ready_queue", "ready_primap", "schedtsk", "ret"} \subseteq
           {"ret", "sent", "delivered", "held", "ready_queue", "ready_primap", "schedtsk"}
    OBVIOUS
  <2>2. TaskKept(m, k, t, B)
    BY <1>1, <2>1, TaskShape
  <2> QED BY <2>2 DEF TaskKept
<1>3. Waits(m, C, S)
  BY <1>1, <1>2, TheWaits
<1>4. Events(m) /\ \A o : Nodes(m, o) = Nodes(k, o)
  BY <1>1, <1>2, TheEvents
<1>5. Base(m, R1, C, S)
  BY <1>2, <1>3, <1>4 DEF Base
<1>6. \A u \in Task \ {t} : m.tcb[u] = k.tcb[u] /\ (u \in R1 <=> u \in R)
  BY DEF TaskWrite
<1>7. m.cycsta = k.cycsta
  BY <1>2 DEF Timing
<1>8. Mid(m, t, R1, C, S)
  BY <1>4, <1>5, <1>6, <1>7, MidKept
<1> QED BY <1>2, <1>4, <1>8

LEMMA MakesRunnable ==
  ASSUME NEW k, NEW t \in Task, NEW R, NEW C, NEW S, Mid(k, t, R, C, S), t \notin R,
         NEW m, m = make_runnable(k, t)
  PROVE  /\ Mid(m, t, R \cup {t}, C, S) /\ Calm(m, k, t) /\ BlockKept(m.tcb[t], k.tcb[t], {"tstat"})
         /\ Nodes(m, t) = Nodes(k, t) /\ m.tcb[t].tstat = {"RUNNABLE"} /\ Asks(m, k)
<1>1. Shape(k) /\ Sched(k, R)
  BY DEF Mid, Base
<1>2. k.schedtsk = NULL \/ k.schedtsk \in Task
  BY <1>1, ScheduledTask
<1>3. /\ TaskWrite(m, k, t, {"tstat"}, {"ready_queue", "ready_primap", "schedtsk", "ret"})
      /\ m.tcb[t].tstat = {"RUNNABLE"} /\ Asks(m, k) /\ m.ret \in BOOLEAN
      /\ Added(m.ready_queue, m.ready_primap, k.ready_queue, k.ready_primap, t, Prio(k)[t])
      /\ Overtakes(m.schedtsk, t, k.schedtsk, Prio(k))
  BY <1>1, <1>2, RunnableIs
<1>4. Prio(k) \in [Task -> Priority]
  BY <1>1, PrioFacts
<1>5. /\ R \subseteq Task /\ Queues(k.ready_queue, k.ready_primap, R, Prio(k))
      /\ First(k.schedtsk, k.ready_queue, R, Prio(k))
  BY <1>1 DEF Sched
<1>6. Queues(m.ready_queue, m.ready_primap, R \cup {t}, Prio(k))
  BY <1>3, <1>4, <1>5, ReadyAdded
<1>7. First(m.schedtsk, m.ready_queue, R \cup {t}, Prio(k))
  BY <1>3, <1>4, <1>5, FirstAdded
<1>8. Prio(m) = Prio(k) => Sched(m, R \cup {t})
  BY <1>5, <1>6, <1>7 DEF Sched
<1>9. (R \cup {t}) \ {t} = R \ {t} /\ {"tstat"} \subseteq Blocks \ {"priority", "enatex", "texptn"}
  BY DEF Blocks
<1>10. /\ Mid(m, t, R \cup {t}, C, S) /\ Calm(m, k, t) /\ BlockKept(m.tcb[t], k.tcb[t], {"tstat"})
       /\ Nodes(m, t) = Nodes(k, t)
  BY <1>3, <1>8, <1>9, Rescheduled
<1> QED BY <1>3, <1>10

LEMMA NonRunnableIs ==
  ASSUME NEW k, Shape(k), NEW t \in Task, NEW m, m = make_non_runnable(k, t),
         NEW q, q = queue_delete(k.ready_queue[k.tcb[t].priority], t)
  PROVE  /\ TaskWrite(m, k, t, {}, {"ready_queue", "ready_primap", "schedtsk", "ret"})
         /\ Removed(m.ready_queue, m.ready_primap, q, k.ready_queue, k.ready_primap, t, Prio(k)[t])
         /\ Succeeds(m.schedtsk, t, k.schedtsk, q, m.ready_queue, m.ready_primap)
         /\ Asks(m, k) /\ m.ret \in BOOLEAN /\ m.tcb = k.tcb
<1>1. PICK pri : pri = k.tcb[t].priority /\ pri = Prio(k)[t]
  BY DEF Prio
<1>2. /\ m = [f \in Fields |-> m[f]]
      /\ Same(m, k, {"ready_queue", "ready_primap", "schedtsk", "ret"}) /\ m.tcb = k.tcb
  <2>1. k = [f \in Fields |-> k[f]]
    BY DEF Shape
  <2>2. PICK left : left = [k EXCEPT !.ready_queue[k.tcb[t].priority] = q,
                     !.ready_primap = IF q = << >> THEN @ \ {k.tcb[t].priority} ELSE @,
                     !.ret = FALSE]
    OBVIOUS
  <2>3. m = left \/ \E next, r : m = [left EXCEPT !.schedtsk = next, !.ret = r]
    BY <2>2 DEF make_non_runnable
  <2>4. /\ left = [f \in Fields |-> left[f]] /\ left.tcb = k.tcb
        /\ Same(left, k, {"ready_queue", "ready_primap", "ret"})
    BY <2>1, <2>2 DEF Fields, Same
  <2>5. CASE m = left
    BY <2>4, <2>5 DEF Same
  <2>6. CASE \E next, r : m = [left EXCEPT !.schedtsk = next, !.ret = r]
    BY <2>4, <2>6 DEF Fields, Same
  <2> QED BY <2>3, <2>5, <2>6
<1>3. /\ m.ready_queue = [k.ready_queue EXCEPT ![pri] = q]
      /\ m.ready_primap = IF q = << >> THEN k.ready_primap \ {pri} ELSE k.ready_primap
      /\ m.ret = (IF k.schedtsk = t THEN k.enadsp ELSE FALSE)
      /\ k.schedtsk # t => m.schedtsk = k.schedtsk
  BY <1>1 DEF make_non_runnable, Shape, Fields
<1>4. k.schedtsk = t => m.schedtsk = IF q # << >> THEN Head(q)
                                     ELSE IF m.ready_primap = {} THEN NULL
                                     ELSE Head(m.ready_queue[Highest(m.ready_primap)])
  <2>1. SUFFICES ASSUME k.schedtsk = t, q = << >>, m.ready_primap # {}
                 PROVE  m.schedtsk = Head(m.ready_queue[Highest(m.ready_primap)])
    BY <1>1, <1>3 DEF make_non_runnable, Shape, Fields
  <2>2. PICK left : left = [k EXCEPT !.ready_queue[k.tcb[t].priority] = << >>,
                                     !.ready_primap = @ \ {k.tcb[t].priority}, !.ret = FALSE]
    OBVIOUS
  <2>3. left.ready_primap = m.ready_primap /\ left.ready_queue = m.ready_queue
    BY <1>1, <1>3, <2>1, <2>2 DEF Shape, Fields
  <2>4. m = [left EXCEPT !.schedtsk = search_schedtsk(left), !.ret = k.enadsp]
    BY <2>1, <2>2, <2>3 DEF make_non_runnable
  <2>5. m.schedtsk = search_schedtsk(left)
    BY <2>2, <2>4 DEF Shape, Fields
  <2> QED BY <2>3, <2>5 DEF search_schedtsk
<1>8. Removed(m.ready_queue, m.ready_primap, q, k.ready_queue, k.ready_primap, t, pri)
  BY <1>1, <1>3 DEF Removed
<1>9. Succeeds(m.schedtsk, t, k.schedtsk, q, m.ready_queue, m.ready_primap)
  BY <1>3, <1>4 DEF Succeeds
<1>10. k.enadsp \in BOOLEAN
  BY DEF Shape, Flags
<1>11. Asks(m, k) /\ m.ret \in BOOLEAN
  BY <1>3, <1>10 DEF Asks
<1>12. TaskWrite(m, k, t, {}, {"ready_queue", "ready_primap", "schedtsk", "ret"})
  BY <1>2 DEF TaskWrite, Shape, Block, Same
<1> QED BY <1>1, <1>2, <1>8, <1>9, <1>11, <1>12

LEMMA MakesNonRunnable ==
  ASSUME NEW k, NEW t \in Task, NEW R, NEW C, NEW S, Mid(k, t, R, C, S), t \in R,
         NEW m, m = make_non_runnable(k, t)
  PROVE  /\ Mid(m, t, R \ {t}, C, S) /\ Calm(m, k, t) /\ m.tcb = k.tcb
         /\ Nodes(m, t) = Nodes(k, t) /\ Asks(m, k)
         /\ k.schedtsk # t => m.schedtsk = k.schedtsk
<1>1. Shape(k) /\ Sched(k, R)
  BY DEF Mid, Base
<1>2. PICK q : q = queue_delete(k.ready_queue[k.tcb[t].priority], t)
  OBVIOUS
<1>3. /\ TaskWrite(m, k, t, {}, {"ready_queue", "ready_primap", "schedtsk", "ret"})
      /\ Removed(m.ready_queue, m.ready_primap, q, k.ready_queue, k.ready_primap, t, Prio(k)[t])
      /\ Succeeds(m.schedtsk, t, k.schedtsk, q, m.ready_queue, m.ready_primap)
      /\ Asks(m, k) /\ m.ret \in BOOLEAN /\ m.tcb = k.tcb
  BY <1>1, <1>2, NonRunnableIs
<1>4. Prio(k) \in [Task -> Priority]
  BY <1>1, PrioFacts
<1>5. /\ R \subseteq Task /\ Queues(k.ready_queue, k.ready_primap, R, Prio(k))
      /\ First(k.schedtsk, k.ready_queue, R, Prio(k))
  BY <1>1 DEF Sched
<1>6. Queues(m.ready_queue, m.ready_primap, R \ {t}, Prio(k))
  BY <1>3, <1>4, <1>5, ReadyRemoved
<1>7. First(m.schedtsk, m.ready_queue, R \ {t}, Prio(k))
  BY <1>3, <1>4, <1>5, FirstRemoved
<1>8. Prio(m) = Prio(k) => Sched(m, R \ {t})
  BY <1>5, <1>6, <1>7 DEF Sched
<1>9. (R \ {t}) \ {t} = R \ {t} /\ {} \subseteq Blocks \ {"priority", "enatex", "texptn"}
  OBVIOUS
<1>10. Mid(m, t, R \ {t}, C, S) /\ Calm(m, k, t) /\ Nodes(m, t) = Nodes(k, t)
  BY <1>3, <1>8, <1>9, Rescheduled
<1>11. k.schedtsk # t => m.schedtsk = k.schedtsk
  BY <1>3 DEF Succeeds
<1> QED BY <1>3, <1>10, <1>11

\* The priority of a task that is on no queue sorted by it.
SamePriorities(m, k, t) ==
  \A u \in Task \ {t} : m.tcb[u].priority = k.tcb[u].priority

LEMMA ScheduleElsewhere ==
  ASSUME NEW k, NEW R, Sched(k, R), NEW t, t \notin R, NEW m, SamePriorities(m, k, t),
         m.ready_queue = k.ready_queue, m.ready_primap = k.ready_primap, m.schedtsk = k.schedtsk
  PROVE  Sched(m, R)
<1>1. R \subseteq Task /\ \A u \in R : Prio(m)[u] = Prio(k)[u]
  BY DEF Sched, SamePriorities, Prio
<1>2. \A p \in Priority : {u \in R : Prio(m)[u] = p} = {u \in R : Prio(k)[u] = p}
  BY <1>1
<1>3. Queues(k.ready_queue, k.ready_primap, R, Prio(m))
  BY <1>2 DEF Sched, Queues
<1>4. First(k.schedtsk, k.ready_queue, R, Prio(m))
  BY <1>1 DEF Sched, First
<1> QED BY <1>1, <1>3, <1>4 DEF Sched

LEMMA OrderElsewhere ==
  ASSUME NEW q, NEW C, Queue(q, C), NEW pr, NEW pr1, \A u \in C : pr1[u] = pr[u], InOrder(q, pr)
  PROVE  InOrder(q, pr1)
<1>1. \A i \in 1 .. Len(q) : q[i] \in C
  BY DEF Queue, Elements
<1> QED BY <1>1 DEF InOrder

LEMMA WaitsElsewhere ==
  ASSUME NEW k, NEW C, NEW S, Waits(k, C, S), NEW t, t \notin C \/ ~k.cfg.tpri, NEW m,
         SamePriorities(m, k, t), m.cfg = k.cfg,
         m.obj.wait_queue = k.obj.wait_queue, m.obj.rwait_queue = k.obj.rwait_queue
  PROVE  Waits(m, C, S)
<1>1. SUFFICES ASSUME k.cfg.tpri, t \notin C PROVE InOrder(k.obj.wait_queue, Prio(m))
  BY DEF Waits
<1>2. Queue(k.obj.wait_queue, C) /\ InOrder(k.obj.wait_queue, Prio(k))
  BY <1>1 DEF Waits
<1>3. C \subseteq Task
  <2>1. PICK q : q = k.obj.wait_queue
    OBVIOUS
  <2>2. q \in Seq(Task) /\ Elements(q) = C
    BY <1>2, <2>1 DEF Queue
  <2> QED BY <2>2, QueueFacts
<1>4. \A u \in C : Prio(m)[u] = Prio(k)[u]
  BY <1>1, <1>3 DEF SamePriorities, Prio
<1> QED BY <1>2, <1>4, OrderElsewhere

\* A task's whole block is written.
LEMMA BlockChanged ==
  ASSUME NEW k, NEW t \in Task, NEW R, NEW C, NEW S, Mid(k, t, R, C, S), t \notin R,
         t \notin C \/ ~k.cfg.tpri,
         NEW m, m = [f \in Fields |-> m[f]], Same(m, k, {"tcb", "ret"}), m.ret \in BOOLEAN,
         m.tcb = [u \in Task |-> m.tcb[u]], \A u \in Task \ {t} : m.tcb[u] = k.tcb[u],
         Block(m.tcb[t]),
         m.tcb[t].enatex /\ m.tcb[t].texptn => k.tcb[t].enatex /\ k.tcb[t].texptn
  PROVE  Mid(m, t, R, C, S) /\ Calm(m, k, t) /\ Nodes(m, t) = Nodes(k, t)
<1>1. Shape(k) /\ Sched(k, R) /\ Waits(k, C, S) /\ Events(k)
  BY DEF Mid, Base
<1>2. /\ m.obj = k.obj /\ m.cfg = k.cfg /\ \A f \in Flags : m[f] \in BOOLEAN
      /\ m.ready_queue = k.ready_queue /\ m.ready_primap = k.ready_primap
      /\ m.schedtsk = k.schedtsk /\ m.cycsta = k.cycsta
  BY <1>1 DEF Same, Fields, Flags, Shape
<1>3. Shape(m)
  BY <1>1, <1>2 DEF Shape
<1>4. SamePriorities(m, k, t)
  BY DEF SamePriorities
<1>5. Sched(m, R)
  BY <1>1, <1>2, <1>4, ScheduleElsewhere
<1>6. Waits(m, C, S)
  BY <1>1, <1>2, <1>4, WaitsElsewhere
<1>7. \A f \in Timing : m[f] = k[f]
  BY DEF Same, Fields, Timing
<1>8. Events(m) /\ \A o : Nodes(m, o) = Nodes(k, o)
  BY <1>1, <1>7, TheEvents
<1>9. Base(m, R, C, S)
  BY <1>3, <1>5, <1>6, <1>8 DEF Base
<1>10. Mid(m, t, R, C, S)
  BY <1>2, <1>8, <1>9, MidKept
<1>11. Calm(m, k, t)
  BY DEF Calm, Same
<1> QED BY <1>8, <1>10, <1>11

LEMMA Configuration ==
  ASSUME NEW k, Shape(k)
  PROVE  /\ k.cfg.ipriority \in [Task -> Priority] /\ k.cfg.pris \subseteq Priority
         /\ k.cfg.tpri \in BOOLEAN
         /\ k.cfg.cyctim \in [Cyclic -> 1 .. TMAX_RELTIM] /\ k.cfg.handlers \subseteq Cyclic
         /\ k.cfg.tmouts \subseteq {TMO_FEVR} \cup 1 .. TMAX_RELTIM
         /\ k.cfg.dlytims \subseteq 0 .. TMAX_RELTIM
BY ConfigurationTable DEF Shape, Configured

LEMMA MakesDormant ==
  ASSUME NEW k, NEW t \in Task, NEW R, NEW C, NEW S, Mid(k, t, R, C, S), t \notin R, t \notin C,
         NEW m, m = make_dormant(k, t)
  PROVE  /\ Mid(m, t, R, C, S) /\ Calm(m, k, t) /\ Nodes(m, t) = Nodes(k, t)
         /\ m.tcb[t].tstat = {} /\ m.schedtsk = k.schedtsk /\ Unasked(m)
<1>1. Shape(k)
  BY DEF Mid, Base
<1>2. /\ m = [f \in Fields |-> m[f]] /\ Same(m, k, {"tcb", "ret"}) /\ Unasked(m)
      /\ m.schedtsk = k.schedtsk
  BY <1>1 DEF make_dormant, Shape, Fields, Same, Unasked
<1>3. m.tcb = [u \in Task |-> m.tcb[u]] /\ \A u \in Task \ {t} : m.tcb[u] = k.tcb[u]
  BY <1>1 DEF make_dormant, Shape, Fields
<1>4. m.tcb[t] = Dormant(k, t)
  BY <1>1 DEF make_dormant, Shape, Fields
<1>5. k.cfg.ipriority[t] \in Priority
  BY <1>1, Configuration
<1>6. Block(m.tcb[t]) /\ m.tcb[t].enatex = FALSE /\ m.tcb[t].tstat = {}
  <2>1. PICK p, a : p = k.cfg.ipriority[t] /\ a = k.tcb[t].actcnt
    OBVIOUS
  <2>2. PICK b : b = [tstat |-> {}, priority |-> p, actcnt |-> a, wupcnt |-> FALSE,
                      enatex |-> FALSE, texptn |-> FALSE, texnest |-> 0, winfo |-> Zero,
                      data |-> NoData]
    OBVIOUS
  <2>3. b = m.tcb[t] /\ p \in Priority
    BY <1>4, <1>5, <2>1, <2>2 DEF Dormant
  <2>4. b = [f \in Blocks |-> b[f]] /\ b.priority = p
    BY <2>2 DEF Blocks
  <2>5. b.enatex = FALSE /\ b.texptn = FALSE /\ b.tstat = {}
    BY <2>2
  <2> QED BY <2>3, <2>4, <2>5 DEF Block
<1>8. m.tcb[t].enatex /\ m.tcb[t].texptn => k.tcb[t].enatex /\ k.tcb[t].texptn
  BY <1>6
<1>9. Block(m.tcb[t]) /\ m.ret \in BOOLEAN
  BY <1>2, <1>6 DEF Unasked
<1>7. Mid(m, t, R, C, S) /\ Calm(m, k, t) /\ Nodes(m, t) = Nodes(k, t)
  <2>1. PICK n : n = m /\ n.ret \in BOOLEAN
    BY <1>9
  <2>2. /\ n = [f \in Fields |-> n[f]] /\ Same(n, k, {"tcb", "ret"})
        /\ n.tcb = [u \in Task |-> n.tcb[u]] /\ \A u \in Task \ {t} : n.tcb[u] = k.tcb[u]
        /\ Block(n.tcb[t])
        /\ n.tcb[t].enatex /\ n.tcb[t].texptn => k.tcb[t].enatex /\ k.tcb[t].texptn
    BY <1>2, <1>3, <1>8, <1>9, <2>1
  <2>3. Mid(n, t, R, C, S) /\ Calm(n, k, t) /\ Nodes(n, t) = Nodes(k, t)
    BY <2>1, <2>2, BlockChanged
  <2> QED BY <2>1, <2>3
<1> QED BY <1>2, <1>6, <1>7

--------------------------------------------------------------------------------
(* A change of priority. *)

\* Only its priority.
PriorityOnly(m, k, t, newpri) ==
  /\ m.tcb = [u \in Task |-> m.tcb[u]] /\ \A u \in Task \ {t} : m.tcb[u] = k.tcb[u]
  /\ Block(m.tcb[t]) /\ m.tcb[t].priority = newpri
  /\ \A f \in Blocks \ {"priority"} : m.tcb[t][f] = k.tcb[t][f]

LEMMA PrioritySet ==
  ASSUME NEW k, Shape(k), NEW t \in Task, NEW newpri \in Priority,
         NEW m, m.tcb = [k.tcb EXCEPT ![t].priority = newpri]
  PROVE  PriorityOnly(m, k, t, newpri)
<1>1. m.tcb = [u \in Task |-> m.tcb[u]] /\ \A u \in Task \ {t} : m.tcb[u] = k.tcb[u]
  BY DEF Shape
<1>2. m.tcb[t] = [k.tcb[t] EXCEPT !.priority = newpri]
  BY DEF Shape
<1>3. Block(k.tcb[t])
  BY DEF Shape
<1>4. /\ m.tcb[t] = [f \in Blocks |-> m.tcb[t][f]] /\ m.tcb[t].priority = newpri
      /\ \A f \in Blocks \ {"priority"} : m.tcb[t][f] = k.tcb[t][f]
  BY <1>2, <1>3 DEF Block, Blocks
<1>5. Block(m.tcb[t])
  BY <1>3, <1>4 DEF Block, Blocks
<1> QED BY <1>1, <1>4, <1>5 DEF PriorityOnly

\* What change_priority does to the ready queues.
Reprioritized(m, k, t, newpri) ==
  /\ m = [f \in Fields |-> m[f]]
  /\ Same(m, k, {"tcb", "ready_queue", "ready_primap", "schedtsk", "ret"})
  /\ PriorityOnly(m, k, t, newpri)
  /\ \E q, left, pm1 :
       /\ Removed(left, pm1, q, k.ready_queue, k.ready_primap, t, Prio(k)[t])
       /\ Added(m.ready_queue, m.ready_primap, left, pm1, t, newpri)
  /\ Shifts(m.schedtsk, t, k.schedtsk, Prio(k), newpri, m.ready_queue, m.ready_primap)
  /\ Asks(m, k) /\ m.ret \in BOOLEAN

LEMMA ChangedFields ==
  ASSUME NEW k, k = [f \in Fields |-> k[f]], NEW t, NEW newpri, NEW m, m = change_priority(k, t,
         newpri)
  PROVE  /\ m = [f \in Fields |-> m[f]]
         /\ Same(m, k, {"tcb", "ready_queue", "ready_primap", "schedtsk", "ret"})
<1> DEFINE F == {"tcb", "ready_queue", "ready_primap", "schedtsk", "ret"}
<1>1. PICK x, tcb, rq, pm :
        x = [k EXCEPT !.tcb = tcb, !.ready_queue = rq, !.ready_primap = pm, !.ret = FALSE]
        /\ (m = x \/ \E next, r : m = [x EXCEPT !.schedtsk = next, !.ret = r])
  <2>1. PICK x : x = [k EXCEPT !.tcb[t].priority = newpri,
             !.ready_queue = [[k.ready_queue EXCEPT ![k.tcb[t].priority] = queue_delete(@, t)]
                                EXCEPT ![newpri] = Append(@, t)],
             !.ready_primap = (IF [k.ready_queue EXCEPT ![k.tcb[t].priority] = queue_delete(@, t)]
                                    [k.tcb[t].priority] = << >>
                               THEN @ \ {k.tcb[t].priority} ELSE @) \cup {newpri},
             !.ret = FALSE]
    OBVIOUS
  <2>2. m = x \/ \E next, r : m = [x EXCEPT !.schedtsk = next, !.ret = r]
    BY <2>1 DEF change_priority
  <2>3. \E tcb, rq, pm :
          x = [k EXCEPT !.tcb = tcb, !.ready_queue = rq, !.ready_primap = pm, !.ret = FALSE]
    <3>1. PICK tcb, rq, pm :
            /\ tcb = [k.tcb EXCEPT ![t].priority = newpri]
            /\ rq = [[k.ready_queue EXCEPT ![k.tcb[t].priority] = queue_delete(@, t)]
                                EXCEPT ![newpri] = Append(@, t)]
            /\ pm = (IF [k.ready_queue EXCEPT ![k.tcb[t].priority] = queue_delete(@, t)]
                                    [k.tcb[t].priority] = << >>
                     THEN k.ready_primap \ {k.tcb[t].priority} ELSE k.ready_primap) \cup {newpri}
      OBVIOUS
    <3>2. x = [k EXCEPT !.tcb = tcb, !.ready_queue = rq, !.ready_primap = pm, !.ret = FALSE]
      BY <2>1, <3>1 DEF Fields
    <3> QED BY <3>2
  <2> QED BY <2>2, <2>3
<1>2. x = [f \in Fields |-> x[f]] /\ Same(x, k, F)
  <2>1. PICK y : y = [k EXCEPT !.tcb = tcb, !.ready_queue = rq]
    OBVIOUS
  <2>2. y = [f \in Fields |-> y[f]] /\ Same(y, k, {"tcb", "ready_queue"})
    BY <2>1 DEF Fields, Same
  <2>3. x = [y EXCEPT !.ready_primap = pm, !.ret = FALSE]
    BY <1>1, <2>1 DEF Fields
  <2>4. x = [f \in Fields |-> x[f]] /\ Same(x, y, {"ready_primap", "ret"})
    BY <2>2, <2>3 DEF Fields, Same
  <2> QED BY <2>2, <2>4 DEF Same
<1>3. CASE m = x
  BY <1>2, <1>3
<1>4. CASE \E next, r : m = [x EXCEPT !.schedtsk = next, !.ret = r]
  BY <1>2, <1>4 DEF Fields, Same
<1> QED BY <1>1, <1>3, <1>4

LEMMA ChangedIs ==
  ASSUME NEW k, Shape(k), k.schedtsk \in Task, k.ready_queue \in [Priority -> Seq(Task)],
         NEW t \in Task, NEW newpri \in Priority, NEW m, m = change_priority(k, t, newpri)
  PROVE  Reprioritized(m, k, t, newpri)
<1>1. PICK pri : pri = k.tcb[t].priority /\ pri = Prio(k)[t]
  BY DEF Prio
<1>2. PICK q, left, pm1 :
        /\ q = queue_delete(k.ready_queue[pri], t) /\ left = [k.ready_queue EXCEPT ![pri] = q]
        /\ pm1 = IF q = << >> THEN k.ready_primap \ {pri} ELSE k.ready_primap
  OBVIOUS
<1>3. PICK rq, pm : rq = [left EXCEPT ![newpri] = Append(@, t)] /\ pm = pm1 \cup {newpri}
  OBVIOUS
<1>4. pri \in Priority /\ left[pri] = q
  BY <1>1, <1>2 DEF Shape, Block
<1>5. /\ m = [f \in Fields |-> m[f]]
      /\ Same(m, k, {"tcb", "ready_queue", "ready_primap", "schedtsk", "ret"})
  BY ChangedFields DEF Shape
<1>6. m.tcb = [k.tcb EXCEPT ![t].priority = newpri]
  BY DEF change_priority, Shape, Fields
<1>7. m.ready_queue = rq
  BY <1>1, <1>2, <1>3 DEF change_priority, Shape, Fields
<1>8. m.ready_primap = pm
  BY <1>1, <1>2, <1>3, <1>4 DEF change_priority, Shape, Fields
<1>9. PICK moved : moved = [k EXCEPT !.tcb[t].priority = newpri, !.ready_queue = rq,
                                     !.ready_primap = pm, !.ret = FALSE]
  OBVIOUS
<1>10. /\ moved.ready_queue = rq /\ moved.ready_primap = pm /\ moved.schedtsk = k.schedtsk
       /\ moved.ret = FALSE /\ moved = [f \in Fields |-> moved[f]]
  BY <1>9 DEF Shape, Fields
<1>11. m = IF k.schedtsk = t /\ newpri >= pri
           THEN [moved EXCEPT !.schedtsk = search_schedtsk(moved),
                              !.ret = search_schedtsk(moved) # t /\ k.enadsp]
           ELSE IF k.schedtsk # t /\ newpri < k.tcb[k.schedtsk].priority
           THEN [moved EXCEPT !.schedtsk = t, !.ret = k.enadsp]
           ELSE moved
  <2>1. PICK x : x = [k EXCEPT !.tcb[t].priority = newpri, !.ready_queue = rq,
             !.ready_primap = (IF left[pri] = << >>
                               THEN k.ready_primap \ {pri} ELSE k.ready_primap) \cup {newpri},
             !.ret = FALSE]
    OBVIOUS
  <2>2. x = moved
    BY <1>2, <1>3, <1>4, <1>9, <2>1
  <2>3. rq = [left EXCEPT ![newpri] = Append(left[newpri], t)]
        /\ left = [k.ready_queue EXCEPT ![pri] = queue_delete(k.ready_queue[pri], t)]
    BY <1>2, <1>3
  <2>4. m = IF k.schedtsk = t /\ newpri >= pri
            THEN [x EXCEPT !.schedtsk = search_schedtsk(x),
                           !.ret = search_schedtsk(x) # t /\ k.enadsp]
            ELSE IF k.schedtsk # t /\ newpri < k.tcb[k.schedtsk].priority
            THEN [x EXCEPT !.schedtsk = t, !.ret = k.enadsp]
            ELSE x
    BY <1>1, <2>1, <2>3 DEF change_priority
  <2> QED BY <2>2, <2>4
<1>12. search_schedtsk(moved) = Head(rq[Highest(pm)])
  BY <1>10 DEF search_schedtsk
<1>13. m.schedtsk = IF k.schedtsk = t /\ newpri >= pri THEN Head(rq[Highest(pm)])
                    ELSE IF k.schedtsk # t /\ newpri < k.tcb[k.schedtsk].priority THEN t
                    ELSE k.schedtsk
  BY <1>10, <1>11, <1>12 DEF Fields
<1>14. m.ret = IF k.schedtsk = t /\ newpri >= pri THEN Head(rq[Highest(pm)]) # t /\ k.enadsp
               ELSE IF k.schedtsk # t /\ newpri < k.tcb[k.schedtsk].priority THEN k.enadsp
               ELSE FALSE
  BY <1>10, <1>11, <1>12 DEF Fields
<1>15. k.enadsp \in BOOLEAN
  BY DEF Shape, Flags
<1>16. Asks(m, k) /\ m.ret \in BOOLEAN
  BY <1>13, <1>14, <1>15 DEF Asks
<1>17. Shifts(m.schedtsk, t, k.schedtsk, Prio(k), newpri, m.ready_queue, m.ready_primap)
  BY <1>1, <1>7, <1>8, <1>13 DEF Shifts, Prio
<1>18. Removed(left, pm1, q, k.ready_queue, k.ready_primap, t, Prio(k)[t])
  BY <1>1, <1>2 DEF Removed
<1>19. Added(m.ready_queue, m.ready_primap, left, pm1, t, newpri)
  BY <1>3, <1>7, <1>8 DEF Added
<1>20. PriorityOnly(m, k, t, newpri)
  BY <1>6, PrioritySet
<1> QED BY <1>5, <1>16, <1>17, <1>18, <1>19, <1>20 DEF Reprioritized

LEMMA ChangesPriority ==
  ASSUME NEW k, NEW t \in Task, NEW R, NEW C, NEW S, Mid(k, t, R, C, S), t \in R, t \notin C,
         NEW newpri \in Priority, NEW m, m = change_priority(k, t, newpri)
  PROVE  /\ Mid(m, t, R, C, S) /\ Calm(m, k, t) /\ Nodes(m, t) = Nodes(k, t) /\ Asks(m, k)
         /\ m.tcb[t].tstat = k.tcb[t].tstat /\ m.tcb[t].winfo = k.tcb[t].winfo
<1>1. Shape(k) /\ Sched(k, R) /\ Waits(k, C, S) /\ Events(k)
  BY DEF Mid, Base
<1>2. k.schedtsk \in Task
  BY <1>1, ScheduledTask
<1>3. Prio(k) \in [Task -> Priority] /\ k.ready_queue \in [Priority -> Seq(Task)]
  BY <1>1, PrioFacts DEF Sched, Queues
<1>0. Reprioritized(m, k, t, newpri)
  BY <1>1, <1>2, <1>3, ChangedIs
<1>4. /\ m = [f \in Fields |-> m[f]]
      /\ Same(m, k, {"tcb", "ready_queue", "ready_primap", "schedtsk", "ret"})
      /\ Shifts(m.schedtsk, t, k.schedtsk, Prio(k), newpri, m.ready_queue, m.ready_primap)
      /\ Asks(m, k) /\ m.ret \in BOOLEAN
  BY <1>0 DEF Reprioritized
<1>5. /\ m.tcb = [u \in Task |-> m.tcb[u]] /\ \A u \in Task \ {t} : m.tcb[u] = k.tcb[u]
      /\ Block(m.tcb[t]) /\ m.tcb[t].priority = newpri
      /\ \A f \in Blocks \ {"priority"} : m.tcb[t][f] = k.tcb[t][f]
  BY <1>0 DEF Reprioritized, PriorityOnly
<1>6. /\ m.obj = k.obj /\ m.cfg = k.cfg /\ m.cycsta = k.cycsta
      /\ \A f \in Flags \ {"ret"} : m[f] = k[f]
  BY <1>4 DEF Same, Fields, Flags
<1>7. Shape(m)
  BY <1>1, <1>4, <1>5, <1>6 DEF Shape, Flags
<1>8. /\ Prio(m) \in [Task -> Priority] /\ Prio(m)[t] = newpri
      /\ \A u \in Task \ {t} : Prio(m)[u] = Prio(k)[u]
  BY <1>5, <1>7, PrioFacts DEF Prio
<1>9. /\ R \subseteq Task /\ Queues(k.ready_queue, k.ready_primap, R, Prio(k))
      /\ First(k.schedtsk, k.ready_queue, R, Prio(k))
  BY <1>1 DEF Sched
<1>10. PICK q, left, pm1 :
         /\ Removed(left, pm1, q, k.ready_queue, k.ready_primap, t, Prio(k)[t])
         /\ Added(m.ready_queue, m.ready_primap, left, pm1, t, newpri)
  BY <1>0 DEF Reprioritized
<1>11. Queues(m.ready_queue, m.ready_primap, R, Prio(m))
  <2>1. Shifted(R, t, left, pm1, m.ready_queue, m.ready_primap, Prio(k), Prio(m))
    BY <1>3, <1>8, <1>9, <1>10, ReadyShifted
  <2> QED BY <2>1 DEF Shifted
<1>12. First(m.schedtsk, m.ready_queue, R, Prio(m))
  BY <1>3, <1>4, <1>8, <1>9, <1>10, FirstShifted
<1>13. Sched(m, R)
  BY <1>9, <1>11, <1>12 DEF Sched
<1>14. SamePriorities(m, k, t)
  BY <1>5 DEF SamePriorities
<1>15. Waits(m, C, S)
  BY <1>1, <1>6, <1>14, WaitsElsewhere
<1>16. \A f \in Timing : m[f] = k[f]
  BY <1>4 DEF Same, Fields, Timing
<1>17. Events(m) /\ \A o : Nodes(m, o) = Nodes(k, o)
  BY <1>1, <1>16, TheEvents
<1>18. Mid(m, t, R, C, S)
  <2>1. Base(m, R, C, S)
    BY <1>7, <1>13, <1>15, <1>17 DEF Base
  <2> QED BY <1>5, <1>6, <1>17, <2>1, MidKept
<1>19. /\ m.tcb[t].enatex = k.tcb[t].enatex /\ m.tcb[t].texptn = k.tcb[t].texptn
       /\ m.tcb[t].tstat = k.tcb[t].tstat /\ m.tcb[t].winfo = k.tcb[t].winfo
  BY <1>5 DEF Blocks
<1>20. Calm(m, k, t)
  BY <1>4, <1>5, <1>19 DEF Calm, Same
<1> QED BY <1>4, <1>17, <1>18, <1>19, <1>20

LEMMA RotatedIs ==
  ASSUME NEW k, Shape(k), k.ready_queue \in [Priority -> Seq(Task)],
         NEW pri \in Priority, NEW t \in Task,
         NEW m, m = rotate_ready_queue(k, pri)
  PROVE  /\ TaskWrite(m, k, t, {}, {"ready_queue", "ready_primap", "schedtsk", "ret"})
         /\ m.tcb = k.tcb /\ Asks(m, k) /\ m.ret \in BOOLEAN
         /\ \/ /\ m.ready_queue = k.ready_queue /\ m.ready_primap = k.ready_primap
               /\ m.schedtsk = k.schedtsk
            \/ /\ Turned(m.ready_queue, m.schedtsk, k.ready_queue, k.schedtsk, pri)
               /\ m.ready_primap = k.ready_primap
<1>1. /\ m = [f \in Fields |-> m[f]]
      /\ Same(m, k, {"ready_queue", "ready_primap", "schedtsk", "ret"})
      /\ m.tcb = k.tcb /\ m.ready_primap = k.ready_primap
  BY DEF rotate_ready_queue, Shape, Fields, Same
<1>2. TaskWrite(m, k, t, {}, {"ready_queue", "ready_primap", "schedtsk", "ret"})
  BY <1>1 DEF TaskWrite, Shape, Block, Same
<1>3. PICK q, r : q = k.ready_queue[pri] /\ r = Append(Tail(q), Head(q))
  OBVIOUS
<1>4. k.enadsp \in BOOLEAN /\ Len(q) \in Nat
  BY <1>3 DEF Shape, Flags
<1>5. CASE Len(q) < 2
  <2>1. /\ m.ready_queue = k.ready_queue /\ m.schedtsk = k.schedtsk /\ m.ret = FALSE
    BY <1>3, <1>5 DEF rotate_ready_queue, Shape, Fields
  <2> QED BY <1>1, <1>2, <2>1 DEF Asks
<1>6. CASE ~ (Len(q) < 2)
  <2>1. /\ m.ready_queue = [k.ready_queue EXCEPT ![pri] = r]
        /\ m.schedtsk = IF k.schedtsk = Head(q) THEN Head(r) ELSE k.schedtsk
        /\ m.ret = IF k.schedtsk = Head(q) THEN k.enadsp ELSE FALSE
    BY <1>3, <1>6 DEF rotate_ready_queue, Shape, Fields
  <2>2. Turned(m.ready_queue, m.schedtsk, k.ready_queue, k.schedtsk, pri)
    BY <1>3, <1>4, <1>6, <2>1 DEF Turned
  <2>3. Asks(m, k) /\ m.ret \in BOOLEAN
    BY <1>4, <2>1 DEF Asks
  <2> QED BY <1>1, <1>2, <2>2, <2>3
<1> QED BY <1>5, <1>6

LEMMA Rotates ==
  ASSUME NEW k, NEW t \in Task, NEW R, NEW C, NEW S, Mid(k, t, R, C, S),
         NEW pri \in Priority, NEW m, m = rotate_ready_queue(k, pri)
  PROVE  /\ Mid(m, t, R, C, S) /\ Calm(m, k, t) /\ Nodes(m, t) = Nodes(k, t) /\ Asks(m, k)
         /\ m.tcb = k.tcb
<1>1. Shape(k) /\ Sched(k, R)
  BY DEF Mid, Base
<1>2. /\ R \subseteq Task /\ Queues(k.ready_queue, k.ready_primap, R, Prio(k))
      /\ First(k.schedtsk, k.ready_queue, R, Prio(k))
      /\ k.ready_queue \in [Priority -> Seq(Task)] /\ Prio(k) \in [Task -> Priority]
  BY <1>1, PrioFacts DEF Sched, Queues
<1>3. /\ TaskWrite(m, k, t, {}, {"ready_queue", "ready_primap", "schedtsk", "ret"})
      /\ m.tcb = k.tcb /\ Asks(m, k) /\ m.ret \in BOOLEAN
      /\ \/ /\ m.ready_queue = k.ready_queue /\ m.ready_primap = k.ready_primap
            /\ m.schedtsk = k.schedtsk
         \/ /\ Turned(m.ready_queue, m.schedtsk, k.ready_queue, k.schedtsk, pri)
            /\ m.ready_primap = k.ready_primap
  BY <1>1, <1>2, RotatedIs
<1>4. Queues(m.ready_queue, m.ready_primap, R, Prio(k)) /\ First(m.schedtsk, m.ready_queue, R,
        Prio(k))
  <2>1. CASE m.ready_queue = k.ready_queue /\ m.ready_primap = k.ready_primap
          /\ m.schedtsk = k.schedtsk
    BY <1>2, <2>1
  <2>2. CASE /\ Turned(m.ready_queue, m.schedtsk, k.ready_queue, k.schedtsk, pri)
             /\ m.ready_primap = k.ready_primap
    BY <1>2, <2>2, ReadyTurned
  <2> QED BY <1>3, <2>1, <2>2
<1>5. Prio(m) = Prio(k) => Sched(m, R)
  BY <1>2, <1>4 DEF Sched
<1>6. R \ {t} = R \ {t} /\ {} \subseteq Blocks \ {"priority", "enatex", "texptn"}
  OBVIOUS
<1>7. Mid(m, t, R, C, S) /\ Calm(m, k, t) /\ Nodes(m, t) = Nodes(k, t)
  BY <1>3, <1>5, <1>6, Rescheduled
<1> QED BY <1>3, <1>7

--------------------------------------------------------------------------------
(* Time events and the queues of objects. *)

LEMMA HeapMoved ==
  ASSUME NEW k, NEW o, NEW R, NEW C, NEW S, Mid(k, o, R, C, S),
         NEW m, Moved(m, k), Heaped(m), \A u \in EventOwner \ {o} : Nodes(m, u) = Nodes(k, u)
  PROVE  Mid(m, o, R, C, S) /\ Calm(m, k, o) /\ Same(m, k, {"heap", "index"}) /\ m.ret = k.ret
<1>1. Shape(k) /\ Sched(k, R) /\ Waits(k, C, S) /\ Events(k)
  BY DEF Mid, Base
<1>2. PICK h, i : m = [k EXCEPT !.heap = h, !.index = i]
  BY DEF Moved
<1>3. m = [f \in Fields |-> m[f]] /\ Same(m, k, {"heap", "index"})
  BY <1>1, <1>2 DEF Shape, Fields, Same
<1>4. /\ m.tcb = k.tcb /\ m.obj = k.obj /\ m.cfg = k.cfg /\ m.cycsta = k.cycsta
      /\ m.evttim = k.evttim /\ m.next_time = k.next_time /\ m.current_time = k.current_time
      /\ m.ready_queue = k.ready_queue /\ m.ready_primap = k.ready_primap
      /\ m.schedtsk = k.schedtsk /\ \A f \in Flags : m[f] = k[f]
  BY <1>3 DEF Same, Fields, Flags
<1>5. Shape(m)
  BY <1>1, <1>3, <1>4 DEF Shape
<1>6. Prio(m) = Prio(k)
  BY <1>4 DEF Prio
<1>7. Sched(m, R)
  BY <1>1, <1>4, <1>6, TheSchedule
<1>8. Waits(m, C, S)
  BY <1>1, <1>4, <1>6, TheWaits
<1>9. Events(m)
  BY <1>1, <1>4 DEF Events
<1>10. Base(m, R, C, S)
  BY <1>5, <1>7, <1>8, <1>9 DEF Base
<1>11. Mid(m, o, R, C, S)
  BY <1>4, <1>10, MidKept
<1>12. Calm(m, k, o)
  BY <1>3, <1>4 DEF Calm, Same
<1>13. m.ret = k.ret
  BY <1>4 DEF Flags
<1> QED BY <1>3, <1>11, <1>12, <1>13

LEMMA Deletes ==
  ASSUME NEW k, NEW o \in EventOwner, NEW R, NEW C, NEW S, Mid(k, o, R, C, S), Nodes(k, o) # {},
         NEW m, m = tmevtb_delete(k, o)
  PROVE  /\ Mid(m, o, R, C, S) /\ Calm(m, k, o) /\ Nodes(m, o) = {}
         /\ Same(m, k, {"heap", "index"}) /\ m.ret = k.ret
<1>1. Heaped(k) /\ Clock \subseteq DOMAIN k
  BY DEF Mid, Base, Events, Shape, Clock, Fields
<1>2. ~ Unowned(k, o)
  BY DEF Nodes, Unowned
<1>3. Deleted(m, k, o)
  BY <1>1, <1>2, DeleteHeaped
<1>4. Moved(m, k) /\ Heaped(m) /\ Elements(m.heap) = Without(k, o)
  BY <1>3 DEF Deleted
<1>5. Nodes(m, o) = {} /\ \A u \in EventOwner \ {o} : Nodes(m, u) = Nodes(k, u)
  BY <1>4 DEF Nodes, Without
<1>6. Mid(m, o, R, C, S) /\ Calm(m, k, o) /\ Same(m, k, {"heap", "index"}) /\ m.ret = k.ret
  BY <1>4, <1>5, HeapMoved
<1> QED BY <1>5, <1>6

LEMMA Inserts ==
  ASSUME NEW k, NEW o \in EventOwner, NEW R, NEW C, NEW S, Mid(k, o, R, C, S), Nodes(k, o) = {},
         NEW callback \in Callbacks, NEW time \in EVTTIM,
         NEW m, m = tmevtb_insert(k, o, callback, time)
  PROVE  /\ Mid(m, o, R, C, S) /\ Calm(m, k, o) /\ Same(m, k, {"heap", "index"}) /\ m.ret = k.ret
         /\ Nodes(m, o) = {[time |-> time, owner |-> o, callback |-> callback]}
<1>1. Heaped(k) /\ Clock \subseteq DOMAIN k
  BY DEF Mid, Base, Events, Shape, Clock, Fields
<1>2. Unowned(k, o)
  BY DEF Nodes, Unowned
<1>3. PICK node : node = [time |-> time, owner |-> o, callback |-> callback]
  OBVIOUS
<1>4. Moved(m, k) /\ Heaped(m) /\ Elements(m.heap) = Elements(k.heap) \cup {node}
  BY <1>1, <1>2, <1>3, InsertHeaped
<1>5. node.owner = o
  BY <1>3
<1>6. Nodes(m, o) = {node} /\ \A u \in EventOwner \ {o} : Nodes(m, u) = Nodes(k, u)
  BY <1>2, <1>4, <1>5 DEF Nodes, Unowned
<1>7. Mid(m, o, R, C, S) /\ Calm(m, k, o) /\ Same(m, k, {"heap", "index"}) /\ m.ret = k.ret
  BY <1>4, <1>6, HeapMoved
<1> QED BY <1>3, <1>6, <1>7

LEMMA StopsWatch ==
  ASSUME NEW k, NEW t \in Task, NEW R, NEW C, NEW S, Mid(k, t, R, C, S),
         "WAITING" \in k.tcb[t].tstat, Watched(k.tcb[t].tstat, k.tcb[t].winfo, Nodes(k, t)),
         NEW m, m = StopWatch(k, t)
  PROVE  /\ Mid(m, t, R, C, S) /\ Calm(m, k, t) /\ Nodes(m, t) = {}
         /\ Same(m, k, {"heap", "index"}) /\ m.ret = k.ret
<1>1. t \in EventOwner
  BY DEF EventOwner
<1>2. CASE k.tcb[t].winfo = Zero
  <2>1. m = k /\ Nodes(k, t) = {}
    BY <1>2 DEF StopWatch, Watched, Zero, TMEVTB
  <2> QED BY <2>1 DEF Calm, Same
<1>3. CASE k.tcb[t].winfo # Zero
  <2>1. m = tmevtb_delete(k, t) /\ Nodes(k, t) # {}
    BY <1>3 DEF StopWatch, Watched
  <2> QED BY <1>1, <2>1, Deletes
<1> QED BY <1>2, <1>3

ObjectWrite(m, k) ==
  m = [f \in Fields |-> m[f]] /\ Same(m, k, {"obj"}) /\ m.obj = [f \in Queued |-> m.obj[f]]

QueuesKept(m, k, t) ==
  /\ Calm(m, k, t) /\ Nodes(m, t) = Nodes(k, t)
  /\ m.tcb = k.tcb /\ m.schedtsk = k.schedtsk /\ m.ret = k.ret

LEMMA QueuesWritten ==
  ASSUME NEW k, NEW t \in Task, NEW R, NEW C, NEW S, Mid(k, t, R, C, S),
         NEW m, ObjectWrite(m, k),
         NEW C1, NEW S1, C1 \ {t} = C \ {t}, S1 \ {t} = S \ {t},
         Queue(m.obj.wait_queue, C1), Queue(m.obj.rwait_queue, S1),
         k.cfg.tpri => InOrder(m.obj.wait_queue, Prio(k))
  PROVE  Mid(m, t, R, C1, S1) /\ QueuesKept(m, k, t)
<1>0. /\ m = [f \in Fields |-> m[f]] /\ Same(m, k, {"obj"}) /\ m.obj = [f \in Queued |-> m.obj[f]]
  BY DEF ObjectWrite
<1>1. Shape(k) /\ Sched(k, R) /\ Events(k)
  BY DEF Mid, Base
<1>2. /\ m.tcb = k.tcb /\ m.cfg = k.cfg /\ m.cycsta = k.cycsta
      /\ m.ready_queue = k.ready_queue /\ m.ready_primap = k.ready_primap
      /\ m.schedtsk = k.schedtsk /\ \A f \in Flags : m[f] = k[f]
  BY <1>0 DEF Same, Fields, Flags
<1>3. Shape(m)
  BY <1>0, <1>1, <1>2 DEF Shape
<1>4. Prio(m) = Prio(k)
  BY <1>2 DEF Prio
<1>5. Sched(m, R)
  BY <1>1, <1>2, <1>4, TheSchedule
<1>6. Waits(m, C1, S1)
  BY <1>2, <1>4 DEF Waits
<1>7. \A f \in Timing : m[f] = k[f]
  BY <1>0 DEF Same, Fields, Timing
<1>8. Events(m) /\ \A o : Nodes(m, o) = Nodes(k, o)
  BY <1>1, <1>7, TheEvents
<1>9. Base(m, R, C1, S1)
  BY <1>3, <1>5, <1>6, <1>8 DEF Base
<1>10. Mid(m, t, R, C1, S1)
  BY <1>2, <1>8, <1>9, MidKept
<1>11. Calm(m, k, t) /\ m.ret = k.ret
  BY <1>0, <1>2 DEF Calm, Same, Flags
<1> QED BY <1>2, <1>8, <1>10, <1>11 DEF QueuesKept

LEMMA QueueDeleted ==
  ASSUME NEW q, NEW Q, Queue(q, Q), NEW t
  PROVE  /\ Queue(queue_delete(q, t), Q \ {t})
         /\ \A key \in [Task -> Int] : InOrder(q, key) => InOrder(queue_delete(q, t), key)
<1>1. q \in Seq(Task) /\ Distinct(q) /\ Elements(q) = Q
  BY DEF Queue
<1>2. PICK r : r = queue_delete(q, t)
  OBVIOUS
<1>3. /\ r \in Seq(Task) /\ Distinct(r) /\ Elements(r) = Elements(q) \ {t}
      /\ \A key \in [Task -> Int] : InOrder(q, key) => InOrder(r, key)
  BY <1>1, <1>2, DeletedSet
<1> QED BY <1>1, <1>2, <1>3 DEF Queue

LEMMA QueueAppended ==
  ASSUME NEW q, NEW Q, Queue(q, Q), NEW t \in Task, t \notin Q
  PROVE  Queue(Append(q, t), Q \cup {t})
<1>1. q \in Seq(Task) /\ Distinct(q) /\ Elements(q) = Q
  BY DEF Queue
<1>2. PICK r : r = Append(q, t)
  OBVIOUS
<1>3. r \in Seq(Task) /\ Distinct(r) /\ Elements(r) = Elements(q) \cup {t}
  BY <1>1, <1>2, AppendedSet
<1> QED BY <1>1, <1>2, <1>3 DEF Queue

LEMMA QueueTail ==
  ASSUME NEW q, NEW Q, Queue(q, Q), q # << >>
  PROVE  /\ Queue(Tail(q), Q \ {Head(q)}) /\ Head(q) \in Q /\ Head(q) \in Task
         /\ \A key \in [Task -> Int] : InOrder(q, key) => InOrder(Tail(q), key)
<1>1. q \in Seq(Task) /\ Distinct(q) /\ Elements(q) = Q
  BY DEF Queue
<1>2. /\ Tail(q) \in Seq(Task) /\ Distinct(Tail(q)) /\ Head(q) \in Task
      /\ Head(q) \in Elements(q) /\ Elements(Tail(q)) = Elements(q) \ {Head(q)}
      /\ \A key \in [Task -> Int] : InOrder(q, key) => InOrder(Tail(q), key)
  BY <1>1, TailSet
<1> QED BY <1>1, <1>2 DEF Queue

LEMMA QueueBehind ==
  ASSUME NEW q, NEW Q, Queue(q, Q), NEW t \in Task, t \notin Q, NEW key \in [Task -> Int],
         NEW r, Behind(r, q, t, key)
  PROVE  Queue(r, Q \cup {t}) /\ (InOrder(q, key) => InOrder(r, key))
<1>1. q \in Seq(Task) /\ Distinct(q) /\ Elements(q) = Q
  BY DEF Queue
<1>2. /\ r \in Seq(Task) /\ Distinct(r) /\ Elements(r) = Elements(q) \cup {t}
      /\ InOrder(q, key) => InOrder(r, key)
  BY <1>1, InsertedBehind
<1> QED BY <1>1, <1>2 DEF Queue

LEMMA TheQueues ==
  ASSUME NEW k, NEW t, NEW R, NEW C, NEW S, Mid(k, t, R, C, S)
  PROVE  /\ Queue(k.obj.wait_queue, C) /\ Queue(k.obj.rwait_queue, S)
         /\ k.cfg.tpri => InOrder(k.obj.wait_queue, Prio(k))
         /\ Prio(k) \in [Task -> Int] /\ Shape(k) /\ k.cfg.tpri \in BOOLEAN
<1>1. Shape(k) /\ Waits(k, C, S)
  BY DEF Mid, Base
<1>2. Prio(k) \in [Task -> Int]
  BY <1>1, PrioFacts
<1>3. k.cfg.tpri \in BOOLEAN
  BY <1>1, Configuration
<1> QED BY <1>1, <1>2, <1>3 DEF Waits

LEMMA LeavesQueues ==
  ASSUME NEW k, NEW t \in Task, NEW R, NEW C, NEW S, Mid(k, t, R, C, S),
         NEW m, m = LeaveQueues(k, t)
  PROVE  Mid(m, t, R, C \ {t}, S \ {t}) /\ QueuesKept(m, k, t)
<1>1. /\ Queue(k.obj.wait_queue, C) /\ Queue(k.obj.rwait_queue, S)
      /\ k.cfg.tpri => InOrder(k.obj.wait_queue, Prio(k))
      /\ Prio(k) \in [Task -> Int] /\ Shape(k)
  BY TheQueues
<1>2. /\ ObjectWrite(m, k)
      /\ m.obj.wait_queue = queue_delete(k.obj.wait_queue, t)
      /\ m.obj.rwait_queue = queue_delete(k.obj.rwait_queue, t)
  BY <1>1 DEF LeaveQueues, Shape, Fields, Queued, Same, ObjectWrite
<1>3. Queue(m.obj.wait_queue, C \ {t}) /\ Queue(m.obj.rwait_queue, S \ {t})
  BY <1>1, <1>2, QueueDeleted
<1>4. k.cfg.tpri => InOrder(m.obj.wait_queue, Prio(k))
  BY <1>1, <1>2, QueueDeleted
<1>5. (C \ {t}) \ {t} = C \ {t} /\ (S \ {t}) \ {t} = S \ {t}
  OBVIOUS
<1>6. (k.cfg.tpri => InOrder(m.obj.wait_queue, Prio(k))) /\ ObjectWrite(m, k)
  BY <1>2, <1>4
<1>7. Mid(m, t, R, C \ {t}, S \ {t}) /\ QueuesKept(m, k, t)
  BY <1>3, <1>5, <1>6, QueuesWritten
<1> QED BY <1>7

LEMMA TpriIsBehind ==
  ASSUME NEW k, NEW t \in Task, NEW q, NEW Q, Queue(q, Q)
  PROVE  Behind(queue_insert_tpri(k, t, q), q, t, Prio(k))
<1>1. q \in Seq(Task)
  BY DEF Queue
<1>2. \A i \in DOMAIN q : q[i] \in Task
  BY <1>1
<1>3. {i \in DOMAIN q : k.tcb[q[i]].priority <= k.tcb[t].priority} =
        {i \in DOMAIN q : Prio(k)[q[i]] <= Prio(k)[t]}
  BY <1>2 DEF Prio
<1> QED BY <1>3 DEF Behind, queue_insert_tpri

LEMMA EntersQueue ==
  ASSUME NEW k, NEW t \in Task, NEW R, NEW C, NEW S, Mid(k, t, R, C, S), t \notin C,
         NEW m, m = wobj_queue_insert(k, t)
  PROVE  Mid(m, t, R, C \cup {t}, S) /\ QueuesKept(m, k, t)
<1>1. /\ Queue(k.obj.wait_queue, C) /\ Queue(k.obj.rwait_queue, S)
      /\ k.cfg.tpri => InOrder(k.obj.wait_queue, Prio(k))
      /\ Prio(k) \in [Task -> Int] /\ Shape(k) /\ k.cfg.tpri \in BOOLEAN
  BY TheQueues
<1>2. PICK q : q = IF k.cfg.tpri THEN queue_insert_tpri(k, t, k.obj.wait_queue)
                   ELSE Append(k.obj.wait_queue, t)
  OBVIOUS
<1>3. ObjectWrite(m, k) /\ m.obj.wait_queue = q /\ m.obj.rwait_queue = k.obj.rwait_queue
  BY <1>1, <1>2 DEF wobj_queue_insert, Shape, Fields, Queued, Same, ObjectWrite
<1>4. Queue(q, C \cup {t}) /\ (k.cfg.tpri => InOrder(q, Prio(k)))
  <2>1. CASE k.cfg.tpri
    <3>1. Behind(q, k.obj.wait_queue, t, Prio(k))
      BY <1>1, <1>2, <2>1, TpriIsBehind
    <3> QED BY <1>1, <2>1, <3>1, QueueBehind
  <2>2. CASE ~k.cfg.tpri
    BY <1>1, <1>2, <2>2, QueueAppended
  <2> QED BY <1>1, <2>1, <2>2
<1>5. /\ Queue(m.obj.wait_queue, C \cup {t}) /\ Queue(m.obj.rwait_queue, S) /\ ObjectWrite(m, k)
      /\ k.cfg.tpri => InOrder(m.obj.wait_queue, Prio(k))
      /\ (C \cup {t}) \ {t} = C \ {t}
  BY <1>1, <1>3, <1>4
<1> QED BY <1>5, QueuesWritten

\* The object's queues become w and r.
QueuesAre(m, k, w, r) == ObjectWrite(m, k) /\ m.obj.wait_queue = w /\ m.obj.rwait_queue = r

IsHead(t, q) == q # << >> /\ t = Head(q)

LEMMA HeadOff ==
  ASSUME NEW q, NEW Q, Queue(q, Q), NEW t, IsHead(t, q)
  PROVE  /\ Queue(Tail(q), Q \ {t}) /\ t \in Q /\ t \in Task
         /\ \A key \in [Task -> Int] : InOrder(q, key) => InOrder(Tail(q), key)
BY QueueTail DEF IsHead

\* The head of a queue is taken off.
LEMMA TakesFirst ==
  ASSUME NEW k, NEW t, NEW R, NEW C, NEW S, Mid(k, t, R, C, S), IsHead(t, k.obj.wait_queue),
         NEW m, QueuesAre(m, k, Tail(k.obj.wait_queue), k.obj.rwait_queue)
  PROVE  t \in Task /\ t \in C /\ Mid(m, t, R, C \ {t}, S) /\ QueuesKept(m, k, t)
<1>1. /\ Queue(k.obj.wait_queue, C) /\ Queue(k.obj.rwait_queue, S)
      /\ k.cfg.tpri => InOrder(k.obj.wait_queue, Prio(k))
      /\ Prio(k) \in [Task -> Int]
  BY TheQueues
<1>2. PICK q : q = Tail(k.obj.wait_queue)
  OBVIOUS
<1>3. Queue(q, C \ {t}) /\ t \in C /\ t \in Task /\ (k.cfg.tpri => InOrder(q, Prio(k)))
  BY <1>1, <1>2, HeadOff
<1>4. ObjectWrite(m, k) /\ m.obj.wait_queue = q /\ m.obj.rwait_queue = k.obj.rwait_queue
  BY <1>2 DEF QueuesAre
<1>5. /\ Queue(m.obj.wait_queue, C \ {t}) /\ Queue(m.obj.rwait_queue, S) /\ ObjectWrite(m, k)
      /\ k.cfg.tpri => InOrder(m.obj.wait_queue, Prio(k))
      /\ (C \ {t}) \ {t} = C \ {t} /\ t \in Task
  BY <1>1, <1>3, <1>4
<1>6. Mid(m, t, R, C \ {t}, S) /\ QueuesKept(m, k, t)
  BY <1>5, QueuesWritten
<1> QED BY <1>3, <1>6

LEMMA TakesReceiver ==
  ASSUME NEW k, NEW t, NEW R, NEW C, NEW S, Mid(k, t, R, C, S), IsHead(t, k.obj.rwait_queue),
         NEW m, QueuesAre(m, k, k.obj.wait_queue, Tail(k.obj.rwait_queue))
  PROVE  t \in Task /\ t \in S /\ Mid(m, t, R, C, S \ {t}) /\ QueuesKept(m, k, t)
<1>1. /\ Queue(k.obj.wait_queue, C) /\ Queue(k.obj.rwait_queue, S)
      /\ k.cfg.tpri => InOrder(k.obj.wait_queue, Prio(k))
  BY TheQueues
<1>2. PICK q : q = Tail(k.obj.rwait_queue)
  OBVIOUS
<1>3. Queue(q, S \ {t}) /\ t \in S /\ t \in Task
  BY <1>1, <1>2, HeadOff
<1>4. ObjectWrite(m, k) /\ m.obj.rwait_queue = q /\ m.obj.wait_queue = k.obj.wait_queue
  BY <1>2 DEF QueuesAre
<1>5. /\ Queue(m.obj.wait_queue, C) /\ Queue(m.obj.rwait_queue, S \ {t}) /\ ObjectWrite(m, k)
      /\ k.cfg.tpri => InOrder(m.obj.wait_queue, Prio(k))
      /\ (S \ {t}) \ {t} = S \ {t} /\ t \in Task
  BY <1>1, <1>3, <1>4
<1>6. Mid(m, t, R, C, S \ {t}) /\ QueuesKept(m, k, t)
  BY <1>5, QueuesWritten
<1> QED BY <1>3, <1>6

LEMMA JoinsReceivers ==
  ASSUME NEW k, NEW t \in Task, NEW R, NEW C, NEW S, Mid(k, t, R, C, S), t \notin S,
         NEW m, QueuesAre(m, k, k.obj.wait_queue, Append(k.obj.rwait_queue, t))
  PROVE  Mid(m, t, R, C, S \cup {t}) /\ QueuesKept(m, k, t)
<1>1. /\ Queue(k.obj.wait_queue, C) /\ Queue(k.obj.rwait_queue, S)
      /\ k.cfg.tpri => InOrder(k.obj.wait_queue, Prio(k))
  BY TheQueues
<1>2. PICK q : q = Append(k.obj.rwait_queue, t)
  OBVIOUS
<1>3. Queue(q, S \cup {t})
  BY <1>1, <1>2, QueueAppended
<1>4. ObjectWrite(m, k) /\ m.obj.rwait_queue = q /\ m.obj.wait_queue = k.obj.wait_queue
  BY <1>2 DEF QueuesAre
<1>5. /\ Queue(m.obj.wait_queue, C) /\ Queue(m.obj.rwait_queue, S \cup {t}) /\ ObjectWrite(m, k)
      /\ k.cfg.tpri => InOrder(m.obj.wait_queue, Prio(k))
      /\ (S \cup {t}) \ {t} = S \ {t}
  BY <1>1, <1>3, <1>4
<1> QED BY <1>5, QueuesWritten

\* One write of the task's block.
TstatSet(m, k, t, v) == m = [k EXCEPT !.tcb[t].tstat = v]
SuspendSet(m, k, t, v) == m = [k EXCEPT !.tcb[t].tstat = v, !.ret = FALSE]
WinfoSet(m, k, t, v) == m = [k EXCEPT !.tcb[t].winfo = v]
WaitSet(m, k, t, v, w) == m = [k EXCEPT !.tcb[t].winfo = v, !.tcb[t].data = w, !.ret = TRUE]

LEMMA TstatWritten ==
  ASSUME NEW k, Shape(k), NEW t \in Task, NEW v, NEW m, TstatSet(m, k, t, v)
  PROVE  /\ TaskWrite(m, k, t, {"tstat"}, {}) /\ m.ret = k.ret /\ m.tcb[t].tstat = v
         /\ m.schedtsk = k.schedtsk
<1>1. /\ m = [f \in Fields |-> m[f]] /\ Same(m, k, {"tcb"}) /\ m.ret = k.ret
      /\ m.schedtsk = k.schedtsk
  BY DEF Shape, Fields, Same, TstatSet
<1>2. m.tcb = [u \in Task |-> m.tcb[u]] /\ \A u \in Task \ {t} : m.tcb[u] = k.tcb[u]
  BY DEF Shape, Fields, TstatSet
<1>3. m.tcb[t] = [k.tcb[t] EXCEPT !.tstat = v]
  BY DEF Shape, Fields, TstatSet
<1>4. /\ m.tcb[t] = [f \in Blocks |-> m.tcb[t][f]] /\ m.tcb[t].tstat = v
      /\ \A f \in Blocks \ {"tstat"} : m.tcb[t][f] = k.tcb[t][f]
  BY <1>3 DEF Shape, Block, Blocks
<1> QED BY <1>1, <1>2, <1>4 DEF TaskWrite

LEMMA SuspendedWritten ==
  ASSUME NEW k, Shape(k), NEW t \in Task, NEW v,
         NEW m, SuspendSet(m, k, t, v)
  PROVE  /\ TaskWrite(m, k, t, {"tstat"}, {"ret"}) /\ Unasked(m) /\ m.tcb[t].tstat = v
         /\ m.schedtsk = k.schedtsk
<1>1. /\ m = [f \in Fields |-> m[f]] /\ Same(m, k, {"tcb", "ret"}) /\ Unasked(m)
      /\ m.schedtsk = k.schedtsk
  BY DEF Shape, Fields, Same, SuspendSet, Unasked
<1>2. m.tcb = [u \in Task |-> m.tcb[u]] /\ \A u \in Task \ {t} : m.tcb[u] = k.tcb[u]
  BY DEF Shape, Fields, SuspendSet
<1>3. m.tcb[t] = [k.tcb[t] EXCEPT !.tstat = v]
  BY DEF Shape, Fields, SuspendSet
<1>4. /\ m.tcb[t] = [f \in Blocks |-> m.tcb[t][f]] /\ m.tcb[t].tstat = v
      /\ \A f \in Blocks \ {"tstat"} : m.tcb[t][f] = k.tcb[t][f]
  BY <1>3 DEF Shape, Block, Blocks
<1>5. Same(m, k, {"ret"} \cup {"tcb"})
  BY <1>1 DEF Same
<1> QED BY <1>1, <1>2, <1>4, <1>5 DEF TaskWrite

LEMMA WaitWritten ==
  ASSUME NEW k, Shape(k), NEW t \in Task, NEW v, NEW w,
         NEW m, WaitSet(m, k, t, v, w)
  PROVE  /\ TaskWrite(m, k, t, {"winfo", "data"}, {"ret"}) /\ Asked(m) /\ m.tcb[t].winfo = v
<1>1. /\ m = [f \in Fields |-> m[f]] /\ Same(m, k, {"tcb", "ret"}) /\ Asked(m)
  BY DEF Shape, Fields, Same, WaitSet, Asked
<1>2. m.tcb = [u \in Task |-> m.tcb[u]] /\ \A u \in Task \ {t} : m.tcb[u] = k.tcb[u]
  BY DEF Shape, Fields, WaitSet
<1>3. m.tcb[t] = [k.tcb[t] EXCEPT !.winfo = v, !.data = w]
  BY DEF Shape, Fields, WaitSet
<1>4. /\ m.tcb[t] = [f \in Blocks |-> m.tcb[t][f]] /\ m.tcb[t].winfo = v
      /\ \A f \in Blocks \ {"winfo", "data"} : m.tcb[t][f] = k.tcb[t][f]
  BY <1>3 DEF Shape, Block, Blocks
<1>5. Same(m, k, {"ret"} \cup {"tcb"})
  BY <1>1 DEF Same
<1> QED BY <1>1, <1>2, <1>4, <1>5 DEF TaskWrite

\* Such a write keeps the rest.
LEMMA WriteKeeps ==
  ASSUME NEW k, NEW t \in Task, NEW R, NEW C, NEW S, Mid(k, t, R, C, S),
         NEW B, B \subseteq {"tstat", "winfo", "data", "actcnt", "wupcnt", "texnest"},
         NEW F, F \subseteq {"ret", "sent", "delivered", "held"},
         NEW m, TaskWrite(m, k, t, B, F), m.ret \in BOOLEAN
  PROVE  /\ Mid(m, t, R, C, S) /\ Calm(m, k, t) /\ Nodes(m, t) = Nodes(k, t)
         /\ m.schedtsk = k.schedtsk /\ m.obj = k.obj /\ BlockKept(m.tcb[t], k.tcb[t], B)
<1>1. Shape(k) /\ B \subseteq Blocks \ {"priority", "enatex", "texptn"}
  BY DEF Mid, Base, Blocks
<1>2. Rewritten(m, k, t) /\ m.obj = k.obj /\ BlockKept(m.tcb[t], k.tcb[t], B)
  BY <1>1, TaskWritten
<1>3. Mid(m, t, R, C, S) /\ Calm(m, k, t) /\ Nodes(m, t) = Nodes(k, t)
  BY <1>2, RewrittenKept
<1>4. m.schedtsk = k.schedtsk
  BY DEF TaskWrite, Same, Fields
<1> QED BY <1>2, <1>3, <1>4

LEMMA MidShape ==
  ASSUME NEW k, NEW t, NEW R, NEW C, NEW S, Mid(k, t, R, C, S)
  PROVE  Shape(k) /\ k.ret \in BOOLEAN
BY DEF Mid, Base, Shape, Flags

--------------------------------------------------------------------------------
(* wait.c *)

\* The write of a block, seen from outside.
Wrote(m, k, t, B) ==
  /\ Calm(m, k, t) /\ Nodes(m, t) = Nodes(k, t) /\ BlockKept(m.tcb[t], k.tcb[t], B)
  /\ m.schedtsk = k.schedtsk /\ m.obj = k.obj

LEMMA TstatKeeps ==
  ASSUME NEW k, NEW t \in Task, NEW R, NEW C, NEW S, Mid(k, t, R, C, S),
         NEW v, NEW m, TstatSet(m, k, t, v)
  PROVE  /\ Mid(m, t, R, C, S) /\ Wrote(m, k, t, {"tstat"})
         /\ m.ret = k.ret /\ m.ret \in BOOLEAN /\ m.tcb[t].tstat = v
<1>1. Shape(k) /\ k.ret \in BOOLEAN
  BY MidShape
<1>2. TaskWrite(m, k, t, {"tstat"}, {}) /\ m.ret = k.ret /\ m.tcb[t].tstat = v
  BY <1>1, TstatWritten
<1>3. m.ret \in BOOLEAN /\ {} \subseteq {"ret", "sent", "delivered", "held"}
      /\ {"tstat"} \subseteq {"tstat", "winfo", "data", "actcnt", "wupcnt", "texnest"}
  BY <1>1, <1>2
<1>4. /\ Mid(m, t, R, C, S) /\ Calm(m, k, t) /\ Nodes(m, t) = Nodes(k, t)
      /\ m.schedtsk = k.schedtsk /\ m.obj = k.obj /\ BlockKept(m.tcb[t], k.tcb[t], {"tstat"})
  BY <1>2, <1>3, WriteKeeps
<1> QED BY <1>2, <1>3, <1>4 DEF Wrote

LEMMA SuspendKeeps ==
  ASSUME NEW k, NEW t \in Task, NEW R, NEW C, NEW S, Mid(k, t, R, C, S),
         NEW v, NEW m, SuspendSet(m, k, t, v)
  PROVE  /\ Mid(m, t, R, C, S) /\ Wrote(m, k, t, {"tstat"})
         /\ Unasked(m) /\ m.tcb[t].tstat = v
<1>1. Shape(k) /\ k.ret \in BOOLEAN
  BY MidShape
<1>2. TaskWrite(m, k, t, {"tstat"}, {"ret"}) /\ Unasked(m) /\ m.tcb[t].tstat = v
  BY <1>1, SuspendedWritten
<1>3. m.ret \in BOOLEAN
  BY <1>2 DEF Asked, Unasked
<1>30. {"ret"} \subseteq {"ret", "sent", "delivered", "held"}
      /\ {"tstat"} \subseteq {"tstat", "winfo", "data", "actcnt", "wupcnt", "texnest"}
  OBVIOUS
<1>4. /\ Mid(m, t, R, C, S) /\ Calm(m, k, t) /\ Nodes(m, t) = Nodes(k, t)
      /\ m.schedtsk = k.schedtsk /\ m.obj = k.obj /\ BlockKept(m.tcb[t], k.tcb[t], {"tstat"})
  BY <1>2, <1>3, <1>30, WriteKeeps
<1> QED BY <1>2, <1>3, <1>4 DEF Wrote

LEMMA WaitKeeps ==
  ASSUME NEW k, NEW t \in Task, NEW R, NEW C, NEW S, Mid(k, t, R, C, S),
         NEW v, NEW w, NEW m, WaitSet(m, k, t, v, w)
  PROVE  /\ Mid(m, t, R, C, S) /\ Wrote(m, k, t, {"winfo", "data"})
         /\ Asked(m) /\ m.tcb[t].winfo = v
<1>1. Shape(k) /\ k.ret \in BOOLEAN
  BY MidShape
<1>2. TaskWrite(m, k, t, {"winfo", "data"}, {"ret"}) /\ Asked(m) /\ m.tcb[t].winfo = v
  BY <1>1, WaitWritten
<1>3. m.ret \in BOOLEAN
  BY <1>2 DEF Asked, Unasked
<1>30. {"ret"} \subseteq {"ret", "sent", "delivered", "held"}
      /\ {"winfo", "data"} \subseteq {"tstat", "winfo", "data", "actcnt", "wupcnt", "texnest"}
  OBVIOUS
<1>4. /\ Mid(m, t, R, C, S) /\ Calm(m, k, t) /\ Nodes(m, t) = Nodes(k, t)
      /\ m.schedtsk = k.schedtsk /\ m.obj = k.obj
      /\ BlockKept(m.tcb[t], k.tcb[t], {"winfo", "data"})
  BY <1>2, <1>3, <1>30, WriteKeeps
<1> QED BY <1>2, <1>3, <1>4 DEF Wrote

LEMMA WinfoKeeps ==
  ASSUME NEW k, NEW t \in Task, NEW R, NEW C, NEW S, Mid(k, t, R, C, S),
         NEW v, NEW m, WinfoSet(m, k, t, v)
  PROVE  /\ Mid(m, t, R, C, S) /\ Wrote(m, k, t, {"winfo"})
         /\ m.ret = k.ret /\ m.ret \in BOOLEAN /\ m.tcb[t].winfo = v
<1>1. Shape(k) /\ k.ret \in BOOLEAN
  BY MidShape
<1>2. /\ m = [f \in Fields |-> m[f]] /\ Same(m, k, {"tcb"}) /\ m.ret = k.ret
      /\ m.tcb = [u \in Task |-> m.tcb[u]] /\ \A u \in Task \ {t} : m.tcb[u] = k.tcb[u]
  BY <1>1 DEF Shape, Fields, WinfoSet, Same
<1>3. m.tcb[t] = [k.tcb[t] EXCEPT !.winfo = v]
  BY <1>1 DEF Shape, Fields, WinfoSet
<1>4. /\ m.tcb[t] = [f \in Blocks |-> m.tcb[t][f]] /\ m.tcb[t].winfo = v
      /\ \A f \in Blocks \ {"winfo"} : m.tcb[t][f] = k.tcb[t][f]
  BY <1>1, <1>3 DEF Shape, Block, Blocks
<1>5. TaskWrite(m, k, t, {"winfo"}, {})
  BY <1>2, <1>4 DEF TaskWrite
<1>6. m.ret \in BOOLEAN /\ {} \subseteq {"ret", "sent", "delivered", "held"}
      /\ {"winfo"} \subseteq {"tstat", "winfo", "data", "actcnt", "wupcnt", "texnest"}
  BY <1>1, <1>2
<1>7. /\ Mid(m, t, R, C, S) /\ Calm(m, k, t) /\ Nodes(m, t) = Nodes(k, t)
      /\ m.schedtsk = k.schedtsk /\ m.obj = k.obj
      /\ BlockKept(m.tcb[t], k.tcb[t], {"winfo"})
  BY <1>5, <1>6, WriteKeeps
<1> QED BY <1>2, <1>4, <1>6, <1>7 DEF Wrote

\* The task has begun to wait.
Began(m, k, t, bits) ==
  /\ Calm(m, k, t) /\ Nodes(m, t) = Nodes(k, t) /\ m.tcb[t].tstat = {"WAITING"} \cup bits
  /\ m.tcb[t].winfo = Zero /\ Asked(m)

MakesWaiting(m, a, b, k, t, bits, data) ==
  /\ TstatSet(a, k, t, {"WAITING"} \cup bits) /\ b = make_non_runnable(a, t)
  /\ WaitSet(m, b, t, Zero, data)

LEMMA BeginsToWait ==
  ASSUME NEW k, NEW t \in Task, t = k.runtsk, NEW R, NEW C, NEW S, Mid(k, t, R, C, S), t \in R,
         NEW bits, NEW data, NEW m, m = MakeWaiting(k, bits, data)
  PROVE  Mid(m, t, R \ {t}, C, S) /\ Began(m, k, t, bits)
<1>1. \E a, b : MakesWaiting(m, a, b, k, t, bits, data)
  BY DEF MakesWaiting, TstatSet, WaitSet, MakeWaiting
<1>2. PICK a, b : MakesWaiting(m, a, b, k, t, bits, data)
  BY <1>1
<1>3. TstatSet(a, k, t, {"WAITING"} \cup bits) /\ WaitSet(m, b, t, Zero, data)
  BY <1>2 DEF MakesWaiting
<1>4. b = make_non_runnable(a, t)
  BY <1>2 DEF MakesWaiting
<1>6. /\ Mid(a, t, R, C, S) /\ Wrote(a, k, t, {"tstat"}) /\ a.tcb[t].tstat = {"WAITING"} \cup bits
  BY <1>3, TstatKeeps
<1>7. /\ Mid(b, t, R \ {t}, C, S) /\ Calm(b, a, t) /\ b.tcb = a.tcb /\ Nodes(b, t) = Nodes(a, t)
  BY <1>4, <1>6, MakesNonRunnable
<1>8. /\ Mid(m, t, R \ {t}, C, S) /\ Wrote(m, b, t, {"winfo", "data"})
      /\ Asked(m) /\ m.tcb[t].winfo = Zero
  BY <1>3, <1>7, WaitKeeps
<1>9. m.tcb[t].tstat = {"WAITING"} \cup bits
  BY <1>6, <1>7, <1>8 DEF Wrote, BlockKept, Blocks
<1>10. Calm(a, k, t) /\ Calm(m, b, t) /\ Nodes(m, t) = Nodes(k, t)
  BY <1>6, <1>7, <1>8 DEF Wrote
<1>11. Calm(b, k, t)
  BY <1>7, <1>10, CalmCalm
<1>12. Calm(m, k, t)
  BY <1>10, <1>11, CalmCalm
<1> QED BY <1>8, <1>9, <1>10, <1>12 DEF Began

\* The owner of the events, and no other: it is a task or a handler.
LEMMA Owners ==
  /\ \A t \in Task : t \in EventOwner /\ t \notin Cyclic
  /\ \A c \in Cyclic : c \in EventOwner /\ c \notin Task
BY TickFitsWord DEF EventOwner, Task, Cyclic

LEMMA FitsMid ==
  ASSUME NEW k, NEW R, NEW C, NEW S, Fits(k, R, C, S), NEW o
  PROVE  Mid(k, o, R, C, S)
BY DEF Fits, Mid

LEMMA MidFits ==
  ASSUME NEW k, NEW t \in Task, NEW R, NEW C, NEW S, Mid(k, t, R, C, S), TaskFits(k, t, R, C, S)
  PROVE  Fits(k, R, C, S) /\ Sound(k)
<1>1. \A u \in Task : TaskFits(k, u, R, C, S)
  BY DEF Mid
<1>2. \A c \in Cyclic : CyclicFits(k, c)
  BY Owners DEF Mid
<1>3. Fits(k, R, C, S)
  BY <1>1, <1>2 DEF Mid, Fits
<1> QED BY <1>3 DEF Sound

\* What the states of a task exclude.
LEMMA LegalStates ==
  ASSUME NEW s \in Legal
  PROVE  /\ "RUNNABLE" \in s => s = {"RUNNABLE"}
         /\ "WAITING" \notin s => s \in {{}, {"RUNNABLE"}, {"SUSPENDED"}}
         /\ "WAIT_WOBJCB" \in s => "WAIT_WOBJ" \in s
         /\ "WAIT_WOBJ" \in s => "WAITING" \in s
         /\ "WAIT_SLEEP" \in s => "WAITING" \in s /\ "WAIT_WOBJ" \notin s
BY DEF Legal, Waitings

\* A task that is runnable is on the ready queues only.
OnlyReady(k, t, R, C, S) == t \in R /\ t \notin C /\ t \notin S /\ Nodes(k, t) = {}

LEMMA ReadyFits ==
  ASSUME NEW k, NEW t \in Task, NEW R, NEW C, NEW S, TaskFits(k, t, R, C, S), TSTAT_RUNNABLE(k, t)
  PROVE  OnlyReady(k, t, R, C, S)
<1>1. k.tcb[t].tstat = {"RUNNABLE"}
  BY LegalStates DEF TaskFits, Watched, TSTAT_RUNNABLE
<1>2. Agrees(t, {"RUNNABLE"}, R, C, S)
  BY <1>1 DEF TaskFits
<1>3. ~("WAITING" \in {"RUNNABLE"})
  OBVIOUS
<1>4. Nodes(k, t) = {}
  BY <1>1, <1>3 DEF TaskFits, Watched
<1> QED BY <1>2, <1>4 DEF Agrees, OnlyReady

--------------------------------------------------------------------------------
(* The start of a wait. *)

\* It has one time event, with the callback.
Timed(m, t, callback) == \E time \in EVTTIM :
  Nodes(m, t) = {[time |-> time, owner |-> t, callback |-> callback]}

LEMMA TimedFacts ==
  ASSUME NEW m, NEW t, NEW callback, Timed(m, t, callback)
  PROVE  Nodes(m, t) # {} /\ \A node \in Nodes(m, t) : node.callback = callback
BY DEF Timed

Watching(m, a, k, t, callback, time) ==
  WinfoSet(a, k, t, TMEVTB) /\ m = tmevtb_insert(a, t, callback, time)

LEMMA WatchesTime ==
  ASSUME NEW k, NEW t \in Task, t = k.runtsk, NEW R, NEW C, NEW S, Mid(k, t, R, C, S),
         Nodes(k, t) = {}, NEW callback \in Callbacks, NEW tmout \in Int,
         NEW m, m = WatchTime(k, callback, tmout)
  PROVE  /\ Mid(m, t, R, C, S) /\ Calm(m, k, t) /\ m.tcb[t].tstat = k.tcb[t].tstat
         /\ m.tcb[t].winfo = TMEVTB /\ m.ret = k.ret /\ Timed(m, t, callback)
<1>1. PICK a : WinfoSet(a, k, t, TMEVTB)
  BY DEF WinfoSet
<1>2. PICK time : time = Wrap(base_time(a) + tmout)
  OBVIOUS
<1>3. Watching(m, a, k, t, callback, time)
  BY <1>1, <1>2 DEF Watching, WatchTime, WinfoSet, tmevtb_enqueue
<1>4. /\ Mid(a, t, R, C, S) /\ Wrote(a, k, t, {"winfo"}) /\ a.ret = k.ret
      /\ a.tcb[t].winfo = TMEVTB
  BY <1>1, WinfoKeeps
<1>5. time \in EVTTIM
  <2>1. a.next_time \in EVTTIM
    BY <1>4 DEF Mid, Base, Events, Heaped
  <2>2. a.next_time \in Int
    <3>1. EVTTIM \subseteq Int
      BY Times
    <3> QED BY <2>1, <3>1
  <2>3. a.next_time + tmout \in Int
    BY <2>2
  <2> QED BY <1>2, <2>3, Times DEF base_time
<1>6. Nodes(a, t) = {}
  BY <1>4 DEF Wrote
<1>7. m = tmevtb_insert(a, t, callback, time)
  BY <1>3 DEF Watching
<1>8. t \in EventOwner
  BY Owners
<1>9. /\ Mid(m, t, R, C, S) /\ Calm(m, a, t) /\ Same(m, a, {"heap", "index"}) /\ m.ret = a.ret
      /\ Nodes(m, t) = {[time |-> time, owner |-> t, callback |-> callback]}
  BY <1>4, <1>5, <1>6, <1>7, <1>8, Inserts
<1>10. Timed(m, t, callback)
  BY <1>5, <1>9 DEF Timed
<1>11. m.tcb[t].tstat = k.tcb[t].tstat /\ m.tcb[t].winfo = TMEVTB
  BY <1>4, <1>9 DEF Same, Fields, Wrote, BlockKept, Blocks
<1>12. Calm(m, k, t)
  BY <1>4, <1>9, CalmCalm DEF Wrote
<1> QED BY <1>4, <1>9, <1>10, <1>11, <1>12

\* The task sleeps, with a timeout or without.
Sleeps(m, k, t, bits) ==
  /\ Calm(m, k, t) /\ m.tcb[t].tstat = {"WAITING"} \cup bits /\ Asked(m)
  /\ m.tcb[t].winfo \in {Zero, TMEVTB} /\ (Nodes(m, t) # {} <=> m.tcb[t].winfo = TMEVTB)

OfCallback(m, t, callback) == \A node \in Nodes(m, t) : node.callback = callback

LEMMA MakesWait ==
  ASSUME NEW k, NEW t \in Task, t = k.runtsk, NEW R, NEW C, NEW S, Mid(k, t, R, C, S),
         t \in R, Nodes(k, t) = {}, NEW bits, NEW data, NEW tmout \in Int,
         NEW m, m = make_wait_tmout(k, bits, data, tmout)
  PROVE  /\ Mid(m, t, R \ {t}, C, S) /\ Sleeps(m, k, t, bits) /\ OfCallback(m, t, "wait_tmout")
<1>1. PICK a : a = MakeWaiting(k, bits, data)
  OBVIOUS
<1>2. Mid(a, t, R \ {t}, C, S) /\ Began(a, k, t, bits)
  BY <1>1, BeginsToWait
<1>3. m = IF tmout > 0 THEN WatchTime(a, "wait_tmout", tmout) ELSE a
  <2>1. k.runtsk = t
    OBVIOUS
  <2> QED BY <1>1 DEF make_wait_tmout
<1>4. Nodes(a, t) = {} /\ Calm(a, k, t) /\ a.tcb[t].tstat = {"WAITING"} \cup bits
      /\ a.tcb[t].winfo = Zero /\ Asked(a)
  BY <1>2 DEF Began
<1>5. a.runtsk = t
  BY <1>4 DEF Calm, Same, Fields
<1>6. CASE tmout > 0
  <2>1. m = WatchTime(a, "wait_tmout", tmout) /\ "wait_tmout" \in Callbacks
    BY <1>3, <1>6 DEF Callbacks
  <2>2. /\ Mid(m, t, R \ {t}, C, S) /\ Calm(m, a, t) /\ m.tcb[t].tstat = a.tcb[t].tstat
        /\ m.tcb[t].winfo = TMEVTB /\ m.ret = a.ret /\ Timed(m, t, "wait_tmout")
    BY <1>2, <1>4, <1>5, <2>1, WatchesTime
  <2>3. Nodes(m, t) # {} /\ OfCallback(m, t, "wait_tmout")
    BY <2>2, TimedFacts DEF OfCallback
  <2>4. Calm(m, k, t) /\ Asked(m)
    BY <1>4, <2>2, CalmCalm DEF Asked
  <2> QED BY <1>4, <2>2, <2>3, <2>4 DEF Sleeps
<1>7. CASE ~(tmout > 0)
  <2>1. m = a
    BY <1>3, <1>7
  <2>2. Zero # TMEVTB
    BY DEF Zero, TMEVTB
  <2> QED BY <1>2, <1>4, <2>1, <2>2 DEF Sleeps, OfCallback
<1> QED BY <1>6, <1>7

LEMMA Delays ==
  ASSUME NEW k, NEW t \in Task, t = k.runtsk, NEW R, NEW C, NEW S, Mid(k, t, R, C, S),
         t \in R, Nodes(k, t) = {}, NEW dlytim \in Int,
         NEW m, m = dly_tsk(k, dlytim)
  PROVE  /\ Mid(m, t, R \ {t}, C, S) /\ Sleeps(m, k, t, {}) /\ OfCallback(m, t, "wait_tmout_ok")
<1>1. PICK a : a = MakeWaiting(k, {}, NoData)
  OBVIOUS
<1>2. Mid(a, t, R \ {t}, C, S) /\ Began(a, k, t, {})
  BY <1>1, BeginsToWait
<1>3. m = WatchTime(a, "wait_tmout_ok", dlytim) /\ "wait_tmout_ok" \in Callbacks
  BY <1>1 DEF dly_tsk, Callbacks
<1>4. Nodes(a, t) = {} /\ Calm(a, k, t) /\ a.tcb[t].tstat = {"WAITING"} \cup {} /\ Asked(a)
  BY <1>2 DEF Began
<1>5. a.runtsk = t
  BY <1>4 DEF Calm, Same, Fields
<1>6. /\ Mid(m, t, R \ {t}, C, S) /\ Calm(m, a, t) /\ m.tcb[t].tstat = a.tcb[t].tstat
      /\ m.tcb[t].winfo = TMEVTB /\ m.ret = a.ret /\ Timed(m, t, "wait_tmout_ok")
  BY <1>2, <1>3, <1>4, <1>5, WatchesTime
<1>7. Nodes(m, t) # {} /\ OfCallback(m, t, "wait_tmout_ok")
  BY <1>6, TimedFacts DEF OfCallback
<1>8. Calm(m, k, t) /\ Asked(m)
  BY <1>4, <1>6, CalmCalm DEF Asked
<1> QED BY <1>4, <1>6, <1>7, <1>8 DEF Sleeps

\* A task that sleeps fits when it is on the queue its bits say.
LEMMA SleeperFits ==
  ASSUME NEW k, NEW t \in Task, NEW m, NEW bits \in Waitings, Sleeps(m, k, t, bits),
         NEW callback \in {"wait_tmout", "wait_tmout_ok"}, OfCallback(m, t, callback),
         "WAIT_WOBJ" \in bits => callback = "wait_tmout",
         NEW R, t \notin R, NEW C, t \in C <=> "WAIT_WOBJCB" \in bits,
         NEW S, t \in S <=> "WAIT_WOBJ" \in bits /\ "WAIT_WOBJCB" \notin bits
  PROVE  TaskFits(m, t, R, C, S)
<1>1. PICK s : s = {"WAITING"} \cup bits
  OBVIOUS
<1>2. s \in Legal /\ "WAITING" \in s /\ "RUNNABLE" \notin s
      /\ ("WAIT_WOBJ" \in s <=> "WAIT_WOBJ" \in bits)
      /\ ("WAIT_WOBJCB" \in s <=> "WAIT_WOBJCB" \in bits)
  BY <1>1 DEF Legal, Waitings
<1>3. Agrees(t, s, R, C, S)
  BY <1>2 DEF Agrees
<1>4. m.tcb[t].tstat = s /\ m.tcb[t].winfo \in {Zero, TMEVTB}
      /\ (Nodes(m, t) # {} <=> m.tcb[t].winfo = TMEVTB)
  BY <1>1 DEF Sleeps
<1>5. Watched(s, m.tcb[t].winfo, Nodes(m, t))
  BY <1>2, <1>4 DEF Watched, OfCallback
<1> QED BY <1>3, <1>4, <1>5 DEF TaskFits

\* The task that runs has begun to wait, and the service dispatches.
Dozes(m, k) == Sound(m) /\ Calm(m, k, k.runtsk) /\ Asked(m)

\* The task that calls: it runs.
Caller(k, t) == t = k.runtsk /\ t \in Task /\ TSTAT_RUNNABLE(k, t)

LEMMA CallerFacts ==
  ASSUME NEW k, NEW R, NEW C, NEW S, Fits(k, R, C, S), NEW t, Caller(k, t)
  PROVE  t \in Task /\ t = k.runtsk /\ Mid(k, t, R, C, S) /\ OnlyReady(k, t, R, C, S)
<1>1. t \in Task /\ t = k.runtsk /\ TSTAT_RUNNABLE(k, t)
  BY DEF Caller
<1>2. TaskFits(k, t, R, C, S)
  BY <1>1 DEF Fits
<1>3. OnlyReady(k, t, R, C, S)
  BY <1>1, <1>2, ReadyFits
<1> QED BY <1>1, <1>3, FitsMid

LEMMA CallerSleeps ==
  ASSUME NEW k, Sound(k), NEW t, Caller(k, t), NEW data, NEW tmout \in Int,
         NEW m, m = make_wait_tmout(k, {"WAIT_SLEEP"}, data, tmout)
  PROVE  Dozes(m, k)
<1>1. PICK R, C, S : Fits(k, R, C, S)
  BY DEF Sound
<1>2. t \in Task /\ t = k.runtsk /\ Mid(k, t, R, C, S) /\ OnlyReady(k, t, R, C, S)
  BY <1>1, CallerFacts
<1>3. t \in R /\ t \notin C /\ t \notin S /\ Nodes(k, t) = {}
  BY <1>2 DEF OnlyReady
<1>4. PICK bits : bits = {"WAIT_SLEEP"}
  OBVIOUS
<1>5. m = make_wait_tmout(k, bits, data, tmout)
  BY <1>4
<1>6. /\ Mid(m, t, R \ {t}, C, S) /\ Sleeps(m, k, t, bits) /\ OfCallback(m, t, "wait_tmout")
  BY <1>2, <1>3, <1>5, MakesWait
<1>7. /\ bits \in Waitings /\ "WAIT_WOBJ" \notin bits /\ "WAIT_WOBJCB" \notin bits
  BY <1>4 DEF Waitings
<1>8. TaskFits(m, t, R \ {t}, C, S)
  BY <1>2, <1>3, <1>6, <1>7, SleeperFits
<1>9. Sound(m)
  BY <1>2, <1>6, <1>8, MidFits
<1> QED BY <1>2, <1>6, <1>9 DEF Sleeps, Dozes

LEMMA CallerDelays ==
  ASSUME NEW k, Sound(k), NEW t, Caller(k, t), NEW dlytim \in Int, NEW m, m = dly_tsk(k, dlytim)
  PROVE  Dozes(m, k)
<1>1. PICK R, C, S : Fits(k, R, C, S)
  BY DEF Sound
<1>2. t \in Task /\ t = k.runtsk /\ Mid(k, t, R, C, S) /\ OnlyReady(k, t, R, C, S)
  BY <1>1, CallerFacts
<1>3. t \in R /\ t \notin C /\ t \notin S /\ Nodes(k, t) = {}
  BY <1>2 DEF OnlyReady
<1>6. /\ Mid(m, t, R \ {t}, C, S) /\ Sleeps(m, k, t, {}) /\ OfCallback(m, t, "wait_tmout_ok")
  BY <1>2, <1>3, Delays
<1>7. /\ {} \in Waitings /\ "WAIT_WOBJ" \notin {} /\ "WAIT_WOBJCB" \notin {}
  BY DEF Waitings
<1>8. TaskFits(m, t, R \ {t}, C, S)
  BY <1>2, <1>3, <1>6, <1>7, SleeperFits
<1>9. Sound(m)
  BY <1>2, <1>6, <1>8, MidFits
<1> QED BY <1>2, <1>6, <1>9 DEF Sleeps, Dozes

\* What comes after the start of the wait concerns the queues of the object.
LEMMA SleepsOn ==
  ASSUME NEW k, NEW t, NEW a, NEW bits, Sleeps(a, k, t, bits), OfCallback(a, t, "wait_tmout"),
         NEW m, QueuesKept(m, a, t)
  PROVE  Sleeps(m, k, t, bits) /\ OfCallback(m, t, "wait_tmout")
<1>1. Calm(m, a, t) /\ Calm(a, k, t)
  BY DEF Sleeps, QueuesKept
<1>2. Calm(m, k, t)
  BY <1>1, CalmCalm
<1> QED BY <1>2 DEF Sleeps, QueuesKept, OfCallback, Asked

LEMMA CallerWaits ==
  ASSUME NEW k, Sound(k), NEW t, Caller(k, t), NEW data, NEW tmout \in Int,
         NEW m, m = wobj_make_wait_tmout(k, data, tmout)
  PROVE  Dozes(m, k)
<1>1. PICK R, C, S : Fits(k, R, C, S)
  BY DEF Sound
<1>2. t \in Task /\ t = k.runtsk /\ Mid(k, t, R, C, S) /\ OnlyReady(k, t, R, C, S)
  BY <1>1, CallerFacts
<1>3. t \in R /\ t \notin C /\ t \notin S /\ Nodes(k, t) = {}
  BY <1>2 DEF OnlyReady
<1>4. PICK bits : bits = {"WAIT_WOBJ", "WAIT_WOBJCB"}
  OBVIOUS
<1>5. PICK a : a = make_wait_tmout(k, bits, data, tmout)
  OBVIOUS
<1>6. /\ Mid(a, t, R \ {t}, C, S) /\ Sleeps(a, k, t, bits) /\ OfCallback(a, t, "wait_tmout")
  BY <1>2, <1>3, <1>5, MakesWait
<1>7. m = wobj_queue_insert(a, t)
  BY <1>2, <1>4, <1>5 DEF wobj_make_wait_tmout
<1>8. Mid(m, t, R \ {t}, C \cup {t}, S) /\ QueuesKept(m, a, t)
  BY <1>2, <1>3, <1>6, <1>7, EntersQueue
<1>9. Sleeps(m, k, t, bits) /\ OfCallback(m, t, "wait_tmout")
  BY <1>6, <1>8, SleepsOn
<1>10. /\ bits \in Waitings /\ "WAIT_WOBJCB" \in bits /\ t \in C \cup {t} /\ t \notin R \ {t}
  BY <1>4 DEF Waitings
<1>11. TaskFits(m, t, R \ {t}, C \cup {t}, S)
  BY <1>2, <1>3, <1>9, <1>10, SleeperFits
<1>12. Sound(m)
  BY <1>2, <1>8, <1>11, MidFits
<1> QED BY <1>2, <1>9, <1>12 DEF Sleeps, Dozes

LEMMA CallerReceives ==
  ASSUME NEW k, Sound(k), NEW t, Caller(k, t), NEW tmout \in Int,
         NEW m, m = WaitToReceive(k, tmout)
  PROVE  Dozes(m, k)
<1>1. PICK R, C, S : Fits(k, R, C, S)
  BY DEF Sound
<1>2. t \in Task /\ t = k.runtsk /\ Mid(k, t, R, C, S) /\ OnlyReady(k, t, R, C, S)
  BY <1>1, CallerFacts
<1>3. t \in R /\ t \notin C /\ t \notin S /\ Nodes(k, t) = {}
  BY <1>2 DEF OnlyReady
<1>4. PICK bits : bits = {"WAIT_WOBJ"}
  OBVIOUS
<1>5. PICK a : a = make_wait_tmout(k, bits, NoData, tmout)
  OBVIOUS
<1>6. /\ Mid(a, t, R \ {t}, C, S) /\ Sleeps(a, k, t, bits) /\ OfCallback(a, t, "wait_tmout")
  BY <1>2, <1>3, <1>5, MakesWait
<1>7. QueuesAre(m, a, a.obj.wait_queue, Append(a.obj.rwait_queue, t))
  <2>1. m = [a EXCEPT !.obj.rwait_queue = Append(@, t)]
    BY <1>2, <1>4, <1>5 DEF WaitToReceive
  <2>2. Shape(a)
    BY <1>6, MidShape
  <2>3. m = [f \in Fields |-> m[f]] /\ Same(m, a, {"obj"})
    BY <2>1, <2>2 DEF Shape, Fields, Same
  <2>4. m.obj = [a.obj EXCEPT !.rwait_queue = Append(a.obj.rwait_queue, t)]
    BY <2>1, <2>2 DEF Shape, Fields
  <2>5. /\ m.obj = [f \in Queued |-> m.obj[f]] /\ m.obj.wait_queue = a.obj.wait_queue
        /\ m.obj.rwait_queue = Append(a.obj.rwait_queue, t)
    BY <2>2, <2>4 DEF Shape, Queued
  <2> QED BY <2>3, <2>5 DEF QueuesAre, ObjectWrite
<1>8. Mid(m, t, R \ {t}, C, S \cup {t}) /\ QueuesKept(m, a, t)
  BY <1>2, <1>3, <1>6, <1>7, JoinsReceivers
<1>9. Sleeps(m, k, t, bits) /\ OfCallback(m, t, "wait_tmout")
  BY <1>6, <1>8, SleepsOn
<1>10. /\ bits \in Waitings /\ "WAIT_WOBJCB" \notin bits /\ "WAIT_WOBJ" \in bits
       /\ t \in S \cup {t} /\ t \notin R \ {t}
  BY <1>4 DEF Waitings
<1>11. TaskFits(m, t, R \ {t}, C, S \cup {t})
  BY <1>2, <1>3, <1>9, <1>10, SleeperFits
<1>12. Sound(m)
  BY <1>2, <1>8, <1>11, MidFits
<1> QED BY <1>2, <1>9, <1>12 DEF Sleeps, Dozes

--------------------------------------------------------------------------------
(* The end of a wait. *)

\* What a service keeps that wakes a task, changes its priority or what it asks for.
Keeps(m, k, t) ==
  /\ Sound(m) /\ Calm(m, k, t) /\ Asks(m, k)
  /\ t \in Task /\ TSTAT_RUNNABLE(k, t) => TSTAT_RUNNABLE(m, t)

\* The task is on no queue, or only waits for its time event, but its state says that it waits.
Waiter(k, t)           == k.tcb[t].tstat \in Legal /\ "WAITING" \in k.tcb[t].tstat
Leaving(t, R, C, S)    == t \in Task /\ t \notin R /\ t \notin C /\ t \notin S
Left(k, t, R, C, S)    == Mid(k, t, R, C, S) /\ Leaving(t, R, C, S) /\ Waiter(k, t) /\ Nodes(k,
  t) = {}
OnClock(k, t, R, C, S) == /\ Mid(k, t, R, C, S) /\ Leaving(t, R, C, S) /\ Waiter(k, t)
                          /\ Watched(k.tcb[t].tstat, k.tcb[t].winfo, Nodes(k, t))

LEMMA WaiterFacts ==
  ASSUME NEW k, NEW t, Waiter(k, t)
  PROVE  "WAITING" \in k.tcb[t].tstat /\ ~TSTAT_RUNNABLE(k, t) /\ k.tcb[t].tstat \in Legal
<1>1. PICK s : s = k.tcb[t].tstat
  OBVIOUS
<1>2. s \in Legal /\ "WAITING" \in s
  BY <1>1 DEF Waiter
<1>3. "RUNNABLE" \in s => s = {"RUNNABLE"}
  BY <1>2, LegalStates
<1>4. "RUNNABLE" \notin s
  BY <1>2, <1>3
<1> QED BY <1>1, <1>2, <1>4 DEF TSTAT_RUNNABLE

\* A task in one of these states fits with nothing else.
LEMMA PlainFits ==
  ASSUME NEW k, NEW t \in Task, NEW R, NEW C, NEW S, t \notin C, t \notin S, Nodes(k, t) = {},
         \/ k.tcb[t].tstat = {"RUNNABLE"} /\ t \in R
         \/ k.tcb[t].tstat = {"SUSPENDED"} /\ t \notin R
         \/ k.tcb[t].tstat = {} /\ t \notin R
  PROVE  TaskFits(k, t, R, C, S)
<1>1. PICK s : s = k.tcb[t].tstat
  OBVIOUS
<1>2. s \in Legal /\ "WAITING" \notin s /\ "WAIT_WOBJ" \notin s /\ "WAIT_WOBJCB" \notin s
  BY <1>1 DEF Legal
<1>3. t \in R <=> "RUNNABLE" \in s
  BY <1>1
<1> QED BY <1>1, <1>2, <1>3 DEF TaskFits, Agrees, Watched

LEMMA MakesNonWait ==
  ASSUME NEW k, NEW t, NEW R, NEW C, NEW S, Left(k, t, R, C, S), NEW m, m = make_non_wait(k, t)
  PROVE  Keeps(m, k, t)
<1>1. /\ t \in Task /\ t \notin R /\ t \notin C /\ t \notin S /\ Mid(k, t, R, C, S)
      /\ Waiter(k, t) /\ Nodes(k, t) = {}
  BY DEF Left, Leaving
<1>2. ~TSTAT_RUNNABLE(k, t)
  BY <1>1, WaiterFacts
<1>3. CASE TSTAT_SUSPENDED(k, t)
  <2>1. PICK s : s = {"SUSPENDED"}
    OBVIOUS
  <2>2. SuspendSet(m, k, t, s)
    BY <1>3, <2>1 DEF SuspendSet, make_non_wait
  <2>3. /\ Mid(m, t, R, C, S) /\ Wrote(m, k, t, {"tstat"}) /\ m.tcb[t].tstat = s
    BY <1>1, <2>2, SuspendKeeps
  <2>4. Nodes(m, t) = {} /\ Calm(m, k, t) /\ Asks(m, k)
    BY <1>1, <2>3 DEF Wrote, Asks
  <2>5. m.tcb[t].tstat = {"SUSPENDED"}
    BY <2>1, <2>3
  <2>6. TaskFits(m, t, R, C, S)
    BY <1>1, <2>4, <2>5, PlainFits
  <2>7. Sound(m)
    BY <1>1, <2>3, <2>6, MidFits
  <2> QED BY <1>2, <2>4, <2>7 DEF Keeps
<1>4. CASE ~TSTAT_SUSPENDED(k, t)
  <2>1. m = make_runnable(k, t)
    BY <1>4 DEF make_non_wait
  <2>2. /\ Mid(m, t, R \cup {t}, C, S) /\ Calm(m, k, t) /\ Nodes(m, t) = Nodes(k, t)
        /\ m.tcb[t].tstat = {"RUNNABLE"} /\ Asks(m, k)
    BY <1>1, <2>1, MakesRunnable
  <2>3. t \in R \cup {t} /\ Nodes(m, t) = {}
    BY <1>1, <2>2
  <2>4. TaskFits(m, t, R \cup {t}, C, S)
    BY <1>1, <2>2, <2>3, PlainFits
  <2>5. Sound(m)
    BY <1>1, <2>2, <2>4, MidFits
  <2> QED BY <1>2, <2>2, <2>5 DEF Keeps
<1> QED BY <1>3, <1>4

\* Keeps after changes that leave the schedule alone.
LEMMA KeepsAfter ==
  ASSUME NEW k, NEW m, NEW n, NEW t, Keeps(n, m, t), Calm(m, k, t), m.schedtsk = k.schedtsk,
         t \in Task /\ TSTAT_RUNNABLE(k, t) => TSTAT_RUNNABLE(m, t)
  PROVE  Keeps(n, k, t)
<1>1. Calm(n, k, t)
  BY CalmCalm DEF Keeps
<1>2. m.enadsp = k.enadsp
  BY DEF Calm, Same, Fields
<1> QED BY <1>1, <1>2 DEF Keeps, Asks

\* The result of the wait is written, and the task waits no more.
LEMMA EndsWith ==
  ASSUME NEW k, NEW t, NEW R, NEW C, NEW S, Left(k, t, R, C, S), NEW v,
         NEW m, m = make_non_wait([k EXCEPT !.tcb[t].winfo = v], t)
  PROVE  Keeps(m, k, t)
<1>1. PICK a : WinfoSet(a, k, t, v)
  BY DEF WinfoSet
<1>2. m = make_non_wait(a, t)
  BY <1>1 DEF WinfoSet
<1>3. Mid(k, t, R, C, S) /\ t \in Task
  BY DEF Left, Leaving
<1>4. Mid(a, t, R, C, S) /\ Wrote(a, k, t, {"winfo"})
  BY <1>1, <1>3, WinfoKeeps
<1>5. Nodes(a, t) = Nodes(k, t) /\ Calm(a, k, t) /\ a.schedtsk = k.schedtsk
      /\ a.tcb[t].tstat = k.tcb[t].tstat
  BY <1>4 DEF Wrote, BlockKept, Blocks
<1>6. Left(a, t, R, C, S)
  BY <1>4, <1>5 DEF Left, Leaving, Waiter
<1>7. Keeps(m, a, t)
  BY <1>2, <1>6, MakesNonWait
<1> QED BY <1>5, <1>7, KeepsAfter DEF TSTAT_RUNNABLE

LEMMA LeftBehind ==
  ASSUME NEW k, NEW t, NEW R, NEW C, NEW S, OnClock(k, t, R, C, S), NEW a, a = StopWatch(k, t)
  PROVE  Left(a, t, R, C, S) /\ Calm(a, k, t) /\ a.tcb = k.tcb /\ a.schedtsk = k.schedtsk
<1>1. /\ Mid(k, t, R, C, S) /\ Leaving(t, R, C, S) /\ Waiter(k, t)
      /\ Watched(k.tcb[t].tstat, k.tcb[t].winfo, Nodes(k, t))
  BY DEF OnClock
<1>2. "WAITING" \in k.tcb[t].tstat /\ t \in Task
  BY <1>1, WaiterFacts DEF Leaving
<1>3. /\ Mid(a, t, R, C, S) /\ Calm(a, k, t) /\ Nodes(a, t) = {}
      /\ Same(a, k, {"heap", "index"}) /\ a.ret = k.ret
  BY <1>1, <1>2, StopsWatch
<1>4. a.tcb = k.tcb /\ a.schedtsk = k.schedtsk
  BY <1>3 DEF Same, Fields
<1> QED BY <1>1, <1>3, <1>4 DEF Left, Waiter

LEMMA Completes ==
  ASSUME NEW k, NEW t, NEW R, NEW C, NEW S, OnClock(k, t, R, C, S), NEW m, m = wait_complete(k, t)
  PROVE  Keeps(m, k, t)
<1>1. PICK a : a = StopWatch(k, t)
  OBVIOUS
<1>2. Left(a, t, R, C, S) /\ Calm(a, k, t) /\ a.tcb = k.tcb /\ a.schedtsk = k.schedtsk
  BY <1>1, LeftBehind
<1>3. m = make_non_wait([a EXCEPT !.tcb[t].winfo = Zero], t)
  BY <1>1 DEF wait_complete
<1>4. Keeps(m, a, t)
  BY <1>2, <1>3, EndsWith
<1> QED BY <1>2, <1>4, KeepsAfter DEF TSTAT_RUNNABLE

LEMMA WaitingFits ==
  ASSUME NEW k, NEW R, NEW C, NEW S, Fits(k, R, C, S), NEW t \in Task, TSTAT_WAITING(k, t)
  PROVE  /\ Mid(k, t, R, C, S) /\ Waiter(k, t) /\ t \notin R
         /\ Agrees(t, k.tcb[t].tstat, R, C, S)
         /\ Watched(k.tcb[t].tstat, k.tcb[t].winfo, Nodes(k, t))
<1>1. TaskFits(k, t, R, C, S)
  BY DEF Fits
<1>2. Agrees(t, k.tcb[t].tstat, R, C, S) /\ Watched(k.tcb[t].tstat, k.tcb[t].winfo, Nodes(k, t))
  BY <1>1 DEF TaskFits
<1>3. Waiter(k, t)
  BY <1>2 DEF Watched, Waiter, TSTAT_WAITING
<1>4. ~TSTAT_RUNNABLE(k, t)
  BY <1>3, WaiterFacts
<1>5. t \notin R
  BY <1>2, <1>4 DEF Agrees, TSTAT_RUNNABLE
<1> QED BY <1>2, <1>3, <1>5, FitsMid

\* The task leaves the queues of the object, if it is on one.
LEMMA LeavesAll ==
  ASSUME NEW k, NEW t \in Task, NEW R, NEW C, NEW S, Mid(k, t, R, C, S), Waiter(k, t), t \notin R,
         Agrees(t, k.tcb[t].tstat, R, C, S), Nodes(k, t) = {},
         NEW m, m = IF "WAIT_WOBJ" \in k.tcb[t].tstat THEN LeaveQueues(k, t) ELSE k
  PROVE  /\ Left(m, t, R, C \ {t}, S \ {t}) /\ Calm(m, k, t)
         /\ m.tcb = k.tcb /\ m.schedtsk = k.schedtsk
<1>1. CASE "WAIT_WOBJ" \in k.tcb[t].tstat
  <2>1. m = LeaveQueues(k, t)
    BY <1>1
  <2>2. Mid(m, t, R, C \ {t}, S \ {t}) /\ QueuesKept(m, k, t)
    BY <2>1, LeavesQueues
  <2> QED BY <2>2 DEF QueuesKept, Left, Leaving, Waiter
<1>2. CASE "WAIT_WOBJ" \notin k.tcb[t].tstat
  <2>1. m = k
    BY <1>2
  <2>2. k.tcb[t].tstat \in Legal
    BY DEF Waiter
  <2>3. "WAIT_WOBJCB" \notin k.tcb[t].tstat
    BY <1>2, <2>2, LegalStates
  <2>4. t \notin C /\ t \notin S
    BY <1>2, <2>3 DEF Agrees
  <2>5. C \ {t} = C /\ S \ {t} = S
    BY <2>4
  <2>6. Left(k, t, R, C, S)
    BY <2>4 DEF Left, Leaving
  <2>7. Calm(k, k, t)
    BY DEF Calm, Same
  <2> QED BY <2>1, <2>5, <2>6, <2>7
<1> QED BY <1>1, <1>2

LEMMA Cancels ==
  ASSUME NEW k, NEW R, NEW C, NEW S, Fits(k, R, C, S), NEW t \in Task, TSTAT_WAITING(k, t),
         NEW m, m = wait_cancel(k, t)
  PROVE  /\ Left(m, t, R, C \ {t}, S \ {t}) /\ Calm(m, k, t)
         /\ m.tcb = k.tcb /\ m.schedtsk = k.schedtsk
<1>1. /\ Mid(k, t, R, C, S) /\ Waiter(k, t) /\ t \notin R
      /\ Agrees(t, k.tcb[t].tstat, R, C, S)
      /\ Watched(k.tcb[t].tstat, k.tcb[t].winfo, Nodes(k, t))
  BY WaitingFits
<1>2. PICK a : a = StopWatch(k, t)
  OBVIOUS
<1>3. "WAITING" \in k.tcb[t].tstat
  BY DEF TSTAT_WAITING
<1>4. /\ Mid(a, t, R, C, S) /\ Calm(a, k, t) /\ Nodes(a, t) = {} /\ Same(a, k, {"heap", "index"})
  BY <1>1, <1>2, <1>3, StopsWatch
<1>5. a.tcb = k.tcb /\ a.schedtsk = k.schedtsk
  BY <1>4 DEF Same, Fields
<1>6. Waiter(a, t) /\ Agrees(t, a.tcb[t].tstat, R, C, S)
  BY <1>1, <1>5 DEF Waiter
<1>7. m = IF "WAIT_WOBJ" \in a.tcb[t].tstat THEN LeaveQueues(a, t) ELSE a
  BY <1>2, <1>5 DEF wait_cancel
<1>8. /\ Left(m, t, R, C \ {t}, S \ {t}) /\ Calm(m, a, t)
      /\ m.tcb = a.tcb /\ m.schedtsk = a.schedtsk
  BY <1>1, <1>4, <1>6, <1>7, LeavesAll
<1>9. Calm(m, k, t)
  BY <1>4, <1>8, CalmCalm
<1> QED BY <1>5, <1>8, <1>9

LEMMA Releases ==
  ASSUME NEW k, Sound(k), NEW t \in Task, TSTAT_WAITING(k, t), NEW m, m = wait_release(k, t)
  PROVE  Keeps(m, k, t)
<1>1. PICK R, C, S : Fits(k, R, C, S)
  BY DEF Sound
<1>2. PICK a : a = wait_cancel(k, t)
  OBVIOUS
<1>3. /\ Left(a, t, R, C \ {t}, S \ {t}) /\ Calm(a, k, t)
      /\ a.tcb = k.tcb /\ a.schedtsk = k.schedtsk
  BY <1>1, <1>2, Cancels
<1>4. m = make_non_wait([a EXCEPT !.tcb[t].winfo = "E_RLWAI"], t)
  BY <1>2 DEF wait_release
<1>5. Keeps(m, a, t)
  BY <1>3, <1>4, EndsWith
<1> QED BY <1>3, <1>5, KeepsAfter DEF TSTAT_RUNNABLE

\* The task's time event has gone off.
LEMMA TimesOut ==
  ASSUME NEW k, NEW t \in Task, NEW R, NEW C, NEW S, Mid(k, t, R, C, S), Waiter(k, t), t \notin R,
         Agrees(t, k.tcb[t].tstat, R, C, S), Nodes(k, t) = {},
         NEW m, m = wait_tmout(k, t)
  PROVE  \E n : m = Requested(n) /\ Keeps(n, k, t)
<1>1. PICK a : a = IF "WAIT_WOBJ" \in k.tcb[t].tstat THEN LeaveQueues(k, t) ELSE k
  OBVIOUS
<1>2. /\ Left(a, t, R, C \ {t}, S \ {t}) /\ Calm(a, k, t)
      /\ a.tcb = k.tcb /\ a.schedtsk = k.schedtsk
  BY <1>1, LeavesAll
<1>3. PICK n : n = make_non_wait([a EXCEPT !.tcb[t].winfo = "E_TMOUT"], t)
  OBVIOUS
<1>4. m = Requested(n)
  BY <1>1, <1>3 DEF wait_tmout
<1>5. Keeps(n, a, t)
  BY <1>2, <1>3, EndsWith
<1>6. Keeps(n, k, t)
  BY <1>2, <1>5, KeepsAfter DEF TSTAT_RUNNABLE
<1> QED BY <1>4, <1>6

LEMMA TimesOutWell ==
  ASSUME NEW k, NEW t \in Task, NEW R, NEW C, NEW S, Mid(k, t, R, C, S), Waiter(k, t), t \notin R,
         Agrees(t, k.tcb[t].tstat, R, C, S), Nodes(k, t) = {},
         "WAIT_WOBJ" \notin k.tcb[t].tstat,
         NEW m, m = wait_tmout_ok(k, t)
  PROVE  \E n : m = Requested(n) /\ Keeps(n, k, t)
<1>1. k.tcb[t].tstat \in Legal
  BY DEF Waiter
<1>2. t \notin C /\ t \notin S
  BY <1>1, LegalStates DEF Agrees
<1>3. Left(k, t, R, C, S)
  BY <1>2 DEF Left, Leaving
<1>4. PICK n : n = make_non_wait([k EXCEPT !.tcb[t].winfo = Zero], t)
  OBVIOUS
<1>5. m = Requested(n)
  BY <1>4 DEF wait_tmout_ok
<1>6. Keeps(n, k, t)
  BY <1>3, <1>4, EndsWith
<1> QED BY <1>5, <1>6

--------------------------------------------------------------------------------
(* The first task of a queue of the object. *)

LEMMA WaitsThere ==
  ASSUME NEW k, NEW R, NEW C, NEW S, Fits(k, R, C, S), NEW t \in Task, t \in C \/ t \in S
  PROVE  /\ Waiter(k, t) /\ t \notin R /\ ~(t \in C /\ t \in S)
         /\ Watched(k.tcb[t].tstat, k.tcb[t].winfo, Nodes(k, t))
<1>1. TaskFits(k, t, R, C, S)
  BY DEF Fits
<1>2. Agrees(t, k.tcb[t].tstat, R, C, S) /\ k.tcb[t].tstat \in Legal
  BY <1>1 DEF TaskFits, Watched
<1>3. "WAIT_WOBJ" \in k.tcb[t].tstat
  BY <1>2, LegalStates DEF Agrees
<1>4. TSTAT_WAITING(k, t)
  BY <1>2, <1>3, LegalStates DEF TSTAT_WAITING
<1>5. Waiter(k, t) /\ t \notin R /\ Watched(k.tcb[t].tstat, k.tcb[t].winfo, Nodes(k, t))
  BY <1>4, WaitingFits
<1>6. ~(t \in C /\ t \in S)
  BY <1>2 DEF Agrees
<1> QED BY <1>5, <1>6

LEMMA Wakes ==
  ASSUME NEW k, Sound(k), NEW t, IsHead(t, k.obj.wait_queue), NEW m, m = WakeFirst(k)
  PROVE  t \in Task /\ Keeps(m, k, t)
<1>1. PICK R, C, S : Fits(k, R, C, S)
  BY DEF Sound
<1>2. PICK a : a = [k EXCEPT !.obj.wait_queue = Tail(@)]
  OBVIOUS
<1>3. Mid(k, t, R, C, S)
  BY <1>1, FitsMid
<1>4. QueuesAre(a, k, Tail(k.obj.wait_queue), k.obj.rwait_queue)
  <2>1. Shape(k)
    BY <1>3, MidShape
  <2>2. a = [f \in Fields |-> a[f]] /\ Same(a, k, {"obj"})
    BY <1>2, <2>1 DEF Shape, Fields, Same
  <2>3. a.obj = [k.obj EXCEPT !.wait_queue = Tail(k.obj.wait_queue)]
    BY <1>2, <2>1 DEF Shape, Fields
  <2>4. /\ a.obj = [f \in Queued |-> a.obj[f]] /\ a.obj.wait_queue = Tail(k.obj.wait_queue)
        /\ a.obj.rwait_queue = k.obj.rwait_queue
    BY <2>1, <2>3 DEF Shape, Queued
  <2> QED BY <2>2, <2>4 DEF QueuesAre, ObjectWrite
<1>5. t \in Task /\ t \in C /\ Mid(a, t, R, C \ {t}, S) /\ QueuesKept(a, k, t)
  BY <1>3, <1>4, TakesFirst
<1>6. /\ Waiter(k, t) /\ t \notin R /\ t \notin S
      /\ Watched(k.tcb[t].tstat, k.tcb[t].winfo, Nodes(k, t))
  BY <1>1, <1>5, WaitsThere
<1>7. Calm(a, k, t) /\ a.tcb = k.tcb /\ a.schedtsk = k.schedtsk /\ Nodes(a, t) = Nodes(k, t)
  BY <1>5 DEF QueuesKept
<1>8. OnClock(a, t, R, C \ {t}, S)
  BY <1>5, <1>6, <1>7 DEF OnClock, Leaving, Waiter
<1>9. m = wait_complete(a, t)
  BY <1>2 DEF WakeFirst, FirstWaiting, IsHead
<1>10. Keeps(m, a, t)
  BY <1>8, <1>9, Completes
<1> QED BY <1>5, <1>7, <1>10, KeepsAfter DEF TSTAT_RUNNABLE

--------------------------------------------------------------------------------
(* What the object holds, and the histories. *)

Stored(m, k) ==
  /\ m = [f \in Fields |-> m[f]] /\ Same(m, k, {"obj", "sent", "delivered", "held"})
  /\ m.obj = [f \in Queued |-> m.obj[f]]
  /\ m.obj.wait_queue = k.obj.wait_queue /\ m.obj.rwait_queue = k.obj.rwait_queue

LEMMA StoreSet ==
  ASSUME NEW k, Shape(k), NEW x
  PROVE  /\ Stored([k EXCEPT !.obj.store = x], k) /\ Stored([k EXCEPT !.sent = x], k)
         /\ Stored([k EXCEPT !.delivered = x], k) /\ Stored([k EXCEPT !.held = x], k)
<1>1. k.obj = [f \in Queued |-> k.obj[f]]
  BY DEF Shape
<1>2. Stored([k EXCEPT !.sent = x], k)
  BY <1>1 DEF Stored, Shape, Fields, Same
<1>3. Stored([k EXCEPT !.delivered = x], k)
  BY <1>1 DEF Stored, Shape, Fields, Same
<1>4. Stored([k EXCEPT !.held = x], k)
  BY <1>1 DEF Stored, Shape, Fields, Same
<1>5. ASSUME NEW m, m = [k EXCEPT !.obj.store = x] PROVE Stored(m, k)
  <2>1. m = [f \in Fields |-> m[f]] /\ Same(m, k, {"obj", "sent", "delivered", "held"})
    BY <1>5 DEF Shape, Fields, Same
  <2>2. m.obj = [k.obj EXCEPT !.store = x]
    BY <1>5 DEF Shape, Fields
  <2>3. /\ m.obj = [f \in Queued |-> m.obj[f]]
        /\ m.obj.wait_queue = k.obj.wait_queue /\ m.obj.rwait_queue = k.obj.rwait_queue
    BY <1>1, <2>2 DEF Queued
  <2> QED BY <2>1, <2>3 DEF Stored
<1> QED BY <1>2, <1>3, <1>4, <1>5

LEMMA StoredStored ==
  ASSUME NEW k, NEW m, NEW n, Stored(m, k), Stored(n, m)
  PROVE  Stored(n, k)
BY DEF Stored, Same

LEMMA StoredShape ==
  ASSUME NEW k, Shape(k), NEW m, Stored(m, k)
  PROVE  /\ Shape(m) /\ m.tcb = k.tcb /\ m.schedtsk = k.schedtsk /\ m.runtsk = k.runtsk
         /\ m.obj.wait_queue = k.obj.wait_queue /\ m.obj.rwait_queue = k.obj.rwait_queue
         /\ m.cfg = k.cfg
<1>1. m.tcb = k.tcb /\ m.cfg = k.cfg /\ m.schedtsk = k.schedtsk /\ m.runtsk = k.runtsk
  BY DEF Stored, Same, Fields
<1>2. \A f \in Flags : m[f] = k[f]
  BY DEF Stored, Same, Fields, Flags
<1>3. Shape(m)
  BY <1>1, <1>2 DEF Stored, Shape
<1> QED BY <1>1, <1>3 DEF Stored

LEMMA StoredKeeps ==
  ASSUME NEW k, Sound(k), NEW m, Stored(m, k), NEW t \in Task
  PROVE  Keeps(m, k, t)
<1>1. PICK R, C, S : Fits(k, R, C, S)
  BY DEF Sound
<1>2. Mid(k, t, R, C, S) /\ TaskFits(k, t, R, C, S)
  BY <1>1, FitsMid DEF Fits
<1>3. Shape(k)
  BY <1>2, MidShape
<1>4. Shape(m) /\ m.tcb = k.tcb /\ m.schedtsk = k.schedtsk
  BY <1>3, StoredShape
<1>5. Same(m, k, {"tcb", "ret", "obj", "sent", "delivered", "held"})
  BY DEF Stored, Same
<1>6. Rewritten(m, k, t)
  BY <1>4, <1>5 DEF Rewritten, Stored
<1>7. Mid(m, t, R, C, S) /\ Calm(m, k, t) /\ Nodes(m, t) = Nodes(k, t)
  BY <1>2, <1>6, RewrittenKept
<1>8. TaskFits(m, t, R, C, S)
  BY <1>2, <1>4, <1>7 DEF TaskFits
<1>9. Sound(m)
  BY <1>7, <1>8, MidFits
<1> QED BY <1>4, <1>7, <1>9 DEF Keeps, Asks, TSTAT_RUNNABLE

\* What a service does to the state at which it finds the kernel: Serves if it returns.
Serves(m, k) == \E t \in Task : Keeps(m, k, t)

LEMMA SomeTask == 1 \in Task
BY TickFitsWord DEF Task

LEMMA StoredServes ==
  ASSUME NEW k, Sound(k), NEW m, Stored(m, k)
  PROVE  Serves(m, k) /\ Sound(m)
BY SomeTask, StoredKeeps DEF Serves, Keeps

LEMMA ServesAfter ==
  ASSUME NEW k, Sound(k), NEW m, Stored(m, k), NEW n, Serves(n, m)
  PROVE  Serves(n, k)
<1>1. PICK t \in Task : Keeps(n, m, t)
  BY DEF Serves
<1>2. Keeps(m, k, t)
  BY StoredKeeps
<1>3. Shape(k)
  BY DEF Sound, Fits, Base
<1>4. m.tcb = k.tcb /\ m.schedtsk = k.schedtsk
  BY <1>3, StoredShape
<1>5. Calm(m, k, t)
  BY <1>2 DEF Keeps
<1>6. Keeps(n, k, t)
  BY <1>1, <1>4, <1>5, KeepsAfter DEF TSTAT_RUNNABLE
<1> QED BY <1>6 DEF Serves

LEMMA DozesAfter ==
  ASSUME NEW k, Sound(k), NEW m, Stored(m, k), NEW n, Dozes(n, m), m.runtsk \in Task
  PROVE  Dozes(n, k)
<1>1. Keeps(m, k, m.runtsk)
  BY StoredKeeps
<1>2. Shape(k)
  BY DEF Sound, Fits, Base
<1>3. m.runtsk = k.runtsk
  BY <1>2, StoredShape
<1>4. Calm(n, m, m.runtsk) /\ Calm(m, k, m.runtsk)
  BY <1>1 DEF Dozes, Keeps
<1>5. Calm(n, k, m.runtsk)
  BY <1>4, CalmCalm
<1> QED BY <1>3, <1>5 DEF Dozes

LEMMA CallerStays ==
  ASSUME NEW k, Sound(k), NEW m, Stored(m, k), NEW t, Caller(k, t)
  PROVE  Caller(m, t)
<1>1. Shape(k)
  BY DEF Sound, Fits, Base
<1> QED BY <1>1, StoredShape DEF Caller, TSTAT_RUNNABLE

LEMMA SoundShape ==
  ASSUME NEW k, Sound(k)
  PROVE  Shape(k)
BY DEF Sound, Fits, Base

--------------------------------------------------------------------------------
(* The first task that waits to receive. *)

DataSet(m, k, t, v) == m = [k EXCEPT !.tcb[t].data = v]

LEMMA DataKeeps ==
  ASSUME NEW k, NEW t \in Task, NEW R, NEW C, NEW S, Mid(k, t, R, C, S),
         NEW v, NEW m, DataSet(m, k, t, v)
  PROVE  Mid(m, t, R, C, S) /\ Wrote(m, k, t, {"data"})
<1>1. Shape(k) /\ k.ret \in BOOLEAN
  BY MidShape
<1>2. /\ m = [f \in Fields |-> m[f]] /\ Same(m, k, {"tcb"}) /\ m.ret = k.ret
      /\ m.tcb = [u \in Task |-> m.tcb[u]] /\ \A u \in Task \ {t} : m.tcb[u] = k.tcb[u]
  BY <1>1 DEF Shape, Fields, DataSet, Same
<1>3. m.tcb[t] = [k.tcb[t] EXCEPT !.data = v]
  BY <1>1 DEF Shape, Fields, DataSet
<1>4. /\ m.tcb[t] = [f \in Blocks |-> m.tcb[t][f]]
      /\ \A f \in Blocks \ {"data"} : m.tcb[t][f] = k.tcb[t][f]
  BY <1>1, <1>3 DEF Shape, Block, Blocks
<1>5. TaskWrite(m, k, t, {"data"}, {})
  BY <1>2, <1>4 DEF TaskWrite
<1>6. m.ret \in BOOLEAN /\ {} \subseteq {"ret", "sent", "delivered", "held"}
      /\ {"data"} \subseteq {"tstat", "winfo", "data", "actcnt", "wupcnt", "texnest"}
  BY <1>1, <1>2
<1>7. /\ Mid(m, t, R, C, S) /\ Calm(m, k, t) /\ Nodes(m, t) = Nodes(k, t)
      /\ m.schedtsk = k.schedtsk /\ m.obj = k.obj
      /\ BlockKept(m.tcb[t], k.tcb[t], {"data"})
  BY <1>5, <1>6, WriteKeeps
<1> QED BY <1>7 DEF Wrote

\* The steps of send_data_rwait.
Handed(c, b, d, k, t, item) ==
  /\ d = Deliver(k, item) /\ b = [d EXCEPT !.obj.rwait_queue = Tail(@)]
  /\ DataSet(c, b, t, <<item>>)

LEMMA Hands ==
  ASSUME NEW k, Sound(k), NEW t, IsHead(t, k.obj.rwait_queue), NEW item,
         NEW m, m = send_data_rwait(k, item)
  PROVE  Serves(m, k)
<1>1. t = FirstReceiving(k)
  BY DEF IsHead, FirstReceiving
<1>2. \E c, b, d : Handed(c, b, d, k, t, item)
  BY DEF Handed, DataSet
<1>3. PICK c, b, d : Handed(c, b, d, k, t, item)
  BY <1>2
<1>4. m = wait_complete(c, t)
  BY <1>1, <1>3 DEF Handed, DataSet, send_data_rwait
<1>5. Shape(k)
  BY SoundShape
<1>6. Stored(d, k)
  BY <1>3, <1>5, StoreSet DEF Handed, Deliver
<1>7. Sound(d)
  BY <1>6, StoredServes
<1>8. d.obj.rwait_queue = k.obj.rwait_queue /\ Shape(d)
  BY <1>5, <1>6, StoredShape
<1>9. PICK R, C, S : Fits(d, R, C, S)
  BY <1>7 DEF Sound
<1>10. Mid(d, t, R, C, S)
  BY <1>9, FitsMid
<1>11. QueuesAre(b, d, d.obj.wait_queue, Tail(d.obj.rwait_queue))
  <2>1. b = [d EXCEPT !.obj.rwait_queue = Tail(@)]
    BY <1>3 DEF Handed
  <2>2. b = [f \in Fields |-> b[f]] /\ Same(b, d, {"obj"})
    BY <1>8, <2>1 DEF Shape, Fields, Same
  <2>3. b.obj = [d.obj EXCEPT !.rwait_queue = Tail(d.obj.rwait_queue)]
    BY <1>8, <2>1 DEF Shape, Fields
  <2>4. /\ b.obj = [f \in Queued |-> b.obj[f]] /\ b.obj.wait_queue = d.obj.wait_queue
        /\ b.obj.rwait_queue = Tail(d.obj.rwait_queue)
    BY <1>8, <2>3 DEF Shape, Queued
  <2> QED BY <2>2, <2>4 DEF QueuesAre, ObjectWrite
<1>12. IsHead(t, d.obj.rwait_queue)
  BY <1>8
<1>13. t \in Task /\ t \in S /\ Mid(b, t, R, C, S \ {t}) /\ QueuesKept(b, d, t)
  BY <1>10, <1>11, <1>12, TakesReceiver
<1>14. /\ Waiter(d, t) /\ t \notin R /\ t \notin C
       /\ Watched(d.tcb[t].tstat, d.tcb[t].winfo, Nodes(d, t))
  BY <1>9, <1>13, WaitsThere
<1>15. Calm(b, d, t) /\ b.tcb = d.tcb /\ b.schedtsk = d.schedtsk /\ Nodes(b, t) = Nodes(d, t)
  BY <1>13 DEF QueuesKept
<1>16. DataSet(c, b, t, <<item>>)
  BY <1>3 DEF Handed
<1>17. Mid(c, t, R, C, S \ {t}) /\ Wrote(c, b, t, {"data"})
  BY <1>13, <1>16, DataKeeps
<1>18. /\ Nodes(c, t) = Nodes(b, t) /\ Calm(c, b, t) /\ c.schedtsk = b.schedtsk
       /\ c.tcb[t].tstat = b.tcb[t].tstat /\ c.tcb[t].winfo = b.tcb[t].winfo
  BY <1>17 DEF Wrote, BlockKept, Blocks
<1>19. OnClock(c, t, R, C, S \ {t})
  BY <1>13, <1>14, <1>15, <1>17, <1>18 DEF OnClock, Leaving, Waiter
<1>20. Keeps(m, c, t)
  BY <1>4, <1>19, Completes
<1>21. Calm(c, d, t)
  BY <1>15, <1>18, CalmCalm
<1>22. Keeps(m, d, t)
  BY <1>15, <1>18, <1>20, <1>21, KeepsAfter DEF TSTAT_RUNNABLE
<1>23. Serves(m, d)
  BY <1>13, <1>22 DEF Serves
<1> QED BY <1>6, <1>23, ServesAfter

\* A service returns, or its caller waits.
Does(m, k) == Serves(m, k) \/ Dozes(m, k)

LEMMA WakesFirst ==
  ASSUME NEW k, Sound(k), ~NoWaiters(k), NEW m, m = WakeFirst(k)
  PROVE  Serves(m, k)
<1>1. IsHead(FirstWaiting(k), k.obj.wait_queue)
  BY DEF IsHead, NoWaiters, FirstWaiting
<1>2. FirstWaiting(k) \in Task /\ Keeps(m, k, FirstWaiting(k))
  BY <1>1, Wakes
<1> QED BY <1>2 DEF Serves

\* The object changes, and then the first task that waits is woken.
LEMMA WakesAfter ==
  ASSUME NEW k, Sound(k), NEW a, Stored(a, k), ~NoWaiters(k), NEW m, m = WakeFirst(a)
  PROVE  Serves(m, k)
<1>1. Sound(a)
  BY StoredServes
<1>2. ~NoWaiters(a)
  BY StoredShape, SoundShape DEF NoWaiters
<1>3. Serves(m, a)
  BY <1>1, <1>2, WakesFirst
<1> QED BY <1>3, ServesAfter

LEMMA SigSemServes ==
  ASSUME NEW k, Sound(k), NEW m, m = sig_sem(k)
  PROVE  Serves(m, k)
<1>1. CASE NoWaiters(k)
  <2>1. m = [k EXCEPT !.obj.store = k.obj.store + 1]
    BY <1>1 DEF sig_sem
  <2>2. Stored(m, k)
    BY <2>1, SoundShape, StoreSet
  <2> QED BY <2>2, StoredServes
<1>2. CASE ~NoWaiters(k)
  BY <1>2, WakesFirst DEF sig_sem
<1> QED BY <1>1, <1>2

LEMMA TwaiSemDoes ==
  ASSUME NEW k, Sound(k), NEW t, Caller(k, t), NEW tmout \in Int, NEW m, m = twai_sem(k, tmout)
  PROVE  Does(m, k)
<1>1. CASE k.obj.store >= 1
  <2>1. m = [k EXCEPT !.obj.store = k.obj.store - 1]
    BY <1>1 DEF twai_sem
  <2>2. Stored(m, k)
    BY <2>1, SoundShape, StoreSet
  <2> QED BY <2>2, StoredServes DEF Does
<1>2. CASE ~(k.obj.store >= 1)
  <2>1. m = wobj_make_wait_tmout(k, NoData, tmout)
    BY <1>2 DEF twai_sem
  <2> QED BY <2>1, CallerWaits DEF Does
<1> QED BY <1>1, <1>2

LEMMA PatternTaken ==
  ASSUME NEW k, Shape(k), NEW m, m = TakePattern(k)
  PROVE  Stored(m, k)
<1>1. CASE k.cfg.clr
  BY <1>1, StoreSet DEF TakePattern
<1>2. CASE ~k.cfg.clr
  <2>1. m = k
    BY <1>2 DEF TakePattern
  <2> QED BY <2>1 DEF Stored, Shape, Same
<1> QED BY <1>1, <1>2

LEMMA SetFlgServes ==
  ASSUME NEW k, Sound(k), NEW ptn, NEW m, m = set_flg(k, ptn)
  PROVE  Serves(m, k)
<1>1. PICK a : a = [k EXCEPT !.obj.store = k.obj.store \cup ptn]
  OBVIOUS
<1>2. Stored(a, k)
  BY <1>1, SoundShape, StoreSet
<1>3. \/ m = a
      \/ ~NoWaiters(k) /\ m = WakeFirst(TakePattern(a))
  BY <1>1 DEF set_flg
<1>4. CASE m = a
  BY <1>2, <1>4, StoredServes
<1>5. CASE ~NoWaiters(k) /\ m = WakeFirst(TakePattern(a))
  <2>1. PICK b : b = TakePattern(a)
    OBVIOUS
  <2>2. Shape(a)
    BY <1>2, SoundShape, StoredShape
  <2>3. Stored(b, a)
    BY <2>1, <2>2, PatternTaken
  <2>4. Stored(b, k)
    BY <1>2, <2>3, StoredStored
  <2> QED BY <1>5, <2>1, <2>4, WakesAfter
<1> QED BY <1>3, <1>4, <1>5

LEMMA ClrFlgServes ==
  ASSUME NEW k, Sound(k), NEW ptn, NEW m, m = clr_flg(k, ptn)
  PROVE  Serves(m, k)
<1>1. m = [k EXCEPT !.obj.store = k.obj.store \cap ptn]
  BY DEF clr_flg
<1>2. Stored(m, k)
  BY <1>1, SoundShape, StoreSet
<1> QED BY <1>2, StoredServes

LEMMA TwaiFlgDoes ==
  ASSUME NEW k, Sound(k), NEW t, Caller(k, t), NEW tmout \in Int, NEW ptn, NEW mode,
         NEW m, m = twai_flg(k, ptn, mode, tmout)
  PROVE  Does(m, k)
<1>1. CASE eventflag_cond(k, ptn, mode)
  <2>1. m = TakePattern(k)
    BY <1>1 DEF twai_flg
  <2>2. Stored(m, k)
    BY <2>1, SoundShape, PatternTaken
  <2> QED BY <2>2, StoredServes DEF Does
<1>2. CASE ~eventflag_cond(k, ptn, mode)
  <2>1. m = wobj_make_wait_tmout(k, <<ptn, mode>>, tmout)
    BY <1>2 DEF twai_flg
  <2> QED BY <2>1, CallerWaits DEF Does
<1> QED BY <1>1, <1>2

--------------------------------------------------------------------------------
\* The item is counted.
LEMMA Counted ==
  ASSUME NEW k0, Sound(k0), NEW k, k = [k0 EXCEPT !.sent = k0.sent + 1]
  PROVE  Stored(k, k0) /\ Sound(k) /\ Shape(k) /\ k.obj.rwait_queue = k0.obj.rwait_queue
         /\ k.obj.store = k0.obj.store /\ k.cfg = k0.cfg
<1>1. Shape(k0)
  BY SoundShape
<1>2. Stored(k, k0)
  BY <1>1, StoreSet
<1>3. k.obj = k0.obj /\ k.cfg = k0.cfg
  BY <1>1 DEF Shape, Fields
<1> QED BY <1>1, <1>2, <1>3, StoredShape, StoredServes

LEMMA TsndDtqServes ==
  ASSUME NEW k, Sound(k), NEW tmout, k.obj.rwait_queue # << >> \/ HasRoom(k),
         NEW m, m = tsnd_dtq(k, tmout)
  PROVE  Serves(m, k)
<1>1. PICK a : a = [k EXCEPT !.sent = k.sent + 1]
  OBVIOUS
<1>2. Stored(a, k) /\ Sound(a) /\ Shape(a) /\ a.obj.rwait_queue = k.obj.rwait_queue
      /\ a.obj.store = k.obj.store /\ a.cfg = k.cfg
  BY <1>1, Counted
<1>3. m = IF a.obj.rwait_queue # << >> THEN send_data_rwait(a, a.sent)
          ELSE IF HasRoom(a) THEN enqueue_data(a, a.sent)
          ELSE wobj_make_wait_tmout(a, <<a.sent>>, tmout)
  BY <1>1 DEF tsnd_dtq
<1>4. CASE a.obj.rwait_queue # << >>
  <2>1. IsHead(Head(a.obj.rwait_queue), a.obj.rwait_queue) /\ m = send_data_rwait(a, a.sent)
    BY <1>3, <1>4 DEF IsHead
  <2>2. Serves(m, a)
    BY <1>2, <2>1, Hands
  <2> QED BY <1>2, <2>2, ServesAfter
<1>5. CASE a.obj.rwait_queue = << >>
  <2>1. m = [a EXCEPT !.obj.store = Append(a.obj.store, a.sent)]
    BY <1>2, <1>3, <1>5 DEF HasRoom, enqueue_data
  <2>2. Stored(m, k)
    BY <1>2, <2>1, StoreSet, StoredStored
  <2> QED BY <2>2, StoredServes
<1> QED BY <1>4, <1>5

LEMMA TsndDtqDoes ==
  ASSUME NEW k, Sound(k), NEW t, Caller(k, t), NEW tmout \in Int, NEW m, m = tsnd_dtq(k, tmout)
  PROVE  Does(m, k)
<1>1. CASE k.obj.rwait_queue # << >> \/ HasRoom(k)
  BY <1>1, TsndDtqServes DEF Does
<1>2. CASE k.obj.rwait_queue = << >> /\ ~HasRoom(k)
  <2>1. PICK a : a = [k EXCEPT !.sent = k.sent + 1]
    OBVIOUS
  <2>2. Stored(a, k) /\ Sound(a) /\ Shape(a) /\ a.obj.rwait_queue = k.obj.rwait_queue
        /\ a.obj.store = k.obj.store /\ a.cfg = k.cfg
    BY <2>1, Counted
  <2>3. m = IF a.obj.rwait_queue # << >> THEN send_data_rwait(a, a.sent)
            ELSE IF HasRoom(a) THEN enqueue_data(a, a.sent)
            ELSE wobj_make_wait_tmout(a, <<a.sent>>, tmout)
    BY <2>1 DEF tsnd_dtq
  <2>4. m = wobj_make_wait_tmout(a, <<a.sent>>, tmout)
    BY <1>2, <2>2, <2>3 DEF HasRoom
  <2>5. Caller(a, t)
    BY <2>2, CallerStays
  <2>6. Dozes(m, a)
    BY <2>2, <2>4, <2>5, CallerWaits
  <2>7. a.runtsk \in Task
    BY <2>5 DEF Caller
  <2> QED BY <2>2, <2>6, <2>7, DozesAfter DEF Does
<1> QED BY <1>1, <1>2

LEMMA FsndDtqServes ==
  ASSUME NEW k, Sound(k), NEW m, m = fsnd_dtq(k)
  PROVE  Serves(m, k)
<1>1. PICK a : a = [k EXCEPT !.sent = k.sent + 1]
  OBVIOUS
<1>2. Stored(a, k) /\ Sound(a) /\ Shape(a) /\ a.obj.rwait_queue = k.obj.rwait_queue
      /\ a.obj.store = k.obj.store /\ a.cfg = k.cfg
  BY <1>1, Counted
<1>3. m = IF a.obj.rwait_queue # << >> THEN send_data_rwait(a, a.sent)
          ELSE force_enqueue_data(a, a.sent)
  BY <1>1 DEF fsnd_dtq
<1>4. CASE a.obj.rwait_queue # << >>
  <2>1. IsHead(Head(a.obj.rwait_queue), a.obj.rwait_queue) /\ m = send_data_rwait(a, a.sent)
    BY <1>3, <1>4 DEF IsHead
  <2>2. Serves(m, a)
    BY <1>2, <2>1, Hands
  <2> QED BY <1>2, <2>2, ServesAfter
<1>5. CASE a.obj.rwait_queue = << >>
  <2>1. PICK x : x = Append(IF HasRoom(a) THEN a.obj.store ELSE Tail(a.obj.store), a.sent)
    OBVIOUS
  <2>2. m = [a EXCEPT !.obj.store = x]
    BY <1>3, <1>5, <2>1 DEF force_enqueue_data
  <2>3. Stored(m, k)
    BY <1>2, <2>2, StoreSet, StoredStored
  <2> QED BY <2>3, StoredServes
<1> QED BY <1>4, <1>5

\* A datum or a message is delivered from the object.
LEMMA Delivered ==
  ASSUME NEW k, Shape(k), NEW item, NEW x, NEW m, m = [Deliver(k, item) EXCEPT !.obj.store = x]
  PROVE  Stored(m, k) /\ Shape(m)
<1>1. PICK d : d = Deliver(k, item)
  OBVIOUS
<1>2. Stored(d, k)
  BY <1>1, StoreSet DEF Deliver
<1>3. Shape(d)
  BY <1>2, StoredShape
<1>4. Stored(m, d)
  BY <1>1, <1>3, StoreSet
<1>5. Stored(m, k)
  BY <1>2, <1>4, StoredStored
<1> QED BY <1>5, StoredShape

LEMMA ReceivesStored ==
  ASSUME NEW k, Sound(k), NEW m, m = ReceiveStored(k)
  PROVE  Serves(m, k)
<1>1. PICK a : a = [Deliver(k, Head(k.obj.store)) EXCEPT !.obj.store = Tail(@)]
  OBVIOUS
<1>2. a = [Deliver(k, Head(k.obj.store)) EXCEPT
             !.obj.store = Tail(Deliver(k, Head(k.obj.store)).obj.store)]
  BY <1>1
<1>3. Stored(a, k) /\ Shape(a)
  BY <1>2, SoundShape, Delivered
<1>4. CASE NoWaiters(k)
  <2>1. m = a
    BY <1>1, <1>4 DEF ReceiveStored
  <2> QED BY <1>3, <2>1, StoredServes
<1>5. CASE ~NoWaiters(k)
  <2>1. PICK b : b = enqueue_data(a, k.tcb[FirstWaiting(k)].data[1])
    OBVIOUS
  <2>2. m = WakeFirst(b)
    BY <1>1, <1>5, <2>1 DEF ReceiveStored
  <2>3. Stored(b, a)
    BY <1>3, <2>1, StoreSet DEF enqueue_data
  <2>4. Stored(b, k)
    BY <1>3, <2>3, StoredStored
  <2> QED BY <1>5, <2>2, <2>4, WakesAfter
<1> QED BY <1>4, <1>5

LEMMA ReceivesFromSender ==
  ASSUME NEW k, Sound(k), ~NoWaiters(k), NEW m, m = ReceiveFromSender(k)
  PROVE  Serves(m, k)
<1>1. PICK a : a = Deliver(k, k.tcb[FirstWaiting(k)].data[1])
  OBVIOUS
<1>2. Stored(a, k)
  BY <1>1, SoundShape, StoreSet DEF Deliver
<1>3. m = WakeFirst(a)
  BY <1>1 DEF ReceiveFromSender
<1> QED BY <1>2, <1>3, WakesAfter

LEMMA TrcvDtqDoes ==
  ASSUME NEW k, Sound(k), NEW t, Caller(k, t), NEW tmout \in Int, NEW m, m = trcv_dtq(k, tmout)
  PROVE  Does(m, k)
<1>1. CASE k.obj.store # << >>
  BY <1>1, ReceivesStored DEF trcv_dtq, Does
<1>2. CASE k.obj.store = << >> /\ ~NoWaiters(k)
  BY <1>2, ReceivesFromSender DEF trcv_dtq, Does
<1>3. CASE k.obj.store = << >> /\ NoWaiters(k)
  BY <1>3, CallerReceives DEF trcv_dtq, Does
<1> QED BY <1>1, <1>2, <1>3

--------------------------------------------------------------------------------
LEMMA SndMbxServes ==
  ASSUME NEW k, Sound(k), NEW m, m = snd_mbx(k)
  PROVE  Serves(m, k)
<1>1. PICK a : a = [k EXCEPT !.sent = k.sent + 1]
  OBVIOUS
<1>2. Stored(a, k) /\ Sound(a) /\ Shape(a)
  BY <1>1, Counted
<1>3. CASE ~NoWaiters(a)
  <2>1. m = WakeFirst(Deliver(a, a.sent))
    BY <1>1, <1>3 DEF snd_mbx
  <2>2. Stored(Deliver(a, a.sent), a)
    BY <1>2, StoreSet DEF Deliver
  <2>3. Serves(m, a)
    BY <1>2, <1>3, <2>1, <2>2, WakesAfter
  <2> QED BY <1>2, <2>3, ServesAfter
<1>4. CASE NoWaiters(a)
  <2>1. PICK x : x = IF a.cfg.mpri THEN enqueue_msg_pri(a, a.sent) ELSE Append(a.obj.store, a.sent)
    OBVIOUS
  <2>2. m = [a EXCEPT !.obj.store = x]
    BY <1>1, <1>4, <2>1 DEF snd_mbx
  <2>3. Stored(m, k)
    BY <1>2, <2>2, StoreSet, StoredStored
  <2> QED BY <2>3, StoredServes
<1> QED BY <1>3, <1>4

LEMMA TrcvMbxDoes ==
  ASSUME NEW k, Sound(k), NEW t, Caller(k, t), NEW tmout \in Int, NEW m, m = trcv_mbx(k, tmout)
  PROVE  Does(m, k)
<1>1. CASE k.obj.store # << >>
  <2>1. m = [Deliver(k, Head(k.obj.store)) EXCEPT
               !.obj.store = Tail(Deliver(k, Head(k.obj.store)).obj.store)]
    BY <1>1 DEF trcv_mbx
  <2>2. Stored(m, k)
    BY <2>1, SoundShape, Delivered
  <2> QED BY <2>2, StoredServes DEF Does
<1>2. CASE k.obj.store = << >>
  <2>1. m = wobj_make_wait_tmout(k, NoData, tmout)
    BY <1>2 DEF trcv_mbx
  <2> QED BY <2>1, CallerWaits DEF Does
<1> QED BY <1>1, <1>2

LEMMA BlockGiven ==
  ASSUME NEW k, Shape(k), NEW t, NEW blk, NEW m, m = GiveBlock(k, t, blk)
  PROVE  Stored(m, k)
<1>1. m = [k EXCEPT !.held = [k.held EXCEPT ![t] = k.held[t] \cup {blk}]]
  BY DEF GiveBlock
<1> QED BY <1>1, StoreSet

LEMMA TgetMpfDoes ==
  ASSUME NEW k, Sound(k), NEW t, Caller(k, t), NEW tmout \in Int, NEW m, m = tget_mpf(k, tmout)
  PROVE  Does(m, k)
<1>1. CASE k.obj.store # << >>
  <2>1. PICK a : a = [k EXCEPT !.obj.store = Tail(k.obj.store)]
    OBVIOUS
  <2>2. m = GiveBlock(a, k.runtsk, Head(k.obj.store))
    BY <1>1, <2>1 DEF tget_mpf
  <2>3. Stored(a, k)
    BY <2>1, SoundShape, StoreSet
  <2>4. Shape(a)
    BY <2>3, SoundShape, StoredShape
  <2>5. Stored(m, k)
    BY <2>2, <2>3, <2>4, BlockGiven, StoredStored
  <2> QED BY <2>5, StoredServes DEF Does
<1>2. CASE k.obj.store = << >>
  <2>1. m = wobj_make_wait_tmout(k, NoData, tmout)
    BY <1>2 DEF tget_mpf
  <2> QED BY <2>1, CallerWaits DEF Does
<1> QED BY <1>1, <1>2

LEMMA RelMpfServes ==
  ASSUME NEW k, Sound(k), NEW t, NEW blk, NEW m, m = rel_mpf(k, t, blk)
  PROVE  Serves(m, k)
<1>1. PICK a : a = [k EXCEPT !.held = [k.held EXCEPT ![t] = k.held[t] \ {blk}]]
  OBVIOUS
<1>2. Stored(a, k)
  BY <1>1, SoundShape, StoreSet
<1>3. Shape(a) /\ a.obj.wait_queue = k.obj.wait_queue
  BY <1>2, SoundShape, StoredShape
<1>4. CASE NoWaiters(k)
  <2>1. m = [a EXCEPT !.obj.store = <<blk>> \o a.obj.store]
    BY <1>1, <1>4 DEF rel_mpf
  <2>2. Stored(m, k)
    BY <1>2, <1>3, <2>1, StoreSet, StoredStored
  <2> QED BY <2>2, StoredServes
<1>5. CASE ~NoWaiters(k)
  <2>1. PICK b : b = GiveBlock(a, FirstWaiting(k), blk)
    OBVIOUS
  <2>2. m = WakeFirst(b)
    BY <1>1, <1>5, <2>1 DEF rel_mpf
  <2>3. Stored(b, k)
    BY <1>2, <1>3, <2>1, BlockGiven, StoredStored
  <2> QED BY <1>5, <2>2, <2>3, WakesAfter
<1> QED BY <1>4, <1>5

--------------------------------------------------------------------------------
(* Counters of a task. *)

ActcntSet(m, k, t, v) == m = [k EXCEPT !.tcb[t].actcnt = v]
WupcntSet(m, k, t, v) == m = [k EXCEPT !.tcb[t].wupcnt = v]

\* A write that does not bear on what the task waits for.
LEMMA CountWritten ==
  ASSUME NEW k, NEW t \in Task, NEW R, NEW C, NEW S, Mid(k, t, R, C, S),
         NEW B, B \in {{"actcnt"}, {"wupcnt"}}, NEW m, TaskWrite(m, k, t, B, {}), m.ret = k.ret
  PROVE  /\ Mid(m, t, R, C, S) /\ Wrote(m, k, t, B) /\ m.ret = k.ret
         /\ m.tcb[t].tstat = k.tcb[t].tstat /\ m.tcb[t].winfo = k.tcb[t].winfo
<1>1. m.ret \in BOOLEAN /\ {} \subseteq {"ret", "sent", "delivered", "held"}
      /\ B \subseteq {"tstat", "winfo", "data", "actcnt", "wupcnt", "texnest"}
  BY MidShape
<1>2. /\ Mid(m, t, R, C, S) /\ Calm(m, k, t) /\ Nodes(m, t) = Nodes(k, t)
      /\ m.schedtsk = k.schedtsk /\ m.obj = k.obj /\ BlockKept(m.tcb[t], k.tcb[t], B)
  BY <1>1, WriteKeeps
<1>3. m.tcb[t].tstat = k.tcb[t].tstat /\ m.tcb[t].winfo = k.tcb[t].winfo
  BY <1>2 DEF BlockKept, Blocks
<1> QED BY <1>2, <1>3 DEF Wrote

LEMMA ActcntKeeps ==
  ASSUME NEW k, NEW t \in Task, NEW R, NEW C, NEW S, Mid(k, t, R, C, S),
         NEW v, NEW m, ActcntSet(m, k, t, v)
  PROVE  /\ Mid(m, t, R, C, S) /\ Wrote(m, k, t, {"actcnt"}) /\ m.ret = k.ret
         /\ m.tcb[t].tstat = k.tcb[t].tstat /\ m.tcb[t].winfo = k.tcb[t].winfo
<1>1. Shape(k) /\ k.ret \in BOOLEAN
  BY MidShape
<1>2. /\ m = [f \in Fields |-> m[f]] /\ Same(m, k, {"tcb"}) /\ m.ret = k.ret
      /\ m.tcb = [u \in Task |-> m.tcb[u]] /\ \A u \in Task \ {t} : m.tcb[u] = k.tcb[u]
  BY <1>1 DEF Shape, Fields, ActcntSet, Same
<1>3. m.tcb[t] = [k.tcb[t] EXCEPT !.actcnt = v]
  BY <1>1 DEF Shape, Fields, ActcntSet
<1>4. /\ m.tcb[t] = [f \in Blocks |-> m.tcb[t][f]]
      /\ \A f \in Blocks \ {"actcnt"} : m.tcb[t][f] = k.tcb[t][f]
  BY <1>1, <1>3 DEF Shape, Block, Blocks
<1>5. TaskWrite(m, k, t, {"actcnt"}, {})
  BY <1>2, <1>4 DEF TaskWrite
<1> QED BY <1>2, <1>5, CountWritten

LEMMA WupcntKeeps ==
  ASSUME NEW k, NEW t \in Task, NEW R, NEW C, NEW S, Mid(k, t, R, C, S),
         NEW v, NEW m, WupcntSet(m, k, t, v)
  PROVE  /\ Mid(m, t, R, C, S) /\ Wrote(m, k, t, {"wupcnt"}) /\ m.ret = k.ret
         /\ m.tcb[t].tstat = k.tcb[t].tstat /\ m.tcb[t].winfo = k.tcb[t].winfo
<1>1. Shape(k) /\ k.ret \in BOOLEAN
  BY MidShape
<1>2. /\ m = [f \in Fields |-> m[f]] /\ Same(m, k, {"tcb"}) /\ m.ret = k.ret
      /\ m.tcb = [u \in Task |-> m.tcb[u]] /\ \A u \in Task \ {t} : m.tcb[u] = k.tcb[u]
  BY <1>1 DEF Shape, Fields, WupcntSet, Same
<1>3. m.tcb[t] = [k.tcb[t] EXCEPT !.wupcnt = v]
  BY <1>1 DEF Shape, Fields, WupcntSet
<1>4. /\ m.tcb[t] = [f \in Blocks |-> m.tcb[t][f]]
      /\ \A f \in Blocks \ {"wupcnt"} : m.tcb[t][f] = k.tcb[t][f]
  BY <1>1, <1>3 DEF Shape, Block, Blocks
<1>5. TaskWrite(m, k, t, {"wupcnt"}, {})
  BY <1>2, <1>4 DEF TaskWrite
<1> QED BY <1>2, <1>5, CountWritten

\* The task's place on the queues and its time event are what they were.
LEMMA StillFits ==
  ASSUME NEW k, NEW R, NEW C, NEW S, Fits(k, R, C, S), NEW t \in Task,
         NEW m, Mid(m, t, R, C, S), Calm(m, k, t), Asks(m, k), Nodes(m, t) = Nodes(k, t),
         m.tcb[t].tstat = k.tcb[t].tstat, m.tcb[t].winfo = k.tcb[t].winfo
  PROVE  Keeps(m, k, t)
<1>1. TaskFits(k, t, R, C, S)
  BY DEF Fits
<1>2. TaskFits(m, t, R, C, S)
  BY <1>1 DEF TaskFits
<1>3. Sound(m)
  BY <1>2, MidFits
<1> QED BY <1>3 DEF Keeps, TSTAT_RUNNABLE

LEMMA CountServes ==
  ASSUME NEW k, Sound(k), NEW t \in Task, NEW v, NEW m,
         ActcntSet(m, k, t, v) \/ WupcntSet(m, k, t, v)
  PROVE  Keeps(m, k, t)
<1>1. PICK R, C, S : Fits(k, R, C, S)
  BY DEF Sound
<1>2. Mid(k, t, R, C, S)
  BY <1>1, FitsMid
<1>3. \E B : /\ Mid(m, t, R, C, S) /\ Wrote(m, k, t, B) /\ m.ret = k.ret
             /\ m.tcb[t].tstat = k.tcb[t].tstat /\ m.tcb[t].winfo = k.tcb[t].winfo
  <2>1. CASE ActcntSet(m, k, t, v)
    BY <1>2, <2>1, ActcntKeeps
  <2>2. CASE WupcntSet(m, k, t, v)
    BY <1>2, <2>2, WupcntKeeps
  <2> QED BY <2>1, <2>2
<1>4. Mid(m, t, R, C, S) /\ Calm(m, k, t) /\ Asks(m, k) /\ Nodes(m, t) = Nodes(k, t)
      /\ m.tcb[t].tstat = k.tcb[t].tstat /\ m.tcb[t].winfo = k.tcb[t].winfo
  BY <1>3 DEF Wrote, Asks
<1> QED BY <1>1, <1>4, StillFits

--------------------------------------------------------------------------------
(* task_manage.c *)

LEMMA DormantFits ==
  ASSUME NEW k, NEW R, NEW C, NEW S, Fits(k, R, C, S), NEW t \in Task,
         NEW s, s = k.tcb[t].tstat, "WAITING" \notin s, "RUNNABLE" \notin s
  PROVE  Mid(k, t, R, C, S) /\ Leaving(t, R, C, S) /\ Nodes(k, t) = {}
<1>1. TaskFits(k, t, R, C, S)
  BY DEF Fits
<1>2. Agrees(t, s, R, C, S) /\ Watched(s, k.tcb[t].winfo, Nodes(k, t)) /\ s \in Legal
  BY <1>1 DEF TaskFits, Watched
<1>3. Nodes(k, t) = {}
  BY <1>2 DEF Watched
<1>4. "WAIT_WOBJ" \notin s /\ "WAIT_WOBJCB" \notin s
  BY <1>2, LegalStates
<1> QED BY <1>2, <1>3, <1>4, FitsMid DEF Agrees, Leaving

\* A task off all queues becomes runnable.
LEMMA Activates ==
  ASSUME NEW k, NEW t, NEW R, NEW C, NEW S, Mid(k, t, R, C, S), Leaving(t, R, C, S),
         Nodes(k, t) = {}, NEW m, m = make_active(k, t)
  PROVE  Keeps(m, k, t)
<1>1. t \in Task /\ t \notin R /\ t \notin C /\ t \notin S
  BY DEF Leaving
<1>2. m = make_runnable(k, t)
  BY DEF make_active
<1>3. /\ Mid(m, t, R \cup {t}, C, S) /\ Calm(m, k, t) /\ Nodes(m, t) = Nodes(k, t)
      /\ m.tcb[t].tstat = {"RUNNABLE"} /\ Asks(m, k)
  BY <1>1, <1>2, MakesRunnable
<1>4. t \in R \cup {t} /\ Nodes(m, t) = {}
  BY <1>3
<1>5. TaskFits(m, t, R \cup {t}, C, S)
  BY <1>1, <1>3, <1>4, PlainFits
<1>6. Sound(m)
  BY <1>1, <1>3, <1>5, MidFits
<1>7. TSTAT_RUNNABLE(m, t)
  BY <1>3 DEF TSTAT_RUNNABLE
<1> QED BY <1>3, <1>6, <1>7 DEF Keeps

LEMMA ActTskServes ==
  ASSUME NEW k, Sound(k), NEW t \in Task, NEW m, m = act_tsk(k, t)
  PROVE  Keeps(m, k, t)
<1>1. PICK R, C, S : Fits(k, R, C, S)
  BY DEF Sound
<1>2. CASE TSTAT_DORMANT(k, t)
  <2>1. m = make_active(k, t)
    BY <1>2 DEF act_tsk
  <2>2. PICK s : s = k.tcb[t].tstat /\ "WAITING" \notin s /\ "RUNNABLE" \notin s
    BY <1>2 DEF TSTAT_DORMANT
  <2>3. Mid(k, t, R, C, S) /\ Leaving(t, R, C, S) /\ Nodes(k, t) = {}
    BY <1>1, <2>2, DormantFits
  <2> QED BY <2>1, <2>3, Activates
<1>3. CASE ~TSTAT_DORMANT(k, t)
  <2>1. ActcntSet(m, k, t, TRUE)
    BY <1>3 DEF act_tsk, ActcntSet
  <2> QED BY <2>1, CountServes
<1> QED BY <1>2, <1>3

\* The end of a task.
Ending(k, t, R, C, S) == Mid(k, t, R, C, S) /\ Leaving(t, R, C, S) /\ Nodes(k, t) = {}

LEMMA Terminates ==
  ASSUME NEW k, NEW t, NEW R, NEW C, NEW S, Ending(k, t, R, C, S),
         NEW m, m = Reactivate(make_dormant(k, t), t)
  PROVE  Sound(m) /\ Calm(m, k, t) /\ Asks(m, k)
<1>1. Mid(k, t, R, C, S) /\ Nodes(k, t) = {} /\ Leaving(t, R, C, S)
      /\ t \in Task /\ t \notin R /\ t \notin C /\ t \notin S
  BY DEF Ending, Leaving
<1>2. PICK d : d = make_dormant(k, t)
  OBVIOUS
<1>3. /\ Mid(d, t, R, C, S) /\ Calm(d, k, t) /\ Nodes(d, t) = Nodes(k, t)
      /\ d.tcb[t].tstat = {} /\ d.schedtsk = k.schedtsk
  BY <1>1, <1>2, MakesDormant
<1>4. Nodes(d, t) = {}
  BY <1>1, <1>3
<1>5. TaskFits(d, t, R, C, S)
  BY <1>1, <1>3, <1>4, PlainFits
<1>6. d.enadsp = k.enadsp
  BY <1>3 DEF Calm, Same, Fields
<1>7. CASE ~d.tcb[t].actcnt
  <2>1. m = d
    BY <1>2, <1>7 DEF Reactivate
  <2>2. Sound(d)
    BY <1>1, <1>3, <1>5, MidFits
  <2> QED BY <1>3, <2>1, <2>2 DEF Asks
<1>8. CASE d.tcb[t].actcnt
  <2>1. PICK a : ActcntSet(a, d, t, FALSE)
    BY DEF ActcntSet
  <2>2. m = make_active(a, t)
    BY <1>2, <1>8, <2>1 DEF Reactivate, ActcntSet
  <2>3. Mid(a, t, R, C, S) /\ Wrote(a, d, t, {"actcnt"})
    BY <1>1, <1>3, <2>1, ActcntKeeps
  <2>4. Nodes(a, t) = {} /\ Calm(a, d, t) /\ a.schedtsk = d.schedtsk
    BY <1>4, <2>3 DEF Wrote
  <2>5. Keeps(m, a, t)
    BY <1>1, <2>2, <2>3, <2>4, Activates
  <2>6. Sound(m) /\ Calm(m, a, t) /\ Asks(m, a)
    BY <2>5 DEF Keeps
  <2>7. Calm(a, k, t)
    BY <1>3, <2>4, CalmCalm
  <2>8. Calm(m, k, t)
    BY <2>6, <2>7, CalmCalm
  <2>9. a.enadsp = k.enadsp /\ a.schedtsk = k.schedtsk
    BY <1>3, <2>4, <2>7 DEF Calm, Same, Fields
  <2> QED BY <2>6, <2>8, <2>9 DEF Asks
<1> QED BY <1>7, <1>8

\* What a service of tasks does: its caller runs on, or dispatches.
Ends(m, k) ==
  \E t \in Task : /\ Sound(m) /\ Calm(m, k, t) /\ Asks(m, k)
                  /\ t = k.runtsk => TSTAT_RUNNABLE(m, t) \/ Asked(m)

LEMMA TerTskEnds ==
  ASSUME NEW k, Sound(k), NEW t \in Task, t # k.runtsk, k.enadsp => k.schedtsk # t,
         ~TSTAT_DORMANT(k, t), NEW m, m = ter_tsk(k, t)
  PROVE  Ends(m, k)
<1>1. PICK R, C, S : Fits(k, R, C, S)
  BY DEF Sound
<1>2. PICK out : out = IF TSTAT_RUNNABLE(k, t) THEN make_non_runnable(k, t)
                       ELSE IF TSTAT_WAITING(k, t) THEN wait_cancel(k, t)
                       ELSE k
  OBVIOUS
<1>3. m = Reactivate(make_dormant(out, t), t)
  BY <1>2 DEF ter_tsk
<1>4. /\ \E R1, C1, S1 : Ending(out, t, R1, C1, S1)
      /\ Calm(out, k, t) /\ (k.enadsp => out.schedtsk = k.schedtsk)
  <2>1. CASE TSTAT_RUNNABLE(k, t)
    <3>1. out = make_non_runnable(k, t)
      BY <1>2, <2>1
    <3>2. Mid(k, t, R, C, S) /\ OnlyReady(k, t, R, C, S)
      BY <1>1, <2>1, FitsMid, ReadyFits DEF Fits
    <3>3. t \in R /\ t \notin C /\ t \notin S /\ Nodes(k, t) = {}
      BY <3>2 DEF OnlyReady
    <3>4. /\ Mid(out, t, R \ {t}, C, S) /\ Calm(out, k, t) /\ Nodes(out, t) = Nodes(k, t)
          /\ (k.schedtsk # t => out.schedtsk = k.schedtsk)
      BY <3>1, <3>2, <3>3, MakesNonRunnable
    <3>5. Ending(out, t, R \ {t}, C, S)
      BY <3>3, <3>4 DEF Ending, Leaving
    <3> QED BY <3>4, <3>5
  <2>2. CASE ~TSTAT_RUNNABLE(k, t) /\ TSTAT_WAITING(k, t)
    <3>1. out = wait_cancel(k, t)
      BY <1>2, <2>2
    <3>2. /\ Left(out, t, R, C \ {t}, S \ {t}) /\ Calm(out, k, t) /\ out.schedtsk = k.schedtsk
      BY <1>1, <2>2, <3>1, Cancels
    <3>3. Ending(out, t, R, C \ {t}, S \ {t})
      BY <3>2 DEF Left, Ending
    <3> QED BY <3>2, <3>3
  <2>3. CASE ~TSTAT_RUNNABLE(k, t) /\ ~TSTAT_WAITING(k, t)
    <3>1. out = k
      BY <1>2, <2>3
    <3>2. PICK s : s = k.tcb[t].tstat /\ "WAITING" \notin s /\ "RUNNABLE" \notin s
      BY <2>3 DEF TSTAT_RUNNABLE, TSTAT_WAITING
    <3>3. Ending(k, t, R, C, S)
      BY <1>1, <3>2, DormantFits DEF Ending
    <3>4. Calm(k, k, t)
      BY DEF Calm, Same
    <3> QED BY <3>1, <3>3, <3>4
  <2> QED BY <2>1, <2>2, <2>3
<1>5. Sound(m) /\ Calm(m, out, t) /\ Asks(m, out)
  BY <1>3, <1>4, Terminates
<1>6. Calm(m, k, t)
  BY <1>4, <1>5, CalmCalm
<1>7. out.enadsp = k.enadsp
  BY <1>4 DEF Calm, Same, Fields
<1>8. Asks(m, k)
  BY <1>4, <1>5, <1>7 DEF Asks
<1> QED BY <1>5, <1>6, <1>8 DEF Ends

\* The task that runs ends.
LEMMA Exits ==
  ASSUME NEW k, Sound(k), NEW t, Caller(k, t),
         NEW m, m = Reactivate(make_dormant(make_non_runnable(k, t), t), t)
  PROVE  Sound(m) /\ Calm(m, k, t)
<1>1. PICK R, C, S : Fits(k, R, C, S)
  BY DEF Sound
<1>2. t \in Task /\ Mid(k, t, R, C, S) /\ OnlyReady(k, t, R, C, S)
  BY <1>1, CallerFacts
<1>3. t \in R /\ t \notin C /\ t \notin S /\ Nodes(k, t) = {}
  BY <1>2 DEF OnlyReady
<1>4. PICK out : out = make_non_runnable(k, t)
  OBVIOUS
<1>5. Mid(out, t, R \ {t}, C, S) /\ Calm(out, k, t) /\ Nodes(out, t) = Nodes(k, t)
  BY <1>2, <1>3, <1>4, MakesNonRunnable
<1>6. Ending(out, t, R \ {t}, C, S)
  BY <1>2, <1>3, <1>5 DEF Ending, Leaving
<1>7. Sound(m) /\ Calm(m, out, t)
  BY <1>4, <1>6, Terminates
<1> QED BY <1>5, <1>7, CalmCalm

--------------------------------------------------------------------------------
(* chg_pri *)

\* A task that is on no queue in order of priority.
LEMMA SetsPriority ==
  ASSUME NEW k, NEW t \in Task, NEW R, NEW C, NEW S, Mid(k, t, R, C, S), t \notin R,
         t \notin C \/ ~k.cfg.tpri, NEW newpri \in Priority,
         NEW m, m = [k EXCEPT !.tcb[t].priority = newpri]
  PROVE  /\ Mid(m, t, R, C, S) /\ Calm(m, k, t) /\ Nodes(m, t) = Nodes(k, t)
         /\ PriorityOnly(m, k, t, newpri) /\ m.schedtsk = k.schedtsk /\ m.cfg = k.cfg
         /\ m.obj = k.obj
<1>1. Shape(k) /\ k.ret \in BOOLEAN
  BY MidShape
<1>2. /\ m = [f \in Fields |-> m[f]] /\ Same(m, k, {"tcb", "ret"}) /\ m.ret = k.ret
      /\ m.schedtsk = k.schedtsk /\ m.cfg = k.cfg /\ m.obj = k.obj
  BY <1>1 DEF Shape, Fields, Same
<1>3. m.tcb = [k.tcb EXCEPT ![t].priority = newpri]
  BY <1>1 DEF Shape, Fields
<1>4. PriorityOnly(m, k, t, newpri)
  BY <1>1, <1>3, PrioritySet
<1>5. PICK n : n = m
  OBVIOUS
<1>6. /\ n = [f \in Fields |-> n[f]] /\ Same(n, k, {"tcb", "ret"}) /\ n.ret \in BOOLEAN
      /\ PriorityOnly(n, k, t, newpri)
  BY <1>1, <1>2, <1>4, <1>5
<1>7. /\ n.tcb = [u \in Task |-> n.tcb[u]] /\ \A u \in Task \ {t} : n.tcb[u] = k.tcb[u]
      /\ Block(n.tcb[t])
      /\ n.tcb[t].enatex /\ n.tcb[t].texptn => k.tcb[t].enatex /\ k.tcb[t].texptn
  BY <1>6 DEF PriorityOnly, Blocks
<1>8. Mid(n, t, R, C, S) /\ Calm(n, k, t) /\ Nodes(n, t) = Nodes(k, t)
  BY <1>6, <1>7, BlockChanged
<1> QED BY <1>2, <1>4, <1>5, <1>8

\* In a queue by priority it moves to the place of its new one.
LEMMA Requeues ==
  ASSUME NEW k, NEW t \in Task, NEW R, NEW C, NEW S, Mid(k, t, R, C, S), t \notin R, t \in C,
         t \notin S, k.cfg.tpri, NEW newpri \in Priority,
         NEW m, m = wobj_change_priority([k EXCEPT !.tcb[t].priority = newpri], t)
  PROVE  /\ Mid(m, t, R, C, S) /\ Calm(m, k, t) /\ Nodes(m, t) = Nodes(k, t)
         /\ m.tcb[t].tstat = k.tcb[t].tstat /\ m.tcb[t].winfo = k.tcb[t].winfo
         /\ m.schedtsk = k.schedtsk
<1>1. PICK a : a = LeaveQueues(k, t)
  OBVIOUS
<1>2. Mid(a, t, R, C \ {t}, S \ {t}) /\ QueuesKept(a, k, t)
  BY <1>1, LeavesQueues
<1>3. PICK b : b = [a EXCEPT !.tcb[t].priority = newpri]
  OBVIOUS
<1>4. /\ Mid(b, t, R, C \ {t}, S \ {t}) /\ Calm(b, a, t) /\ Nodes(b, t) = Nodes(a, t)
      /\ PriorityOnly(b, a, t, newpri) /\ b.schedtsk = a.schedtsk /\ b.cfg = a.cfg /\ b.obj = a.obj
  BY <1>2, <1>3, SetsPriority
<1>5. PICK c : c = wobj_queue_insert(b, t)
  OBVIOUS
<1>6. Mid(c, t, R, (C \ {t}) \cup {t}, S \ {t}) /\ QueuesKept(c, b, t)
  BY <1>4, <1>5, EntersQueue
<1>7. (C \ {t}) \cup {t} = C /\ S \ {t} = S
  OBVIOUS
<1>8. Shape(k) /\ Queue(k.obj.rwait_queue, S)
  BY TheQueues
<1>9. queue_delete(k.obj.rwait_queue, t) = k.obj.rwait_queue
  <2>1. k.obj.rwait_queue \in Seq(Task) /\ t \notin Elements(k.obj.rwait_queue)
    BY <1>8 DEF Queue
  <2> QED BY <2>1, NothingRemoved DEF queue_delete
<1>10. m = c
  <2>1. PICK x : x = [k EXCEPT !.tcb[t].priority = newpri]
    OBVIOUS
  <2>2. /\ x.tcb = [k.tcb EXCEPT ![t].priority = newpri] /\ x.cfg = k.cfg /\ x.obj = k.obj
        /\ x = [f \in Fields |-> x[f]] /\ Same(x, k, {"tcb"})
    BY <1>8, <2>1 DEF Shape, Fields, Same
  <2>3. m = [x EXCEPT !.obj.wait_queue = queue_insert_tpri(x, t, queue_delete(x.obj.wait_queue, t))]
    BY <2>1, <2>2 DEF wobj_change_priority
  <2>4. /\ a = [f \in Fields |-> a[f]] /\ Same(a, k, {"obj"})
        /\ a.obj = [k.obj EXCEPT !.wait_queue = queue_delete(k.obj.wait_queue, t),
                                 !.rwait_queue = queue_delete(k.obj.rwait_queue, t)]
    BY <1>1, <1>8 DEF LeaveQueues, Shape, Fields, Same
  <2>5. /\ b = [f \in Fields |-> b[f]] /\ Same(b, a, {"tcb"})
        /\ b.tcb = [a.tcb EXCEPT ![t].priority = newpri] /\ b.obj = a.obj
    BY <1>3, <2>4 DEF Fields, Same
  <2>6. b.cfg.tpri /\ a.tcb = k.tcb
    BY <2>4, <2>5 DEF Fields, Same
  <2>7. c = [b EXCEPT !.obj.wait_queue = queue_insert_tpri(b, t, b.obj.wait_queue)]
    BY <1>5, <2>6 DEF wobj_queue_insert
  <2>8. b.tcb = x.tcb
    BY <2>2, <2>5, <2>6
  <2>9. k.obj = [f \in Queued |-> k.obj[f]]
    BY <1>8 DEF Shape
  <2>10. b.obj = [k.obj EXCEPT !.wait_queue = queue_delete(k.obj.wait_queue, t)]
    <3>1. PICK o, d, r : /\ o = k.obj /\ d = queue_delete(k.obj.wait_queue, t)
                         /\ r = queue_delete(k.obj.rwait_queue, t)
      OBVIOUS
    <3>2. o = [f \in Queued |-> o[f]] /\ o.rwait_queue = r
      BY <1>9, <2>9, <3>1
    <3>3. [o EXCEPT !.wait_queue = d, !.rwait_queue = r] = [o EXCEPT !.wait_queue = d]
      BY <3>2 DEF Queued
    <3> QED BY <2>4, <2>5, <3>1, <3>3
  <2>11. b.obj.wait_queue = queue_delete(k.obj.wait_queue, t)
    BY <2>9, <2>10 DEF Queued
  <2>12. queue_insert_tpri(b, t, b.obj.wait_queue) =
           queue_insert_tpri(x, t, queue_delete(x.obj.wait_queue, t))
    BY <2>2, <2>8, <2>11 DEF queue_insert_tpri
  <2>13. PICK q : q = queue_insert_tpri(b, t, b.obj.wait_queue)
    OBVIOUS
  <2>14. m = [x EXCEPT !.obj.wait_queue = q] /\ c = [b EXCEPT !.obj.wait_queue = q]
    BY <2>3, <2>7, <2>12, <2>13
  <2>15. m.obj = [k.obj EXCEPT !.wait_queue = q] /\ c.obj = [k.obj EXCEPT !.wait_queue = q]
    <3>1. PICK o, d : o = k.obj /\ d = queue_delete(k.obj.wait_queue, t)
      OBVIOUS
    <3>2. [[o EXCEPT !.wait_queue = d] EXCEPT !.wait_queue = q] = [o EXCEPT !.wait_queue = q]
      BY <2>9, <3>1 DEF Queued
    <3>3. m.obj = [x.obj EXCEPT !.wait_queue = q] /\ c.obj = [b.obj EXCEPT !.wait_queue = q]
      BY <2>2, <2>5, <2>14 DEF Fields
    <3> QED BY <2>2, <2>10, <3>1, <3>2, <3>3
  <2>16. /\ m = [f \in Fields |-> m[f]] /\ Same(m, x, {"obj"})
         /\ c = [f \in Fields |-> c[f]] /\ Same(c, b, {"obj"})
    <3>1. m = [x EXCEPT !.obj.wait_queue = q] /\ x = [f \in Fields |-> x[f]]
      BY <2>2, <2>5, <2>14
    <3>2. c = [b EXCEPT !.obj.wait_queue = q] /\ b = [f \in Fields |-> b[f]]
      BY <2>2, <2>5, <2>14
    <3>3. m = [f \in Fields |-> m[f]] /\ Same(m, x, {"obj"})
      BY <3>1 DEF Fields, Same
    <3>4. c = [f \in Fields |-> c[f]] /\ Same(c, b, {"obj"})
      BY <3>2 DEF Fields, Same
    <3> QED BY <3>3, <3>4
  <2>17. m.tcb = c.tcb
    BY <2>8, <2>16 DEF Fields, Same
  <2>18. \A f \in Fields : m[f] = c[f]
    <3>1. SUFFICES ASSUME NEW f \in Fields \ {"tcb", "obj"} PROVE m[f] = c[f]
      BY <2>15, <2>17
    <3>2. m[f] = x[f] /\ x[f] = k[f] /\ c[f] = b[f] /\ b[f] = a[f] /\ a[f] = k[f]
      BY <2>2, <2>4, <2>5, <2>16 DEF Same
    <3> QED BY <3>2
  <2> QED BY <2>16, <2>18
<1>11. Mid(m, t, R, C, S)
  BY <1>6, <1>7, <1>10
<1>12. Calm(a, k, t) /\ Calm(c, b, t) /\ Nodes(m, t) = Nodes(k, t) /\ m.schedtsk = k.schedtsk
       /\ a.tcb = k.tcb /\ m.tcb = b.tcb
  BY <1>2, <1>4, <1>6, <1>10 DEF QueuesKept
<1>13. Calm(b, k, t)
  BY <1>4, <1>12, CalmCalm
<1>14. Calm(m, k, t)
  BY <1>10, <1>12, <1>13, CalmCalm
<1>15. m.tcb[t].tstat = k.tcb[t].tstat /\ m.tcb[t].winfo = k.tcb[t].winfo
  BY <1>4, <1>12 DEF PriorityOnly, Blocks
<1> QED BY <1>11, <1>12, <1>14, <1>15

LEMMA ChgPriServes ==
  ASSUME NEW k, Sound(k), NEW t \in Task, NEW newpri \in Priority,
         NEW m, m = chg_pri(k, t, newpri)
  PROVE  Keeps(m, k, t)
<1>1. PICK R, C, S : Fits(k, R, C, S)
  BY DEF Sound
<1>2. Mid(k, t, R, C, S) /\ TaskFits(k, t, R, C, S)
  BY <1>1, FitsMid DEF Fits
<1>3. Agrees(t, k.tcb[t].tstat, R, C, S) /\ k.tcb[t].tstat \in Legal
  BY <1>2 DEF TaskFits, Watched
<1>4. CASE TSTAT_RUNNABLE(k, t)
  <2>1. m = change_priority(k, t, newpri)
    BY <1>4 DEF chg_pri
  <2>2. OnlyReady(k, t, R, C, S)
    BY <1>2, <1>4, ReadyFits
  <2>3. t \in R /\ t \notin C
    BY <2>2 DEF OnlyReady
  <2>4. /\ Mid(m, t, R, C, S) /\ Calm(m, k, t) /\ Nodes(m, t) = Nodes(k, t) /\ Asks(m, k)
        /\ m.tcb[t].tstat = k.tcb[t].tstat /\ m.tcb[t].winfo = k.tcb[t].winfo
    BY <1>2, <2>1, <2>3, ChangesPriority
  <2> QED BY <1>1, <2>4, StillFits
<1>5. CASE ~TSTAT_RUNNABLE(k, t) /\ "WAIT_WOBJCB" \in k.tcb[t].tstat /\ k.cfg.tpri
  <2>1. m = wobj_change_priority([k EXCEPT !.tcb[t].priority = newpri], t)
    BY <1>5 DEF chg_pri
  <2>2. t \notin R /\ t \in C /\ t \notin S
    BY <1>3, <1>5 DEF Agrees, TSTAT_RUNNABLE
  <2>3. /\ Mid(m, t, R, C, S) /\ Calm(m, k, t) /\ Nodes(m, t) = Nodes(k, t)
        /\ m.tcb[t].tstat = k.tcb[t].tstat /\ m.tcb[t].winfo = k.tcb[t].winfo
        /\ m.schedtsk = k.schedtsk
    BY <1>2, <1>5, <2>1, <2>2, Requeues
  <2>4. Asks(m, k)
    BY <2>3 DEF Asks
  <2> QED BY <1>1, <2>3, <2>4, StillFits
<1>6. CASE ~TSTAT_RUNNABLE(k, t) /\ ~("WAIT_WOBJCB" \in k.tcb[t].tstat /\ k.cfg.tpri)
  <2>1. PICK a : a = [k EXCEPT !.tcb[t].priority = newpri]
    OBVIOUS
  <2>2. t \notin R /\ (t \notin C \/ ~k.cfg.tpri)
    BY <1>3, <1>6 DEF Agrees, TSTAT_RUNNABLE
  <2>3. /\ Mid(a, t, R, C, S) /\ Calm(a, k, t) /\ Nodes(a, t) = Nodes(k, t)
        /\ PriorityOnly(a, k, t, newpri) /\ a.schedtsk = k.schedtsk /\ a.cfg = k.cfg
    BY <1>2, <2>1, <2>2, SetsPriority
  <2>4. m = a
    BY <1>6, <2>1, <2>3 DEF chg_pri, wobj_change_priority
  <2>5. /\ m.tcb[t].tstat = k.tcb[t].tstat /\ m.tcb[t].winfo = k.tcb[t].winfo /\ Asks(m, k)
    BY <2>3, <2>4 DEF PriorityOnly, Blocks, Asks
  <2> QED BY <1>1, <2>3, <2>4, <2>5, StillFits
<1> QED BY <1>4, <1>5, <1>6

--------------------------------------------------------------------------------
(* task_sync.c *)

LEMMA TslpTskDoes ==
  ASSUME NEW k, Sound(k), NEW t, Caller(k, t), NEW tmout \in Int, NEW m, m = tslp_tsk(k, tmout)
  PROVE  Does(m, k)
<1>1. t = k.runtsk /\ t \in Task
  BY DEF Caller
<1>2. CASE k.tcb[t].wupcnt
  <2>1. WupcntSet(m, k, t, FALSE)
    BY <1>1, <1>2 DEF tslp_tsk, WupcntSet
  <2>2. Keeps(m, k, t)
    BY <1>1, <2>1, CountServes
  <2> QED BY <1>1, <2>2 DEF Does, Serves
<1>3. CASE ~k.tcb[t].wupcnt
  <2>1. m = make_wait_tmout(k, {"WAIT_SLEEP"}, NoData, tmout)
    BY <1>1, <1>3 DEF tslp_tsk
  <2>2. PICK data : data = NoData
    OBVIOUS
  <2>3. m = make_wait_tmout(k, {"WAIT_SLEEP"}, data, tmout)
    BY <2>1, <2>2
  <2> QED BY <2>3, CallerSleeps DEF Does
<1> QED BY <1>2, <1>3

LEMMA WupTskServes ==
  ASSUME NEW k, Sound(k), NEW t \in Task, NEW m, m = wup_tsk(k, t)
  PROVE  Keeps(m, k, t)
<1>1. PICK R, C, S : Fits(k, R, C, S)
  BY DEF Sound
<1>2. CASE "WAIT_SLEEP" \in k.tcb[t].tstat
  <2>1. m = wait_complete(k, t)
    BY <1>2 DEF wup_tsk
  <2>2. TaskFits(k, t, R, C, S)
    BY <1>1 DEF Fits
  <2>3. Agrees(t, k.tcb[t].tstat, R, C, S) /\ k.tcb[t].tstat \in Legal
    BY <2>2 DEF TaskFits, Watched
  <2>4. TSTAT_WAITING(k, t) /\ "WAIT_WOBJ" \notin k.tcb[t].tstat
        /\ "WAIT_WOBJCB" \notin k.tcb[t].tstat
    BY <1>2, <2>3, LegalStates DEF TSTAT_WAITING
  <2>5. /\ Mid(k, t, R, C, S) /\ Waiter(k, t) /\ t \notin R
        /\ Watched(k.tcb[t].tstat, k.tcb[t].winfo, Nodes(k, t))
    BY <1>1, <2>4, WaitingFits
  <2>6. t \notin C /\ t \notin S
    BY <2>3, <2>4 DEF Agrees
  <2>7. OnClock(k, t, R, C, S)
    BY <2>5, <2>6 DEF OnClock, Leaving
  <2> QED BY <2>1, <2>7, Completes
<1>3. CASE "WAIT_SLEEP" \notin k.tcb[t].tstat
  <2>1. WupcntSet(m, k, t, TRUE)
    BY <1>3 DEF wup_tsk, WupcntSet
  <2> QED BY <2>1, CountServes
<1> QED BY <1>2, <1>3

LEMMA CanCountServes ==
  ASSUME NEW k, Sound(k), NEW t \in Task, NEW m, m = can_act(k, t) \/ m = can_wup(k, t)
  PROVE  Keeps(m, k, t)
<1>1. ActcntSet(m, k, t, FALSE) \/ WupcntSet(m, k, t, FALSE)
  BY DEF can_act, can_wup, ActcntSet, WupcntSet
<1> QED BY <1>1, CountServes

\* A waiting task is suspended or resumed: it waits on.
LEMMA WaitsOn ==
  ASSUME NEW k, NEW R, NEW C, NEW S, Fits(k, R, C, S), NEW t \in Task, TSTAT_WAITING(k, t),
         NEW s, s \in {k.tcb[t].tstat \cup {"SUSPENDED"}, k.tcb[t].tstat \ {"SUSPENDED"}},
         NEW m, TstatSet(m, k, t, s)
  PROVE  Keeps(m, k, t)
<1>1. /\ Mid(k, t, R, C, S) /\ Waiter(k, t) /\ Agrees(t, k.tcb[t].tstat, R, C, S)
      /\ Watched(k.tcb[t].tstat, k.tcb[t].winfo, Nodes(k, t))
  BY WaitingFits
<1>2. PICK b : b = k.tcb[t].tstat
  OBVIOUS
<1>3. b \in Legal /\ "WAITING" \in b
  BY <1>1, <1>2 DEF Waiter
<1>4. s \in Legal /\ (\A bit \in {"WAITING", "RUNNABLE", "WAIT_WOBJ", "WAIT_WOBJCB"} :
        bit \in s <=> bit \in b)
  <2>1. s = b \cup {"SUSPENDED"} \/ s = b \ {"SUSPENDED"}
    BY <1>2
  <2>2. \E bits \in Waitings : b = {"WAITING"} \cup bits \/ b = {"WAITING", "SUSPENDED"} \cup bits
    BY <1>3 DEF Legal
  <2>3. PICK bits \in Waitings : b = {"WAITING"} \cup bits \/ b = {"WAITING", "SUSPENDED"} \cup bits
    BY <2>2
  <2>4. "SUSPENDED" \notin bits
    BY DEF Waitings
  <2>5. b \cup {"SUSPENDED"} = {"WAITING", "SUSPENDED"} \cup bits
          /\ b \ {"SUSPENDED"} = {"WAITING"} \cup bits
    BY <2>3, <2>4
  <2>6. s \in Legal
    BY <2>1, <2>5 DEF Legal
  <2> QED BY <2>1, <2>6
<1>5. /\ Mid(m, t, R, C, S) /\ Wrote(m, k, t, {"tstat"}) /\ m.tcb[t].tstat = s
  BY <1>1, TstatKeeps
<1>6. /\ Calm(m, k, t) /\ Asks(m, k) /\ Nodes(m, t) = Nodes(k, t) /\ m.tcb[t].winfo = k.tcb[t].winfo
  BY <1>5 DEF Wrote, Asks, BlockKept, Blocks
<1>7. Agrees(t, s, R, C, S)
  BY <1>1, <1>2, <1>4 DEF Agrees
<1>8. Watched(s, m.tcb[t].winfo, Nodes(m, t))
  BY <1>1, <1>2, <1>4, <1>6 DEF Watched
<1>9. TaskFits(m, t, R, C, S)
  BY <1>5, <1>7, <1>8 DEF TaskFits
<1>10. Sound(m)
  BY <1>5, <1>9, MidFits
<1>11. ~TSTAT_RUNNABLE(k, t)
  BY <1>1, WaiterFacts
<1> QED BY <1>6, <1>10, <1>11 DEF Keeps

LEMMA SusTskEnds ==
  ASSUME NEW k, Sound(k), NEW t \in Task, ~TSTAT_DORMANT(k, t), ~TSTAT_SUSPENDED(k, t),
         t = k.runtsk => k.enadsp /\ k.schedtsk = t, NEW m, m = sus_tsk(k, t)
  PROVE  Ends(m, k)
<1>1. PICK R, C, S : Fits(k, R, C, S)
  BY DEF Sound
<1>2. Mid(k, t, R, C, S) /\ TaskFits(k, t, R, C, S)
  BY <1>1, FitsMid DEF Fits
<1>3. CASE TSTAT_RUNNABLE(k, t)
  <2>1. OnlyReady(k, t, R, C, S)
    BY <1>2, <1>3, ReadyFits
  <2>2. t \in R /\ t \notin C /\ t \notin S /\ Nodes(k, t) = {}
    BY <2>1 DEF OnlyReady
  <2>3. PICK s : s = {"SUSPENDED"}
    OBVIOUS
  <2>4. PICK a : TstatSet(a, k, t, s)
    BY DEF TstatSet
  <2>5. m = make_non_runnable(a, t)
    BY <1>3, <2>3, <2>4 DEF TstatSet, sus_tsk
  <2>6. Mid(a, t, R, C, S) /\ Wrote(a, k, t, {"tstat"}) /\ a.tcb[t].tstat = s
    BY <1>2, <2>4, TstatKeeps
  <2>7. /\ Mid(m, t, R \ {t}, C, S) /\ Calm(m, a, t) /\ m.tcb = a.tcb
        /\ Nodes(m, t) = Nodes(a, t) /\ Asks(m, a)
    BY <2>2, <2>5, <2>6, MakesNonRunnable
  <2>8. Calm(a, k, t) /\ Nodes(m, t) = {} /\ m.tcb[t].tstat = {"SUSPENDED"}
        /\ a.schedtsk = k.schedtsk
    BY <2>2, <2>3, <2>6, <2>7 DEF Wrote
  <2>9. TaskFits(m, t, R \ {t}, C, S)
    BY <2>2, <2>8, PlainFits
  <2>10. Sound(m) /\ Sched(m, R \ {t})
    BY <2>7, <2>9, MidFits DEF Mid, Base
  <2>11. Calm(m, k, t) /\ a.enadsp = k.enadsp
    BY <2>7, <2>8, CalmCalm DEF Calm, Same, Fields
  <2>12. Asks(m, k)
    BY <2>7, <2>8, <2>11 DEF Asks
  <2>13. ASSUME t = k.runtsk PROVE Asked(m)
    <3>1. m.schedtsk # t
      BY <2>10, ScheduledTask, PriorityCount
    <3>2. m.ret
      BY <2>12, <2>13, <3>1 DEF Asks
    <3>3. m.ret \in BOOLEAN
      BY <2>7, MidShape
    <3> QED BY <3>2, <3>3 DEF Asked
  <2> QED BY <2>10, <2>11, <2>12, <2>13 DEF Ends
<1>4. CASE ~TSTAT_RUNNABLE(k, t)
  <2>1. PICK s : s = k.tcb[t].tstat \cup {"SUSPENDED"}
    OBVIOUS
  <2>2. TstatSet(m, k, t, s)
    BY <1>4, <2>1 DEF TstatSet, sus_tsk
  <2>3. TSTAT_WAITING(k, t)
    BY <1>2, <1>4, LegalStates
       DEF TaskFits, Watched, TSTAT_DORMANT, TSTAT_SUSPENDED, TSTAT_RUNNABLE, TSTAT_WAITING
  <2>4. Keeps(m, k, t)
    BY <1>1, <2>1, <2>2, <2>3, WaitsOn
  <2>5. t # k.runtsk
    <3>1. SUFFICES ASSUME t = k.runtsk PROVE FALSE
      OBVIOUS
    <3>2. k.schedtsk = t
      BY <3>1
    <3>3. t \in R
      <4>1. Sched(k, R)
        BY <1>2 DEF Mid, Base
      <4> QED BY <3>2, <4>1, ScheduledTask, PriorityCount
    <3> QED BY <1>2, <1>4, <3>3 DEF TaskFits, Agrees, TSTAT_RUNNABLE
  <2> QED BY <2>4, <2>5 DEF Keeps, Ends
<1> QED BY <1>3, <1>4

LEMMA RsmTskServes ==
  ASSUME NEW k, Sound(k), NEW t \in Task, TSTAT_SUSPENDED(k, t), NEW m, m = rsm_tsk(k, t)
  PROVE  Keeps(m, k, t)
<1>1. PICK R, C, S : Fits(k, R, C, S)
  BY DEF Sound
<1>2. CASE TSTAT_WAITING(k, t)
  <2>1. PICK s : s = k.tcb[t].tstat \ {"SUSPENDED"}
    OBVIOUS
  <2>2. TstatSet(m, k, t, s)
    BY <1>2, <2>1 DEF TstatSet, rsm_tsk
  <2> QED BY <1>1, <1>2, <2>1, <2>2, WaitsOn
<1>3. CASE ~TSTAT_WAITING(k, t)
  <2>1. m = make_active(k, t)
    BY <1>3 DEF rsm_tsk, make_active
  <2>2. k.tcb[t].tstat \in Legal
    BY <1>1 DEF Fits, TaskFits, Watched
  <2>3. PICK s : s = k.tcb[t].tstat
    OBVIOUS
  <2>4. "WAITING" \notin s /\ "SUSPENDED" \in s /\ s \in Legal
    BY <1>3, <2>2, <2>3 DEF TSTAT_WAITING, TSTAT_SUSPENDED
  <2>5. "RUNNABLE" \notin s
    BY <2>4, LegalStates
  <2>6. Mid(k, t, R, C, S) /\ Leaving(t, R, C, S) /\ Nodes(k, t) = {}
    BY <1>1, <2>3, <2>4, <2>5, DormantFits
  <2> QED BY <2>1, <2>6, Activates
<1> QED BY <1>2, <1>3

LEMMA RotRdqServes ==
  ASSUME NEW k, Sound(k), NEW pri \in Priority, NEW m, m = rot_rdq(k, pri)
  PROVE  Serves(m, k)
<1>1. PICK R, C, S : Fits(k, R, C, S)
  BY DEF Sound
<1>2. PICK t \in Task : TRUE
  BY SomeTask
<1>3. Mid(k, t, R, C, S)
  BY <1>1, FitsMid
<1>4. m = rotate_ready_queue(k, pri)
  BY DEF rot_rdq
<1>5. /\ Mid(m, t, R, C, S) /\ Calm(m, k, t) /\ Nodes(m, t) = Nodes(k, t) /\ Asks(m, k)
      /\ m.tcb = k.tcb
  BY <1>3, <1>4, Rotates
<1>6. Keeps(m, k, t)
  BY <1>1, <1>5, StillFits
<1> QED BY <1>6 DEF Serves

================================================================================
