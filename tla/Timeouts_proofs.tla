--------------------------- MODULE Timeouts_proofs ---------------------------
(***************************************************************************)
(* Proofs about Timeouts: its types and the flag of the TCP timer, that no *)
(* timer is early, and that the list of differences implements TimerQueue. *)
(*                                                                         *)
(* The order in which timers expire is a statement about sums of           *)
(* differences, so the first part is induction: every nonempty set of      *)
(* natural numbers has a least element (LeastElement), and what is claimed *)
(* of sums has no least counterexample.  Then what sys_timeout,            *)
(* sys_untimeout, a message and an expiry do to the sums, the inductive    *)
(* invariant, and the refinement.                                          *)
(***************************************************************************)
EXTENDS Timeouts, FiniteSetTheorems, SequenceTheorems, WellFoundedInduction, TLAPS

Less == {ss \in Nat \X Nat : ss[1] < ss[2]}

\* Induction over the numbers: a set of counterexamples has a least one.
LEMMA LeastElement ==
  ASSUME NEW T, T \subseteq Nat, T # {}
  PROVE  \E m \in T : \A k \in T : m <= k
<1>1. IsWellFoundedOn(Less, Nat)
  BY NatLessThanWellFounded DEF OpToRel, Less
<1>2. PICK x \in T : \A y \in T : ~ (<<y, x>> \in Less)
  BY <1>1, WFMin
<1>3. ASSUME NEW y \in T PROVE x <= y
  <2>1. x \in Nat /\ y \in Nat
    OBVIOUS
  <2>2. ~ (y < x)
    BY <1>2, <2>1 DEF Less
  <2> QED
    BY <2>1, <2>2
<1> QED
  BY <1>3

-----------------------------------------------------------------------------
(* Sums of differences.                                                    *)

\* f is the function that the definition of Sum(l, n) names.
IsSum(f, l, n) == f = [i \in 0..n |-> IF i = 0 THEN 0 ELSE f[i - 1] + l[i].time]
TheSum(l, n) == CHOOSE f : IsSum(f, l, n)

\* Sum is the value of the function that its definition chooses.
LEMMA SumIs == ASSUME NEW l, NEW n \in Nat PROVE Sum(l, n) = TheSum(l, n)[n]
BY DEF Sum, TheSum, IsSum

\* There is a function that satisfies the recursion of Sum.
LEMMA SumExists == ASSUME NEW l, NEW n \in Nat PROVE \E f : IsSum(f, l, n)
<1> DEFINE T == {k \in Nat : ~ \E f : IsSum(f, l, k)}
<1>1. SUFFICES ASSUME T # {} PROVE FALSE
  OBVIOUS
<1>2. PICK m \in T : \A k \in T : m <= k
  BY <1>1, LeastElement
<1>3. IsSum([i \in 0..0 |-> 0], l, 0)
  BY DEF IsSum
<1>4. m \in Nat /\ m # 0
  BY <1>3
<1>5. PICK f : IsSum(f, l, m - 1)
  BY <1>2, <1>4
<1> DEFINE g == [i \in 0..m |-> IF i = m THEN f[m - 1] + l[m].time ELSE f[i]]
<1>6. ASSUME NEW i \in 0..m PROVE g[i] = IF i = 0 THEN 0 ELSE g[i - 1] + l[i].time
  <2>1. CASE i = 0
    BY <1>4, <1>5, <2>1 DEF IsSum
  <2>2. CASE i = m
    BY <1>4, <2>2
  <2>3. CASE i # 0 /\ i # m
    <3>1. i \in 0..(m - 1) /\ i - 1 \in 0..m /\ i - 1 # m
      BY <1>4, <2>3
    <3>2. f[i] = f[i - 1] + l[i].time
      BY <1>5, <2>3, <3>1 DEF IsSum
    <3> QED
      BY <2>3, <3>1, <3>2
  <2> QED
    BY <2>1, <2>2, <2>3
<1>7. IsSum(g, l, m)
  BY <1>6 DEF IsSum
<1> QED
  BY <1>2, <1>7

\* Two such functions agree where both are defined.
LEMMA SumUnique ==
  ASSUME NEW l, NEW n \in Nat, NEW k \in Nat, NEW f, NEW g, IsSum(f, l, n), IsSum(g, l, k),
         NEW i \in Nat, i <= n, i <= k
  PROVE  f[i] = g[i]
<1> DEFINE T == {j \in Nat : j <= n /\ j <= k /\ f[j] # g[j]}
<1>1. SUFFICES ASSUME T # {} PROVE FALSE
  OBVIOUS
<1>2. PICK m \in T : \A j \in T : m <= j
  BY <1>1, LeastElement
<1>3. m # 0
  BY <1>2 DEF IsSum
<1>4. f[m - 1] = g[m - 1]
  BY <1>2, <1>3
<1>5. f[m] = f[m - 1] + l[m].time /\ g[m] = g[m - 1] + l[m].time
  BY <1>2, <1>3 DEF IsSum
<1>6. f[m] # g[m]
  BY <1>2
<1> QED
  BY <1>4, <1>5, <1>6

\* The recursion that Sum stands for.
LEMMA SumStep ==
  ASSUME NEW l, NEW n \in Nat
  PROVE  Sum(l, n) = IF n = 0 THEN 0 ELSE Sum(l, n - 1) + l[n].time
<1>1. IsSum(TheSum(l, n), l, n)
  BY SumExists DEF TheSum
<1>2. CASE n = 0
  BY <1>1, <1>2, SumIs DEF IsSum
<1>3. CASE n # 0
  <2> DEFINE k == n - 1
  <2>0. k \in Nat
    BY <1>3
  <2> HIDE DEF k
  <2>1. IsSum(TheSum(l, k), l, k)
    BY <2>0, SumExists DEF TheSum
  <2>2. TheSum(l, n)[k] = TheSum(l, k)[k]
    BY <1>1, <1>3, <2>0, <2>1, SumUnique DEF k
  <2>3. TheSum(l, n)[n] = TheSum(l, n)[n - 1] + l[n].time
    BY <1>1, <1>3 DEF IsSum
  <2>4. Sum(l, n) = TheSum(l, n)[n] /\ Sum(l, k) = TheSum(l, k)[k]
    BY <2>0, SumIs
  <2> QED
    BY <1>3, <2>2, <2>3, <2>4 DEF k
<1> QED
  BY <1>2, <1>3

\* The first n differences are natural numbers.
Timed(l, n) == \A i \in 1..n : l[i].time \in Nat

\* A sum of natural numbers is one.
LEMMA SumNat == ASSUME NEW l, NEW n \in Nat, Timed(l, n) PROVE Sum(l, n) \in Nat
<1> DEFINE T == {j \in Nat : j <= n /\ Sum(l, j) \notin Nat}
<1>1. SUFFICES ASSUME T # {} PROVE FALSE
  OBVIOUS
<1>2. PICK m \in T : \A j \in T : m <= j
  BY <1>1, LeastElement
<1>3. m \in Nat /\ m <= n /\ Sum(l, m) \notin Nat
  BY <1>2
<1>4. m # 0
  BY <1>3, SumStep
<1>5. m - 1 \in Nat /\ m - 1 \notin T
  BY <1>2, <1>3, <1>4
<1>6. Sum(l, m - 1) \in Nat
  BY <1>3, <1>5
<1> QED
  BY <1>3, <1>4, <1>6, SumStep DEF Timed

\* Later timers are due no earlier.
LEMMA SumMono ==
  ASSUME NEW l, NEW n \in Nat, Timed(l, n), NEW i \in 0..n, NEW j \in i..n
  PROVE  Sum(l, i) <= Sum(l, j)
<1> DEFINE T == {k \in Nat : i <= k /\ k <= n /\ ~ (Sum(l, i) <= Sum(l, k))}
<1>1. SUFFICES ASSUME T # {} PROVE FALSE
  OBVIOUS
<1>2. PICK m \in T : \A k \in T : m <= k
  BY <1>1, LeastElement
<1>3. m \in Nat /\ i <= m /\ m <= n /\ ~ (Sum(l, i) <= Sum(l, m))
  BY <1>2
<1>4. Sum(l, i) \in Nat /\ Sum(l, m) \in Nat
  BY <1>3, SumNat DEF Timed
<1>5. m # i
  BY <1>3, <1>4
<1>6. m - 1 \in Nat /\ m - 1 \notin T
  BY <1>2, <1>3, <1>5
<1>7. Sum(l, i) <= Sum(l, m - 1) /\ Sum(l, m - 1) \in Nat
  BY <1>3, <1>5, <1>6, SumNat DEF Timed
<1>8. Sum(l, m) = Sum(l, m - 1) + l[m].time
  BY <1>3, <1>5, SumStep
<1>9. l[m].time \in Nat
  BY <1>3, <1>5 DEF Timed
<1> QED
  BY <1>3, <1>4, <1>7, <1>8, <1>9

\* Two lists with the same differences from m on, a places apart.
LEMMA SumShift ==
  ASSUME NEW l, NEW k, NEW m \in Nat, NEW n \in Nat, m <= n, Timed(l, n),
         NEW a \in Int, m + a \in Nat, NEW d \in Int, Sum(k, m + a) = Sum(l, m) + d,
         \A i \in (m + 1)..n : k[i + a].time = l[i].time
  PROVE  Sum(k, n + a) = Sum(l, n) + d
<1> DEFINE T == {j \in Nat : m <= j /\ j <= n /\ Sum(k, j + a) # Sum(l, j) + d}
<1>1. SUFFICES ASSUME T # {} PROVE FALSE
  OBVIOUS
<1>2. PICK j \in T : \A i \in T : j <= i
  BY <1>1, LeastElement
<1>3. j \in Nat /\ m <= j /\ j <= n /\ Sum(k, j + a) # Sum(l, j) + d
  BY <1>2
<1>4. j # m
  BY <1>3
<1>5. j - 1 \in Nat /\ j - 1 \notin T
  BY <1>2, <1>3, <1>4
<1>6. Sum(k, (j - 1) + a) = Sum(l, j - 1) + d
  BY <1>3, <1>4, <1>5
<1>7. Sum(l, j) = Sum(l, j - 1) + l[j].time
  BY <1>3, <1>4, SumStep
<1>8. Sum(k, j + a) = Sum(k, (j + a) - 1) + k[j + a].time
  <2>1. j + a \in Nat /\ j + a # 0
    BY <1>3, <1>4
  <2> QED
    BY <2>1, SumStep
<1>9. (j + a) - 1 = (j - 1) + a
  BY <1>3
<1>10. k[j + a].time = l[j].time
  BY <1>3, <1>4
<1>11. Sum(l, j - 1) \in Nat /\ l[j].time \in Nat
  BY <1>3, <1>4, <1>5, SumNat DEF Timed
<1> QED
  BY <1>3, <1>6, <1>7, <1>8, <1>9, <1>10, <1>11

\* The same one place back.
LEMMA SumBack ==
  ASSUME NEW l, NEW k, NEW m \in Nat, m # 0, NEW n \in Nat, m <= n, Timed(l, n),
         Sum(k, m - 1) = Sum(l, m), \A i \in (m + 1)..n : k[i - 1].time = l[i].time
  PROVE  Sum(k, n - 1) = Sum(l, n)
<1>1. PICK a \in Int : a = -1
  OBVIOUS
<1>2. PICK z \in Int : z = 0
  OBVIOUS
<1>3. m + a \in Nat /\ m + a = m - 1 /\ n + a = n - 1
  BY <1>1
<1>4. Sum(l, m) \in Nat /\ Sum(l, n) \in Nat
  BY SumNat DEF Timed
<1>5. Sum(k, m + a) = Sum(l, m) + z
  BY <1>2, <1>3, <1>4
<1>6. \A i \in (m + 1)..n : k[i + a].time = l[i].time
  BY <1>1
<1>7. Sum(k, n + a) = Sum(l, n) + z
  BY <1>3, <1>5, <1>6, SumShift
<1> QED
  BY <1>2, <1>3, <1>4, <1>7

\* Two lists with the same first n differences.
LEMMA SumSame ==
  ASSUME NEW l, NEW k, NEW n \in Nat, Timed(l, n), \A i \in 1..n : k[i].time = l[i].time
  PROVE  Sum(k, n) = Sum(l, n)
<1>1. Sum(k, 0 + 0) = Sum(l, 0) + 0
  BY SumStep
<1>2. Sum(k, n + 0) = Sum(l, n) + 0
  BY <1>1, SumShift
<1> QED
  BY <1>2, SumNat

\* Two lists that differ in the first difference only.
LEMMA SumFirst ==
  ASSUME NEW l, NEW k, NEW n \in Nat, 1 <= n, Timed(l, n), NEW d \in Int,
         Sum(k, 1) = Sum(l, 1) + d, \A i \in 2..n : k[i].time = l[i].time
  PROVE  Sum(k, n) = Sum(l, n) + d
<1>1. PICK a \in Int : a = 0
  OBVIOUS
<1>2. PICK m \in Nat : m = 1
  OBVIOUS
<1>3. m <= n /\ m + a \in Nat /\ Sum(k, m + a) = Sum(l, m) + d
  BY <1>1, <1>2
<1>4. \A i \in (m + 1)..n : k[i + a].time = l[i].time
  BY <1>1, <1>2
<1>5. Sum(k, n + a) = Sum(l, n) + d
  BY <1>3, <1>4, SumShift
<1> QED
  BY <1>1, <1>5

-----------------------------------------------------------------------------
(* The two operations on sequences.                                        *)

\* What InsertAt makes of a sequence.
LEMMA InsertAtIs ==
  ASSUME NEW S, NEW s \in Seq(S), NEW e \in S, NEW i \in 1..(Len(s) + 1)
  PROVE  /\ InsertAt(s, i, e) \in Seq(S)
         /\ Len(InsertAt(s, i, e)) = Len(s) + 1
         /\ \A j \in 1..(i - 1) : InsertAt(s, i, e)[j] = s[j]
         /\ InsertAt(s, i, e)[i] = e
         /\ \A j \in i..Len(s) : InsertAt(s, i, e)[j + 1] = s[j]
<1> DEFINE a == SubSeq(s, 1, i - 1)
           b == SubSeq(s, i, Len(s))
<1>1. a \in Seq(S) /\ Len(a) = i - 1 /\ \A j \in 1..(i - 1) : a[j] = s[j]
  OBVIOUS
<1>2. b \in Seq(S) /\ Len(b) = Len(s) - i + 1
      /\ \A j \in 1..(Len(s) - i + 1) : b[j] = s[i + j - 1]
  OBVIOUS
<1> HIDE DEF a, b
<1>3. InsertAt(s, i, e) = (a \o <<e>>) \o b
  BY DEF InsertAt, a, b
<1> DEFINE c == a \o <<e>>
<1>4. c \in Seq(S) /\ Len(c) = i /\ c[i] = e /\ \A j \in 1..(i - 1) : c[j] = a[j]
  BY <1>1
<1> HIDE DEF c
<1>5. InsertAt(s, i, e) = c \o b
  BY <1>3 DEF c
<1>6. c \o b \in Seq(S) /\ Len(c \o b) = Len(s) + 1
  <2>1. c \o b \in Seq(S) /\ Len(c \o b) = Len(c) + Len(b)
    BY <1>2, <1>4, ConcatProperties
  <2> QED
    BY <1>2, <1>4, <2>1
<1>7. \A j \in 1..i : (c \o b)[j] = c[j]
  BY <1>2, <1>4
<1>8. \A j \in i..Len(s) : (c \o b)[j + 1] = s[j]
  <2> SUFFICES ASSUME NEW j \in i..Len(s) PROVE (c \o b)[j + 1] = s[j]
    OBVIOUS
  <2>1. (c \o b)[j + 1] = b[(j + 1) - i]
    BY <1>2, <1>4
  <2>2. b[(j + 1) - i] = s[j]
    BY <1>2
  <2> QED
    BY <2>1, <2>2
<1> QED
  BY <1>1, <1>4, <1>5, <1>6, <1>7, <1>8

\* What RemoveAt makes of a sequence.
LEMMA RemoveAtIs ==
  ASSUME NEW S, NEW s \in Seq(S), NEW i \in 1..Len(s)
  PROVE  /\ RemoveAt(s, i) \in Seq(S)
         /\ Len(RemoveAt(s, i)) = Len(s) - 1
         /\ \A j \in 1..(i - 1) : RemoveAt(s, i)[j] = s[j]
         /\ \A j \in (i + 1)..Len(s) : RemoveAt(s, i)[j - 1] = s[j]
<1> DEFINE a == SubSeq(s, 1, i - 1)
           b == SubSeq(s, i + 1, Len(s))
<1>1. a \in Seq(S) /\ Len(a) = i - 1 /\ \A j \in 1..(i - 1) : a[j] = s[j]
  OBVIOUS
<1>2. b \in Seq(S) /\ Len(b) = Len(s) - i /\ \A j \in 1..(Len(s) - i) : b[j] = s[i + j]
  OBVIOUS
<1> HIDE DEF a, b
<1>3. RemoveAt(s, i) = a \o b
  BY DEF RemoveAt, a, b
<1>4. a \o b \in Seq(S) /\ Len(a \o b) = Len(s) - 1 /\ \A j \in 1..(i - 1) : (a \o b)[j] = a[j]
  <2>1. a \o b \in Seq(S) /\ Len(a \o b) = Len(a) + Len(b)
    BY <1>1, <1>2, ConcatProperties
  <2>2. \A j \in 1..Len(a) : (a \o b)[j] = a[j]
    BY <1>1, <1>2
  <2> QED
    BY <1>1, <1>2, <2>1, <2>2
<1>5. \A j \in (i + 1)..Len(s) : (a \o b)[j - 1] = s[j]
  <2> SUFFICES ASSUME NEW j \in (i + 1)..Len(s) PROVE (a \o b)[j - 1] = s[j]
    OBVIOUS
  <2>1. (a \o b)[j - 1] = b[(j - 1) - (i - 1)]
    BY <1>1, <1>2
  <2>2. b[j - i] = s[j]
    BY <1>2
  <2> QED
    BY <2>1, <2>2
<1> QED
  BY <1>1, <1>3, <1>4, <1>5

-----------------------------------------------------------------------------
(* Timers.                                                                 *)

\* A finite set of natural numbers has a bound.
LEMMA FiniteBound ==
  ASSUME NEW S, S \subseteq Nat, IsFiniteSet(S)
  PROVE  \E m \in Nat : \A d \in S : d <= m
<1>0. PICK n \in Nat : ExistsSurjection(1..n, S)
  BY FS_NatSurjection
<1>1. PICK f \in [1..n -> S] : \A d \in S : \E j \in 1..n : f[j] = d
  BY <1>0 DEF ExistsSurjection, Surjection
<1> DEFINE Bounded(k) == \E m \in Nat : \A j \in 1..k : f[j] <= m
           T == {k \in Nat : k <= n /\ ~Bounded(k)}
<1>2. ASSUME NEW k \in Nat, k # 0, k <= n, Bounded(k - 1) PROVE Bounded(k)
  <2>1. PICK m \in Nat : \A j \in 1..(k - 1) : f[j] <= m
    BY <1>2
  <2>2. \A j \in 1..k : f[j] \in Nat
    <3>1. 1..k \subseteq 1..n
      BY <1>2
    <3> QED
      BY <3>1
  <2>3. PICK b \in Nat : m <= b /\ f[k] <= b
    <3>1. f[k] \in Nat
      BY <1>2, <2>2
    <3>2. m + f[k] \in Nat /\ m <= m + f[k] /\ f[k] <= m + f[k]
      BY <3>1
    <3> QED
      BY <3>2
  <2>4. ASSUME NEW j \in 1..k PROVE f[j] <= b
    <3>1. CASE j = k
      BY <2>3, <3>1
    <3>2. CASE j \in 1..(k - 1)
      BY <2>1, <2>2, <2>3, <3>2
    <3> QED
      BY <1>2, <3>1, <3>2
  <2> QED
    BY <2>4
<1>3. Bounded(0)
  OBVIOUS
<1> HIDE DEF Bounded
<1>4. T = {}
  <2>1. SUFFICES ASSUME T # {} PROVE FALSE
    OBVIOUS
  <2>2. PICK k \in T : \A j \in T : k <= j
    BY <2>1, LeastElement
  <2>3. k \in Nat /\ k <= n /\ ~Bounded(k)
    BY <2>2
  <2>4. k # 0
    BY <1>3, <2>3
  <2>5. k - 1 \in Nat /\ k - 1 \notin T
    BY <2>2, <2>3, <2>4
  <2> QED
    BY <1>2, <2>3, <2>4, <2>5
<1>5. Bounded(n)
  BY <1>4
<1>6. PICK m \in Nat : \A j \in 1..n : f[j] <= m
  BY <1>5 DEF Bounded
<1> QED
  BY <1>1, <1>6

\* LongestDelay is the longest of the finitely many delays.
LEMMA Longest == /\ Times \subseteq Nat \ {0}
                 /\ LongestDelay \in Times
                 /\ \A d \in Times : d <= LongestDelay
<1>1. Times \subseteq Nat \ {0}
  BY TimersAssumption DEF Times
<1>2. Tcp \in System /\ Period[Tcp] \in Times
  BY DEF Times, System
<1>3. IsFiniteSet(Times)
  <2>1. IsFiniteSet(System)
    <3>1. Boot \in [1..Len(Boot) -> ToSet(Boot)] /\ Len(Boot) \in Nat
      BY TimersAssumption
    <3>2. Boot \in Surjection(1..Len(Boot), ToSet(Boot))
      BY <3>1 DEF Surjection, ToSet
    <3>3. IsFiniteSet(ToSet(Boot))
      BY <3>1, <3>2, FS_Interval, FS_Surjection
    <3>4. System = (ToSet(Boot) \cup {Eth}) \cup {Tcp}
      BY DEF System
    <3> QED
      BY <3>3, <3>4, FS_AddElement
  <2> DEFINE P == {Period[h] : h \in System}
             f == [h \in System |-> Period[h]]
  <2>2. f \in Surjection(System, P)
    BY DEF Surjection
  <2>3. IsFiniteSet(P)
    BY <2>1, <2>2, FS_Surjection
  <2> QED
    BY <2>3, TimersAssumption, FS_Union DEF Times
<1>4. PICK b \in Nat : \A d \in Times : d <= b
  BY <1>1, <1>3, FiniteBound
<1> DEFINE G == {n \in Nat : \E d \in Times : n = b - d}
<1>5. ASSUME NEW d \in Times PROVE b - d \in G
  BY <1>1, <1>4
<1>6. PICK g \in G : \A n \in G : g <= n
  BY <1>2, <1>5, LeastElement
<1>7. PICK m \in Times : g = b - m
  BY <1>6
<1>8. ASSUME NEW d \in Times PROVE d <= m
  <2>1. d \in Nat /\ m \in Nat /\ d <= b
    BY <1>1, <1>4
  <2>2. g <= b - d
    BY <1>5, <1>6
  <2> QED
    BY <1>7, <2>1, <2>2
<1> QED
  BY <1>1, <1>8 DEF LongestDelay

-----------------------------------------------------------------------------
(* The operations on the list.                                             *)

Entry == [h : Handlers, time : 0..LongestDelay, left : 0..LongestDelay]

\* Types of a list of timers.
LEMMA EntryFacts ==
  ASSUME NEW l \in Seq(Entry)
  PROVE  /\ LongestDelay \in Nat /\ Len(l) \in Nat /\ DOMAIN l = 1..Len(l)
         /\ \A n \in 0..Len(l) : Timed(l, n) /\ Sum(l, n) \in Nat
         /\ \A i \in 1..Len(l) : /\ l[i] \in Entry /\ l[i].h \in Handlers /\ l[i].time \in Nat
                               /\ l[i].time \in 0..LongestDelay /\ l[i].left \in Nat
<1>1. LongestDelay \in Nat
  BY Longest
<1>2. Len(l) \in Nat /\ DOMAIN l = 1..Len(l) /\ \A i \in 1..Len(l) : l[i] \in Entry
  OBVIOUS
<1>3. ASSUME NEW n \in 0..Len(l) PROVE Timed(l, n) /\ Sum(l, n) \in Nat
  <2>1. Timed(l, n)
    BY <1>1, <1>2 DEF Timed, Entry
  <2> QED
    BY <1>2, <2>1, SumNat
<1>4. \A i \in 1..Len(l) : /\ l[i].h \in Handlers /\ l[i].time \in 0..LongestDelay
                          /\ l[i].left \in 0..LongestDelay
  BY <1>2 DEF Entry
<1> QED
  BY <1>1, <1>2, <1>3, <1>4

\* The first timer is due after its own difference.
LEMMA SumOne ==
  ASSUME NEW l, l[1].time \in Nat
  PROVE  Sum(l, 0) = 0 /\ Sum(l, 1) = l[1].time
<1>1. Sum(l, 0) = 0
  BY SumStep
<1>2. Sum(l, 1) = Sum(l, 1 - 1) + l[1].time
  BY SumStep
<1> QED
  BY <1>1, <1>2

\* sys_timeout finds a place: behind the timers that are due no later.
LEMMA PlaceIs ==
  ASSUME NEW l \in Seq(Entry), NEW ms \in Nat
  PROVE  /\ Place(l, ms) \in 0..Len(l)
         /\ \A i \in 1..Place(l, ms) : Sum(l, i) <= ms
         /\ \A i \in (Place(l, ms) + 1)..Len(l) : Sum(l, i) > ms
<1> DEFINE Here(p) == p = Len(l) \/ l[p + 1].time > ms - Sum(l, p)
           T == {p \in Nat : p <= Len(l) /\ Here(p)}
           P == Place(l, ms)
<1>1. Len(l) \in T
  BY EntryFacts
<1>2. PICK m \in T : \A p \in T : m <= p
  BY <1>1, LeastElement
<1>3. ASSUME NEW q \in 0..(m - 1) PROVE l[q + 1].time <= ms - Sum(l, q)
  <2>1. q \in Nat /\ q < Len(l) /\ q \notin T
    BY <1>2, EntryFacts
  <2>2. l[q + 1].time \in Nat /\ Sum(l, q) \in Nat
    BY <2>1, EntryFacts DEF Timed
  <2> QED
    BY <2>1, <2>2
<1>4. m \in 0..Len(l) /\ (m = Len(l) \/ l[m + 1].time > ms - Sum(l, m))
  BY <1>2
<1> DEFINE Fits(p) == /\ p = Len(l) \/ l[p + 1].time > ms - Sum(l, p)
                      /\ \A q \in 0..(p - 1) : l[q + 1].time <= ms - Sum(l, q)
<1>5. P \in 0..Len(l) /\ Fits(P)
  <2>1. \E p \in 0..Len(l) : Fits(p)
    <3>1. Fits(m)
      BY <1>3, <1>4
    <3> HIDE DEF Fits
    <3> QED
      BY <1>4, <3>1
  <2> QED
    BY <2>1 DEF Place
<1> HIDE DEF P
<1>6. ASSUME NEW i \in 1..P PROVE Sum(l, i) <= ms
  <2>1. i - 1 \in 0..(P - 1) /\ i - 1 \in 0..Len(l) /\ i \in 0..Len(l) /\ (i - 1) + 1 = i
    BY <1>5
  <2>2. l[i].time <= ms - Sum(l, i - 1)
    BY <1>5, <2>1
  <2>3. l[i].time \in Nat /\ Sum(l, i - 1) \in Nat
    BY <2>1, EntryFacts DEF Timed
  <2> QED
    BY <2>1, <2>2, <2>3, SumStep
<1>7. ASSUME NEW i \in (P + 1)..Len(l) PROVE Sum(l, i) > ms
  <2>1. P \in 0..Len(l) /\ P + 1 \in 0..Len(l) /\ i \in (P + 1)..Len(l) /\ P # Len(l)
    BY <1>5
  <2>2. l[P + 1].time \in Nat /\ Sum(l, P) \in Nat /\ Sum(l, P + 1) \in Nat /\ Sum(l, i) \in Nat
    <3>1. P + 1 \in 1..Len(l) /\ i \in 0..Len(l)
      BY <2>1
    <3>2. l[P + 1].time \in Nat
      BY <3>1, EntryFacts
    <3>3. \A n \in 0..Len(l) : Sum(l, n) \in Nat
      BY EntryFacts
    <3> QED
      BY <2>1, <3>1, <3>2, <3>3
  <2>3. Sum(l, P + 1) = Sum(l, P) + l[P + 1].time
    BY <2>1, SumStep
  <2>4. Sum(l, P + 1) <= Sum(l, i)
    BY <2>1, EntryFacts, SumMono
  <2> QED
    BY <1>5, <2>1, <2>2, <2>3, <2>4
<1> QED
  BY <1>5, <1>6, <1>7 DEF P

\* k is l with a timer due in ms at place p + 1; nothing else is due at another time.
Inserted(k, l, p, h, ms, left) ==
  /\ Len(k) = Len(l) + 1
  /\ \A i \in 1..p : /\ k[i].h = l[i].h /\ k[i].left = l[i].left
                    /\ Sum(k, i) = Sum(l, i) /\ Sum(l, i) <= ms
  /\ k[p + 1].h = h /\ k[p + 1].left = left /\ Sum(k, p + 1) = ms
  /\ \A i \in (p + 1)..Len(l) : /\ k[i + 1].h = l[i].h /\ k[i + 1].left = l[i].left
                                /\ Sum(k, i + 1) = Sum(l, i) /\ Sum(l, i) > ms

\* sys_timeout inserts a timer and delays no other.
LEMMA InsertIs ==
  ASSUME NEW l \in Seq(Entry), NEW h \in Handlers, NEW ms \in 0..LongestDelay,
         NEW left \in 0..LongestDelay
  PROVE  /\ Insert(l, h, ms, left) \in Seq(Entry)
         /\ \E p \in 0..Len(l) : Inserted(Insert(l, h, ms, left), l, p, h, ms, left)
<1> DEFINE p == Place(l, ms)
           rest == ms - Sum(l, p)
           d == [i \in DOMAIN l |-> IF i = p + 1 THEN [l[i] EXCEPT !.time = @ - rest] ELSE l[i]]
           e == [h |-> h, time |-> rest, left |-> left]
           k == InsertAt(d, p + 1, e)
<1>1. /\ p \in 0..Len(l) /\ Len(l) \in Nat /\ LongestDelay \in Nat
      /\ \A i \in 1..p : Sum(l, i) <= ms
      /\ \A i \in (p + 1)..Len(l) : Sum(l, i) > ms
  <2>1. ms \in Nat /\ Len(l) \in Nat /\ LongestDelay \in Nat
    BY EntryFacts
  <2> HIDE DEF k, d, e, rest
  <2> QED
    BY <2>1, PlaceIs
<1>2. Insert(l, h, ms, left) = k
  BY DEF Insert
<1>3. rest \in 0..LongestDelay /\ Sum(l, p) \in Nat /\ Sum(l, p) + rest = ms
  <2>1. Sum(l, p) \in Nat
    BY <1>1, EntryFacts
  <2>2. Sum(l, p) <= ms
    <3>1. CASE p = 0
      <4>1. Sum(l, 0) = 0
        BY SumStep
      <4> HIDE DEF p
      <4> QED
        BY <1>1, <3>1, <4>1
    <3>2. CASE p # 0
      BY <1>1, <3>2
    <3> QED
      BY <3>1, <3>2
  <2> QED
    BY <1>1, <2>1, <2>2
<1>4. p < Len(l) => /\ Sum(l, p + 1) = Sum(l, p) + l[p + 1].time
                    /\ l[p + 1].time - rest \in 0..LongestDelay
  <2> HAVE p < Len(l)
  <2>1. Sum(l, p + 1) = Sum(l, p) + l[p + 1].time
    BY <1>1, SumStep
  <2>2. Sum(l, p + 1) > ms /\ l[p + 1] \in Entry
    BY <1>1, EntryFacts
  <2>3. l[p + 1].time \in 0..LongestDelay
    BY <2>2 DEF Entry
  <2> QED
    BY <1>1, <1>3, <2>1, <2>2, <2>3
<1> HIDE DEF p, rest
<1>5. d \in Seq(Entry) /\ Len(d) = Len(l)
      /\ \A i \in 1..Len(l) : /\ d[i].h = l[i].h /\ d[i].left = l[i].left
                             /\ d[i].time = IF i = p + 1 THEN l[i].time - rest ELSE l[i].time
  <2>1. DOMAIN l = 1..Len(l) /\ \A i \in 1..Len(l) : l[i] \in Entry
    BY EntryFacts
  <2>2. ASSUME NEW i \in 1..Len(l)
        PROVE  /\ d[i] \in Entry
               /\ d[i].h = l[i].h /\ d[i].left = l[i].left
               /\ d[i].time = IF i = p + 1 THEN l[i].time - rest ELSE l[i].time
    <3>1. l[i] \in Entry /\ d[i] = IF i = p + 1 THEN [l[i] EXCEPT !.time = @ - rest] ELSE l[i]
      BY <2>1
    <3>2. CASE i = p + 1
      <4>1. d[i] = [l[i] EXCEPT !.time = @ - rest] /\ l[i].time - rest \in 0..LongestDelay
        BY <1>1, <1>4, <3>1, <3>2
      <4> HIDE DEF d
      <4> QED
        BY <3>1, <3>2, <4>1 DEF Entry
    <3>3. CASE i # p + 1
      BY <3>1, <3>3
    <3> QED
      BY <3>2, <3>3
  <2> QED
    BY <1>1, <2>1, <2>2
<1>6. e \in Entry /\ e.h = h /\ e.left = left /\ e.time = rest
  BY <1>3 DEF Entry
<1> HIDE DEF d, e
<1>7. /\ k \in Seq(Entry) /\ Len(k) = Len(l) + 1
      /\ \A j \in 1..p : k[j] = d[j]
      /\ k[p + 1] = e
      /\ \A j \in (p + 1)..Len(l) : k[j + 1] = d[j]
  <2>1. p + 1 \in 1..(Len(d) + 1) /\ (p + 1) - 1 = p /\ d \in Seq(Entry) /\ Len(d) = Len(l)
    BY <1>1, <1>5
  <2>2. PICK q : q = p + 1
    OBVIOUS
  <2>3. q \in 1..(Len(d) + 1) /\ k = InsertAt(d, q, e) /\ q - 1 = p
    BY <2>1, <2>2
  <2>4. /\ k \in Seq(Entry) /\ Len(k) = Len(d) + 1
        /\ \A j \in 1..(q - 1) : k[j] = d[j]
        /\ k[q] = e
        /\ \A j \in q..Len(d) : k[j + 1] = d[j]
    <3>1. d \in Seq(Entry) /\ e \in Entry /\ q \in 1..(Len(d) + 1)
      BY <1>6, <2>1, <2>3
    <3> HIDE DEF k
    <3>2. /\ InsertAt(d, q, e) \in Seq(Entry) /\ Len(InsertAt(d, q, e)) = Len(d) + 1
          /\ \A j \in 1..(q - 1) : InsertAt(d, q, e)[j] = d[j]
          /\ InsertAt(d, q, e)[q] = e
          /\ \A j \in q..Len(d) : InsertAt(d, q, e)[j + 1] = d[j]
      BY <3>1, InsertAtIs
    <3> QED
      BY <2>3, <3>2
  <2> QED
    BY <2>1, <2>2, <2>3, <2>4
<1> HIDE DEF k
<1>8. ASSUME NEW i \in 0..p PROVE Sum(k, i) = Sum(l, i)
  <2>1. i \in Nat /\ i \in 0..Len(l) /\ Timed(l, i)
    BY <1>1, EntryFacts
  <2>2. \A j \in 1..i : k[j].time = l[j].time
    BY <1>1, <1>5, <1>7
  <2> QED
    BY <2>1, <2>2, SumSame
<1>9. Sum(k, p + 1) = ms
  <2>1. p + 1 \in Nat /\ p + 1 # 0 /\ (p + 1) - 1 = p /\ p \in 0..p
    BY <1>1
  <2>2. Sum(k, p + 1) = Sum(k, p) + k[p + 1].time
    BY <2>1, SumStep
  <2>3. k[p + 1].time = rest
    BY <1>6, <1>7
  <2>4. Sum(k, p) = Sum(l, p)
    BY <1>8, <2>1
  <2> QED
    BY <1>3, <2>2, <2>3, <2>4
<1>10. ASSUME NEW i \in (p + 1)..Len(l) PROVE Sum(k, i + 1) = Sum(l, i)
  <2>1. PICK m \in Nat : m = p + 1
    BY <1>1
  <2>2. p < Len(l) /\ m \in 1..Len(l) /\ m \in (p + 1)..Len(l) /\ i \in Nat /\ m <= i
        /\ i \in 0..Len(l) /\ m + 1 \in Nat /\ m + 1 # 0 /\ (m + 1) - 1 = m
    BY <1>1, <2>1
  <2>3. k[m + 1].time = l[m].time - rest
    <3>1. k[m + 1] = d[m]
      BY <1>7, <2>2
    <3>2. d[m].time = l[m].time - rest
      BY <1>5, <2>1, <2>2
    <3> QED
      BY <3>1, <3>2
  <2>4. Sum(k, m + 1) = Sum(k, m) + k[m + 1].time
    BY <2>2, SumStep
  <2>5. Sum(k, m) = ms /\ Sum(l, m) = Sum(l, p) + l[m].time /\ l[m].time \in Nat
    <3>1. Sum(k, m) = ms
      BY <1>9, <2>1
    <3>2. Sum(l, m) = Sum(l, p) + l[m].time
      BY <1>4, <2>1, <2>2
    <3>3. l[m].time \in Nat
      BY <2>2, EntryFacts
    <3> QED
      BY <3>1, <3>2, <3>3
  <2>6. rest \in Nat
    BY <1>1, <1>3
  <2>7. Sum(k, m + 1) = Sum(l, m) + 0
    BY <1>3, <2>3, <2>4, <2>5, <2>6
  <2>8. Timed(l, i) /\ Sum(l, i) \in Nat
    BY <2>2, EntryFacts
  <2>9. ASSUME NEW j \in (m + 1)..i PROVE k[j + 1].time = l[j].time
    <3>1. j \in (p + 1)..Len(l) /\ j \in 1..Len(l) /\ j # p + 1
      BY <1>1, <2>1, <2>2
    <3>2. k[j + 1] = d[j]
      BY <1>7, <3>1
    <3>3. d[j].time = l[j].time
      BY <1>5, <3>1
    <3> QED
      BY <3>2, <3>3
  <2>10. Sum(k, i + 1) = Sum(l, i) + 0
    BY <2>2, <2>7, <2>8, <2>9, SumShift
  <2> QED
    BY <2>8, <2>10
<1>11. Inserted(k, l, p, h, ms, left)
  <2>1. \A i \in 1..p : k[i].h = l[i].h /\ k[i].left = l[i].left
    BY <1>1, <1>5, <1>7
  <2>2. ASSUME NEW i \in (p + 1)..Len(l) PROVE k[i + 1].h = l[i].h /\ k[i + 1].left = l[i].left
    <3>1. k[i + 1] = d[i]
      BY <1>7
    <3>2. i \in 1..Len(l)
      BY <1>1
    <3>3. d[i].h = l[i].h /\ d[i].left = l[i].left
      BY <1>5, <3>2
    <3> QED
      BY <3>1, <3>3
  <2>3. \A i \in 1..p : Sum(k, i) = Sum(l, i)
    BY <1>8
  <2> QED
    BY <1>1, <1>6, <1>7, <1>9, <1>10, <2>1, <2>2, <2>3 DEF Inserted
<1> QED
  BY <1>1, <1>2, <1>7, <1>11

\* k is l without the timer at place p; no other is due at another time.
Removed(k, l, p) ==
  /\ Len(k) = Len(l) - 1
  /\ \A i \in 1..(p - 1) : k[i].h = l[i].h /\ k[i].left = l[i].left /\ Sum(k, i) = Sum(l, i)
  /\ \A i \in (p + 1)..Len(l) : /\ k[i - 1].h = l[i].h /\ k[i - 1].left = l[i].left
                                /\ Sum(k, i - 1) = Sum(l, i)

IsFirst(l, p, h) == p \in 1..Len(l) /\ l[p].h = h /\ \A j \in 1..(p - 1) : l[j].h # h

\* sys_untimeout removes the first timer of a handler and hastens no other.
LEMMA WithoutIs ==
  ASSUME NEW l \in Seq(Entry), NEW h, \A i \in 1..Len(l) : Sum(l, i) <= LongestDelay
  PROVE  \/ (\A i \in 1..Len(l) : l[i].h # h) /\ Without(l, h) = l
         \/ /\ Without(l, h) \in Seq(Entry)
            /\ \E p \in 1..Len(l) : IsFirst(l, p, h) /\ Removed(Without(l, h), l, p)
<1>0. DOMAIN l = 1..Len(l) /\ Len(l) \in Nat /\ LongestDelay \in Nat
      /\ \A i \in 1..Len(l) : l[i] \in Entry
  BY EntryFacts
<1>1. CASE \A i \in 1..Len(l) : l[i].h # h
  BY <1>0, <1>1 DEF Without
<1>2. CASE ~ \A i \in 1..Len(l) : l[i].h # h
  <2> DEFINE T == {i \in Nat : i \in 1..Len(l) /\ l[i].h = h}
  <2>1. PICK b \in T : \A j \in T : b <= j
    <3>1. PICK i \in 1..Len(l) : l[i].h = h
      BY <1>2
    <3>2. i \in T
      BY <1>0, <3>1
    <3> QED
      BY <3>2, LeastElement
  <2>2. \E i \in DOMAIN l : l[i].h = h /\ \A j \in 1..(i - 1) : l[j].h # h
    <3>1. ASSUME NEW j \in 1..(b - 1) PROVE l[j].h # h
      <4>1. j \in Nat /\ j \in 1..Len(l) /\ j < b
        BY <1>0, <2>1
      <4> QED
        BY <2>1, <4>1
    <3>2. b \in DOMAIN l /\ l[b].h = h
      BY <1>0, <2>1
    <3> QED
      BY <3>1, <3>2
  <2> DEFINE P == CHOOSE i \in DOMAIN l : l[i].h = h /\ \A j \in 1..(i - 1) : l[j].h # h
             D(p) == [i \in DOMAIN l |-> IF i = p + 1 THEN [l[i] EXCEPT !.time = @ + l[p].time]
                                       ELSE l[i]]
  <2>3. IsFirst(l, P, h)
    BY <1>0, <2>2 DEF IsFirst
  <2>4. Without(l, h) = RemoveAt(D(P), P)
    BY <1>0, <1>2 DEF Without
  <2> HIDE DEF P, D
  <2>5. PICK p : p = P
    OBVIOUS
  <2>6. PICK d : d = D(p)
    OBVIOUS
  <2>7. PICK k : k = RemoveAt(d, p)
    OBVIOUS
  <2>8. Without(l, h) = k /\ IsFirst(l, p, h) /\ p \in 1..Len(l)
    BY <2>3, <2>4, <2>5, <2>6, <2>7 DEF IsFirst
  <2>9. p < Len(l) => /\ Sum(l, p + 1) = Sum(l, p) + l[p + 1].time
                      /\ l[p].time + l[p + 1].time \in 0..LongestDelay
    <3> HAVE p < Len(l)
    <3>1. p + 1 \in Nat /\ p + 1 # 0 /\ p \in Nat /\ p # 0 /\ p - 1 \in 0..Len(l) /\ (p + 1) - 1 = p
          /\ p + 1 \in 1..Len(l)
      BY <1>0, <2>8
    <3>2. Sum(l, p + 1) = Sum(l, p) + l[p + 1].time
      BY <3>1, SumStep
    <3>3. Sum(l, p) = Sum(l, p - 1) + l[p].time
      BY <3>1, SumStep
    <3>4. Sum(l, p - 1) \in Nat /\ l[p].time \in Nat /\ l[p + 1].time \in Nat
      BY <2>8, <3>1, EntryFacts
    <3>5. Sum(l, p + 1) <= LongestDelay
      BY <3>1
    <3>6. Sum(l, p + 1) = Sum(l, p - 1) + (l[p].time + l[p + 1].time)
      BY <3>2, <3>3, <3>4
    <3>7. l[p].time + l[p + 1].time \in Nat /\ LongestDelay \in Nat
      BY <1>0, <3>4
    <3>8. l[p].time + l[p + 1].time <= LongestDelay
      BY <3>4, <3>5, <3>6, <3>7
    <3> QED
      BY <3>2, <3>7, <3>8
  <2>10. d \in Seq(Entry) /\ Len(d) = Len(l)
         /\ \A i \in 1..Len(l) : /\ d[i].h = l[i].h /\ d[i].left = l[i].left
                                /\ d[i].time = IF i = p + 1 THEN l[i].time + l[p].time ELSE l[i].time
    <3>1. ASSUME NEW i \in 1..Len(l)
          PROVE  /\ d[i] \in Entry
                 /\ d[i].h = l[i].h /\ d[i].left = l[i].left
                 /\ d[i].time = IF i = p + 1 THEN l[i].time + l[p].time ELSE l[i].time
      <4>1. l[i] \in Entry
        BY <1>0
      <4>2. d[i] = IF i = p + 1 THEN [l[i] EXCEPT !.time = @ + l[p].time] ELSE l[i]
        BY <1>0, <2>6 DEF D
      <4>3. CASE i = p + 1
        <5>1. l[i].time + l[p].time \in 0..LongestDelay
          <6>1. p < Len(l) /\ l[p].time \in Nat /\ l[p + 1].time \in Nat
            BY <1>0, <2>8, <4>3 DEF Entry
          <6> QED
            BY <2>9, <4>3, <6>1
        <5> QED
          BY <4>1, <4>2, <4>3, <5>1 DEF Entry
      <4>4. CASE i # p + 1
        BY <4>1, <4>2, <4>4
      <4> QED
        BY <4>3, <4>4
    <3>2. d = [i \in 1..Len(l) |-> d[i]]
      BY <1>0, <2>6 DEF D
    <3> QED
      BY <1>0, <3>1, <3>2
  <2>11. /\ k \in Seq(Entry) /\ Len(k) = Len(l) - 1
         /\ \A j \in 1..(p - 1) : k[j] = d[j]
         /\ \A j \in (p + 1)..Len(l) : k[j - 1] = d[j]
    <3>1. d \in Seq(Entry) /\ Len(d) = Len(l) /\ p \in 1..Len(d)
      BY <2>8, <2>10
    <3>2. /\ RemoveAt(d, p) \in Seq(Entry) /\ Len(RemoveAt(d, p)) = Len(d) - 1
          /\ \A j \in 1..(p - 1) : RemoveAt(d, p)[j] = d[j]
          /\ \A j \in (p + 1)..Len(d) : RemoveAt(d, p)[j - 1] = d[j]
      BY <3>1, RemoveAtIs
    <3> QED
      BY <2>7, <3>1, <3>2
  <2>12. ASSUME NEW i \in 0..(p - 1) PROVE Sum(k, i) = Sum(l, i)
    <3>1. i \in Nat /\ i \in 0..Len(l) /\ Timed(l, i)
      BY <1>0, <2>8, EntryFacts
    <3>2. \A j \in 1..i : k[j].time = l[j].time
      BY <1>0, <2>8, <2>10, <2>11
    <3> QED
      BY <3>1, <3>2, SumSame
  <2>13. ASSUME NEW i \in (p + 1)..Len(l) PROVE Sum(k, i - 1) = Sum(l, i)
    <3>1. PICK m : m = p + 1
      OBVIOUS
    <3>2. /\ p \in Nat /\ p # 0 /\ p - 1 \in 0..(p - 1) /\ p - 1 \in 0..Len(l) /\ p < Len(l)
          /\ m \in Nat /\ i \in Nat /\ m <= i /\ m + (-1) = p /\ i \in 0..Len(l) /\ m \in 1..Len(l)
      <4>1. p \in Nat /\ p # 0 /\ p <= Len(l) /\ Len(l) \in Nat
        BY <1>0, <2>8
      <4>2. i \in Nat /\ p + 1 <= i /\ i <= Len(l)
        BY <4>1
      <4>3. m \in Nat /\ m = p + 1
        BY <3>1, <4>1
      <4>4. p - 1 \in 0..(p - 1) /\ p - 1 \in 0..Len(l) /\ p < Len(l)
        BY <4>1, <4>2
      <4>5. m <= i /\ m + (-1) = p /\ i \in 0..Len(l) /\ m \in 1..Len(l)
        BY <4>1, <4>2, <4>3
      <4> QED
        BY <4>1, <4>2, <4>3, <4>4, <4>5
    <3>3. Sum(k, p) = Sum(k, p - 1) + k[p].time /\ Sum(l, p) = Sum(l, p - 1) + l[p].time
      BY <3>2, SumStep
    <3>4. k[p].time = l[p + 1].time + l[p].time
      <4>1. m \in (p + 1)..Len(l) /\ m - 1 = p
        BY <1>0, <3>1, <3>2
      <4>2. k[p] = d[m]
        BY <2>11, <4>1
      <4>3. d[m].time = l[m].time + l[p].time
        BY <2>10, <3>1, <3>2
      <4> QED
        BY <3>1, <4>2, <4>3
    <3>5. Sum(l, p - 1) \in Nat /\ l[p].time \in Nat /\ l[p + 1].time \in Nat
      BY <2>8, <3>1, <3>2, EntryFacts
    <3>6. Sum(k, p) = Sum(l, p + 1)
      <4>1. Sum(k, p - 1) = Sum(l, p - 1)
        BY <2>12, <3>2
      <4>2. Sum(l, p + 1) = Sum(l, p) + l[p + 1].time
        BY <2>9, <3>2
      <4> QED
        BY <3>3, <3>4, <3>5, <4>1, <4>2
    <3>7. Timed(l, i) /\ Sum(l, i) \in Nat
      BY <3>2, EntryFacts
    <3>8. ASSUME NEW j \in (m + 1)..i PROVE k[j - 1].time = l[j].time
      <4>1. j \in (p + 1)..Len(l) /\ j \in 1..Len(l) /\ j # p + 1
        BY <1>0, <3>1, <3>2
      <4>2. k[j - 1] = d[j]
        BY <2>11, <4>1
      <4>3. d[j].time = l[j].time
        BY <2>10, <4>1
      <4> QED
        BY <4>2, <4>3
    <3>9. m - 1 = p /\ m # 0
      BY <3>1, <3>2
    <3>10. Sum(k, m - 1) = Sum(l, m)
      BY <3>1, <3>6, <3>9
    <3> QED
      BY <3>2, <3>7, <3>8, <3>9, <3>10, SumBack
  <2>14. Removed(k, l, p)
    <3>1. ASSUME NEW i \in 1..(p - 1) PROVE k[i].h = l[i].h /\ k[i].left = l[i].left
      <4>1. i \in 1..Len(l) /\ k[i] = d[i]
        BY <1>0, <2>8, <2>11
      <4> QED
        BY <2>10, <4>1
    <3>2. ASSUME NEW i \in (p + 1)..Len(l) PROVE k[i - 1].h = l[i].h /\ k[i - 1].left = l[i].left
      <4>1. i \in 1..Len(l) /\ k[i - 1] = d[i]
        BY <1>0, <2>8, <2>11
      <4> QED
        BY <2>10, <4>1
    <3>3. \A i \in 1..(p - 1) : Sum(k, i) = Sum(l, i)
      BY <2>12
    <3> QED
      BY <2>11, <2>13, <3>1, <3>2, <3>3 DEF Removed
  <2> QED
    BY <2>8, <2>11, <2>14
<1> QED
  BY <1>1, <1>2

\* The first timer is taken off the list.
LEMMA TailIs ==
  ASSUME NEW l \in Seq(Entry), l # <<>>
  PROVE  /\ Tail(l) \in Seq(Entry) /\ Len(Tail(l)) = Len(l) - 1
         /\ Head(l) = l[1] /\ Sum(l, 1) = l[1].time
         /\ \A i \in 2..Len(l) : /\ Tail(l)[i - 1] = l[i]
                               /\ Sum(Tail(l), i - 1) = Sum(l, i) - l[1].time
<1> DEFINE k == Tail(l)
<1>1. k \in Seq(Entry) /\ Len(k) = Len(l) - 1 /\ Head(l) = l[1] /\ Len(l) \in Nat /\ 1 <= Len(l)
      /\ \A i \in 2..Len(l) : k[i - 1] = l[i]
  OBVIOUS
<1> HIDE DEF k
<1>2. l[1].time \in Nat /\ LongestDelay \in Nat
  BY <1>1, EntryFacts
<1>3. Sum(l, 1) = l[1].time /\ Sum(k, 0) = 0
  BY <1>2, SumOne, SumStep
<1>4. ASSUME NEW i \in 2..Len(l) PROVE Sum(k, i - 1) = Sum(l, i) - l[1].time
  <2>1. PICK d : d = -l[1].time
    OBVIOUS
  <2>2. d \in Int /\ 1 + (-1) = 0 /\ i \in Nat /\ 1 <= i /\ i \in 0..Len(l)
    BY <1>1, <1>2, <2>1
  <2>3. Sum(k, 1 + (-1)) = Sum(l, 1) + d
    BY <1>2, <1>3, <2>1, <2>2
  <2>4. Timed(l, i) /\ Sum(l, i) \in Nat
    BY <2>2, EntryFacts
  <2>5. \A j \in (1 + 1)..i : k[j + (-1)].time = l[j].time
    BY <1>1
  <2>6. Sum(k, i + (-1)) = Sum(l, i) + d
    BY <2>2, <2>3, <2>4, <2>5, SumShift
  <2> QED
    BY <1>2, <2>1, <2>2, <2>4, <2>6
<1> QED
  BY <1>1, <1>3, <1>4 DEF k

Shortened(k, l, t) == k = [l EXCEPT ![1].time = t]

\* Time is taken off the first timer.
LEMMA HeadLess ==
  ASSUME NEW l \in Seq(Entry), l # <<>>, NEW t \in 0..l[1].time,
         NEW k, Shortened(k, l, t)
  PROVE  /\ k \in Seq(Entry) /\ Len(k) = Len(l)
         /\ k[1].time = t
         /\ \A i \in 1..Len(l) : /\ k[i].h = l[i].h /\ k[i].left = l[i].left
                               /\ Sum(k, i) = Sum(l, i) - (l[1].time - t)
<1>1. Len(l) \in Nat /\ 1 <= Len(l) /\ DOMAIN l = 1..Len(l) /\ LongestDelay \in Nat
      /\ \A i \in 1..Len(l) : l[i] \in Entry
  BY EntryFacts
<1>2. l[1].time \in 0..LongestDelay /\ t \in 0..LongestDelay /\ l[1].time \in Nat
  BY <1>1 DEF Entry
<1>3. ASSUME NEW i \in 1..Len(l)
      PROVE  /\ k[i] \in Entry /\ k[i].h = l[i].h /\ k[i].left = l[i].left
             /\ k[i].time = IF i = 1 THEN t ELSE l[i].time
  <2>1. k[i] = IF i = 1 THEN [l[i] EXCEPT !.time = t] ELSE l[i]
    BY <1>1 DEF Shortened
  <2> QED
    BY <1>1, <1>2, <2>1 DEF Entry
<1>4. k \in Seq(Entry) /\ Len(k) = Len(l)
  <2>1. k = [i \in 1..Len(l) |-> k[i]]
    BY <1>1 DEF Shortened
  <2> QED
    BY <1>1, <1>3, <2>1
<1>5. Sum(l, 1) = l[1].time /\ Sum(k, 1) = t
  <2>1. k[1].time = t /\ t \in Nat
    BY <1>1, <1>2, <1>3
  <2> QED
    BY <1>2, <2>1, SumOne
<1>6. ASSUME NEW i \in 1..Len(l) PROVE Sum(k, i) = Sum(l, i) - (l[1].time - t)
  <2>1. PICK d \in Int : d = -(l[1].time - t)
    BY <1>2
  <2>2. Timed(l, i) /\ Sum(l, i) \in Nat /\ i \in Nat /\ 1 <= i
    BY <1>1, EntryFacts
  <2>3. Sum(k, 1) = Sum(l, 1) + d
    BY <1>2, <1>5, <2>1
  <2>4. \A j \in 2..i : k[j].time = l[j].time
    BY <1>1, <1>3
  <2>5. Sum(k, i) = Sum(l, i) + d
    BY <2>2, <2>3, <2>4, SumFirst
  <2> QED
    BY <1>2, <2>1, <2>2, <2>5
<1>7. k[1].time = t
  BY <1>1, <1>3
<1> QED
  BY <1>3, <1>4, <1>6, <1>7

-----------------------------------------------------------------------------
(* What holds of the list: every timer is due within the longest delay,    *)
(* and what is left of the time asked for is no more than what the         *)
(* differences say once s, the time waited but not yet counted, is over.   *)

ListOK(l, s) ==
  /\ l \in Seq(Entry)
  /\ \A i \in 1..Len(l) : Sum(l, i) <= LongestDelay /\ l[i].left <= Monus(Sum(l, i), s)

\* The TCP timer is on the list once at most, or not at all.
Few(l) == \A i, j \in 1..Len(l) : l[i].h = Tcp /\ l[j].h = Tcp => i = j
Free(l) == \A i \in 1..Len(l) : l[i].h # Tcp

\* Arithmetic of the time that is left, once s has been waited: of a, when t
\* goes with the first timer, or is cut to x.
LEMMA MonusTail ==
  ASSUME NEW a \in Nat, NEW b \in Nat, NEW s \in Nat, NEW t \in Nat, t <= s, t <= a,
         b <= Monus(a, s)
  PROVE  b <= Monus(a - t, 0)
BY DEF Monus

\* The same for a message.
LEMMA MonusCut ==
  ASSUME NEW a \in Nat, NEW b \in Nat, NEW s \in Nat, NEW t \in Nat, t <= a,
         NEW x \in Nat, x = Monus(t, s), b <= Monus(a, s)
  PROVE  b <= Monus(a - (t - x), 0)
BY DEF Monus

\* A new timer keeps ListOK, and is inserted where PlaceIs says.
LEMMA InsertOK ==
  ASSUME NEW l, NEW s \in Nat, ListOK(l, s), NEW h \in Handlers, NEW ms \in Times,
         NEW left \in 0..LongestDelay, left <= Monus(ms, s)
  PROVE  /\ ListOK(Insert(l, h, ms, left), s) /\ Len(Insert(l, h, ms, left)) = Len(l) + 1
         /\ \E p \in 0..Len(l) : Inserted(Insert(l, h, ms, left), l, p, h, ms, left)
<1> DEFINE k == Insert(l, h, ms, left)
<1>1. ms \in Nat /\ ms \in 0..LongestDelay /\ LongestDelay \in Nat
  BY Longest
<1>2. l \in Seq(Entry) /\ Len(l) \in Nat
      /\ \A i \in 1..Len(l) : Sum(l, i) <= LongestDelay /\ l[i].left <= Monus(Sum(l, i), s)
  BY DEF ListOK
<1>3. k \in Seq(Entry)
  BY <1>1, <1>2, InsertIs
<1>4. PICK p \in 0..Len(l) : Inserted(k, l, p, h, ms, left)
  BY <1>1, <1>2, InsertIs
<1> HIDE DEF k
<1>5. ASSUME NEW i \in 1..Len(k)
      PROVE  Sum(k, i) <= LongestDelay /\ k[i].left <= Monus(Sum(k, i), s)
  <2>1. Len(k) = Len(l) + 1
    BY <1>4 DEF Inserted
  <2>2. CASE i \in 1..p
    <3>1. i \in 1..Len(l) /\ Sum(k, i) = Sum(l, i) /\ k[i].left = l[i].left
      BY <1>2, <1>4, <2>2 DEF Inserted
    <3> QED
      BY <1>2, <3>1
  <2>3. CASE i = p + 1
    <3>1. Sum(k, i) = ms /\ k[i].left = left
      BY <1>4, <2>3 DEF Inserted
    <3> QED
      BY <1>1, <3>1
  <2>4. CASE i \in (p + 2)..Len(k)
    <3>1. PICK j \in Nat : j = i - 1
      BY <1>2, <1>4, <2>4
    <3>2. i = j + 1 /\ j \in (p + 1)..Len(l) /\ j \in 1..Len(l)
      BY <1>2, <1>4, <2>1, <2>4, <3>1
    <3>3. Sum(k, i) = Sum(l, j) /\ k[i].left = l[j].left
      BY <1>4, <3>2 DEF Inserted
    <3> QED
      BY <1>2, <3>2, <3>3
  <2> QED
    BY <1>2, <1>4, <2>1, <2>2, <2>3, <2>4
<1>6. ListOK(k, s) /\ Len(k) = Len(l) + 1
  BY <1>3, <1>4, <1>5 DEF ListOK, Inserted
<1> QED
  BY <1>4, <1>6 DEF k

\* An entry behind the new one, or in front of it, is one of the entries before.
LEMMA InsertedFrom ==
  ASSUME NEW k, NEW l \in Seq(Entry), NEW p \in 0..Len(l), NEW h, NEW ms, NEW left,
         Inserted(k, l, p, h, ms, left)
  PROVE  \A i \in 1..Len(k) :
            \/ i = p + 1 /\ k[i].h = h
            \/ i \in 1..p /\ i \in 1..Len(l) /\ k[i].h = l[i].h
            \/ i \in (p + 2)..Len(k) /\ i - 1 \in 1..Len(l) /\ k[i].h = l[i - 1].h
<1> SUFFICES ASSUME NEW i \in 1..Len(k)
             PROVE  \/ i = p + 1 /\ k[i].h = h
                    \/ i \in 1..p /\ i \in 1..Len(l) /\ k[i].h = l[i].h
                    \/ i \in (p + 2)..Len(k) /\ i - 1 \in 1..Len(l) /\ k[i].h = l[i - 1].h
  OBVIOUS
<1>1. Len(k) = Len(l) + 1 /\ Len(l) \in Nat
  BY DEF Inserted
<1>2. CASE i = p + 1
  BY <1>2 DEF Inserted
<1>3. CASE i \in 1..p
  BY <1>1, <1>3 DEF Inserted
<1>4. CASE i \in (p + 2)..Len(k)
  <2>1. PICK j \in Nat : j = i - 1
    BY <1>1, <1>4
  <2>2. i = j + 1 /\ j \in (p + 1)..Len(l) /\ j \in 1..Len(l)
    BY <1>1, <1>4, <2>1
  <2>3. k[j + 1].h = l[j].h
    BY <2>2 DEF Inserted
  <2> QED
    BY <1>4, <2>1, <2>2, <2>3
<1> QED
  BY <1>1, <1>2, <1>3, <1>4

\* A timer of another handler leaves the TCP timer as it is.
LEMMA InsertTcp ==
  ASSUME NEW k, NEW l \in Seq(Entry), NEW p \in 0..Len(l), NEW h, NEW ms, NEW left,
         Inserted(k, l, p, h, ms, left)
  PROVE  /\ h # Tcp /\ Free(l) => Free(k)
         /\ h # Tcp /\ Few(l) => Few(k)
         /\ Free(l) => Few(k)
<1>1. \A i \in 1..Len(k) :
         \/ i = p + 1 /\ k[i].h = h
         \/ i \in 1..p /\ i \in 1..Len(l) /\ k[i].h = l[i].h
         \/ i \in (p + 2)..Len(k) /\ i - 1 \in 1..Len(l) /\ k[i].h = l[i - 1].h
  BY InsertedFrom
<1>2. Len(k) \in Nat /\ Len(l) \in Nat
  BY DEF Inserted
<1>3. h # Tcp /\ Free(l) => Free(k)
  BY <1>1 DEF Free
<1>4. h # Tcp /\ Few(l) => Few(k)
  <2> SUFFICES ASSUME h # Tcp, Few(l), NEW i \in 1..Len(k), NEW j \in 1..Len(k),
                      k[i].h = Tcp, k[j].h = Tcp
               PROVE  i = j
    BY DEF Few
  <2> DEFINE From(a) == IF a \in 1..p THEN a ELSE a - 1
  <2>1. /\ From(i) \in 1..Len(l) /\ k[i].h = l[From(i)].h /\ i # p + 1
        /\ From(j) \in 1..Len(l) /\ k[j].h = l[From(j)].h /\ j # p + 1
    BY <1>1, <1>2
  <2>2. From(i) = From(j)
    <3> HIDE DEF From
    <3> QED
      BY <2>1 DEF Few
  <2> QED
    BY <1>2, <2>1, <2>2
<1>5. Free(l) => Few(k)
  BY <1>1 DEF Free, Few
<1> QED
  BY <1>3, <1>4, <1>5

\* A cancelled timer leaves the others as they are.
LEMMA WithoutOK ==
  ASSUME NEW l, ListOK(l, 0), NEW h
  PROVE  /\ ListOK(Without(l, h), 0) /\ Len(Without(l, h)) <= Len(l)
         /\ Free(l) => Free(Without(l, h))
         /\ Few(l) => Few(Without(l, h))
<1> DEFINE k == Without(l, h)
<1>1. l \in Seq(Entry) /\ Len(l) \in Nat /\ LongestDelay \in Nat
      /\ \A i \in 1..Len(l) : Sum(l, i) <= LongestDelay /\ l[i].left <= Monus(Sum(l, i), 0)
  BY EntryFacts DEF ListOK
<1>2. \/ k = l
      \/ k \in Seq(Entry) /\ \E p \in 1..Len(l) : Removed(k, l, p)
  BY <1>1, WithoutIs
<1> HIDE DEF k
<1>3. CASE k = l
  BY <1>1, <1>3 DEF k
<1>4. CASE k \in Seq(Entry) /\ \E p \in 1..Len(l) : Removed(k, l, p)
  <2>1. PICK p \in 1..Len(l) : Removed(k, l, p)
    BY <1>4
  <2>2. Len(k) = Len(l) - 1
    BY <2>1 DEF Removed
  <2> DEFINE From(a) == IF a \in 1..(p - 1) THEN a ELSE a + 1
  <2>3. ASSUME NEW i \in 1..Len(k)
        PROVE  /\ From(i) \in 1..Len(l) /\ k[i].h = l[From(i)].h /\ k[i].left = l[From(i)].left
               /\ Sum(k, i) = Sum(l, From(i))
    <3>1. CASE i \in 1..(p - 1)
      BY <1>1, <2>1, <3>1 DEF Removed
    <3>2. CASE i \in p..Len(k)
      <4>1. PICK j \in Nat : j = i + 1
        BY <3>2
      <4>2. j \in (p + 1)..Len(l) /\ j - 1 = i /\ From(i) = j
        BY <1>1, <2>2, <3>2, <4>1
      <4> HIDE DEF From
      <4> QED
        BY <1>1, <2>1, <4>2 DEF Removed
    <3> QED
      BY <1>1, <2>2, <3>1, <3>2
  <2>4. \A i, j \in 1..Len(k) : From(i) = From(j) => i = j
    BY <1>1, <2>2
  <2> HIDE DEF From
  <2>5. ListOK(k, 0)
    BY <1>1, <1>4, <2>3 DEF ListOK
  <2>6. Free(l) => Free(k)
    BY <2>3 DEF Free
  <2>7. Few(l) => Few(k)
    <3> SUFFICES ASSUME Few(l), NEW i \in 1..Len(k), NEW j \in 1..Len(k),
                        k[i].h = Tcp, k[j].h = Tcp
                 PROVE  i = j
      BY DEF Few
    <3>1. From(i) = From(j)
      BY <2>3 DEF Few
    <3> QED
      BY <2>4, <3>1
  <2> QED
    BY <1>1, <2>2, <2>5, <2>6, <2>7 DEF k
<1> QED
  BY <1>2, <1>3, <1>4

\* The first timer goes when s is over: it is due then, and nothing is left of it.
LEMMA TailOK ==
  ASSUME NEW l, NEW s \in Nat, ListOK(l, s), l # <<>>, l[1].time <= s
  PROVE  /\ ListOK(Tail(l), 0) /\ Len(Tail(l)) < Len(l)
         /\ Head(l) \in Entry /\ Head(l).left = 0
         /\ Free(l) => Head(l).h # Tcp /\ Free(Tail(l))
         /\ Few(l) => Few(Tail(l))
         /\ Few(l) /\ Head(l).h = Tcp => Free(Tail(l))
<1>1. l \in Seq(Entry) /\ Len(l) \in Nat /\ LongestDelay \in Nat /\ 1 \in 1..Len(l)
      /\ \A i \in 1..Len(l) : Sum(l, i) <= LongestDelay /\ l[i].left <= Monus(Sum(l, i), s)
  BY EntryFacts DEF ListOK
<1> DEFINE k == Tail(l)
<1>2. /\ k \in Seq(Entry) /\ Len(k) = Len(l) - 1
      /\ Head(l) = l[1] /\ Sum(l, 1) = l[1].time
      /\ \A i \in 2..Len(l) : k[i - 1] = l[i] /\ Sum(k, i - 1) = Sum(l, i) - l[1].time
  BY <1>1, TailIs
<1> HIDE DEF k
<1>3. ASSUME NEW i \in 1..Len(k)
      PROVE  i + 1 \in 1..Len(l) /\ k[i] = l[i + 1] /\ Sum(k, i) = Sum(l, i + 1) - l[1].time
  <2>1. PICK j \in Nat : j = i + 1
    BY <1>2
  <2>2. j \in 2..Len(l) /\ j - 1 = i
    BY <1>1, <1>2, <2>1
  <2> QED
    BY <1>2, <2>1, <2>2
<1>4. l[1].time \in Nat /\ l[1] \in Entry /\ l[1].left \in Nat
  BY <1>1, EntryFacts
<1>5. ASSUME NEW i \in 1..Len(k)
      PROVE  Sum(k, i) <= LongestDelay /\ k[i].left <= Monus(Sum(k, i), 0)
  <2>1. PICK j \in 1..Len(l) : j = i + 1
    BY <1>3
  <2>2. k[i] = l[j] /\ Sum(k, i) = Sum(l, j) - l[1].time
    BY <1>3, <2>1
  <2>3. Sum(l, j) \in Nat /\ l[j].left \in Nat /\ Sum(l, j) <= LongestDelay
        /\ l[j].left <= Monus(Sum(l, j), s)
    BY <1>1, EntryFacts
  <2>4. Sum(l, 1) <= Sum(l, j)
    BY <1>1, EntryFacts, SumMono
  <2>5. l[1].time <= Sum(l, j)
    BY <1>2, <2>4
  <2>6. l[j].left <= Monus(Sum(l, j) - l[1].time, 0)
    BY <1>4, <2>3, <2>5, MonusTail
  <2>7. Sum(l, j) - l[1].time <= LongestDelay
    BY <1>1, <1>4, <2>3
  <2> QED
    BY <2>2, <2>6, <2>7
<1>6. l[1].left <= Monus(l[1].time, s)
  BY <1>1, <1>2
<1>7. l[1].left = 0
  BY <1>4, <1>6 DEF Monus
<1>8. ListOK(k, 0) /\ Len(k) < Len(l)
  BY <1>1, <1>2, <1>5 DEF ListOK
<1>9. Free(l) => l[1].h # Tcp /\ Free(k)
  BY <1>1, <1>3 DEF Free
<1>10. (Few(l) => Few(k)) /\ (Few(l) /\ l[1].h = Tcp => Free(k))
  <2>1. Few(l) => Few(k)
    <3> SUFFICES ASSUME Few(l), NEW i \in 1..Len(k), NEW j \in 1..Len(k),
                        k[i].h = Tcp, k[j].h = Tcp
                 PROVE  i = j
      BY DEF Few
    <3>1. i + 1 = j + 1
      BY <1>3 DEF Few
    <3> QED
      BY <1>2, <3>1
  <2>2. Few(l) /\ l[1].h = Tcp => Free(k)
    <3> SUFFICES ASSUME Few(l), l[1].h = Tcp, NEW i \in 1..Len(k), k[i].h = Tcp
                 PROVE  FALSE
      BY DEF Free
    <3>1. i + 1 = 1
      BY <1>1, <1>3 DEF Few
    <3> QED
      BY <1>2, <3>1
  <2> QED
    BY <2>1, <2>2
<1> QED
  BY <1>2, <1>4, <1>7, <1>8, <1>9, <1>10 DEF k

\* The time waited comes off the first timer: it is counted.
LEMMA CutOK ==
  ASSUME NEW l, NEW s \in Nat, ListOK(l, s), l # <<>>, NEW k, Shortened(k, l, Monus(l[1].time, s))
  PROVE  /\ ListOK(k, 0) /\ Len(k) = Len(l)
         /\ Free(l) => Free(k)
         /\ Few(l) => Few(k)
<1>1. l \in Seq(Entry) /\ Len(l) \in Nat /\ LongestDelay \in Nat /\ 1 \in 1..Len(l)
      /\ \A i \in 1..Len(l) : Sum(l, i) <= LongestDelay /\ l[i].left <= Monus(Sum(l, i), s)
  BY EntryFacts DEF ListOK
<1>2. l[1].time \in Nat
  BY <1>1, EntryFacts
<1>3. PICK t \in 0..l[1].time : t = Monus(l[1].time, s)
  BY <1>2 DEF Monus
<1>4. /\ k \in Seq(Entry) /\ Len(k) = Len(l)
      /\ \A i \in 1..Len(l) : /\ k[i].h = l[i].h /\ k[i].left = l[i].left
                            /\ Sum(k, i) = Sum(l, i) - (l[1].time - t)
  <2>1. Shortened(k, l, t)
    BY <1>3
  <2> QED
    BY <1>1, <2>1, HeadLess
<1>5. ASSUME NEW i \in 1..Len(l)
      PROVE  Sum(k, i) <= LongestDelay /\ k[i].left <= Monus(Sum(k, i), 0)
  <2>1. Sum(l, i) \in Nat /\ l[i].left \in Nat /\ Sum(l, i) <= LongestDelay
        /\ l[i].left <= Monus(Sum(l, i), s)
    BY <1>1, EntryFacts
  <2>2. l[1].time <= Sum(l, i)
    <3>1. Sum(l, 1) <= Sum(l, i) /\ Sum(l, 1) = l[1].time
      BY <1>1, EntryFacts, SumMono, TailIs
    <3> QED
      BY <3>1
  <2>3. Sum(k, i) = Sum(l, i) - (l[1].time - t) /\ k[i].left = l[i].left
    BY <1>4
  <2>4. l[i].left <= Monus(Sum(l, i) - (l[1].time - t), 0)
    <3>1. t \in Nat
      BY <1>2
    <3> QED
      BY <1>2, <1>3, <2>1, <2>2, <3>1, MonusCut
  <2>5. Sum(l, i) - (l[1].time - t) <= LongestDelay
    BY <1>1, <1>2, <2>1
  <2> QED
    BY <2>3, <2>4, <2>5
<1>6. (Free(l) => Free(k)) /\ (Few(l) => Few(k))
  BY <1>4 DEF Free, Few
<1> QED
  BY <1>4, <1>5, <1>6 DEF ListOK

Ticked(k, l) == k = [i \in DOMAIN l |-> [l[i] EXCEPT !.left = Monus(@, 1)]]

\* Time passes: it is over for every timer.
LEMMA TickOK ==
  ASSUME NEW l, NEW s \in Nat, NEW r \in {s, s + 1}, ListOK(l, s),
         NEW k, Ticked(k, l)
  PROVE  /\ ListOK(k, r) /\ Len(k) = Len(l) /\ DOMAIN k = DOMAIN l
         /\ \A i \in 1..Len(l) : Sum(k, i) = Sum(l, i) /\ k[i].h = l[i].h /\ k[i].time = l[i].time
         /\ Free(l) => Free(k)
         /\ Few(l) => Few(k)
<1>1. l \in Seq(Entry) /\ Len(l) \in Nat /\ LongestDelay \in Nat /\ DOMAIN l = 1..Len(l)
      /\ \A i \in 1..Len(l) : l[i] \in Entry /\ Sum(l, i) <= LongestDelay
                             /\ l[i].left <= Monus(Sum(l, i), s)
  BY EntryFacts DEF ListOK
<1>2. ASSUME NEW i \in 1..Len(l)
      PROVE  /\ k[i] \in Entry /\ k[i].h = l[i].h /\ k[i].time = l[i].time
             /\ k[i].left = Monus(l[i].left, 1)
  <2>1. k[i] = [l[i] EXCEPT !.left = Monus(@, 1)] /\ l[i] \in Entry
    BY <1>1 DEF Ticked
  <2>2. l[i].left \in 0..LongestDelay
    BY <2>1 DEF Entry
  <2>3. Monus(l[i].left, 1) \in 0..LongestDelay
    BY <1>1, <2>2 DEF Monus
  <2> QED
    BY <2>1, <2>3 DEF Entry
<1>3. k \in Seq(Entry) /\ Len(k) = Len(l) /\ DOMAIN k = DOMAIN l
  <2>1. k = [i \in 1..Len(l) |-> k[i]] /\ DOMAIN k = DOMAIN l
    BY <1>1 DEF Ticked
  <2> QED
    BY <1>1, <1>2, <2>1
<1>4. ASSUME NEW i \in 1..Len(l) PROVE Sum(k, i) = Sum(l, i)
  <2>1. i \in Nat /\ Timed(l, i)
    BY <1>1, EntryFacts
  <2>2. \A j \in 1..i : k[j].time = l[j].time
    BY <1>1, <1>2
  <2> QED
    BY <2>1, <2>2, SumSame
<1>5. ASSUME NEW i \in 1..Len(l) PROVE k[i].left <= Monus(Sum(l, i), r)
  <2>1. Sum(l, i) \in Nat /\ l[i].left \in Nat /\ l[i].left <= Monus(Sum(l, i), s)
    BY <1>1, EntryFacts
  <2>2. k[i].left = Monus(l[i].left, 1)
    BY <1>2
  <2> QED
    BY <2>1, <2>2 DEF Monus
<1>6. ListOK(k, r)
  BY <1>1, <1>3, <1>4, <1>5 DEF ListOK
<1>7. (Free(l) => Free(k)) /\ (Few(l) => Few(k))
  BY <1>2, <1>3 DEF Free, Few
<1> QED
  BY <1>2, <1>3, <1>4, <1>6, <1>7

\* sys_timeout, which does nothing when the pool is empty.
LEMMA ArmedOK ==
  ASSUME NEW s \in Nat, ListOK(list, s), pool \in Nat, Len(list) <= pool, NEW h \in Handlers,
         NEW ms \in Times, NEW left \in 0..LongestDelay, left <= Monus(ms, s)
  PROVE  /\ ListOK(Armed(h, ms, left), s) /\ Len(Armed(h, ms, left)) <= pool
         /\ h # Tcp /\ Free(list) => Free(Armed(h, ms, left))
         /\ h # Tcp /\ Few(list) => Few(Armed(h, ms, left))
         /\ Free(list) => Few(Armed(h, ms, left))
         /\ list # <<>> => /\ Armed(h, ms, left) # <<>>
                           /\ Armed(h, ms, left)[1].time <= list[1].time
<1> DEFINE k == Armed(h, ms, left)
<1>1. list \in Seq(Entry) /\ Len(list) \in Nat /\ LongestDelay \in Nat
  BY EntryFacts DEF ListOK
<1>2. CASE ~ Len(list) < pool
  <2>1. k = list
    BY <1>2 DEF Armed
  <2>2. list # <<>> => list[1].time \in Nat
    BY <1>1, EntryFacts
  <2> HIDE DEF k
  <2>3. Free(list) => Few(k)
    BY <2>1 DEF Free, Few
  <2> QED
    BY <2>1, <2>2, <2>3 DEF k
<1>3. CASE Len(list) < pool
  <2>1. k = Insert(list, h, ms, left)
    BY <1>3 DEF Armed
  <2>2. ListOK(k, s) /\ Len(k) = Len(list) + 1
    BY <2>1, InsertOK
  <2>3. PICK p \in 0..Len(list) : Inserted(k, list, p, h, ms, left)
    BY <2>1, InsertOK
  <2> HIDE DEF k
  <2>4. /\ h # Tcp /\ Free(list) => Free(k)
        /\ h # Tcp /\ Few(list) => Few(k)
        /\ Free(list) => Few(k)
    BY <1>1, <2>3, InsertTcp
  <2>5. k \in Seq(Entry) /\ k # <<>>
    BY <1>1, <2>2 DEF ListOK
  <2>6. ASSUME list # <<>> PROVE k[1].time <= list[1].time
    <3>1. Sum(k, 1) = k[1].time /\ Sum(list, 1) = list[1].time
      BY <1>1, <2>5, <2>6, TailIs
    <3>2. 1 \in 1..Len(list) /\ list[1].time \in Nat /\ ms \in Nat
      BY <1>1, <2>6, EntryFacts, Longest
    <3>3. CASE p = 0
      <4>1. Sum(k, p + 1) = ms /\ Sum(list, 1) > ms /\ p + 1 = 1
        BY <2>3, <3>2, <3>3 DEF Inserted
      <4> QED
        BY <3>1, <3>2, <4>1
    <3>4. CASE p # 0
      <4>1. Sum(k, 1) = Sum(list, 1)
        BY <1>1, <2>3, <3>4 DEF Inserted
      <4> QED
        BY <3>1, <3>2, <4>1
    <3> QED
      BY <3>3, <3>4
  <2>7. Len(k) <= pool
    BY <1>1, <1>3, <2>2
  <2> QED
    BY <2>2, <2>4, <2>5, <2>6, <2>7 DEF k
<1> QED
  BY <1>2, <1>3

-----------------------------------------------------------------------------
(* The inductive invariant.                                                *)

\* The time waited that is not yet taken off the list.
Counted == IF at = "asleep" THEN slept ELSE 0

\* The thread waits for the first timer, in front of which ethernetif_init may
\* have put another.
Waiting == at = "asleep" /\ wait > 0 => list # <<>> /\ list[1].time <= wait

\* The TCP timer: on the list, or in its handler, and neither without the flag.
TimerOK ==
  /\ pcbs => active
  /\ Few(list)
  /\ cur = Tcp => active /\ Free(list)
  /\ ~active => Free(list)

IInv == TypeOK /\ ListOK(list, Counted) /\ Waiting /\ TimerOK

\* What the assumption says of the constants.
LEMMA ConstFacts ==
  /\ LongestDelay \in Nat /\ LongestDelay >= 1 /\ Times \subseteq 1..LongestDelay
  /\ \A h \in System : Period[h] \in Times
  /\ Delays \subseteq Times
  /\ System \subseteq Handlers /\ App \in Handlers /\ App # Tcp
  /\ Tcp \in System /\ Eth \in System /\ Eth # Tcp
  /\ None \notin Handlers /\ None # Tcp
  /\ \A i \in 1..Len(Boot) : Boot[i] \in System /\ Boot[i] # Tcp
  /\ Len(Boot) \in Nat
  /\ \A n \in Pools : n \in Nat /\ n > Len(Boot)
<1>1. LongestDelay \in Nat /\ LongestDelay >= 1 /\ Times \subseteq 1..LongestDelay
  BY Longest
<1>2. Boot \in Seq(ToSet(Boot)) /\ Len(Boot) \in Nat /\ Tcp \notin ToSet(Boot)
  BY TimersAssumption
<1>3. \A i \in 1..Len(Boot) : Boot[i] \in ToSet(Boot)
  BY <1>2
<1> QED
  BY <1>1, <1>2, <1>3, TimersAssumption DEF System, Handlers, Times

\* TypeOK, with a name for the type of an entry.
LEMMA TypeIs == TypeOK <=> (/\ pool \in Pools
                          /\ list \in Seq(Entry)
                          /\ Len(list) <= pool
                          /\ at \in {"boot", "top", "asleep", "message", "handler"}
                          /\ cur \in Handlers \cup {None} /\ (cur # None <=> at = "handler")
                          /\ wait \in 0..LongestDelay /\ slept \in 0..wait
                          /\ {ethUp, pcbs, active} \subseteq BOOLEAN)
BY DEF TypeOK, Entry

\* The invariant holds before the stack is initialised.
LEMMA InitOK == Init => IInv
<1> SUFFICES ASSUME Init PROVE IInv
  OBVIOUS
<1>1. list = <<>> /\ list \in Seq(Entry) /\ Len(list) = 0
  BY DEF Init
<1>2. TypeOK
  <2>1. pool \in Pools /\ pool \in Nat /\ cur = None /\ cur \in Handlers \cup {None}
    BY ConstFacts DEF Init
  <2>2. wait \in 0..LongestDelay /\ slept \in 0..wait
    BY ConstFacts DEF Init
  <2>3. at = "boot" /\ {ethUp, pcbs, active} \subseteq BOOLEAN
    BY DEF Init
  <2>4. Len(list) <= pool
    BY <1>1, <2>1
  <2> QED
    BY <1>1, <2>1, <2>2, <2>3, <2>4, TypeIs
<1>3. ListOK(list, Counted)
  BY <1>1 DEF ListOK
<1>4. Waiting /\ TimerOK
  BY <1>1, ConstFacts DEF Waiting, TimerOK, Few, Free, Init
<1> QED
  BY <1>2, <1>3, <1>4 DEF IInv

\* The parts of the invariant that a step of the thread needs.
LEMMA Facts ==
  ASSUME IInv
  PROVE  /\ pool \in Pools /\ pool \in Nat /\ Len(list) <= pool /\ pool > Len(Boot)
         /\ list \in Seq(Entry) /\ Len(list) \in Nat /\ DOMAIN list = 1..Len(list)
         /\ LongestDelay \in Nat
         /\ at \in {"boot", "top", "asleep", "message", "handler"}
         /\ cur \in Handlers \cup {None} /\ (cur # None <=> at = "handler")
         /\ wait \in 0..LongestDelay /\ slept \in 0..wait /\ wait \in Nat /\ slept \in Nat
         /\ {ethUp, pcbs, active} \subseteq BOOLEAN
         /\ Counted \in Nat /\ ListOK(list, Counted)
         /\ at # "asleep" => ListOK(list, 0)
         /\ Few(list)
<1>1. TypeOK /\ ListOK(list, Counted) /\ Few(list)
  BY DEF IInv, TimerOK
<1>2. LongestDelay \in Nat
  BY ConstFacts
<1>3. /\ pool \in Pools /\ Len(list) <= pool /\ list \in Seq(Entry)
      /\ at \in {"boot", "top", "asleep", "message", "handler"}
      /\ cur \in Handlers \cup {None} /\ (cur # None <=> at = "handler")
      /\ wait \in 0..LongestDelay /\ slept \in 0..wait
      /\ {ethUp, pcbs, active} \subseteq BOOLEAN
  BY <1>1, TypeIs
<1>4. pool \in Nat /\ pool > Len(Boot)
  BY <1>3, ConstFacts
<1>5. wait \in Nat /\ slept \in Nat
  BY <1>2, <1>3
<1>6. Counted \in Nat /\ (at # "asleep" => Counted = 0)
  BY <1>5 DEF Counted
<1>7. Len(list) \in Nat /\ DOMAIN list = 1..Len(list)
  BY <1>3
<1> QED
  BY <1>1, <1>2, <1>3, <1>4, <1>5, <1>6, <1>7

\* What the invariant says of the list, after a step.
LEMMA StepList ==
  ASSUME IInv, pool' = pool, NEW s, ListOK(list', s), Counted' = s, Len(list') <= pool,
         at' \in {"boot", "top", "asleep", "message", "handler"},
         cur' \in Handlers \cup {None}, cur' # None <=> at' = "handler",
         wait' \in 0..LongestDelay, slept' \in 0..wait',
         {ethUp', pcbs', active'} \subseteq BOOLEAN
  PROVE  TypeOK' /\ ListOK(list', Counted')
<1>1. list' \in Seq(Entry)
  BY DEF ListOK
<1>2. pool' \in Pools
  BY Facts
<1> QED
  BY <1>1, <1>2 DEF TypeOK, Entry

\* sys_timeouts_init keeps the invariant.
LEMMA BootStepOK == IInv /\ BootStep => IInv'
<1> SUFFICES ASSUME IInv, BootStep PROVE IInv'
  OBVIOUS
<1>0. /\ at = "boot" /\ cur = None /\ cur' = None /\ cur # Tcp
      /\ UNCHANGED <<pool, cur, wait, slept, ethUp, pcbs, active>>
  BY Facts, ConstFacts DEF BootStep
<1>1. at' \in {"boot", "top"}
  BY <1>0 DEF BootStep
<1>2. /\ ListOK(list', 0) /\ Len(list') <= pool
      /\ Free(list) => Free(list')
      /\ Few(list')
  <2>1. CASE Len(list) < Len(Boot)
    <3>1. PICK h : h = Boot[Len(list) + 1]
      OBVIOUS
    <3>2. list' = Armed(h, Period[h], Period[h])
      BY <1>0, <2>1, <3>1 DEF BootStep
    <3>3. Len(list) + 1 \in 1..Len(Boot)
      BY <2>1, Facts, ConstFacts
    <3>4. h \in System /\ h \in Handlers /\ h # Tcp
      BY <3>1, <3>3, ConstFacts
    <3>5. Period[h] \in Times /\ Period[h] \in 0..LongestDelay /\ Period[h] <= Monus(Period[h], 0)
      <4>1. Period[h] \in Times /\ Period[h] \in 1..LongestDelay /\ LongestDelay \in Nat
        BY <3>4, ConstFacts
      <4> QED
        BY <4>1 DEF Monus
    <3>6. ListOK(list, 0) /\ Len(list) <= pool /\ pool \in Nat /\ Few(list)
      BY <1>0, Facts
    <3> QED
      BY <3>2, <3>4, <3>5, <3>6, ArmedOK
  <2>2. CASE ~(Len(list) < Len(Boot))
    <3>1. list' = list
      BY <1>0, <2>2 DEF BootStep
    <3> QED
      BY <1>0, <3>1, Facts
  <2> QED
    BY <2>1, <2>2
<1>3. Counted' = 0
  BY <1>1 DEF Counted
<1>4. TypeOK' /\ ListOK(list', Counted')
  <2>1. /\ wait' \in 0..LongestDelay /\ slept' \in 0..wait' /\ {ethUp', pcbs', active'} \subseteq BOOLEAN
        /\ at' \in {"boot", "top", "asleep", "message", "handler"}
        /\ cur' \in Handlers \cup {None} /\ (cur' # None <=> at' = "handler")
        /\ pool' = pool
    BY <1>0, <1>1, Facts
  <2> QED
    BY <1>2, <1>3, <2>1, StepList
<1>5. Waiting'
  BY <1>1 DEF Waiting
<1>6. TimerOK'
  BY <1>0, <1>2 DEF IInv, TimerOK
<1> QED
  BY <1>4, <1>5, <1>6 DEF IInv

\* The thread begins to wait: the invariant holds, with the time of the first timer.
LEMMA FetchOK == IInv /\ Fetch => IInv'
<1> SUFFICES ASSUME IInv, Fetch PROVE IInv'
  OBVIOUS
<1>0. /\ at = "top" /\ at' = "asleep" /\ slept' = 0 /\ cur = None
      /\ UNCHANGED <<pool, list, cur, ethUp, pcbs, active>>
  BY Facts DEF Fetch
<1>1. IF list = <<>> THEN wait' = 0 ELSE wait' = list[1].time /\ list[1].time \in 0..LongestDelay
  <2>1. CASE list = <<>>
    BY <2>1 DEF Fetch
  <2>2. CASE list # <<>>
    <3>1. list \in Seq(Entry) /\ 1 \in 1..Len(list) /\ Head(list) = list[1]
      BY <2>2, Facts
    <3>2. wait' = Head(list).time
      BY <2>2 DEF Fetch
    <3> QED
      BY <2>2, <3>1, <3>2, EntryFacts
  <2> QED
    BY <2>1, <2>2
<1>2. wait' \in 0..LongestDelay
  BY <1>1, Facts
<1>3. Counted' = 0 /\ ListOK(list', 0) /\ Len(list') <= pool /\ slept' \in 0..wait'
  BY <1>0, <1>2, Facts DEF Counted
<1>4. TypeOK' /\ ListOK(list', Counted')
  <2>1. /\ {ethUp', pcbs', active'} \subseteq BOOLEAN
        /\ at' \in {"boot", "top", "asleep", "message", "handler"}
        /\ cur' \in Handlers \cup {None} /\ (cur' # None <=> at' = "handler")
        /\ pool' = pool
    BY <1>0, Facts
  <2> QED
    BY <1>2, <1>3, <2>1, StepList
<1>5. Waiting'
  <2>1. list # <<>> => list[1].time <= list[1].time
    BY <1>1
  <2> QED
    BY <1>0, <1>1, <2>1 DEF Waiting
<1>6. TimerOK'
  BY <1>0 DEF IInv, TimerOK
<1> QED
  BY <1>4, <1>5, <1>6 DEF IInv

\* The timer that expires has waited as long as the list says.
LEMMA ExpireFacts ==
  ASSUME IInv, Expire
  PROVE  /\ list # <<>> /\ list[1].time <= Counted
         /\ Head(list) \in Entry /\ Head(list).left = 0 /\ Head(list).h \in Handlers
         /\ ListOK(Tail(list), 0) /\ Len(Tail(list)) < Len(list)
         /\ Free(list) => Head(list).h # Tcp /\ Free(Tail(list))
         /\ Few(Tail(list))
         /\ Head(list).h = Tcp => Free(Tail(list))
<1>1. list # <<>> /\ list[1].time <= Counted
  <2>1. CASE at = "top" /\ list # <<>> /\ Head(list).time = 0
    <3>1. Head(list) = list[1] /\ Counted = 0
      BY <2>1, Facts DEF Counted
    <3> QED
      BY <2>1, <3>1
  <2>2. CASE at = "asleep" /\ wait > 0 /\ slept = wait
    BY <2>2 DEF IInv, Waiting, Counted
  <2> QED
    BY <2>1, <2>2 DEF Expire
<1>2. Counted \in Nat /\ ListOK(list, Counted) /\ Few(list)
  BY Facts
<1>3. Head(list) \in Entry
  BY <1>1, <1>2, TailOK
<1>4. Head(list).h \in Handlers
  BY <1>3 DEF Entry
<1> QED
  BY <1>1, <1>2, <1>3, <1>4, TailOK

\* The removal of the first timer keeps the invariant.
LEMMA ExpireOK == IInv /\ Expire => IInv'
<1> SUFFICES ASSUME IInv, Expire PROVE IInv'
  OBVIOUS
<1>0. /\ list' = Tail(list) /\ cur' = Head(list).h /\ at' = "handler" /\ cur = None
      /\ UNCHANGED <<pool, wait, slept, ethUp, pcbs, active>>
  BY Facts DEF Expire
<1>1. /\ cur' \in Handlers /\ cur' # None
      /\ ListOK(list', 0) /\ Len(list') <= pool
      /\ Free(list) => cur' # Tcp /\ Free(list')
      /\ Few(list')
      /\ cur' = Tcp => Free(list')
  <2>1. Len(list') < Len(list) /\ Len(list') \in Nat
    BY <1>0, ExpireFacts DEF ListOK
  <2>2. Len(list') <= pool
    BY <2>1, Facts
  <2> QED
    BY <1>0, <2>2, ExpireFacts, ConstFacts
<1>3. Counted' = 0
  BY <1>0 DEF Counted
<1>4. TypeOK' /\ ListOK(list', Counted')
  <2>1. /\ wait' \in 0..LongestDelay /\ slept' \in 0..wait' /\ {ethUp', pcbs', active'} \subseteq BOOLEAN
        /\ at' \in {"boot", "top", "asleep", "message", "handler"}
        /\ cur' \in Handlers \cup {None} /\ (cur' # None <=> at' = "handler")
        /\ pool' = pool
    BY <1>0, <1>1, Facts
  <2> QED
    BY <1>1, <1>3, <2>1, StepList
<1>5. Waiting'
  BY <1>0 DEF Waiting
<1>6. TimerOK'
  <2>1. active \in BOOLEAN
    BY Facts
  <2> QED
    BY <1>0, <1>1, <2>1 DEF IInv, TimerOK
<1> QED
  BY <1>4, <1>5, <1>6 DEF IInv

\* The time taken off for a message keeps the invariant.
LEMMA ReceiveOK == IInv /\ Receive => IInv'
<1> SUFFICES ASSUME IInv, Receive PROVE IInv'
  OBVIOUS
<1>0. /\ at = "asleep" /\ at' = "message" /\ cur = None /\ cur' = None
      /\ UNCHANGED <<pool, cur, wait, slept, ethUp, pcbs, active>>
      /\ list' = IF wait = 0 THEN list ELSE [list EXCEPT ![1].time = Monus(@, slept)]
  BY Facts DEF Receive
<1>1. Counted = slept /\ Counted \in Nat /\ ListOK(list, slept) /\ Len(list) <= pool
      /\ wait \in Nat /\ slept \in 0..wait /\ Few(list)
  BY <1>0, Facts DEF Counted
<1>2. /\ ListOK(list', 0) /\ Len(list') <= pool
      /\ Free(list) => Free(list')
      /\ Few(list')
  <2>1. CASE wait = 0
    <3>1. slept = 0 /\ list' = list
      BY <1>0, <1>1, <2>1
    <3> QED
      BY <1>1, <3>1
  <2>2. CASE wait # 0
    <3>1. list # <<>>
      BY <1>0, <1>1, <2>2 DEF IInv, Waiting
    <3>2. Shortened(list', list, Monus(list[1].time, slept))
      <4>1. list' = [list EXCEPT ![1].time = Monus(@, slept)]
        BY <1>0, <2>2
      <4>2. list' = [list EXCEPT ![1].time = Monus(list[1].time, slept)]
        <5>1. 1 \in DOMAIN list /\ list \in Seq(Entry) /\ list[1] \in Entry
          BY <3>1, Facts
        <5> QED
          BY <4>1, <5>1
      <4> QED
        BY <4>2 DEF Shortened
    <3>3. slept \in Nat
      BY <1>1
    <3> QED
      BY <1>1, <3>1, <3>2, <3>3, CutOK
  <2> QED
    BY <2>1, <2>2
<1>3. Counted' = 0
  BY <1>0 DEF Counted
<1>4. TypeOK' /\ ListOK(list', Counted')
  <2>1. /\ wait' \in 0..LongestDelay /\ slept' \in 0..wait' /\ {ethUp', pcbs', active'} \subseteq BOOLEAN
        /\ at' \in {"boot", "top", "asleep", "message", "handler"}
        /\ cur' \in Handlers \cup {None} /\ (cur' # None <=> at' = "handler")
        /\ pool' = pool
    BY <1>0, Facts
  <2> QED
    BY <1>2, <1>3, <2>1, StepList
<1>5. Waiting'
  BY <1>0 DEF Waiting
<1>6. TimerOK'
  BY <1>0, <1>2 DEF IInv, TimerOK
<1> QED
  BY <1>4, <1>5, <1>6 DEF IInv

\* The thread arms a timer for its whole delay.
LEMMA ThreadArms ==
  ASSUME IInv, at # "asleep", NEW h \in Handlers, NEW ms \in Times
  PROVE  /\ ListOK(Armed(h, ms, ms), 0) /\ Len(Armed(h, ms, ms)) <= pool
         /\ h # Tcp /\ Free(list) => Free(Armed(h, ms, ms))
         /\ h # Tcp => Few(Armed(h, ms, ms))
         /\ Free(list) => Few(Armed(h, ms, ms))
<1>1. ms \in 0..LongestDelay /\ ms <= Monus(ms, 0)
  <2>1. ms \in 1..LongestDelay /\ LongestDelay \in Nat
    BY ConstFacts
  <2> QED
    BY <2>1 DEF Monus
<1>2. ListOK(list, 0) /\ Len(list) <= pool /\ pool \in Nat /\ Few(list)
  BY Facts
<1> QED
  BY <1>1, <1>2, ArmedOK

\* tcp_timer_needed, with PCBs or without.
LEMMA NeededOK ==
  ASSUME IInv, at = "message", NEW some \in BOOLEAN, TimerNeeded(some), some \/ ~pcbs' \/ active
  PROVE  /\ ListOK(list', 0) /\ Len(list') <= pool /\ active' \in BOOLEAN
         /\ (some => active') /\ (active => active')
         /\ Few(list') /\ (~active' => Free(list'))
<1>1. ListOK(list, 0) /\ Len(list) <= pool /\ Few(list) /\ active \in BOOLEAN
  BY Facts
<1>2. ~active => Free(list)
  BY DEF IInv, TimerOK
<1>3. active' = (active \/ some)
  BY DEF TimerNeeded
<1>4. active' \in BOOLEAN /\ (some => active') /\ (active => active')
  BY <1>1, <1>3
<1>5. CASE some /\ ~active
  <2>1. list' = Armed(Tcp, Period[Tcp], Period[Tcp])
    BY <1>5 DEF TimerNeeded
  <2>2. Tcp \in Handlers /\ Period[Tcp] \in Times
    BY ConstFacts
  <2>3. ListOK(list', 0) /\ Len(list') <= pool /\ Few(list')
    BY <1>2, <1>5, <2>1, <2>2, ThreadArms
  <2> QED
    BY <1>4, <1>5, <2>3
<1>6. CASE ~(some /\ ~active)
  <2>1. list' = list
    BY <1>6 DEF TimerNeeded
  <2> QED
    BY <1>1, <1>2, <1>3, <1>4, <1>6, <2>1
<1> QED
  BY <1>5, <1>6

\* What a message does to the timers and the flag.
LEMMA MessageOK ==
  ASSUME IInv, Process
  PROVE  /\ ListOK(list', 0) /\ Len(list') <= pool /\ {pcbs', active'} \subseteq BOOLEAN
         /\ (pcbs' => active')
         /\ Few(list') /\ (~active' => Free(list'))
<1>1. ListOK(list, 0) /\ Len(list) <= pool /\ Few(list) /\ {pcbs, active} \subseteq BOOLEAN
      /\ at = "message"
  BY Facts DEF Process
<1>2. (~active => Free(list)) /\ (pcbs => active)
  BY DEF IInv, TimerOK
<1>3. CASE Register
  <2>1. pcbs' = TRUE /\ TimerNeeded(TRUE)
    BY <1>3 DEF Register
  <2> QED
    BY <1>1, <2>1, NeededOK
<1>4. CASE RegisterBound
  <2>1. pcbs' = pcbs /\ TimerNeeded(pcbs) /\ pcbs \in BOOLEAN
    BY <1>1, <1>4 DEF RegisterBound
  <2>2. ~pcbs' \/ active
    BY <1>2, <2>1
  <2>3. /\ ListOK(list', 0) /\ Len(list') <= pool /\ active' \in BOOLEAN
        /\ (active => active')
        /\ Few(list') /\ (~active' => Free(list'))
    BY <1>1, <2>1, <2>2, NeededOK
  <2> QED
    BY <1>2, <2>1, <2>3
<1>5. CASE LastPcbGone
  BY <1>1, <1>2, <1>5 DEF LastPcbGone
<1>6. CASE AppUntimeout
  <2>1. list' = Without(list, App) /\ pcbs' = pcbs /\ active' = active
    BY <1>6 DEF AppUntimeout
  <2>2. /\ ListOK(list', 0) /\ Len(list') <= Len(list) /\ (Free(list) => Free(list'))
        /\ Few(list')
    BY <1>1, <2>1, WithoutOK
  <2>3. Len(list') <= pool
    <3>1. Len(list') \in Nat /\ Len(list) \in Nat /\ pool \in Nat
      BY <2>2, Facts DEF ListOK
    <3> QED
      BY <1>1, <2>2, <3>1
  <2> QED
    BY <1>1, <1>2, <2>1, <2>2, <2>3
<1>7. CASE OtherMessage
  BY <1>1, <1>2, <1>7 DEF OtherMessage
<1>8. CASE \E ms \in Delays : AppTimeout(ms)
  <2>1. PICK ms \in Delays : AppTimeout(ms)
    BY <1>8
  <2>2. ms \in Times /\ App \in Handlers /\ App # Tcp
    BY ConstFacts
  <2>3. list' = Armed(App, ms, ms) /\ pcbs' = pcbs /\ active' = active
    BY <2>1 DEF AppTimeout
  <2>4. ListOK(list', 0) /\ Len(list') <= pool /\ Few(list') /\ (Free(list) => Free(list'))
    BY <1>1, <2>2, <2>3, ThreadArms
  <2> QED
    BY <1>1, <1>2, <2>3, <2>4
<1> QED
  BY <1>3, <1>4, <1>5, <1>6, <1>7, <1>8 DEF Process

\* A message keeps the invariant.
LEMMA ProcessOK == IInv /\ Process => IInv'
<1> SUFFICES ASSUME IInv, Process PROVE IInv'
  OBVIOUS
<1>0. /\ at = "message" /\ at' = "top" /\ cur = None /\ cur' = None /\ cur' # Tcp
      /\ UNCHANGED <<pool, cur, wait, slept, ethUp>>
  BY Facts, ConstFacts DEF Process
<1>1. Counted' = 0
  BY <1>0 DEF Counted
<1>2. TypeOK' /\ ListOK(list', Counted')
  <2>1. /\ wait' \in 0..LongestDelay /\ slept' \in 0..wait' /\ {ethUp', pcbs', active'} \subseteq BOOLEAN
        /\ at' \in {"boot", "top", "asleep", "message", "handler"}
        /\ cur' \in Handlers \cup {None} /\ (cur' # None <=> at' = "handler")
        /\ pool' = pool
    BY <1>0, Facts, MessageOK
  <2> QED
    BY <1>1, <2>1, MessageOK, StepList
<1>3. Waiting'
  BY <1>0 DEF Waiting
<1>4. TimerOK'
  BY <1>0, MessageOK DEF TimerOK
<1> QED
  BY <1>2, <1>3, <1>4 DEF IInv

\* A handler that arms itself again, or does not, keeps the invariant.
LEMMA HandleOK == IInv /\ Handle => IInv'
<1> SUFFICES ASSUME IInv, Handle PROVE IInv'
  OBVIOUS
<1>0. /\ at = "handler" /\ at' = "top" /\ cur' = None /\ cur' # Tcp /\ cur \in Handlers
      /\ UNCHANGED <<pool, wait, slept, ethUp>> /\ Rearm(cur)
  BY Facts, ConstFacts DEF Handle
<1>1. ListOK(list, 0) /\ Len(list) <= pool /\ Few(list) /\ {pcbs, active} \subseteq BOOLEAN
      /\ (~active => Free(list)) /\ (pcbs => active)
  BY <1>0, Facts DEF IInv, TimerOK
<1>2. /\ ListOK(list', 0) /\ Len(list') <= pool /\ {pcbs', active'} \subseteq BOOLEAN
      /\ (pcbs' => active')
      /\ Few(list') /\ (~active' => Free(list'))
  <2>1. CASE cur = App
    BY <1>0, <1>1, <2>1 DEF Rearm
  <2>2. CASE cur # App /\ cur # Tcp
    <3>1. list' = Armed(cur, Period[cur], Period[cur]) /\ pcbs' = pcbs /\ active' = active
      BY <1>0, <2>2 DEF Rearm
    <3>2. cur \in System /\ Period[cur] \in Times
      <4>1. cur \in System
        BY <1>0, <2>2 DEF Handlers
      <4> QED
        BY <4>1, ConstFacts
    <3>3. ListOK(list', 0) /\ Len(list') <= pool /\ Few(list') /\ (Free(list) => Free(list'))
      BY <1>0, <2>2, <3>1, <3>2, ThreadArms
    <3> QED
      BY <1>1, <3>1, <3>3
  <2>3. CASE cur = Tcp
    <3>1. /\ pcbs' \in {pcbs, FALSE} /\ active' = (active /\ pcbs')
          /\ list' = IF pcbs' THEN Armed(Tcp, Period[Tcp], Period[Tcp]) ELSE list
      BY <1>0, <2>3, ConstFacts DEF Rearm
    <3>2. active /\ Free(list)
      BY <2>3 DEF IInv, TimerOK
    <3>3. Tcp \in Handlers /\ Period[Tcp] \in Times
      BY ConstFacts
    <3>4. {pcbs', active'} \subseteq BOOLEAN /\ (pcbs' => active') /\ (~active' => ~pcbs')
      BY <1>1, <3>1, <3>2
    <3>5. CASE pcbs'
      <4>1. ListOK(list', 0) /\ Len(list') <= pool /\ Few(list')
        BY <1>0, <3>1, <3>2, <3>3, <3>5, ThreadArms
      <4> QED
        BY <3>4, <3>5, <4>1
    <3>6. CASE ~pcbs'
      BY <1>1, <3>1, <3>2, <3>4, <3>6
    <3> QED
      BY <3>5, <3>6
  <2> QED
    BY <2>1, <2>2, <2>3
<1>3. Counted' = 0
  BY <1>0 DEF Counted
<1>4. TypeOK' /\ ListOK(list', Counted')
  <2>1. /\ wait' \in 0..LongestDelay /\ slept' \in 0..wait' /\ {ethUp', pcbs', active'} \subseteq BOOLEAN
        /\ at' \in {"boot", "top", "asleep", "message", "handler"}
        /\ cur' \in Handlers \cup {None} /\ (cur' # None <=> at' = "handler")
        /\ pool' = pool
    BY <1>0, <1>2, Facts
  <2> QED
    BY <1>2, <1>3, <2>1, StepList
<1>5. Waiting'
  BY <1>0 DEF Waiting
<1>6. TimerOK'
  BY <1>0, <1>2 DEF TimerOK
<1> QED
  BY <1>4, <1>5, <1>6 DEF IInv

\* ethernetif_init keeps the invariant, at whatever moment it arms its timer.
LEMMA EthInitOK == IInv /\ EthInit => IInv'
<1> SUFFICES ASSUME IInv, EthInit PROVE IInv'
  OBVIOUS
<1>0. /\ ethUp' = TRUE /\ list' = Armed(Eth, Period[Eth], 0)
      /\ UNCHANGED <<pool, at, cur, wait, slept, pcbs, active>>
  BY DEF EthInit
<1>1. Counted' = Counted /\ Counted \in Nat
  BY <1>0, Facts DEF Counted
<1>2. /\ ListOK(list', Counted) /\ Len(list') <= pool
      /\ Free(list) => Free(list')
      /\ Few(list')
      /\ list # <<>> => list' # <<>> /\ list'[1].time <= list[1].time
  <2>1. Eth \in Handlers /\ Eth # Tcp /\ Period[Eth] \in Times
    BY ConstFacts
  <2>2. 0 \in 0..LongestDelay /\ 0 <= Monus(Period[Eth], Counted)
    <3>1. Period[Eth] \in 1..LongestDelay /\ LongestDelay \in Nat
      BY <2>1, ConstFacts
    <3> QED
      BY <1>1, <3>1 DEF Monus
  <2>3. ListOK(list, Counted) /\ Len(list) <= pool /\ pool \in Nat /\ Few(list)
    BY Facts
  <2> QED
    BY <1>0, <1>1, <2>1, <2>2, <2>3, ArmedOK
<1>4. TypeOK' /\ ListOK(list', Counted')
  <2>1. /\ wait' \in 0..LongestDelay /\ slept' \in 0..wait' /\ {ethUp', pcbs', active'} \subseteq BOOLEAN
        /\ at' \in {"boot", "top", "asleep", "message", "handler"}
        /\ cur' \in Handlers \cup {None} /\ (cur' # None <=> at' = "handler")
        /\ pool' = pool
    BY <1>0, Facts
  <2> QED
    BY <1>1, <1>2, <2>1, StepList
<1>5. Waiting'
  <2> SUFFICES ASSUME at = "asleep", wait > 0 PROVE list' # <<>> /\ list'[1].time <= wait
    BY <1>0 DEF Waiting
  <2>1. list # <<>> /\ list[1].time <= wait
    BY DEF IInv, Waiting
  <2>2. list' # <<>> /\ list'[1].time <= list[1].time
    BY <1>2, <2>1
  <2>3. list[1].time \in Nat /\ list'[1].time \in Nat /\ wait \in Nat
    <3>1. list \in Seq(Entry) /\ list' \in Seq(Entry) /\ wait \in Nat
      BY <1>2, Facts DEF ListOK
    <3>2. 1 \in 1..Len(list) /\ 1 \in 1..Len(list')
      BY <2>1, <2>2, <3>1
    <3>3. list[1].time \in Nat
      BY <3>1, <3>2, EntryFacts
    <3>4. \A k \in Seq(Entry) : \A i \in 1..Len(k) : k[i].time \in Nat
      BY EntryFacts
    <3> QED
      BY <3>1, <3>2, <3>3, <3>4
  <2> QED
    BY <2>1, <2>2, <2>3
<1>6. TimerOK'
  BY <1>0, <1>2 DEF IInv, TimerOK
<1> QED
  BY <1>4, <1>5, <1>6 DEF IInv

\* The passing of time keeps the invariant.
LEMMA TickActionOK == IInv /\ Tick => IInv'
<1> SUFFICES ASSUME IInv, Tick PROVE IInv'
  OBVIOUS
<1>0. /\ Ticked(list', list)
      /\ slept' = IF at = "asleep" /\ slept < wait THEN slept + 1 ELSE slept
      /\ UNCHANGED <<pool, at, cur, wait, ethUp, pcbs, active>>
  BY DEF Tick, Ticked
<1>1. slept' \in 0..wait /\ Counted' \in {Counted, Counted + 1}
  <2>1. wait \in Nat /\ slept \in 0..wait
    BY Facts
  <2> QED
    BY <1>0, <2>1 DEF Counted
<1>2. /\ ListOK(list', Counted') /\ Len(list') = Len(list)
      /\ Free(list) => Free(list')
      /\ Few(list')
      /\ \A i \in 1..Len(list) : list'[i].time = list[i].time
  <2>1. Counted \in Nat /\ ListOK(list, Counted) /\ Few(list)
    BY Facts
  <2>2. PICK r : r = Counted'
    OBVIOUS
  <2>3. PICK k : k = list'
    OBVIOUS
  <2>4. r \in {Counted, Counted + 1} /\ Ticked(k, list)
    BY <1>0, <1>1, <2>2, <2>3
  <2>5. /\ ListOK(k, r) /\ Len(k) = Len(list)
        /\ Free(list) => Free(k)
        /\ Few(list) => Few(k)
        /\ \A i \in 1..Len(list) : k[i].time = list[i].time
    BY <2>1, <2>4, TickOK
  <2> QED
    BY <2>1, <2>2, <2>3, <2>5
<1>4. TypeOK' /\ ListOK(list', Counted')
  <2>1. /\ wait' \in 0..LongestDelay /\ slept' \in 0..wait' /\ {ethUp', pcbs', active'} \subseteq BOOLEAN
        /\ at' \in {"boot", "top", "asleep", "message", "handler"}
        /\ cur' \in Handlers \cup {None} /\ (cur' # None <=> at' = "handler")
        /\ pool' = pool
    BY <1>0, <1>1, Facts
  <2>2. Len(list') <= pool
    BY <1>2, Facts
  <2> QED
    BY <1>2, <2>1, <2>2, StepList
<1>5. Waiting'
  <2> SUFFICES ASSUME at = "asleep", wait > 0 PROVE list' # <<>> /\ list'[1].time <= wait
    BY <1>0 DEF Waiting
  <2>1. list # <<>> /\ list[1].time <= wait /\ list \in Seq(Entry) /\ list' \in Seq(Entry)
    BY <1>2, Facts DEF IInv, Waiting, ListOK
  <2>2. 1 \in 1..Len(list) /\ list' # <<>>
    BY <1>2, <2>1
  <2> QED
    BY <1>2, <2>1, <2>2
<1>6. TimerOK'
  BY <1>0, <1>2 DEF IInv, TimerOK
<1> QED
  BY <1>4, <1>5, <1>6 DEF IInv

\* So does a step that changes nothing.
LEMMA StutterOK == IInv /\ UNCHANGED vars => IInv'
<1> SUFFICES ASSUME IInv, UNCHANGED vars PROVE IInv'
  OBVIOUS
<1>1. UNCHANGED <<pool, list, at, cur, wait, slept, ethUp, pcbs, active>>
  BY DEF vars
<1>2. TypeOK' /\ Waiting' /\ TimerOK'
  BY <1>1 DEF IInv, TypeOK, Waiting, TimerOK
<1>3. Counted' = Counted
  BY <1>1 DEF Counted
<1> QED
  BY <1>1, <1>2, <1>3 DEF IInv

\* The invariant is inductive.
LEMMA InvStep == IInv /\ [Next]_vars => IInv'
BY BootStepOK, FetchOK, ExpireOK, ProcessOK, HandleOK, ReceiveOK, EthInitOK, TickActionOK, StutterOK
   DEF Next, Thread

\* The invariant implies the properties.
LEMMA InvFollows == IInv => Inv
<1> SUFFICES ASSUME IInv PROVE Inv
  OBVIOUS
<1>1. TypeOK
  BY DEF IInv
<1>2. pcbs => active
  BY DEF IInv, TimerOK
<1>3. DOMAIN list = 1..Len(list) /\ active \in BOOLEAN
  BY Facts
<1>4. Free(list) => Entries(Tcp) = {}
  BY <1>3 DEF Free, Entries
<1>5. Entries(Tcp) = {} \/ \E i \in 1..Len(list) : Entries(Tcp) = {i}
  <2>1. SUFFICES ASSUME Entries(Tcp) # {}
                 PROVE  \E i \in 1..Len(list) : Entries(Tcp) = {i}
    OBVIOUS
  <2>2. PICK i \in 1..Len(list) : list[i].h = Tcp
    BY <1>3, <2>1 DEF Entries
  <2>3. \A j \in 1..Len(list) : list[j].h = Tcp => i = j
    BY <2>2 DEF IInv, TimerOK, Few
  <2>4. Entries(Tcp) = {i}
    BY <1>3, <2>2, <2>3 DEF Entries
  <2> QED
    BY <2>4
<1>6. Cardinality(Entries(Tcp)) \in {0, 1} /\ (Free(list) => Cardinality(Entries(Tcp)) = 0)
  BY <1>4, <1>5, FS_EmptySet, FS_Singleton
<1>7. (cur = Tcp => active /\ Free(list)) /\ (~active => Free(list))
  BY DEF IInv, TimerOK
<1>8. Cardinality(Entries(Tcp)) + (IF cur = Tcp THEN 1 ELSE 0) <= (IF active THEN 1 ELSE 0)
  <2>1. CASE Free(list)
    BY <1>3, <1>6, <1>7, <2>1
  <2>2. CASE ~Free(list)
    BY <1>3, <1>6, <1>7, <2>2
  <2> QED
    BY <2>1, <2>2
<1> QED
  BY <1>1, <1>2, <1>8 DEF Inv, OneTcpTimer

\* The invariant always holds.
LEMMA Always == Spec => []IInv
<1>1. Init => IInv
  BY InitOK
<1>2. IInv /\ [Next]_vars => IInv'
  BY InvStep
<1> QED
  BY <1>1, <1>2, PTL DEF Spec

\* Every variable keeps its type, the list stays within its pool, and the TCP
\* timer is armed once at most and never without tcpip_tcp_timer_active, which
\* is set while there are PCBs: for every set of cyclic timers, intervals,
\* delays and size of the pool.
THEOREM TimersCorrect == Spec => []Inv
<1>1. IInv => Inv
  BY InvFollows
<1> QED
  BY <1>1, Always, PTL

-----------------------------------------------------------------------------
(* No timer is early.                                                      *)

\* Only the removal of the first timer starts a handler.
LEMMA OnlyExpire == ASSUME IInv, Next, cur = None, cur' # None PROVE Expire
<1>1. ~BootStep /\ ~Fetch /\ ~Process /\ ~Receive /\ ~EthInit /\ ~Tick
  BY DEF BootStep, Fetch, Process, Receive, EthInit, Tick
<1>2. ~Handle
  BY DEF Handle
<1> QED
  BY <1>1, <1>2 DEF Next, Thread

\* No handler that tcpip_thread armed is called before its time, whatever
\* messages interrupt the wait and whatever ethernetif_init arms meanwhile.
THEOREM NotEarlyHolds == Spec => NotEarly
<1> DEFINE A == cur = None /\ cur' # None => Head(list).left = 0
<1>1. IInv /\ [Next]_vars => [A]_vars
  <2> SUFFICES ASSUME IInv, Next, cur = None, cur' # None PROVE Head(list).left = 0
    OBVIOUS
  <2> QED
    BY OnlyExpire, ExpireFacts
<1> QED
  BY <1>1, Always, PTL DEF Spec, NotEarly

-----------------------------------------------------------------------------
(* The list implements the queue of timers in the order of expiry.         *)

Due == [h : Handlers, due : Nat]
Q(l) == [i \in DOMAIN l |-> [h |-> l[i].h, due |-> Sum(l, i)]]

\* The queue that a list stands for.
LEMMA QueueIs ==
  ASSUME NEW l \in Seq(Entry)
  PROVE  /\ Q(l) \in Seq(Due) /\ Len(Q(l)) = Len(l) /\ DOMAIN Q(l) = 1..Len(l)
         /\ \A i \in 1..Len(l) : Q(l)[i] = [h |-> l[i].h, due |-> Sum(l, i)]
                               /\ Q(l)[i].h = l[i].h /\ Q(l)[i].due = Sum(l, i)
<1>1. Len(l) \in Nat /\ DOMAIN l = 1..Len(l)
  BY EntryFacts
<1>2. DOMAIN Q(l) = 1..Len(l) /\ \A i \in 1..Len(l) : Q(l)[i] = [h |-> l[i].h, due |-> Sum(l, i)]
  BY <1>1 DEF Q
<1>3. Q(l) = [i \in 1..Len(l) |-> Q(l)[i]]
  BY <1>1 DEF Q
<1>4. \A i \in 1..Len(l) : Q(l)[i] \in Due
  BY <1>1, <1>2, EntryFacts DEF Due
<1>5. Q(l) \in Seq(Due) /\ Len(Q(l)) = Len(l)
  BY <1>1, <1>3, <1>4
<1> QED
  BY <1>2, <1>5

\* Sequences are equal element by element.
LEMMA SameSeq ==
  ASSUME NEW S, NEW s \in Seq(S), NEW t \in Seq(S), Len(s) = Len(t),
         \A i \in 1..Len(s) : s[i] = t[i]
  PROVE  s = t
OBVIOUS

\* Armed: behind the timers that are due no later.
LEMMA QueueArm ==
  ASSUME NEW l \in Seq(Entry), NEW k \in Seq(Entry), NEW p \in 0..Len(l), NEW h \in Handlers,
         NEW ms \in Nat, NEW left, Inserted(k, l, p, h, ms, left)
  PROVE  /\ p \in 0..Len(Q(l))
         /\ \A i \in 1..p : Q(l)[i].due <= ms
         /\ \A i \in (p + 1)..Len(Q(l)) : Q(l)[i].due > ms
         /\ Q(k) = InsertAt(Q(l), p + 1, [h |-> h, due |-> ms])
<1>1. /\ Q(l) \in Seq(Due) /\ Len(Q(l)) = Len(l) /\ Len(l) \in Nat
      /\ \A i \in 1..Len(l) : Q(l)[i] = [h |-> l[i].h, due |-> Sum(l, i)] /\ Q(l)[i].due = Sum(l, i)
  BY QueueIs
<1>2. /\ Q(k) \in Seq(Due) /\ Len(Q(k)) = Len(k) /\ Len(k) = Len(l) + 1
      /\ \A i \in 1..Len(k) : Q(k)[i] = [h |-> k[i].h, due |-> Sum(k, i)]
  BY QueueIs DEF Inserted
<1>3. ASSUME NEW i \in 1..p PROVE Q(l)[i].due <= ms
  <2>1. i \in 1..Len(l) /\ Sum(l, i) <= ms
    BY <1>1 DEF Inserted
  <2>2. Q(l)[i].due = Sum(l, i)
    BY <2>1, QueueIs
  <2> QED
    BY <2>1, <2>2
<1>4. ASSUME NEW i \in (p + 1)..Len(Q(l)) PROVE Q(l)[i].due > ms
  <2>1. i \in (p + 1)..Len(l)
    BY <1>1
  <2>2. i \in 1..Len(l) /\ Sum(l, i) > ms
    BY <1>1, <2>1 DEF Inserted
  <2>3. Q(l)[i].due = Sum(l, i)
    BY <2>2, QueueIs
  <2> QED
    BY <2>2, <2>3
<1> DEFINE e == [h |-> h, due |-> ms]
           q == InsertAt(Q(l), p + 1, e)
<1>5. e \in Due
  BY DEF Due
<1>6. /\ q \in Seq(Due) /\ Len(q) = Len(l) + 1
      /\ \A j \in 1..p : q[j] = Q(l)[j]
      /\ q[p + 1] = e
      /\ \A j \in (p + 1)..Len(l) : q[j + 1] = Q(l)[j]
  <2>1. PICK n \in Nat : n = p + 1
    OBVIOUS
  <2>2. n \in 1..(Len(Q(l)) + 1) /\ n - 1 = p
    BY <1>1, <2>1
  <2>3. /\ InsertAt(Q(l), n, e) \in Seq(Due) /\ Len(InsertAt(Q(l), n, e)) = Len(Q(l)) + 1
        /\ \A j \in 1..(n - 1) : InsertAt(Q(l), n, e)[j] = Q(l)[j]
        /\ InsertAt(Q(l), n, e)[n] = e
        /\ \A j \in n..Len(Q(l)) : InsertAt(Q(l), n, e)[j + 1] = Q(l)[j]
    <3> HIDE DEF e
    <3> QED
      BY <1>1, <1>5, <2>2, InsertAtIs
  <2> HIDE DEF e
  <2> QED
    BY <1>1, <2>1, <2>2, <2>3
<1> HIDE DEF q
<1>7. ASSUME NEW i \in 1..Len(k) PROVE Q(k)[i] = q[i]
  <2>1. CASE i \in 1..p
    <3>1. i \in 1..Len(l) /\ q[i] = Q(l)[i] /\ k[i].h = l[i].h /\ Sum(k, i) = Sum(l, i)
      BY <1>1, <1>6, <2>1 DEF Inserted
    <3> QED
      BY <1>1, <1>2, <3>1
  <2>2. CASE i = p + 1
    <3>1. q[i] = e /\ k[i].h = h /\ Sum(k, i) = ms
      BY <1>6, <2>2 DEF Inserted
    <3> QED
      BY <1>2, <3>1
  <2>3. CASE i \in (p + 2)..Len(k)
    <3>1. PICK j \in Nat : j = i - 1
      BY <1>2, <2>3
    <3>2. i = j + 1 /\ j \in (p + 1)..Len(l) /\ j \in 1..Len(l)
      BY <1>1, <1>2, <2>3, <3>1
    <3>3. q[i] = Q(l)[j] /\ k[i].h = l[j].h /\ Sum(k, i) = Sum(l, j)
      BY <1>6, <3>2 DEF Inserted
    <3> QED
      BY <1>1, <1>2, <3>2, <3>3
  <2> QED
    BY <1>1, <1>2, <2>1, <2>2, <2>3
<1>8. Q(k) = q
  BY <1>2, <1>6, <1>7, SameSeq
<1> QED
  BY <1>1, <1>3, <1>4, <1>8 DEF q

\* Cancelled: the first of the handler.
LEMMA QueueCancel ==
  ASSUME NEW l \in Seq(Entry), NEW k \in Seq(Entry), NEW h, NEW p \in 1..Len(l),
         IsFirst(l, p, h), Removed(k, l, p)
  PROVE  /\ p \in DOMAIN Q(l) /\ Q(l)[p].h = h
         /\ \A i \in 1..(p - 1) : Q(l)[i].h # h
         /\ Q(k) = RemoveAt(Q(l), p)
<1>1. /\ Q(l) \in Seq(Due) /\ Len(Q(l)) = Len(l) /\ Len(l) \in Nat /\ DOMAIN Q(l) = 1..Len(l)
      /\ \A i \in 1..Len(l) : Q(l)[i] = [h |-> l[i].h, due |-> Sum(l, i)] /\ Q(l)[i].h = l[i].h
  BY QueueIs
<1>2. /\ Q(k) \in Seq(Due) /\ Len(Q(k)) = Len(k) /\ Len(k) = Len(l) - 1
      /\ \A i \in 1..Len(k) : Q(k)[i] = [h |-> k[i].h, due |-> Sum(k, i)]
  BY QueueIs DEF Removed
<1>3. p \in DOMAIN Q(l) /\ Q(l)[p].h = h /\ \A i \in 1..(p - 1) : Q(l)[i].h # h
  BY <1>1 DEF IsFirst
<1> DEFINE q == RemoveAt(Q(l), p)
<1>4. /\ q \in Seq(Due) /\ Len(q) = Len(l) - 1
      /\ \A j \in 1..(p - 1) : q[j] = Q(l)[j]
      /\ \A j \in (p + 1)..Len(l) : q[j - 1] = Q(l)[j]
  <2>1. Q(l) \in Seq(Due) /\ p \in 1..Len(Q(l)) /\ Len(Q(l)) = Len(l)
    BY <1>1
  <2> HIDE DEF q
  <2>2. /\ RemoveAt(Q(l), p) \in Seq(Due) /\ Len(RemoveAt(Q(l), p)) = Len(Q(l)) - 1
        /\ \A j \in 1..(p - 1) : RemoveAt(Q(l), p)[j] = Q(l)[j]
        /\ \A j \in (p + 1)..Len(Q(l)) : RemoveAt(Q(l), p)[j - 1] = Q(l)[j]
    BY <2>1, RemoveAtIs
  <2> QED
    BY <2>1, <2>2 DEF q
<1> HIDE DEF q
<1>5. ASSUME NEW i \in 1..Len(k) PROVE Q(k)[i] = q[i]
  <2>1. CASE i \in 1..(p - 1)
    <3>1. i \in 1..Len(l) /\ q[i] = Q(l)[i] /\ k[i].h = l[i].h /\ Sum(k, i) = Sum(l, i)
      BY <1>1, <1>4, <2>1 DEF Removed
    <3> QED
      BY <1>1, <1>2, <3>1
  <2>2. CASE i \in p..Len(k)
    <3>1. PICK j \in Nat : j = i + 1
      BY <2>2
    <3>2. i = j - 1 /\ j \in (p + 1)..Len(l) /\ j \in 1..Len(l)
      BY <1>1, <1>2, <2>2, <3>1
    <3>3. q[i] = Q(l)[j] /\ k[i].h = l[j].h /\ Sum(k, i) = Sum(l, j)
      BY <1>4, <3>2 DEF Removed
    <3> QED
      BY <1>1, <1>2, <3>2, <3>3
  <2> QED
    BY <1>1, <1>2, <2>1, <2>2
<1>6. Q(k) = q
  BY <1>2, <1>4, <1>5, SameSeq
<1> QED
  BY <1>3, <1>6 DEF q

Earlier(q, d) == [i \in DOMAIN q |-> [q[i] EXCEPT !.due = @ - d]]

\* The queue once d has been waited.
LEMMA EarlierIs ==
  ASSUME NEW l \in Seq(Entry), NEW d \in Nat, l # <<>> => d <= l[1].time
  PROVE  /\ Earlier(Q(l), d) \in Seq(Due) /\ Len(Earlier(Q(l), d)) = Len(l)
         /\ \A i \in 1..Len(l) : Earlier(Q(l), d)[i] = [h |-> l[i].h, due |-> Sum(l, i) - d]
<1>1. /\ Q(l) \in Seq(Due) /\ Len(Q(l)) = Len(l) /\ Len(l) \in Nat /\ DOMAIN Q(l) = 1..Len(l)
      /\ \A i \in 1..Len(l) : Q(l)[i] = [h |-> l[i].h, due |-> Sum(l, i)]
  BY QueueIs
<1> DEFINE q == Earlier(Q(l), d)
<1>2. ASSUME NEW i \in 1..Len(l)
      PROVE  q[i] = [h |-> l[i].h, due |-> Sum(l, i) - d] /\ q[i] \in Due
  <2>1. q[i] = [Q(l)[i] EXCEPT !.due = @ - d]
    BY <1>1 DEF Earlier
  <2>2. Q(l)[i] = [h |-> l[i].h, due |-> Sum(l, i)]
    BY <1>1
  <2> HIDE DEF q
  <2>3. q[i] = [h |-> l[i].h, due |-> Sum(l, i) - d]
    BY <2>1, <2>2
  <2>4. Sum(l, i) \in Nat /\ l[i].h \in Handlers /\ d <= Sum(l, i)
    <3>1. l # <<>> /\ 1 \in 1..Len(l)
      BY <1>1
    <3>2. Sum(l, 1) = l[1].time /\ Sum(l, 1) <= Sum(l, i) /\ Sum(l, i) \in Nat
          /\ l[1].time \in Nat /\ l[i].h \in Handlers
      BY <1>1, <3>1, EntryFacts, SumMono, TailIs
    <3> QED
      BY <3>1, <3>2
  <2> QED
    BY <2>3, <2>4 DEF Due
<1>3. q = [i \in 1..Len(l) |-> q[i]]
  BY <1>1 DEF Earlier
<1> HIDE DEF q
<1>4. q \in Seq(Due) /\ Len(q) = Len(l)
  BY <1>1, <1>2, <1>3
<1> QED
  BY <1>2, <1>4 DEF q

\* Expired: the first, and what it had to wait every timer has waited.
LEMMA QueueExpire ==
  ASSUME NEW l \in Seq(Entry), l # <<>>
  PROVE  Q(l) # <<>> /\ Q(Tail(l)) = Tail(Earlier(Q(l), Head(Q(l)).due))
<1>1. /\ Q(l) \in Seq(Due) /\ Len(Q(l)) = Len(l) /\ Len(l) \in Nat /\ 1 \in 1..Len(l)
      /\ Q(l)[1].due = Sum(l, 1)
  <2>1. Len(l) \in Nat /\ 1 \in 1..Len(l)
    OBVIOUS
  <2> QED
    BY <2>1, QueueIs
<1>2. /\ Tail(l) \in Seq(Entry) /\ Len(Tail(l)) = Len(l) - 1 /\ Sum(l, 1) = l[1].time
      /\ \A i \in 2..Len(l) : /\ Tail(l)[i - 1] = l[i]
                            /\ Sum(Tail(l), i - 1) = Sum(l, i) - l[1].time
  BY TailIs
<1>3. Q(l) # <<>> /\ Head(Q(l)).due = l[1].time /\ l[1].time \in Nat
  BY <1>1, <1>2, EntryFacts
<1>4. PICK k : k = Tail(l)
  OBVIOUS
<1>5. PICK d \in Nat : d = l[1].time
  BY <1>3
<1>6. PICK e : e = Earlier(Q(l), d)
  OBVIOUS
<1>7. /\ e \in Seq(Due) /\ Len(e) = Len(l)
      /\ \A i \in 1..Len(l) : e[i] = [h |-> l[i].h, due |-> Sum(l, i) - d]
  <2>1. l # <<>> => d <= l[1].time
    BY <1>5
  <2> QED
    BY <1>6, <2>1, EarlierIs
<1>8. /\ Q(k) \in Seq(Due) /\ Len(Q(k)) = Len(l) - 1
      /\ \A i \in 1..(Len(l) - 1) : Q(k)[i] = [h |-> k[i].h, due |-> Sum(k, i)]
  BY <1>2, <1>4, QueueIs
<1>9. Tail(e) \in Seq(Due) /\ Len(Tail(e)) = Len(l) - 1 /\ \A i \in 1..(Len(l) - 1) : Tail(e)[i] = e[i + 1]
  BY <1>1, <1>7
<1>10. ASSUME NEW i \in 1..(Len(l) - 1) PROVE Q(k)[i] = Tail(e)[i]
  <2>1. PICK j \in Nat : j = i + 1
    BY <1>1
  <2>2. j \in 2..Len(l) /\ j - 1 = i /\ j \in 1..Len(l)
    BY <1>1, <2>1
  <2>3. k[i] = l[j] /\ Sum(k, i) = Sum(l, j) - d
    BY <1>2, <1>4, <1>5, <2>2
  <2>4. Tail(e)[i] = [h |-> l[j].h, due |-> Sum(l, j) - d]
    BY <1>7, <1>9, <2>1, <2>2
  <2> QED
    BY <1>8, <2>3, <2>4
<1>11. Q(k) = Tail(e)
  BY <1>8, <1>9, <1>10, SameSeq
<1> QED
  BY <1>3, <1>4, <1>5, <1>6, <1>11

\* Time taken off the first timer is waited by every timer.
LEMMA QueueElapse ==
  ASSUME NEW l \in Seq(Entry), l # <<>>, NEW t \in 0..l[1].time, NEW k, Shortened(k, l, t)
  PROVE  Q(l) # <<>> /\ Head(Q(l)).due = l[1].time /\ Q(k) = Earlier(Q(l), l[1].time - t)
<1>1. /\ Q(l) \in Seq(Due) /\ Len(Q(l)) = Len(l) /\ Len(l) \in Nat /\ 1 \in 1..Len(l)
      /\ Q(l)[1].due = Sum(l, 1)
  <2>1. Len(l) \in Nat /\ 1 \in 1..Len(l)
    OBVIOUS
  <2> QED
    BY <2>1, QueueIs
<1>2. Sum(l, 1) = l[1].time /\ l[1].time \in Nat
  BY <1>1, EntryFacts, TailIs
<1>3. Q(l) # <<>> /\ Head(Q(l)).due = l[1].time
  BY <1>1, <1>2
<1>4. /\ k \in Seq(Entry) /\ Len(k) = Len(l)
      /\ \A i \in 1..Len(l) : k[i].h = l[i].h /\ Sum(k, i) = Sum(l, i) - (l[1].time - t)
  BY HeadLess
<1>5. PICK d \in Nat : d = l[1].time - t
  BY <1>2
<1>6. d <= l[1].time
  BY <1>2, <1>5
<1>7. PICK e : e = Earlier(Q(l), d)
  OBVIOUS
<1>8. /\ e \in Seq(Due) /\ Len(e) = Len(l)
      /\ \A i \in 1..Len(l) : e[i] = [h |-> l[i].h, due |-> Sum(l, i) - d]
  <2>1. l # <<>> => d <= l[1].time
    BY <1>6
  <2> QED
    BY <1>7, <2>1, EarlierIs
<1>9. /\ Q(k) \in Seq(Due) /\ Len(Q(k)) = Len(l)
      /\ \A i \in 1..Len(l) : Q(k)[i] = [h |-> k[i].h, due |-> Sum(k, i)]
  BY <1>4, QueueIs
<1>10. ASSUME NEW i \in 1..Len(l) PROVE Q(k)[i] = e[i]
  BY <1>4, <1>5, <1>8, <1>9
<1>11. Q(k) = e
  BY <1>8, <1>9, <1>10, SameSeq
<1> QED
  BY <1>3, <1>5, <1>7, <1>11

\* No time taken off: the queue is the same.
LEMMA QueueSame ==
  ASSUME NEW l \in Seq(Entry), NEW k \in Seq(Entry), Len(k) = Len(l),
         \A i \in 1..Len(l) : k[i].h = l[i].h /\ Sum(k, i) = Sum(l, i)
  PROVE  Q(k) = Q(l)
<1>1. /\ Q(l) \in Seq(Due) /\ Len(Q(l)) = Len(l)
      /\ \A i \in 1..Len(l) : Q(l)[i] = [h |-> l[i].h, due |-> Sum(l, i)]
  BY QueueIs
<1>2. /\ Q(k) \in Seq(Due) /\ Len(Q(k)) = Len(l)
      /\ \A i \in 1..Len(l) : Q(k)[i] = [h |-> k[i].h, due |-> Sum(k, i)]
  BY QueueIs
<1>3. \A i \in 1..Len(l) : Q(k)[i] = Q(l)[i]
  BY <1>1, <1>2
<1> QED
  BY <1>1, <1>2, <1>3, SameSeq

\* What inserts an element of Q(list) so is Arm under the refinement mapping.
LEMMA DoesArm ==
  ASSUME NEW h, NEW ms, NEW p \in 0..Len(Q(list)),
         \A i \in 1..p : Q(list)[i].due <= ms,
         \A i \in (p + 1)..Len(Q(list)) : Q(list)[i].due > ms,
         Q(list)' = InsertAt(Q(list), p + 1, [h |-> h, due |-> ms])
  PROVE  Queue!Arm(h, ms)
BY Zenon DEF Queue!Arm, Queue!InsertAt, InsertAt, Q

\* Likewise for a cancelled timer.
LEMMA DoesCancel ==
  ASSUME NEW h, NEW p \in DOMAIN Q(list), Q(list)[p].h = h,
         \A i \in 1..(p - 1) : Q(list)[i].h # h,
         Q(list)' = RemoveAt(Q(list), p)
  PROVE  Queue!Cancel(h)
BY Zenon DEF Queue!Cancel, Queue!RemoveAt, RemoveAt, Q

\* Likewise for time waited.
LEMMA DoesElapse ==
  ASSUME Q(list) # <<>>, NEW d \in 1..Head(Q(list)).due, Q(list)' = Earlier(Q(list), d)
  PROVE  Queue!Elapse
BY Zenon DEF Queue!Elapse, Queue!Later, Earlier, Q

\* Likewise for the first timer that expires.
LEMMA DoesExpire ==
  ASSUME Q(list) # <<>>, Q(list)' = Tail(Earlier(Q(list), Head(Q(list)).due))
  PROVE  Queue!Expire
BY Zenon DEF Queue!Expire, Queue!Later, Earlier, Q

\* Nothing happens to the queue.
Idle == UNCHANGED Q(list)
QueueStep == Queue!Next \/ Idle

\* sys_timeout arms a timer, or does nothing.
LEMMA ArmStep ==
  ASSUME IInv, NEW h \in Handlers, NEW ms \in Times, NEW left \in 0..LongestDelay,
         left <= Monus(ms, Counted), list' = Armed(h, ms, left)
  PROVE  QueueStep
<1>1. CASE ~ Len(list) < pool
  <2>1. list' = list
    BY <1>1 DEF Armed
  <2> QED
    BY <2>1 DEF QueueStep, Idle, Q
<1>2. CASE Len(list) < pool
  <2>1. list' = Insert(list, h, ms, left)
    BY <1>2 DEF Armed
  <2>2. PICK p \in 0..Len(list) : Inserted(list', list, p, h, ms, left)
    BY <2>1, InsertOK, Facts
  <2>3. list \in Seq(Entry) /\ list' \in Seq(Entry) /\ ms \in Nat
    <3>1. ListOK(list, Counted) /\ Counted \in Nat
      BY Facts
    <3>2. ListOK(list', Counted)
      BY <2>1, <3>1, InsertOK
    <3>3. ms \in Nat
      BY Longest
    <3> QED
      BY <3>1, <3>2, <3>3 DEF ListOK
  <2>4. PICK k : k = list'
    OBVIOUS
  <2>5. /\ p \in 0..Len(Q(list))
        /\ \A i \in 1..p : Q(list)[i].due <= ms
        /\ \A i \in (p + 1)..Len(Q(list)) : Q(list)[i].due > ms
        /\ Q(k) = InsertAt(Q(list), p + 1, [h |-> h, due |-> ms])
    BY <2>2, <2>3, <2>4, QueueArm
  <2>6. Q(list)' = Q(k)
    BY <2>4 DEF Q
  <2>7. Queue!Arm(h, ms)
    BY <2>5, <2>6, DoesArm
  <2>8. ms \in 1..LongestDelay
    BY ConstFacts
  <2> QED
    BY <2>7, <2>8, Zenon DEF QueueStep, Queue!Next, Queue!Waits
<1> QED
  BY <1>1, <1>2

\* sys_untimeout cancels a timer, or finds none.
LEMMA CancelStep ==
  ASSUME IInv, at # "asleep", NEW h \in Handlers, list' = Without(list, h)
  PROVE  QueueStep
<1>1. list \in Seq(Entry) /\ \A i \in 1..Len(list) : Sum(list, i) <= LongestDelay
  BY Facts DEF ListOK
<1>2. \/ list' = list
      \/ list' \in Seq(Entry) /\ \E p \in 1..Len(list) : IsFirst(list, p, h) /\ Removed(list', list, p)
  BY <1>1, WithoutIs
<1>3. CASE list' = list
  BY <1>3 DEF QueueStep, Idle, Q
<1>4. CASE list' \in Seq(Entry) /\ \E p \in 1..Len(list) : IsFirst(list, p, h) /\ Removed(list', list, p)
  <2>1. PICK k \in Seq(Entry) : k = list'
    BY <1>4
  <2>2. PICK p \in 1..Len(list) : IsFirst(list, p, h) /\ Removed(k, list, p)
    BY <1>4, <2>1
  <2>3. /\ p \in DOMAIN Q(list) /\ Q(list)[p].h = h
        /\ \A i \in 1..(p - 1) : Q(list)[i].h # h
        /\ Q(k) = RemoveAt(Q(list), p)
    BY <1>1, <2>1, <2>2, QueueCancel
  <2>4. Q(list)' = Q(k)
    BY <2>1 DEF Q
  <2>5. Queue!Cancel(h)
    BY <2>3, <2>4, DoesCancel
  <2> QED
    BY <2>5, Zenon DEF QueueStep, Queue!Next
<1> QED
  BY <1>2, <1>3, <1>4

\* The removal of the first timer is its expiry.
LEMMA ExpireStep == ASSUME IInv, Expire PROVE QueueStep
<1>1. list # <<>> /\ list \in Seq(Entry) /\ list' = Tail(list)
  BY ExpireFacts, Facts DEF Expire
<1>2. Q(list) # <<>> /\ Q(Tail(list)) = Tail(Earlier(Q(list), Head(Q(list)).due))
  BY <1>1, QueueExpire
<1>3. Q(list)' = Q(Tail(list))
  BY <1>1 DEF Q
<1>4. Queue!Expire
  BY <1>2, <1>3, DoesExpire
<1> QED
  BY <1>4 DEF QueueStep, Queue!Next

\* The time taken off for a message is time waited, if there was any.
LEMMA ReceiveStep == ASSUME IInv, Receive PROVE QueueStep
<1>1. list \in Seq(Entry) /\ slept \in Nat
  BY Facts
<1>2. CASE wait = 0
  <2>1. list' = list
    BY <1>2 DEF Receive
  <2> QED
    BY <2>1 DEF QueueStep, Idle, Q
<1>3. CASE wait # 0
  <2>1. list # <<>>
    <3>1. wait > 0
      BY <1>3, Facts
    <3> QED
      BY <3>1 DEF IInv, Waiting, Receive
  <2>2. 1 \in DOMAIN list /\ list[1] \in Entry /\ list[1].time \in Nat
    BY <1>1, <2>1, EntryFacts
  <2>3. PICK t \in 0..list[1].time : t = Monus(list[1].time, slept)
    BY <1>1, <2>2 DEF Monus
  <2>4. PICK k : k = list'
    OBVIOUS
  <2>5. Shortened(k, list, t)
    <3>1. k = [list EXCEPT ![1].time = Monus(@, slept)]
      BY <1>3, <2>4 DEF Receive
    <3> QED
      BY <2>2, <2>3, <3>1 DEF Shortened
  <2>6. Q(list) # <<>> /\ Head(Q(list)).due = list[1].time /\ Q(k) = Earlier(Q(list), list[1].time - t)
    BY <1>1, <2>1, <2>5, QueueElapse
  <2>7. Q(list)' = Q(k)
    BY <2>4 DEF Q
  <2>8. CASE t # list[1].time
    <3>1. PICK d : d = list[1].time - t
      OBVIOUS
    <3>2. d \in 1..list[1].time
      BY <2>2, <2>8, <3>1
    <3>3. Queue!Elapse
      BY <2>6, <2>7, <3>1, <3>2, DoesElapse
    <3> QED
      BY <3>3 DEF QueueStep, Queue!Next
  <2>9. CASE t = list[1].time
    <3>1. list[1].time - t = 0
      BY <2>2, <2>9
    <3>2. /\ k \in Seq(Entry) /\ Len(k) = Len(list)
          /\ \A i \in 1..Len(list) : k[i].h = list[i].h /\ Sum(k, i) = Sum(list, i) - (list[1].time - t)
      BY <1>1, <2>1, <2>5, HeadLess
    <3>3. \A i \in 1..Len(list) : Sum(list, i) \in Nat
      BY <1>1, EntryFacts
    <3>4. \A i \in 1..Len(list) : k[i].h = list[i].h /\ Sum(k, i) = Sum(list, i)
      BY <3>1, <3>2, <3>3
    <3>5. Q(k) = Q(list)
      BY <1>1, <3>2, <3>4, QueueSame
    <3> QED
      BY <2>7, <3>5 DEF QueueStep, Idle
  <2> QED
    BY <2>8, <2>9
<1> QED
  BY <1>2, <1>3

\* Time that passes is not yet counted.
LEMMA TickStep == ASSUME IInv, Tick PROVE QueueStep
<1>1. list \in Seq(Entry) /\ ListOK(list, Counted) /\ Counted \in Nat
  BY Facts
<1>2. PICK k : k = list'
  OBVIOUS
<1>3. Ticked(k, list)
  BY <1>2 DEF Tick, Ticked
<1>4. PICK r \in {Counted, Counted + 1} : r = Counted
  OBVIOUS
<1>5. /\ ListOK(k, r) /\ Len(k) = Len(list)
      /\ \A i \in 1..Len(list) : Sum(k, i) = Sum(list, i) /\ k[i].h = list[i].h
  BY <1>1, <1>3, TickOK
<1>6. Q(k) = Q(list)
  BY <1>1, <1>5, QueueSame DEF ListOK
<1>7. Q(list)' = Q(k)
  BY <1>2 DEF Q
<1> QED
  BY <1>6, <1>7 DEF QueueStep, Idle

\* Every step that arms, through the conditions the code puts on it.
LEMMA ThreadArmStep ==
  ASSUME IInv, at # "asleep", NEW h \in Handlers, NEW ms \in Times, list' = Armed(h, ms, ms)
  PROVE  QueueStep
<1>1. ms \in 0..LongestDelay /\ ms <= Monus(ms, Counted)
  <2>1. ms \in 1..LongestDelay /\ LongestDelay \in Nat /\ Counted = 0
    BY ConstFacts DEF Counted
  <2> QED
    BY <2>1 DEF Monus
<1> QED
  BY <1>1, ArmStep

\* The same list is the same queue.
LEMMA SameStep == ASSUME list' = list PROVE QueueStep
BY DEF QueueStep, Idle, Q

\* tcp_timer_needed arms a timer, or does nothing.
LEMMA NeededStep == ASSUME IInv, at # "asleep", NEW some, TimerNeeded(some) PROVE QueueStep
<1>1. CASE some /\ ~active
  <2>1. list' = Armed(Tcp, Period[Tcp], Period[Tcp]) /\ Tcp \in Handlers /\ Period[Tcp] \in Times
    BY <1>1, ConstFacts DEF TimerNeeded
  <2> QED
    BY <2>1, ThreadArmStep
<1>2. CASE ~(some /\ ~active)
  BY <1>2, SameStep DEF TimerNeeded
<1> QED
  BY <1>1, <1>2

\* Every step of Timeouts is a step of the queue, or none.
LEMMA RefineStep == IInv /\ [Next]_vars => QueueStep
<1> SUFFICES ASSUME IInv, [Next]_vars PROVE QueueStep
  OBVIOUS
<1>1. CASE BootStep
  <2>1. at # "asleep"
    BY <1>1 DEF BootStep
  <2>2. CASE Len(list) < Len(Boot)
    <3>1. PICK h : h = Boot[Len(list) + 1]
      OBVIOUS
    <3>2. list' = Armed(h, Period[h], Period[h])
      BY <1>1, <2>2, <3>1 DEF BootStep
    <3>3. Len(list) + 1 \in 1..Len(Boot)
      BY <2>2, Facts, ConstFacts
    <3>4. h \in System /\ h \in Handlers
      BY <3>1, <3>3, ConstFacts
    <3>5. Period[h] \in Times
      BY <3>4, ConstFacts
    <3> QED
      BY <2>1, <3>2, <3>4, <3>5, ThreadArmStep
  <2>3. CASE ~(Len(list) < Len(Boot))
    BY <1>1, <2>3, SameStep DEF BootStep
  <2> QED
    BY <2>2, <2>3
<1>2. CASE Fetch
  BY <1>2, SameStep DEF Fetch
<1>3. CASE Expire
  BY <1>3, ExpireStep
<1>4. CASE Process
  <2>1. at # "asleep"
    BY <1>4 DEF Process
  <2>2. CASE Register \/ RegisterBound
    BY <2>1, <2>2, NeededStep DEF Register, RegisterBound
  <2>3. CASE LastPcbGone \/ OtherMessage
    BY <2>3, SameStep DEF LastPcbGone, OtherMessage
  <2>4. CASE AppUntimeout
    BY <2>1, <2>4, CancelStep, ConstFacts DEF AppUntimeout
  <2>5. CASE \E ms \in Delays : AppTimeout(ms)
    <3>1. PICK ms \in Delays : AppTimeout(ms)
      BY <2>5
    <3>2. ms \in Times /\ App \in Handlers /\ list' = Armed(App, ms, ms)
      BY <3>1, ConstFacts DEF AppTimeout
    <3> QED
      BY <2>1, <3>2, ThreadArmStep
  <2> QED
    BY <1>4, <2>2, <2>3, <2>4, <2>5 DEF Process
<1>5. CASE Handle
  <2>1. at # "asleep" /\ cur \in Handlers /\ Rearm(cur)
    BY <1>5, Facts, ConstFacts DEF Handle
  <2>2. CASE cur = App
    BY <2>1, <2>2, SameStep DEF Rearm
  <2>3. CASE cur # App
    <3>1. cur \in System /\ Period[cur] \in Times
      <4>1. cur \in System
        BY <2>1, <2>3 DEF Handlers
      <4> QED
        BY <4>1, ConstFacts
    <3>2. list' = Armed(cur, Period[cur], Period[cur]) \/ list' = list
      <4>1. CASE cur # Tcp
        BY <2>1, <2>3, <4>1 DEF Rearm
      <4>2. CASE cur = Tcp
        BY <2>1, <2>3, <4>2 DEF Rearm
      <4> QED
        BY <4>1, <4>2
    <3> QED
      BY <2>1, <3>1, <3>2, SameStep, ThreadArmStep
  <2> QED
    BY <2>2, <2>3
<1>6. CASE Receive
  BY <1>6, ReceiveStep
<1>7. CASE EthInit
  <2>1. Eth \in Handlers /\ Period[Eth] \in Times /\ list' = Armed(Eth, Period[Eth], 0)
    BY <1>7, ConstFacts DEF EthInit
  <2>2. 0 \in 0..LongestDelay /\ 0 <= Monus(Period[Eth], Counted)
    <3>1. Period[Eth] \in 1..LongestDelay /\ LongestDelay \in Nat /\ Counted \in Nat
      BY <2>1, Facts, ConstFacts
    <3> QED
      BY <3>1 DEF Monus
  <2> QED
    BY <2>1, <2>2, ArmStep
<1>8. CASE Tick
  BY <1>8, TickStep
<1>9. CASE UNCHANGED vars
  BY <1>9, SameStep DEF vars
<1> QED
  BY <1>1, <1>2, <1>3, <1>4, <1>5, <1>6, <1>7, <1>8, <1>9 DEF Next, Thread

\* next_timeout is the queue of timers of TimerQueue, whatever the list does to
\* its differences: timers expire in the order of their times, those of one
\* time in the order in which they were armed, and a cancelled timer or a
\* message in between moves none of the others.
THEOREM DueOrderHolds == Spec => DueOrder
<1>1. Init => Queue!Init
  <2> SUFFICES ASSUME Init PROVE Queue!Init
    OBVIOUS
  <2>1. list = <<>> /\ DOMAIN list = {}
    BY DEF Init
  <2>2. [i \in DOMAIN list |-> [h |-> list[i].h, due |-> Sum(list, i)]] = <<>>
    BY <2>1
  <2> QED
    BY <2>2 DEF Queue!Init
<1>2. IInv /\ [Next]_vars => [Queue!Next]_([i \in DOMAIN list |-> [h |-> list[i].h, due |-> Sum(list, i)]])
  BY RefineStep DEF QueueStep, Idle, Q
<1> QED
  BY <1>1, <1>2, Always, PTL DEF Spec, DueOrder, Queue!Spec
=============================================================================
