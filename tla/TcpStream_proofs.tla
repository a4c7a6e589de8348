-------------------------- MODULE TcpStream_proofs --------------------------
(***************************************************************************)
(* Proofs about TcpStream, for any sizes of segments, windows, buffers and *)
(* of the stream, and any number of messages that are lost, repeated or    *)
(* reordered: Inv, AcksHeld, EdgeGrows, and that the two ends and the      *)
(* network between them are a byte stream.                                 *)
(*                                                                         *)
(* None of them is inductive.  The invariant IInv speaks of positions in   *)
(* the stream, not of sequence numbers: all positions in use are less than *)
(* half a round apart, so that numbers compare as positions do (Compare).  *)
(* It says                                                                 *)
(*   - of the sending end (SndOK): its queues hold the bytes from lastack  *)
(*     to what was written, each once, whatever went back to unsent;       *)
(*   - of the receiving end (RcvOK, Kept): what it gave the application,   *)
(*     refused or keeps out of sequence are pieces of the stream, and its  *)
(*     window is the room that is left;                                    *)
(*   - of the network: each message with data is a piece of the stream     *)
(*     that was sent before (DataOK), and each ACK, those that the sending *)
(*     end used too, acknowledges what is held and announces no more than  *)
(*     rcv.edge (AcksOK).                                                  *)
(* The first parts are lemmas on the functions of tcp_in.c and tcp_out.c,  *)
(* for any pcb and any segment; the last ones take them to the steps.      *)
(*                                                                         *)
(* NoWrap is assumed of the connection: tcp_receive cuts a segment at the  *)
(* end of the window after a comparison of plain numbers (Overruns), which *)
(* is wrong when they wrap; the run TcpStreamWrap shows what comes of it.  *)
(***************************************************************************)
EXTENDS TcpStream, FiniteSetTheorems, SequenceTheorems, WellFoundedInduction, TLAPS

-----------------------------------------------------------------------------
(* Arithmetic on sequence numbers.                                         *)

\* The position of a sequence number in the stream, and the number of a position.
Pos(a) == Minus(a, Iss)

\* The number of the byte at position k of the stream
At(k) == Plus(Iss, k)

\* Sequence numbers
Numbers == 0..(SeqWidth - 1)

\* What the assumption says of the widths.
LEMMA Widths ==
  /\ MSS \in Nat /\ MSS > 0 /\ TCP_WND \in Nat /\ TCP_WND >= 2 * MSS
  /\ WndWidth \in Nat /\ WndWidth > TCP_WND /\ WndWidth >= 6 * MSS
  /\ SeqWidth \in Nat /\ Bytes \in Nat /\ SeqWidth > 2 * (Bytes + TCP_WND + 2)
  /\ SeqWidth > 0 /\ Iss \in Int /\ Iss \in Numbers /\ TCP_SND_BUF \in Nat
BY TcpAssumption DEF Numbers

\* A remainder, and the multiple that was left out.
LEMMA Remainder ==
  ASSUME NEW x \in Int, NEW w \in Nat \ {0}
  PROVE  x % w \in 0..(w - 1) /\ x = w * (x \div w) + (x % w) /\ x \div w \in Int
OBVIOUS

\* There is one remainder only.
LEMMA OneRemainder ==
  ASSUME NEW w \in Nat \ {0}, NEW p \in Int, NEW q \in Int, NEW r \in 0..(w - 1),
         NEW s \in 0..(w - 1), w * p + r = w * q + s
  PROVE  r = s
<1> DEFINE d == p - q
<1>1. d \in Int /\ w * d = s - r
  OBVIOUS
<1>2. d >= 1 => w * d >= w
  BY <1>1
<1>3. d <= -1 => w * d <= -w
  BY <1>1
<1>4. d = 0
  BY <1>1, <1>2, <1>3
<1> QED
  BY <1>1, <1>4

\* A remainder is the one that fits.
LEMMA RemainderIs ==
  ASSUME NEW w \in Nat \ {0}, NEW q \in Int, NEW r \in 0..(w - 1)
  PROVE  (w * q + r) % w = r
<1> DEFINE x == w * q + r
<1>1. x \in Int
  OBVIOUS
<1>2. x % w \in 0..(w - 1) /\ x = w * (x \div w) + (x % w) /\ x \div w \in Int
  BY <1>1, Remainder
<1> QED
  BY <1>2, OneRemainder

\* Adding to a remainder, or to what it is the remainder of.
LEMMA RemainderPlus ==
  ASSUME NEW w \in Nat \ {0}, NEW x \in Int, NEW y \in Int
  PROVE  ((x % w) + y) % w = (x + y) % w
<1> DEFINE r == x % w
           z == r + y
<1>1. r \in 0..(w - 1) /\ x = w * (x \div w) + r /\ x \div w \in Int
  BY Remainder
<1>2. z \in Int
  BY <1>1
<1>3. z % w \in 0..(w - 1) /\ z = w * (z \div w) + (z % w) /\ z \div w \in Int
  BY <1>2, Remainder
<1>4. x + y = w * (x \div w) + w * (z \div w) + (z % w)
  BY <1>1, <1>3
<1>5. w * (x \div w) + w * (z \div w) = w * (x \div w + z \div w)
  BY <1>1, <1>3
<1>6. x \div w + z \div w \in Int
  BY <1>1, <1>3
<1> QED
  BY <1>3, <1>4, <1>5, <1>6, RemainderIs, ZenonT(30)

\* A number in the range is its own remainder; so is one that is less by the width.
LEMMA RemainderSame ==
  ASSUME NEW w \in Nat \ {0}, NEW r \in 0..(w - 1)
  PROVE  r % w = r /\ (r - w) % w = r
<1>1. w * 0 + r = r /\ w * (-1) + r = r - w
  OBVIOUS
<1> QED
  BY <1>1, RemainderIs

\* Positions add and subtract as numbers do.
LEMMA AtIn == ASSUME NEW k \in Int PROVE At(k) \in Numbers /\ At(k) \in Int
<1>1. Iss + k \in Int /\ SeqWidth \in Nat \ {0}
  BY Widths
<1> QED
  BY <1>1, Remainder, Widths DEF At, Plus, Numbers

\* Numbers go on as positions do.
LEMMA AtPlus ==
  ASSUME NEW k \in Int, NEW n \in Int
  PROVE  Plus(At(k), n) = At(k + n)
<1>1. Iss + k \in Int /\ SeqWidth \in Nat \ {0} /\ (Iss + k) + n = Iss + (k + n)
  BY Widths
<1> QED
  BY <1>1, RemainderPlus DEF At, Plus

\* The difference of two numbers is that of their positions, up to a round.
LEMMA AtMinus ==
  ASSUME NEW k \in Int, NEW n \in Int
  PROVE  /\ Minus(At(k), At(n)) = (k - n) % SeqWidth
         /\ k - n \in Numbers => Minus(At(k), At(n)) = k - n
         /\ k - n + SeqWidth \in Numbers => Minus(At(k), At(n)) = k - n + SeqWidth
<1> DEFINE w == SeqWidth
           b == (Iss + n) % w
           m == -b
<1>1. w \in Nat \ {0} /\ Iss \in Int
  BY Widths
<1>2. b \in 0..(w - 1) /\ Iss + n = w * ((Iss + n) \div w) + b /\ (Iss + n) \div w \in Int
  BY <1>1, Remainder
<1>3. m \in Int /\ Iss + k \in Int
  BY <1>1, <1>2
<1>4. (((Iss + k) % w) + m) % w = (Iss + k + m) % w
  BY <1>1, <1>3, RemainderPlus
<1>5. ((Iss + k) % w) + m = ((Iss + k) % w) - b
  BY <1>1, <1>2, Remainder
<1> DEFINE d == k - n
           q == (Iss + n) \div w
           e == d \div w
<1>6. d \in Int /\ d % w \in 0..(w - 1) /\ d = w * e + (d % w) /\ e \in Int
  BY <1>1, Remainder
<1>7. Iss + k + m = w * q + w * e + (d % w)
  BY <1>1, <1>2, <1>3, <1>6
<1>8. w * q + w * e = w * (q + e) /\ q + e \in Int
  BY <1>1, <1>2, <1>6
<1>9. (Iss + k + m) % w = d % w
  <2>1. Iss + k + m = w * (q + e) + (d % w)
    BY <1>7, <1>8
  <2> HIDE DEF q, e, d
  <2> QED
    BY <1>1, <1>6, <1>8, <2>1, RemainderIs
<1>10. Minus(At(k), At(n)) = d % w
  BY <1>4, <1>5, <1>9 DEF At, Plus, Minus
<1>11. d \in Numbers => d % w = d
  BY <1>1, RemainderSame DEF Numbers
<1>12. d + w \in Numbers => d % w = d + w
  <2>1. (d + w) - w = d
    BY <1>1, <1>6
  <2> QED
    BY <1>1, <2>1, RemainderSame DEF Numbers
<1> QED
  BY <1>10, <1>11, <1>12

\* A number is that of its position.
LEMMA AtPos == ASSUME NEW a \in Numbers
               PROVE Pos(a) \in Numbers /\ Pos(a) \in Nat /\ At(Pos(a)) = a
<1> DEFINE w == SeqWidth
           d == a - Iss
<1>1. w \in Nat \ {0} /\ Iss \in Int /\ a \in Int /\ d \in Int
  BY Widths DEF Numbers
<1>2. d % w \in 0..(w - 1)
  BY <1>1, Remainder
<1>3. ((d % w) + Iss) % w = (d + Iss) % w
  BY <1>1, RemainderPlus
<1>4. d + Iss = a
  BY <1>1
<1>5. a % w = a
  BY <1>1, RemainderSame DEF Numbers
<1>6. Iss + (d % w) = (d % w) + Iss
  BY <1>1, <1>2
<1> QED
  BY <1>2, <1>3, <1>4, <1>5, <1>6 DEF Pos, At, Plus, Minus, Numbers

\* A position less than a round is that of its number.
LEMMA PosAt == ASSUME NEW k \in Numbers PROVE Pos(At(k)) = k /\ At(k) \in Numbers
<1>1. Iss = At(0)
  <2>1. Iss + 0 = Iss /\ SeqWidth \in Nat \ {0}
    BY Widths
  <2> QED
    BY <2>1, Widths, RemainderSame DEF At, Plus, Numbers
<1>2. k \in Int /\ k - 0 = k
  BY Widths DEF Numbers
<1>3. 0 \in Int
  OBVIOUS
<1>4. Minus(At(k), At(0)) = k
  BY <1>2, <1>3, AtMinus
<1> QED
  BY <1>1, <1>2, <1>4, AtIn DEF Pos

\* How far two positions may be apart to be compared.
Span == Bytes + TCP_WND + 2

\* Positions that are less than half a round apart
Near(i, j) == i - j < Span /\ j - i < Span

\* Numbers that are near compare as their positions do.
LEMMA AtLt ==
  ASSUME NEW i \in Int, NEW j \in Int, Near(i, j)
  PROVE  /\ Lt(At(i), At(j)) <=> i < j
         /\ Leq(At(i), At(j)) <=> i <= j
         /\ At(i) = At(j) <=> i = j
<1> DEFINE h == SeqWidth \div 2
<1>1. h \in Int /\ 2 * h <= SeqWidth /\ SeqWidth <= 2 * h + 1
  BY Widths
<1>0. Span \in Nat /\ i - j \in Int
  BY Widths DEF Span
<1>2. Span \in Nat /\ SeqWidth > 2 * Span
  BY Widths DEF Span
<1>3. i < j => Minus(At(i), At(j)) = i - j + SeqWidth
  BY <1>2, AtMinus, Widths DEF Near, Numbers
<1>4. i >= j => Minus(At(i), At(j)) = i - j
  BY <1>2, AtMinus, Widths DEF Near, Numbers
<1>5. Lt(At(i), At(j)) <=> i < j
  <2> HIDE DEF h
  <2>1. CASE i < j
    <3>1. i - j + SeqWidth >= h
      BY <1>0, <1>1, <1>2, Widths DEF Near
    <3> QED
      BY <1>3, <2>1, <3>1 DEF Lt, h
  <2>2. CASE ~(i < j)
    <3>1. ~(i - j >= h)
      BY <1>0, <1>1, <1>2, <2>2, Widths DEF Near
    <3> QED
      BY <1>4, <2>2, <3>1 DEF Lt, h
  <2> QED
    BY <2>1, <2>2
<1>6. At(i) = At(j) => i = j
  <2>1. ASSUME At(i) = At(j), i # j PROVE FALSE
    <3>1. Minus(At(i), At(j)) = 0 % SeqWidth
      <4>1. At(i) - At(j) = 0
        BY <2>1, AtIn
      <4> QED
        BY <4>1 DEF Minus
    <3>2. 0 % SeqWidth = 0
      BY Widths, RemainderSame
    <3>3. CASE i < j
      BY <1>0, <1>2, <1>3, <3>1, <3>2, <3>3, Widths DEF Near
    <3>4. CASE i > j
      BY <1>4, <2>1, <3>1, <3>2, <3>4
    <3> QED
      BY <2>1, <3>3, <3>4
  <2> QED
    BY <2>1
<1> QED
  BY <1>5, <1>6 DEF Leq

-----------------------------------------------------------------------------
(* Sequences.                                                              *)

\* The pairs in order: a well-founded relation stands for induction.
Below == {ss \in Nat \X Nat : ss[1] < ss[2]}

\* Induction over the numbers: a set of counterexamples has a least one.
LEMMA LeastElement ==
  ASSUME NEW T, T \subseteq Nat, T # {}
  PROVE  \E m \in T : \A k \in T : m <= k
<1>1. IsWellFoundedOn(Below, Nat)
  BY NatLessThanWellFounded DEF OpToRel, Below
<1>2. PICK x \in T : \A y \in T : ~ (<<y, x>> \in Below)
  BY <1>1, WFMin
<1>3. ASSUME NEW y \in T PROVE x <= y
  <2>1. x \in Nat /\ y \in Nat
    OBVIOUS
  <2>2. ~ (y < x)
    BY <1>2, <2>1 DEF Below
  <2> QED
    BY <2>1, <2>2
<1> QED
  BY <1>3

\* The longest prefix within G: the first k elements, and the next one is not in G.
LEMMA PrefixIs ==
  ASSUME NEW S, NEW s \in Seq(S), NEW G
  PROVE  \E k \in 0..Len(s) :
           /\ Prefix(s, G) = SubSeq(s, 1, k)
           /\ Rest(s, Prefix(s, G)) = SubSeq(s, k + 1, Len(s))
           /\ \A j \in 1..k : j \in G
           /\ k < Len(s) => k + 1 \notin G
<1> DEFINE n == Len(s)
           T == {i \in 1..(n + 1) : i \notin G \/ i = n + 1}
<1>0. n \in Nat
  OBVIOUS
<1>1. T \subseteq Nat /\ n + 1 \in T
  BY <1>0
<1>2. PICK m \in T : \A i \in T : m <= i
  <2> HIDE DEF T
  <2>1. T # {}
    BY <1>1
  <2> QED
    BY <1>1, <2>1, LeastElement
<1> DEFINE k == m - 1
<1>3. k \in 0..n /\ m \in 1..(n + 1)
  BY <1>0, <1>2
<1>4. \A j \in 1..k : j \in G
  BY <1>0, <1>2, <1>3
<1>5. k < n => k + 1 \notin G
  BY <1>0, <1>2
<1>6. {i \in DOMAIN s : 1..i \subseteq G} = 1..k
  <2>1. ASSUME NEW i \in DOMAIN s, 1..i \subseteq G PROVE i \in 1..k
    <3>1. i \in 1..n /\ (k < n => k + 1 \notin 1..i)
      BY <1>5, <2>1
    <3> QED
      BY <1>0, <1>3, <3>1
  <2>2. ASSUME NEW i \in 1..k PROVE i \in DOMAIN s /\ 1..i \subseteq G
    <3>1. i \in 1..n /\ 1..i \subseteq 1..k
      BY <1>0, <1>3
    <3> QED
      BY <1>4, <3>1
  <2> HIDE DEF k, n
  <2> QED
    BY <2>1, <2>2
<1>7. Cardinality(1..k) = k
  BY <1>3, FS_Interval
<1>8. Prefix(s, G) = SubSeq(s, 1, k)
  BY <1>6, <1>7 DEF Prefix
<1>9. Len(SubSeq(s, 1, k)) = k
  BY <1>0, <1>3
<1>10. Rest(s, Prefix(s, G)) = SubSeq(s, k + 1, Len(s))
  BY <1>8, <1>9 DEF Rest
<1> HIDE DEF k
<1> QED
  BY <1>3, <1>4, <1>5, <1>8, <1>10

\* A segment that begins before all of a queue goes first, one behind all goes last.
LEMMA InOrderFirst ==
  ASSUME NEW S, NEW q \in Seq(S), NEW s, q # <<>> => ~Lt(q[1].seq, s.seq)
  PROVE  InOrder(q, s) = <<s>> \o q
<1> DEFINE G == {i \in DOMAIN q : Lt(q[i].seq, s.seq)}
<1>1. PICK k \in 0..Len(q) :
           /\ Prefix(q, G) = SubSeq(q, 1, k)
           /\ Rest(q, Prefix(q, G)) = SubSeq(q, k + 1, Len(q))
           /\ \A j \in 1..k : j \in G
  <2> HIDE DEF G
  <2> QED
    BY PrefixIs
<1>2. k = 0
  <2>1. Len(q) > 0 => 1 \notin G
    OBVIOUS
  <2> HIDE DEF G
  <2> QED
    BY <1>1, <2>1
<1>3. SubSeq(q, 1, 0) = <<>> /\ SubSeq(q, 0 + 1, Len(q)) = q
  BY SubSeqFull, SubSeqEmpty
<1>4. InOrder(q, s) = (<<>> \o <<s>>) \o q
  BY <1>1, <1>2, <1>3 DEF InOrder
<1>5. <<>> \o <<s>> = <<s>>
  OBVIOUS
<1> QED
  BY <1>4, <1>5

\* A segment that comes after all of a queue goes to its end.
LEMMA InOrderLast ==
  ASSUME NEW S, NEW q \in Seq(S), NEW s \in S, \A i \in 1..Len(q) : Lt(q[i].seq, s.seq)
  PROVE  InOrder(q, s) = q \o <<s>>
<1> DEFINE G == {i \in DOMAIN q : Lt(q[i].seq, s.seq)}
<1>1. PICK k \in 0..Len(q) :
           /\ Prefix(q, G) = SubSeq(q, 1, k)
           /\ Rest(q, Prefix(q, G)) = SubSeq(q, k + 1, Len(q))
           /\ k < Len(q) => k + 1 \notin G
  <2> HIDE DEF G
  <2> QED
    BY PrefixIs
<1>2. k = Len(q)
  <2>1. k < Len(q) => k + 1 \in G
    OBVIOUS
  <2> HIDE DEF G
  <2> QED
    BY <1>1, <2>1
<1>3. SubSeq(q, 1, Len(q)) = q /\ SubSeq(q, Len(q) + 1, Len(q)) = <<>>
  BY SubSeqFull, SubSeqEmpty
<1>4. InOrder(q, s) = (q \o <<s>>) \o <<>>
  BY <1>1, <1>2, <1>3 DEF InOrder
<1>5. q \o <<s>> \in Seq(S)
  OBVIOUS
<1> QED
  BY <1>4, <1>5, ConcatEmptySeq

\* f is the function that the definition of AllInOrder names.
IsUpto(f, q, new) ==
  f = [i \in 0..Len(new) |-> IF i = 0 THEN q ELSE InOrder(f[i - 1], new[i])]

\* There is one such function only, so that its last value is AllInOrder.
LEMMA UptoIs ==
  ASSUME NEW S, NEW q, NEW new \in Seq(S), NEW f, IsUpto(f, q, new)
  PROVE  AllInOrder(q, new) = f[Len(new)]
<1> DEFINE g == CHOOSE h : IsUpto(h, q, new)
           n == Len(new)
           T == {i \in 0..n : f[i] # g[i]}
<1>1. IsUpto(g, q, new)
  OBVIOUS
<1>2. AllInOrder(q, new) = g[n]
  BY DEF AllInOrder, IsUpto
<1>3. n \in Nat
  OBVIOUS
<1> HIDE DEF g, n
<1>4. ASSUME T # {} PROVE FALSE
  <2>1. T \subseteq Nat
    BY <1>3
  <2>2. PICK m \in T : \A i \in T : m <= i
    <3> HIDE DEF T
    <3> QED
      BY <1>4, <2>1, LeastElement
  <2>3. m \in 0..n /\ f[m] # g[m]
    OBVIOUS
  <2>4. f[0] = q /\ g[0] = q
    BY <1>1, <1>3 DEF IsUpto, n
  <2>5. m # 0
    BY <2>3, <2>4
  <2>6. m - 1 \in 0..n /\ m - 1 < m
    BY <1>3, <2>3, <2>5
  <2>7. f[m - 1] = g[m - 1]
    BY <2>2, <2>6
  <2>8. f[m] = InOrder(f[m - 1], new[m]) /\ g[m] = InOrder(g[m - 1], new[m])
    BY <1>1, <2>3, <2>5 DEF IsUpto, n
  <2> QED
    BY <2>3, <2>7, <2>8
<1>5. n \in 0..n
  BY <1>3
<1>6. f[n] = g[n]
  BY <1>4, <1>5
<1> QED
  BY <1>2, <1>6 DEF n

\* Segments that follow on a queue go behind it, one after the other.
LEMMA InOrderNext ==
  ASSUME NEW S, NEW q \in Seq(S), NEW new \in Seq(S), NEW i \in 1..Len(new),
         \A j \in 1..Len(q), k \in 1..Len(new) : Lt(q[j].seq, new[k].seq),
         \A j, k \in 1..Len(new) : j < k => Lt(new[j].seq, new[k].seq)
  PROVE  InOrder(q \o SubSeq(new, 1, i - 1), new[i]) = q \o SubSeq(new, 1, i)
<1> DEFINE p == SubSeq(new, 1, i - 1)
           n == Len(new)
<1>1. p \in Seq(S) /\ Len(p) = i - 1 /\ \A j \in 1..Len(p) : p[j] = new[j]
  OBVIOUS
<1>2. SubSeq(new, 1, i) = p \o <<new[i]>>
  BY SubSeqRecursiveSecond
<1>3. new[i] \in S
  OBVIOUS
<1>4. q \o p \in Seq(S) /\ Len(q \o p) = Len(q) + Len(p)
      /\ \A j \in 1..(Len(q) + Len(p)) :
           (q \o p)[j] = IF j <= Len(q) THEN q[j] ELSE p[j - Len(q)]
  BY <1>1, ConcatProperties
<1>5. \A j \in 1..Len(q \o p) : Lt((q \o p)[j].seq, new[i].seq)
  <2> SUFFICES ASSUME NEW j \in 1..Len(q \o p) PROVE Lt((q \o p)[j].seq, new[i].seq)
    OBVIOUS
  <2>1. CASE j <= Len(q)
    <3>1. j \in 1..Len(q) /\ (q \o p)[j] = q[j]
      BY <1>4, <2>1
    <3> QED
      BY <3>1
  <2>2. CASE j > Len(q)
    <3>1. j - Len(q) \in 1..Len(p) /\ (q \o p)[j] = p[j - Len(q)]
      BY <1>1, <1>4, <2>2
    <3>2. j - Len(q) \in 1..n /\ j - Len(q) < i /\ p[j - Len(q)] = new[j - Len(q)]
      BY <1>1, <3>1
    <3> QED
      BY <3>1, <3>2
  <2> QED
    BY <2>1, <2>2, <1>4, <1>1
<1> HIDE DEF p
<1>6. InOrder(q \o p, new[i]) = (q \o p) \o <<new[i]>>
  BY <1>3, <1>4, <1>5, InOrderLast
<1>7. (q \o p) \o <<new[i]>> = q \o (p \o <<new[i]>>)
  <2> DEFINE z == <<new[i]>>
  <2>1. z \in Seq(S)
    BY <1>3
  <2>2. p \in Seq(S)
    BY <1>1
  <2> HIDE DEF z
  <2>3. q \in Seq(S)
    OBVIOUS
  <2>4. (q \o p) \o z = q \o (p \o z)
    BY ONLY <2>1, <2>2, <2>3, ConcatAssociative, SMTT(30)
  <2> QED
    BY <2>4 DEF z
<1> QED
  BY <1>2, <1>6, <1>7 DEF p

\* All of them go behind it.
LEMMA AllInOrderLast ==
  ASSUME NEW S, NEW q \in Seq(S), NEW new \in Seq(S),
         \A i \in 1..Len(q), j \in 1..Len(new) : Lt(q[i].seq, new[j].seq),
         \A i, j \in 1..Len(new) : i < j => Lt(new[i].seq, new[j].seq)
  PROVE  AllInOrder(q, new) = q \o new
<1> DEFINE f == [i \in 0..Len(new) |-> q \o SubSeq(new, 1, i)]
           n == Len(new)
<1>0. n \in Nat
  OBVIOUS
<1>1. ASSUME NEW i \in 1..n PROVE f[i] = InOrder(f[i - 1], new[i])
  <2>1. f[i] = q \o SubSeq(new, 1, i) /\ f[i - 1] = q \o SubSeq(new, 1, i - 1)
    BY <1>0
  <2> QED
    BY <2>1, InOrderNext
<1>2. f[0] = q /\ f[n] = q \o new
  <2>1. f[0] = q \o SubSeq(new, 1, 0) /\ f[n] = q \o SubSeq(new, 1, n)
    BY <1>0
  <2>2. SubSeq(new, 1, 0) = <<>> /\ SubSeq(new, 1, n) = new
    BY SubSeqFull, SubSeqEmpty
  <2> QED
    BY <2>1, <2>2, ConcatEmptySeq
<1>3. IsUpto(f, q, new)
  <2> DEFINE g == [i \in 0..Len(new) |-> IF i = 0 THEN q ELSE InOrder(f[i - 1], new[i])]
  <2>1. \A i \in 0..n : f[i] = IF i = 0 THEN q ELSE InOrder(f[i - 1], new[i])
    <3> HIDE DEF f
    <3> QED
      BY <1>0, <1>1, <1>2
  <2> QED
    BY <2>1 DEF IsUpto
<1> HIDE DEF f
<1> QED
  BY <1>2, <1>3, UptoIs

\* The first of them may go to the front of the queue.
LEMMA AllInOrderFirst ==
  ASSUME NEW S, NEW q \in Seq(S), NEW h \in S, NEW new \in Seq(S),
         q # <<>> => ~Lt(q[1].seq, h.seq),
         \A i \in 1..Len(q), j \in 1..Len(new) : Lt(q[i].seq, new[j].seq),
         \A j \in 1..Len(new) : Lt(h.seq, new[j].seq),
         \A i, j \in 1..Len(new) : i < j => Lt(new[i].seq, new[j].seq)
  PROVE  AllInOrder(q, <<h>> \o new) = (<<h>> \o q) \o new
<1> DEFINE r == <<h>> \o q
           f == [i \in 0..Len(new) |-> r \o SubSeq(new, 1, i)]
           all == <<h>> \o new
           g == [i \in 0..(Len(new) + 1) |-> IF i = 0 THEN q ELSE f[i - 1]]
           n == Len(new)
<1>0. n \in Nat /\ all \in Seq(S) /\ Len(all) = n + 1 /\ all[1] = h
      /\ (\A i \in 1..n : all[i + 1] = new[i])
      /\ r \in Seq(S) /\ Len(r) = Len(q) + 1 /\ r[1] = h
      /\ (\A i \in 1..Len(q) : r[i + 1] = q[i])
  OBVIOUS
<1> HIDE DEF r, all
<1>9. \A i \in 1..Len(r), j \in 1..n : Lt(r[i].seq, new[j].seq)
  <2> SUFFICES ASSUME NEW i \in 1..Len(r), NEW j \in 1..n PROVE Lt(r[i].seq, new[j].seq)
    OBVIOUS
  <2>1. CASE i = 1
    BY <1>0, <2>1
  <2>2. CASE i # 1
    <3> DEFINE k == i - 1
    <3>1. Len(q) \in Nat
      OBVIOUS
    <3>2. k \in 1..Len(q) /\ k + 1 = i
      BY <1>0, <2>2, <3>1
    <3> HIDE DEF k
    <3>3. \A m \in 1..Len(q) : r[m + 1] = q[m]
      BY <1>0
    <3>4. r[k + 1] = q[k]
      BY ONLY <3>2, <3>3
    <3> QED
      BY <3>2, <3>4
  <2> QED
    BY <2>1, <2>2
<1>1. ASSUME NEW i \in 1..n PROVE f[i] = InOrder(f[i - 1], new[i])
  <2>0. i \in 0..n /\ i - 1 \in 0..n
    BY ONLY <1>0, i \in 1..n
  <2>1. f[i] = r \o SubSeq(new, 1, i) /\ f[i - 1] = r \o SubSeq(new, 1, i - 1)
    BY ONLY <2>0
  <2> HIDE DEF f
  <2>2. InOrder(r \o SubSeq(new, 1, i - 1), new[i]) = r \o SubSeq(new, 1, i)
    <3>1. i \in 1..Len(new) /\ r \in Seq(S)
      BY <1>0
    <3> HIDE DEF n
    <3>2. \A j \in 1..Len(r), k \in 1..Len(new) : Lt(r[j].seq, new[k].seq)
      BY <1>9 DEF n
    <3> QED
      BY <3>1, <3>2, InOrderNext
  <2> QED
    BY <2>1, <2>2
<1>2. f[0] = r /\ f[n] = r \o new
  <2>1. f[0] = r \o SubSeq(new, 1, 0) /\ f[n] = r \o SubSeq(new, 1, n)
    BY <1>0
  <2>2. SubSeq(new, 1, 0) = <<>> /\ SubSeq(new, 1, n) = new
    BY SubSeqFull, SubSeqEmpty
  <2> QED
    BY <1>0, <2>1, <2>2, ConcatEmptySeq
<1>4. InOrder(q, h) = r
  BY InOrderFirst DEF r
<1> HIDE DEF f
<1>5. \A i \in 0..Len(all) : g[i] = IF i = 0 THEN q ELSE InOrder(g[i - 1], all[i])
  <2> SUFFICES ASSUME NEW i \in 0..Len(all), i # 0 PROVE g[i] = InOrder(g[i - 1], all[i])
    BY <1>0
  <2>1. i \in 1..(n + 1) /\ i - 1 \in 0..(n + 1) /\ g[i] = f[i - 1]
    BY <1>0
  <2>2. CASE i = 1
    BY <1>0, <1>2, <1>4, <2>1, <2>2
  <2>3. CASE i # 1
    <3>1. i - 1 \in 1..n /\ g[i - 1] = f[i - 2] /\ (i - 1) - 1 = i - 2 /\ (i - 1) + 1 = i
      BY <1>0, <2>1, <2>3
    <3>2. all[i] = new[i - 1] /\ f[i - 1] = InOrder(f[i - 2], new[i - 1])
      BY <1>0, <1>1, <3>1
    <3> QED
      BY <2>1, <3>1, <3>2
  <2> QED
    BY <2>2, <2>3
<1>6. IsUpto(g, q, all)
  BY <1>0, <1>5 DEF IsUpto
<1>7. g[n + 1] = r \o new
  BY <1>0, <1>2
<1> HIDE DEF g
<1>8. AllInOrder(q, all) = r \o new
  BY <1>0, <1>6, <1>7, UptoIs
<1> QED
  BY <1>8 DEF r, all

-----------------------------------------------------------------------------
(* The bytes of the stream.                                                *)

\* The n bytes behind position k
Run(k, n) == [i \in 1..n |-> k + i]

\* A run of n bytes from position k + 1 on
LEMMA RunIs ==
  ASSUME NEW k \in Nat, NEW n \in Nat
  PROVE  /\ Run(k, n) \in Seq(Nat) /\ Len(Run(k, n)) = n
         /\ \A i \in 1..n : Run(k, n)[i] = k + i
         /\ Run(k, n) = <<>> <=> n = 0
<1>1. Run(k, n) \in [1..n -> Nat]
  BY DEF Run
<1>2. Run(k, n) \in Seq(Nat) /\ Len(Run(k, n)) = n
  BY <1>1
<1> QED
  BY <1>2 DEF Run

\* A sequence that has those bytes
LEMMA IsRun ==
  ASSUME NEW k \in Nat, NEW n \in Nat, NEW s \in Seq(Nat), Len(s) = n,
         \A i \in 1..n : s[i] = k + i
  PROVE  s = Run(k, n)
<1> DEFINE r == Run(k, n)
<1>1. r \in Seq(Nat) /\ Len(r) = n /\ \A i \in 1..n : r[i] = k + i
  BY RunIs
<1> HIDE DEF r
<1>2. \A i \in 1..Len(s) : s[i] = r[i]
  BY <1>1
<1>3. s = r
  BY <1>1, <1>2, SeqEqual
<1> QED
  BY <1>3 DEF r

\* The beginning, the end, two runs one behind the other
LEMMA RunCut ==
  ASSUME NEW k \in Nat, NEW n \in Nat, NEW j \in 0..n
  PROVE  SubSeq(Run(k, n), 1, j) = Run(k, j)
<1> DEFINE r == Run(k, n)
<1>0. r \in Seq(Nat) /\ Len(r) = n /\ \A i \in 1..n : r[i] = k + i
  BY RunIs
<1> HIDE DEF r
<1>1. SubSeq(r, 1, j) \in Seq(Nat) /\ Len(SubSeq(r, 1, j)) = j
      /\ \A i \in 1..j : SubSeq(r, 1, j)[i] = r[i]
  BY <1>0
<1>2. \A i \in 1..j : r[i] = k + i
  BY <1>0
<1>3. j \in Nat
  OBVIOUS
<1> QED
  BY <1>1, <1>2, <1>3, IsRun DEF r

\* The end of a run is a run.
LEMMA RunRest ==
  ASSUME NEW k \in Nat, NEW n \in Nat, NEW j \in 0..n
  PROVE  SubSeq(Run(k, n), j + 1, n) = Run(k + j, n - j)
<1> DEFINE r == Run(k, n)
<1>0. r \in Seq(Nat) /\ Len(r) = n /\ \A i \in 1..n : r[i] = k + i
  BY RunIs
<1> HIDE DEF r
<1>1. SubSeq(r, j + 1, n) \in Seq(Nat) /\ Len(SubSeq(r, j + 1, n)) = n - j
      /\ \A i \in 1..(n - j) : SubSeq(r, j + 1, n)[i] = r[j + i]
  BY <1>0
<1>2. \A i \in 1..(n - j) : r[j + i] = k + (j + i)
  BY <1>0
<1>3. n - j \in Nat /\ k + j \in Nat
  OBVIOUS
<1>4. \A i \in 1..(n - j) : SubSeq(r, j + 1, n)[i] = (k + j) + i
  BY <1>1, <1>2
<1> QED
  BY <1>1, <1>3, <1>4, IsRun DEF r

\* Two runs, one behind the other, are a run.
LEMMA RunJoin ==
  ASSUME NEW k \in Nat, NEW n \in Nat, NEW m \in Nat
  PROVE  Run(k, n) \o Run(k + n, m) = Run(k, n + m)
<1>1. k + n \in Nat /\ n + m \in Nat
  OBVIOUS
<1> DEFINE a == Run(k, n)
           b == Run(k + n, m)
<1>2. a \in Seq(Nat) /\ Len(a) = n /\ \A i \in 1..n : a[i] = k + i
  BY RunIs
<1>3. b \in Seq(Nat) /\ Len(b) = m /\ \A i \in 1..m : b[i] = k + n + i
  BY <1>1, RunIs
<1> HIDE DEF a, b
<1>4. a \o b \in Seq(Nat) /\ Len(a \o b) = n + m
      /\ \A i \in 1..(n + m) : (a \o b)[i] = IF i <= n THEN a[i] ELSE b[i - n]
  BY <1>2, <1>3, ConcatProperties
<1>5. \A i \in 1..(n + m) : (a \o b)[i] = k + i
  <2>1. ASSUME NEW i \in 1..(n + m), i <= n PROVE (a \o b)[i] = k + i
    BY <1>2, <1>4, <2>1
  <2>2. ASSUME NEW i \in 1..(n + m), ~(i <= n) PROVE (a \o b)[i] = k + i
    <3>1. i - n \in 1..m /\ (a \o b)[i] = b[i - n]
      BY <1>4, <2>2
    <3>2. b[i - n] = k + n + (i - n)
      BY <1>3, <3>1
    <3> QED
      BY <3>1, <3>2
  <2> QED
    BY <2>1, <2>2
<1>6. a \o b = Run(k, n + m)
  BY <1>1, <1>4, <1>5, IsRun
<1> QED
  BY <1>6 DEF a, b

-----------------------------------------------------------------------------
(* The elements of a sequence.                                             *)

\* The members of a sequence
LEMMA ToSetIs == ASSUME NEW S, NEW s \in Seq(S)
                 PROVE  ToSet(s) = {s[i] : i \in 1..Len(s)} /\ ToSet(s) \subseteq S
BY DEF ToSet

\* What is in two sequences joined is in one of them.
LEMMA ToSetConcat ==
  ASSUME NEW S, NEW s \in Seq(S), NEW t \in Seq(S)
  PROVE  ToSet(s \o t) \subseteq ToSet(s) \cup ToSet(t)
<1>1. s \o t \in Seq(S) /\ Len(s \o t) = Len(s) + Len(t)
      /\ \A i \in 1..(Len(s) + Len(t)) : (s \o t)[i] = IF i <= Len(s) THEN s[i] ELSE t[i - Len(s)]
  BY ConcatProperties
<1> DEFINE u == s \o t
<1> HIDE DEF u
<1>2. ASSUME NEW i \in 1..Len(u) PROVE u[i] \in ToSet(s) \cup ToSet(t)
  <2>1. CASE i <= Len(s)
    BY <1>1, <2>1, ToSetIs DEF u
  <2>2. CASE i > Len(s)
    <3>1. i - Len(s) \in 1..Len(t) /\ u[i] = t[i - Len(s)]
      BY <1>1, <2>2 DEF u
    <3> QED
      BY <3>1, ToSetIs
  <2> QED
    BY <1>1, <2>1, <2>2 DEF u
<1>3. ToSet(u) = {u[i] : i \in 1..Len(u)}
  BY <1>1, ToSetIs DEF u
<1> QED
  BY <1>2, <1>3 DEF u

\* What is in a part of a sequence is in the sequence.
LEMMA ToSetSub ==
  ASSUME NEW S, NEW s \in Seq(S), NEW i \in Nat, NEW j \in Nat, 1 <= i, j <= Len(s)
  PROVE  SubSeq(s, i, j) \in Seq(S) /\ ToSet(SubSeq(s, i, j)) \subseteq ToSet(s)
<1> DEFINE u == SubSeq(s, i, j)
<1>1. u \in Seq(S) /\ Len(u) = (IF i <= j THEN j - i + 1 ELSE 0)
      /\ \A k \in 1..(j - i + 1) : u[k] = s[i + k - 1]
  OBVIOUS
<1> HIDE DEF u
<1>2. \A k \in 1..Len(u) : u[k] \in ToSet(s)
  <2> SUFFICES ASSUME NEW k \in 1..Len(u) PROVE u[k] \in ToSet(s)
    OBVIOUS
  <2>1. k \in 1..(j - i + 1) /\ i + k - 1 \in 1..Len(s)
    BY <1>1
  <2> QED
    BY <1>1, <2>1, ToSetIs
<1>3. ToSet(u) = {u[k] : k \in 1..Len(u)}
  BY <1>1, ToSetIs
<1> QED
  BY <1>1, <1>2, <1>3 DEF u

\* What is left when a member is removed was there.
LEMMA ToSetRemoveAt ==
  ASSUME NEW S, NEW s \in Seq(S), NEW i \in DOMAIN s
  PROVE  RemoveAt(s, i) \in Seq(S) /\ ToSet(RemoveAt(s, i)) \subseteq ToSet(s)
<1>1. i \in 1..Len(s) /\ Len(s) \in Nat
  OBVIOUS
<1> DEFINE a == SubSeq(s, 1, i - 1)
           b == SubSeq(s, i + 1, Len(s))
<1>2. a \in Seq(S) /\ ToSet(a) \subseteq ToSet(s)
  BY <1>1, ToSetSub
<1>3. b \in Seq(S) /\ ToSet(b) \subseteq ToSet(s)
  BY <1>1, ToSetSub
<1>4. RemoveAt(s, i) = a \o b
  BY DEF RemoveAt
<1> HIDE DEF a, b
<1> QED
  BY <1>2, <1>3, <1>4, ToSetConcat

-----------------------------------------------------------------------------
(* Segments, and what they hold of the stream.                             *)

\* Segments, of any length
Segs == [seq : Numbers, len : Nat, data : Seq(Nat), fin : BOOLEAN]

\* What a FIN adds to the numbers
One(b) == IF b THEN 1 ELSE 0

\* The positions behind the data of a segment, and behind the segment.
DataTop(s) == Pos(s.seq) + s.len

\* The position behind a segment, its FIN included
Top(s) == DataTop(s) + One(s.fin)

\* A part of the N bytes written so far: a FIN (F: it was sent) is behind the last.
Piece(s, N, F) ==
  /\ DataTop(s) <= N /\ s.data = Run(Pos(s.seq), s.len)
  /\ s.fin => F /\ DataTop(s) = N
  /\ s.fin \/ s.len > 0

\* The positions that are compared.
Positions == (-1)..(Bytes + TCP_WND)

\* All the positions a connection uses are near each other.
LEMMA PositionsNear ==
  ASSUME NEW i \in Positions, NEW j \in Positions
  PROVE  i \in Int /\ j \in Int /\ Near(i, j)
BY Widths DEF Positions, Near, Span

\* So their numbers compare as they do.
LEMMA Compare ==
  ASSUME NEW i \in Positions, NEW j \in Positions
  PROVE  /\ Lt(At(i), At(j)) <=> i < j
         /\ Leq(At(i), At(j)) <=> i <= j
         /\ At(i) = At(j) <=> i = j
BY PositionsNear, AtLt

\* And so do numbers that are those of such positions.
LEMMA PosCompare ==
  ASSUME NEW a \in Numbers, NEW b \in Numbers, Pos(a) \in Positions, Pos(b) \in Positions
  PROVE  /\ Lt(a, b) <=> Pos(a) < Pos(b)
         /\ Leq(a, b) <=> Pos(a) <= Pos(b)
         /\ a = b <=> Pos(a) = Pos(b)
<1>1. At(Pos(a)) = a /\ At(Pos(b)) = b
  BY AtPos
<1> QED
  BY <1>1, Compare

\* Positions that are not negative are those of their numbers.
LEMMA PosOf ==
  ASSUME NEW k \in Nat, k <= Bytes + TCP_WND
  PROVE  k \in Numbers /\ Pos(At(k)) = k /\ At(k) \in Numbers /\ k \in Positions
<1>1. k \in Numbers /\ k \in Positions
  BY Widths DEF Numbers, Positions
<1> QED
  BY <1>1, PosAt

\* What follows of a piece of the stream: its types, its ends, where it lies
LEMMA PieceFacts ==
  ASSUME NEW s \in Segs, NEW N \in 0..Bytes, NEW F, Piece(s, N, F)
  PROVE  /\ Pos(s.seq) \in Nat /\ s.seq = At(Pos(s.seq)) /\ s.seq \in Numbers
         /\ s.len \in Nat /\ s.fin \in BOOLEAN /\ Len(s.data) = s.len
         /\ TcpLen(s) = s.len + One(s.fin) /\ TcpLen(s) > 0 /\ TcpLen(s) \in Nat
         /\ DataTop(s) \in Nat /\ Top(s) \in Nat /\ Pos(s.seq) <= DataTop(s)
         /\ DataTop(s) <= Top(s) /\ Pos(s.seq) < Top(s) /\ Top(s) = Pos(s.seq) + TcpLen(s)
         /\ Top(s) <= N + One(F) /\ DataTop(s) <= N
         /\ End(s) = At(Top(s)) /\ Plus(s.seq, s.len) = At(DataTop(s))
         /\ {Pos(s.seq), DataTop(s), Top(s)} \subseteq Positions
         /\ Pos(End(s)) = Top(s) /\ End(s) \in Numbers
<1>1. s.seq \in Numbers /\ s.len \in Nat /\ s.fin \in BOOLEAN
  BY DEF Segs
<1>2. Pos(s.seq) \in Nat /\ s.seq = At(Pos(s.seq))
  BY <1>1, AtPos
<1>3. Len(s.data) = s.len
  <2>1. Len(Run(Pos(s.seq), s.len)) = s.len
    BY <1>1, <1>2, RunIs
  <2> QED
    BY <2>1 DEF Piece
<1>4. /\ TcpLen(s) = s.len + One(s.fin) /\ TcpLen(s) > 0 /\ TcpLen(s) \in Nat
      /\ DataTop(s) \in Nat /\ Top(s) \in Nat /\ Pos(s.seq) <= DataTop(s)
      /\ DataTop(s) <= Top(s) /\ Pos(s.seq) < Top(s) /\ Top(s) = Pos(s.seq) + TcpLen(s)
      /\ Top(s) <= N + One(F) /\ DataTop(s) <= N
  BY <1>1, <1>2 DEF Piece, TcpLen, One, Top, DataTop
<1>5. End(s) = At(Top(s)) /\ Plus(s.seq, s.len) = At(DataTop(s))
  <2>1. Pos(s.seq) \in Int /\ TcpLen(s) \in Int /\ s.len \in Int
    BY <1>1, <1>2, <1>4
  <2>2. Plus(At(Pos(s.seq)), TcpLen(s)) = At(Pos(s.seq) + TcpLen(s))
        /\ Plus(At(Pos(s.seq)), s.len) = At(Pos(s.seq) + s.len)
    BY <2>1, AtPlus
  <2> QED
    BY <1>2, <1>4, <2>2 DEF End, DataTop
<1>6. Top(s) <= Bytes + TCP_WND
  BY <1>4, Widths DEF One
<1>7. {Pos(s.seq), DataTop(s), Top(s)} \subseteq Positions
  BY <1>2, <1>4, <1>6, Widths DEF Positions
<1> QED
  BY <1>1, <1>2, <1>3, <1>4, <1>5, <1>6, <1>7, PosOf

\* Cutting a segment to a part of its data.
LEMMA CutIs ==
  ASSUME NEW s \in Segs, NEW N \in 0..Bytes, NEW F, Piece(s, N, F), NEW n \in Nat,
         0 < n, n <= s.len, s.fin => n = s.len
  PROVE  /\ Cut(s, n) \in Segs /\ Piece(Cut(s, n), N, F)
         /\ Cut(s, n).seq = s.seq /\ Cut(s, n).len = n /\ Cut(s, n).fin = s.fin
         /\ DataTop(Cut(s, n)) = Pos(s.seq) + n
<1>1. Pos(s.seq) \in Nat /\ s.len \in Nat /\ Len(s.data) = s.len /\ s.data = Run(Pos(s.seq), s.len)
      /\ DataTop(s) <= N
  BY PieceFacts DEF Piece
<1>2. Smaller(n, Len(s.data)) = n
  BY <1>1 DEF Smaller
<1>3. SubSeq(s.data, 1, n) = Run(Pos(s.seq), n)
  <2>1. n \in 0..s.len
    BY <1>1
  <2> QED
    BY <1>1, <2>1, RunCut
<1>4. Cut(s, n) = [s EXCEPT !.len = n, !.data = Run(Pos(s.seq), n)]
  BY <1>2, <1>3 DEF Cut
<1>5. Run(Pos(s.seq), n) \in Seq(Nat)
  BY <1>1, RunIs
<1>6. Cut(s, n) \in Segs /\ Cut(s, n).seq = s.seq /\ Cut(s, n).len = n /\ Cut(s, n).fin = s.fin
      /\ Cut(s, n).data = Run(Pos(s.seq), n)
  BY <1>4, <1>5 DEF Segs
<1>7. DataTop(Cut(s, n)) = Pos(s.seq) + n
  BY <1>6 DEF DataTop
<1>8. Pos(s.seq) + n <= N
  BY <1>1 DEF DataTop
<1>9. s.fin => F /\ Pos(s.seq) + n = N
  BY DEF Piece, DataTop
<1> QED
  BY <1>6, <1>7, <1>8, <1>9 DEF Piece

\* f is the function that the definition of Joined names.
IsJoin(f, all) ==
  f = [i \in 0..Len(all) |->
         IF i = 0 THEN [len |-> 0, data |-> <<>>]
         ELSE [len |-> f[i - 1].len + TcpLen(all[i]), data |-> f[i - 1].data \o all[i].data]]

\* There is one such function only, so that its last value is Joined.
LEMMA JoinIs ==
  ASSUME NEW all \in Seq(Segs), NEW f, IsJoin(f, all)
  PROVE  Joined(all) = f[Len(all)]
<1> DEFINE g == CHOOSE h : IsJoin(h, all)
           n == Len(all)
           T == {i \in 0..n : f[i] # g[i]}
<1>1. IsJoin(g, all)
  OBVIOUS
<1>2. Joined(all) = g[n]
  BY DEF Joined, IsJoin
<1>3. n \in Nat
  OBVIOUS
<1> HIDE DEF g, n
<1>4. ASSUME T # {} PROVE FALSE
  <2>1. T \subseteq Nat
    BY <1>3
  <2>2. PICK m \in T : \A i \in T : m <= i
    <3> HIDE DEF T
    <3> QED
      BY <1>4, <2>1, LeastElement
  <2>3. m \in 0..n /\ f[m] # g[m]
    OBVIOUS
  <2>4. f[0] = [len |-> 0, data |-> <<>>] /\ g[0] = [len |-> 0, data |-> <<>>]
    BY <1>1, <1>3 DEF IsJoin, n
  <2>5. m # 0
    BY <2>3, <2>4
  <2>6. m - 1 \in 0..n /\ m - 1 < m
    BY <1>3, <2>3, <2>5
  <2>7. f[m - 1] = g[m - 1]
    BY <2>2, <2>6
  <2>8. /\ f[m] = [len |-> f[m - 1].len + TcpLen(all[m]), data |-> f[m - 1].data \o all[m].data]
        /\ g[m] = [len |-> g[m - 1].len + TcpLen(all[m]), data |-> g[m - 1].data \o all[m].data]
    BY <1>1, <2>3, <2>5 DEF IsJoin, n
  <2> QED
    BY <2>3, <2>7, <2>8
<1>5. n \in 0..n
  BY <1>3
<1>6. f[n] = g[n]
  BY <1>4, <1>5
<1> QED
  BY <1>2, <1>6 DEF n

\* Segments that follow each other hold a run of the stream.
LEMMA JoinedIs ==
  ASSUME NEW all \in Seq(Segs), all # <<>>, NEW N \in 0..Bytes, NEW F,
         \A i \in 1..Len(all) : Piece(all[i], N, F) /\ Pos(all[1].seq) <= Pos(all[i].seq),
         \A i \in 2..Len(all) : Pos(all[i].seq) = Top(all[i - 1]),
         \A i \in 1..(Len(all) - 1) : ~all[i].fin
  PROVE  LET k == Pos(all[1].seq)
             t == all[Len(all)]
         IN Joined(all) = [len |-> Top(t) - k, data |-> Run(k, DataTop(t) - k)]
<1> DEFINE k == Pos(all[1].seq)
           n == Len(all)
           At0(i) == [len |-> Top(all[i]) - k, data |-> Run(k, DataTop(all[i]) - k)]
           f == [i \in 0..n |-> IF i = 0 THEN [len |-> 0, data |-> <<>>] ELSE At0(i)]
<1>1. n \in Nat /\ n >= 1 /\ \A i \in 1..n : all[i] \in Segs
  OBVIOUS
<1>2. ASSUME NEW i \in 1..n
      PROVE  f[i] = [len |-> f[i - 1].len + TcpLen(all[i]), data |-> f[i - 1].data \o all[i].data]
  <2>1. f[i] = At0(i)
    OBVIOUS
  <2>2. Piece(all[i], N, F) /\ all[i] \in Segs
    BY <1>1
  <2>3. /\ Pos(all[i].seq) \in Nat /\ all[i].len \in Nat
        /\ Top(all[i]) = Pos(all[i].seq) + TcpLen(all[i]) /\ TcpLen(all[i]) \in Nat
        /\ all[i].data = Run(Pos(all[i].seq), all[i].len)
    BY <2>2, PieceFacts DEF Piece
  <2>4. CASE i = 1
    <3>1. f[i - 1] = [len |-> 0, data |-> <<>>]
      BY <1>1, <2>4
    <3>2. Top(all[1]) - k = 0 + TcpLen(all[1])
      BY <2>3, <2>4
    <3>3. DataTop(all[1]) - k = all[1].len
      BY <2>3, <2>4 DEF DataTop
    <3>4. <<>> \o all[1].data = all[1].data
      BY <2>2, <2>4, ConcatEmptySeq DEF Segs
    <3>5. f[i - 1].len = 0 /\ f[i - 1].data = <<>>
      BY <3>1
    <3>6. f[1] = [len |-> Top(all[1]) - k, data |-> Run(k, DataTop(all[1]) - k)]
      BY <2>1, <2>4
    <3>7. all[1].data = Run(k, all[1].len)
      BY <2>3, <2>4
    <3> HIDE DEF f, k
    <3> QED
      BY <2>4, <3>2, <3>3, <3>4, <3>5, <3>6, <3>7
  <2>5. CASE i # 1
    <3> DEFINE p == all[i - 1]
    <3>1. i - 1 \in 1..n /\ i \in 2..n /\ i - 1 \in 1..(n - 1)
      BY <1>1, <2>5
    <3>2. f[i - 1] = At0(i - 1)
      BY <3>1
    <3>3. p \in Segs /\ Piece(p, N, F) /\ ~p.fin /\ Pos(all[i].seq) = Top(p) /\ k <= Pos(p.seq)
      BY <1>1, <3>1
    <3>4. Pos(p.seq) \in Nat /\ p.len \in Nat /\ DataTop(p) \in Nat /\ Top(p) = DataTop(p)
      BY <3>3, PieceFacts DEF Top, One
    <3>5. k \in Nat
      BY <1>1, PieceFacts
    <3> HIDE DEF f, p, k
    <3>6. DataTop(p) - k \in Nat /\ k + (DataTop(p) - k) = Pos(all[i].seq)
      BY <3>3, <3>4, <3>5 DEF DataTop
    <3>7. Run(k, DataTop(p) - k) \o Run(Pos(all[i].seq), all[i].len)
          = Run(k, (DataTop(p) - k) + all[i].len)
      <4> DEFINE d == DataTop(p) - k
      <4>1. d \in Nat /\ k + d = Pos(all[i].seq) /\ all[i].len \in Nat
        BY <2>3, <3>6
      <4> HIDE DEF d
      <4>2. Run(k, d) \o Run(k + d, all[i].len) = Run(k, d + all[i].len)
        BY <3>5, <4>1, RunJoin
      <4> QED
        BY <4>1, <4>2 DEF d
    <3>8. (DataTop(p) - k) + all[i].len = DataTop(all[i]) - k
      BY <2>3, <3>3, <3>4, <3>5 DEF DataTop
    <3>9. Top(all[i]) - k = (Top(p) - k) + TcpLen(all[i])
      BY <2>3, <3>3, <3>4, <3>5
    <3>10. f[i - 1] = [len |-> Top(p) - k, data |-> Run(k, DataTop(p) - k)]
      BY <3>2 DEF p
    <3>11. f[i] = [len |-> Top(all[i]) - k, data |-> Run(k, DataTop(all[i]) - k)]
      BY <2>1 DEF f
    <3>12. f[i - 1].len = Top(p) - k /\ f[i - 1].data = Run(k, DataTop(p) - k)
      BY <3>10
    <3> QED
      BY <2>3, <3>7, <3>8, <3>9, <3>11, <3>12
  <2> QED
    BY <2>4, <2>5
<1>3. f[0] = [len |-> 0, data |-> <<>>]
  BY <1>1
<1>4. \A i \in 0..n : f[i] = IF i = 0 THEN [len |-> 0, data |-> <<>>]
         ELSE [len |-> f[i - 1].len + TcpLen(all[i]), data |-> f[i - 1].data \o all[i].data]
  <2> HIDE DEF f
  <2>1. ASSUME NEW i \in 0..n, i # 0 PROVE i \in 1..n
    BY <1>1, <2>1
  <2> QED
    BY <1>2, <1>3, <2>1
<1>5. IsJoin(f, all)
  BY <1>4 DEF IsJoin
<1>6. f[n] = At0(n)
  BY <1>1
<1> HIDE DEF f
<1>7. Joined(all) = f[n]
  BY <1>5, JoinIs
<1> QED
  BY <1>6, <1>7

-----------------------------------------------------------------------------
(* The sending end: its type, its queue, its numbers.                      *)

\* The states of the sending end
SndStates == {"ESTABLISHED", "CLOSE_WAIT", "FIN_WAIT_1", "FIN_WAIT_2", "LAST_ACK", "CLOSED"}

\* Windows, as a 16-bit number
Windows == 0..(WndWidth - 1)

\* The pcb of the sending end
Pcbs == [state : SndStates, unacked : Seq(Segs), unsent : Seq(Segs), lastack : Numbers,
         nxt : Numbers, lbb : Numbers, wnd : Windows, wl2 : Numbers,
         cwnd : MSS..(WndWidth - 1), ssthresh : (2 * MSS)..(WndWidth - 1), buf : Nat,
         timer : BOOLEAN, persist : BOOLEAN, dupacks : 0..4, infr : BOOLEAN, fin : BOOLEAN]

\* Segments that follow each other up to the last of the N bytes, and the FIN behind it
Chain(q, N, F) ==
  /\ \A i \in 1..Len(q) : Piece(q[i], N, F) /\ q[i].len <= MSS
  /\ \A i, j \in 1..Len(q) : i < j => Top(q[i]) <= Pos(q[j].seq)
  /\ \A i \in 2..Len(q) : Pos(q[i].seq) = Top(q[i - 1])
  /\ q # <<>> => Top(q[Len(q)]) = N + One(F)

\* q is what the sender keeps: from the first byte that is not acknowledged on
Holds(q, p, N) ==
  /\ Chain(q, N, p.fin)
  /\ q # <<>> => Pos(q[1].seq) <= Pos(p.lastack) /\ Pos(p.lastack) < Top(q[1])
  /\ q = <<>> => p.lastack = p.nxt /\ Pos(p.nxt) = N + One(p.fin)

\* The numbers of the sending end fit each other, and N, the bytes written.
NumbersOK(p, N) ==
  /\ Pos(p.lastack) <= Pos(p.nxt) /\ Pos(p.nxt) <= N + One(p.fin)
  /\ \A i \in 1..Len(p.unacked) : Top(p.unacked[i]) <= Pos(p.nxt)
  /\ ~p.fin => p.lbb = At(N)
  /\ p.fin <=> p.state \notin {"ESTABLISHED", "CLOSE_WAIT"}
  /\ Smaller(Pos(p.nxt), N) <= Pos(p.lastack) + p.wnd
  /\ p.persist <=> p.wnd = 0
  /\ Pos(p.lastack) <= Pos(p.wl2)

\* All the segments that are not acknowledged
Queue(p) == p.unacked \o p.unsent

\* The sending end: its numbers, and a queue that holds what is not acknowledged
SndOK(p, N) == p \in Pcbs /\ NumbersOK(p, N) /\ Holds(Queue(p), p, N)

\* Before tcp_output: as between two handlers, or the first segment is to be sent again.
Resends(p, N) ==
  /\ p.unsent # <<>> /\ p.infr /\ Top(p.unsent[1]) <= Pos(p.nxt)
  /\ Holds((<<p.unsent[1]>> \o p.unacked) \o Tail(p.unsent), p, N)

\* SndOK but for a segment that a retransmission is about to put back
Ready(p, N) == p \in Pcbs /\ NumbersOK(p, N) /\ (Holds(Queue(p), p, N) \/ Resends(p, N))

-----------------------------------------------------------------------------

\* The types of the numbers of the sending end
LEMMA PcbTypes ==
  ASSUME NEW p \in Pcbs, NEW N \in 0..Bytes, NumbersOK(p, N)
  PROVE  /\ p.unacked \in Seq(Segs) /\ p.unsent \in Seq(Segs) /\ p.fin \in BOOLEAN
         /\ p.lastack \in Numbers /\ p.nxt \in Numbers /\ p.wl2 \in Numbers
         /\ p.wnd \in Nat /\ p.cwnd \in Nat /\ p.cwnd >= MSS /\ p.buf \in Nat
         /\ Pos(p.lastack) \in Nat /\ Pos(p.nxt) \in Nat /\ Pos(p.wl2) \in Nat
         /\ Pos(p.lastack) \in Positions /\ Pos(p.nxt) \in Positions
         /\ p.lastack = At(Pos(p.lastack)) /\ p.nxt = At(Pos(p.nxt))
<1>1. /\ p.unacked \in Seq(Segs) /\ p.unsent \in Seq(Segs) /\ p.fin \in BOOLEAN
      /\ p.lastack \in Numbers /\ p.nxt \in Numbers /\ p.wl2 \in Numbers
      /\ p.wnd \in Nat /\ p.cwnd \in Nat /\ p.cwnd >= MSS /\ p.buf \in Nat
  BY Widths DEF Pcbs, Windows
<1>2. /\ Pos(p.lastack) \in Nat /\ Pos(p.nxt) \in Nat /\ Pos(p.wl2) \in Nat
      /\ p.lastack = At(Pos(p.lastack)) /\ p.nxt = At(Pos(p.nxt))
  BY <1>1, AtPos
<1>3. Pos(p.nxt) <= Bytes + 1 /\ Pos(p.lastack) <= Bytes + 1
  BY <1>2, Widths DEF NumbersOK, One
<1> QED
  BY <1>1, <1>2, <1>3, Widths DEF Positions

\* The elements of two queues put one behind the other.
LEMMA Behind ==
  ASSUME NEW S, NEW u \in Seq(S), NEW v \in Seq(S)
  PROVE  /\ u \o v \in Seq(S) /\ Len(u \o v) = Len(u) + Len(v)
         /\ \A i \in 1..Len(u) : (u \o v)[i] = u[i]
         /\ \A i \in 1..Len(v) : (u \o v)[Len(u) + i] = v[i]
         /\ u \o v = <<>> <=> u = <<>> /\ v = <<>>
<1> DEFINE w == u \o v
<1>1. w \in Seq(S) /\ Len(w) = Len(u) + Len(v)
      /\ \A i \in 1..(Len(u) + Len(v)) : w[i] = IF i <= Len(u) THEN u[i] ELSE v[i - Len(u)]
  BY ConcatProperties
<1> HIDE DEF w
<1>2. \A i \in 1..Len(u) : w[i] = u[i]
  BY <1>1
<1>3. ASSUME NEW i \in 1..Len(v) PROVE w[Len(u) + i] = v[i]
  <2>1. Len(u) + i \in 1..(Len(u) + Len(v)) /\ ~(Len(u) + i <= Len(u)) /\ (Len(u) + i) - Len(u) = i
    OBVIOUS
  <2> QED
    BY <1>1, <2>1
<1>4. w = <<>> <=> u = <<>> /\ v = <<>>
  BY ConcatEqualIffEmpty DEF w
<1> QED
  BY <1>1, <1>2, <1>3, <1>4 DEF w

\* The segments of a chain lie behind what is acknowledged.
LEMMA HeldFacts ==
  ASSUME NEW p \in Pcbs, NEW N \in 0..Bytes, NumbersOK(p, N),
         NEW q \in Seq(Segs), Holds(q, p, N), NEW i \in 1..Len(q)
  PROVE  /\ q[i] \in Segs /\ Piece(q[i], N, p.fin) /\ q[i].len <= MSS
         /\ Pos(p.lastack) < Top(q[i]) /\ Pos(p.lastack) <= DataTop(q[i])
<1>1. q[i] \in Segs /\ q[1] \in Segs /\ q # <<>> /\ 1 \in 1..Len(q)
  BY ElementOfSeq
<1>2. /\ Piece(q[i], N, p.fin) /\ q[i].len <= MSS /\ Piece(q[1], N, p.fin)
      /\ 1 < i => Top(q[1]) <= Pos(q[i].seq)
      /\ Pos(p.lastack) < Top(q[1])
  BY <1>1 DEF Holds, Chain
<1>3. Pos(q[i].seq) < Top(q[i]) /\ Top(q[i]) \in Nat /\ Top(q[1]) \in Nat
      /\ Pos(q[i].seq) \in Nat /\ DataTop(q[i]) \in Nat
  BY <1>1, <1>2, PieceFacts
<1>4. Pos(p.lastack) \in Nat
  BY PcbTypes
<1>5. Pos(p.lastack) < Top(q[i])
  <2>1. CASE i = 1
    BY <1>2, <2>1
  <2>2. CASE i # 1
    BY <1>2, <1>3, <1>4, <2>2
  <2> QED
    BY <2>1, <2>2
<1>6. Top(q[i]) <= DataTop(q[i]) + 1
  BY <1>1, <1>3 DEF Top, One
<1> QED
  BY <1>1, <1>2, <1>3, <1>4, <1>5, <1>6

-----------------------------------------------------------------------------
(* tcp_output.                                                             *)

\* What it sends are the first segments of unsent that fit into the window.
Fits(p, s) == DataTop(s) - Pos(p.lastack) <= Smaller(p.wnd, p.cwnd)

\* tcp_output sends the segments before the first that must wait.
LEMMA SendableIs ==
  ASSUME NEW p \in Pcbs, NEW N \in 0..Bytes, NumbersOK(p, N),
         \A i \in 1..Len(p.unsent) : /\ Piece(p.unsent[i], N, p.fin)
                                     /\ Pos(p.lastack) <= DataTop(p.unsent[i])
  PROVE  \E k \in 0..Len(p.unsent) :
           /\ Sendable(p) = SubSeq(p.unsent, 1, k)
           /\ Rest(p.unsent, Sendable(p)) = SubSeq(p.unsent, k + 1, Len(p.unsent))
           /\ \A i \in 1..k : Fits(p, p.unsent[i])
           /\ k < Len(p.unsent) /\ Fits(p, p.unsent[k + 1])
                => ~Nagle(p, k + 1) /\ ~p.fin
<1> DEFINE v == p.unsent
           F(i) == /\ Minus(Plus(p.unsent[i].seq, p.unsent[i].len), p.lastack)
                        <= Smaller(p.wnd, p.cwnd)
                   /\ Nagle(p, i) \/ p.fin
           G == {i \in DOMAIN v : F(i)}
<1>1. v \in Seq(Segs) /\ Pos(p.lastack) \in Nat /\ Pos(p.lastack) \in Positions
      /\ p.lastack = At(Pos(p.lastack))
  BY PcbTypes
<1>2. PICK k \in 0..Len(v) :
           /\ Prefix(v, G) = SubSeq(v, 1, k)
           /\ Rest(v, Prefix(v, G)) = SubSeq(v, k + 1, Len(v))
           /\ \A j \in 1..k : j \in G
           /\ k < Len(v) => k + 1 \notin G
  <2> HIDE DEF G, v
  <2> QED
    BY <1>1, PrefixIs
<1>3. ASSUME NEW i \in 1..Len(v) PROVE F(i) <=> Fits(p, v[i]) /\ (Nagle(p, i) \/ p.fin)
  <2>1. v[i] \in Segs /\ Piece(v[i], N, p.fin) /\ Pos(p.lastack) <= DataTop(v[i])
    BY <1>1
  <2>2. Plus(v[i].seq, v[i].len) = At(DataTop(v[i])) /\ DataTop(v[i]) \in Nat /\ DataTop(v[i]) <= Bytes
    BY <2>1, PieceFacts, Widths
  <2>3. DataTop(v[i]) - Pos(p.lastack) \in Numbers
    BY <1>1, <2>1, <2>2, Widths DEF Numbers
  <2>4. Minus(At(DataTop(v[i])), At(Pos(p.lastack))) = DataTop(v[i]) - Pos(p.lastack)
    BY <1>1, <2>2, <2>3, AtMinus
  <2> QED
    BY <1>1, <2>2, <2>4 DEF Fits
<1>4. Sendable(p) = Prefix(v, G)
  BY DEF Sendable
<1>5. \A i \in 1..k : Fits(p, v[i])
  <2>1. \A i \in 1..k : i \in 1..Len(v) /\ F(i)
    BY <1>1, <1>2
  <2> HIDE DEF v, F
  <2> QED
    BY <1>3, <2>1
<1>6. k < Len(v) => k + 1 \in 1..Len(v) /\ ~F(k + 1)
  <2>1. k < Len(v) => k + 1 \in DOMAIN v /\ k + 1 \in 1..Len(v)
    BY <1>1
  <2> QED
    BY <1>2, <2>1
<1>7. k < Len(v) /\ Fits(p, v[k + 1]) => ~Nagle(p, k + 1) /\ ~p.fin
  <2> HIDE DEF v, F
  <2> QED
    BY <1>3, <1>6
<1> HIDE DEF G
<1> QED
  BY <1>2, <1>4, <1>5, <1>7

\* The fields that tcp_output changes
LEMMA OutputFields ==
  ASSUME NEW p \in Pcbs, Sendable(p) # <<>>
  PROVE  LET now == Sendable(p)
             end == End(now[Len(now)])
         IN Output(p) = [p EXCEPT !.unsent = Rest(p.unsent, now),
                                  !.unacked = AllInOrder(p.unacked, now),
                                  !.nxt = IF Lt(p.nxt, end) THEN end ELSE p.nxt,
                                  !.timer = TRUE]
BY DEF Output, Last

\* The segments of "now" have been sent, and c is what the two queues hold.
LEMMA Sent ==
  ASSUME NEW p \in Pcbs, NEW N \in 0..Bytes, NumbersOK(p, N),
         NEW c \in Seq(Segs), Holds(c, p, N),
         NEW now \in Seq(Segs), now # <<>>, now = Sendable(p),
         NEW all \in Seq(Segs), all = AllInOrder(p.unacked, now),
         NEW rest \in Seq(Segs), rest = Rest(p.unsent, now),
         all \o rest = c,
         \A i \in 1..Len(all) : \/ Top(all[i]) <= Pos(p.nxt)
                                \/ Top(all[i]) <= Top(now[Len(now)]),
         \A i \in 1..Len(now) : /\ Piece(now[i], N, p.fin) /\ Fits(p, now[i])
                                /\ Pos(p.lastack) < Top(now[i])
                                /\ \/ Top(now[i]) <= Pos(p.nxt)
                                   \/ Top(now[i]) <= Top(now[Len(now)])
  PROVE  LET o == Output(p)
         IN /\ SndOK(o, N)
            /\ \A i \in 1..Len(now) : /\ Top(now[i]) <= Pos(o.nxt)
                                      /\ DataTop(now[i]) <= Pos(p.lastack) + p.wnd
            /\ Pos(p.nxt) <= Pos(o.nxt) /\ Pos(p.lastack) < Pos(o.nxt)
<1> DEFINE o == Output(p)
           l == now[Len(now)]
           end == End(l)
<1>1. /\ p.lastack \in Numbers /\ p.nxt \in Numbers /\ p.fin \in BOOLEAN
      /\ p.wnd \in Nat /\ p.cwnd \in Nat /\ Pos(p.lastack) \in Nat /\ Pos(p.nxt) \in Nat
      /\ Pos(p.nxt) \in Positions
  BY PcbTypes
<1>2. Len(now) \in 1..Len(now) /\ l \in Segs /\ Len(now) \in Nat
  BY ElementOfSeq, EmptySeq
<1>3. Piece(l, N, p.fin) /\ Fits(p, l) /\ Pos(p.lastack) < Top(l)
  BY <1>2
<1>4. /\ end \in Numbers /\ Pos(end) = Top(l) /\ Top(l) \in Nat /\ Top(l) \in Positions
      /\ Top(l) <= N + One(p.fin) /\ DataTop(l) <= N /\ DataTop(l) \in Nat
  BY <1>2, <1>3, PieceFacts
<1>5. Lt(p.nxt, end) <=> Pos(p.nxt) < Top(l)
  BY <1>1, <1>4, PosCompare
<1>6. o = [p EXCEPT !.unsent = rest, !.unacked = all,
                    !.nxt = IF Lt(p.nxt, end) THEN end ELSE p.nxt, !.timer = TRUE]
  BY OutputFields
<1> HIDE DEF o, end, l
<1>7. /\ o \in Pcbs /\ o.unsent = rest /\ o.unacked = all /\ o.lastack = p.lastack
      /\ o.fin = p.fin /\ o.state = p.state /\ o.lbb = p.lbb /\ o.wnd = p.wnd
      /\ o.persist = p.persist /\ o.wl2 = p.wl2
      /\ o.nxt = IF Lt(p.nxt, end) THEN end ELSE p.nxt
  BY <1>1, <1>4, <1>6 DEF Pcbs
<1>8. /\ Pos(o.nxt) \in Nat /\ Pos(p.nxt) <= Pos(o.nxt) /\ Top(l) <= Pos(o.nxt)
      /\ Pos(o.nxt) = Pos(p.nxt) \/ Pos(o.nxt) = Top(l)
  BY <1>1, <1>4, <1>5, <1>7
<1>9. \A i \in 1..Len(all) : Top(all[i]) <= Pos(o.nxt)
  <2> SUFFICES ASSUME NEW i \in 1..Len(all) PROVE Top(all[i]) <= Pos(o.nxt)
    OBVIOUS
  <2>1. i \in 1..Len(c) /\ all[i] = c[i]
    BY Behind
  <2>2. all[i] \in Segs /\ Piece(all[i], N, p.fin)
    BY <2>1, HeldFacts
  <2>3. Top(all[i]) \in Nat
    BY <2>2, PieceFacts
  <2>4. Top(all[i]) <= Pos(p.nxt) \/ Top(all[i]) <= Top(l)
    BY DEF l
  <2> QED
    BY <1>1, <1>4, <1>8, <2>3, <2>4
<1>10. \A i \in 1..Len(now) : /\ Top(now[i]) <= Pos(o.nxt)
                              /\ DataTop(now[i]) <= Pos(p.lastack) + p.wnd
  <2> SUFFICES ASSUME NEW i \in 1..Len(now)
               PROVE  Top(now[i]) <= Pos(o.nxt) /\ DataTop(now[i]) <= Pos(p.lastack) + p.wnd
    OBVIOUS
  <2>1. now[i] \in Segs /\ Piece(now[i], N, p.fin)
    BY ElementOfSeq
  <2>2. Top(now[i]) \in Nat /\ DataTop(now[i]) \in Nat
    BY <2>1, PieceFacts
  <2>3. Top(now[i]) <= Pos(p.nxt) \/ Top(now[i]) <= Top(l)
    BY DEF l
  <2>4. DataTop(now[i]) <= Pos(p.lastack) + p.wnd
    <3>1. Fits(p, now[i])
      OBVIOUS
    <3> QED
      BY <1>1, <2>2, <3>1 DEF Fits, Smaller
  <2> QED
    BY <1>1, <1>4, <1>8, <2>2, <2>3, <2>4
<1>11. Smaller(Pos(o.nxt), N) <= Pos(p.lastack) + p.wnd
  <2>1. CASE Pos(o.nxt) = Pos(p.nxt)
    BY <2>1 DEF NumbersOK
  <2>2. CASE Pos(o.nxt) = Top(l)
    <3>1. Top(l) <= DataTop(l) \/ DataTop(l) = N
      BY <1>2, <1>3, <1>4 DEF Piece, Top, One
    <3>2. DataTop(l) <= Pos(p.lastack) + p.wnd
      BY <1>1, <1>3, <1>4 DEF Fits, Smaller
    <3>3. N \in Nat
      BY Widths
    <3> QED
      BY <1>1, <1>4, <2>2, <3>1, <3>2, <3>3 DEF Smaller
  <2> QED
    BY <1>8, <2>1, <2>2
<1>12. Pos(p.lastack) < Pos(o.nxt)
  BY <1>1, <1>3, <1>4, <1>8
<1>13. NumbersOK(o, N)
  <2>1. Pos(o.nxt) <= N + One(p.fin)
    BY <1>1, <1>4, <1>8 DEF NumbersOK
  <2>2. Pos(o.lastack) <= Pos(o.nxt)
    BY <1>1, <1>7, <1>8, <1>12
  <2> QED
    BY <1>7, <1>9, <1>11, <2>1, <2>2 DEF NumbersOK
<1>14. c # <<>>
  <2>1. c = <<>> => all = <<>> /\ rest = <<>>
    BY Behind
  <2>2. c = <<>> => Pos(p.nxt) = N + One(p.fin) /\ p.lastack = p.nxt
    BY DEF Holds
  <2>3. Pos(p.nxt) # Pos(p.lastack) \/ Pos(p.nxt) # N + One(p.fin)
    <3>1. Pos(p.lastack) < N + One(p.fin)
      <4>1. N \in Nat /\ N + One(p.fin) \in Nat
        BY Widths, SMTT(30) DEF One
      <4> QED
        BY <1>1, <1>3, <1>4, <4>1
    <3> QED
      BY <1>1, <3>1
  <2> QED
    BY <2>2, <2>3
<1>15. Holds(c, o, N)
  BY <1>7, <1>14 DEF Holds
<1>16. SndOK(o, N)
  BY <1>7, <1>13, <1>15 DEF SndOK, Queue
<1> QED
  BY <1>8, <1>10, <1>12, <1>16 DEF o

\* Whatever comes before it, tcp_output leaves the queues of the sender in order; it sends
\* pieces of the stream from inside the window.
LEMMA OutputOK ==
  ASSUME NEW p, NEW N \in 0..Bytes, Ready(p, N)
  PROVE  LET o == Output(p)
             now == Sendable(p)
         IN /\ SndOK(o, N) /\ now \in Seq(Segs)
            /\ \A i \in 1..Len(now) : /\ Piece(now[i], N, p.fin)
                                      /\ Top(now[i]) <= Pos(o.nxt)
                                      /\ DataTop(now[i]) <= Pos(p.lastack) + p.wnd
            /\ Pos(p.nxt) <= Pos(o.nxt)
            /\ (o = p /\ now = <<>>) \/ Pos(p.lastack) < Pos(o.nxt)
<1> DEFINE o == Output(p)
           u == p.unacked
           v == p.unsent
           n == Len(v)
<1>0. p \in Pcbs /\ NumbersOK(p, N)
  BY DEF Ready
<1>1. /\ u \in Seq(Segs) /\ v \in Seq(Segs) /\ n \in Nat /\ Len(u) \in Nat
      /\ Pos(p.lastack) \in Nat /\ Pos(p.nxt) \in Nat /\ Pos(p.nxt) \in Positions
      /\ p.cwnd \in Nat /\ p.cwnd >= MSS /\ p.wnd \in Nat
  BY <1>0, PcbTypes
<1>2. CASE Holds(Queue(p), p, N)
  <2> DEFINE c == u \o v
  <2>0. Holds(c, p, N)
    BY <1>2 DEF Queue
  <2> HIDE DEF u, v
  <2>1. /\ c \in Seq(Segs) /\ Len(c) = Len(u) + n
        /\ \A i \in 1..Len(u) : c[i] = u[i]
        /\ \A i \in 1..n : c[Len(u) + i] = v[i]
    BY <1>1, Behind
  <2>2. c = u \o v
    OBVIOUS
  <2> HIDE DEF c, n, u, v
  <2>3. ASSUME NEW i \in 1..n
        PROVE  /\ v[i] \in Segs /\ Piece(v[i], N, p.fin) /\ Pos(p.lastack) < Top(v[i])
               /\ Pos(p.lastack) <= DataTop(v[i])
    <3>1. Len(u) + i \in 1..Len(c) /\ c[Len(u) + i] = v[i]
      BY <1>1, <2>1
    <3> QED
      BY <1>0, <2>0, <2>1, <3>1, HeldFacts
  <2>4. PICK k \in 0..n :
           /\ Sendable(p) = SubSeq(v, 1, k)
           /\ Rest(v, Sendable(p)) = SubSeq(v, k + 1, n)
           /\ \A i \in 1..k : Fits(p, v[i])
    BY <1>0, <2>3, SendableIs DEF v, n
  <2> DEFINE now == SubSeq(v, 1, k)
             rest == SubSeq(v, k + 1, n)
  <2>5. CASE k = 0
    <3>1. Sendable(p) = <<>>
      BY <2>4, <2>5, SubSeqEmpty
    <3>2. Output(p) = p
      BY <3>1 DEF Output
    <3> QED
      BY <1>0, <1>1, <1>2, <3>1, <3>2, EmptySeq DEF SndOK
  <2>6. CASE k # 0
    <3>1. k \in 1..n /\ k \in Nat
      BY <1>1, <2>6
    <3>2. now \in Seq(Segs) /\ Len(now) = k /\ \A i \in 1..k : now[i] = v[i]
      BY <1>1, <3>1 DEF n
    <3>3. rest \in Seq(Segs)
      BY <1>1, <3>1 DEF n
    <3>4. now \o rest = v
      <4>1. 1 \in 1..Len(v) + 1 /\ k \in (1 - 1)..Len(v) /\ Len(v) \in k..Len(v)
        BY <1>1, <3>1 DEF n
      <4> QED
        BY <1>1, <4>1, ConcatAdjacentSubSeq, SubSeqFull DEF n
    <3> HIDE DEF now, rest
    <3>5. now # <<>> /\ now = Sendable(p) /\ rest = Rest(v, now)
      <4>1. now # <<>>
        BY <3>1, <3>2
      <4> QED
        BY <2>4, <4>1 DEF now, rest
    <3>6. ASSUME NEW i \in 1..Len(u), NEW j \in 1..n
          PROVE  Top(u[i]) <= Pos(v[j].seq) /\ Lt(u[i].seq, v[j].seq) /\ Top(u[i]) <= Pos(p.nxt)
      <4>1. i \in 1..Len(c) /\ Len(u) + j \in 1..Len(c) /\ i < Len(u) + j
            /\ c[i] = u[i] /\ c[Len(u) + j] = v[j]
        BY <1>1, <2>1, SMTT(30)
      <4>2. Top(u[i]) <= Pos(v[j].seq)
        BY <2>0, <4>1 DEF Holds, Chain
      <4>3. u[i] \in Segs /\ Piece(u[i], N, p.fin)
        BY <1>0, <2>0, <2>1, <4>1, HeldFacts
      <4>4. Pos(u[i].seq) < Top(u[i]) /\ Pos(u[i].seq) \in Positions /\ u[i].seq \in Numbers
            /\ Top(u[i]) \in Nat /\ Pos(u[i].seq) \in Nat
        BY <4>3, PieceFacts
      <4>5. Pos(v[j].seq) \in Positions /\ v[j].seq \in Numbers /\ Pos(v[j].seq) \in Nat
        BY <2>3, PieceFacts
      <4>6. Lt(u[i].seq, v[j].seq)
        BY <4>2, <4>4, <4>5, PosCompare
      <4> QED
        BY <1>0, <4>2, <4>6 DEF NumbersOK, u
    <3>7. ASSUME NEW i \in 1..n, NEW j \in 1..n, i < j
          PROVE  Top(v[i]) <= Pos(v[j].seq) /\ Lt(v[i].seq, v[j].seq) /\ Top(v[i]) < Top(v[j])
      <4>1. Len(u) + i \in 1..Len(c) /\ Len(u) + j \in 1..Len(c) /\ Len(u) + i < Len(u) + j
            /\ c[Len(u) + i] = v[i] /\ c[Len(u) + j] = v[j]
        BY <1>1, <2>1, <3>7, SMTT(30)
      <4>2. Top(v[i]) <= Pos(v[j].seq)
        BY <2>0, <4>1 DEF Holds, Chain
      <4>3. /\ Pos(v[i].seq) < Top(v[i]) /\ Pos(v[i].seq) \in Positions /\ v[i].seq \in Numbers
            /\ Top(v[i]) \in Nat /\ Pos(v[i].seq) \in Nat
            /\ Pos(v[j].seq) < Top(v[j]) /\ Pos(v[j].seq) \in Positions /\ v[j].seq \in Numbers
            /\ Top(v[j]) \in Nat /\ Pos(v[j].seq) \in Nat
        BY <2>3, PieceFacts
      <4> QED
        BY <4>2, <4>3, PosCompare
    <3>8. AllInOrder(u, now) = u \o now
      <4>1. \A i \in 1..Len(u), j \in 1..Len(now) : Lt(u[i].seq, now[j].seq)
        <5> SUFFICES ASSUME NEW i \in 1..Len(u), NEW j \in 1..Len(now)
                     PROVE  Lt(u[i].seq, now[j].seq)
          OBVIOUS
        <5>1. j \in 1..n /\ now[j] = v[j]
          BY <1>1, <3>1, <3>2
        <5> QED
          BY <3>6, <5>1
      <4>2. \A i, j \in 1..Len(now) : i < j => Lt(now[i].seq, now[j].seq)
        <5> SUFFICES ASSUME NEW i \in 1..Len(now), NEW j \in 1..Len(now), i < j
                     PROVE  Lt(now[i].seq, now[j].seq)
          OBVIOUS
        <5>1. i \in 1..n /\ now[i] = v[i] /\ j \in 1..n /\ now[j] = v[j]
          BY <1>1, <3>1, <3>2
        <5> QED
          BY <3>7, <5>1
      <4> QED
        BY <1>1, <3>2, <4>1, <4>2, AllInOrderLast
    <3> DEFINE all == u \o now
    <3>9. /\ all \in Seq(Segs) /\ Len(all) = Len(u) + k
          /\ \A i \in 1..(Len(u) + k) : all[i] = IF i <= Len(u) THEN u[i] ELSE now[i - Len(u)]
      BY <1>1, <3>2, ConcatProperties
    <3>10. all \o rest = c
      <4>1. (u \o now) \o rest = u \o (now \o rest)
        <5>1. u \in Seq(Segs) /\ now \in Seq(Segs) /\ rest \in Seq(Segs)
          BY <1>1, <3>2, <3>3
        <5> QED
          BY <5>1, ConcatAssociative, SMTT(30)
      <4> QED
        BY <2>2, <3>4, <4>1
    <3> HIDE DEF all
    <3>11. \A i \in 1..k : Top(v[i]) <= Top(v[k])
      <4> SUFFICES ASSUME NEW i \in 1..k PROVE Top(v[i]) <= Top(v[k])
        OBVIOUS
      <4>1. Top(v[k]) \in Nat
        BY <2>3, <3>1, PieceFacts
      <4>2. CASE i = k
        BY <4>1, <4>2
      <4>3. CASE i # k
        <5>1. i < k /\ i \in 1..n /\ k \in 1..n
          BY <1>1, <3>1, <4>3
        <5>2. Top(v[i]) \in Nat
          BY <2>3, <5>1, PieceFacts
        <5> QED
          BY <3>7, <4>1, <5>1, <5>2
      <4> QED
        BY <4>2, <4>3
    <3>12. now[Len(now)] = v[k]
      BY <3>1, <3>2
    <3>13. \A i \in 1..Len(all) : \/ Top(all[i]) <= Pos(p.nxt)
                                  \/ Top(all[i]) <= Top(now[Len(now)])
      <4> SUFFICES ASSUME NEW i \in 1..(Len(u) + k)
                   PROVE  Top(all[i]) <= Pos(p.nxt) \/ Top(all[i]) <= Top(now[Len(now)])
        BY <3>9
      <4>1. CASE i <= Len(u)
        <5>1. i \in 1..Len(u) /\ all[i] = u[i]
          BY <1>1, <3>9, <4>1
        <5> QED
          BY <3>1, <3>6, <5>1
      <4>2. CASE ~(i <= Len(u))
        <5>1. i - Len(u) \in 1..k /\ all[i] = now[i - Len(u)]
          BY <1>1, <3>1, <3>9, <4>2
        <5> QED
          BY <3>2, <3>11, <3>12, <5>1
      <4> QED
        BY <4>1, <4>2
    <3>14. \A i \in 1..Len(now) : /\ Piece(now[i], N, p.fin) /\ Fits(p, now[i])
                                  /\ Pos(p.lastack) < Top(now[i])
                                  /\ \/ Top(now[i]) <= Pos(p.nxt)
                                     \/ Top(now[i]) <= Top(now[Len(now)])
      <4> SUFFICES ASSUME NEW i \in 1..k
                   PROVE  /\ Piece(now[i], N, p.fin) /\ Fits(p, now[i])
                          /\ Pos(p.lastack) < Top(now[i])
                          /\ Top(now[i]) <= Top(now[Len(now)])
        BY <3>2
      <4>1. i \in 1..n /\ now[i] = v[i]
        BY <1>1, <3>1, <3>2
      <4> QED
        BY <2>3, <2>4, <3>11, <3>12, <4>1
    <3>15. /\ SndOK(o, N)
           /\ \A i \in 1..Len(now) : /\ Top(now[i]) <= Pos(o.nxt)
                                     /\ DataTop(now[i]) <= Pos(p.lastack) + p.wnd
           /\ Pos(p.nxt) <= Pos(o.nxt) /\ Pos(p.lastack) < Pos(o.nxt)
      <4>1. all = AllInOrder(p.unacked, now) /\ rest = Rest(p.unsent, now)
        BY <3>5, <3>8 DEF all, u, v
      <4> QED
        BY <1>0, <2>0, <2>1, <3>2, <3>3, <3>5, <3>9, <3>10, <3>13, <3>14, <4>1, Sent
    <3> QED
      BY <3>2, <3>5, <3>14, <3>15
  <2> QED
    BY <2>5, <2>6
<1>3. CASE Resends(p, N)
  <2> DEFINE h == v[1]
             t == Tail(v)
             r == <<h>> \o u
             c == r \o t
  <2>0. Holds(c, p, N) /\ v # <<>> /\ p.infr /\ Top(h) <= Pos(p.nxt)
    BY <1>3 DEF Resends
  <2>1. n >= 1 /\ h \in Segs /\ t \in Seq(Segs) /\ Len(t) = n - 1
        /\ \A i \in 1..(n - 1) : t[i] = v[i + 1]
    BY <1>1, <2>0, HeadTailProperties, EmptySeq
  <2> HIDE DEF u, v, h, t, n
  <2>2. /\ r \in Seq(Segs) /\ Len(r) = Len(u) + 1 /\ r[1] = h
        /\ \A i \in 1..Len(u) : r[1 + i] = u[i]
    <3>1. <<h>> \in Seq(Segs) /\ Len(<<h>>) = 1 /\ <<h>>[1] = h
      BY <2>1
    <3> QED
      BY <1>1, <3>1, Behind
  <2> HIDE DEF r
  <2>3. /\ c \in Seq(Segs) /\ Len(c) = Len(r) + (n - 1) /\ c = r \o t
        /\ \A i \in 1..Len(r) : c[i] = r[i]
        /\ \A i \in 1..(n - 1) : c[Len(r) + i] = t[i]
    <3>1. r \in Seq(Segs) /\ t \in Seq(Segs)
      BY <2>1, <2>2
    <3>2. /\ c \in Seq(Segs) /\ Len(c) = Len(r) + Len(t)
          /\ \A i \in 1..Len(r) : c[i] = r[i]
          /\ \A i \in 1..Len(t) : c[Len(r) + i] = t[i]
      BY <3>1, Behind
    <3> HIDE DEF c
    <3>3. c = r \o t
      BY DEF c
    <3> QED
      BY <2>1, <3>2, <3>3
  <2> HIDE DEF c
  <2>4. c[1] = h /\ 1 \in 1..Len(c) /\ c # <<>>
    BY <1>1, <2>1, <2>2, <2>3
  <2>5. ASSUME NEW i \in 1..Len(u)
        PROVE  1 + i \in 1..Len(c) /\ 1 + i \in 1..Len(r) /\ c[1 + i] = u[i]
    BY <1>1, <2>1, <2>2, <2>3
  <2>6. ASSUME NEW i \in 1..n, i # 1
        PROVE  Len(u) + i \in 1..Len(c) /\ i - 1 \in 1..(n - 1) /\ c[Len(u) + i] = v[i]
    <3>1. i - 1 \in 1..(n - 1) /\ Len(r) + (i - 1) = Len(u) + i /\ (i - 1) + 1 = i
      BY <1>1, <2>1, <2>2, <2>6
    <3>2. Len(u) + i \in 1..Len(c)
      BY <1>1, <2>1, <2>2, <2>3
    <3> QED
      BY <2>1, <2>3, <3>1, <3>2
  <2>7. ASSUME NEW i \in 1..n
        PROVE  /\ v[i] \in Segs /\ Piece(v[i], N, p.fin) /\ Pos(p.lastack) < Top(v[i])
               /\ Pos(p.lastack) <= DataTop(v[i]) /\ v[i].len <= MSS
    <3>1. CASE i = 1
      <4>1. /\ c[1] \in Segs /\ Piece(c[1], N, p.fin) /\ c[1].len <= MSS
            /\ Pos(p.lastack) < Top(c[1]) /\ Pos(p.lastack) <= DataTop(c[1])
        BY <1>0, <2>0, <2>3, <2>4, HeldFacts
      <4> QED
        BY <2>4, <3>1, <4>1 DEF h
    <3>2. CASE i # 1
      <4> DEFINE j == Len(u) + i
      <4>1. j \in 1..Len(c) /\ c[j] = v[i]
        BY <2>6, <3>2
      <4> HIDE DEF j
      <4>2. /\ c[j] \in Segs /\ Piece(c[j], N, p.fin) /\ c[j].len <= MSS
            /\ Pos(p.lastack) < Top(c[j]) /\ Pos(p.lastack) <= DataTop(c[j])
        BY <1>0, <2>0, <2>3, <4>1, HeldFacts
      <4> QED
        BY <4>1, <4>2
    <3> QED
      BY <3>1, <3>2
  <2>8. PICK k \in 0..n :
           /\ Sendable(p) = SubSeq(v, 1, k)
           /\ Rest(v, Sendable(p)) = SubSeq(v, k + 1, n)
           /\ \A i \in 1..k : Fits(p, v[i])
           /\ k < n /\ Fits(p, v[k + 1]) => ~Nagle(p, k + 1) /\ ~p.fin
    BY <1>0, <2>7, SendableIs DEF v, n
  <2>9. Fits(p, h)
    <3>1. Piece(h, N, p.fin) /\ h.len <= MSS /\ Pos(h.seq) <= Pos(p.lastack) /\ h \in Segs
      BY <2>0, <2>1, <2>4, <2>7 DEF Holds, h
    <3>2. /\ Pos(h.seq) \in Nat /\ h.len \in Nat /\ DataTop(h) <= Top(h) /\ DataTop(h) <= N
          /\ DataTop(h) \in Nat /\ Top(h) \in Nat
      BY <3>1, PieceFacts
    <3>3. DataTop(h) - Pos(p.lastack) <= p.cwnd
      BY <1>1, <3>1, <3>2, Widths DEF DataTop
    <3>4. DataTop(h) <= Smaller(Pos(p.nxt), N)
      BY <1>1, <2>0, <3>2, Widths DEF Smaller
    <3>5. Smaller(Pos(p.nxt), N) <= Pos(p.lastack) + p.wnd
      BY <1>0 DEF NumbersOK
    <3>6. Smaller(Pos(p.nxt), N) \in Nat
      BY <1>1, Widths DEF Smaller
    <3>7. DataTop(h) - Pos(p.lastack) <= p.wnd
      BY <1>1, <3>2, <3>4, <3>5, <3>6
    <3> QED
      BY <3>3, <3>7 DEF Fits, Smaller
  <2>10. k \in 1..n /\ k \in Nat
    <3>1. k # 0
      <4>1. 0 < n /\ 0 + 1 = 1
        BY <1>1, <2>1
      <4>2. Nagle(p, 1)
        BY <2>0 DEF Nagle
      <4> QED
        BY <2>8, <2>9, <4>1, <4>2 DEF h
    <3> QED
      BY <1>1, <3>1
  <2> DEFINE now == SubSeq(v, 1, k)
             new == SubSeq(v, 2, k)
             rest == SubSeq(v, k + 1, n)
             all == r \o new
  <2>11. now \in Seq(Segs) /\ Len(now) = k /\ \A i \in 1..k : now[i] = v[i]
    BY <1>1, <2>10 DEF n
  <2>12. rest \in Seq(Segs)
    BY <1>1, <2>10 DEF n
  <2>13. new \in Seq(Segs) /\ Len(new) = k - 1 /\ \A i \in 1..(k - 1) : new[i] = v[i + 1]
    BY <1>1, <2>10 DEF n
  <2>14. now = <<h>> \o new
    <3>1. 1 \in 1..Len(v) /\ k \in 1..Len(v)
      BY <1>1, <2>1, <2>10 DEF n
    <3> QED
      BY <1>1, <3>1, SubSeqRecursiveFirst DEF h
  <2>15. new \o rest = t
    <3>1. 2 \in 1..Len(v) + 1 /\ k \in (2 - 1)..Len(v) /\ Len(v) \in k..Len(v)
      BY <1>1, <2>1, <2>10 DEF n
    <3>2. new \o rest = SubSeq(v, 2, n)
      BY <1>1, <3>1, ConcatAdjacentSubSeq DEF n
    <3>3. t = SubSeq(v, 2, n)
      BY <1>1, <2>0, TailIsSubSeq DEF t, n
    <3> QED
      BY <3>2, <3>3
  <2>16. now = Sendable(p) /\ rest = Rest(v, now)
    BY <2>8
  <2> HIDE DEF now, new, rest
  <2>17. now # <<>>
    BY <2>10, <2>11
  <2>18. ASSUME NEW i \in 1..Len(u), NEW j \in 1..n, j # 1
         PROVE  Top(u[i]) <= Pos(v[j].seq) /\ Lt(u[i].seq, v[j].seq)
    <3>1. 1 + i \in 1..Len(c) /\ c[1 + i] = u[i]
      BY <2>5
    <3>2. Len(u) + j \in 1..Len(c) /\ c[Len(u) + j] = v[j] /\ 1 + i < Len(u) + j
      BY <1>1, <2>6, <2>18
    <3>3. Top(u[i]) <= Pos(v[j].seq)
      BY <2>0, <3>1, <3>2 DEF Holds, Chain
    <3>4. u[i] \in Segs /\ Piece(u[i], N, p.fin)
      BY <1>0, <2>0, <2>3, <3>1, HeldFacts
    <3>5. Pos(u[i].seq) < Top(u[i]) /\ Pos(u[i].seq) \in Positions /\ u[i].seq \in Numbers
          /\ Top(u[i]) \in Nat /\ Pos(u[i].seq) \in Nat
      BY <3>4, PieceFacts
    <3>6. Pos(v[j].seq) \in Positions /\ v[j].seq \in Numbers /\ Pos(v[j].seq) \in Nat
      BY <2>7, PieceFacts
    <3> QED
      BY <3>3, <3>5, <3>6, PosCompare
  <2>19. ASSUME NEW i \in 1..n, NEW j \in 1..n, i < j
         PROVE  Top(v[i]) <= Pos(v[j].seq) /\ Lt(v[i].seq, v[j].seq) /\ Top(v[i]) < Top(v[j])
    <3>1. j # 1 /\ j \in Nat /\ i \in Nat
      BY <1>1, <2>19
    <3>2. Len(u) + j \in 1..Len(c) /\ c[Len(u) + j] = v[j]
      BY <2>6, <3>1
    <3>3. Top(v[i]) <= Pos(v[j].seq)
      <4>1. CASE i = 1
        <5>1. 1 \in 1..Len(c) /\ 1 < Len(u) + j /\ c[1] = v[1]
          BY <1>1, <2>4, <2>19, <3>1, <4>1 DEF h
        <5> QED
          BY <2>0, <3>2, <4>1, <5>1 DEF Holds, Chain
      <4>2. CASE i # 1
        <5>1. Len(u) + i \in 1..Len(c) /\ c[Len(u) + i] = v[i]
          BY <2>6, <4>2
        <5>2. Len(u) + i < Len(u) + j
          BY <1>1, <2>19, <3>1
        <5> QED
          BY <2>0, <3>2, <5>1, <5>2 DEF Holds, Chain
      <4> QED
        BY <4>1, <4>2
    <3>4. /\ Pos(v[i].seq) < Top(v[i]) /\ Pos(v[i].seq) \in Positions /\ v[i].seq \in Numbers
          /\ Top(v[i]) \in Nat /\ Pos(v[i].seq) \in Nat
          /\ Pos(v[j].seq) < Top(v[j]) /\ Pos(v[j].seq) \in Positions /\ v[j].seq \in Numbers
          /\ Top(v[j]) \in Nat /\ Pos(v[j].seq) \in Nat
      BY <2>7, PieceFacts
    <3> QED
      BY <3>3, <3>4, PosCompare
  <2>20. AllInOrder(u, now) = all
    <3>1. u # <<>> => ~Lt(u[1].seq, h.seq)
      <4> SUFFICES ASSUME u # <<>> PROVE ~Lt(u[1].seq, h.seq)
        OBVIOUS
      <4>1. 1 \in 1..Len(u) /\ 1 + 1 \in 1..Len(c) /\ c[1 + 1] = u[1] /\ 1 < 1 + 1
        BY <1>1, <2>5, EmptySeq
      <4>2. Top(h) <= Pos(u[1].seq)
        BY <2>0, <2>4, <4>1 DEF Holds, Chain
      <4>3. u[1] \in Segs /\ Piece(u[1], N, p.fin)
        BY <1>0, <2>0, <2>3, <4>1, HeldFacts
      <4>4. Pos(u[1].seq) \in Positions /\ u[1].seq \in Numbers /\ Pos(u[1].seq) \in Nat
        BY <4>3, PieceFacts
      <4>5. h \in Segs /\ Piece(h, N, p.fin)
        BY <2>1, <2>7 DEF h
      <4>6. Pos(h.seq) \in Positions /\ h.seq \in Numbers /\ Pos(h.seq) \in Nat
            /\ Pos(h.seq) < Top(h) /\ Top(h) \in Nat
        BY <4>5, PieceFacts
      <4> QED
        BY <4>2, <4>4, <4>6, PosCompare
    <3>2. ASSUME NEW j \in 1..Len(new)
          PROVE  j + 1 \in 1..n /\ j + 1 # 1 /\ new[j] = v[j + 1] /\ 1 < j + 1
      BY <1>1, <2>10, <2>13
    <3>3. \A i \in 1..Len(u), j \in 1..Len(new) : Lt(u[i].seq, new[j].seq)
      BY <2>18, <3>2
    <3>4. \A j \in 1..Len(new) : Lt(h.seq, new[j].seq)
      <4>1. 1 \in 1..n
        BY <1>1, <2>1
      <4> QED
        BY <2>19, <3>2, <4>1 DEF h
    <3>5. ASSUME NEW i \in 1..Len(new), NEW j \in 1..Len(new), i < j
          PROVE  Lt(new[i].seq, new[j].seq)
      <4>1. i + 1 < j + 1
        BY <2>13, <3>5
      <4> QED
        BY <2>19, <3>2, <4>1
    <3>6. AllInOrder(u, <<h>> \o new) = (<<h>> \o u) \o new
      BY <1>1, <2>1, <2>13, <3>1, <3>3, <3>4, <3>5, AllInOrderFirst
    <3> QED
      BY <2>14, <3>6 DEF r
  <2>21. all \in Seq(Segs) /\ Len(all) = Len(r) + Len(new)
         /\ \A i \in 1..(Len(r) + Len(new)) :
              all[i] = IF i <= Len(r) THEN r[i] ELSE new[i - Len(r)]
    BY <2>2, <2>13, ConcatProperties
  <2>22. all \o rest = c
    <3>1. r \in Seq(Segs) /\ new \in Seq(Segs) /\ rest \in Seq(Segs)
      BY <2>2, <2>12, <2>13
    <3>2. (r \o new) \o rest = r \o (new \o rest)
      BY <3>1, ConcatAssociative
    <3> QED
      BY <2>3, <2>15, <3>2
  <2> HIDE DEF all
  <2>23. ASSUME NEW i \in 1..k
         PROVE  i \in 1..n /\ now[i] = v[i] /\ Top(v[i]) <= Top(v[k])
    <3>0. i \in 1..n /\ k \in 1..n
      BY <1>1, <2>10
    <3>1. Top(v[k]) \in Nat /\ Top(v[i]) \in Nat
      BY <2>7, <3>0, PieceFacts
    <3>2. CASE i = k
      BY <2>11, <3>0, <3>1, <3>2
    <3>3. CASE i # k
      <4>1. i < k
        BY <1>1, <2>10, <3>3
      <4> QED
        BY <2>11, <2>19, <3>0, <3>1, <4>1
    <3> QED
      BY <3>2, <3>3
  <2>24. now[Len(now)] = v[k]
    BY <2>10, <2>11
  <2>25. ASSUME NEW i \in 1..Len(all)
         PROVE  Top(all[i]) <= Pos(p.nxt) \/ Top(all[i]) <= Top(now[Len(now)])
    <3>1. CASE i = 1
      <4>1. all[1] = h
        BY <1>1, <2>2, <2>21, <3>1
      <4> QED
        BY <2>0, <3>1, <4>1
    <3>2. CASE i # 1 /\ i <= Len(r)
      <4>1. i - 1 \in 1..Len(u) /\ 1 + (i - 1) = i /\ all[i] = r[i]
        BY <1>1, <2>2, <2>21, <3>2
      <4>2. all[i] = u[i - 1]
        BY <2>2, <4>1
      <4>3. Top(u[i - 1]) <= Pos(p.nxt)
        BY <1>0, <4>1 DEF NumbersOK, u
      <4> QED
        BY <4>2, <4>3
    <3>3. CASE ~(i <= Len(r))
      <4>1. i - Len(r) \in 1..(k - 1) /\ all[i] = new[i - Len(r)] /\ (i - Len(r)) + 1 \in 1..k
        BY <1>1, <2>2, <2>10, <2>13, <2>21, <3>3, SMTT(30)
      <4>2. all[i] = v[(i - Len(r)) + 1]
        BY <2>13, <4>1
      <4> QED
        BY <2>23, <2>24, <4>1, <4>2
    <3> QED
      BY <3>1, <3>2, <3>3
  <2>26. \A i \in 1..Len(now) : /\ Piece(now[i], N, p.fin) /\ Fits(p, now[i])
                                /\ Pos(p.lastack) < Top(now[i])
                                /\ Top(now[i]) <= Top(now[Len(now)])
    <3> SUFFICES ASSUME NEW i \in 1..k
                 PROVE  /\ Piece(now[i], N, p.fin) /\ Fits(p, now[i])
                        /\ Pos(p.lastack) < Top(now[i])
                        /\ Top(now[i]) <= Top(now[Len(now)])
      BY <2>11
    <3> QED
      BY <2>7, <2>8, <2>23, <2>24
  <2>27. /\ SndOK(o, N)
         /\ \A i \in 1..Len(now) : /\ Top(now[i]) <= Pos(o.nxt)
                                   /\ DataTop(now[i]) <= Pos(p.lastack) + p.wnd
         /\ Pos(p.nxt) <= Pos(o.nxt) /\ Pos(p.lastack) < Pos(o.nxt)
    <3>1. all = AllInOrder(p.unacked, now) /\ rest = Rest(p.unsent, now)
      BY <2>16, <2>20 DEF u, v
    <3>2. c \in Seq(Segs) /\ Holds(c, p, N)
      BY <2>0, <2>3
    <3>3. \A i \in 1..Len(all) : \/ Top(all[i]) <= Pos(p.nxt)
                                 \/ Top(all[i]) <= Top(now[Len(now)])
      BY <2>25
    <3> QED
      BY <1>0, <3>2, <3>3, <2>11, <2>12, <2>16, <2>17, <2>21, <2>22, <2>25, <2>26, <3>1, Sent
  <2> QED
    BY <2>11, <2>16, <2>26, <2>27
<1> QED
  BY <1>2, <1>3 DEF Ready

-----------------------------------------------------------------------------
(* An ACK at the sending end.                                              *)

\* The receiver may have got the byte of a probe, behind what the sender counts as sent.
High(p) == IF p.unacked = <<>> /\ p.lastack = p.nxt THEN Pos(p.nxt) + 1 ELSE Pos(p.nxt)

\* What is known of an ACK that comes in
AckFits(p, a, N) ==
  /\ a.ack \in Numbers /\ a.wnd \in Windows
  /\ Pos(a.ack) <= N + One(p.fin) /\ Pos(a.ack) <= High(p) /\ Pos(p.wl2) <= N + One(p.fin)
  /\ Pos(p.wl2) < Pos(a.ack) /\ Pos(a.ack) <= N
       => Pos(p.wl2) + p.wnd <= Pos(a.ack) + a.wnd

\* What is left of a sequence behind its first k elements
LEMMA RestIs ==
  ASSUME NEW S, NEW s \in Seq(S), NEW k \in 0..Len(s)
  PROVE  /\ SubSeq(s, k + 1, Len(s)) \in Seq(S) /\ Len(SubSeq(s, k + 1, Len(s))) = Len(s) - k
         /\ \A i \in 1..(Len(s) - k) : SubSeq(s, k + 1, Len(s))[i] = s[k + i]
<1> DEFINE n == Len(s)
           r == SubSeq(s, k + 1, n)
<1>1. n \in Nat /\ k \in Nat /\ \A i \in (k + 1)..n : s[i] \in S
  OBVIOUS
<1>2. k + 1 \in Int /\ n \in Int
  BY <1>1
<1>3. /\ r \in Seq(S) /\ Len(r) = IF k + 1 <= n THEN n - (k + 1) + 1 ELSE 0
      /\ \A i \in 1..(n - (k + 1) + 1) : r[i] = s[(k + 1) + i - 1]
  BY <1>1, <1>2, SubSeqProperties
<1> HIDE DEF r
<1>4. k <= n
  OBVIOUS
<1> HIDE DEF n
<1>5. Len(r) = n - k
  BY <1>1, <1>3, <1>4
<1>6. ASSUME NEW i \in 1..(n - k) PROVE r[i] = s[k + i]
  <2>1. i \in 1..(n - (k + 1) + 1) /\ (k + 1) + i - 1 = k + i
    BY <1>1
  <2> QED
    BY <1>3, <2>1
<1> QED
  BY <1>3, <1>5, <1>6 DEF r, n

\* Division by a positive number
LEMMA Quotient == ASSUME NEW x \in Nat, NEW c \in Nat \ {0} PROVE x \div c \in Nat
<1> DEFINE q == x \div c
<1>1. q \in Int /\ x = c * q + (x % c) /\ x % c \in 0..(c - 1)
  BY Remainder
<1> HIDE DEF q
<1>2. q <= -1 => c * q <= -c
  BY <1>1
<1>3. q >= 0
  BY <1>1, <1>2
<1> QED
  BY <1>1, <1>3 DEF q

\* The congestion window only grows.
LEMMA GrowIs ==
  ASSUME NEW c \in MSS..(WndWidth - 1), NEW n \in Nat
  PROVE  Grow(c, n) \in MSS..(WndWidth - 1)
<1>1. WndWidth \in Nat \ {0} /\ c + n \in Int /\ c \in Nat /\ MSS \in Nat
  BY Widths
<1>2. (c + n) % WndWidth \in 0..(WndWidth - 1)
  BY <1>1, Remainder
<1> QED
  BY <1>1, <1>2 DEF Grow, Larger

\* When nothing that is unsent has been acknowledged
LEMMA DropNone ==
  ASSUME NEW p \in Pcbs, NEW a,
         \A i \in 1..Len(p.unsent) : ~Between(a.ack, End(p.unsent[i]), p.nxt)
  PROVE  DropUnsent(p, a) = p
<1> DEFINE v == p.unsent
           G == {i \in DOMAIN v : Between(a.ack, End(v[i]), p.nxt)}
<1>1. v \in Seq(Segs)
  BY DEF Pcbs
<1>2. G = {}
  BY <1>1
<1> HIDE DEF G
<1>3. PICK k \in 0..Len(v) :
           /\ Rest(v, Prefix(v, G)) = SubSeq(v, k + 1, Len(v))
           /\ \A j \in 1..k : j \in G
  <2> HIDE DEF v
  <2> QED
    BY <1>1, PrefixIs
<1>4. k = 0
  BY <1>1, <1>2, <1>3
<1>5. Rest(v, Prefix(v, G)) = v
  BY <1>1, <1>3, <1>4, SubSeqFull
<1>6. DropUnsent(p, a) = [p EXCEPT !.unsent = Rest(v, Prefix(v, G))]
  BY DEF DropUnsent, G
<1> QED
  BY <1>5, <1>6 DEF Pcbs

\* A has the segments of s that end at K or before.
Acked(s, A, K) == \A i \in 1..Len(s) : i \in A <=> Top(s[i]) <= K

\* r is the rest of s behind the segments that end at K or before.
IsRest(r, s, K) ==
  \E d \in 0..Len(s) : /\ r = SubSeq(s, d + 1, Len(s))
                       /\ \A i \in 1..d : Top(s[i]) <= K
                       /\ d < Len(s) => Top(s[d + 1]) > K

\* Each of r is one of s.
Among(r, s) == \A i \in 1..Len(r) : \E j \in 1..Len(s) : r[i] = s[j]

\* What the ACK does to the queues when it acknowledges something.
LEMMA Dropped ==
  ASSUME NEW u \in Seq(Segs), NEW v \in Seq(Segs), NEW N \in 0..Bytes, NEW F \in BOOLEAN,
         Chain(u \o v, N, F), NEW K \in Nat, NEW A, NEW B, Acked(u, A, K), Acked(v, B, K)
  PROVE  LET c == u \o v
             uu == Rest(u, Prefix(u, A))
             vv == Rest(v, Prefix(v, B))
         IN /\ uu \in Seq(Segs) /\ vv \in Seq(Segs)
            /\ Among(uu, u) /\ IsRest(uu \o vv, c, K)
<1> DEFINE c == u \o v
           uu == Rest(u, Prefix(u, A))
           vv == Rest(v, Prefix(v, B))
           m == Len(u)
           n == Len(v)
<1>0. m \in Nat /\ n \in Nat
  OBVIOUS
<1>1. /\ c \in Seq(Segs) /\ Len(c) = m + n
      /\ \A i \in 1..m : c[i] = u[i]
      /\ \A i \in 1..n : c[m + i] = v[i]
  BY Behind
<1> HIDE DEF c
<1>2. PICK k \in 0..m : /\ uu = SubSeq(u, k + 1, m)
                        /\ \A j \in 1..k : j \in A
                        /\ k < m => k + 1 \notin A
  BY PrefixIs
<1>3. PICK l \in 0..n : /\ vv = SubSeq(v, l + 1, n)
                        /\ \A j \in 1..l : j \in B
                        /\ l < n => l + 1 \notin B
  BY PrefixIs
<1> HIDE DEF uu, vv
<1>4. /\ uu \in Seq(Segs) /\ Len(uu) = m - k
      /\ \A i \in 1..(m - k) : uu[i] = u[k + i]
  <2>1. /\ SubSeq(u, k + 1, m) \in Seq(Segs) /\ Len(SubSeq(u, k + 1, m)) = m - k
        /\ \A i \in 1..(m - k) : SubSeq(u, k + 1, m)[i] = u[k + i]
    BY RestIs
  <2> HIDE DEF m
  <2> QED
    BY <1>2, <2>1
<1>5. /\ vv \in Seq(Segs) /\ Len(vv) = n - l
      /\ \A i \in 1..(n - l) : vv[i] = v[l + i]
  <2>1. /\ SubSeq(v, l + 1, n) \in Seq(Segs) /\ Len(SubSeq(v, l + 1, n)) = n - l
        /\ \A i \in 1..(n - l) : SubSeq(v, l + 1, n)[i] = v[l + i]
    BY RestIs
  <2> HIDE DEF n
  <2> QED
    BY <1>3, <2>1
<1>6. \A i \in 1..m : i \in A <=> Top(c[i]) <= K
  BY <1>1 DEF Acked
<1>7. \A i \in 1..n : i \in B <=> Top(c[m + i]) <= K
  BY <1>1 DEF Acked
<1> HIDE DEF m, n
<1>8. ASSUME NEW i \in 1..(m + n), NEW j \in 1..(m + n), i < j
      PROVE  Top(c[i]) < Top(c[j]) /\ Top(c[i]) \in Nat /\ Top(c[j]) \in Nat
  <2>1. c[i] \in Segs /\ Piece(c[i], N, F) /\ c[j] \in Segs /\ Piece(c[j], N, F)
        /\ Top(c[i]) <= Pos(c[j].seq)
    BY <1>1, <1>8 DEF Chain, c
  <2>2. Top(c[i]) \in Nat /\ Top(c[j]) \in Nat /\ Pos(c[j].seq) < Top(c[j]) /\ Pos(c[j].seq) \in Nat
    BY <2>1, PieceFacts
  <2> QED
    BY <2>1, <2>2
<1>9. ASSUME k < m PROVE Top(c[k + 1]) > K /\ l = 0
  <2>1. k + 1 \in 1..m /\ k + 1 \in 1..(m + n)
    BY <1>0, <1>9
  <2>2. ~(Top(c[k + 1]) <= K)
    BY <1>2, <1>6, <1>9, <2>1
  <2>0. Top(c[k + 1]) \in Nat
    <3>1. c[k + 1] \in Segs /\ Piece(c[k + 1], N, F)
      BY <1>1, <2>1 DEF Chain, c
    <3> QED
      BY <3>1, PieceFacts
  <2>3. ASSUME l # 0 PROVE FALSE
    <3>1. 1 \in 1..n /\ 1 \in 1..l /\ m + 1 \in 1..(m + n) /\ k + 1 < m + 1
      BY <1>0, <1>3, <1>9, <2>3
    <3>2. Top(c[m + 1]) <= K
      BY <1>3, <1>7, <3>1
    <3>3. Top(c[k + 1]) < Top(c[m + 1]) /\ Top(c[k + 1]) \in Nat /\ Top(c[m + 1]) \in Nat
      BY <1>8, <2>1, <3>1
    <3> QED
      BY <2>2, <3>2, <3>3
  <2> QED
    BY <2>0, <2>2, <2>3
<1> DEFINE d == k + l
<1>10. d \in 0..(m + n) /\ (k < m => d = k) /\ (k = m => d = m + l)
  BY <1>0, <1>9
<1>11. ASSUME NEW i \in 1..d PROVE Top(c[i]) <= K
  <2>1. CASE i <= k
    BY <1>0, <1>2, <1>6, <2>1
  <2>2. CASE ~(i <= k)
    <3>1. k = m
      BY <1>0, <1>9, <2>2
    <3>2. i - m \in 1..l /\ i - m \in 1..n /\ m + (i - m) = i
      BY <1>0, <2>2, <3>1
    <3> QED
      BY <1>3, <1>7, <3>2
  <2> QED
    BY <2>1, <2>2
<1>12. d < m + n => Top(c[d + 1]) > K
  <2> SUFFICES ASSUME d < m + n PROVE Top(c[d + 1]) > K
    OBVIOUS
  <2>1. CASE k < m
    BY <1>9, <1>10, <2>1
  <2>2. CASE k = m
    <3>1. d + 1 = m + (l + 1) /\ l < n /\ l + 1 \in 1..n /\ d + 1 \in 1..(m + n)
      BY <1>0, <1>10, <2>2
    <3>2. ~(Top(c[d + 1]) <= K)
      BY <1>3, <1>7, <3>1
    <3>3. c[d + 1] \in Segs /\ Piece(c[d + 1], N, F)
      <4>1. \A i \in 1..(m + n) : Piece(c[i], N, F) /\ c[i] \in Segs
        BY <1>1 DEF Chain, c
      <4> HIDE DEF d
      <4> QED
        BY <3>1, <4>1
    <3>4. Top(c[d + 1]) \in Nat
      BY <3>3, PieceFacts
    <3> QED
      BY <3>2, <3>4
  <2> QED
    BY <1>0, <2>1, <2>2
<1>13. uu \o vv = SubSeq(c, d + 1, m + n)
  <2> DEFINE a == uu \o vv
             b == SubSeq(c, d + 1, m + n)
  <2>1. a \in Seq(Segs) /\ Len(a) = (m - k) + (n - l)
        /\ \A i \in 1..((m - k) + (n - l)) :
             a[i] = IF i <= m - k THEN uu[i] ELSE vv[i - (m - k)]
    <3>1. a \in Seq(Segs) /\ Len(a) = Len(uu) + Len(vv)
          /\ \A i \in 1..(Len(uu) + Len(vv)) :
               a[i] = IF i <= Len(uu) THEN uu[i] ELSE vv[i - Len(uu)]
      BY <1>4, <1>5, ConcatProperties
    <3> HIDE DEF a
    <3> QED
      BY <1>4, <1>5, <3>1
  <2>2. /\ b \in Seq(Segs) /\ Len(b) = (m + n) - d
        /\ \A i \in 1..((m + n) - d) : b[i] = c[d + i]
    <3>1. d \in 0..Len(c)
      BY <1>1, <1>10
    <3> HIDE DEF d
    <3> QED
      BY <1>1, <3>1, RestIs
  <2> HIDE DEF a, b
  <2>3. Len(a) = Len(b)
    BY <1>0, <2>1, <2>2
  <2>4. ASSUME NEW i \in 1..Len(a) PROVE a[i] = b[i]
    <3>1. CASE i <= m - k
      <4>1. i \in 1..(m - k) /\ k + i \in 1..m /\ k < m
        BY <1>0, <3>1
      <4>2. a[i] = u[k + i] /\ c[k + i] = u[k + i]
        <5>1. a[i] = uu[i]
          BY <2>1, <3>1
        <5>2. uu[i] = u[k + i]
          BY <1>4, <4>1
        <5>3. c[k + i] = u[k + i]
          BY <1>1, <4>1
        <5> QED
          BY <5>1, <5>2, <5>3
      <4>3. b[i] = c[k + i]
        BY <1>0, <1>10, <2>1, <2>2, <2>3, <4>1
      <4> QED
        BY <4>2, <4>3
    <3>2. CASE ~(i <= m - k)
      <4> DEFINE j == i - (m - k)
      <4>1. j \in 1..(n - l) /\ i \in 1..((m - k) + (n - l)) /\ l + j \in 1..n
        BY <1>0, <2>1, <3>2
      <4>2. a[i] = vv[j]
        BY <2>1, <3>2, <4>1
      <4>3. d + i = m + (l + j) /\ i \in 1..((m + n) - d)
        BY <1>0, <4>1
      <4> HIDE DEF j, d
      <4>4. a[i] = v[l + j]
        BY <1>5, <4>1, <4>2
      <4>5. b[i] = c[m + (l + j)]
        BY <2>2, <4>3
      <4> QED
        BY <1>1, <4>1, <4>4, <4>5
    <3> QED
      BY <3>1, <3>2
  <2> QED
    BY <2>1, <2>2, <2>3, <2>4, SeqEqual DEF a, b
<1>14. Among(uu, u)
  <2> SUFFICES ASSUME NEW i \in 1..(m - k) PROVE \E j \in 1..m : uu[i] = u[j]
    BY <1>4 DEF Among, m
  <2>1. k + i \in 1..m /\ uu[i] = u[k + i]
    BY <1>0, <1>4
  <2> QED
    BY <2>1
<1> HIDE DEF d
<1>16. IsRest(uu \o vv, c, K)
  <2>1. d \in 0..Len(c) /\ Len(c) = m + n
    BY <1>1, <1>10
  <2> QED
    BY <1>11, <1>12, <1>13, <2>1 DEF IsRest
<1> QED
  BY <1>4, <1>5, <1>14, <1>16 DEF c, uu, vv, m

\* What an ACK leaves alone, and the window it may bring
AckKeeps(p, r, a) ==
  /\ r.nxt = p.nxt /\ r.state = p.state /\ r.fin = p.fin
  /\ \/ r.wnd = p.wnd /\ r.wl2 = p.wl2
     \/ r.wnd = a.wnd /\ r.wl2 = a.ack
  /\ High(p) <= High(r)

\* tcp_receive takes the window of an ACK when it is newer, or larger.
LEMMA WindowIs ==
  ASSUME NEW p \in Pcbs, NEW N \in 0..Bytes, NumbersOK(p, N), NEW a, AckFits(p, a, N)
  PROVE  LET w == Window(p, a)
         IN /\ w \in Pcbs
            /\ w = [p EXCEPT !.wnd = w.wnd, !.wl2 = w.wl2, !.persist = w.persist]
            /\ w.persist <=> w.wnd = 0
            /\ \/ w.wnd = p.wnd /\ w.wl2 = p.wl2 /\ Pos(a.ack) <= Pos(p.wl2)
               \/ w.wnd = a.wnd /\ w.wl2 = a.ack /\ Pos(p.wl2) < Pos(a.ack)
               \/ /\ w.wnd = a.wnd /\ w.wl2 = a.ack
                  /\ Pos(a.ack) = Pos(p.wl2) /\ p.wnd < a.wnd
<1>1. /\ p.wl2 \in Numbers /\ a.ack \in Numbers /\ Pos(p.wl2) \in Nat /\ Pos(a.ack) \in Nat
      /\ p.wnd \in Nat /\ a.wnd \in Nat /\ a.wnd \in Windows
  <2>1. a.ack \in Numbers /\ a.wnd \in Windows
    BY DEF AckFits
  <2>2. Pos(a.ack) \in Nat
    BY <2>1, AtPos
  <2>3. a.wnd \in Nat
    BY <2>1, Widths DEF Windows
  <2>4. p.wl2 \in Numbers /\ Pos(p.wl2) \in Nat /\ p.wnd \in Nat
    BY PcbTypes
  <2> QED
    BY <2>1, <2>2, <2>3, <2>4
<1>2. Pos(p.wl2) \in Positions /\ Pos(a.ack) \in Positions
  <2>1. Pos(p.wl2) <= Bytes + 1 /\ Pos(a.ack) <= Bytes + 1
    BY <1>1, Widths DEF AckFits, One
  <2> QED
    BY <1>1, <2>1, Widths DEF Positions
<1>3. /\ Lt(p.wl2, a.ack) <=> Pos(p.wl2) < Pos(a.ack)
      /\ p.wl2 = a.ack <=> Pos(p.wl2) = Pos(a.ack)
  BY <1>1, <1>2, PosCompare
<1> DEFINE w == Window(p, a)
<1>4. CASE Lt(p.wl2, a.ack) \/ (p.wl2 = a.ack /\ a.wnd > p.wnd)
  <2>1. w = [p EXCEPT !.wnd = a.wnd, !.wl2 = a.ack, !.persist = (a.wnd = 0)]
    BY <1>4 DEF Window
  <2> HIDE DEF w
  <2>2. w \in Pcbs /\ w.wnd = a.wnd /\ w.wl2 = a.ack /\ w.persist = (a.wnd = 0)
    BY <1>1, <2>1 DEF Pcbs
  <2>3. w = [p EXCEPT !.wnd = w.wnd, !.wl2 = w.wl2, !.persist = w.persist]
    BY <2>1, <2>2
  <2>4. \/ Pos(p.wl2) < Pos(a.ack)
        \/ Pos(a.ack) = Pos(p.wl2) /\ p.wnd < a.wnd
    BY <1>1, <1>3, <1>4
  <2> QED
    BY <2>2, <2>3, <2>4 DEF w
<1>5. CASE ~(Lt(p.wl2, a.ack) \/ (p.wl2 = a.ack /\ a.wnd > p.wnd))
  <2>1. w = p
    BY <1>5 DEF Window
  <2>2. Pos(a.ack) <= Pos(p.wl2)
    BY <1>1, <1>3, <1>5
  <2>3. p = [p EXCEPT !.wnd = p.wnd, !.wl2 = p.wl2, !.persist = p.persist]
    BY DEF Pcbs
  <2> QED
    BY <2>1, <2>2, <2>3 DEF NumbersOK
<1> QED
  BY <1>4, <1>5

\* The rest of a chain, from the first segment that is not acknowledged on
LEMMA HoldsRest ==
  ASSUME NEW p \in Pcbs, NEW N \in 0..Bytes, NumbersOK(p, N),
         NEW c \in Seq(Segs), Holds(c, p, N),
         NEW r \in Pcbs, r.nxt = p.nxt, r.fin = p.fin,
         Pos(p.lastack) < Pos(r.lastack), Pos(r.lastack) <= Pos(p.nxt),
         NEW d \in 0..Len(c),
         \A i \in 1..d : Top(c[i]) <= Pos(r.lastack),
         d < Len(c) => Top(c[d + 1]) > Pos(r.lastack)
  PROVE  Holds(SubSeq(c, d + 1, Len(c)), r, N)
<1> DEFINE n == Len(c)
           s == SubSeq(c, d + 1, n)
           K == Pos(r.lastack)
<1>1. /\ p.lastack \in Numbers /\ p.nxt \in Numbers /\ p.fin \in BOOLEAN
      /\ Pos(p.lastack) \in Nat /\ Pos(p.nxt) \in Nat /\ Pos(p.nxt) \in Positions
  BY PcbTypes
<1>2. r.lastack \in Numbers /\ K \in Nat /\ K \in Positions
  <2>1. r.lastack \in Numbers
    BY DEF Pcbs
  <2> QED
    <3>1. K \in Nat /\ K <= Pos(p.nxt)
      BY <2>1, AtPos
    <3> HIDE DEF K
    <3> QED
      BY <1>1, <2>1, <3>1, Widths DEF Positions
<1>3. n \in Nat /\ d \in Nat
  OBVIOUS
<1>4. s \in Seq(Segs) /\ Len(s) = n - d /\ \A i \in 1..(n - d) : s[i] = c[d + i]
  BY RestIs
<1> HIDE DEF s
<1>5. \A i \in 1..n : c[i] \in Segs /\ Piece(c[i], N, p.fin) /\ c[i].len <= MSS
  BY DEF Holds, Chain
<1>6. \A i, j \in 1..n : i < j => Top(c[i]) <= Pos(c[j].seq)
  BY DEF Holds, Chain
<1>7. \A i \in 2..n : Pos(c[i].seq) = Top(c[i - 1])
  BY DEF Holds, Chain
<1>8. n > 0 => c # <<>> /\ Top(c[n]) = N + One(p.fin)
  BY EmptySeq DEF Holds, Chain
<1>9. n = 0 => c = <<>>
  OBVIOUS
<1>10. \A i \in 1..n : Top(c[i]) \in Nat /\ Pos(c[i].seq) \in Nat
  BY <1>5, PieceFacts
<1>11. N + One(p.fin) \in Nat /\ Pos(p.nxt) <= N + One(p.fin)
  BY Widths DEF NumbersOK, One
<1>12. n > 0 => Pos(c[1].seq) <= Pos(p.lastack)
  BY <1>8 DEF Holds
<1>13. n = 0 => p.lastack = p.nxt
  BY <1>9 DEF Holds
<1> HIDE DEF n, K
<1>14. Chain(s, N, r.fin)
  <2>1. \A i \in 1..Len(s) : Piece(s[i], N, r.fin) /\ s[i].len <= MSS
    <3> SUFFICES ASSUME NEW i \in 1..(n - d) PROVE Piece(s[i], N, r.fin) /\ s[i].len <= MSS
      BY <1>4
    <3>1. d + i \in 1..n /\ s[i] = c[d + i]
      BY <1>3, <1>4
    <3> QED
      BY <1>5, <3>1
  <2>2. \A i, j \in 1..Len(s) : i < j => Top(s[i]) <= Pos(s[j].seq)
    <3> SUFFICES ASSUME NEW i \in 1..(n - d), NEW j \in 1..(n - d), i < j
                 PROVE  Top(s[i]) <= Pos(s[j].seq)
      BY <1>4
    <3>1. d + i \in 1..n /\ s[i] = c[d + i] /\ d + j \in 1..n /\ s[j] = c[d + j] /\ d + i < d + j
      BY <1>3, <1>4
    <3> QED
      BY <1>6, <3>1
  <2>3. \A i \in 2..Len(s) : Pos(s[i].seq) = Top(s[i - 1])
    <3> SUFFICES ASSUME NEW i \in 2..(n - d) PROVE Pos(s[i].seq) = Top(s[i - 1])
      BY <1>4
    <3>1. i \in 1..(n - d) /\ i - 1 \in 1..(n - d) /\ d + i \in 2..n /\ d + (i - 1) = (d + i) - 1
      BY <1>3
    <3>2. s[i] = c[d + i] /\ s[i - 1] = c[(d + i) - 1]
      BY <1>4, <3>1
    <3> QED
      BY <1>7, <3>1, <3>2
  <2>4. s # <<>> => Top(s[Len(s)]) = N + One(r.fin)
    <3> SUFFICES ASSUME s # <<>> PROVE Top(s[Len(s)]) = N + One(r.fin)
      OBVIOUS
    <3>1. n - d \in 1..(n - d) /\ d + (n - d) = n /\ n > 0
      BY <1>3, <1>4
    <3>2. s[Len(s)] = c[n]
      BY <1>4, <3>1
    <3> QED
      BY <1>8, <3>1, <3>2
  <2> QED
    BY <2>1, <2>2, <2>3, <2>4 DEF Chain
<1>15. s # <<>> => Pos(s[1].seq) <= K /\ K < Top(s[1])
  <2> SUFFICES ASSUME s # <<>> PROVE Pos(s[1].seq) <= K /\ K < Top(s[1])
    OBVIOUS
  <2>1. d < n /\ 1 \in 1..(n - d) /\ d + 1 \in 1..n
    BY <1>3, <1>4, EmptySeq DEF n
  <2>2. s[1] = c[d + 1]
    BY <1>4, <2>1
  <2>3. K < Top(c[d + 1])
    BY <1>2, <1>10, <2>1 DEF n, K
  <2>4. Pos(c[d + 1].seq) <= K
    <3>1. CASE d = 0
      BY <1>1, <1>2, <1>10, <1>12, <2>1, <3>1 DEF K
    <3>2. CASE d # 0
      <4>1. d \in 1..d /\ d + 1 \in 2..n /\ (d + 1) - 1 = d
        BY <1>3, <2>1, <3>2
      <4>2. Top(c[d]) <= K
        BY <4>1 DEF K
      <4>3. Pos(c[d + 1].seq) = Top(c[(d + 1) - 1])
        BY <1>7, <4>1
      <4> QED
        BY <4>1, <4>2, <4>3
    <3> QED
      BY <3>1, <3>2
  <2> QED
    BY <2>2, <2>3, <2>4
<1>16. s = <<>> => r.lastack = r.nxt /\ Pos(r.nxt) = N + One(r.fin)
  <2> SUFFICES ASSUME s = <<>> PROVE r.lastack = r.nxt /\ Pos(r.nxt) = N + One(r.fin)
    OBVIOUS
  <2>1. d = n
    BY <1>3, <1>4, EmptySeq DEF n
  <2>2. n # 0
    <3>1. Pos(p.lastack) # Pos(p.nxt)
      BY <1>1, <1>2 DEF K
    <3> QED
      BY <1>13, <3>1
  <2>3. n \in 1..d
    BY <1>3, <2>1, <2>2
  <2>4. Top(c[n]) <= K
    BY <2>3 DEF K
  <2>5. K = Pos(p.nxt) /\ Pos(p.nxt) = N + One(p.fin)
    BY <1>1, <1>2, <1>3, <1>8, <1>11, <2>2, <2>4 DEF K
  <2>6. r.lastack = r.nxt
    BY <1>1, <1>2, <2>5, PosCompare DEF K
  <2> QED
    BY <2>5, <2>6
<1> QED
  BY <1>14, <1>15, <1>16 DEF Holds, s, n, K

\* An ACK that acknowledges something
LEMMA NewAckOK ==
  ASSUME NEW p, NEW N \in 0..Bytes, SndOK(p, N), NEW a, AckFits(p, a, N),
         Pos(p.lastack) < Pos(a.ack), Pos(a.ack) <= Pos(p.nxt)
  PROVE  LET r == DropUnsent(NewAck(Window(p, a), a), a)
         IN SndOK(r, N) /\ AckKeeps(p, r, a)
<1> DEFINE w == Window(p, a)
           u == p.unacked
           v == p.unsent
           K == Pos(a.ack)
           A == {i \in DOMAIN u : Leq(End(u[i]), a.ack)}
           B == {i \in DOMAIN v : Between(a.ack, End(v[i]), p.nxt)}
           c == u \o v
           uu == Rest(u, Prefix(u, A))
           vv == Rest(v, Prefix(v, B))
           q == NewAck(w, a)
           r == DropUnsent(q, a)
<1>0. p \in Pcbs /\ NumbersOK(p, N) /\ Holds(c, p, N)
  BY DEF SndOK, Queue
<1>1. /\ u \in Seq(Segs) /\ v \in Seq(Segs) /\ p.fin \in BOOLEAN
      /\ p.lastack \in Numbers /\ p.nxt \in Numbers /\ p.wl2 \in Numbers
      /\ p.wnd \in Nat /\ Pos(p.lastack) \in Nat /\ Pos(p.nxt) \in Nat /\ Pos(p.wl2) \in Nat
      /\ Pos(p.lastack) \in Positions /\ Pos(p.nxt) \in Positions
  BY <1>0, PcbTypes
<1>2. a.ack \in Numbers /\ a.wnd \in Windows /\ K \in Nat /\ K \in Positions /\ a.wnd \in Nat
  <2>1. a.ack \in Numbers /\ a.wnd \in Windows
    BY DEF AckFits
  <2>2. K \in Nat /\ a.wnd \in Nat
    <3>1. K \in Nat
      BY <2>1, AtPos
    <3>2. a.wnd \in Nat
      BY <2>1, Widths DEF Windows
    <3> QED
      BY <3>1, <3>2
  <2>3. K <= Pos(p.nxt)
    OBVIOUS
  <2> HIDE DEF K
  <2> QED
    BY <1>1, <2>1, <2>2, <2>3, Widths DEF Positions
<1>3. /\ w \in Pcbs
      /\ w = [p EXCEPT !.wnd = w.wnd, !.wl2 = w.wl2, !.persist = w.persist]
      /\ w.persist <=> w.wnd = 0
      /\ \/ w.wnd = p.wnd /\ w.wl2 = p.wl2 /\ K <= Pos(p.wl2)
         \/ w.wnd = a.wnd /\ w.wl2 = a.ack /\ Pos(p.wl2) < K
         \/ w.wnd = a.wnd /\ w.wl2 = a.ack /\ K = Pos(p.wl2) /\ p.wnd < a.wnd
  <2> HIDE DEF u, v, A, B, c, uu, vv, q, r
  <2>1. LET x == Window(p, a)
        IN /\ x \in Pcbs
           /\ x = [p EXCEPT !.wnd = x.wnd, !.wl2 = x.wl2, !.persist = x.persist]
           /\ x.persist <=> x.wnd = 0
           /\ \/ x.wnd = p.wnd /\ x.wl2 = p.wl2 /\ Pos(a.ack) <= Pos(p.wl2)
              \/ x.wnd = a.wnd /\ x.wl2 = a.ack /\ Pos(p.wl2) < Pos(a.ack)
              \/ /\ x.wnd = a.wnd /\ x.wl2 = a.ack
                 /\ Pos(a.ack) = Pos(p.wl2) /\ p.wnd < a.wnd
    BY <1>0, WindowIs
  <2> QED
    BY <2>1
<1> HIDE DEF w
<1>4. /\ w.unacked = u /\ w.unsent = v /\ w.lastack = p.lastack /\ w.nxt = p.nxt
      /\ w.fin = p.fin /\ w.state = p.state /\ w.lbb = p.lbb /\ w.buf = p.buf
  BY <1>0, <1>3 DEF Pcbs
<1>5. PICK cw \in MSS..(WndWidth - 1), bf \in Nat :
        q = [w EXCEPT !.unacked = uu, !.infr = FALSE, !.cwnd = cw, !.buf = bf, !.dupacks = 0,
                      !.lastack = a.ack, !.timer = uu # <<>>]
  <2> DEFINE cc == IF w.infr THEN w.ssthresh ELSE w.cwnd
             nn == IF cc < w.ssthresh THEN MSS ELSE (MSS * MSS) \div cc
             cw == Grow(cc, nn)
             bf == w.buf + Minus(a.ack, w.lastack)
  <2>1. cc \in MSS..(WndWidth - 1)
    BY <1>3, Widths, SMTT(30) DEF Pcbs
  <2>2. nn \in Nat
    <3> HIDE DEF cc
    <3>1. cc \in Nat \ {0} /\ MSS * MSS \in Nat /\ MSS \in Nat
      BY <2>1, Widths
    <3> QED
      BY <3>1, Quotient
  <2>3. cw \in MSS..(WndWidth - 1)
    <3> HIDE DEF cc, nn
    <3> QED
      BY <2>1, <2>2, GrowIs
  <2>4. bf \in Nat
    <3>1. Minus(a.ack, p.lastack) \in Nat
      <4>1. a.ack - p.lastack \in Int /\ SeqWidth \in Nat \ {0}
        BY <1>1, <1>2, Widths DEF Numbers
      <4> QED
        BY <4>1, Remainder DEF Minus
    <3>2. w.buf \in Nat
      BY <1>3 DEF Pcbs
    <3> QED
      BY <1>4, <3>1, <3>2
  <2>5. q = [w EXCEPT !.unacked = uu, !.infr = FALSE, !.cwnd = cw, !.buf = bf, !.dupacks = 0,
                      !.lastack = a.ack, !.timer = uu # <<>>]
    <3>1. uu = Rest(w.unacked,
                    Prefix(w.unacked, {i \in DOMAIN w.unacked : Leq(End(w.unacked[i]), a.ack)}))
      BY <1>4
    <3> HIDE DEF uu
    <3>2. [w EXCEPT !.unacked = uu].unacked = uu
      BY <1>3 DEF Pcbs
    <3> QED
      BY <1>3, <3>1, <3>2 DEF NewAck, Pcbs
  <2> HIDE DEF cw, bf
  <2> QED
    BY <2>3, <2>4, <2>5
<1> HIDE DEF q
<1>6. Chain(c, N, p.fin)
  BY <1>0 DEF Holds
<1>7. \A i \in 1..Len(u) : u[i] \in Segs /\ Piece(u[i], N, p.fin)
  <2> SUFFICES ASSUME NEW i \in 1..Len(u) PROVE u[i] \in Segs /\ Piece(u[i], N, p.fin)
    OBVIOUS
  <2> HIDE DEF u, v
  <2>0. /\ c \in Seq(Segs) /\ Len(c) = Len(u) + Len(v)
        /\ \A j \in 1..Len(u) : c[j] = u[j]
    BY <1>1, Behind
  <2> HIDE DEF c
  <2>1. i \in 1..Len(c) /\ c[i] = u[i] /\ c \in Seq(Segs)
    BY <1>1, <2>0
  <2> QED
    BY <1>0, <2>1, HeldFacts
<1>8. \A i \in 1..Len(v) : v[i] \in Segs /\ Piece(v[i], N, p.fin)
  <2> SUFFICES ASSUME NEW i \in 1..Len(v) PROVE v[i] \in Segs /\ Piece(v[i], N, p.fin)
    OBVIOUS
  <2> HIDE DEF u, v
  <2>0. /\ c \in Seq(Segs) /\ Len(c) = Len(u) + Len(v)
        /\ \A j \in 1..Len(v) : c[Len(u) + j] = v[j]
    BY <1>1, Behind
  <2> HIDE DEF c
  <2>1. Len(u) + i \in 1..Len(c) /\ c[Len(u) + i] = v[i] /\ c \in Seq(Segs)
    BY <1>1, <2>0
  <2> QED
    BY <1>0, <2>1, HeldFacts
<1>9. ASSUME NEW i \in 1..Len(u) PROVE i \in A <=> Top(u[i]) <= K
  <2>1. /\ End(u[i]) \in Numbers /\ Pos(End(u[i])) = Top(u[i]) /\ Top(u[i]) \in Positions
    BY <1>7, PieceFacts
  <2>2. Leq(End(u[i]), a.ack) <=> Top(u[i]) <= K
    BY <1>2, <2>1, PosCompare
  <2> QED
    BY <1>1, <2>2
<1>10. ASSUME NEW i \in 1..Len(v) PROVE i \in B <=> Top(v[i]) <= K
  <2>1. /\ End(v[i]) \in Numbers /\ Pos(End(v[i])) = Top(v[i]) /\ Top(v[i]) \in Positions
    BY <1>8, PieceFacts
  <2>2. Leq(End(v[i]), a.ack) <=> Top(v[i]) <= K
    BY <1>2, <2>1, PosCompare
  <2>3. Leq(a.ack, p.nxt)
    BY <1>1, <1>2, PosCompare
  <2> QED
    BY <1>1, <2>2, <2>3 DEF Between
<1> HIDE DEF A, B, K
<1>11. /\ uu \in Seq(Segs) /\ vv \in Seq(Segs)
       /\ Among(uu, u) /\ IsRest(uu \o vv, c, K)
  <2>1. Acked(u, A, K) /\ Acked(v, B, K)
    BY <1>9, <1>10 DEF Acked
  <2>2. u \in Seq(Segs) /\ v \in Seq(Segs) /\ p.fin \in BOOLEAN /\ K \in Nat
    BY <1>1, <1>2
  <2> HIDE DEF u, v
  <2> QED
    BY <1>6, <2>1, <2>2, Dropped
<1>12. c \in Seq(Segs)
  BY <1>1, Behind
<1> HIDE DEF uu, c
<1>13. q \in Pcbs /\ q.unsent = v /\ q.nxt = p.nxt
  <2> HIDE DEF u, v, vv
  <2>1. a.ack \in Numbers /\ uu \in Seq(Segs) /\ (uu # <<>>) \in BOOLEAN /\ 0 \in 0..4
    BY <1>2, <1>11
  <2>2. w \in Pcbs /\ w.unsent = v /\ w.nxt = p.nxt
    BY <1>3, <1>4
  <2>3. q \in Pcbs
    BY <1>5, <2>1, <2>2 DEF Pcbs
  <2> QED
    BY <1>5, <2>2, <2>3 DEF Pcbs
<1>14. r = [q EXCEPT !.unsent = vv]
  <2>1. vv = Rest(q.unsent, Prefix(q.unsent,
                  {i \in DOMAIN q.unsent : Between(a.ack, End(q.unsent[i]), q.nxt)}))
    BY <1>13 DEF B
  <2> QED
    BY <2>1 DEF DropUnsent
<1> HIDE DEF r, vv
<1>15. /\ r \in Pcbs /\ r.unacked = uu /\ r.unsent = vv /\ r.lastack = a.ack /\ r.nxt = p.nxt
       /\ r.fin = p.fin /\ r.state = p.state /\ r.lbb = p.lbb /\ r.wnd = w.wnd /\ r.wl2 = w.wl2
       /\ r.persist = w.persist
  <2> HIDE DEF u, v
  <2>1. q.unacked = uu /\ q.lastack = a.ack /\ q.fin = p.fin /\ q.state = p.state
        /\ q.lbb = p.lbb /\ q.wnd = w.wnd /\ q.wl2 = w.wl2 /\ q.persist = w.persist
    BY <1>3, <1>4, <1>5 DEF Pcbs
  <2>2. vv \in Seq(Segs)
    BY <1>11
  <2>3. r \in Pcbs /\ r.unsent = vv
    BY <1>13, <1>14, <2>2 DEF Pcbs
  <2> QED
    BY <1>13, <1>14, <2>1, <2>3 DEF Pcbs
<1>16. Holds(Queue(r), r, N)
  <2>1. PICK d \in 0..Len(c) : /\ uu \o vv = SubSeq(c, d + 1, Len(c))
                               /\ \A i \in 1..d : Top(c[i]) <= K
                               /\ d < Len(c) => Top(c[d + 1]) > K
    BY <1>11 DEF IsRest
  <2>2. Queue(r) = SubSeq(c, d + 1, Len(c))
    BY <1>15, <2>1 DEF Queue
  <2>3. Pos(r.lastack) = K
    BY <1>15 DEF K
  <2>4. Pos(p.lastack) < K /\ K <= Pos(p.nxt)
    BY DEF K
  <2> QED
    BY <1>0, <1>12, <1>15, <2>1, <2>2, <2>3, <2>4, HoldsRest
<1>17. Smaller(Pos(p.nxt), N) <= K + w.wnd
  <2>1. Smaller(Pos(p.nxt), N) <= Pos(p.lastack) + p.wnd /\ Pos(p.lastack) <= Pos(p.wl2)
    BY <1>0 DEF NumbersOK
  <2>2. Smaller(Pos(p.nxt), N) \in Nat /\ Smaller(Pos(p.nxt), N) <= N /\ N \in Nat
    BY <1>1, Widths DEF Smaller
  <2>3. Pos(p.wl2) < K /\ K <= N => Pos(p.wl2) + p.wnd <= K + a.wnd
    BY DEF AckFits, K
  <2>4. Pos(p.lastack) < K
    BY DEF K
  <2> QED
    BY <1>1, <1>2, <1>3, <2>1, <2>2, <2>3, <2>4, SMTT(30)
<1>18. \A i \in 1..Len(uu) : Top(uu[i]) <= Pos(p.nxt)
  <2>1. \A j \in 1..Len(u) : Top(u[j]) <= Pos(p.nxt)
    BY <1>0 DEF NumbersOK
  <2> QED
    BY <1>11, <2>1 DEF Among
<1>19. NumbersOK(r, N)
  <2>1. Pos(r.lastack) = K /\ K <= Pos(p.nxt) /\ K <= Pos(r.wl2)
    BY <1>1, <1>2, <1>3, <1>15 DEF K
  <2> QED
    BY <1>0, <1>3, <1>15, <1>17, <1>18, <2>1 DEF NumbersOK
<1>20. High(p) <= High(r)
  <2>1. p.lastack # p.nxt
    BY <1>1, <1>2 DEF K
  <2> QED
    BY <1>1, <1>15, <2>1 DEF High
<1>21. AckKeeps(p, r, a)
  BY <1>3, <1>15, <1>20 DEF AckKeeps
<1> QED
  BY <1>15, <1>16, <1>19, <1>21 DEF SndOK, r, q, w

\* Fields that say nothing of the queues may change.
Alike(p, q) ==
  /\ q.state = p.state /\ q.unacked = p.unacked /\ q.unsent = p.unsent
  /\ q.lastack = p.lastack /\ q.nxt = p.nxt /\ q.lbb = p.lbb /\ q.fin = p.fin
  /\ q.wnd = p.wnd /\ q.wl2 = p.wl2 /\ q.persist = p.persist

\* SndOK holds of two pcbs or of neither if they differ in timers and cwnd only.
LEMMA AlikeOK ==
  ASSUME NEW p, NEW q \in Pcbs, NEW N \in 0..Bytes, SndOK(p, N), Alike(p, q)
  PROVE  SndOK(q, N) /\ High(q) = High(p)
BY DEF SndOK, NumbersOK, Holds, Queue, High, Alike

\* The window may change while nothing is acknowledged.
LEMMA WindowOK ==
  ASSUME NEW p, NEW N \in 0..Bytes, SndOK(p, N), NEW w \in Pcbs,
         w = [p EXCEPT !.wnd = w.wnd, !.wl2 = w.wl2, !.persist = w.persist],
         w.persist <=> w.wnd = 0, Smaller(Pos(p.nxt), N) <= Pos(p.lastack) + w.wnd,
         Pos(p.lastack) <= Pos(w.wl2)
  PROVE  /\ SndOK(w, N) /\ High(w) = High(p)
         /\ w.nxt = p.nxt /\ w.state = p.state /\ w.fin = p.fin /\ w.lastack = p.lastack
         /\ w.unsent = p.unsent
<1>1. p \in Pcbs
  BY DEF SndOK
<1>2. /\ w.state = p.state /\ w.unacked = p.unacked /\ w.unsent = p.unsent
      /\ w.lastack = p.lastack /\ w.nxt = p.nxt /\ w.lbb = p.lbb /\ w.fin = p.fin
  BY <1>1 DEF Pcbs
<1> QED
  BY <1>2 DEF SndOK, NumbersOK, Holds, Queue, High

\* A duplicate ACK may put the first segment back, to be sent again at once.
LEMMA DuplicateOK ==
  ASSUME NEW p, NEW N \in 0..Bytes, SndOK(p, N)
  PROVE  LET q == Duplicate(p)
         IN /\ Ready(q, N) /\ High(p) <= High(q)
            /\ q.nxt = p.nxt /\ q.state = p.state /\ q.fin = p.fin /\ q.lastack = p.lastack
            /\ q.wnd = p.wnd /\ q.wl2 = p.wl2
            /\ p.lastack = p.nxt => SndOK(q, N)
            /\ \A i \in 1..Len(q.unsent) : /\ q.unsent[i] \in Segs
                                           /\ Piece(q.unsent[i], N, p.fin)
                                           /\ Pos(p.lastack) < Top(q.unsent[i])
<1> DEFINE c == Queue(p)
           u == p.unacked
           v == p.unsent
<1>1. p \in Pcbs /\ NumbersOK(p, N) /\ Holds(c, p, N)
  BY DEF SndOK
<1>2. /\ u \in Seq(Segs) /\ v \in Seq(Segs) /\ p.lastack \in Numbers /\ p.nxt \in Numbers
      /\ Pos(p.lastack) \in Nat /\ Pos(p.nxt) \in Nat /\ Pos(p.nxt) \in Positions
      /\ Pos(p.lastack) \in Positions
  BY <1>1, PcbTypes
<1> HIDE DEF u, v
<1>3. c = u \o v /\ c \in Seq(Segs) /\ Len(c) = Len(u) + Len(v)
      /\ (\A i \in 1..Len(u) : c[i] = u[i])
      /\ (\A i \in 1..Len(v) : c[Len(u) + i] = v[i])
  <2>1. c = u \o v
    BY DEF Queue, u, v
  <2> HIDE DEF c
  <2> QED
    BY <1>2, <2>1, Behind
<1> HIDE DEF c
<1>4. ASSUME NEW i \in 1..Len(v)
      PROVE  v[i] \in Segs /\ Piece(v[i], N, p.fin) /\ Pos(p.lastack) < Top(v[i])
  <2>1. Len(u) + i \in 1..Len(c) /\ c[Len(u) + i] = v[i]
    BY <1>2, <1>3
  <2> QED
    BY <1>1, <1>3, <2>1, HeldFacts
<1> DEFINE d == [p EXCEPT !.dupacks = Smaller(p.dupacks + 1, 4)]
<1>5. d \in Pcbs /\ Alike(p, d)
  <2>1. Smaller(p.dupacks + 1, 4) \in 0..4
    BY <1>1 DEF Pcbs, Smaller
  <2> QED
    BY <1>1, <2>1 DEF Pcbs, Alike
<1> DEFINE q == Duplicate(p)
<1>6. ASSUME q \in Pcbs, Alike(p, q)
      PROVE  /\ Ready(q, N) /\ High(p) <= High(q)
             /\ q.nxt = p.nxt /\ q.state = p.state /\ q.fin = p.fin /\ q.lastack = p.lastack
             /\ q.wnd = p.wnd /\ q.wl2 = p.wl2
             /\ p.lastack = p.nxt => SndOK(q, N)
             /\ \A i \in 1..Len(q.unsent) : /\ q.unsent[i] \in Segs
                                            /\ Piece(q.unsent[i], N, p.fin)
                                            /\ Pos(p.lastack) < Top(q.unsent[i])
  <2> HIDE DEF q
  <2>1. SndOK(q, N) /\ High(q) = High(p)
    BY <1>6, AlikeOK
  <2>2. High(p) \in Int
    BY <1>2 DEF High
  <2>3. Ready(q, N)
    BY <2>1 DEF SndOK, Ready
  <2> QED
    BY <1>4, <1>6, <2>1, <2>2, <2>3 DEF Alike, v
<1>7. CASE d.dupacks > 3
  <2>1. q = [d EXCEPT !.cwnd = Grow(d.cwnd, MSS)]
    BY <1>7 DEF Duplicate
  <2>2. Grow(d.cwnd, MSS) \in MSS..(WndWidth - 1)
    BY <1>5, GrowIs, Widths DEF Pcbs
  <2> HIDE DEF d, q
  <2>3. q \in Pcbs /\ Alike(p, q)
    BY <1>5, <2>1, <2>2 DEF Pcbs, Alike
  <2> QED
    BY <1>6, <2>3 DEF q
<1>8. CASE ~(d.dupacks > 3) /\ (d.dupacks # 3 \/ u = <<>> \/ p.infr)
  <2>1. d.unacked = u /\ d.infr = p.infr
    BY <1>1 DEF Pcbs, u
  <2>2. q = d
    BY <1>8, <2>1 DEF Duplicate, FastRexmit
  <2> QED
    BY <1>5, <1>6, <2>2
<1>9. CASE d.dupacks = 3 /\ u # <<>> /\ ~p.infr
  <2> DEFINE h == u[1]
             half == Larger(Smaller(d.cwnd, d.wnd) \div 2, 2 * MSS)
  <2>1. d.unacked = u /\ d.infr = p.infr /\ d.unsent = v
    BY <1>1 DEF Pcbs, u, v
  <2>2. q = [d EXCEPT !.unacked = Tail(u), !.unsent = InOrder(v, h), !.ssthresh = half,
                      !.cwnd = half + 3 * MSS, !.infr = TRUE]
    <3>1. q = FastRexmit(d)
      BY <1>9 DEF Duplicate
    <3> HIDE DEF d
    <3>2. ~(u = <<>> \/ p.infr)
      BY <1>9
    <3>3. FastRexmit(d) =
            [d EXCEPT !.unacked = Tail(d.unacked), !.unsent = InOrder(d.unsent, Head(d.unacked)),
                      !.ssthresh = half, !.cwnd = half + 3 * MSS, !.infr = TRUE]
      BY <2>1, <3>2 DEF FastRexmit
    <3>4. Head(u) = h
      OBVIOUS
    <3> QED
      BY <2>1, <3>1, <3>3, <3>4
  <2>3. half \in (2 * MSS)..(WndWidth - 1) /\ half + 3 * MSS \in MSS..(WndWidth - 1)
    <3> DEFINE s == Smaller(d.cwnd, d.wnd)
    <3>1. s \in 0..(WndWidth - 1)
      <4>1. d.cwnd \in 0..(WndWidth - 1) /\ d.wnd \in 0..(WndWidth - 1)
        <5> HIDE DEF d
        <5> QED
          BY <1>5, Widths DEF Pcbs, Windows
      <4> HIDE DEF d
      <4> QED
        BY <4>1, Widths DEF Smaller
    <3> HIDE DEF s
    <3>2. s \div 2 \in Nat /\ 2 * (s \div 2) <= s
      BY <3>1
    <3> QED
      BY <3>1, <3>2, Widths DEF Larger, s
  <2> HIDE DEF half
  <2>4. /\ h \in Segs /\ Tail(u) \in Seq(Segs) /\ u = <<h>> \o Tail(u) /\ 1 \in 1..Len(u)
        /\ Len(Tail(u)) = Len(u) - 1 /\ \A i \in 1..(Len(u) - 1) : Tail(u)[i] = u[i + 1]
    BY <1>2, <1>9, HeadTailProperties, EmptySeq
  <2>5. h = c[1] /\ 1 \in 1..Len(c) /\ Piece(h, N, p.fin) /\ Pos(p.lastack) < Top(h)
    <3>1. h = c[1] /\ 1 \in 1..Len(c)
      BY <1>2, <1>3, <2>4
    <3> QED
      BY <1>1, <1>3, <3>1, HeldFacts
  <2>6. InOrder(v, h) = <<h>> \o v
    <3>1. v # <<>> => ~Lt(v[1].seq, h.seq)
      <4> SUFFICES ASSUME v # <<>> PROVE ~Lt(v[1].seq, h.seq)
        OBVIOUS
      <4>1. 1 \in 1..Len(v) /\ Len(u) + 1 \in 1..Len(c) /\ c[Len(u) + 1] = v[1]
            /\ 1 < Len(u) + 1
        BY <1>2, <1>3, <2>4, EmptySeq
      <4>2. Top(h) <= Pos(v[1].seq)
        BY <1>1, <2>5, <4>1 DEF Holds, Chain
      <4>3. v[1] \in Segs /\ Piece(v[1], N, p.fin)
        BY <1>4, <4>1
      <4>4. /\ Pos(v[1].seq) \in Positions /\ v[1].seq \in Numbers /\ Pos(v[1].seq) \in Nat
            /\ Pos(h.seq) \in Positions /\ h.seq \in Numbers /\ Pos(h.seq) \in Nat
            /\ Pos(h.seq) < Top(h) /\ Top(h) \in Nat
        BY <2>4, <2>5, <4>3, PieceFacts
      <4> QED
        BY <4>2, <4>4, PosCompare
    <3> QED
      BY <1>2, <3>1, InOrderFirst
  <2> DEFINE vv == <<h>> \o v
  <2>7. vv \in Seq(Segs) /\ vv # <<>> /\ Len(vv) = Len(v) + 1 /\ vv[1] = h /\ Tail(vv) = v
        /\ \A i \in 1..Len(v) : vv[i + 1] = v[i]
    BY <1>2, <2>4
  <2> HIDE DEF h, vv, d, q
  <2>8. /\ q \in Pcbs /\ q.unacked = Tail(u) /\ q.unsent = vv /\ q.infr
        /\ q.state = p.state /\ q.lastack = p.lastack /\ q.nxt = p.nxt /\ q.lbb = p.lbb
        /\ q.fin = p.fin /\ q.wnd = p.wnd /\ q.wl2 = p.wl2 /\ q.persist = p.persist
    <3>1. InOrder(v, h) = vv
      BY <2>6 DEF vv
    <3>2. q \in Pcbs /\ q.unacked = Tail(u) /\ q.unsent = vv /\ q.infr
      BY <1>5, <2>2, <2>3, <2>4, <2>7, <3>1 DEF Pcbs
    <3>3. /\ q.state = d.state /\ q.lastack = d.lastack /\ q.nxt = d.nxt /\ q.lbb = d.lbb
          /\ q.fin = d.fin /\ q.wnd = d.wnd /\ q.wl2 = d.wl2 /\ q.persist = d.persist
      BY <1>5, <2>2 DEF Pcbs
    <3> QED
      BY <1>5, <3>2, <3>3 DEF Alike
  <2>9. Top(h) <= Pos(p.nxt)
    BY <1>1, <2>4 DEF NumbersOK, u, h
  <2>10. p.lastack # p.nxt
    <3>1. Top(h) \in Nat
      BY <2>4, <2>5, PieceFacts DEF h
    <3> QED
      BY <1>2, <2>5, <2>9, <3>1
  <2>11. NumbersOK(q, N)
    <3>1. \A i \in 1..Len(q.unacked) : Top(q.unacked[i]) <= Pos(p.nxt)
      <4> SUFFICES ASSUME NEW i \in 1..(Len(u) - 1) PROVE Top(Tail(u)[i]) <= Pos(p.nxt)
        BY <2>4, <2>8
      <4>1. i + 1 \in 1..Len(u) /\ Tail(u)[i] = u[i + 1]
        BY <1>2, <2>4
      <4> QED
        BY <1>1, <4>1 DEF NumbersOK, u
    <3> QED
      BY <1>1, <2>8, <3>1 DEF NumbersOK
  <2>12. (<<q.unsent[1]>> \o q.unacked) \o Tail(q.unsent) = c
    BY <1>3, <2>4, <2>7, <2>8
  <2>13. Holds(c, q, N)
    BY <1>1, <2>8 DEF Holds
  <2>14. Ready(q, N)
    BY <2>7, <2>8, <2>9, <2>11, <2>12, <2>13 DEF Ready, Resends
  <2>15. High(p) <= High(q)
    BY <1>2, <2>8, <2>10 DEF High
  <2>16. ASSUME NEW i \in 1..Len(vv)
         PROVE  vv[i] \in Segs /\ Piece(vv[i], N, p.fin) /\ Pos(p.lastack) < Top(vv[i])
    <3>1. CASE i = 1
      BY <2>4, <2>5, <2>7, <3>1 DEF h
    <3>2. CASE i # 1
      <4>1. i - 1 \in 1..Len(v) /\ (i - 1) + 1 = i
        BY <1>2, <2>7, <3>2
      <4>2. vv[i] = v[i - 1]
        BY <2>7, <4>1
      <4> QED
        BY <1>4, <4>1, <4>2
    <3> QED
      BY <3>1, <3>2
  <2> QED
    BY <2>8, <2>10, <2>14, <2>15, <2>16 DEF q
<1>10. d.dupacks = 3 => ~(d.dupacks > 3)
  OBVIOUS
<1> QED
  BY <1>7, <1>8, <1>9, <1>10

\* Whatever ACK comes in, the sender is ready to send afterwards.
LEMMA AckOK ==
  ASSUME NEW p, NEW N \in 0..Bytes, SndOK(p, N), NEW a, AckFits(p, a, N)
  PROVE  LET r == Acknowledged(p, a)
         IN /\ Ready(r, N) /\ AckKeeps(p, r, a) /\ Pos(p.lastack) <= Pos(r.lastack)
            /\ a.ack = r.nxt => SndOK(r, N)
<1> DEFINE w == Window(p, a)
           K == Pos(a.ack)
           r == Acknowledged(p, a)
<1>0. p \in Pcbs /\ NumbersOK(p, N) /\ Holds(Queue(p), p, N)
  BY DEF SndOK
<1>1. /\ p.lastack \in Numbers /\ p.nxt \in Numbers /\ p.wl2 \in Numbers
      /\ p.wnd \in Nat /\ Pos(p.lastack) \in Nat /\ Pos(p.nxt) \in Nat /\ Pos(p.wl2) \in Nat
      /\ Pos(p.lastack) \in Positions /\ Pos(p.nxt) \in Positions
  BY <1>0, PcbTypes
<1>2. a.ack \in Numbers /\ K \in Nat /\ K \in Positions /\ a.wnd \in Nat
      /\ K <= N + One(p.fin) /\ K <= High(p)
  <2>1. a.ack \in Numbers /\ a.wnd \in Windows /\ K <= N + One(p.fin) /\ K <= High(p)
    BY DEF AckFits
  <2>2. K \in Nat
    BY <2>1, AtPos
  <2>3. a.wnd \in Nat
    BY <2>1, Widths DEF Windows
  <2> HIDE DEF K
  <2>4. K <= Bytes + 1
    BY <2>1, <2>2, Widths DEF One
  <2> QED
    BY <2>1, <2>2, <2>3, <2>4, Widths DEF Positions
<1>3. LET x == Window(p, a)
      IN /\ x \in Pcbs
         /\ x = [p EXCEPT !.wnd = x.wnd, !.wl2 = x.wl2, !.persist = x.persist]
         /\ x.persist <=> x.wnd = 0
         /\ \/ x.wnd = p.wnd /\ x.wl2 = p.wl2 /\ Pos(a.ack) <= Pos(p.wl2)
            \/ x.wnd = a.wnd /\ x.wl2 = a.ack /\ Pos(p.wl2) < Pos(a.ack)
            \/ /\ x.wnd = a.wnd /\ x.wl2 = a.ack
               /\ Pos(a.ack) = Pos(p.wl2) /\ p.wnd < a.wnd
  BY <1>0, WindowIs
<1>4. w.lastack = p.lastack /\ w.nxt = p.nxt
  <2> HIDE DEF w
  <2> QED
    BY <1>0, <1>3 DEF Pcbs, w
<1>5. /\ Leq(a.ack, w.lastack) <=> K <= Pos(p.lastack)
      /\ Leq(a.ack, w.nxt) <=> K <= Pos(p.nxt)
      /\ a.ack = w.nxt <=> K = Pos(p.nxt)
  BY <1>1, <1>2, <1>4, PosCompare
<1>6. w \in Pcbs /\ (w.persist <=> w.wnd = 0)
  BY <1>3
<1>7. w = [p EXCEPT !.wnd = w.wnd, !.wl2 = w.wl2, !.persist = w.persist]
  BY <1>3
<1>8. \/ w.wnd = p.wnd /\ w.wl2 = p.wl2 /\ K <= Pos(p.wl2)
      \/ w.wnd = a.wnd /\ w.wl2 = a.ack /\ Pos(p.wl2) < K
      \/ w.wnd = a.wnd /\ w.wl2 = a.ack /\ K = Pos(p.wl2) /\ p.wnd < a.wnd
  BY <1>3
<1>9. Smaller(Pos(p.nxt), N) <= Pos(p.lastack) + p.wnd /\ Pos(p.lastack) <= Pos(p.wl2)
      /\ Pos(p.lastack) <= Pos(p.nxt)
      /\ Smaller(Pos(p.nxt), N) \in Nat /\ Smaller(Pos(p.nxt), N) <= Pos(p.nxt)
  BY <1>0, <1>1, Widths DEF NumbersOK, Smaller
<1> DEFINE q == IF IsDuplicate(p, w, a) THEN Duplicate(w) ELSE [w EXCEPT !.dupacks = 0]
<1>10. CASE K <= Pos(p.lastack)
  <2>1. r = DropUnsent(q, a)
    BY <1>5, <1>10 DEF Acknowledged
  <2> HIDE DEF w, K
  <2>2. /\ SndOK(w, N) /\ High(w) = High(p)
        /\ w.nxt = p.nxt /\ w.state = p.state /\ w.fin = p.fin /\ w.lastack = p.lastack
    <3>1. Smaller(Pos(p.nxt), N) <= Pos(p.lastack) + w.wnd /\ Pos(p.lastack) <= Pos(w.wl2)
      BY <1>1, <1>2, <1>8, <1>9, <1>10 DEF K
    <3> QED
      BY <1>6, <1>7, <3>1, WindowOK
  <2>3. /\ Ready(q, N) /\ High(w) <= High(q)
        /\ q.nxt = w.nxt /\ q.state = w.state /\ q.fin = w.fin /\ q.lastack = w.lastack
        /\ q.wnd = w.wnd /\ q.wl2 = w.wl2
        /\ w.lastack = w.nxt => SndOK(q, N)
        /\ \A i \in 1..Len(q.unsent) : /\ q.unsent[i] \in Segs
                                       /\ Piece(q.unsent[i], N, w.fin)
                                       /\ Pos(w.lastack) < Top(q.unsent[i])
    <3>1. CASE IsDuplicate(p, w, a)
      <4>1. q = Duplicate(w)
        BY <3>1
      <4> QED
        BY <2>2, <4>1, DuplicateOK
    <3>2. CASE ~IsDuplicate(p, w, a)
      <4>1. q = [w EXCEPT !.dupacks = 0]
        BY <3>2
      <4> HIDE DEF q
      <4>2. q \in Pcbs /\ Alike(w, q)
        BY <1>6, <4>1 DEF Pcbs, Alike
      <4>3. SndOK(q, N) /\ High(q) = High(w)
        BY <2>2, <4>2, AlikeOK
      <4>4. High(w) \in Int
        BY <1>1, <2>2 DEF High
      <4>5. Ready(q, N)
        BY <4>3 DEF SndOK, Ready
      <4>6. /\ q.nxt = w.nxt /\ q.state = w.state /\ q.fin = w.fin /\ q.lastack = w.lastack
            /\ q.wnd = w.wnd /\ q.wl2 = w.wl2 /\ q.unsent = w.unsent
        BY <4>2 DEF Alike
      <4>7. \A i \in 1..Len(w.unsent) : /\ w.unsent[i] \in Segs
                                        /\ Piece(w.unsent[i], N, w.fin)
                                        /\ Pos(w.lastack) < Top(w.unsent[i])
        <5>1. w.unacked \in Seq(Segs) /\ w.unsent \in Seq(Segs)
          BY <1>6 DEF Pcbs
        <5> SUFFICES ASSUME NEW i \in 1..Len(w.unsent)
                     PROVE  /\ w.unsent[i] \in Segs /\ Piece(w.unsent[i], N, w.fin)
                            /\ Pos(w.lastack) < Top(w.unsent[i])
          OBVIOUS
        <5> DEFINE x == w.unacked
                   y == w.unsent
                   c == x \o y
                   j == Len(x) + i
        <5> HIDE DEF x, y
        <5>2. c \in Seq(Segs) /\ Len(c) = Len(x) + Len(y) /\ c[j] = y[i]
          <6>1. x \in Seq(Segs) /\ y \in Seq(Segs) /\ i \in 1..Len(y)
            BY <5>1 DEF x, y
          <6> QED
            BY <6>1, Behind
        <5> HIDE DEF c
        <5>3. j \in 1..Len(c)
          <6>1. x \in Seq(Segs) /\ y \in Seq(Segs) /\ i \in 1..Len(y)
            BY <5>1 DEF x, y
          <6> QED
            BY <5>2, <6>1
        <5> HIDE DEF j
        <5>4. Holds(c, w, N) /\ NumbersOK(w, N)
          BY <2>2 DEF SndOK, Queue, c, x, y
        <5> QED
          BY <1>6, <5>2, <5>3, <5>4, HeldFacts DEF y
      <4> QED
        BY <4>3, <4>4, <4>5, <4>6, <4>7
    <3> QED
      BY <3>1, <3>2
  <2> HIDE DEF q
  <2>4. r = q
    <3>1. \A i \in 1..Len(q.unsent) : ~Between(a.ack, End(q.unsent[i]), q.nxt)
      <4> SUFFICES ASSUME NEW i \in 1..Len(q.unsent) PROVE ~Leq(End(q.unsent[i]), a.ack)
        BY DEF Between
      <4> DEFINE s == q.unsent[i]
      <4>1. s \in Segs /\ Piece(s, N, w.fin) /\ Pos(p.lastack) < Top(s)
        BY <2>2, <2>3
      <4>2. End(s) \in Numbers /\ Pos(End(s)) = Top(s) /\ Top(s) \in Positions /\ Top(s) \in Nat
        BY <4>1, PieceFacts
      <4>3. Leq(End(s), a.ack) <=> Top(s) <= K
        BY <1>2, <4>2, PosCompare DEF K
      <4> QED
        BY <1>1, <1>2, <1>10, <4>1, <4>2, <4>3 DEF K
    <3>2. q \in Pcbs
      BY <2>3 DEF Ready
    <3> QED
      BY <2>1, <3>1, <3>2, DropNone
  <2>5. a.ack = r.nxt => SndOK(r, N)
    <3> SUFFICES ASSUME a.ack = r.nxt PROVE SndOK(r, N)
      OBVIOUS
    <3>1. K = Pos(p.nxt)
      BY <1>5, <2>2, <2>3, <2>4
    <3>2. Pos(p.lastack) = Pos(p.nxt)
      BY <1>1, <1>9, <1>10, <3>1
    <3>3. p.lastack = p.nxt
      BY <1>1, <3>2, PosCompare
    <3> QED
      BY <2>2, <2>3, <2>4, <3>3
  <2>6. AckKeeps(p, r, a)
    BY <1>8, <2>2, <2>3, <2>4 DEF AckKeeps
  <2>7. Pos(p.lastack) <= Pos(r.lastack)
    BY <1>1, <2>2, <2>3, <2>4
  <2> QED
    BY <2>3, <2>4, <2>5, <2>6, <2>7 DEF r
<1>11. CASE Pos(p.lastack) < K /\ K <= Pos(p.nxt)
  <2>1. ~Leq(a.ack, w.lastack)
    BY <1>1, <1>2, <1>5, <1>11
  <2>2. Between(a.ack, Plus(w.lastack, 1), w.nxt)
    <3>1. w.lastack = At(Pos(p.lastack))
      BY <1>1, <1>4, AtPos
    <3>2. Plus(At(Pos(p.lastack)), 1) = At(Pos(p.lastack) + 1)
      BY <1>1, AtPlus
    <3>3. Pos(p.lastack) + 1 \in Nat /\ Pos(p.lastack) + 1 <= Bytes + TCP_WND
          /\ Pos(p.lastack) + 1 \in Positions
      BY <1>1, <1>2, <1>11, Widths DEF Positions
    <3>4. At(Pos(p.lastack) + 1) \in Numbers /\ Pos(At(Pos(p.lastack) + 1)) = Pos(p.lastack) + 1
      BY <3>3, PosOf
    <3>5. Leq(Plus(w.lastack, 1), a.ack)
      BY <1>1, <1>2, <1>11, <3>1, <3>2, <3>3, <3>4, PosCompare
    <3> QED
      BY <1>5, <1>11, <3>5 DEF Between
  <2>3. r = DropUnsent(NewAck(w, a), a)
    BY <2>1, <2>2 DEF Acknowledged
  <2>4. SndOK(r, N) /\ AckKeeps(p, r, a)
    BY <1>11, <2>3, NewAckOK
  <2>5. Ready(r, N)
    BY <2>4 DEF SndOK, Ready
  <2>6. Pos(p.lastack) <= Pos(r.lastack)
    <3>1. r.lastack = a.ack
      BY <2>3 DEF NewAck, DropUnsent
    <3> QED
      BY <1>1, <1>2, <1>11, <3>1
  <2> QED
    BY <2>4, <2>5, <2>6
<1>12. CASE K > Pos(p.nxt)
  <2>1. ~Leq(a.ack, w.lastack) /\ ~Leq(a.ack, w.nxt)
    BY <1>1, <1>2, <1>5, <1>9, <1>12
  <2>2. r = DropUnsent(w, a)
    BY <2>1 DEF Acknowledged, Between
  <2>3. r = w
    BY <1>6, <2>1, <2>2, DropNone DEF Between
  <2>4. p.lastack = p.nxt
    BY <1>1, <1>2, <1>12 DEF High
  <2> HIDE DEF w, K
  <2>5. Smaller(Pos(p.nxt), N) <= Pos(p.lastack) + w.wnd /\ Pos(p.lastack) <= Pos(w.wl2)
    <3>1. w.wnd \in Nat
      BY <1>1, <1>2, <1>8
    <3>2. Pos(p.lastack) <= Pos(w.wl2)
      BY <1>1, <1>2, <1>8, <1>9, <1>12, <2>4 DEF K
    <3> QED
      BY <1>1, <1>9, <2>4, <3>1, <3>2
  <2>6. /\ SndOK(w, N) /\ High(w) = High(p)
        /\ w.nxt = p.nxt /\ w.state = p.state /\ w.fin = p.fin /\ w.lastack = p.lastack
    BY <1>6, <1>7, <2>5, WindowOK
  <2>7. High(p) \in Int
    BY <1>1 DEF High
  <2>8. AckKeeps(p, w, a)
    BY <1>8, <2>6, <2>7 DEF AckKeeps
  <2>9. Ready(w, N)
    BY <2>6 DEF SndOK, Ready
  <2> QED
    BY <1>1, <2>3, <2>6, <2>8, <2>9
<1> QED
  BY <1>1, <1>2, <1>10, <1>11, <1>12

-----------------------------------------------------------------------------
(* Writing, closing, and the retransmission timer.                         *)

\* The first k elements of a sequence
LEMMA TakeIs ==
  ASSUME NEW S, NEW s \in Seq(S), NEW k \in 0..Len(s)
  PROVE  /\ SubSeq(s, 1, k) \in Seq(S) /\ Len(SubSeq(s, 1, k)) = k
         /\ \A i \in 1..k : SubSeq(s, 1, k)[i] = s[i]
<1> DEFINE r == SubSeq(s, 1, k)
<1>1. k \in Int /\ k \in Nat /\ 1 \in Int /\ \A i \in 1..k : s[i] \in S
  OBVIOUS
<1>2. /\ r \in Seq(S) /\ Len(r) = IF 1 <= k THEN k - 1 + 1 ELSE 0
      /\ \A i \in 1..(k - 1 + 1) : r[i] = s[1 + i - 1]
  BY <1>1, SubSeqProperties
<1> HIDE DEF r
<1>3. Len(r) = k
  BY <1>1, <1>2
<1>4. ASSUME NEW i \in 1..k PROVE r[i] = s[i]
  <2>1. i \in 1..(k - 1 + 1) /\ 1 + i - 1 = i
    BY <1>1
  <2> QED
    BY <1>2, <2>1
<1> QED
  BY <1>2, <1>3, <1>4 DEF r

\* All but the last segment of a chain
LEMMA ChainFront ==
  ASSUME NEW N \in 0..Bytes, NEW F \in BOOLEAN, NEW q \in Seq(Segs), Chain(q, N, F), q # <<>>
  PROVE  LET l == q[Len(q)]
         IN /\ Front(q) \in Seq(Segs) /\ Len(Front(q)) = Len(q) - 1
            /\ \A i \in 1..(Len(q) - 1) : Front(q)[i] = q[i]
            /\ l \in Segs /\ Piece(l, N, F) /\ l.len <= MSS /\ Top(l) = N + One(F)
            /\ Pos(l.seq) \in 0..Bytes /\ Chain(Front(q), Pos(l.seq), FALSE)
<1> DEFINE n == Len(q)
           l == q[n]
           f == Front(q)
<1>1. n \in Nat /\ n >= 1 /\ n \in 1..n /\ l \in Segs
  BY EmptySeq, ElementOfSeq
<1>2. Piece(l, N, F) /\ l.len <= MSS /\ Top(l) = N + One(F)
  BY <1>1 DEF Chain
<1>3. Pos(l.seq) \in Nat /\ Pos(l.seq) <= N /\ DataTop(l) <= N /\ DataTop(l) \in Nat
  <2>1. Pos(l.seq) \in Nat /\ Pos(l.seq) <= DataTop(l) /\ DataTop(l) <= N /\ DataTop(l) \in Nat
    BY <1>1, <1>2, PieceFacts
  <2> QED
    BY <2>1, Widths
<1>4. f \in Seq(Segs) /\ Len(f) = n - 1 /\ \A i \in 1..(n - 1) : f[i] = q[i]
  <2>1. n - 1 \in 0..n
    BY <1>1
  <2>2. f = SubSeq(q, 1, n - 1)
    BY DEF Front
  <2> QED
    BY <2>1, <2>2, TakeIs
<1> HIDE DEF f
<1>5. ASSUME NEW i \in 1..(n - 1)
      PROVE  /\ i \in 1..n /\ q[i] \in Segs /\ Piece(q[i], Pos(l.seq), FALSE) /\ q[i].len <= MSS
             /\ Top(q[i]) <= Pos(l.seq)
  <2>1. i \in 1..n /\ i < n /\ q[i] \in Segs
    BY <1>1
  <2>2. Piece(q[i], N, F) /\ q[i].len <= MSS /\ Top(q[i]) <= Pos(l.seq)
    BY <1>1, <2>1 DEF Chain
  <2>3. DataTop(q[i]) \in Nat /\ Top(q[i]) \in Nat /\ DataTop(q[i]) <= Top(q[i])
        /\ q[i].fin \in BOOLEAN
    BY <2>1, <2>2, PieceFacts
  <2>4. ~q[i].fin
    <3> SUFFICES ASSUME q[i].fin PROVE FALSE
      OBVIOUS
    <3>1. DataTop(q[i]) = N /\ Top(q[i]) = N + 1
      BY <2>2 DEF Piece, Top, One
    <3> QED
      BY <1>3, <2>2, <3>1, Widths
  <2>5. DataTop(q[i]) <= Pos(l.seq)
    BY <1>3, <2>2, <2>3
  <2> QED
    BY <2>1, <2>2, <2>4, <2>5 DEF Piece
<1>6. \A i, j \in 1..(n - 1) : i < j => Top(q[i]) <= Pos(q[j].seq)
  BY <1>1 DEF Chain
<1>7. \A i \in 2..(n - 1) : Pos(q[i].seq) = Top(q[i - 1])
  BY <1>1 DEF Chain
<1>8. n > 1 => Top(q[n - 1]) = Pos(l.seq)
  BY <1>1 DEF Chain
<1>9. f # <<>> => n > 1
  BY <1>1, <1>4, EmptySeq
<1> HIDE DEF n, l
<1>10. Chain(f, Pos(l.seq), FALSE)
  <2>1. \A i \in 1..(n - 1) : Piece(f[i], Pos(l.seq), FALSE) /\ f[i].len <= MSS
    BY <1>4, <1>5
  <2>2. \A i, j \in 1..(n - 1) : i < j => Top(f[i]) <= Pos(f[j].seq)
    BY <1>4, <1>6
  <2>3. \A i \in 2..(n - 1) : Pos(f[i].seq) = Top(f[i - 1])
    <3> SUFFICES ASSUME NEW i \in 2..(n - 1) PROVE Pos(f[i].seq) = Top(f[i - 1])
      OBVIOUS
    <3>1. i \in 1..(n - 1) /\ i - 1 \in 1..(n - 1)
      BY <1>1
    <3> QED
      BY <1>4, <1>7, <3>1
  <2>4. f # <<>> => Top(f[n - 1]) = Pos(l.seq)
    <3>1. n > 1 => n - 1 \in 1..(n - 1)
      BY <1>1
    <3> QED
      BY <1>4, <1>8, <1>9, <3>1
  <2>5. One(FALSE) = 0 /\ Pos(l.seq) + 0 = Pos(l.seq)
    BY <1>3 DEF One
  <2> QED
    BY <1>4, <2>1, <2>2, <2>3, <2>4, <2>5 DEF Chain
<1>11. Pos(l.seq) \in 0..Bytes
  BY <1>3, Widths
<1> QED
  BY <1>1, <1>2, <1>4, <1>10, <1>11 DEF n, l, f

\* A chain is lengthened by segments that begin where it ends.
LEMMA ChainJoin ==
  ASSUME NEW M \in 0..Bytes, NEW N \in 0..Bytes, NEW F \in BOOLEAN, M <= N,
         NEW a \in Seq(Segs), NEW b \in Seq(Segs), Chain(a, M, FALSE), Chain(b, N, F),
         b # <<>>, Pos(b[1].seq) = M
  PROVE  a \o b \in Seq(Segs) /\ Chain(a \o b, N, F) /\ a \o b # <<>>
<1> DEFINE c == a \o b
           k == Len(a)
           n == Len(b)
<1>0. k \in Nat /\ n \in Nat /\ n >= 1
  BY EmptySeq
<1>1. /\ c \in Seq(Segs) /\ Len(c) = k + n
      /\ \A i \in 1..k : c[i] = a[i]
      /\ \A i \in 1..n : c[k + i] = b[i]
  BY Behind
<1> HIDE DEF c
<1>2. \A i \in 1..k : a[i] \in Segs /\ Piece(a[i], M, FALSE) /\ a[i].len <= MSS
  <2>1. \A i \in 1..k : Piece(a[i], M, FALSE) /\ a[i].len <= MSS
    BY DEF Chain
  <2> QED
    BY <2>1, ElementOfSeq
<1>3. \A i \in 1..n : b[i] \in Segs /\ Piece(b[i], N, F) /\ b[i].len <= MSS
  <2>1. \A i \in 1..n : Piece(b[i], N, F) /\ b[i].len <= MSS
    BY DEF Chain
  <2> QED
    BY <2>1, ElementOfSeq
<1>4. /\ \A i, j \in 1..k : i < j => Top(a[i]) <= Pos(a[j].seq)
      /\ \A i, j \in 1..n : i < j => Top(b[i]) <= Pos(b[j].seq)
      /\ \A i \in 2..k : Pos(a[i].seq) = Top(a[i - 1])
      /\ \A i \in 2..n : Pos(b[i].seq) = Top(b[i - 1])
      /\ Top(b[n]) = N + One(F)
  <2>1. /\ \A i, j \in 1..k : i < j => Top(a[i]) <= Pos(a[j].seq)
        /\ \A i \in 2..k : Pos(a[i].seq) = Top(a[i - 1])
    BY DEF Chain
  <2>2. /\ \A i, j \in 1..n : i < j => Top(b[i]) <= Pos(b[j].seq)
        /\ \A i \in 2..n : Pos(b[i].seq) = Top(b[i - 1])
        /\ Top(b[n]) = N + One(F)
    BY DEF Chain
  <2> QED
    BY <2>1, <2>2
<1>5. k > 0 => Top(a[k]) = M
  <2>1. k > 0 => a # <<>>
    BY EmptySeq
  <2>2. M + One(FALSE) = M
    BY DEF One
  <2> QED
    BY <2>1, <2>2 DEF Chain
<1> HIDE DEF k, n
<1>6. ASSUME NEW i \in 1..k
      PROVE  /\ Top(a[i]) <= M /\ Top(a[i]) \in Nat /\ Piece(a[i], N, F)
  <2>1. a[i] \in Segs /\ Piece(a[i], M, FALSE)
    BY <1>2
  <2>2. Top(a[i]) \in Nat /\ Top(a[i]) <= M + One(FALSE) /\ DataTop(a[i]) <= M
        /\ DataTop(a[i]) \in Nat
    BY <2>1, PieceFacts
  <2> QED
    BY <2>1, <2>2, Widths DEF Piece, One
<1>7. ASSUME NEW j \in 1..n PROVE M <= Pos(b[j].seq) /\ Pos(b[j].seq) \in Nat
  <2>1. b[j] \in Segs /\ Piece(b[j], N, F) /\ b[1] \in Segs /\ Piece(b[1], N, F) /\ 1 \in 1..n
    BY <1>0, <1>3
  <2>2. Pos(b[j].seq) \in Nat /\ Pos(b[1].seq) < Top(b[1]) /\ Top(b[1]) \in Nat
    BY <2>1, PieceFacts
  <2>3. 1 < j => Top(b[1]) <= Pos(b[j].seq)
    BY <1>4, <2>1
  <2> QED
    BY <1>0, <2>2, <2>3
<1>8. ASSUME NEW i \in 1..(k + n)
      PROVE  \/ i \in 1..k /\ c[i] = a[i]
             \/ i - k \in 1..n /\ c[i] = b[i - k] /\ i > k
  <2>1. CASE i <= k
    BY <1>0, <1>1, <2>1
  <2>2. CASE i > k
    <3>1. i - k \in 1..n /\ k + (i - k) = i
      BY <1>0, <2>2
    <3> QED
      BY <1>1, <2>2, <3>1
  <2> QED
    BY <1>0, <2>1, <2>2
<1>9. \A i \in 1..(k + n) : Piece(c[i], N, F) /\ c[i].len <= MSS
  BY <1>2, <1>3, <1>6, <1>8
<1>10. ASSUME NEW i \in 1..(k + n), NEW j \in 1..(k + n), i < j
       PROVE  Top(c[i]) <= Pos(c[j].seq)
  <2>1. CASE i \in 1..k /\ j \in 1..k
    BY <1>1, <1>4, <1>10, <2>1
  <2>2. CASE i \in 1..k /\ j > k
    <3>1. j - k \in 1..n /\ c[j] = b[j - k] /\ c[i] = a[i]
      BY <1>0, <1>1, <1>8, <2>2
    <3>2. Top(a[i]) <= M /\ Top(a[i]) \in Nat /\ M <= Pos(b[j - k].seq) /\ Pos(b[j - k].seq) \in Nat
      BY <1>6, <1>7, <2>2, <3>1
    <3> QED
      BY <3>1, <3>2
  <2>3. CASE i > k
    <3>1. j - k \in 1..n /\ c[j] = b[j - k] /\ i - k \in 1..n /\ c[i] = b[i - k] /\ i - k < j - k
      BY <1>0, <1>8, <1>10, <2>3
    <3> QED
      BY <1>4, <3>1
  <2> QED
    BY <1>0, <2>1, <2>2, <2>3
<1>11. ASSUME NEW i \in 2..(k + n) PROVE Pos(c[i].seq) = Top(c[i - 1])
  <2>0. i \in 1..(k + n) /\ i - 1 \in 1..(k + n)
    BY <1>0
  <2>1. CASE i <= k
    <3>1. i \in 1..k /\ i - 1 \in 1..k /\ i \in 2..k
      BY <1>0, <2>1
    <3> QED
      BY <1>1, <1>4, <3>1
  <2>2. CASE i = k + 1
    <3>1. k \in 1..k /\ k > 0 /\ 1 \in 1..n /\ i - 1 = k
      BY <1>0, <2>2
    <3>2. c[i] = b[1] /\ c[i - 1] = a[k]
      BY <1>1, <2>2, <3>1
    <3> QED
      BY <1>5, <3>1, <3>2
  <2>3. CASE i > k + 1
    <3>1. i - k \in 2..n /\ i - k \in 1..n /\ (i - k) - 1 \in 1..n /\ k + (i - k) = i
          /\ k + ((i - k) - 1) = i - 1
      BY <1>0, <2>3
    <3>2. c[i] = b[i - k] /\ c[i - 1] = b[(i - k) - 1]
      BY <1>1, <3>1
    <3> QED
      BY <1>4, <3>1, <3>2
  <2> QED
    BY <1>0, <2>1, <2>2, <2>3
<1>12. Top(c[k + n]) = N + One(F) /\ c # <<>>
  <2>1. n \in 1..n /\ k + n > 0
    BY <1>0
  <2>2. c[k + n] = b[n]
    BY <1>1, <2>1
  <2> QED
    BY <1>1, <1>4, <2>1, <2>2, EmptySeq
<1> QED
  BY <1>1, <1>9, <1>10, <1>11, <1>12 DEF Chain, c, k, n

\* The i-th segment of m bytes begins behind m * (i - 1) bytes.
LEMMA Steps ==
  ASSUME NEW m \in Nat \ {0}, NEW i \in Nat, NEW j \in Nat, i < j
  PROVE  m * (i - 1) + m <= m * (j - 1)
<1>1. PICK d \in Nat : j = i + 1 + d
  <2>1. j - i - 1 \in Nat /\ j = i + 1 + (j - i - 1)
    OBVIOUS
  <2> QED
    BY <2>1
<1>2. m * d \in Nat /\ m * d >= 0
  OBVIOUS
<1>3. m * (j - 1) = m * (i - 1) + m + m * d
  BY <1>1
<1>4. m * (i - 1) \in Int
  OBVIOUS
<1> QED
  BY <1>2, <1>3, <1>4

\* As many segments as it takes for L bytes
LEMMA Count ==
  ASSUME NEW m \in Nat \ {0}, NEW L \in Nat
  PROVE  LET c == (L - 1 + m) \div m
         IN /\ c \in Nat
            /\ c = 0 <=> L = 0
            /\ \A i \in 1..c : m * (i - 1) \in Nat /\ m * (i - 1) < L
            /\ L > 0 => L <= m * (c - 1) + m
<1> DEFINE x == L - 1 + m
           c == x \div m
           r == x % m
<1>0. x \in Nat
  OBVIOUS
<1>1. r \in 0..(m - 1) /\ x = m * c + r /\ c \in Int
  BY <1>0, Remainder
<1>2. c \in Nat
  BY <1>0, Quotient
<1> HIDE DEF c, r
<1>3. m * c \in Int /\ m * (c - 1) = m * c - m /\ m * c >= 0
  BY <1>2
<1>4. m * (c - 1) <= L - 1 /\ L <= m * c
  BY <1>1, <1>3
<1>5. ASSUME NEW i \in 1..c PROVE m * (i - 1) \in Nat /\ m * (i - 1) < L
  <2>1. i - 1 \in Nat /\ m * (i - 1) \in Nat
    BY <1>2
  <2>2. i = c \/ m * (i - 1) + m <= m * (c - 1)
    BY <1>2, Steps
  <2> QED
    BY <1>3, <1>4, <2>1, <2>2
<1>6. c = 0 => L = 0
  <2>1. c = 0 => m * c = 0
    OBVIOUS
  <2> QED
    BY <1>4, <2>1
<1>7. L = 0 => c = 0
  <2> SUFFICES ASSUME L = 0, c # 0 PROVE FALSE
    OBVIOUS
  <2>1. c - 1 \in Nat
    BY <1>2
  <2>2. m * (c - 1) \in Nat
    BY <2>1
  <2> QED
    BY <1>4, <2>2
<1> QED
  BY <1>2, <1>3, <1>4, <1>5, <1>6, <1>7 DEF c

\* The segments that tcp_write makes of the bytes behind M, up to K
LEMMA SegmentsIs ==
  ASSUME NEW M \in 0..Bytes, NEW K \in 0..Bytes, M <= K
  PROVE  LET b == Segments(At(M), M + 1, K, MSS)
         IN /\ b \in Seq(Segs) /\ Chain(b, K, FALSE)
            /\ b = <<>> <=> M = K
            /\ b # <<>> => Pos(b[1].seq) = M
<1> DEFINE b == Segments(At(M), M + 1, K, MSS)
           L == K - M
           c == (L - 1 + MSS) \div MSS
           X(i) == MSS * (i - 1)
           l(i) == Smaller(MSS, L - X(i))
           g(i) == [seq |-> At(M + X(i)), len |-> l(i), data |-> Run(M + X(i), l(i)), fin |-> FALSE]
<1>0. MSS \in Nat \ {0} /\ M \in Nat /\ K \in Nat /\ L \in Nat /\ K <= Bytes
  BY Widths
<1>1. /\ c \in Nat
      /\ c = 0 <=> L = 0
      /\ \A i \in 1..c : X(i) \in Nat /\ X(i) < L
      /\ L > 0 => L <= X(c) + MSS
  BY <1>0, Count
<1>2. \A i, j \in 1..c : i < j => X(i) + MSS <= X(j)
  BY <1>0, <1>1, Steps
<1>3. X(1) = 0
  BY <1>0
<1>4. \A i \in 2..c : X(i) = X(i - 1) + MSS
  BY <1>0, <1>1
<1> HIDE DEF X
<1>5. ASSUME NEW i \in 1..c
      PROVE /\ l(i) \in Nat /\ l(i) > 0 /\ l(i) <= MSS /\ X(i) + l(i) <= L
            /\ i < c => l(i) = MSS
            /\ i = c => X(i) + l(i) = L
  <2>1. X(i) \in Nat /\ X(i) < L
    BY <1>1
  <2>2. i < c => X(i) + MSS < L
    <3> SUFFICES ASSUME i < c PROVE X(i) + MSS < L
      OBVIOUS
    <3>1. c \in 1..c
      BY <1>1
    <3>2. X(i) + MSS <= X(c) /\ X(c) < L /\ X(c) \in Nat
      BY <1>1, <1>2, <3>1
    <3> QED
      BY <1>0, <2>1, <3>2
  <2>3. i = c => L <= X(i) + MSS
    BY <1>0, <1>1, <2>1
  <2> HIDE DEF L, c
  <2> QED
    BY <1>0, <2>1, <2>2, <2>3 DEF Smaller
<1>6. ASSUME NEW i \in 1..c PROVE Seg(Plus(At(M), X(i)),
            [j \in 1..Smaller(MSS, K - (M + 1 + X(i)) + 1) |-> (M + 1 + X(i)) + j - 1], FALSE) = g(i)
  <2>1. X(i) \in Nat
    BY <1>1
  <2>2. K - (M + 1 + X(i)) + 1 = L - X(i)
    BY <1>0, <2>1
  <2>3. \A j \in 1..l(i) : (M + 1 + X(i)) + j - 1 = (M + X(i)) + j
    BY <1>0, <1>5, <2>1
  <2>4. [j \in 1..l(i) |-> (M + 1 + X(i)) + j - 1] = Run(M + X(i), l(i))
    BY <2>3 DEF Run
  <2>5. M + X(i) \in Nat /\ l(i) \in Nat
    BY <1>0, <1>5, <2>1
  <2>6. Len(Run(M + X(i), l(i))) = l(i)
    BY <2>5, RunIs
  <2>7. Plus(At(M), X(i)) = At(M + X(i))
    BY <1>0, <2>1, AtPlus
  <2> HIDE DEF l, L
  <2> QED
    BY <2>2, <2>4, <2>6, <2>7 DEF Seg, l
<1>7. b = [i \in 1..c |-> g(i)]
  <2>1. K - (M + 1) + MSS = L - 1 + MSS
    BY <1>0
  <2> HIDE DEF g, L
  <2>2. b = [i \in 1..c |-> Seg(Plus(At(M), X(i)),
            [j \in 1..Smaller(MSS, K - (M + 1 + X(i)) + 1) |-> (M + 1 + X(i)) + j - 1], FALSE)]
    BY <2>1 DEF Segments, X
  <2> QED
    BY <1>6, <2>2
<1>8. ASSUME NEW i \in 1..c
      PROVE /\ g(i) \in Segs /\ Pos(g(i).seq) = M + X(i) /\ DataTop(g(i)) = M + X(i) + l(i)
            /\ Top(g(i)) = M + X(i) + l(i) /\ Piece(g(i), K, FALSE) /\ g(i).len <= MSS
  <2>1. X(i) \in Nat /\ X(i) < L /\ l(i) \in Nat /\ l(i) > 0 /\ l(i) <= MSS /\ X(i) + l(i) <= L
    BY <1>1, <1>5
  <2> HIDE DEF l
  <2>2. M + X(i) \in Nat /\ M + X(i) <= Bytes + TCP_WND /\ M + X(i) + l(i) <= K
    BY <1>0, <2>1, Widths
  <2> HIDE DEF L
  <2>3. Pos(At(M + X(i))) = M + X(i) /\ At(M + X(i)) \in Numbers
    BY <2>2, PosOf
  <2>4. Run(M + X(i), l(i)) \in Seq(Nat)
    BY <2>1, <2>2, RunIs
  <2>5. g(i) \in Segs
    BY <2>1, <2>3, <2>4 DEF Segs
  <2>6. Pos(g(i).seq) = M + X(i) /\ DataTop(g(i)) = M + X(i) + l(i)
    BY <2>3 DEF DataTop
  <2>7. Top(g(i)) = M + X(i) + l(i)
    BY <2>1, <2>2, <2>6 DEF Top, One
  <2>8. Piece(g(i), K, FALSE)
    BY <2>1, <2>2, <2>6 DEF Piece
  <2> QED
    BY <2>1, <2>5, <2>6, <2>7, <2>8
<1> HIDE DEF b, c, L, l, g
<1>9. b \in Seq(Segs) /\ Len(b) = c /\ \A i \in 1..c : b[i] = g(i)
  <2>1. \A i \in 1..c : g(i) \in Segs
    BY <1>8
  <2>2. b \in [1..c -> Segs] /\ \A i \in 1..c : b[i] = g(i)
    BY <1>7, <2>1
  <2>3. c \in Nat
    BY <1>1
  <2> QED
    BY <2>2, <2>3, SeqDef, LenProperties
<1>10. \A i, j \in 1..c : i < j => Top(b[i]) <= Pos(b[j].seq)
  <2> SUFFICES ASSUME NEW i \in 1..c, NEW j \in 1..c, i < j PROVE Top(g(i)) <= Pos(g(j).seq)
    BY <1>9
  <2>1. /\ Top(g(i)) = M + X(i) + l(i) /\ Pos(g(j).seq) = M + X(j)
        /\ X(i) + MSS <= X(j) /\ l(i) <= MSS /\ l(i) \in Nat /\ X(i) \in Nat /\ X(j) \in Nat
    BY <1>1, <1>2, <1>5, <1>8
  <2> QED
    BY <1>0, <2>1
<1>11. \A i \in 2..c : Pos(b[i].seq) = Top(b[i - 1])
  <2> SUFFICES ASSUME NEW i \in 2..c PROVE Pos(b[i].seq) = Top(b[i - 1])
    OBVIOUS
  <2>1. i \in 1..c /\ i - 1 \in 1..c /\ i - 1 < c
    BY <1>1
  <2>2. l(i - 1) = MSS /\ X(i) = X(i - 1) + MSS /\ X(i - 1) \in Nat
    BY <1>1, <1>4, <1>5, <2>1
  <2>3. b[i] = g(i) /\ b[i - 1] = g(i - 1) /\ Pos(g(i).seq) = M + X(i)
        /\ Top(g(i - 1)) = M + X(i - 1) + l(i - 1)
    BY <1>8, <1>9, <2>1
  <2> QED
    BY <1>0, <2>2, <2>3
<1>12. c > 0 => Top(b[c]) = K
  <2> SUFFICES ASSUME c > 0 PROVE Top(b[c]) = K
    OBVIOUS
  <2>1. c \in 1..c
    BY <1>1
  <2>2. X(c) + l(c) = L /\ b[c] = g(c) /\ Top(g(c)) = M + X(c) + l(c) /\ X(c) \in Nat /\ l(c) \in Nat
    BY <1>1, <1>5, <1>8, <1>9, <2>1
  <2> QED
    BY <1>0, <2>2 DEF L
<1>13. b = <<>> <=> c = 0
  BY <1>1, <1>9, EmptySeq
<1>14. c > 0 => Pos(b[1].seq) = M
  <2> SUFFICES ASSUME c > 0 PROVE Pos(b[1].seq) = M
    OBVIOUS
  <2>1. 1 \in 1..c
    BY <1>1
  <2>2. b[1] = g(1) /\ Pos(g(1).seq) = M + X(1)
    BY <1>8, <1>9, <2>1
  <2> QED
    BY <1>0, <1>3, <2>2
<1>15. Chain(b, K, FALSE)
  <2>1. K + One(FALSE) = K
    BY <1>0 DEF One
  <2>2. \A i \in 1..c : Piece(b[i], K, FALSE) /\ b[i].len <= MSS
    BY <1>8, <1>9
  <2>3. b # <<>> => Top(b[c]) = K
    BY <1>1, <1>12, <1>13
  <2>4. Len(b) = c
    BY <1>9
  <2> QED
    BY <1>10, <1>11, <2>1, <2>2, <2>3, <2>4 DEF Chain
<1>16. b = <<>> <=> M = K
  BY <1>0, <1>1, <1>13 DEF L
<1> QED
  <2>1. b # <<>> => Pos(b[1].seq) = M
    BY <1>1, <1>13, <1>14
  <2> QED
    BY <1>9, <1>15, <1>16, <2>1 DEF b

\* The queue of one segment
Single(x) == <<x>>

\* u behind which v is put with another last element
Replaced(u, v, x) == u \o Append(Front(v), x) = Front(u \o v) \o Single(x)

\* Two queues put one behind the other, and the last element of the second replaced
LEMMA ReplaceLast ==
  ASSUME NEW S, NEW u \in Seq(S), NEW v \in Seq(S), v # <<>>, NEW x \in S
  PROVE  LET q == u \o v
         IN /\ q \in Seq(S) /\ q # <<>> /\ Len(q) \in Nat \ {0}
            /\ q[Len(q)] = v[Len(v)]
            /\ Append(Front(v), x) \in Seq(S) /\ Append(Front(v), x) # <<>>
            /\ Replaced(u, v, x)
<1> DEFINE q == u \o v
           k == Len(u)
           n == Len(v)
           f == Front(v)
           g == Front(q)
           y == <<x>>
<1>1. k \in Nat /\ n \in Nat /\ n >= 1
  BY EmptySeq
<1>2. /\ q \in Seq(S) /\ Len(q) = k + n
      /\ \A i \in 1..k : q[i] = u[i]
      /\ \A i \in 1..n : q[k + i] = v[i]
  BY Behind
<1>3. f = SubSeq(v, 1, n - 1) /\ g = SubSeq(q, 1, (k + n) - 1)
  BY <1>2 DEF Front
<1> HIDE DEF f, g, q
<1>4. f \in Seq(S) /\ Len(f) = n - 1 /\ \A i \in 1..(n - 1) : f[i] = v[i]
  <2>1. n - 1 \in 0..n
    BY <1>1
  <2> QED
    BY <1>3, <2>1, TakeIs
<1>5. g \in Seq(S) /\ Len(g) = (k + n) - 1 /\ \A i \in 1..((k + n) - 1) : g[i] = q[i]
  <2>1. (k + n) - 1 \in 0..Len(q)
    BY <1>1, <1>2
  <2> QED
    BY <1>2, <1>3, <2>1, TakeIs
<1>6. y \in Seq(S) /\ Len(y) = 1 /\ y[1] = x
  OBVIOUS
<1>7. Append(f, x) = f \o y
  BY <1>4
<1>12. f \in Seq(S) /\ g \in Seq(S) /\ y \in Seq(S)
  BY <1>4, <1>5, <1>6
<1> HIDE DEF y, n
<1>8. /\ f \o y \in Seq(S) /\ Len(f \o y) = n
      /\ \A i \in 1..(n - 1) : (f \o y)[i] = v[i]
      /\ (f \o y)[n] = x
  <2>1. /\ f \o y \in Seq(S) /\ Len(f \o y) = Len(f) + Len(y)
        /\ \A i \in 1..Len(f) : (f \o y)[i] = f[i]
        /\ \A i \in 1..Len(y) : (f \o y)[Len(f) + i] = y[i]
    BY <1>12, Behind
  <2>2. Len(f) + 1 = n /\ 1 \in 1..Len(y)
    BY <1>1, <1>4, <1>6
  <2> QED
    BY <1>1, <1>4, <1>6, <2>1, <2>2
<1>9. f \o y # <<>>
  BY <1>1, <1>8, EmptySeq
<1>10. u \o (f \o y) = g \o y
  <2>1. u \o (f \o y) \in Seq(S) /\ g \o y \in Seq(S)
    BY <1>5, <1>6, <1>8, ConcatProperties
  <2>2. Len(u \o (f \o y)) = k + n
    BY <1>8, Behind
  <2>4. Len(g \o y) = k + n
    <3>1. Len(g \o y) = Len(g) + Len(y)
      BY <1>12, Behind
    <3> QED
      BY <1>1, <1>5, <1>6, <3>1
  <2>3. ASSUME NEW i \in 1..(k + n) PROVE (u \o (f \o y))[i] = (g \o y)[i]
    <3> DEFINE z == f \o y
    <3>1. CASE i <= k
      <4>1. i \in 1..k /\ i \in 1..((k + n) - 1)
        BY <1>1, <3>1
      <4>2. (u \o z)[i] = u[i]
        BY <1>8, <4>1, Behind
      <4>3. (g \o y)[i] = g[i]
        BY <1>5, <1>6, <4>1, Behind
      <4> QED
        BY <1>2, <1>5, <4>1, <4>2, <4>3
    <3>2. CASE i > k
      <4>1. i - k \in 1..n /\ k + (i - k) = i
        BY <1>1, <3>2
      <4>2. (u \o z)[i] = z[i - k]
        <5> HIDE DEF z
        <5>1. \A j \in 1..Len(z) : (u \o z)[k + j] = z[j]
          BY <1>8, Behind DEF z
        <5> QED
          BY <1>8, <4>1, <5>1 DEF z
      <4>3. CASE i < k + n
        <5>1. i - k \in 1..(n - 1) /\ i \in 1..((k + n) - 1)
          BY <1>1, <4>1, <4>3
        <5>2. (g \o y)[i] = g[i]
          BY <1>5, <1>12, <5>1, Behind
        <5>3. g[i] = v[i - k]
          BY <1>2, <1>5, <4>1, <5>1
        <5> QED
          BY <1>8, <4>2, <5>1, <5>2, <5>3
      <4>4. CASE i = k + n
        <5>1. i - k = n /\ i = Len(g) + 1 /\ 1 \in 1..Len(y)
          BY <1>1, <1>5, <1>6, <4>4
        <5>2. (g \o y)[i] = y[1]
          <6>1. \A j \in 1..Len(y) : (g \o y)[Len(g) + j] = y[j]
            BY <1>12, Behind
          <6> QED
            BY <5>1, <6>1
        <5> QED
          BY <1>6, <1>8, <4>2, <5>1, <5>2
      <4>5. i < k + n \/ i = k + n
        BY <1>1
      <4> QED
        BY <4>3, <4>4, <4>5
    <3>3. i <= k \/ i > k
      BY <1>1
    <3> QED
      BY <3>1, <3>2, <3>3
  <2> HIDE DEF k
  <2> QED
    BY <2>1, <2>2, <2>3, <2>4, SeqEqual
<1>11. q # <<>> /\ q[k + n] = v[n] /\ k + n \in Nat \ {0}
  <2>1. n \in 1..n
    BY <1>1
  <2> QED
    BY <1>1, <1>2, <2>1, EmptySeq
<1> QED
  <2>1. Replaced(u, v, x)
    BY <1>7, <1>10 DEF q, f, g, y, Single, Replaced
  <2> QED
    BY <1>2, <1>7, <1>8, <1>9, <1>11, <2>1 DEF q, f, n, y

\* A chain that is lengthened by the segments of tcp_write
LEMMA ChainGrows ==
  ASSUME NEW M \in 0..Bytes, NEW K \in 0..Bytes, M <= K, NEW g \in Seq(Segs), Chain(g, M, FALSE)
  PROVE  LET b == Segments(At(M), M + 1, K, MSS)
         IN /\ b \in Seq(Segs) /\ g \o b \in Seq(Segs) /\ Chain(g \o b, K, FALSE)
            /\ M < K => g \o b # <<>>
            /\ g = <<>> /\ M < K => Pos((g \o b)[1].seq) = M
            /\ g # <<>> => (g \o b)[1] = g[1] /\ g \o b # <<>>
<1> DEFINE b == Segments(At(M), M + 1, K, MSS)
<1>1. b \in Seq(Segs) /\ Chain(b, K, FALSE)
  BY SegmentsIs
<1>2. b = <<>> <=> M = K
  BY SegmentsIs
<1>3. b # <<>> => Pos(b[1].seq) = M
  BY SegmentsIs
<1> HIDE DEF b
<1>4. CASE b = <<>>
  <2>1. g \o b = g /\ M = K
    BY <1>2, <1>4, ConcatEmptySeq
  <2>2. ~(M < K)
    BY <2>1
  <2> QED
    BY <1>1, <2>1, <2>2 DEF b
<1>5. CASE b # <<>>
  <2>1. g \o b \in Seq(Segs) /\ Chain(g \o b, K, FALSE) /\ g \o b # <<>>
    BY <1>1, <1>3, <1>5, ChainJoin
  <2>2. g = <<>> => g \o b = b
    BY <1>1, ConcatEmptySeq
  <2>3. g # <<>> => (g \o b)[1] = g[1]
    <3> SUFFICES ASSUME g # <<>> PROVE (g \o b)[1] = g[1]
      OBVIOUS
    <3>1. 1 \in 1..Len(g)
      BY EmptySeq
    <3> QED
      BY <1>1, <3>1, Behind
  <2> QED
    BY <1>1, <1>3, <1>5, <2>1, <2>2, <2>3 DEF b
<1> QED
  BY <1>4, <1>5

\* A single segment is a chain.
LEMMA ChainOne ==
  ASSUME NEW s \in Segs, NEW N \in 0..Bytes, NEW F \in BOOLEAN, Piece(s, N, F), s.len <= MSS,
         Top(s) = N + One(F)
  PROVE  Single(s) \in Seq(Segs) /\ Chain(Single(s), N, F) /\ Single(s) # <<>> /\ Single(s)[1] = s
<1> DEFINE q == Single(s)
<1>1. q \in Seq(Segs) /\ Len(q) = 1 /\ q # <<>> /\ q[1] = s
  BY DEF Single
<1> HIDE DEF q
<1>2. \A i \in 1..Len(q) : i = 1
  BY <1>1
<1>3. \A i, j \in 1..Len(q) : ~(i < j)
  BY <1>1
<1>4. \A i \in 2..Len(q) : FALSE
  BY <1>1
<1>5. Chain(q, N, F)
  BY <1>1, <1>2, <1>3, <1>4 DEF Chain
<1> QED
  BY <1>1, <1>5 DEF q

\* c begins where q does, or where the N bytes end if q is empty.
Begins(c, q, N) ==
  /\ q = <<>> => Pos(c[1].seq) = N
  /\ q # <<>> => c[1].seq = q[1].seq /\ Top(q[1]) <= Top(c[1])

\* e is p with c in its queues, which holds the K bytes and a FIN if F.
Grown(e, p, c, K, F) ==
  /\ e.unacked = p.unacked /\ e.unacked \o e.unsent = c /\ e.fin = F
  /\ e.nxt = p.nxt /\ e.lastack = p.lastack /\ e.wnd = p.wnd /\ e.wl2 = p.wl2
  /\ e.persist = p.persist
  /\ ~F => e.lbb = At(K)
  /\ F <=> e.state \notin {"ESTABLISHED", "CLOSE_WAIT"}

\* What the sender keeps, when its queues have changed but not the numbers
LEMMA HoldsGrown ==
  ASSUME NEW p \in Pcbs, NEW N \in 0..Bytes, NumbersOK(p, N), Holds(Queue(p), p, N), ~p.fin,
         NEW K \in 0..Bytes, N <= K, NEW F \in BOOLEAN, NEW c \in Seq(Segs), Chain(c, K, F),
         c # <<>>, Begins(c, Queue(p), N), NEW e \in Pcbs, Grown(e, p, c, K, F)
  PROVE  SndOK(e, K) /\ High(e) = High(p)
<1>1. /\ Pos(p.lastack) \in Nat /\ Pos(p.nxt) \in Nat /\ Pos(p.lastack) <= Pos(p.nxt)
      /\ Pos(p.nxt) <= N /\ Smaller(Pos(p.nxt), N) <= Pos(p.lastack) + p.wnd
      /\ p.persist <=> p.wnd = 0
  BY PcbTypes DEF NumbersOK, One
<1>2. NumbersOK(e, K)
  <2>1. Smaller(Pos(p.nxt), N) = Pos(p.nxt) /\ Smaller(Pos(p.nxt), K) = Pos(p.nxt)
    BY <1>1, Widths DEF Smaller
  <2>2. Pos(p.nxt) <= K + One(F)
    BY <1>1, Widths DEF One
  <2>3. (p.persist <=> p.wnd = 0) /\ Pos(p.lastack) <= Pos(p.wl2)
        /\ \A i \in 1..Len(p.unacked) : Top(p.unacked[i]) <= Pos(p.nxt)
    BY DEF NumbersOK
  <2> QED
    BY <1>1, <2>1, <2>2, <2>3 DEF NumbersOK, Grown
<1>3. 1 \in 1..Len(c) /\ c[1] \in Segs /\ Piece(c[1], K, F)
  <2>1. 1 \in 1..Len(c)
    BY EmptySeq
  <2> QED
    BY <2>1, ElementOfSeq DEF Chain
<1> DEFINE h == c[1]
<1>4. Pos(h.seq) \in Nat /\ Pos(h.seq) < Top(h) /\ Top(h) \in Nat
  BY <1>3, PieceFacts
<1>5. Pos(h.seq) <= Pos(p.lastack) /\ Pos(p.lastack) < Top(h)
  <2>1. CASE Queue(p) = <<>>
    <3>1. p.lastack = p.nxt /\ Pos(p.nxt) = N
      BY <2>1, Widths DEF Holds, One
    <3>2. Pos(h.seq) = N
      BY <2>1 DEF Begins
    <3> HIDE DEF h
    <3> QED
      BY <1>4, <3>1, <3>2
  <2>2. CASE Queue(p) # <<>>
    <3> DEFINE x == Queue(p)[1]
    <3>1. Queue(p) \in Seq(Segs)
      BY PcbTypes, ConcatProperties DEF Queue
    <3>2. 1 \in 1..Len(Queue(p))
      BY <2>2, <3>1, EmptySeq
    <3>3. x \in Segs /\ Piece(x, N, p.fin)
      BY <3>1, <3>2, HeldFacts
    <3>4. Pos(x.seq) <= Pos(p.lastack) /\ Pos(p.lastack) < Top(x) /\ Top(x) \in Nat
      BY <2>2, <3>3, PieceFacts DEF Holds
    <3>5. h.seq = x.seq /\ Top(x) <= Top(h)
      BY <2>2 DEF Begins
    <3> HIDE DEF x, h
    <3> QED
      BY <1>1, <1>4, <3>4, <3>5
  <2> QED
    BY <2>1, <2>2
<1>6. Holds(c, e, K)
  BY <1>5 DEF Holds, Grown
<1>7. High(e) = High(p)
  BY DEF High, Grown
<1> QED
  BY <1>2, <1>6, <1>7 DEF SndOK, Queue, Grown

\* The last segment takes j more bytes.
LEMMA LongerIs ==
  ASSUME NEW N \in 0..Bytes, NEW t \in Segs, Piece(t, N, FALSE), Top(t) = N,
         NEW j \in Nat, N + j <= Bytes
  PROVE  LET x == Longer(t, N + 1, j)
         IN /\ x \in Segs /\ x.seq = t.seq /\ x.len = t.len + j /\ Piece(x, N + j, FALSE)
            /\ Top(x) = N + j
            /\ N = Pos(t.seq) + t.len /\ Pos(t.seq) \in Nat /\ t.len \in Nat
<1> DEFINE x == Longer(t, N + 1, j)
           k == Pos(t.seq)
           l == t.len
           more == [i \in 1..j |-> N + 1 + i - 1]
<1>1. N \in Nat
  BY Widths
<1>2. k \in Nat /\ l \in Nat
  BY PieceFacts
<1>3. t.data = Run(k, l) /\ t.fin \in BOOLEAN /\ ~t.fin /\ DataTop(t) = k + l /\ t.seq \in Numbers
  BY PieceFacts DEF Piece, DataTop, Segs
<1>4. l > 0
  BY <1>3 DEF Piece
<1>5. N = k + l
  BY <1>1, <1>2, <1>3 DEF Top, One
<1> HIDE DEF k, l, x
<1>6. more = Run(k + l, j)
  <2>1. \A i \in 1..j : N + 1 + i - 1 = k + l + i
    BY <1>1, <1>2, <1>5
  <2> QED
    BY <2>1 DEF Run
<1> HIDE DEF more
<1>7. t.data \o more = Run(k, l + j)
  BY <1>2, <1>3, <1>6, RunJoin, ZenonT(30)
<1>8. Run(k, l + j) \in Seq(Nat) /\ l + j \in Nat
  BY <1>2, RunIs
<1>9. x = [t EXCEPT !.len = l + j, !.data = Run(k, l + j)]
  BY <1>7 DEF Longer, more, x, l
<1>10. /\ x \in Segs /\ x.seq = t.seq /\ x.len = l + j /\ x.fin = FALSE
       /\ x.data = Run(k, l + j)
  BY <1>3, <1>8, <1>9 DEF Segs
<1>11. Pos(x.seq) = k
  BY <1>10 DEF k
<1>12. DataTop(x) = N + j
  BY <1>1, <1>2, <1>5, <1>10, <1>11 DEF DataTop
<1>13. Top(x) = N + j
  BY <1>1, <1>10, <1>12 DEF Top, One
<1>14. Piece(x, N + j, FALSE)
  <2>1. x.len > 0 /\ N + j <= N + j
    BY <1>1, <1>2, <1>4, <1>10
  <2> QED
    BY <1>10, <1>11, <1>12, <2>1 DEF Piece
<1>15. x.len = t.len + j /\ N = Pos(t.seq) + t.len /\ Pos(t.seq) \in Nat /\ t.len \in Nat
  BY <1>2, <1>5, <1>10 DEF k, l
<1> QED
  BY <1>10, <1>13, <1>14, <1>15 DEF x

\* The last segment of a chain is replaced by one that begins where it does.
LEMMA ChainReplaced ==
  ASSUME NEW N \in 0..Bytes, NEW u \in Seq(Segs), NEW v \in Seq(Segs), v # <<>>,
         Chain(u \o v, N, FALSE), NEW M \in 0..Bytes, NEW F \in BOOLEAN, N <= M,
         NEW x \in Segs, Piece(x, M, F), x.len <= MSS, Top(x) = M + One(F),
         x.seq = v[Len(v)].seq
  PROVE  LET g == u \o Append(Front(v), x)
         IN /\ Append(Front(v), x) \in Seq(Segs) /\ g \in Seq(Segs) /\ g # <<>>
            /\ Chain(g, M, F) /\ Begins(g, u \o v, N)
<1> DEFINE q == u \o v
           a == Append(Front(v), x)
           g == u \o a
           f == Front(q)
           w == Single(x)
           t == v[Len(v)]
           k == Len(q)
<1>1. /\ q \in Seq(Segs) /\ q # <<>> /\ k \in Nat \ {0} /\ q[k] = t
      /\ a \in Seq(Segs) /\ g = f \o w
  <2>1. q \in Seq(Segs) /\ q # <<>> /\ k \in Nat \ {0} /\ q[k] = t /\ a \in Seq(Segs)
    BY ReplaceLast
  <2>2. Replaced(u, v, x)
    BY ReplaceLast
  <2>3. g = f \o w
    BY <2>2 DEF Replaced
  <2> QED
    BY <2>1, <2>3
<1> HIDE DEF a, g
<1> HIDE DEF q
<1>2. /\ f \in Seq(Segs) /\ Len(f) = k - 1
      /\ \A i \in 1..(k - 1) : f[i] = q[i]
      /\ q[k] \in Segs /\ Piece(q[k], N, FALSE) /\ Top(q[k]) = N + One(FALSE)
      /\ Pos(q[k].seq) \in 0..Bytes /\ Chain(f, Pos(q[k].seq), FALSE)
  <2>1. Chain(q, N, FALSE)
    BY DEF q
  <2> QED
    BY <1>1, <2>1, ChainFront
<1>30. f \in Seq(Segs) /\ q \in Seq(Segs)
  BY <1>1, <1>2
<1>3. w \in Seq(Segs) /\ Chain(w, M, F) /\ w # <<>> /\ w[1] = x
  BY ChainOne
<1> HIDE DEF w, f
<1>4. Pos(x.seq) = Pos(q[k].seq) /\ Pos(x.seq) \in Nat /\ Pos(q[k].seq) <= N
      /\ Top(x) \in Nat /\ Top(q[k]) = N
  <2>1. Pos(x.seq) = Pos(q[k].seq)
    BY <1>1
  <2>2. Pos(q[k].seq) \in Nat /\ Pos(q[k].seq) <= DataTop(q[k]) /\ DataTop(q[k]) <= N
        /\ DataTop(q[k]) \in Nat
    BY <1>2, PieceFacts
  <2>3. Top(x) \in Nat
    BY PieceFacts
  <2>4. Top(q[k]) = N
    BY <1>2, Widths DEF One
  <2> HIDE DEF k
  <2> QED
    BY <2>1, <2>2, <2>3, <2>4, Widths
<1> DEFINE j == Pos(q[k].seq)
<1>5. f \o w \in Seq(Segs) /\ Chain(f \o w, M, F) /\ f \o w # <<>>
  <2>1. j \in 0..Bytes /\ j <= M /\ Pos(w[1].seq) = j /\ Chain(f, j, FALSE)
    <3>1. Pos(w[1].seq) = j
      BY <1>3, <1>4
    <3>2. j \in 0..Bytes /\ Chain(f, j, FALSE)
      BY <1>2
    <3> HIDE DEF j
    <3>3. j <= M
      BY <1>4, <3>2, Widths DEF j
    <3> QED
      BY <3>1, <3>2, <3>3
  <2> HIDE DEF j
  <2> QED
    BY <1>30, <1>3, <2>1, ChainJoin
<1>6. g \in Seq(Segs) /\ Chain(g, M, F) /\ g # <<>>
  BY <1>1, <1>5
<1>7. N <= Top(x)
  BY <1>4, Widths DEF One
<1>8. Begins(g, q, N)
  <2>1. CASE k = 1
    <3>1. f = <<>>
      BY <1>2, <2>1, EmptySeq
    <3>2. g[1] = x
      BY <1>1, <1>3, <3>1, ConcatEmptySeq
    <3>3. q[1].seq = x.seq /\ Top(q[1]) = N
      BY <1>1, <1>4, <2>1
    <3> QED
      BY <1>1, <1>7, <3>2, <3>3 DEF Begins
  <2>2. CASE k # 1
    <3>1. 1 \in 1..(k - 1) /\ 1 \in 1..k /\ 1 \in 1..Len(f)
      BY <1>1, <1>2, <2>2
    <3>2. (f \o w)[1] = f[1]
      BY <1>2, <1>3, <3>1, Behind
    <3>3. g[1] = q[1]
      BY <1>1, <1>2, <3>1, <3>2
    <3>4. q[1] \in Segs /\ Piece(q[1], N, FALSE)
      <4>1. Chain(q, N, FALSE)
        BY DEF q
      <4> QED
        BY <1>1, <3>1, <4>1, ElementOfSeq DEF Chain
    <3>5. Top(q[1]) \in Nat
      BY <3>4, PieceFacts
    <3> QED
      BY <1>1, <3>3, <3>5 DEF Begins
  <2> QED
    BY <2>1, <2>2
<1> QED
  BY <1>1, <1>6, <1>8 DEF a, g, q

\* What tcp_write and tcp_close leave alone
WriteKeeps(e, p) ==
  /\ e.nxt = p.nxt /\ e.lastack = p.lastack /\ e.wnd = p.wnd /\ e.wl2 = p.wl2
  /\ High(e) = High(p)

\* tcp_write adds the bytes to the last segment that is not sent ...
LEMMA GrownIs ==
  ASSUME NEW N \in 0..Bytes, NEW u \in Seq(Segs), NEW v \in Seq(Segs), Chain(u \o v, N, FALSE),
         v # <<>>, NEW j \in Nat, N + j <= Bytes, v[Len(v)].len + j <= MSS
  PROVE  LET g == Append(Front(v), Longer(v[Len(v)], N + 1, j))
         IN /\ g \in Seq(Segs) /\ u \o g \in Seq(Segs) /\ u \o g # <<>>
            /\ Chain(u \o g, N + j, FALSE) /\ Begins(u \o g, u \o v, N)
<1> DEFINE t == v[Len(v)]
           x == Longer(t, N + 1, j)
           q == u \o v
           M == N + j
<1>1. t \in Segs
  <2>1. Len(v) \in 1..Len(v)
    BY EmptySeq
  <2> QED
    BY <2>1, ElementOfSeq
<1>2. q \in Seq(Segs) /\ Len(q) \in Nat \ {0} /\ q[Len(q)] = t
  <2> HIDE DEF t
  <2> QED
    BY <1>1, ReplaceLast DEF t
<1> HIDE DEF q, t
<1>3. Piece(t, N, FALSE) /\ Top(t) = N
  <2>0. Chain(q, N, FALSE)
    BY DEF q
  <2>10. Len(q) \in Nat \ {0}
    BY <1>2
  <2>1. Len(q) \in 1..Len(q)
    BY <2>10
  <2>2. q # <<>>
    BY <1>2, EmptySeq
  <2>3. Piece(q[Len(q)], N, FALSE) /\ Top(q[Len(q)]) = N + One(FALSE)
    BY <2>0, <2>1, <2>2 DEF Chain
  <2>4. N + One(FALSE) = N
    BY Widths DEF One
  <2> QED
    BY <1>2, <2>3, <2>4
<1>4. x \in Segs /\ x.seq = t.seq /\ x.len = t.len + j /\ Piece(x, M, FALSE) /\ Top(x) = M
  BY <1>1, <1>3, LongerIs, ZenonT(30)
<1>5. M \in 0..Bytes /\ N <= M /\ Top(x) = M + One(FALSE) /\ x.len <= MSS
  BY <1>4, Widths DEF One, t
<1> HIDE DEF x, M
<1>6. x.seq = v[Len(v)].seq
  BY <1>4 DEF t
<1> QED
  BY <1>4, <1>5, <1>6, ChainReplaced DEF x, M, t

\* ... and makes segments of the rest.
LEMMA EnqueuedOK ==
  ASSUME app.written \in 0..Bytes, NEW p, SndOK(p, app.written), ~p.fin,
         NEW n \in Nat \ {0}, app.written + n <= Bytes, n <= p.buf
  PROVE  LET e == Enqueued(p, n)
         IN SndOK(e, app.written + n) /\ WriteKeeps(e, p) /\ e.fin = p.fin /\ e.state = p.state
<1> DEFINE N == app.written
           K == N + n
           u == p.unacked
           v == p.unsent
           q == u \o v
           tail == v[Len(v)]
           space == IF v = <<>> THEN 0 ELSE Smaller(MSS - tail.len, n)
           grown == IF space = 0 THEN v ELSE Append(Front(v), Longer(tail, N + 1, space))
           M == N + space
           b == Segments(At(M), M + 1, K, MSS)
           e == Enqueued(p, n)
<1>1. p \in Pcbs /\ NumbersOK(p, N) /\ Holds(q, p, N) /\ q = Queue(p)
  BY DEF SndOK, Queue
<1>2. N \in Nat /\ K \in Nat /\ N \in 0..Bytes /\ K \in 0..Bytes /\ N <= K /\ N < K
  BY Widths
<1> HIDE DEF K, N
<1>3. p.lbb = At(N) /\ p.fin = FALSE /\ u \in Seq(Segs) /\ v \in Seq(Segs)
  BY <1>1, <1>2, PcbTypes DEF NumbersOK, Pcbs
<1>4. Chain(q, N, FALSE)
  BY <1>1, <1>3 DEF Holds
<1> HIDE DEF q, u, v
<1>5. Smaller(MSS, TCP_WND \div 2) = MSS
  <2>1. TCP_WND \div 2 \in Int /\ TCP_WND \div 2 >= MSS
    BY Widths
  <2> QED
    BY <2>1, Widths DEF Smaller
<1>6. v # <<>> => tail.len \in Nat /\ tail.len <= MSS
  <2> SUFFICES ASSUME v # <<>> PROVE tail.len \in Nat /\ tail.len <= MSS
    OBVIOUS
  <2>1. Len(v) \in 1..Len(v)
    BY <1>3, EmptySeq
  <2>2. tail \in Segs
    BY <1>3, <2>1, ElementOfSeq
  <2> HIDE DEF tail
  <2>3. q \in Seq(Segs) /\ Len(q) \in Nat \ {0} /\ q[Len(q)] = tail
    BY <1>3, <2>2, ReplaceLast DEF tail, q
  <2>4. Len(q) \in 1..Len(q)
    BY <2>3
  <2>5. q[Len(q)].len <= MSS
    BY <1>4, <2>4 DEF Chain
  <2> QED
    BY <2>2, <2>3, <2>5 DEF Segs
<1> HIDE DEF tail
<1>7. space \in 0..n /\ (v # <<>> => tail.len + space <= MSS)
  BY <1>6, Widths DEF Smaller
<1>8. v = <<>> => space = 0
  OBVIOUS
<1>9. M \in 0..Bytes /\ M <= K /\ N <= M /\ space \in Nat /\ N + space <= Bytes
  <2> HIDE DEF space
  <2> QED
    BY <1>2, <1>7, Widths DEF K
<1>10. e = [p EXCEPT !.unsent = grown \o b, !.lbb = At(K), !.buf = p.buf - n]
  <2>1. Plus(p.lbb, space) = At(M) /\ Plus(p.lbb, n) = At(K) /\ N + 1 + space = M + 1
    <3> HIDE DEF space
    <3>3. N \in Int /\ space \in Int /\ n \in Int
      BY <1>2, <1>9
    <3>1. Plus(At(N), space) = At(N + space) /\ Plus(At(N), n) = At(N + n)
      BY <3>3, AtPlus
    <3>2. N + 1 + space = N + space + 1
      BY <1>2, <1>9
    <3> QED
      BY <1>3, <3>1, <3>2 DEF K
  <2>2. b = Segments(Plus(p.lbb, space), app.written + 1 + space, app.written + n, MSS)
    BY <2>1 DEF K, N
  <2>3. grown = IF space = 0 THEN p.unsent
                ELSE Append(Front(p.unsent), Longer(Last(p.unsent), app.written + 1, space))
    BY DEF Last, tail, v, N
  <2>4. space = IF p.unsent = <<>> THEN 0 ELSE Smaller(MSS - Last(p.unsent).len, n)
    BY DEF Last, tail, v
  <2> HIDE DEF b, space, M, grown
  <2>5. e = [p EXCEPT !.unsent = grown \o b, !.lbb = Plus(p.lbb, n), !.buf = p.buf - n]
    BY <1>5, <2>2, <2>3, <2>4 DEF Enqueued
  <2> QED
    BY <2>1, <2>5
<1> HIDE DEF e
<1> DEFINE g == u \o grown
<1>11. q \in Seq(Segs)
  BY <1>3, ConcatProperties DEF q
<1>12. /\ grown \in Seq(Segs) /\ g \in Seq(Segs) /\ Chain(g, M, FALSE)
       /\ q = <<>> => g = <<>> /\ M = N
       /\ q # <<>> => g # <<>> /\ g[1].seq = q[1].seq /\ Top(q[1]) <= Top(g[1])
  <2>1. CASE space = 0
    <3>1. grown = v /\ g = q /\ M = N
      BY <1>2, <2>1 DEF q
    <3>2. q # <<>> => Top(q[1]) \in Nat
      <4> SUFFICES ASSUME q # <<>> PROVE Top(q[1]) \in Nat
        OBVIOUS
      <4>1. 1 \in 1..Len(q) /\ q[1] \in Segs
        BY <1>11, EmptySeq, ElementOfSeq
      <4>2. Piece(q[1], N, FALSE)
        BY <1>4, <4>1 DEF Chain
      <4> QED
        BY <1>2, <4>1, <4>2, PieceFacts
    <3> HIDE DEF grown, M, g
    <3>3. q # <<>> => Top(q[1]) <= Top(q[1])
      BY <3>2
    <3> QED
      BY <1>3, <1>4, <1>11, <3>1, <3>3
  <2>2. CASE space # 0
    <3>1. v # <<>> /\ grown = Append(Front(v), Longer(tail, N + 1, space))
      BY <1>8, <2>2
    <3>2. tail.len + space <= MSS
      BY <1>7, <3>1
    <3> HIDE DEF space, grown
    <3>3. LET x == Append(Front(v), Longer(tail, N + 1, space))
          IN /\ x \in Seq(Segs) /\ u \o x \in Seq(Segs) /\ u \o x # <<>>
             /\ Chain(u \o x, N + space, FALSE) /\ Begins(u \o x, u \o v, N)
      BY <1>2, <1>3, <1>4, <1>9, <3>1, <3>2, GrownIs DEF tail, q
    <3>4. /\ grown \in Seq(Segs) /\ g \in Seq(Segs) /\ g # <<>> /\ Chain(g, M, FALSE)
          /\ Begins(g, q, N)
      BY <3>1, <3>3 DEF q
    <3>5. q # <<>>
      BY <1>3, <3>1, Behind DEF q
    <3> HIDE DEF g, M
    <3> QED
      BY <3>4, <3>5 DEF Begins
  <2> QED
    BY <2>1, <2>2
<1> HIDE DEF grown, M, space, g
<1> DEFINE c == g \o b
<1>13. /\ b \in Seq(Segs) /\ c \in Seq(Segs) /\ Chain(c, K, FALSE)
       /\ M < K => c # <<>>
       /\ g = <<>> /\ M < K => Pos(c[1].seq) = M
       /\ g # <<>> => c[1] = g[1] /\ c # <<>>
  BY <1>2, <1>9, <1>12, ChainGrows
<1> HIDE DEF b, c
<1>14. c = u \o (grown \o b) /\ grown \o b \in Seq(Segs)
  <2>1. grown \in Seq(Segs) /\ b \in Seq(Segs) /\ u \in Seq(Segs)
    BY <1>3, <1>12, <1>13
  <2>2. grown \o b \in Seq(Segs)
    BY <2>1, ConcatProperties
  <2>3. (u \o grown) \o b = u \o (grown \o b)
    BY <2>1, ConcatAssociative, SMTT(30)
  <2> QED
    BY <2>2, <2>3 DEF c, g
<1>15. /\ e \in Pcbs /\ e.unsent = grown \o b /\ e.unacked = p.unacked /\ e.fin = FALSE
       /\ e.nxt = p.nxt /\ e.lastack = p.lastack /\ e.wnd = p.wnd /\ e.wl2 = p.wl2
       /\ e.persist = p.persist /\ e.lbb = At(K) /\ e.state = p.state
  <2>1. p.buf - n \in Nat
    BY <1>1 DEF Pcbs
  <2>2. At(K) \in Numbers
    BY <1>2, AtIn
  <2> QED
    BY <1>1, <1>3, <1>10, <1>14, <2>1, <2>2 DEF Pcbs
<1>16. c # <<>> /\ Begins(c, Queue(p), N)
  <2>1. q = <<>> => g = <<>> /\ M = N /\ M < K
    BY <1>2, <1>12
  <2>2. Begins(c, q, N)
    BY <1>12, <1>13, <2>1 DEF Begins
  <2> QED
    BY <1>1, <1>12, <1>13, <2>1, <2>2
<1>17. p.state \in {"ESTABLISHED", "CLOSE_WAIT"}
  BY <1>1, <1>2, <1>3 DEF NumbersOK, Pcbs
<1>18. Grown(e, p, c, K, FALSE)
  BY <1>14, <1>15, <1>17 DEF Grown, u
<1>19. SndOK(e, K) /\ High(e) = High(p)
  <2> DEFINE F == FALSE
  <2>1. F \in BOOLEAN /\ Chain(c, K, F) /\ Grown(e, p, c, K, F)
    BY <1>13, <1>18
  <2>2. Holds(Queue(p), p, N) /\ p \in Pcbs /\ NumbersOK(p, N) /\ ~p.fin
    BY <1>1
  <2> HIDE DEF F
  <2> QED
    BY <1>2, <1>13, <1>15, <1>16, <2>1, <2>2, HoldsGrown
<1> QED
  BY <1>3, <1>15, <1>19 DEF e, K, N, WriteKeeps

\* tcp_send_fin: the end of the stream joins the last segment, or has one of its own.
LEMMA FinishedOK ==
  ASSUME NEW p, NEW N \in 0..Bytes, SndOK(p, N), ~p.fin, p.unsent # <<>> \/ p.buf > 0,
         NEW st \in SndStates \ {"ESTABLISHED", "CLOSE_WAIT"}
  PROVE  LET e == [Finished(p) EXCEPT !.state = st]
         IN SndOK(e, N) /\ WriteKeeps(e, p) /\ e.fin = TRUE /\ e.state = st
<1> DEFINE u == p.unacked
           v == p.unsent
           q == u \o v
           t == v[Len(v)]
           x == IF v # <<>> THEN [t EXCEPT !.fin = TRUE] ELSE Seg(p.lbb, <<>>, TRUE)
           w == IF v # <<>> THEN Append(Front(v), x) ELSE Single(x)
           g == u \o w
           e == [Finished(p) EXCEPT !.state = st]
<1>1. p \in Pcbs /\ NumbersOK(p, N) /\ Holds(q, p, N) /\ q = Queue(p)
  BY DEF SndOK, Queue
<1>2. N \in Nat /\ N <= N
  BY Widths
<1>3. p.lbb = At(N) /\ p.fin = FALSE /\ u \in Seq(Segs) /\ v \in Seq(Segs)
  BY <1>1, PcbTypes DEF NumbersOK, Pcbs
<1>4. Chain(q, N, FALSE)
  BY <1>1, <1>3 DEF Holds
<1>5. /\ v # <<>> => e = [p EXCEPT !.unsent = w, !.fin = TRUE, !.state = st]
      /\ v = <<>> => e = [p EXCEPT !.unsent = w, !.fin = TRUE, !.lbb = Plus(p.lbb, 1),
                                   !.buf = p.buf - 1, !.state = st]
  <2>1. CASE v # <<>>
    <3>1. w = Append(Front(p.unsent), [Last(p.unsent) EXCEPT !.fin = TRUE])
      BY <2>1 DEF Last
    <3> HIDE DEF w
    <3> QED
      BY <1>1, <2>1, <3>1 DEF Finished
  <2>2. CASE v = <<>>
    <3>1. w = <<Seg(p.lbb, <<>>, TRUE)>>
      BY <2>2 DEF Single
    <3> HIDE DEF w
    <3> QED
      BY <1>1, <2>2, <3>1 DEF Finished
  <2> QED
    BY <2>1, <2>2
<1> HIDE DEF q
<1>6. q \in Seq(Segs)
  BY <1>3, ConcatProperties DEF q
<1>7. CASE v # <<>>
  <2>1. Len(v) \in 1..Len(v) /\ t \in Segs
    <3>1. Len(v) \in 1..Len(v)
      BY <1>3, <1>7, EmptySeq
    <3> QED
      BY <1>3, <3>1, ElementOfSeq
  <2>2. x = [t EXCEPT !.fin = TRUE] /\ w = Append(Front(v), x)
    BY <1>7
  <2> HIDE DEF x, w, t
  <2>3. Len(q) \in Nat \ {0} /\ q[Len(q)] = t
    <3> HIDE DEF u, v
    <3> QED
      BY <1>3, <1>7, <2>1, ReplaceLast DEF t, q
  <2>4. Len(q) \in 1..Len(q)
    BY <2>3
  <2>5. q # <<>>
    BY <2>3, <1>6, EmptySeq
  <2>6. Piece(t, N, FALSE) /\ Top(t) = N + One(FALSE) /\ t.len <= MSS
    BY <1>4, <2>3, <2>4, <2>5 DEF Chain
  <2>7. /\ ~t.fin /\ DataTop(t) \in Nat /\ Top(t) = DataTop(t) + One(t.fin)
        /\ t.data = Run(Pos(t.seq), t.len) /\ t.len > 0
    BY <2>1, <2>6, PieceFacts DEF Piece, Top
  <2>8. DataTop(t) = N
    BY <1>2, <2>6, <2>7 DEF One
  <2>9. x \in Segs /\ x.seq = t.seq /\ x.len = t.len /\ x.data = t.data /\ x.fin = TRUE
    BY <2>1, <2>2 DEF Segs
  <2>10. DataTop(x) = N
    BY <2>8, <2>9 DEF DataTop
  <2>11. Top(x) = N + One(TRUE) /\ Piece(x, N, TRUE) /\ x.len <= MSS
    BY <1>2, <2>6, <2>7, <2>9, <2>10 DEF Top, Piece
  <2> DEFINE F == TRUE
  <2>12. F \in BOOLEAN /\ Top(x) = N + One(F) /\ Piece(x, N, F)
    BY <2>11
  <2>13. x.seq = v[Len(v)].seq
    BY <2>9 DEF t
  <2> HIDE DEF F
  <2>14. LET c == u \o Append(Front(v), x)
         IN /\ Append(Front(v), x) \in Seq(Segs) /\ c \in Seq(Segs) /\ c # <<>>
            /\ Chain(c, N, F) /\ Begins(c, u \o v, N)
    BY <1>2, <1>3, <1>4, <1>7, <2>9, <2>11, <2>12, <2>13, ChainReplaced DEF q
  <2>15. w \in Seq(Segs) /\ g \in Seq(Segs) /\ g # <<>> /\ Chain(g, N, F) /\ Begins(g, q, N)
    BY <2>2, <2>14 DEF q
  <2>16. /\ e \in Pcbs /\ e.unsent = w /\ e.unacked = p.unacked /\ e.fin = TRUE
         /\ e.nxt = p.nxt /\ e.lastack = p.lastack /\ e.wnd = p.wnd /\ e.wl2 = p.wl2
         /\ e.persist = p.persist /\ e.state = st
    <3> HIDE DEF e
    <3> QED
      BY <1>1, <1>5, <1>7, <2>15 DEF Pcbs
  <2> HIDE DEF e
  <2>17. Grown(e, p, g, N, F)
    BY <2>16 DEF Grown, F
  <2> HIDE DEF g
  <2>18. SndOK(e, N) /\ High(e) = High(p)
    BY <1>1, <1>2, <2>12, <2>15, <2>16, <2>17, HoldsGrown
  <2> QED
    BY <2>16, <2>18 DEF WriteKeeps, e
<1>8. CASE v = <<>>
  <2>1. x = Seg(p.lbb, <<>>, TRUE) /\ w = Single(x)
    BY <1>8
  <2> HIDE DEF x, w
  <2>2. At(N) \in Numbers /\ Pos(At(N)) = N
    BY <1>2, PosOf, Widths
  <2>3. /\ x \in Segs /\ x.seq = At(N) /\ x.len = 0 /\ x.fin = TRUE
        /\ x.data = <<>>
    <3>1. <<>> \in Seq(Nat) /\ Len(<<>>) = 0
      BY EmptySeq
    <3> QED
      BY <1>3, <2>1, <2>2, <3>1 DEF Seg, Segs
  <2>4. x.data = Run(N, 0)
    BY <1>2, <2>3, RunIs
  <2>15. Pos(x.seq) = N
    BY <2>2, <2>3
  <2>14. DataTop(x) = N
    BY <1>2, <2>3, <2>15 DEF DataTop
  <2>5. Pos(x.seq) = N /\ DataTop(x) = N /\ Top(x) = N + One(TRUE)
    BY <1>2, <2>3, <2>14, <2>15 DEF Top
  <2> DEFINE F == TRUE
  <2>6. Piece(x, N, F) /\ Top(x) = N + One(F) /\ F \in BOOLEAN /\ x.len <= MSS
    BY <1>2, <2>3, <2>4, <2>5, Widths DEF Piece
  <2> HIDE DEF F
  <2>7. w \in Seq(Segs) /\ Chain(w, N, F) /\ w # <<>> /\ w[1] = x
    BY <2>1, <2>3, <2>6, ChainOne
  <2>8. u = q
    BY <1>3, <1>8, ConcatEmptySeq DEF q
  <2>9. g \in Seq(Segs) /\ Chain(g, N, F) /\ g # <<>>
    <3>1. Chain(u, N, FALSE) /\ Pos(w[1].seq) = N
      BY <1>4, <2>5, <2>7, <2>8
    <3> HIDE DEF u
    <3> QED
      BY <1>2, <1>3, <2>6, <2>7, <3>1, ChainJoin
  <2>10. Begins(g, q, N)
    <3>1. q = <<>> => g[1] = x
      BY <2>7, <2>8, ConcatEmptySeq
    <3>2. q # <<>> => g[1] = q[1] /\ Top(q[1]) <= Top(q[1])
      <4> SUFFICES ASSUME q # <<>> PROVE g[1] = q[1] /\ Top(q[1]) <= Top(q[1])
        OBVIOUS
      <4>1. 1 \in 1..Len(q) /\ q[1] \in Segs
        BY <1>6, EmptySeq, ElementOfSeq
      <4>2. g[1] = q[1]
        BY <1>6, <2>7, <2>8, <4>1, Behind
      <4>3. Piece(q[1], N, FALSE)
        BY <1>4, <4>1 DEF Chain
      <4>4. Top(q[1]) \in Nat
        BY <4>1, <4>3, PieceFacts
      <4> QED
        BY <4>2, <4>4
    <3> HIDE DEF g
    <3> QED
      BY <2>5, <3>1, <3>2 DEF Begins
  <2>11. /\ e \in Pcbs /\ e.unsent = w /\ e.unacked = p.unacked /\ e.fin = TRUE
         /\ e.nxt = p.nxt /\ e.lastack = p.lastack /\ e.wnd = p.wnd /\ e.wl2 = p.wl2
         /\ e.persist = p.persist /\ e.state = st
    <3>1. p.buf - 1 \in Nat
      BY <1>1, <1>8 DEF Pcbs
    <3>2. Plus(p.lbb, 1) \in Numbers
      BY <1>2, <1>3, AtPlus, AtIn
    <3> HIDE DEF e
    <3> QED
      BY <1>1, <1>5, <1>8, <2>7, <3>1, <3>2, ZenonT(30) DEF Pcbs
  <2> HIDE DEF e
  <2>12. Grown(e, p, g, N, F)
    BY <2>11 DEF Grown, F
  <2> HIDE DEF g
  <2>13. SndOK(e, N) /\ High(e) = High(p)
    BY <1>1, <1>2, <2>6, <2>9, <2>10, <2>11, <2>12, HoldsGrown
  <2> QED
    BY <2>11, <2>13 DEF WriteKeeps, e
<1> QED
  BY <1>7, <1>8

\* tcp_rexmit_rto puts everything that was sent back before what was not.
LEMMA RexmitOK ==
  ASSUME NEW p, NEW N \in 0..Bytes, SndOK(p, N)
  PROVE  LET e == [p EXCEPT !.ssthresh = Larger(Smaller(p.cwnd, p.wnd) \div 2, 2 * MSS),
                            !.cwnd = MSS, !.unsent = p.unacked \o p.unsent, !.unacked = <<>>]
         IN /\ SndOK(e, N) /\ e.nxt = p.nxt /\ e.lastack = p.lastack
            /\ e.wnd = p.wnd /\ e.wl2 = p.wl2 /\ e.fin = p.fin /\ e.state = p.state
<1> DEFINE half == Larger(Smaller(p.cwnd, p.wnd) \div 2, 2 * MSS)
           q == p.unacked \o p.unsent
           e == [p EXCEPT !.ssthresh = half, !.cwnd = MSS, !.unsent = q, !.unacked = <<>>]
<1>1. p \in Pcbs /\ NumbersOK(p, N) /\ Holds(q, p, N)
  BY DEF SndOK, Queue
<1>2. half \in (2 * MSS)..(WndWidth - 1)
  <2> DEFINE s == Smaller(p.cwnd, p.wnd)
  <2>1. p.cwnd \in 0..(WndWidth - 1) /\ p.wnd \in 0..(WndWidth - 1)
    BY <1>1, Widths DEF Pcbs, Windows
  <2>2. s \in 0..(WndWidth - 1)
    BY <2>1, Widths DEF Smaller
  <2> HIDE DEF s
  <2>3. s \div 2 \in Nat /\ 2 * (s \div 2) <= s
    BY <2>2, Widths
  <2> QED
    BY <2>2, <2>3, Widths DEF Larger, s
<1>3. q \in Seq(Segs) /\ <<>> \in Seq(Segs) /\ Len(<<>>) = 0 /\ <<>> \o q = q
  BY <1>1, PcbTypes, ConcatProperties, EmptySeq, ConcatEmptySeq
<1> HIDE DEF half, q
<1>4. MSS \in MSS..(WndWidth - 1)
  BY Widths
<1>5. /\ e \in Pcbs /\ e.unacked = <<>> /\ e.unsent = q /\ e.nxt = p.nxt /\ e.lastack = p.lastack
      /\ e.wnd = p.wnd /\ e.wl2 = p.wl2 /\ e.fin = p.fin /\ e.state = p.state
      /\ e.lbb = p.lbb /\ e.persist = p.persist
  BY <1>1, <1>2, <1>3, <1>4 DEF Pcbs
<1> HIDE DEF e
<1>6. NumbersOK(e, N)
  <2>1. \A i \in 1..Len(e.unacked) : FALSE
    BY <1>3, <1>5
  <2> QED
    BY <1>1, <1>5, <2>1 DEF NumbersOK
<1>7. Holds(q, e, N)
  BY <1>1, <1>5 DEF Holds
<1>8. Queue(e) = q
  BY <1>3, <1>5 DEF Queue
<1>9. SndOK(e, N)
  BY <1>5, <1>6, <1>7, <1>8 DEF SndOK
<1> QED
  BY <1>5, <1>9 DEF e, half, q

\* What tcp_output leaves alone
LEMMA OutputSame ==
  ASSUME NEW p, NEW N \in 0..Bytes, Ready(p, N)
  PROVE  LET o == Output(p)
         IN /\ o.state = p.state /\ o.fin = p.fin /\ o.lastack = p.lastack
            /\ o.wnd = p.wnd /\ o.wl2 = p.wl2 /\ High(p) <= High(o)
<1> DEFINE o == Output(p)
<1>1. p \in Pcbs /\ NumbersOK(p, N)
  BY DEF Ready
<1>2. /\ o.state = p.state /\ o.fin = p.fin /\ o.lastack = p.lastack
      /\ o.wnd = p.wnd /\ o.wl2 = p.wl2
  BY <1>1 DEF Output, Pcbs
<1>3. /\ Pos(p.nxt) <= Pos(o.nxt) /\ SndOK(o, N)
      /\ o = p \/ Pos(p.lastack) < Pos(o.nxt)
  BY OutputOK
<1>4. /\ Pos(p.nxt) \in Nat /\ Pos(p.lastack) \in Nat /\ Pos(o.nxt) \in Nat
  BY <1>1, <1>3, PcbTypes DEF SndOK
<1> HIDE DEF o
<1>5. High(p) <= High(o)
  <2>1. CASE o = p
    BY <1>4, <2>1 DEF High
  <2>2. CASE Pos(p.lastack) < Pos(o.nxt)
    <3>1. o.lastack # o.nxt
      BY <1>2, <1>4, <2>2
    <3>2. High(o) = Pos(o.nxt)
      BY <3>1 DEF High
    <3>3. High(p) = Pos(p.nxt) \/ (High(p) = Pos(p.nxt) + 1 /\ p.lastack = p.nxt)
      BY DEF High
    <3> QED
      BY <1>3, <1>4, <2>2, <3>2, <3>3
  <2> QED
    BY <1>3, <2>1, <2>2
<1> QED
  BY <1>2, <1>5 DEF o

-----------------------------------------------------------------------------
(* The queue of what comes in out of sequence.                             *)

\* Pieces of the stream behind nxt and inside the window, in order: none overlaps the
\* next, and only the last may have a FIN.  N, F: what was sent so far; H: how far.
Oos(q, nxt, edge, N, F, H) ==
  /\ \A i \in 1..Len(q) : /\ Piece(q[i], N, F) /\ nxt < Pos(q[i].seq)
                          /\ DataTop(q[i]) <= edge /\ Top(q[i]) <= H
  /\ \A i \in 1..Len(q) : i < Len(q) => ~q[i].fin
  /\ \A i, j \in 1..Len(q) : i < j => DataTop(q[i]) <= Pos(q[j].seq)

\* No segment of the queue has a FIN.
NoFin(q) == \A i \in 1..Len(q) : ~q[i].fin

\* What follows of a segment that waits out of sequence
LEMMA OosFacts ==
  ASSUME NEW q \in Seq(Segs), NEW nxt \in Nat, NEW edge \in Nat, NEW N \in 0..Bytes, NEW F,
         NEW H \in Nat, Oos(q, nxt, edge, N, F, H), NEW i \in 1..Len(q)
  PROVE  /\ q[i] \in Segs /\ Piece(q[i], N, F) /\ nxt < Pos(q[i].seq)
         /\ DataTop(q[i]) <= edge /\ Top(q[i]) <= H
         /\ Pos(q[i].seq) \in Nat /\ Pos(q[i].seq) \in Positions /\ q[i].seq \in Numbers
         /\ DataTop(q[i]) \in Nat /\ Top(q[i]) \in Nat /\ Pos(q[i].seq) <= DataTop(q[i])
         /\ DataTop(q[i]) <= N
<1>1. q[i] \in Segs
  BY ElementOfSeq
<1>2. Piece(q[i], N, F) /\ nxt < Pos(q[i].seq) /\ DataTop(q[i]) <= edge /\ Top(q[i]) <= H
  BY DEF Oos
<1> QED
  BY <1>1, <1>2, PieceFacts

\* A segment without a FIN has data.
LEMMA HasData ==
  ASSUME NEW s \in Segs, NEW N \in 0..Bytes, NEW F, Piece(s, N, F), ~s.fin
  PROVE  s.len > 0 /\ Pos(s.seq) < DataTop(s) /\ Top(s) = DataTop(s)
<1>1. s.len > 0 /\ s.len \in Nat /\ Pos(s.seq) \in Nat
  BY PieceFacts DEF Piece
<1>2. Pos(s.seq) < DataTop(s) /\ DataTop(s) \in Nat
  BY <1>1 DEF DataTop
<1>3. Top(s) = DataTop(s)
  BY <1>2 DEF Top, One
<1> QED
  BY <1>1, <1>2, <1>3

\* The beginning of the queue, and the rest of it
LEMMA OosTake ==
  ASSUME NEW q \in Seq(Segs), NEW nxt \in Nat, NEW edge \in Nat, NEW N \in 0..Bytes, NEW F,
         NEW H \in Nat, Oos(q, nxt, edge, N, F, H), NEW k \in 0..Len(q)
  PROVE  LET a == SubSeq(q, 1, k)
         IN /\ a \in Seq(Segs) /\ Oos(a, nxt, edge, N, F, H)
            /\ k < Len(q) => NoFin(a)
<1> DEFINE a == SubSeq(q, 1, k)
           n == Len(q)
<1>1. n \in Nat /\ k \in Nat /\ k <= n
  OBVIOUS
<1>2. a \in Seq(Segs) /\ Len(a) = k /\ \A i \in 1..k : a[i] = q[i]
  BY TakeIs
<1> HIDE DEF a
<1>3. /\ \A i \in 1..n : /\ Piece(q[i], N, F) /\ nxt < Pos(q[i].seq)
                         /\ DataTop(q[i]) <= edge /\ Top(q[i]) <= H
      /\ \A i \in 1..n : i < n => ~q[i].fin
      /\ \A i, j \in 1..n : i < j => DataTop(q[i]) <= Pos(q[j].seq)
  BY DEF Oos
<1> HIDE DEF n
<1>4. \A i \in 1..k : i \in 1..n /\ (i < k => i < n) /\ (k < n => i < n)
  BY <1>1
<1>5. Oos(a, nxt, edge, N, F, H)
  <2>1. \A i \in 1..k : /\ Piece(a[i], N, F) /\ nxt < Pos(a[i].seq)
                        /\ DataTop(a[i]) <= edge /\ Top(a[i]) <= H
    BY <1>2, <1>3, <1>4
  <2>2. \A i \in 1..k : i < k => ~a[i].fin
    BY <1>2, <1>3, <1>4
  <2>3. \A i, j \in 1..k : i < j => DataTop(a[i]) <= Pos(a[j].seq)
    BY <1>2, <1>3, <1>4
  <2>4. Len(a) = k
    BY <1>2
  <2> QED
    BY <2>1, <2>2, <2>3, <2>4 DEF Oos
<1>6. k < n => NoFin(a)
  BY <1>2, <1>3, <1>4 DEF NoFin
<1> QED
  BY <1>2, <1>5, <1>6 DEF a, n

\* The end of such a queue is such a queue.
LEMMA OosRest ==
  ASSUME NEW q \in Seq(Segs), NEW nxt \in Nat, NEW edge \in Nat, NEW N \in 0..Bytes, NEW F,
         NEW H \in Nat, Oos(q, nxt, edge, N, F, H), NEW k \in 0..Len(q)
  PROVE  LET r == SubSeq(q, k + 1, Len(q))
         IN r \in Seq(Segs) /\ Oos(r, nxt, edge, N, F, H)
<1> DEFINE n == Len(q)
           r == SubSeq(q, k + 1, n)
           m == n - k
<1>1. n \in Nat /\ k \in Nat /\ k <= n /\ m \in Nat
  OBVIOUS
<1>2. r \in Seq(Segs) /\ Len(r) = m /\ \A i \in 1..m : r[i] = q[k + i]
  BY RestIs
<1> HIDE DEF r
<1>3. /\ \A i \in 1..n : /\ Piece(q[i], N, F) /\ nxt < Pos(q[i].seq)
                         /\ DataTop(q[i]) <= edge /\ Top(q[i]) <= H
      /\ \A i \in 1..n : i < n => ~q[i].fin
      /\ \A i, j \in 1..n : i < j => DataTop(q[i]) <= Pos(q[j].seq)
  BY DEF Oos
<1> HIDE DEF n
<1>4. \A i \in 1..m : k + i \in 1..n /\ (i < m => k + i < n)
  BY <1>1
<1>5. \A i, j \in 1..m : i < j => k + i < k + j
  BY <1>1
<1> HIDE DEF m
<1>6. Oos(r, nxt, edge, N, F, H)
  <2>1. \A i \in 1..m : /\ Piece(r[i], N, F) /\ nxt < Pos(r[i].seq)
                        /\ DataTop(r[i]) <= edge /\ Top(r[i]) <= H
    BY <1>2, <1>3, <1>4
  <2>2. \A i \in 1..m : i < m => ~r[i].fin
    BY <1>2, <1>3, <1>4
  <2>3. \A i, j \in 1..m : i < j => DataTop(r[i]) <= Pos(r[j].seq)
    BY <1>2, <1>3, <1>4, <1>5
  <2>4. Len(r) = m
    BY <1>2
  <2> QED
    BY <2>1, <2>2, <2>3, <2>4 DEF Oos
<1> QED
  BY <1>2, <1>6 DEF r, n

\* Two parts of the queue, the first one before the second
LEMMA OosJoin ==
  ASSUME NEW a \in Seq(Segs), NEW b \in Seq(Segs), NEW nxt \in Nat, NEW edge \in Nat,
         NEW N \in 0..Bytes, NEW F, NEW H \in Nat,
         Oos(a, nxt, edge, N, F, H), Oos(b, nxt, edge, N, F, H), NoFin(a), b # <<>>,
         \A i \in 1..Len(a) : DataTop(a[i]) <= Pos(b[1].seq)
  PROVE  a \o b \in Seq(Segs) /\ Oos(a \o b, nxt, edge, N, F, H)
<1> DEFINE c == a \o b
           k == Len(a)
           n == Len(b)
<1>1. k \in Nat /\ n \in Nat /\ n >= 1 /\ 1 \in 1..n
  BY EmptySeq
<1>2. /\ c \in Seq(Segs) /\ Len(c) = k + n
      /\ \A i \in 1..k : c[i] = a[i]
      /\ \A i \in 1..n : c[k + i] = b[i]
  BY Behind
<1> HIDE DEF c
<1>3. /\ \A i \in 1..k : /\ Piece(a[i], N, F) /\ nxt < Pos(a[i].seq)
                         /\ DataTop(a[i]) <= edge /\ Top(a[i]) <= H /\ ~a[i].fin
      /\ \A i, j \in 1..k : i < j => DataTop(a[i]) <= Pos(a[j].seq)
  BY DEF Oos, NoFin
<1>4. /\ \A i \in 1..n : /\ Piece(b[i], N, F) /\ nxt < Pos(b[i].seq)
                         /\ DataTop(b[i]) <= edge /\ Top(b[i]) <= H
      /\ \A i \in 1..n : i < n => ~b[i].fin
      /\ \A i, j \in 1..n : i < j => DataTop(b[i]) <= Pos(b[j].seq)
  BY DEF Oos
<1>5. ASSUME NEW i \in 1..k, NEW j \in 1..n PROVE DataTop(a[i]) <= Pos(b[j].seq)
  <2>1. /\ DataTop(a[i]) <= Pos(b[1].seq) /\ DataTop(a[i]) \in Nat
        /\ Pos(b[1].seq) \in Nat /\ Pos(b[1].seq) <= DataTop(b[1]) /\ DataTop(b[1]) \in Nat
        /\ Pos(b[j].seq) \in Nat
    BY <1>1, OosFacts
  <2>2. 1 < j => DataTop(b[1]) <= Pos(b[j].seq)
    BY <1>1, <1>4
  <2>3. j = 1 \/ 1 < j
    BY <1>1
  <2> QED
    BY <2>1, <2>2, <2>3
<1> HIDE DEF k, n
<1>6. ASSUME NEW i \in 1..(k + n)
      PROVE  \/ i \in 1..k /\ c[i] = a[i]
             \/ i - k \in 1..n /\ c[i] = b[i - k] /\ i > k
  <2>1. CASE i <= k
    BY <1>1, <1>2, <2>1
  <2>2. CASE i > k
    <3>1. i - k \in 1..n /\ k + (i - k) = i
      BY <1>1, <2>2
    <3> QED
      BY <1>2, <2>2, <3>1
  <2> QED
    BY <1>1, <2>1, <2>2
<1>7. \A i \in 1..(k + n) : /\ Piece(c[i], N, F) /\ nxt < Pos(c[i].seq)
                            /\ DataTop(c[i]) <= edge /\ Top(c[i]) <= H
  BY <1>3, <1>4, <1>6
<1>8. ASSUME NEW i \in 1..(k + n), i < k + n PROVE ~c[i].fin
  <2>1. i > k => i - k < n
    BY <1>1, <1>8
  <2> QED
    BY <1>3, <1>4, <1>6, <2>1
<1>9. ASSUME NEW i \in 1..(k + n), NEW j \in 1..(k + n), i < j
      PROVE  DataTop(c[i]) <= Pos(c[j].seq)
  <2>1. CASE i \in 1..k /\ j \in 1..k
    BY <1>2, <1>3, <1>9, <2>1
  <2>2. CASE i \in 1..k /\ j > k
    <3>1. j - k \in 1..n /\ c[j] = b[j - k] /\ c[i] = a[i]
      BY <1>1, <1>2, <1>6, <2>2
    <3> QED
      BY <1>5, <2>2, <3>1
  <2>3. CASE i > k
    <3>1. j - k \in 1..n /\ c[j] = b[j - k] /\ i - k \in 1..n /\ c[i] = b[i - k] /\ i - k < j - k
      BY <1>1, <1>6, <1>9, <2>3
    <3> QED
      BY <1>4, <3>1
  <2> QED
    BY <1>1, <2>1, <2>2, <2>3
<1>10. Oos(c, nxt, edge, N, F, H)
  BY <1>2, <1>7, <1>8, <1>9 DEF Oos
<1> QED
  BY <1>2, <1>10 DEF c

\* The difference of two numbers is that of their positions.
LEMMA PosMinus ==
  ASSUME NEW a \in Numbers, NEW b \in Numbers, Pos(b) <= Pos(a)
  PROVE  Minus(a, b) = Pos(a) - Pos(b) /\ Pos(a) - Pos(b) \in Nat
<1>1. Pos(a) \in Numbers /\ Pos(b) \in Numbers /\ At(Pos(a)) = a /\ At(Pos(b)) = b
  BY AtPos
<1> DEFINE i == Pos(a)
           j == Pos(b)
<1>2. i \in Int /\ j \in Int /\ i - j \in Numbers /\ i - j \in Nat
  BY <1>1, Widths DEF Numbers
<1> HIDE DEF i, j
<1>3. Minus(At(i), At(j)) = i - j
  BY <1>2, AtMinus
<1> QED
  BY <1>1, <1>2, <1>3 DEF i, j

\* The last element replaced
LEMMA FrontAppend ==
  ASSUME NEW S, NEW q \in Seq(S), q # <<>>, NEW x \in S
  PROVE  LET e == Append(Front(q), x)
         IN /\ e \in Seq(S) /\ Len(e) = Len(q) /\ e[Len(q)] = x
            /\ \A i \in 1..(Len(q) - 1) : e[i] = q[i]
<1> DEFINE n == Len(q)
           f == Front(q)
<1>1. n \in Nat /\ n >= 1 /\ n - 1 \in 0..n
  BY EmptySeq
<1>2. f = SubSeq(q, 1, n - 1)
  BY DEF Front
<1> HIDE DEF f
<1>3. f \in Seq(S) /\ Len(f) = n - 1 /\ \A i \in 1..(n - 1) : f[i] = q[i]
  BY <1>1, <1>2, TakeIs
<1> HIDE DEF n
<1>4. Append(f, x) \in Seq(S) /\ Len(Append(f, x)) = n /\ Append(f, x)[n] = x
      /\ \A i \in 1..(n - 1) : Append(f, x)[i] = f[i]
  <2>1. f \in Seq(S) /\ Len(f) \in Nat /\ n = Len(f) + 1
    BY <1>1, <1>3
  <2> QED
    BY <2>1
<1> QED
  BY <1>3, <1>4 DEF n, f

\* Where a new segment begins, what is before it is cut.
LEMMA EndingOK ==
  ASSUME NEW q \in Seq(Segs), NEW nxt \in Nat, NEW edge \in Nat, NEW N \in 0..Bytes, NEW F,
         NEW H \in Nat, Oos(q, nxt, edge, N, F, H), NoFin(q),
         NEW s \in Segs, Piece(s, N, F), \A i \in 1..Len(q) : Pos(q[i].seq) < Pos(s.seq)
  PROVE  LET e == Ending(q, s)
         IN /\ e \in Seq(Segs) /\ Oos(e, nxt, edge, N, F, H) /\ NoFin(e)
            /\ \A i \in 1..Len(e) : DataTop(e[i]) <= Pos(s.seq)
<1> DEFINE n == Len(q)
           t == q[n]
           e == Ending(q, s)
           K == Pos(s.seq)
<1>1. K \in Nat /\ K \in Positions /\ s.seq \in Numbers
  BY PieceFacts
<1>2. CASE q = <<>>
  <2>1. e = q
    BY <1>2 DEF Ending
  <2>2. \A i \in 1..Len(q) : FALSE
    BY <1>2, EmptySeq
  <2> QED
    BY <2>1, <2>2
<1>3. CASE q # <<>>
  <2>1. n \in Nat /\ n \in 1..n /\ n >= 1
    BY <1>3, EmptySeq
  <2>2. /\ t \in Segs /\ Piece(t, N, F) /\ nxt < Pos(t.seq) /\ DataTop(t) <= edge /\ Top(t) <= H
        /\ Pos(t.seq) \in Nat /\ t.seq \in Numbers /\ DataTop(t) \in Nat /\ DataTop(t) <= N
    BY <2>1, OosFacts
  <2>3. ~t.fin /\ Pos(t.seq) < K
    BY <2>1 DEF NoFin
  <2>4. \A i \in 1..n : i < n => DataTop(q[i]) <= Pos(t.seq)
    BY <2>1 DEF Oos
  <2> HIDE DEF t
  <2>5. Plus(t.seq, t.len) = At(DataTop(t)) /\ DataTop(t) \in Positions /\ s.seq = At(K) /\ t.len \in Nat
    BY <2>2, PieceFacts
  <2>6. Lt(s.seq, Plus(t.seq, t.len)) <=> K < DataTop(t)
    <3> HIDE DEF K
    <3> QED
      BY <1>1, <2>5, Compare
  <2>7. ASSUME NEW i \in 1..n, i < n PROVE DataTop(q[i]) <= K
    <3>1. DataTop(q[i]) \in Nat
      BY OosFacts
    <3>2. DataTop(q[i]) <= Pos(t.seq)
      BY <2>4, <2>7
    <3> HIDE DEF K, n
    <3> QED
      BY <1>1, <2>2, <2>3, <3>1, <3>2
  <2>8. CASE ~(K < DataTop(t))
    <3>1. e = q
      BY <2>6, <2>8 DEF Ending, Last, t
    <3>2. \A i \in 1..n : DataTop(q[i]) <= K
      <4> SUFFICES ASSUME NEW i \in 1..n PROVE DataTop(q[i]) <= K
        OBVIOUS
      <4>1. i < n \/ i = n
        BY <2>1
      <4>2. i = n => q[i] = t
        BY DEF t
      <4> HIDE DEF n, K
      <4> QED
        BY <1>1, <2>2, <2>7, <2>8, <4>1, <4>2
    <3> QED
      BY <3>1, <3>2
  <2>9. CASE K < DataTop(t)
    <3> DEFINE m == Minus(s.seq, t.seq)
               x == Cut(t, m)
    <3>1. m = K - Pos(t.seq) /\ m \in Nat
      BY <1>1, <2>2, <2>3, PosMinus
    <3>2. 0 < m /\ m <= t.len
      <4> HIDE DEF m, K
      <4> QED
        BY <1>1, <2>2, <2>3, <2>5, <2>9, <3>1 DEF DataTop
    <3>3. e = Append(Front(q), x)
      BY <1>3, <2>6, <2>9 DEF Ending, Last, t
    <3> HIDE DEF m, e
    <3>4. x \in Segs /\ Piece(x, N, F) /\ x.seq = t.seq /\ x.fin = t.fin
          /\ DataTop(x) = Pos(t.seq) + m
      BY <2>2, <2>3, <3>1, <3>2, CutIs
    <3> HIDE DEF x
    <3>5. DataTop(x) = K /\ Pos(x.seq) = Pos(t.seq) /\ ~x.fin
      <4> HIDE DEF K
      <4> QED
        BY <1>1, <2>2, <2>3, <3>1, <3>4
    <3>6. Top(x) = DataTop(x) /\ Top(t) = DataTop(t)
      BY <2>2, <2>3, <3>4, <3>5, HasData
    <3>7. e \in Seq(Segs) /\ Len(e) = n /\ e[n] = x /\ \A i \in 1..(n - 1) : e[i] = q[i]
      BY <1>3, <3>3, <3>4, FrontAppend
    <3> DEFINE y(i) == IF i = n THEN x ELSE q[i]
    <3>8. \A i \in 1..n : e[i] = y(i) /\ Pos(y(i).seq) = Pos(q[i].seq)
      <4> SUFFICES ASSUME NEW i \in 1..n PROVE e[i] = y(i) /\ Pos(y(i).seq) = Pos(q[i].seq)
        OBVIOUS
      <4>1. i # n => i \in 1..(n - 1)
        BY <2>1
      <4>2. i = n => q[i] = t
        BY DEF t
      <4> HIDE DEF n, K
      <4> QED
        BY <3>5, <3>7, <4>1, <4>2
    <3>9. ASSUME NEW i \in 1..n
          PROVE  /\ Piece(y(i), N, F) /\ nxt < Pos(y(i).seq) /\ DataTop(y(i)) <= edge
                 /\ Top(y(i)) <= H /\ DataTop(y(i)) <= K /\ ~y(i).fin
                 /\ DataTop(y(i)) <= DataTop(q[i])
      <4>1. CASE i = n
        <5>1. y(i) = x /\ q[i] = t
          BY <4>1 DEF t
        <5> HIDE DEF y, n, K
        <5> QED
          BY <1>1, <2>2, <2>9, <3>4, <3>5, <3>6, <5>1
      <4>2. CASE i # n
        <5>1. i < n
          BY <2>1, <4>2
        <5>2. y(i) = q[i] /\ ~q[i].fin
          BY <4>2 DEF NoFin
        <5>3. /\ Piece(q[i], N, F) /\ nxt < Pos(q[i].seq) /\ DataTop(q[i]) <= edge
              /\ Top(q[i]) <= H /\ DataTop(q[i]) \in Nat
          BY OosFacts
        <5> HIDE DEF y, n, K
        <5> QED
          BY <2>7, <5>1, <5>2, <5>3
      <4> QED
        BY <4>1, <4>2
    <3>10. ASSUME NEW i \in 1..n, NEW j \in 1..n, i < j
           PROVE  DataTop(y(i)) <= Pos(y(j).seq)
      <4>1. y(i) = q[i] /\ DataTop(q[i]) <= Pos(q[j].seq)
        <5>1. i # n
          BY <2>1, <3>10
        <5> QED
          BY <3>10, <5>1 DEF Oos
      <4> HIDE DEF y
      <4> QED
        BY <3>8, <4>1
    <3> HIDE DEF y
    <3>11. Oos(e, nxt, edge, N, F, H)
      <4> HIDE DEF n
      <4> QED
        BY <3>7, <3>8, <3>9, <3>10 DEF Oos
    <3>12. NoFin(e) /\ \A i \in 1..Len(e) : DataTop(e[i]) <= K
      BY <3>7, <3>8, <3>9 DEF NoFin
    <3> QED
      BY <3>7, <3>11, <3>12 DEF e
  <2> QED
    BY <2>8, <2>9
<1> QED
  BY <1>2, <1>3

\* One segment is such a queue.
LEMMA OosOne ==
  ASSUME NEW s \in Segs, NEW nxt \in Nat, NEW edge \in Nat, NEW N \in 0..Bytes, NEW F,
         NEW H \in Nat, Piece(s, N, F), nxt < Pos(s.seq), DataTop(s) <= edge, Top(s) <= H
  PROVE  /\ Single(s) \in Seq(Segs) /\ Oos(Single(s), nxt, edge, N, F, H)
         /\ Single(s) # <<>> /\ Single(s)[1] = s /\ Len(Single(s)) = 1
<1> DEFINE q == Single(s)
<1>1. q \in Seq(Segs) /\ Len(q) = 1 /\ q # <<>> /\ q[1] = s
  BY DEF Single
<1> HIDE DEF q
<1>2. \A i \in 1..Len(q) : i = 1 /\ ~(i < Len(q))
  BY <1>1
<1>3. \A i, j \in 1..Len(q) : ~(i < j)
  BY <1>1
<1>4. Oos(q, nxt, edge, N, F, H)
  BY <1>1, <1>2, <1>3 DEF Oos
<1> QED
  BY <1>1, <1>4 DEF q

\* A has the segments whose data end at K or before.
Under(next, A, K) == \A i \in 1..Len(next) : i \in A <=> DataTop(next[i]) <= K

\* No segment of the queue begins before t; one that begins with it is shorter.
AllBehind(next, t) ==
  \A i \in 1..Len(next) : \/ Pos(t.seq) < Pos(next[i].seq)
                          \/ i = 1 /\ next[i].seq = t.seq /\ next[i].len < t.len

\* t takes the place of the segments it covers, and their FIN.
Merged(t, whole, rest, nxt, edge, N, F, H) ==
  /\ whole \in Segs /\ Piece(whole, N, F) /\ Top(whole) <= H
  /\ whole.seq = t.seq /\ whole.len = t.len
  /\ rest \in Seq(Segs) /\ Oos(rest, nxt, edge, N, F, H)
  /\ rest # <<>> => ~whole.fin /\ Pos(t.seq) < Pos(rest[1].seq)

\* A segment takes the place of those that it covers.
LEMMA Merge ==
  ASSUME NEW next \in Seq(Segs), NEW nxt \in Nat, NEW edge \in Nat, NEW N \in 0..Bytes, NEW F,
         NEW H \in Nat, Oos(next, nxt, edge, N, F, H),
         NEW t \in Segs, Piece(t, N, F), ~t.fin, Top(t) <= H, AllBehind(next, t),
         NEW A, Under(next, A, DataTop(t))
  PROVE  LET gone == Prefix(next, A)
             whole == [t EXCEPT !.fin = \E u \in ToSet(gone) : u.fin]
         IN Merged(t, whole, Rest(next, gone), nxt, edge, N, F, H)
<1> DEFINE gone == Prefix(next, A)
           rest == Rest(next, gone)
           fin == \E u \in ToSet(gone) : u.fin
           whole == [t EXCEPT !.fin = fin]
           n == Len(next)
<1>1. PICK k \in 0..n : /\ gone = SubSeq(next, 1, k)
                        /\ rest = SubSeq(next, k + 1, n)
                        /\ \A j \in 1..k : j \in A
                        /\ k < n => k + 1 \notin A
  BY PrefixIs
<1>2. n \in Nat /\ k \in Nat /\ k <= n
  OBVIOUS
<1>3. gone \in Seq(Segs) /\ Len(gone) = k /\ \A i \in 1..k : gone[i] = next[i]
  BY <1>1, TakeIs
<1>4. rest \in Seq(Segs) /\ Len(rest) = n - k /\ \A i \in 1..(n - k) : rest[i] = next[k + i]
  BY <1>1, RestIs, ZenonT(30)
<1>5. Oos(rest, nxt, edge, N, F, H)
  BY <1>1, OosRest
<1> HIDE DEF rest
<1>6. fin <=> \E i \in 1..k : next[i].fin
  BY <1>3, ToSetIs, SMTT(30)
<1> HIDE DEF gone, fin
<1>8. ASSUME fin PROVE k = n /\ n >= 1 /\ next[n].fin
  <2>1. PICK i \in 1..k : next[i].fin
    BY <1>6, <1>8
  <2>2. i \in 1..n /\ ~(i < n)
    BY <1>2, <2>1 DEF Oos
  <2> HIDE DEF n
  <2> QED
    BY <1>2, <2>1, <2>2
<1>9. fin \in BOOLEAN
  BY DEF fin
<1>10. /\ t.len \in Nat /\ Pos(t.seq) \in Nat /\ DataTop(t) \in Nat /\ DataTop(t) <= N
       /\ t.data = Run(Pos(t.seq), t.len) /\ t.len > 0 /\ Top(t) = DataTop(t)
  BY PieceFacts, HasData DEF Piece
<1>11. /\ whole \in Segs /\ whole.seq = t.seq /\ whole.len = t.len /\ whole.data = t.data
       /\ whole.fin = fin
  BY <1>9 DEF Segs
<1> HIDE DEF whole
<1>12. DataTop(whole) = DataTop(t)
  BY <1>11 DEF DataTop
<1>13. CASE fin
  <2>1. k = n /\ n \in 1..n /\ next[n].fin
    BY <1>2, <1>8, <1>13
  <2> DEFINE l == next[n]
  <2>2. l \in Segs /\ Piece(l, N, F) /\ Top(l) <= H /\ DataTop(l) \in Nat
    BY <2>1, OosFacts
  <2>3. DataTop(l) <= DataTop(t)
    BY <1>1, <2>1 DEF Under
  <2>4. F /\ DataTop(l) = N
    BY <2>1, <2>2 DEF Piece
  <2>5. Top(l) = DataTop(l) + 1
    BY <2>1 DEF Top, One
  <2> HIDE DEF l
  <2>6. DataTop(t) = N /\ F
    BY <1>10, <2>2, <2>3, <2>4, Widths
  <2>7. Top(whole) = N + 1
    BY <1>11, <1>12, <1>13, <2>6 DEF Top, One
  <2>8. Top(whole) <= H
    BY <2>2, <2>4, <2>5, <2>7
  <2>9. Piece(whole, N, F)
    BY <1>10, <1>11, <1>12, <2>6 DEF Piece
  <2>10. rest = <<>>
    <3> HIDE DEF n
    <3>1. Len(rest) = 0
      BY <1>2, <1>4, <2>1
    <3> QED
      BY <1>4, <3>1, EmptySeq
  <2> QED
    BY <1>4, <1>5, <1>11, <2>8, <2>9, <2>10 DEF Merged, gone, fin, whole, rest
<1>14. CASE ~fin
  <2>1. Piece(whole, N, F)
    BY <1>10, <1>11, <1>12, <1>14 DEF Piece
  <2>2. Top(whole) <= H
    BY <1>10, <1>11, <1>12, <1>14 DEF Top, One
  <2>3. ASSUME rest # <<>> PROVE Pos(t.seq) < Pos(rest[1].seq)
    <3>1. k < n /\ 1 \in 1..(n - k) /\ k + 1 \in 1..n
      <4>1. Len(rest) \in Nat \ {0}
        BY <1>4, <2>3, EmptySeq
      <4> HIDE DEF n
      <4> QED
        BY <1>2, <1>4, <4>1
    <3>2. rest[1] = next[k + 1]
      BY <1>4, <3>1
    <3>3. ~(DataTop(next[k + 1]) <= DataTop(t))
      BY <1>1, <3>1 DEF Under
    <3>4. CASE Pos(t.seq) < Pos(next[k + 1].seq)
      BY <3>2, <3>4
    <3>5. CASE next[k + 1].seq = t.seq /\ next[k + 1].len < t.len
      <4> DEFINE l == next[k + 1]
      <4>1. l \in Segs /\ l.len \in Nat
        <5>1. l \in Segs
          BY <3>1, ElementOfSeq
        <5> HIDE DEF l
        <5> QED
          BY <5>1 DEF Segs
      <4> HIDE DEF l
      <4>2. l.seq = t.seq /\ l.len < t.len
        BY <3>5 DEF l
      <4>3. DataTop(l) <= DataTop(t)
        BY <1>10, <4>1, <4>2 DEF DataTop
      <4> QED
        BY <3>3, <4>3 DEF l
    <3> QED
      BY <3>1, <3>4, <3>5 DEF AllBehind
  <2> QED
    BY <1>4, <1>5, <1>11, <1>14, <2>1, <2>2, <2>3 DEF Merged, gone, fin, whole, rest
<1> QED
  BY <1>13, <1>14

\* It is cut where the next one begins.
Fitted(y, t, rest, N, F, H) ==
  /\ y \in Segs /\ Piece(y, N, F) /\ Top(y) <= H /\ y.seq = t.seq /\ DataTop(y) <= DataTop(t)
  /\ rest # <<>> => ~y.fin /\ DataTop(y) <= Pos(rest[1].seq)

\* Behind them, it is cut where the next one begins.
LEMMA MergeCut ==
  ASSUME NEW t \in Segs, NEW whole, NEW rest, NEW nxt \in Nat, NEW edge \in Nat,
         NEW N \in 0..Bytes, NEW F, NEW H \in Nat, Merged(t, whole, rest, nxt, edge, N, F, H),
         NEW E, rest # <<>> => E = At(DataTop(t))
  PROVE  LET y == IF rest # <<>> /\ Lt(Head(rest).seq, E)
                  THEN Cut(whole, Minus(Head(rest).seq, t.seq)) ELSE whole
         IN Fitted(y, t, rest, N, F, H)
<1> DEFINE y == IF rest # <<>> /\ Lt(Head(rest).seq, E)
                THEN Cut(whole, Minus(Head(rest).seq, t.seq)) ELSE whole
<1>1. /\ whole \in Segs /\ Piece(whole, N, F) /\ Top(whole) <= H
      /\ whole.seq = t.seq /\ whole.len = t.len
      /\ rest \in Seq(Segs) /\ Oos(rest, nxt, edge, N, F, H)
      /\ rest # <<>> => ~whole.fin /\ Pos(t.seq) < Pos(rest[1].seq)
  BY DEF Merged
<1>2. /\ Pos(t.seq) \in Nat /\ DataTop(whole) = DataTop(t) /\ DataTop(t) \in Nat
      /\ t.seq \in Numbers /\ DataTop(t) \in Positions /\ whole.len \in Nat
      /\ DataTop(t) = Pos(t.seq) + whole.len
  <2>1. DataTop(whole) = DataTop(t) /\ Pos(whole.seq) = Pos(t.seq)
    BY <1>1 DEF DataTop
  <2>2. /\ Pos(whole.seq) \in Nat /\ DataTop(whole) \in Nat /\ whole.seq \in Numbers
        /\ {Pos(whole.seq), DataTop(whole), Top(whole)} \subseteq Positions /\ whole.len \in Nat
    BY <1>1, PieceFacts
  <2>3. DataTop(whole) = Pos(whole.seq) + whole.len
    BY DEF DataTop
  <2> QED
    BY <1>1, <2>1, <2>2, <2>3
<1>3. CASE rest = <<>>
  <2>1. y = whole
    BY <1>3
  <2> HIDE DEF y
  <2>2. DataTop(y) <= DataTop(t)
    BY <1>2, <2>1
  <2> QED
    BY <1>1, <1>3, <2>1, <2>2 DEF Fitted, y
<1>4. CASE rest # <<>>
  <2> DEFINE h == rest[1]
             K == Pos(h.seq)
  <2>1. /\ h.seq \in Numbers /\ K \in Nat /\ K \in Positions /\ Head(rest) = h
    BY <1>1, <1>4, EmptySeq, OosFacts
  <2>2. Lt(h.seq, E) <=> K < DataTop(t)
    <3>1. h.seq = At(K)
      BY <2>1, AtPos
    <3> HIDE DEF K
    <3> QED
      BY <1>2, <1>4, <2>1, <3>1, Compare
  <2>3. CASE K < DataTop(t)
    <3> DEFINE m == Minus(h.seq, t.seq)
    <3>1. y = Cut(whole, m)
      BY <1>4, <2>1, <2>2, <2>3
    <3>2. Pos(t.seq) < K /\ ~whole.fin
      BY <1>1, <1>4
    <3>3. m = K - Pos(t.seq) /\ m \in Nat
      <4>1. Pos(t.seq) <= K
        BY <1>2, <2>1, <3>2
      <4> QED
        BY <1>2, <2>1, <4>1, PosMinus
    <3> HIDE DEF h, K, m, y
    <3>4. 0 < m /\ m <= whole.len
      BY <1>2, <2>1, <2>3, <3>2, <3>3
    <3>5. y \in Segs /\ Piece(y, N, F) /\ y.seq = whole.seq /\ y.fin = whole.fin
          /\ DataTop(y) = Pos(whole.seq) + m
      BY <1>1, <3>1, <3>2, <3>3, <3>4, CutIs
    <3>6. DataTop(y) = K
      BY <1>1, <1>2, <2>1, <3>3, <3>5
    <3>7. Top(y) = DataTop(y) /\ Top(whole) = DataTop(whole)
      BY <1>1, <3>2, <3>5, HasData
    <3>8. Top(y) <= H /\ DataTop(y) <= DataTop(t) /\ DataTop(y) <= K
      BY <1>1, <1>2, <2>1, <2>3, <3>6, <3>7
    <3> QED
      BY <1>1, <3>2, <3>5, <3>8 DEF Fitted, y, K, h
  <2>4. CASE ~(K < DataTop(t))
    <3>1. y = whole
      BY <1>4, <2>1, <2>2, <2>4
    <3> HIDE DEF h, K, y
    <3>2. DataTop(y) <= DataTop(t) /\ DataTop(y) <= K
      BY <1>2, <2>1, <2>4, <3>1
    <3> QED
      BY <1>1, <3>1, <3>2 DEF Fitted, y, K, h
  <2> QED
    BY <2>3, <2>4
<1> QED
  BY <1>3, <1>4

\* What end covers, by positions
LEMMA UnderIs ==
  ASSUME NEW next \in Seq(Segs), NEW nxt \in Nat, NEW edge \in Nat, NEW N \in 0..Bytes, NEW F,
         NEW H \in Nat, Oos(next, nxt, edge, N, F, H), NEW K \in Positions
  PROVE  Under(next, {i \in DOMAIN next : Leq(Plus(next[i].seq, next[i].len), At(K))}, K)
<1> SUFFICES ASSUME NEW i \in 1..Len(next)
             PROVE  Leq(Plus(next[i].seq, next[i].len), At(K)) <=> DataTop(next[i]) <= K
  BY DEF Under
<1> DEFINE s == next[i]
<1>1. s \in Segs /\ Piece(s, N, F)
  BY OosFacts
<1> HIDE DEF s
<1>2. Plus(s.seq, s.len) = At(DataTop(s)) /\ DataTop(s) \in Positions
  BY <1>1, PieceFacts
<1>3. Leq(Plus(s.seq, s.len), At(K)) <=> DataTop(s) <= K
  BY <1>2, Compare
<1> QED
  BY <1>3 DEF s

\* What the queue is from a segment on, the first of which is new
Inserted(b, s, nxt, edge, N, F, H) ==
  /\ b \in Seq(Segs) /\ Oos(b, nxt, edge, N, F, H) /\ b # <<>>
  /\ b[1].seq = s.seq

\* tcp_oos_insert_segment
LEMMA OosInsertOK ==
  ASSUME NEW next \in Seq(Segs), NEW nxt \in Nat, NEW edge \in Nat, NEW N \in 0..Bytes, NEW F,
         NEW H \in Nat, Oos(next, nxt, edge, N, F, H),
         NEW s \in Segs, Piece(s, N, F), nxt < Pos(s.seq), DataTop(s) <= edge, Top(s) <= H,
         AllBehind(next, s)
  PROVE  Inserted(OosInsert(s, next), s, nxt, edge, N, F, H)
<1> DEFINE end == Plus(s.seq, s.len)
           covered == {i \in DOMAIN next : Leq(Plus(next[i].seq, next[i].len), end)}
           gone == Prefix(next, covered)
           rest == Rest(next, gone)
           whole == [s EXCEPT !.fin = \E t \in ToSet(gone) : t.fin]
           y == IF rest # <<>> /\ Lt(Head(rest).seq, end)
                THEN Cut(whole, Minus(Head(rest).seq, s.seq)) ELSE whole
<1>1. CASE s.fin
  <2>1. OosInsert(s, next) = Single(s)
    BY <1>1 DEF OosInsert, Single
  <2> QED
    BY <2>1, OosOne DEF Inserted
<1>2. CASE ~s.fin
  <2>1. OosInsert(s, next) = Single(y) \o rest
    BY <1>2 DEF OosInsert, Single
  <2>2. end = At(DataTop(s)) /\ DataTop(s) \in Positions
    BY PieceFacts
  <2>3. Under(next, covered, DataTop(s))
    BY <2>2, UnderIs
  <2>4. Merged(s, whole, rest, nxt, edge, N, F, H)
    <3> HIDE DEF covered
    <3> QED
      BY <1>2, <2>3, Merge
  <2> HIDE DEF whole, rest
  <2>5. Fitted(y, s, rest, N, F, H)
    <3> HIDE DEF end
    <3> QED
      BY <2>2, <2>4, MergeCut
  <2> HIDE DEF y
  <2>6. y \in Segs /\ Piece(y, N, F) /\ Top(y) <= H /\ y.seq = s.seq /\ DataTop(y) <= DataTop(s)
        /\ (rest # <<>> => ~y.fin /\ DataTop(y) <= Pos(rest[1].seq))
    BY <2>5 DEF Fitted
  <2>7. DataTop(y) \in Nat /\ DataTop(s) \in Nat
    BY <2>6, PieceFacts
  <2>8. nxt < Pos(y.seq) /\ DataTop(y) <= edge
    BY <2>6, <2>7
  <2> DEFINE a == Single(y)
  <2>9. /\ a \in Seq(Segs) /\ Oos(a, nxt, edge, N, F, H)
        /\ a # <<>> /\ a[1] = y /\ Len(a) = 1
    BY <2>6, <2>8, OosOne
  <2>10. rest \in Seq(Segs) /\ Oos(rest, nxt, edge, N, F, H)
    BY <2>4 DEF Merged
  <2> HIDE DEF a
  <2>11. CASE rest = <<>>
    <3>1. a \o rest = a
      BY <2>9, <2>11
    <3> QED
      BY <2>1, <2>6, <2>9, <3>1 DEF Inserted, a
  <2>12. CASE rest # <<>>
    <3>1. NoFin(a) /\ \A i \in 1..Len(a) : DataTop(a[i]) <= Pos(rest[1].seq)
      BY <2>6, <2>9, <2>12 DEF NoFin
    <3>2. a \o rest \in Seq(Segs) /\ Oos(a \o rest, nxt, edge, N, F, H)
      BY <2>9, <2>10, <2>12, <3>1, OosJoin
    <3>3. a \o rest # <<>> /\ (a \o rest)[1] = a[1]
      <4>1. /\ a \o rest = <<>> <=> a = <<>> /\ rest = <<>>
            /\ \A i \in 1..Len(a) : (a \o rest)[i] = a[i]
        BY <2>9, <2>10, Behind
      <4> QED
        BY <2>9, <4>1
    <3> QED
      BY <2>1, <2>6, <2>9, <3>2, <3>3 DEF Inserted, a
  <2> QED
    BY <2>11, <2>12
<1> QED
  BY <1>1, <1>2

\* The sequence numbers of the connection do not wrap around.
NoWrap == Iss + Bytes + 1 + TCP_WND < SeqWidth

\* A segment that belongs into the queue, and a queue
Fresh(s, nxt, edge, N, F, H) ==
  s \in Segs /\ Piece(s, N, F) /\ nxt < Pos(s.seq) /\ DataTop(s) <= edge /\ Top(s) <= H

\* A queue of segments out of sequence, between nxt and edge, up to H
Queued(q, nxt, edge, N, F, H) == q \in Seq(Segs) /\ Oos(q, nxt, edge, N, F, H)

\* Without a wrap the numbers are those of the positions, moved by Iss.
LEMMA AtPlain ==
  ASSUME NoWrap, NEW k \in Nat, k <= Bytes + 1 + TCP_WND
  PROVE  At(k) = Iss + k
<1>1. Iss + k \in Nat /\ Iss + k < SeqWidth /\ SeqWidth \in Nat \ {0}
  BY Widths DEF NoWrap, Numbers
<1>2. (Iss + k) % SeqWidth = Iss + k
  BY <1>1, RemainderSame
<1> QED
  BY <1>2 DEF At, Plus

\* The test of the right edge, and what it leaves of the segment
LEMMA OverrunsIs ==
  ASSUME NoWrap, NEW p, NEW k \in 0..Bytes, p.nxt = At(k), p.wnd \in 0..TCP_WND,
         NEW s \in Segs, NEW N \in 0..Bytes, NEW F, Piece(s, N, F)
  PROVE  Overruns(p, s) <=> Top(s) > k + p.wnd
<1>1. /\ Pos(s.seq) \in Nat /\ s.seq = At(Pos(s.seq)) /\ TcpLen(s) \in Nat
      /\ Top(s) = Pos(s.seq) + TcpLen(s) /\ Top(s) \in Nat /\ Top(s) <= N + One(F)
  BY PieceFacts
<1>2. One(F) \in 0..1
  BY DEF One
<1>3. Top(s) <= Bytes + 1
  BY <1>1, <1>2, Widths
<1>4. Plus(s.seq, TcpLen(s)) = At(Top(s))
  BY <1>1, AtPlus
<1>5. Plus(p.nxt, p.wnd) = At(k + p.wnd)
  <2>1. k \in Int /\ p.wnd \in Int
    BY Widths
  <2> QED
    BY <2>1, AtPlus
<1>6. At(Top(s)) = Iss + Top(s)
  <2>1. Top(s) <= Bytes + 1 + TCP_WND
    BY <1>1, <1>3, Widths
  <2> QED
    BY <1>1, <2>1, AtPlain
<1>7. At(k + p.wnd) = Iss + (k + p.wnd)
  <2>1. k + p.wnd \in Nat /\ k + p.wnd <= Bytes + 1 + TCP_WND
    BY Widths
  <2> HIDE DEF NoWrap
  <2> QED
    BY <2>1, AtPlain
<1>8. Overruns(p, s) <=> Iss + Top(s) > Iss + (k + p.wnd)
  BY <1>4, <1>5, <1>6, <1>7 DEF Overruns
<1> QED
  BY <1>1, <1>8, Widths

\* A segment beyond the window is cut there, and stays a piece of the stream.
LEMMA InWindowOK ==
  ASSUME NoWrap, NEW p, NEW k \in 0..Bytes, p.nxt = At(k), p.wnd \in 0..TCP_WND,
         NEW s, NEW N \in 0..Bytes, NEW F, NEW edge \in Nat, NEW H \in Nat,
         Fresh(s, k, edge, N, F, H), edge <= k + p.wnd, Pos(s.seq) < k + p.wnd
  PROVE  LET y == InWindow(p, s)
         IN Fresh(y, k, edge, N, F, H) /\ y.seq = s.seq
<1> DEFINE y == InWindow(p, s)
           z == [s EXCEPT !.fin = FALSE]
           m == Minus(Plus(p.nxt, p.wnd), s.seq) % WndWidth
<1>1. s \in Segs /\ Piece(s, N, F) /\ k < Pos(s.seq) /\ DataTop(s) <= edge /\ Top(s) <= H
  BY DEF Fresh
<1>2. Overruns(p, s) <=> Top(s) > k + p.wnd
  BY <1>1, OverrunsIs
<1>3. CASE ~Overruns(p, s)
  BY <1>3 DEF InWindow
<1>4. CASE Overruns(p, s)
  <2>1. /\ Pos(s.seq) \in Nat /\ s.seq = At(Pos(s.seq)) /\ s.seq \in Numbers /\ s.len \in Nat
        /\ DataTop(s) \in Nat /\ Top(s) = DataTop(s) + One(s.fin)
        /\ DataTop(s) = Pos(s.seq) + s.len
    <3>1. /\ Pos(s.seq) \in Nat /\ s.seq = At(Pos(s.seq)) /\ s.seq \in Numbers /\ s.len \in Nat
          /\ DataTop(s) \in Nat
      BY <1>1, PieceFacts
    <3> QED
      BY <3>1 DEF Top, DataTop
  <2>2. s.fin /\ DataTop(s) = k + p.wnd
    <3>1. One(s.fin) = IF s.fin THEN 1 ELSE 0
      BY DEF One
    <3> QED
      BY <1>1, <1>2, <1>4, <2>1, <3>1, Widths
  <2>3. m = s.len /\ s.len > 0
    <3>1. Plus(p.nxt, p.wnd) = At(DataTop(s))
      <4>1. k \in Int /\ p.wnd \in Int
        BY Widths
      <4> QED
        BY <2>2, <4>1, AtPlus
    <3>2. DataTop(s) - Pos(s.seq) = s.len
      BY <2>1
    <3>3. s.len \in Numbers
      <4>1. s.len <= Bytes + TCP_WND
        BY <2>1, <2>2, Widths
      <4> QED
        BY <2>1, <4>1, Widths DEF Numbers
    <3>4. Minus(At(DataTop(s)), At(Pos(s.seq))) = s.len
      <4> DEFINE d == DataTop(s)
                 b == Pos(s.seq)
      <4>1. d \in Int /\ b \in Int /\ d - b = s.len
        BY <2>1, <3>2
      <4> HIDE DEF d, b
      <4>2. d - b \in Numbers => Minus(At(d), At(b)) = d - b
        BY <4>1, AtMinus
      <4> QED
        BY <3>3, <4>1, <4>2 DEF d, b
    <3>5. s.len \in 0..(WndWidth - 1) /\ WndWidth \in Nat \ {0}
      BY <1>1, <2>1, <2>2, Widths
    <3>6. s.len % WndWidth = s.len
      BY <3>5, RemainderSame
    <3>7. s.len > 0
      BY <1>1, <2>1, <2>2
    <3> QED
      BY <2>1, <3>1, <3>4, <3>6, <3>7
  <2>4. y = Cut(z, s.len)
    BY <1>4, <2>3 DEF InWindow
  <2>5. z \in Segs /\ z.seq = s.seq /\ z.len = s.len /\ z.data = s.data /\ z.fin = FALSE
    BY <1>1 DEF Segs
  <2> HIDE DEF z, y, m
  <2>6. DataTop(z) = DataTop(s)
    BY <2>5 DEF DataTop
  <2>7. Piece(z, N, F)
    <3>1. DataTop(s) <= N /\ s.data = Run(Pos(s.seq), s.len)
      BY <1>1 DEF Piece
    <3> QED
      BY <2>3, <2>5, <2>6, <3>1 DEF Piece
  <2>8. /\ y \in Segs /\ Piece(y, N, F) /\ y.seq = z.seq /\ y.len = s.len /\ y.fin = FALSE
        /\ DataTop(y) = Pos(z.seq) + s.len
    BY <2>1, <2>3, <2>4, <2>5, <2>7, CutIs
  <2>9. DataTop(y) = DataTop(s) /\ Top(y) = DataTop(y)
    BY <2>1, <2>5, <2>8 DEF Top, One
  <2>10. DataTop(s) <= Top(s)
    BY <2>1 DEF One
  <2>11. Top(y) <= H
    BY <1>1, <2>1, <2>2, <2>9 DEF One
  <2> QED
    BY <1>1, <2>5, <2>8, <2>9, <2>11 DEF Fresh, y
<1> QED
  BY <1>3, <1>4

\* In the queue, what is behind a segment begins behind it.
LEMMA OosOrder ==
  ASSUME NEW q \in Seq(Segs), NEW nxt \in Nat, NEW edge \in Nat, NEW N \in 0..Bytes, NEW F,
         NEW H \in Nat, Oos(q, nxt, edge, N, F, H),
         NEW i \in 1..Len(q), NEW j \in 1..Len(q), i < j
  PROVE  Pos(q[i].seq) < Pos(q[j].seq) /\ DataTop(q[i]) <= Pos(q[j].seq)
<1>1. /\ q[i] \in Segs /\ Piece(q[i], N, F) /\ Pos(q[i].seq) \in Nat /\ DataTop(q[i]) \in Nat
      /\ Pos(q[j].seq) \in Nat
  BY OosFacts
<1>2. DataTop(q[i]) <= Pos(q[j].seq) /\ ~q[i].fin
  <2>1. i < Len(q)
    OBVIOUS
  <2> QED
    BY <2>1 DEF Oos
<1> DEFINE s == q[i]
<1> HIDE DEF s
<1>3. s \in Segs /\ Piece(s, N, F) /\ ~s.fin
  BY <1>1, <1>2 DEF s
<1>4. Pos(s.seq) < DataTop(s)
  BY <1>3, HasData
<1>5. Pos(q[i].seq) < DataTop(q[i])
  BY <1>4 DEF s
<1> HIDE DEF Oos
<1> QED
  BY <1>1, <1>2, <1>5

\* A segment is put into the queue before the i-th one.
LEMMA PutBefore ==
  ASSUME NEW q, NEW k \in Nat, NEW edge \in Nat, NEW N \in 0..Bytes, NEW F, NEW H \in Nat,
         Queued(q, k, edge, N, F, H), NEW s, Fresh(s, k, edge, N, F, H),
         NEW i \in 1..Len(q),
         \/ Pos(s.seq) < Pos(q[i].seq)
         \/ q[i].seq = s.seq /\ q[i].len < s.len,
         NEW a, Queued(a, k, edge, N, F, H), NoFin(a),
         \A j \in 1..Len(a) : DataTop(a[j]) <= Pos(s.seq)
  PROVE  Queued(a \o OosInsert(s, SubSeq(q, i, Len(q))), k, edge, N, F, H)
<1> DEFINE n == Len(q)
           next == SubSeq(q, i, n)
           b == OosInsert(s, next)
<1>1. q \in Seq(Segs) /\ Oos(q, k, edge, N, F, H) /\ n \in Nat
  BY DEF Queued
<1>2. s \in Segs /\ Piece(s, N, F) /\ k < Pos(s.seq) /\ DataTop(s) <= edge /\ Top(s) <= H
  BY DEF Fresh
<1>3. /\ next \in Seq(Segs) /\ Oos(next, k, edge, N, F, H) /\ Len(next) = n - (i - 1)
      /\ \A j \in 1..(n - (i - 1)) : next[j] = q[(i - 1) + j]
  <2> DEFINE h == i - 1
  <2>1. h \in 0..n /\ h + 1 = i
    BY <1>1
  <2> HIDE DEF h
  <2>2. next = SubSeq(q, h + 1, n)
    BY <2>1
  <2>3. SubSeq(q, h + 1, n) \in Seq(Segs) /\ Oos(SubSeq(q, h + 1, n), k, edge, N, F, H)
    BY <1>1, <2>1, OosRest
  <2>4. /\ Len(SubSeq(q, h + 1, n)) = n - h
        /\ \A j \in 1..(n - h) : SubSeq(q, h + 1, n)[j] = q[h + j]
    BY <1>1, <2>1, RestIs
  <2> QED
    BY <2>2, <2>3, <2>4 DEF h
<1>4. AllBehind(next, s)
  <2> SUFFICES ASSUME NEW j \in 1..Len(next)
               PROVE  \/ Pos(s.seq) < Pos(next[j].seq)
                      \/ j = 1 /\ next[j].seq = s.seq /\ next[j].len < s.len
    BY DEF AllBehind
  <2> DEFINE l == (i - 1) + j
  <2>1. l \in 1..n /\ next[j] = q[l] /\ (j = 1 => l = i) /\ (j # 1 => i < l)
    BY <1>1, <1>3
  <2> HIDE DEF l, next
  <2>2. CASE j = 1
    BY <2>1, <2>2
  <2>3. CASE j # 1
    <3>1. Pos(q[i].seq) < Pos(q[l].seq)
      BY <1>1, <2>1, <2>3, OosOrder
    <3>2. Pos(q[i].seq) \in Nat /\ Pos(q[l].seq) \in Nat
      BY <1>1, <2>1, OosFacts
    <3>3. Pos(s.seq) <= Pos(q[i].seq) /\ Pos(s.seq) \in Nat
      BY <1>2, <3>2, PieceFacts
    <3>4. Pos(s.seq) < Pos(q[l].seq)
      BY <3>1, <3>2, <3>3
    <3> QED
      BY <2>1, <3>4
  <2> QED
    BY <2>2, <2>3
<1> HIDE DEF next
<1>5. Inserted(b, s, k, edge, N, F, H)
  BY <1>2, <1>3, <1>4, OosInsertOK
<1> HIDE DEF b
<1>6. b \in Seq(Segs) /\ Oos(b, k, edge, N, F, H) /\ b # <<>> /\ b[1].seq = s.seq
  BY <1>5 DEF Inserted
<1>7. a \in Seq(Segs) /\ Oos(a, k, edge, N, F, H)
  BY DEF Queued
<1>8. a \o b \in Seq(Segs) /\ Oos(a \o b, k, edge, N, F, H)
  BY <1>6, <1>7, OosJoin
<1> QED
  BY <1>8 DEF Queued, b, next

\* Min of a set of numbers
LEMMA MinIs == ASSUME NEW T, T \subseteq Nat, T # {}
               PROVE  Min(T) \in T /\ \A j \in T : Min(T) <= j
<1>1. \E m \in T : \A k \in T : m <= k
  BY LeastElement
<1> QED
  BY <1>1 DEF Min

\* tcp_receive puts a segment among those out of sequence.
LEMMA OutOfSequenceOK ==
  ASSUME NoWrap, NEW p, NEW k \in 0..Bytes, p.nxt = At(k), p.wnd \in 0..TCP_WND,
         NEW N \in 0..Bytes, NEW F, NEW edge \in Nat, NEW H \in Nat, edge <= k + p.wnd,
         Queued(p.ooseq, k, edge, N, F, H), NEW s, Fresh(s, k, edge, N, F, H),
         Pos(s.seq) < k + p.wnd
  PROVE  Queued(OutOfSequence(p, s), k, edge, N, F, H)
<1> DEFINE q == p.ooseq
           n == Len(q)
           same == {i \in 1..n : q[i].seq = s.seq}
           before == {i \in 1..n : Lt(s.seq, q[i].seq)}
           i == IF same # {} THEN CHOOSE l \in same : TRUE
                ELSE IF before # {} THEN Min(before) ELSE n + 1
           o == OutOfSequence(p, s)
<1>1. q \in Seq(Segs) /\ Oos(q, k, edge, N, F, H) /\ n \in Nat /\ k \in Nat
  BY DEF Queued
<1>2. /\ s \in Segs /\ Piece(s, N, F) /\ k < Pos(s.seq) /\ DataTop(s) <= edge /\ Top(s) <= H
      /\ Pos(s.seq) \in Nat /\ Pos(s.seq) \in Positions /\ s.seq \in Numbers /\ s.len \in Nat
  BY PieceFacts DEF Fresh
<1>3. o = IF n = 0 THEN Single(s)
          ELSE IF same # {}
          THEN IF s.len > q[i].len
               THEN SubSeq(q, 1, i - 1) \o OosInsert(s, SubSeq(q, i, n)) ELSE q
          ELSE IF before # {}
          THEN Ending(SubSeq(q, 1, i - 1), s) \o OosInsert(s, SubSeq(q, i, n))
          ELSE IF Last(q).fin THEN q
          ELSE Append(Ending(q, s), InWindow(p, s))
  BY DEF OutOfSequence, Single
<1>4. \A l \in 1..n : /\ Lt(s.seq, q[l].seq) <=> Pos(s.seq) < Pos(q[l].seq)
                      /\ q[l].seq = s.seq <=> Pos(q[l].seq) = Pos(s.seq)
                      /\ Pos(q[l].seq) \in Nat /\ q[l].len \in Nat
  <2> SUFFICES ASSUME NEW l \in 1..n
               PROVE  /\ Lt(s.seq, q[l].seq) <=> Pos(s.seq) < Pos(q[l].seq)
                      /\ q[l].seq = s.seq <=> Pos(q[l].seq) = Pos(s.seq)
                      /\ Pos(q[l].seq) \in Nat /\ q[l].len \in Nat
    OBVIOUS
  <2> DEFINE t == q[l]
  <2>1. t \in Segs /\ Pos(t.seq) \in Nat /\ Pos(t.seq) \in Positions /\ t.seq \in Numbers
    BY <1>1, OosFacts
  <2> HIDE DEF t
  <2>2. t.len \in Nat
    BY <2>1 DEF Segs
  <2>3. /\ Lt(s.seq, t.seq) <=> Pos(s.seq) < Pos(t.seq)
        /\ t.seq = s.seq <=> Pos(t.seq) = Pos(s.seq)
    BY <1>2, <2>1, PosCompare
  <2> QED
    BY <2>1, <2>2, <2>3 DEF t
<1>5. \A l \in 1..n : /\ SubSeq(q, 1, l - 1) \in Seq(Segs) /\ Len(SubSeq(q, 1, l - 1)) = l - 1
                      /\ Oos(SubSeq(q, 1, l - 1), k, edge, N, F, H)
                      /\ NoFin(SubSeq(q, 1, l - 1))
                      /\ \A j \in 1..(l - 1) : SubSeq(q, 1, l - 1)[j] = q[j]
  <2> SUFFICES ASSUME NEW l \in 1..n
               PROVE  /\ SubSeq(q, 1, l - 1) \in Seq(Segs) /\ Len(SubSeq(q, 1, l - 1)) = l - 1
                      /\ Oos(SubSeq(q, 1, l - 1), k, edge, N, F, H)
                      /\ NoFin(SubSeq(q, 1, l - 1))
                      /\ \A j \in 1..(l - 1) : SubSeq(q, 1, l - 1)[j] = q[j]
    OBVIOUS
  <2> DEFINE h == l - 1
  <2>1. h \in 0..n /\ h < n
    BY <1>1
  <2> HIDE DEF h
  <2>2. SubSeq(q, 1, h) \in Seq(Segs) /\ Oos(SubSeq(q, 1, h), k, edge, N, F, H)
    BY <1>1, <2>1, OosTake
  <2>3. NoFin(SubSeq(q, 1, h))
    BY <1>1, <2>1, OosTake
  <2>4. Len(SubSeq(q, 1, h)) = h /\ \A j \in 1..h : SubSeq(q, 1, h)[j] = q[j]
    BY <1>1, <2>1, TakeIs
  <2> QED
    BY <2>2, <2>3, <2>4 DEF h
<1> HIDE DEF o
<1>6. CASE n = 0
  <2>1. Single(s) \in Seq(Segs) /\ Oos(Single(s), k, edge, N, F, H)
    BY <1>1, <1>2, OosOne
  <2> QED
    BY <1>3, <1>6, <2>1 DEF Queued, o
<1>7. CASE n # 0 /\ same # {}
  <2>1. i \in 1..n /\ q[i].seq = s.seq
    BY <1>7
  <2> HIDE DEF i
  <2>2. CASE s.len > q[i].len
    <3> DEFINE a == SubSeq(q, 1, i - 1)
    <3>1. a \in Seq(Segs) /\ Len(a) = i - 1 /\ Oos(a, k, edge, N, F, H) /\ NoFin(a)
      BY <1>5, <2>1
    <3>2. \A j \in 1..(i - 1) : a[j] = q[j] /\ j \in 1..n /\ j < i
      BY <1>1, <1>5, <2>1
    <3>3. \A j \in 1..Len(a) : DataTop(a[j]) <= Pos(s.seq)
      <4> SUFFICES ASSUME NEW j \in 1..(i - 1) PROVE DataTop(a[j]) <= Pos(s.seq)
        BY <3>1
      <4>1. a[j] = q[j] /\ j \in 1..n /\ j < i
        BY <3>2
      <4> HIDE DEF a
      <4>2. DataTop(q[j]) <= Pos(q[i].seq)
        BY <1>1, <2>1, <4>1, OosOrder
      <4> QED
        BY <2>1, <4>1, <4>2
    <3>4. Queued(a, k, edge, N, F, H)
      BY <3>1 DEF Queued
    <3>5. q[i].len < s.len /\ q[i].len \in Nat
      BY <1>2, <1>4, <2>1, <2>2
    <3> HIDE DEF a
    <3>6. Queued(a \o OosInsert(s, SubSeq(q, i, Len(q))), k, edge, N, F, H)
      BY <1>1, <2>1, <3>1, <3>3, <3>4, <3>5, PutBefore
    <3>7. o = a \o OosInsert(s, SubSeq(q, i, n))
      BY <1>3, <1>7, <2>2 DEF a
    <3> QED
      BY <3>6, <3>7 DEF o
  <2>3. CASE ~(s.len > q[i].len)
    <3>1. o = q
      BY <1>3, <1>7, <2>3
    <3> QED
      BY <3>1 DEF o
  <2> QED
    BY <2>2, <2>3
<1>8. CASE n # 0 /\ same = {} /\ before # {}
  <2>1. i = Min(before) /\ before \subseteq Nat
    BY <1>8
  <2>2. i \in before /\ \A j \in before : i <= j
    <3> HIDE DEF i, before
    <3> QED
      BY <1>8, <2>1, MinIs
  <2>3. i \in 1..n /\ Lt(s.seq, q[i].seq)
    BY <2>2
  <2>4. \A j \in 1..n : j < i => Pos(q[j].seq) < Pos(s.seq)
    <3> SUFFICES ASSUME NEW j \in 1..n, j < i PROVE Pos(q[j].seq) < Pos(s.seq)
      OBVIOUS
    <3>1. j \notin before
      <4> HIDE DEF i, before, n
      <4> QED
        BY <1>1, <2>2, <2>3
    <3>2. ~Lt(s.seq, q[j].seq) /\ q[j].seq # s.seq
      BY <1>8, <3>1
    <3> HIDE DEF same, before, i
    <3> QED
      BY <1>2, <1>4, <3>2
  <2> HIDE DEF i, before, same
  <2> DEFINE a == SubSeq(q, 1, i - 1)
             e == Ending(a, s)
  <2>5. a \in Seq(Segs) /\ Len(a) = i - 1 /\ Oos(a, k, edge, N, F, H) /\ NoFin(a)
    BY <1>5, <2>3
  <2>6. \A j \in 1..Len(a) : Pos(a[j].seq) < Pos(s.seq)
    <3> SUFFICES ASSUME NEW j \in 1..(i - 1) PROVE Pos(a[j].seq) < Pos(s.seq)
      BY <2>5
    <3>1. a[j] = q[j] /\ j \in 1..n /\ j < i
      BY <1>1, <1>5, <2>3
    <3> QED
      BY <2>4, <3>1
  <2> HIDE DEF a
  <2>7. /\ e \in Seq(Segs) /\ Oos(e, k, edge, N, F, H) /\ NoFin(e)
        /\ \A j \in 1..Len(e) : DataTop(e[j]) <= Pos(s.seq)
    BY <1>1, <1>2, <2>5, <2>6, EndingOK
  <2> HIDE DEF e
  <2>8. Queued(e, k, edge, N, F, H)
    BY <2>7 DEF Queued
  <2>9. Pos(s.seq) < Pos(q[i].seq)
    BY <1>4, <2>3
  <2>10. Queued(e \o OosInsert(s, SubSeq(q, i, Len(q))), k, edge, N, F, H)
    BY <1>1, <2>3, <2>7, <2>8, <2>9, PutBefore
  <2>11. o = e \o OosInsert(s, SubSeq(q, i, n))
    BY <1>3, <1>8 DEF e, a
  <2> QED
    BY <2>10, <2>11 DEF o
<1>9. CASE n # 0 /\ same = {} /\ before = {}
  <2>1. CASE Last(q).fin
    <3>1. o = q
      BY <1>3, <1>9, <2>1
    <3> QED
      BY <3>1 DEF o
  <2>2. CASE ~Last(q).fin
    <3> DEFINE e == Ending(q, s)
               y == InWindow(p, s)
    <3>1. o = Append(e, y)
      BY <1>3, <1>9, <2>2
    <3>2. NoFin(q)
      <4>1. ~q[n].fin
        BY <2>2 DEF Last
      <4>2. \A j \in 1..n : j < n => ~q[j].fin
        BY <1>1 DEF Oos
      <4>3. \A j \in 1..n : j < n \/ j = n
        BY <1>1
      <4> HIDE DEF q
      <4> QED
        BY <4>1, <4>2, <4>3 DEF NoFin
    <3>3. \A j \in 1..n : Pos(q[j].seq) < Pos(s.seq)
      <4> SUFFICES ASSUME NEW j \in 1..n PROVE Pos(q[j].seq) < Pos(s.seq)
        OBVIOUS
      <4>1. ~Lt(s.seq, q[j].seq) /\ q[j].seq # s.seq
        BY <1>9
      <4> HIDE DEF same, before
      <4> QED
        BY <1>2, <1>4, <4>1
    <3>4. /\ e \in Seq(Segs) /\ Oos(e, k, edge, N, F, H) /\ NoFin(e)
          /\ \A j \in 1..Len(e) : DataTop(e[j]) <= Pos(s.seq)
      BY <1>1, <1>2, <3>2, <3>3, EndingOK
    <3>5. Fresh(y, k, edge, N, F, H) /\ y.seq = s.seq
      BY InWindowOK
    <3> HIDE DEF e, y
    <3>6. y \in Segs /\ Piece(y, N, F) /\ k < Pos(y.seq) /\ DataTop(y) <= edge /\ Top(y) <= H
      BY <3>5 DEF Fresh
    <3> DEFINE b == Single(y)
    <3>7. b \in Seq(Segs) /\ Oos(b, k, edge, N, F, H) /\ b # <<>> /\ b[1] = y
      BY <1>1, <3>6, OosOne
    <3>8. Append(e, y) = e \o b
      BY <3>4, <3>6 DEF Single
    <3> HIDE DEF b
    <3>9. \A j \in 1..Len(e) : DataTop(e[j]) <= Pos(b[1].seq)
      BY <3>4, <3>5, <3>7
    <3>10. e \o b \in Seq(Segs) /\ Oos(e \o b, k, edge, N, F, H)
      BY <1>1, <3>4, <3>7, <3>9, OosJoin
    <3> QED
      BY <3>1, <3>8, <3>10 DEF Queued, o
  <2> QED
    BY <2>1, <2>2
<1> QED
  BY <1>6, <1>7, <1>8, <1>9 DEF o

(* What comes in in sequence.                                              *)
LEMMA InsideIs ==
  ASSUME NEW p, NEW k \in 0..Bytes, p.nxt = At(k), p.wnd \in 0..TCP_WND,
         NEW a \in Numbers, Pos(a) \in Positions
  PROVE  Inside(p, a) <=> k <= Pos(a) /\ Pos(a) < k + p.wnd
<1>1. /\ k \in Int /\ p.wnd - 1 \in Int /\ k \in Positions /\ k + (p.wnd - 1) \in Positions
      /\ Pos(a) \in Int /\ p.wnd \in Int
  BY Widths DEF Positions
<1>2. Plus(p.nxt, p.wnd - 1) = At(k + (p.wnd - 1))
  BY <1>1, AtPlus
<1>3. a = At(Pos(a))
  BY AtPos
<1>4. Leq(p.nxt, a) <=> k <= Pos(a)
  BY <1>1, <1>3, Compare
<1>5. Leq(a, Plus(p.nxt, p.wnd - 1)) <=> Pos(a) <= k + (p.wnd - 1)
  <2> DEFINE x == Pos(a)
             y == k + (p.wnd - 1)
  <2>1. x \in Positions /\ y \in Positions
    BY <1>1
  <2> HIDE DEF x, y
  <2>2. Leq(At(x), At(y)) <=> x <= y
    BY <2>1, Compare
  <2> QED
    BY <1>2, <1>3, <2>2 DEF x, y
<1>6. Inside(p, a) <=> k <= Pos(a) /\ Pos(a) <= k + (p.wnd - 1)
  BY <1>4, <1>5 DEF Inside, Between
<1>7. Pos(a) <= k + (p.wnd - 1) <=> Pos(a) < k + p.wnd
  BY <1>1
<1> QED
  BY <1>6, <1>7

\* What is before rcv_nxt is cut off; where the segment ends stays.
EdgeCut(y, s, k, N, F) ==
  /\ y \in Segs /\ Piece(y, N, F) /\ Top(y) = Top(s) /\ DataTop(y) = DataTop(s)
  /\ y = s \/ y.seq = At(k)

\* What tcp_receive cuts off in front was received before.
LEMMA FirstEdgeOK ==
  ASSUME NEW p, NEW k \in 0..Bytes, p.nxt = At(k),
         NEW s \in Segs, NEW N \in 0..Bytes, NEW F, Piece(s, N, F)
  PROVE  EdgeCut(FirstEdge(p, s), s, k, N, F)
<1> DEFINE off == Minus(p.nxt, s.seq)
           y == FirstEdge(p, s)
           z == [s EXCEPT !.seq = p.nxt, !.len = s.len - off,
                          !.data = SubSeq(s.data, off + 1, s.len)]
           c == Pos(s.seq)
           g == TcpLen(s)
<1>1. /\ c \in Nat /\ s.seq = At(c) /\ s.seq \in Numbers /\ s.len \in Nat
      /\ s.fin \in BOOLEAN /\ g = s.len + One(s.fin) /\ g > 0 /\ g \in Nat
      /\ Top(s) = c + g /\ DataTop(s) = c + s.len /\ Top(s) \in Positions
      /\ c \in Positions /\ Top(s) <= N + One(F)
  BY PieceFacts DEF DataTop
<1>2. y = IF Between(p.nxt, Plus(s.seq, 1), Plus(s.seq, g - 1)) THEN z ELSE s
  BY DEF FirstEdge
<1>3. One(s.fin) \in 0..1 /\ One(F) \in 0..1
  BY DEF One
<1> HIDE DEF c, g, y, off
<1>4. Between(p.nxt, Plus(s.seq, 1), Plus(s.seq, g - 1)) <=> c + 1 <= k /\ k <= c + (g - 1)
  <2>1. Plus(s.seq, 1) = At(c + 1) /\ Plus(s.seq, g - 1) = At(c + (g - 1))
    <3> DEFINE h == g - 1
    <3>1. c \in Int /\ h \in Int /\ 1 \in Int
      BY <1>1
    <3> HIDE DEF h
    <3>2. Plus(At(c), 1) = At(c + 1)
      BY <3>1, AtPlus
    <3>3. Plus(At(c), h) = At(c + h)
      BY <3>1, AtPlus
    <3> QED
      BY <1>1, <3>2, <3>3 DEF h
  <2>2. c + 1 \in Positions /\ c + (g - 1) \in Positions /\ k \in Positions
    BY <1>1, <1>3, Widths DEF Positions
  <2>3. Leq(At(c + 1), At(k)) <=> c + 1 <= k
    BY <2>2, Compare
  <2>4. Leq(At(k), At(c + (g - 1))) <=> k <= c + (g - 1)
    BY <2>2, Compare
  <2> QED
    BY <2>1, <2>3, <2>4 DEF Between
<1>5. CASE ~(c + 1 <= k /\ k <= c + (g - 1))
  <2>1. y = s
    BY <1>2, <1>4, <1>5
  <2> QED
    BY <2>1 DEF EdgeCut, y
<1>6. CASE c + 1 <= k /\ k <= c + (g - 1)
  <2>1. y = z
    BY <1>2, <1>4, <1>6
  <2>2. p.nxt \in Numbers /\ Pos(p.nxt) = k
    <3>1. k \in Nat /\ k <= Bytes + TCP_WND
      BY Widths
    <3> QED
      BY <3>1, PosOf
  <2>3. off = k - c /\ off \in Nat /\ off > 0
    <3>1. Pos(s.seq) <= Pos(p.nxt)
      BY <1>1, <1>6, <2>2 DEF c
    <3>2. off = Pos(p.nxt) - Pos(s.seq)
      BY <1>1, <2>2, <3>1, PosMinus DEF off
    <3> QED
      BY <1>1, <1>6, <2>2, <3>2 DEF c
  <2>4. off <= s.len /\ (~s.fin => off < s.len)
    <3>1. ~s.fin => One(s.fin) = 0
      BY DEF One
    <3> QED
      BY <1>1, <1>3, <1>6, <2>3, <3>1
  <2>5. s.data = Run(c, s.len) /\ s.data \in Seq(Nat) /\ (s.fin => F /\ DataTop(s) = N)
        /\ DataTop(s) <= N
    BY DEF Piece, Segs, c
  <2>6. SubSeq(s.data, off + 1, s.len) = Run(k, s.len - off)
    <3>1. off \in 0..s.len
      BY <1>1, <2>3, <2>4
    <3>2. SubSeq(Run(c, s.len), off + 1, s.len) = Run(c + off, s.len - off)
      BY <1>1, <3>1, RunRest
    <3>3. c + off = k
      BY <1>1, <2>3
    <3> QED
      BY <2>5, <3>2, <3>3
  <2> DEFINE len == s.len - off
             data == Run(k, len)
  <2>7. len \in Nat /\ k + len = c + s.len /\ (~s.fin => len > 0)
    BY <1>1, <2>3, <2>4
  <2>8. data \in Seq(Nat)
    <3>1. k \in Nat
      OBVIOUS
    <3> HIDE DEF len
    <3> QED
      BY <2>7, <3>1, RunIs
  <2>9. /\ z \in Segs /\ z.seq = p.nxt /\ z.len = len /\ z.data = data /\ z.fin = s.fin
    <3> HIDE DEF len
    <3>1. z = [s EXCEPT !.seq = p.nxt, !.len = len, !.data = data]
      BY <2>6 DEF len
    <3> HIDE DEF data, z
    <3> QED
      BY <2>2, <2>7, <2>8, <3>1 DEF Segs
  <2> HIDE DEF z, len
  <2>10. DataTop(z) = DataTop(s)
    BY <1>1, <2>2, <2>7, <2>9 DEF DataTop
  <2>11. Top(z) = Top(s)
    BY <2>9, <2>10 DEF Top
  <2>12. Piece(z, N, F)
    BY <2>2, <2>5, <2>7, <2>9, <2>10 DEF Piece
  <2> QED
    BY <2>1, <2>9, <2>10, <2>11, <2>12 DEF EdgeCut, y
<1> QED
  BY <1>5, <1>6

\* The segment that is next in sequence, as long as the window and what is queued let it
\* be, and the rest of the queue
InPlace(y, rest, k, w, edge, N, F, H) ==
  /\ y \in Segs /\ Piece(y, N, F) /\ Pos(y.seq) = k /\ DataTop(y) <= k + w /\ Top(y) <= H
  /\ Queued(rest, k, edge, N, F, H)
  /\ rest # <<>> => ~y.fin /\ DataTop(y) <= Pos(rest[1].seq)

\* What it cuts off behind is beyond the window, or queued already.
LEMMA TrimmedOK ==
  ASSUME NEW p, NEW k \in 0..Bytes, p.nxt = At(k), p.wnd \in 1..TCP_WND,
         NEW s \in Segs, NEW N \in 0..Bytes, NEW F, Piece(s, N, F), Pos(s.seq) = k,
         NEW edge \in Nat, NEW H \in Nat, Top(s) <= H, Queued(p.ooseq, k, edge, N, F, H)
  PROVE  LET t == Trimmed(p, s)
         IN InPlace(t.seg, t.ooseq, k, p.wnd, edge, N, F, H)
<1> DEFINE c == [s EXCEPT !.fin = FALSE]
           t == IF TcpLen(s) > p.wnd THEN Cut(c, p.wnd) ELSE s
           q == p.ooseq
           covered == {i \in DOMAIN q : Leq(Plus(q[i].seq, q[i].len), End(t))}
           gone == Prefix(q, covered)
           rest == Rest(q, gone)
           whole == [t EXCEPT !.fin = \E u \in ToSet(gone) : u.fin]
           y == IF rest # <<>> /\ Lt(Head(rest).seq, End(whole))
                THEN Cut(whole, Minus(Head(rest).seq, s.seq)) ELSE whole
<1>1. /\ s.len \in Nat /\ TcpLen(s) = s.len + One(s.fin) /\ DataTop(s) = k + s.len
      /\ Top(s) = k + TcpLen(s) /\ DataTop(s) <= Top(s)
  BY PieceFacts DEF DataTop
<1>2. One(s.fin) \in 0..1 /\ p.wnd \in Nat /\ p.wnd > 0 /\ k \in Nat
  BY DEF One
<1>3. /\ t \in Segs /\ Piece(t, N, F) /\ t.seq = s.seq /\ DataTop(t) <= k + p.wnd /\ Top(t) <= H
  <2>1. CASE TcpLen(s) > p.wnd
    <3>1. t = Cut(c, p.wnd) /\ p.wnd <= s.len
      BY <1>1, <1>2, <2>1
    <3>2. c \in Segs /\ c.seq = s.seq /\ c.len = s.len /\ c.data = s.data /\ c.fin = FALSE
      BY DEF Segs
    <3> HIDE DEF c, t
    <3>3. DataTop(c) = DataTop(s)
      BY <3>2 DEF DataTop
    <3>4. Piece(c, N, F)
      <4>1. DataTop(s) <= N /\ s.data = Run(Pos(s.seq), s.len)
        BY DEF Piece
      <4>2. c.len > 0
        BY <1>1, <1>2, <3>1, <3>2
      <4> QED
        BY <3>2, <3>3, <4>1, <4>2 DEF Piece
    <3>5. /\ t \in Segs /\ Piece(t, N, F) /\ t.seq = c.seq /\ t.len = p.wnd /\ t.fin = c.fin
          /\ DataTop(t) = Pos(c.seq) + p.wnd
      BY <1>2, <3>1, <3>2, <3>4, CutIs
    <3>6. Top(t) = DataTop(t)
      BY <1>2, <3>2, <3>5 DEF Top, One
    <3>7. Top(t) <= Top(s)
      BY <1>1, <1>2, <3>1, <3>2, <3>5, <3>6
    <3>8. Top(s) \in Nat /\ Top(t) \in Nat /\ Top(t) <= H
      BY <1>1, <1>2, <3>2, <3>5, <3>6, <3>7
    <3> QED
      BY <1>2, <3>2, <3>5, <3>8 DEF t
  <2>2. CASE ~(TcpLen(s) > p.wnd)
    <3>1. t = s
      BY <2>2
    <3> HIDE DEF t
    <3>2. DataTop(s) <= k + p.wnd
      BY <1>1, <1>2, <2>2
    <3> QED
      BY <3>1, <3>2 DEF t
  <2> QED
    BY <2>1, <2>2
<1>4. Trimmed(p, s) = IF t.fin THEN [seg |-> t, ooseq |-> <<>>] ELSE [seg |-> y, ooseq |-> rest]
  BY DEF Trimmed
<1> HIDE DEF t
<1>5. CASE t.fin
  <2>1. <<>> \in Seq(Segs) /\ Oos(<<>>, k, edge, N, F, H)
    BY DEF Oos
  <2>2. InPlace(t, <<>>, k, p.wnd, edge, N, F, H)
    BY <1>3, <2>1 DEF InPlace, Queued
  <2> QED
    BY <1>4, <1>5, <2>2
<1>6. CASE ~t.fin
  <2>1. q \in Seq(Segs) /\ Oos(q, k, edge, N, F, H)
    BY DEF Queued
  <2>2. End(t) = At(DataTop(t)) /\ DataTop(t) \in Positions /\ DataTop(t) \in Nat
    <3>1. End(t) = At(Top(t)) /\ DataTop(t) \in Positions /\ DataTop(t) \in Nat
      BY <1>3, PieceFacts
    <3>2. Top(t) = DataTop(t)
      BY <1>3, <1>6, HasData
    <3> QED
      BY <3>1, <3>2
  <2>3. Under(q, covered, DataTop(t))
    BY <1>2, <2>1, <2>2, UnderIs
  <2>4. AllBehind(q, t)
    BY <1>3, <2>1 DEF Oos, AllBehind
  <2> HIDE DEF q, covered
  <2>5. Merged(t, whole, rest, k, edge, N, F, H)
    BY <1>2, <1>3, <1>6, <2>1, <2>3, <2>4, Merge
  <2> HIDE DEF rest, whole
  <2>6. /\ whole \in Segs /\ Piece(whole, N, F) /\ whole.seq = t.seq /\ whole.len = t.len
        /\ rest \in Seq(Segs) /\ Oos(rest, k, edge, N, F, H)
        /\ rest # <<>> => ~whole.fin
    BY <2>5 DEF Merged
  <2>7. rest # <<>> => End(whole) = At(DataTop(t))
    <3>1. DataTop(whole) = DataTop(t)
      BY <2>6 DEF DataTop
    <3>2. End(whole) = At(Top(whole))
      BY <2>6, PieceFacts
    <3>3. rest # <<>> => Top(whole) = DataTop(whole)
      BY <2>6, HasData
    <3> QED
      BY <3>1, <3>2, <3>3
  <2>8. Fitted(y, t, rest, N, F, H)
    <3> DEFINE E == End(whole)
    <3>1. rest # <<>> => E = At(DataTop(t))
      BY <2>7
    <3>2. y = IF rest # <<>> /\ Lt(Head(rest).seq, E)
              THEN Cut(whole, Minus(Head(rest).seq, t.seq)) ELSE whole
      BY <1>3
    <3> HIDE DEF E, y
    <3> QED
      BY <1>2, <1>3, <2>5, <3>1, <3>2, MergeCut
  <2> HIDE DEF y
  <2>9. /\ y \in Segs /\ Piece(y, N, F) /\ Top(y) <= H /\ y.seq = t.seq
        /\ DataTop(y) <= DataTop(t)
        /\ rest # <<>> => ~y.fin /\ DataTop(y) <= Pos(rest[1].seq)
    BY <2>8 DEF Fitted
  <2>10. DataTop(y) <= k + p.wnd
    <3>1. DataTop(y) \in Nat
      BY <2>9, PieceFacts
    <3> QED
      BY <1>2, <1>3, <2>2, <2>9, <3>1
  <2>11. InPlace(y, rest, k, p.wnd, edge, N, F, H)
    BY <1>3, <2>6, <2>9, <2>10 DEF InPlace, Queued
  <2> QED
    BY <1>4, <1>6, <2>11
<1> QED
  BY <1>5, <1>6

\* Segments that follow each other from position k on; the queue r is what is behind them.
InRow(all, r, y, k, w, edge, N, F, H) ==
  /\ all \in Seq(Segs) /\ all # <<>> /\ all[1] = y
  /\ \A i \in 1..Len(all) : /\ Piece(all[i], N, F) /\ k <= Pos(all[i].seq)
                            /\ DataTop(all[i]) <= k + w /\ Top(all[i]) <= H
  /\ \A i \in 2..Len(all) : Pos(all[i].seq) = Top(all[i - 1])
  /\ \A i \in 1..(Len(all) - 1) : ~all[i].fin
  /\ Queued(r, Top(all[Len(all)]), edge, N, F, H)
  /\ all[Len(all)].fin => r = <<>>

\* What of the queue is in sequence behind y
LEMMA FollowingOK ==
  ASSUME NEW y, NEW q, NEW k \in 0..Bytes, NEW w \in 0..TCP_WND, NEW edge \in Nat,
         NEW N \in 0..Bytes, NEW F, NEW H \in Nat, edge <= k + w,
         InPlace(y, q, k, w, edge, N, F, H)
  PROVE  LET f == Following(y, q)
             all == <<y>> \o f
         IN InRow(all, Rest(q, Tail(all)), y, k, w, edge, N, F, H)
<1> DEFINE G == {i \in DOMAIN q : q[i].seq = End(IF i = 1 THEN y ELSE q[i - 1])}
           f == Following(y, q)
           all == Single(y) \o f
           n == Len(q)
           r == Rest(q, f)
<1>1. /\ y \in Segs /\ Piece(y, N, F) /\ Pos(y.seq) = k /\ DataTop(y) <= k + w /\ Top(y) <= H
      /\ q \in Seq(Segs) /\ Oos(q, k, edge, N, F, H) /\ n \in Nat /\ k \in Nat
      /\ q # <<>> => ~y.fin /\ DataTop(y) <= Pos(q[1].seq)
  BY DEF InPlace, Queued
<1>2. PICK j \in 0..n : /\ f = SubSeq(q, 1, j) /\ r = SubSeq(q, j + 1, n)
                        /\ \A i \in 1..j : i \in G
                        /\ j < n => j + 1 \notin G
  <2>1. f = Prefix(q, G)
    BY DEF Following
  <2> HIDE DEF G, f
  <2> QED
    BY <1>1, <2>1, PrefixIs
<1>3. f \in Seq(Segs) /\ Len(f) = j /\ \A i \in 1..j : f[i] = q[i]
  BY <1>1, <1>2, TakeIs
<1>4. r \in Seq(Segs) /\ Len(r) = n - j /\ (\A i \in 1..(n - j) : r[i] = q[j + i])
      /\ Oos(r, k, edge, N, F, H)
  <2> DEFINE x == SubSeq(q, j + 1, n)
  <2>1. x \in Seq(Segs) /\ Len(x) = n - j /\ \A i \in 1..(n - j) : x[i] = q[j + i]
    BY <1>1, RestIs
  <2>2. Oos(x, k, edge, N, F, H)
    BY <1>1, OosRest
  <2> HIDE DEF x
  <2>3. r = x
    BY <1>2 DEF x
  <2> HIDE DEF r, n
  <2> QED
    BY <2>1, <2>2, <2>3
<1> HIDE DEF f, r
<1>5. Single(y) \in Seq(Segs) /\ Len(Single(y)) = 1 /\ Single(y)[1] = y
  BY <1>1 DEF Single
<1>6. /\ all \in Seq(Segs) /\ Len(all) = 1 + j /\ all # <<>> /\ all[1] = y
      /\ \A i \in 1..j : all[1 + i] = q[i]
  <2> DEFINE a == Single(y)
  <2>1. a \in Seq(Segs) /\ Len(a) = 1 /\ a[1] = y
    BY <1>5
  <2> HIDE DEF a
  <2>2. /\ a \o f \in Seq(Segs) /\ Len(a \o f) = Len(a) + Len(f)
        /\ \A i \in 1..Len(a) : (a \o f)[i] = a[i]
        /\ \A i \in 1..Len(f) : (a \o f)[Len(a) + i] = f[i]
        /\ a \o f = <<>> <=> a = <<>> /\ f = <<>>
    BY <1>3, <2>1, Behind
  <2>3. a # <<>>
    BY <2>1
  <2>4. all = a \o f
    BY DEF a
  <2> HIDE DEF all
  <2>5. /\ all \in Seq(Segs) /\ Len(all) = 1 + j /\ all # <<>>
        /\ \A i \in 1..j : all[1 + i] = f[i]
    BY <1>3, <2>1, <2>2, <2>3, <2>4
  <2>6. all[1] = y
    BY <2>1, <2>2, <2>4
  <2> QED
    BY <1>3, <2>5, <2>6
<1>7. Tail(all) = f
  BY <1>3 DEF Single
<1> HIDE DEF all
<1>8. \A i \in 1..n : q[i] \in Segs /\ Piece(q[i], N, F) /\ k < Pos(q[i].seq)
                      /\ DataTop(q[i]) <= k + w /\ Top(q[i]) <= H
  <2> SUFFICES ASSUME NEW i \in 1..n
               PROVE  q[i] \in Segs /\ Piece(q[i], N, F) /\ k < Pos(q[i].seq)
                      /\ DataTop(q[i]) <= k + w /\ Top(q[i]) <= H
    OBVIOUS
  <2>1. /\ q[i] \in Segs /\ Piece(q[i], N, F) /\ k < Pos(q[i].seq)
        /\ DataTop(q[i]) <= edge /\ Top(q[i]) <= H /\ DataTop(q[i]) \in Nat
    BY <1>1, OosFacts
  <2>2. k + w \in Nat
    BY Widths
  <2> QED
    BY <2>1, <2>2
\* Each element of the row is y or an element of the queue.
<1>9. \A i \in 1..(1 + j) : \/ i = 1 /\ all[i] = y
                            \/ i - 1 \in 1..j /\ i - 1 \in 1..n /\ all[i] = q[i - 1]
  <2> SUFFICES ASSUME NEW i \in 1..(1 + j)
               PROVE  \/ i = 1 /\ all[i] = y
                      \/ i - 1 \in 1..j /\ i - 1 \in 1..n /\ all[i] = q[i - 1]
    OBVIOUS
  <2>1. CASE i = 1
    <3>1. all[1] = y
      BY <1>6
    <3> QED
      BY <2>1, <3>1
  <2>2. CASE i # 1
    <3> DEFINE h == i - 1
    <3>1. h \in 1..j /\ h \in 1..n /\ i = 1 + h
      BY <1>1, <2>2
    <3> HIDE DEF h
    <3>2. all[1 + h] = q[h]
      BY <1>6, <3>1
    <3> QED
      BY <3>1, <3>2 DEF h
  <2> QED
    BY <2>1, <2>2
<1>10. \A i \in 1..(1 + j) : /\ Piece(all[i], N, F) /\ k <= Pos(all[i].seq)
                             /\ DataTop(all[i]) <= k + w /\ Top(all[i]) <= H
                             /\ all[i] \in Segs
  <2> SUFFICES ASSUME NEW i \in 1..(1 + j)
               PROVE  /\ Piece(all[i], N, F) /\ k <= Pos(all[i].seq)
                      /\ DataTop(all[i]) <= k + w /\ Top(all[i]) <= H
                      /\ all[i] \in Segs
    OBVIOUS
  <2>1. CASE all[i] = y
    BY <1>1, <2>1
  <2>2. CASE i - 1 \in 1..n /\ all[i] = q[i - 1]
    <3> DEFINE s == q[i - 1]
    <3>1. s \in Segs /\ Piece(s, N, F) /\ k < Pos(s.seq) /\ DataTop(s) <= k + w /\ Top(s) <= H
      BY <1>8, <2>2
    <3>2. all[i] = s
      BY <2>2
    <3> HIDE DEF s
    <3>3. Pos(s.seq) \in Nat
      BY <3>1, PieceFacts
    <3> QED
      BY <1>1, <3>1, <3>2, <3>3
  <2> QED
    BY <1>9, <2>1, <2>2
<1>11. \A i \in 1..j : all[1 + i] = q[i] /\ q[i].seq = End(all[i])
  <2> SUFFICES ASSUME NEW i \in 1..j PROVE q[i].seq = End(all[i])
    BY <1>6
  <2>1. q[i].seq = End(IF i = 1 THEN y ELSE q[i - 1])
    BY <1>2
  <2>2. i \in 1..(1 + j)
    BY <1>1
  <2>3. all[i] = IF i = 1 THEN y ELSE q[i - 1]
    BY <1>9, <2>2
  <2> QED
    BY <2>1, <2>3
<1>12. \A i \in 1..(1 + j) : Pos(End(all[i])) = Top(all[i])
  BY <1>10, PieceFacts
<1>13. \A i \in 2..(1 + j) : Pos(all[i].seq) = Top(all[i - 1])
  <2> SUFFICES ASSUME NEW i \in 2..(1 + j) PROVE Pos(all[i].seq) = Top(all[i - 1])
    OBVIOUS
  <2> DEFINE h == i - 1
  <2>1. h \in 1..j /\ h \in 1..(1 + j) /\ i = 1 + h
    BY <1>1
  <2> HIDE DEF h
  <2>2. Pos(all[1 + h].seq) = Top(all[h])
    BY <1>11, <1>12, <2>1
  <2> QED
    BY <2>1, <2>2 DEF h
<1>14. \A i \in 1..j : ~all[i].fin
  <2> SUFFICES ASSUME NEW i \in 1..j PROVE ~all[i].fin
    OBVIOUS
  <2>1. i \in 1..(1 + j)
    BY <1>1
  <2>2. CASE i = 1 /\ all[i] = y
    <3>1. q # <<>>
      BY <1>1
    <3> QED
      BY <1>1, <2>2, <3>1
  <2>3. CASE i - 1 \in 1..n /\ all[i] = q[i - 1]
    <3>1. i - 1 < n
      BY <1>1
    <3> QED
      BY <1>1, <2>3, <3>1 DEF Oos
  <2> QED
    BY <1>9, <2>1, <2>2, <2>3
<1> DEFINE l == all[1 + j]
<1>15. 1 + j \in 1..(1 + j)
  BY <1>1
<1>16. l \in Segs /\ Piece(l, N, F) /\ DataTop(l) \in Nat /\ Top(l) \in Nat /\ End(l) = At(Top(l))
       /\ Top(l) \in Positions
  <2>1. l \in Segs /\ Piece(l, N, F)
    BY <1>10, <1>15
  <2> HIDE DEF l
  <2> QED
    BY <2>1, PieceFacts
<1>20. ASSUME Queued(r, Top(l), edge, N, F, H), l.fin => r = <<>>
       PROVE  InRow(<<y>> \o f, Rest(q, Tail(<<y>> \o f)), y, k, w, edge, N, F, H)
  <2>1. 1 + j = Len(all) /\ j = Len(all) - 1
    BY <1>1, <1>6
  <2>2. Queued(r, Top(all[Len(all)]), edge, N, F, H) /\ (all[Len(all)].fin => r = <<>>)
    BY <1>20, <2>1
  <2>3. InRow(all, r, y, k, w, edge, N, F, H)
    BY <1>6, <1>10, <1>13, <1>14, <2>1, <2>2 DEF InRow
  <2>4. r = Rest(q, Tail(all))
    BY <1>7 DEF r
  <2>5. all = <<y>> \o f
    BY DEF all, Single
  <2> QED
    BY <2>3, <2>4, <2>5
\* What is left of the queue lies behind them.
<1>17. CASE j < n
  <2>1. ~l.fin
    <3>1. CASE j = 0
      <4>1. l = y /\ q # <<>>
        BY <1>1, <1>6, <1>17, <3>1
      <4> QED
        BY <1>1, <4>1
    <3>2. CASE j # 0
      <4>1. j \in 1..n /\ l = q[j]
        BY <1>1, <1>6, <3>2
      <4> QED
        BY <1>1, <1>17, <4>1 DEF Oos
    <3> QED
      BY <3>1, <3>2
  <2>2. Top(l) = DataTop(l)
    <3> HIDE DEF l
    <3> QED
      BY <1>16, <2>1, HasData
  <2> DEFINE h == q[j + 1]
  <2>3. j + 1 \in 1..n
    BY <1>1, <1>17
  <2>4. h \in Segs /\ Pos(h.seq) \in Nat /\ Pos(h.seq) \in Positions /\ h.seq \in Numbers
    BY <1>1, <2>3, OosFacts
  <2>5. DataTop(l) <= Pos(h.seq)
    <3>1. CASE j = 0
      <4>1. l = y /\ q # <<>> /\ h = q[1]
        BY <1>1, <1>6, <1>17, <3>1
      <4> QED
        BY <1>1, <4>1
    <3>2. CASE j # 0
      <4>1. j \in 1..n /\ l = q[j] /\ j < j + 1
        BY <1>1, <1>6, <3>2
      <4> QED
        BY <1>1, <2>3, <4>1, OosOrder
    <3> QED
      BY <3>1, <3>2
  <2>6. h.seq # End(l)
    <3>1. h.seq # End(IF j + 1 = 1 THEN y ELSE q[(j + 1) - 1])
      BY <1>1, <1>2, <1>17, <2>3
    <3>2. l = IF j + 1 = 1 THEN y ELSE q[(j + 1) - 1]
      BY <1>1, <1>9, <1>15
    <3> QED
      BY <3>1, <3>2
  <2> HIDE DEF l, h
  <2>7. h.seq = At(Pos(h.seq))
    BY <2>4, AtPos
  <2>8. Top(l) < Pos(h.seq)
    BY <1>16, <2>2, <2>4, <2>5, <2>6, <2>7
  <2>9. \A i \in 1..(n - j) : Top(l) < Pos(r[i].seq)
    <3> SUFFICES ASSUME NEW i \in 1..(n - j) PROVE Top(l) < Pos(r[i].seq)
      OBVIOUS
    <3>1. r[i] = q[j + i] /\ j + i \in 1..n /\ (i = 1 \/ j + 1 < j + i)
      BY <1>1, <1>4
    <3>2. CASE i = 1
      BY <2>8, <3>1, <3>2 DEF h
    <3>3. CASE j + 1 < j + i
      <4>1. Pos(q[j + 1].seq) < Pos(q[j + i].seq)
        BY <1>1, <2>3, <3>1, <3>3, OosOrder
      <4>2. Pos(q[j + i].seq) \in Nat
        BY <1>1, <3>1, OosFacts
      <4>3. Pos(h.seq) < Pos(r[i].seq) /\ Pos(r[i].seq) \in Nat
        BY <3>1, <4>1, <4>2 DEF h
      <4> QED
        BY <1>16, <2>4, <2>8, <4>3
    <3> QED
      BY <3>1, <3>2, <3>3
  <2>10. Oos(r, Top(l), edge, N, F, H)
    BY <1>4, <2>9 DEF Oos
  <2> HIDE DEF l
  <2>11. Queued(r, Top(l), edge, N, F, H)
    BY <1>4, <2>1, <2>10 DEF Queued
  <2>12. InRow(<<y>> \o f, Rest(q, Tail(<<y>> \o f)), y, k, w, edge, N, F, H)
    BY <1>20, <2>1, <2>11
  <2> QED
    BY <2>12 DEF f
<1>18. CASE ~(j < n)
  <2>1. r = <<>>
    <3>1. Len(r) = 0
      <4> HIDE DEF n
      <4> QED
        BY <1>1, <1>4, <1>18
    <3> QED
      BY <1>4, <3>1, EmptySeq
  <2>2. Oos(<<>>, Top(l), edge, N, F, H)
    BY DEF Oos
  <2> HIDE DEF l
  <2>11. Queued(r, Top(l), edge, N, F, H)
    BY <1>4, <2>1, <2>2 DEF Queued
  <2>12. InRow(<<y>> \o f, Rest(q, Tail(<<y>> \o f)), y, k, w, edge, N, F, H)
    BY <1>20, <2>1, <2>11
  <2> QED
    BY <2>12 DEF f
<1> QED
  BY <1>17, <1>18

\* What tcp_receive takes: the bytes up to M, and the FIN behind them
Taken(g, p, k, M, r, edge, N, F, H) ==
  LET top == M + One(g.fin)
  IN /\ g.p = UpdateAnnWnd([p EXCEPT !.nxt = At(top), !.wnd = (p.wnd - (top - k)) % WndWidth,
                                     !.ooseq = r])
     /\ g.data = Run(k, M - k) /\ g.fin \in BOOLEAN
     /\ k <= M /\ M <= k + p.wnd /\ M <= N /\ k < top /\ top <= H
     /\ g.fin => F /\ M = N /\ r = <<>>
     /\ Queued(r, top, edge, N, F, H)

\* tcp_receive takes a segment in sequence, and what it makes so.
LEMMA InSequenceOK ==
  ASSUME NEW p, NEW k \in 0..Bytes, p.nxt = At(k), p.wnd \in 1..TCP_WND,
         NEW s \in Segs, NEW N \in 0..Bytes, NEW F, Piece(s, N, F), Pos(s.seq) = k,
         NEW edge \in Nat, NEW H \in Nat, Top(s) <= H, Queued(p.ooseq, k, edge, N, F, H),
         edge <= k + p.wnd
  PROVE  \E M \in Nat : \E r : Taken(InSequence(p, s), p, k, M, r, edge, N, F, H)
<1> DEFINE t == Trimmed(p, s)
           all == <<t.seg>> \o Following(t.seg, t.ooseq)
           r == Rest(t.ooseq, Tail(all))
           got == Joined(all)
           fin == \E u \in ToSet(all) : u.fin
           g == InSequence(p, s)
           l == all[Len(all)]
           M == DataTop(l)
           y == t.seg
           q == t.ooseq
<1>1. InPlace(y, q, k, p.wnd, edge, N, F, H)
  BY TrimmedOK
<1>2. g = [p |-> UpdateAnnWnd([p EXCEPT !.nxt = Plus(p.nxt, got.len),
                                        !.wnd = (p.wnd - got.len) % WndWidth, !.ooseq = r]),
           data |-> got.data, fin |-> fin]
  BY DEF InSequence
<1>3. Pos(y.seq) = k
  BY <1>1 DEF InPlace
<1> HIDE DEF t, g
<1>4. InRow(all, r, y, k, p.wnd, edge, N, F, H)
  <2>1. p.wnd \in 0..TCP_WND
    BY Widths
  <2> HIDE DEF y, q
  <2>2. InRow(<<y>> \o Following(y, q), Rest(q, Tail(<<y>> \o Following(y, q))),
              y, k, p.wnd, edge, N, F, H)
    BY <1>1, <2>1, FollowingOK
  <2> QED
    BY <2>2 DEF y, q
<1> HIDE DEF all, r, y, q
<1>5. /\ all \in Seq(Segs) /\ all # <<>> /\ all[1] = y
      /\ \A i \in 1..Len(all) : /\ Piece(all[i], N, F) /\ k <= Pos(all[i].seq)
                                /\ DataTop(all[i]) <= k + p.wnd /\ Top(all[i]) <= H
      /\ \A i \in 2..Len(all) : Pos(all[i].seq) = Top(all[i - 1])
      /\ \A i \in 1..(Len(all) - 1) : ~all[i].fin
      /\ Queued(r, Top(l), edge, N, F, H)
      /\ l.fin => r = <<>>
  BY <1>4 DEF InRow
<1>6. Joined(all) = [len |-> Top(l) - k, data |-> Run(k, M - k)]
  <2>1. /\ \A i \in 1..Len(all) : Piece(all[i], N, F) /\ Pos(all[1].seq) <= Pos(all[i].seq)
        /\ Pos(all[1].seq) = k
    BY <1>3, <1>5
  <2>2. Joined(all) = [len |-> Top(all[Len(all)]) - Pos(all[1].seq),
                       data |-> Run(Pos(all[1].seq),
                                    DataTop(all[Len(all)]) - Pos(all[1].seq))]
    BY <1>5, <2>1, JoinedIs
  <2> QED
    BY <2>1, <2>2
<1>7. Len(all) \in 1..Len(all) /\ Len(all) \in Nat
  BY <1>5, EmptySeq
<1>8. l \in Segs /\ Piece(l, N, F) /\ k <= Pos(l.seq) /\ DataTop(l) <= k + p.wnd /\ Top(l) <= H
  <2>1. l \in Segs
    BY <1>5, <1>7, ElementOfSeq
  <2> QED
    BY <1>5, <1>7, <2>1
<1>9. fin <=> l.fin
  <2>1. ToSet(all) = {all[i] : i \in 1..Len(all)}
    BY <1>5, ToSetIs
  <2>2. \A i \in 1..Len(all) : all[i].fin => i = Len(all)
    <3>1. \A i \in 1..Len(all) : i \in 1..(Len(all) - 1) \/ i = Len(all)
      BY <1>7
    <3> QED
      BY <1>5, <3>1
  <2> QED
    BY <1>7, <2>1, <2>2
<1> HIDE DEF l, fin
<1>10. /\ l.fin \in BOOLEAN /\ Pos(l.seq) \in Nat /\ DataTop(l) \in Nat /\ Top(l) \in Nat
       /\ Pos(l.seq) <= DataTop(l) /\ Pos(l.seq) < Top(l) /\ DataTop(l) <= N
  BY <1>8, PieceFacts
<1>11. l.fin => F /\ DataTop(l) = N
  BY <1>8 DEF Piece
<1>12. g.fin = fin /\ g.data = Run(k, M - k)
       /\ g.p = UpdateAnnWnd([p EXCEPT !.nxt = Plus(p.nxt, got.len),
                                       !.wnd = (p.wnd - got.len) % WndWidth, !.ooseq = r])
  BY <1>2, <1>6
<1>13. g.fin = l.fin /\ Top(l) = M + One(g.fin)
  <2>1. fin \in BOOLEAN
    BY DEF fin
  <2>2. fin = l.fin
    BY <1>9, <1>10, <2>1
  <2> QED
    BY <1>12, <2>2 DEF Top
<1>14. got.len = (M + One(g.fin)) - k /\ Plus(p.nxt, got.len) = At(M + One(g.fin))
  <2>1. got.len = Top(l) - k
    BY <1>6
  <2>2. k \in Int /\ Top(l) - k \in Int
    BY <1>10
  <2>3. Plus(At(k), Top(l) - k) = At(k + (Top(l) - k))
    BY <2>2, AtPlus
  <2>4. k + (Top(l) - k) = Top(l)
    BY <1>10
  <2> QED
    BY <1>13, <2>1, <2>3, <2>4
<1> HIDE DEF got, M
<1>15. k <= M /\ k < M + One(g.fin) /\ M \in Nat
  <2>1. k \in Nat
    OBVIOUS
  <2> QED
    BY <1>8, <1>10, <1>13, <2>1 DEF M
<1>16. Taken(g, p, k, M, r, edge, N, F, H)
  BY <1>5, <1>8, <1>10, <1>11, <1>12, <1>13, <1>14, <1>15 DEF Taken, M
<1> QED
  BY <1>15, <1>16 DEF g

-----------------------------------------------------------------------------
(* The receiving end: its type, its counts, its window.                    *)

\* The states of the receiving end
RcvStates == {"ESTABLISHED", "CLOSE_WAIT", "RESET"}

\* The pcb of the receiving end
RcvPcbs == [state : RcvStates, nxt : Numbers, wnd : Windows, annwnd : Windows, edge : Numbers,
            ooseq : Seq(Segs), refused : Seq(Nat), refusedFin : BOOLEAN,
            flags : SUBSET {"DELAY", "NOW"}]

\* The two applications
Apps == [written : Nat, out : Seq(Nat), unread : Nat, ended : BOOLEAN]

\* ACKs on their way
AckMsgs == [ack : Numbers, wnd : Windows]

\* A handler of the receiving end at work
Handlers == [p : RcvPcbs, tx : Seq(AckMsgs), app : Apps, can : Int]

\* rcv_nxt counts what was handed over and "data" (and a FIN behind it, if fin).
Counted(p, a, data, fin, N, F) ==
  LET n == Len(a.out) + Len(data)
      got == fin \/ a.ended
  IN /\ a.out = Run(0, Len(a.out)) /\ data = Run(Len(a.out), Len(data)) /\ n <= N
     /\ a.ended => data = <<>> /\ ~fin
     /\ p.state # "RESET" => p.nxt = At(n + One(got))
     /\ got => F /\ n = N
     /\ p.state = "ESTABLISHED" => ~got
     /\ p.state = "CLOSE_WAIT" => got

\* The window is the room that is left, and what was announced of it stays announced.
Windowed(p, a, data) ==
  /\ p.state = "ESTABLISHED" =>
       /\ p.wnd + a.unread + Len(data) = TCP_WND
       /\ Pos(p.edge) <= Pos(p.nxt) + p.annwnd /\ p.annwnd <= p.wnd
  /\ p.state = "CLOSE_WAIT" => Lt(p.edge, p.nxt) \/ Minus(p.edge, p.nxt) < WndWidth

\* F: the sender has closed; H: how far it has sent
Kept(p, N, F, H) ==
  /\ p.state = "ESTABLISHED" => Queued(p.ooseq, Pos(p.nxt), Pos(p.edge), N, F, H)
  /\ p.state # "ESTABLISHED" => p.ooseq = <<>>
  /\ Pos(p.nxt) <= H /\ Pos(p.nxt) <= N + One(F)

\* The receiving end: its types, its queues, its counts, its window
RcvOK(p, a, N, F) ==
  /\ p \in RcvPcbs /\ a \in Apps /\ a.written = N
  /\ Counted(p, a, p.refused, p.refusedFin, N, F) /\ Windowed(p, a, p.refused)
  /\ p.refusedFin => p.refused # <<>>
  /\ p.state = "RESET" => p.refused = <<>>

\* The ACKs of A announce windows that end at the right edge at most; those of an older ACK
\* do not end behind those of a newer one.
AcksOK(A, p, N) ==
  \A m \in A :
    /\ m \in AckMsgs /\ Pos(m.ack) <= Pos(p.nxt)
    /\ p.state = "ESTABLISHED" => Pos(m.ack) + m.wnd <= Pos(p.edge)
    /\ \A j \in A : Pos(m.ack) < Pos(j.ack) /\ Pos(j.ack) <= N
                      => Pos(m.ack) + m.wnd <= Pos(j.ack) + j.wnd

\* A handler at work: A are the ACKs on their way.
Good(r, A, N, F, H) ==
  /\ r \in Handlers /\ RcvOK(r.p, r.app, N, F) /\ Kept(r.p, N, F, H)
  /\ AcksOK(A \cup ToSet(r.tx), r.p, N)

\* The same, with data and a FIN for the application in its hands
Carries(r, data, fin, A, N, F, H) ==
  /\ r \in Handlers /\ r.app.written = N /\ r.p.state # "RESET"
  /\ r.p.refused = <<>> /\ ~r.p.refusedFin /\ data \in Seq(Nat) /\ fin \in BOOLEAN
  /\ Counted(r.p, r.app, data, fin, N, F) /\ Windowed(r.p, r.app, data)
  /\ Kept(r.p, N, F, H) /\ AcksOK(A \cup ToSet(r.tx), r.p, N)

\* What a handler may change only forwards
Advances(r, s) ==
  /\ s.p.state = "ESTABLISHED" => r.p.state = "ESTABLISHED" /\ Pos(r.p.edge) <= Pos(s.p.edge)
  /\ Pos(r.p.nxt) <= Pos(s.p.nxt)
  /\ Len(r.app.out) <= Len(s.app.out) /\ (r.app.ended => s.app.ended)
  /\ s.app.written = r.app.written

\* A handler that changes none of this advances.
LEMMA AdvancesSame ==
  ASSUME NEW r \in Handlers PROVE Advances(r, r)
<1>1. r.p \in RcvPcbs /\ r.app \in Apps
  BY DEF Handlers
<1>2. r.p.edge \in Numbers /\ r.p.nxt \in Numbers /\ r.app.out \in Seq(Nat)
  BY <1>1 DEF RcvPcbs, Apps
<1>3. Pos(r.p.edge) \in Nat /\ Pos(r.p.nxt) \in Nat /\ Len(r.app.out) \in Nat
  BY <1>2, AtPos
<1> QED
  BY <1>3 DEF Advances

\* Advances is transitive.
LEMMA AdvancesOn ==
  ASSUME NEW r \in Handlers, NEW s \in Handlers, NEW t \in Handlers,
         Advances(r, s), Advances(s, t)
  PROVE  Advances(r, t)
<1>1. \A h \in Handlers : /\ Pos(h.p.edge) \in Nat /\ Pos(h.p.nxt) \in Nat
                          /\ Len(h.app.out) \in Nat
  <2> SUFFICES ASSUME NEW h \in Handlers
               PROVE Pos(h.p.edge) \in Nat /\ Pos(h.p.nxt) \in Nat /\ Len(h.app.out) \in Nat
    OBVIOUS
  <2>1. h.p \in RcvPcbs /\ h.app \in Apps
    BY DEF Handlers
  <2>2. h.p.edge \in Numbers /\ h.p.nxt \in Numbers /\ h.app.out \in Seq(Nat)
    BY <2>1 DEF RcvPcbs, Apps
  <2> QED
    BY <2>2, AtPos
<1>2. /\ Pos(r.p.edge) \in Nat /\ Pos(s.p.edge) \in Nat /\ Pos(t.p.edge) \in Nat
      /\ Pos(r.p.nxt) \in Nat /\ Pos(s.p.nxt) \in Nat /\ Pos(t.p.nxt) \in Nat
      /\ Len(r.app.out) \in Nat /\ Len(s.app.out) \in Nat /\ Len(t.app.out) \in Nat
  BY <1>1
<1>3. t.p.state = "ESTABLISHED" => r.p.state = "ESTABLISHED" /\ Pos(r.p.edge) <= Pos(t.p.edge)
  BY <1>2 DEF Advances
<1>4. Pos(r.p.nxt) <= Pos(t.p.nxt) /\ Len(r.app.out) <= Len(t.app.out)
  <2>1. /\ Pos(r.p.nxt) <= Pos(s.p.nxt) /\ Pos(s.p.nxt) <= Pos(t.p.nxt)
        /\ Len(r.app.out) <= Len(s.app.out) /\ Len(s.app.out) <= Len(t.app.out)
    BY DEF Advances
  <2>2. ASSUME NEW i \in Nat, NEW j \in Nat, NEW l \in Nat, i <= j, j <= l PROVE i <= l
    BY <2>2
  <2> DEFINE a == Pos(r.p.nxt)
             b == Pos(s.p.nxt)
             c == Pos(t.p.nxt)
             x == Len(r.app.out)
             y == Len(s.app.out)
             z == Len(t.app.out)
  <2>3. /\ a \in Nat /\ b \in Nat /\ c \in Nat /\ x \in Nat /\ y \in Nat /\ z \in Nat
        /\ a <= b /\ b <= c /\ x <= y /\ y <= z
    BY <1>2, <2>1
  <2> HIDE DEF a, b, c, x, y, z
  <2>4. a <= c /\ x <= z
    BY <2>2, <2>3
  <2> QED
    BY <2>4 DEF a, c, x, z
<1>5. (r.app.ended => t.app.ended) /\ t.app.written = r.app.written
  BY DEF Advances
<1> QED
  BY <1>3, <1>4, <1>5 DEF Advances

\* The queue stays in order when the edge or the limits grow.
LEMMA QueuedMore ==
  ASSUME NEW q, NEW k \in Nat, NEW e \in Nat, NEW N \in 0..Bytes, NEW F, NEW H \in Nat,
         Queued(q, k, e, N, F, H), NEW f \in Nat, e <= f
  PROVE  Queued(q, k, f, N, F, H)
<1>1. q \in Seq(Segs) /\ Oos(q, k, e, N, F, H)
  BY DEF Queued
<1>2. \A i \in 1..Len(q) : DataTop(q[i]) <= f
  <2> SUFFICES ASSUME NEW i \in 1..Len(q) PROVE DataTop(q[i]) <= f
    OBVIOUS
  <2>1. DataTop(q[i]) \in Nat /\ DataTop(q[i]) <= e
    BY <1>1, OosFacts
  <2> QED
    BY <2>1
<1> QED
  BY <1>1, <1>2 DEF Queued, Oos

\* What is known of rcv_nxt
LEMMA NxtIs ==
  ASSUME NEW p \in RcvPcbs, NEW a \in Apps, NEW data \in Seq(Nat), NEW fin \in BOOLEAN,
         NEW N \in 0..Bytes, NEW F, Counted(p, a, data, fin, N, F), p.state # "RESET"
  PROVE  LET n == Len(a.out) + Len(data)
         IN /\ n \in 0..N /\ n \in 0..Bytes /\ n \in Nat
            /\ p.state = "ESTABLISHED" => p.nxt = At(n) /\ Pos(p.nxt) = n /\ ~fin /\ ~a.ended
            /\ p.state = "CLOSE_WAIT" => /\ p.nxt = At(N + 1) /\ Pos(p.nxt) = N + 1 /\ n = N
                                         /\ F
<1> DEFINE n == Len(a.out) + Len(data)
<1>1. n \in Nat
  <2>1. a.out \in Seq(Nat)
    BY DEF Apps
  <2> QED
    BY <2>1
<1>2. n <= N
  BY DEF Counted
<1>3. p.state = "ESTABLISHED" => p.nxt = At(n + One(FALSE)) /\ ~fin /\ ~a.ended
  BY DEF Counted
<1>4. p.state = "CLOSE_WAIT" => p.nxt = At(n + One(TRUE)) /\ n = N /\ F
  BY DEF Counted
<1> HIDE DEF n
<1>5. n \in 0..Bytes /\ n \in 0..N /\ Pos(At(n)) = n
  <2>1. n <= Bytes + TCP_WND
    BY <1>1, <1>2, Widths
  <2>2. Pos(At(n)) = n
    BY <1>1, <2>1, PosOf
  <2> QED
    <3>1. N \in Nat /\ N <= Bytes /\ Bytes \in Nat
      BY Widths
    <3> QED
      BY <1>1, <1>2, <2>2, <3>1
<1>6. N + 1 \in Nat /\ Pos(At(N + 1)) = N + 1
  <2>1. N + 1 \in Nat /\ N + 1 <= Bytes + TCP_WND
    BY Widths
  <2> QED
    BY <2>1, PosOf
<1>7. n + One(FALSE) = n /\ n + One(TRUE) = n + 1
  BY <1>1 DEF One
<1> QED
  BY <1>1, <1>3, <1>4, <1>5, <1>6, <1>7 DEF n

\* A new ACK: it announces the window from rcv_nxt on.
LEMMA AcksMore ==
  ASSUME NEW A, NEW p \in RcvPcbs, NEW N \in 0..Bytes, AcksOK(A, p, N),
         NEW q \in RcvPcbs, q.nxt = p.nxt, q.state = p.state,
         NEW a \in AckMsgs, a.ack = p.nxt,
         \/ /\ Pos(p.edge) <= Pos(q.edge)
            /\ Pos(q.edge) = Pos(p.nxt) + a.wnd
            /\ p.state = "ESTABLISHED"
         \/ p.state # "ESTABLISHED" /\ Pos(p.nxt) > N
  PROVE  AcksOK(A \cup {a}, q, N)
<1>1. \A m \in AckMsgs : Pos(m.ack) \in Nat /\ m.wnd \in Nat
  <2> SUFFICES ASSUME NEW m \in AckMsgs PROVE Pos(m.ack) \in Nat /\ m.wnd \in Nat
    OBVIOUS
  <2>1. m.ack \in Numbers /\ m.wnd \in Nat
    BY Widths DEF AckMsgs, Windows
  <2> QED
    BY <2>1, AtPos
<1>2. p.nxt \in Numbers /\ p.edge \in Numbers /\ q.edge \in Numbers
  BY DEF RcvPcbs
<1>3. Pos(p.nxt) \in Nat /\ Pos(p.edge) \in Nat /\ Pos(q.edge) \in Nat
  BY <1>2, AtPos
<1>4. \A m \in A : /\ m \in AckMsgs /\ Pos(m.ack) <= Pos(p.nxt)
                   /\ p.state = "ESTABLISHED" => Pos(m.ack) + m.wnd <= Pos(p.edge)
  BY DEF AcksOK
<1>5. \A m, j \in A : Pos(m.ack) < Pos(j.ack) /\ Pos(j.ack) <= N
                        => Pos(m.ack) + m.wnd <= Pos(j.ack) + j.wnd
  BY DEF AcksOK
<1>6. \A m \in A \cup {a} : /\ m \in AckMsgs /\ Pos(m.ack) <= Pos(q.nxt)
                            /\ q.state = "ESTABLISHED" => Pos(m.ack) + m.wnd <= Pos(q.edge)
  BY <1>1, <1>3, <1>4
<1>7. \A m, j \in A \cup {a} : Pos(m.ack) < Pos(j.ack) /\ Pos(j.ack) <= N
                                 => Pos(m.ack) + m.wnd <= Pos(j.ack) + j.wnd
  <2> SUFFICES ASSUME NEW m \in A \cup {a}, NEW j \in A \cup {a},
                      Pos(m.ack) < Pos(j.ack), Pos(j.ack) <= N
               PROVE  Pos(m.ack) + m.wnd <= Pos(j.ack) + j.wnd
    OBVIOUS
  <2>1. m # a
    BY <1>1, <1>3, <1>4
  <2>2. CASE j # a
    BY <1>5, <2>1, <2>2
  <2>3. CASE j = a
    BY <1>1, <1>3, <1>4, <2>1, <2>3
  <2> QED
    BY <2>2, <2>3
<1> QED
  BY <1>6, <1>7 DEF AcksOK

\* Nothing is said of an ACK that a receiver that has moved forwards does not keep.
LEMMA AcksLater ==
  ASSUME NEW A, NEW p \in RcvPcbs, NEW N \in 0..Bytes, AcksOK(A, p, N),
         NEW q \in RcvPcbs, Pos(p.nxt) <= Pos(q.nxt),
         q.state = "ESTABLISHED" => p.state = "ESTABLISHED" /\ Pos(p.edge) <= Pos(q.edge)
  PROVE  AcksOK(A, q, N)
<1>1. \A m \in AckMsgs : Pos(m.ack) \in Nat /\ m.wnd \in Nat
  <2> SUFFICES ASSUME NEW m \in AckMsgs PROVE Pos(m.ack) \in Nat /\ m.wnd \in Nat
    OBVIOUS
  <2>1. m.ack \in Numbers /\ m.wnd \in Nat
    BY Widths DEF AckMsgs, Windows
  <2> QED
    BY <2>1, AtPos
<1>2. p.nxt \in Numbers /\ p.edge \in Numbers /\ q.edge \in Numbers /\ q.nxt \in Numbers
  BY DEF RcvPcbs
<1>3. /\ Pos(p.nxt) \in Nat /\ Pos(p.edge) \in Nat /\ Pos(q.edge) \in Nat
      /\ Pos(q.nxt) \in Nat
  BY <1>2, AtPos
<1>4. \A m \in A : /\ m \in AckMsgs /\ Pos(m.ack) <= Pos(p.nxt)
                   /\ p.state = "ESTABLISHED" => Pos(m.ack) + m.wnd <= Pos(p.edge)
  BY DEF AcksOK
<1>5. \A m \in A : /\ m \in AckMsgs /\ Pos(m.ack) <= Pos(q.nxt)
                   /\ q.state = "ESTABLISHED" => Pos(m.ack) + m.wnd <= Pos(q.edge)
  BY <1>1, <1>3, <1>4
<1> QED
  BY <1>5 DEF AcksOK

\* Fewer ACKs
LEMMA AcksLess ==
  ASSUME NEW A, NEW B, B \subseteq A, NEW p, NEW N, AcksOK(A, p, N) PROVE AcksOK(B, p, N)
BY DEF AcksOK

\* What is in a sequence with x at its end is x or was there.
LEMMA ToSetAppend ==
  ASSUME NEW S, NEW s \in Seq(S), NEW x \in S
  PROVE  Append(s, x) \in Seq(S) /\ ToSet(Append(s, x)) \subseteq ToSet(s) \cup {x}
<1>1. /\ Append(s, x) \in Seq(S) /\ Len(Append(s, x)) = Len(s) + 1 /\ Len(s) \in Nat
      /\ \A i \in 1..(Len(s) + 1) : Append(s, x)[i] = IF i <= Len(s) THEN s[i] ELSE x
  OBVIOUS
<1> DEFINE t == Append(s, x)
<1> HIDE DEF t
<1>2. ToSet(t) = {t[i] : i \in 1..Len(t)} /\ ToSet(s) = {s[i] : i \in 1..Len(s)}
  BY <1>1, ToSetIs DEF t
<1>3. \A i \in 1..Len(t) : t[i] \in ToSet(s) \cup {x}
  <2> SUFFICES ASSUME NEW i \in 1..Len(t) PROVE t[i] \in ToSet(s) \cup {x}
    OBVIOUS
  <2>1. i \in 1..(Len(s) + 1)
    BY <1>1 DEF t
  <2>2. t[i] = IF i <= Len(s) THEN s[i] ELSE x
    BY <1>1, <2>1 DEF t
  <2> QED
    BY <1>1, <1>2, <2>1, <2>2
<1> QED
  BY <1>1, <1>2, <1>3 DEF t

\* The parts of a handler
LEMMA HandlerTypes ==
  ASSUME NEW r \in Handlers
  PROVE  /\ r.p \in RcvPcbs /\ r.app \in Apps /\ r.tx \in Seq(AckMsgs) /\ r.can \in Int
         /\ r.p.nxt \in Numbers /\ r.p.edge \in Numbers /\ r.p.wnd \in Nat /\ r.p.annwnd \in Nat
         /\ r.p.refused \in Seq(Nat) /\ r.p.refusedFin \in BOOLEAN /\ r.p.state \in RcvStates
         /\ r.app.out \in Seq(Nat) /\ r.app.unread \in Nat
         /\ Pos(r.p.nxt) \in Nat /\ Pos(r.p.edge) \in Nat
<1>1. r.p \in RcvPcbs /\ r.app \in Apps /\ r.tx \in Seq(AckMsgs) /\ r.can \in Int
  BY DEF Handlers
<1>2. /\ r.p.nxt \in Numbers /\ r.p.edge \in Numbers /\ r.p.wnd \in Windows
      /\ r.p.annwnd \in Windows
      /\ r.p.refused \in Seq(Nat) /\ r.p.refusedFin \in BOOLEAN /\ r.p.state \in RcvStates
  BY <1>1 DEF RcvPcbs
<1>3. r.app.out \in Seq(Nat) /\ r.app.unread \in Nat
  BY <1>1 DEF Apps
<1>4. \A w \in Windows : w \in Nat
  BY Widths DEF Windows
<1> QED
  BY <1>1, <1>2, <1>3, <1>4, AtPos

\* What a field of the pcb says nothing about
LEMMA Flags ==
  ASSUME NEW r, NEW A, NEW N \in 0..Bytes, NEW F, NEW H \in Nat, Good(r, A, N, F, H),
         NEW f, f \subseteq {"DELAY", "NOW"}
  PROVE  LET s == [r EXCEPT !.p.flags = f]
         IN Good(s, A, N, F, H) /\ Advances(r, s) /\ s.can = r.can
            /\ s.p.state = r.p.state
<1> DEFINE p == r.p
           q == [p EXCEPT !.flags = f]
           s == [r EXCEPT !.p.flags = f]
<1>1. r \in Handlers /\ RcvOK(p, r.app, N, F) /\ Kept(p, N, F, H)
      /\ AcksOK(A \cup ToSet(r.tx), p, N)
  BY DEF Good
<1>2. p \in RcvPcbs
  BY <1>1, HandlerTypes
<1>3. /\ q \in RcvPcbs /\ q.state = p.state /\ q.nxt = p.nxt /\ q.wnd = p.wnd
      /\ q.annwnd = p.annwnd /\ q.edge = p.edge /\ q.ooseq = p.ooseq
      /\ q.refused = p.refused /\ q.refusedFin = p.refusedFin
  <2> HIDE DEF p
  <2> QED
    BY <1>2 DEF RcvPcbs
<1>4. s.p = q /\ s.app = r.app /\ s.tx = r.tx /\ s.can = r.can /\ s \in Handlers
  <2>1. s = [r EXCEPT !.p = q]
    BY <1>1 DEF Handlers
  <2> HIDE DEF q
  <2> QED
    BY <1>1, <1>3, <2>1 DEF Handlers
<1>5. RcvOK(q, r.app, N, F)
  BY <1>1, <1>3 DEF RcvOK, Counted, Windowed
<1>6. Kept(q, N, F, H)
  BY <1>1, <1>3 DEF Kept
<1>7. AcksOK(A \cup ToSet(r.tx), q, N)
  BY <1>1, <1>3 DEF AcksOK
<1> HIDE DEF s, q
<1>8. Good(s, A, N, F, H)
  BY <1>4, <1>5, <1>6, <1>7 DEF Good
<1>9. Advances(r, s)
  <2>1. Advances(r, r)
    BY <1>1, AdvancesSame
  <2> QED
    BY <1>3, <1>4, <2>1 DEF Advances
<1> QED
  BY <1>3, <1>4, <1>8, <1>9 DEF s

\* What an ACK changes at the receiving end
Answered(r, s) ==
  /\ s.p = [r.p EXCEPT !.flags = {}, !.edge = s.p.edge] /\ s.app = r.app /\ s.can = r.can
  /\ s.tx \in Seq(AckMsgs) /\ s.p.edge \in Numbers

\* tcp_send_empty_ack sends what was received, and the window.
LEMMA SendAckOK ==
  ASSUME NEW r, NEW A, NEW N \in 0..Bytes, NEW F, NEW H \in Nat, Good(r, A, N, F, H),
         r.p.state # "RESET"
  PROVE  LET s == SendAck(r)
         IN Good(s, A, N, F, H) /\ Advances(r, s) /\ Answered(r, s)
<1> DEFINE p == r.p
           s == SendAck(r)
           e == Plus(p.nxt, p.annwnd)
           q == [p EXCEPT !.flags = {}, !.edge = e]
           a == AckMsg(p.nxt, p.annwnd)
<1>1. r \in Handlers /\ RcvOK(p, r.app, N, F) /\ Kept(p, N, F, H)
      /\ AcksOK(A \cup ToSet(r.tx), p, N)
  BY DEF Good
<1>2. /\ p \in RcvPcbs /\ r.app \in Apps /\ r.tx \in Seq(AckMsgs)
      /\ p.nxt \in Numbers /\ p.edge \in Numbers /\ p.wnd \in Nat /\ p.annwnd \in Nat
      /\ p.refused \in Seq(Nat) /\ p.refusedFin \in BOOLEAN /\ p.state \in RcvStates
      /\ Pos(p.nxt) \in Nat /\ Pos(p.edge) \in Nat
  BY <1>1, HandlerTypes
<1>3. /\ Counted(p, r.app, p.refused, p.refusedFin, N, F) /\ Windowed(p, r.app, p.refused)
      /\ r.app.written = N
      /\ p.refusedFin => p.refused # <<>>
      /\ p.state = "RESET" => p.refused = <<>>
  BY <1>1 DEF RcvOK
<1>4. p.annwnd \in Windows /\ p.annwnd < WndWidth
  <2>1. p.annwnd \in Windows
    BY <1>2 DEF RcvPcbs
  <2> QED
    BY <2>1, Widths DEF Windows
<1>5. a \in AckMsgs /\ a.ack = p.nxt /\ a.wnd = p.annwnd
  BY <1>2, <1>4 DEF AckMsg, AckMsgs
<1> DEFINE n == Len(r.app.out) + Len(p.refused)
<1>6. /\ n \in 0..Bytes /\ n \in Nat
      /\ p.state = "ESTABLISHED" => p.nxt = At(n) /\ Pos(p.nxt) = n
      /\ p.state = "CLOSE_WAIT" => p.nxt = At(N + 1) /\ Pos(p.nxt) = N + 1
  <2>1. p.state # "RESET"
    OBVIOUS
  <2> DEFINE a1 == r.app
             d1 == p.refused
             f1 == p.refusedFin
  <2>2. /\ p \in RcvPcbs /\ a1 \in Apps /\ d1 \in Seq(Nat) /\ f1 \in BOOLEAN
        /\ Counted(p, a1, d1, f1, N, F)
    BY <1>2, <1>3
  <2>3. n = Len(a1.out) + Len(d1)
    OBVIOUS
  <2> HIDE DEF p, a1, d1, f1, n
  <2>4. LET m == Len(a1.out) + Len(d1)
        IN /\ m \in 0..N /\ m \in 0..Bytes /\ m \in Nat
           /\ p.state = "ESTABLISHED" => p.nxt = At(m) /\ Pos(p.nxt) = m /\ ~f1 /\ ~a1.ended
           /\ p.state = "CLOSE_WAIT" => /\ p.nxt = At(N + 1) /\ Pos(p.nxt) = N + 1 /\ m = N
                                        /\ F
    BY <2>1, <2>2, NxtIs
  <2> QED
    BY <2>3, <2>4
<1>7. p.nxt = At(Pos(p.nxt)) /\ e = At(Pos(p.nxt) + p.annwnd) /\ e \in Numbers
  <2>1. p.nxt = At(Pos(p.nxt))
    BY <1>2, AtPos
  <2>2. Pos(p.nxt) \in Int /\ p.annwnd \in Int
    BY <1>2
  <2>3. Pos(p.nxt) + p.annwnd \in Int
    BY <2>2
  <2>4. Plus(At(Pos(p.nxt)), p.annwnd) = At(Pos(p.nxt) + p.annwnd)
    <3> HIDE DEF p
    <3> DEFINE x == Pos(p.nxt)
    <3>1. x \in Int
      BY <2>2
    <3> HIDE DEF x
    <3> QED
      BY <2>2, <3>1, AtPlus DEF x
  <2> QED
    BY <2>1, <2>3, <2>4, AtIn
<1>8. p.state = "ESTABLISHED" =>
        Pos(e) = Pos(p.nxt) + p.annwnd /\ Pos(p.edge) <= Pos(e)
  <2> SUFFICES ASSUME p.state = "ESTABLISHED"
               PROVE  Pos(e) = Pos(p.nxt) + p.annwnd /\ Pos(p.edge) <= Pos(e)
    OBVIOUS
  <2>1. /\ p.wnd + r.app.unread + Len(p.refused) = TCP_WND
        /\ Pos(p.edge) <= Pos(p.nxt) + p.annwnd /\ p.annwnd <= p.wnd
    BY <1>3 DEF Windowed
  <2>2. r.app.unread \in Nat /\ Len(p.refused) \in Nat
    BY <1>2 DEF Apps
  <2>3. p.annwnd <= TCP_WND
    BY <1>2, <2>1, <2>2, Widths, SMTT(30)
  <2>4. n + p.annwnd \in Nat /\ n + p.annwnd <= Bytes + TCP_WND
    <3> HIDE DEF n
    <3> QED
      BY <1>2, <1>6, <2>3, Widths
  <2>5. Pos(At(n + p.annwnd)) = n + p.annwnd
    <3> HIDE DEF n
    <3> QED
      BY <2>4, PosOf
  <2> QED
    BY <1>6, <1>7, <2>1, <2>5
<1> HIDE DEF n, e
<1>9. /\ q \in RcvPcbs /\ q.state = p.state /\ q.nxt = p.nxt /\ q.wnd = p.wnd
      /\ q.annwnd = p.annwnd /\ q.edge = e /\ q.ooseq = p.ooseq
      /\ q.refused = p.refused /\ q.refusedFin = p.refusedFin
  <2> HIDE DEF p
  <2> QED
    BY <1>2, <1>7 DEF RcvPcbs
<1> HIDE DEF a
<1>10. /\ s.p = q /\ s.app = r.app /\ s.tx = Append(r.tx, a) /\ s.can = r.can /\ s \in Handlers
  <2>1. s = [r EXCEPT !.p = q, !.tx = Append(r.tx, a)]
    BY <1>1 DEF Handlers, SendAck, e, a
  <2>2. Append(r.tx, a) \in Seq(AckMsgs)
    BY <1>2, <1>5
  <2> HIDE DEF q, s
  <2> QED
    BY <1>1, <1>9, <2>1, <2>2 DEF Handlers
<1>11. Counted(q, r.app, q.refused, q.refusedFin, N, F)
  BY <1>3, <1>9 DEF Counted
<1>12. Windowed(q, r.app, q.refused)
  <2>1. CASE p.state = "ESTABLISHED"
    <3>1. Pos(q.edge) <= Pos(q.nxt) + q.annwnd
      BY <1>2, <1>8, <1>9, <2>1
    <3>2. p.wnd + r.app.unread + Len(p.refused) = TCP_WND /\ p.annwnd <= p.wnd
      BY <1>3, <2>1 DEF Windowed
    <3> QED
      BY <1>9, <2>1, <3>1, <3>2 DEF Windowed
  <2>2. CASE p.state # "ESTABLISHED"
    <3>1. Minus(e, p.nxt) < WndWidth
      <4> DEFINE x == Pos(p.nxt)
                 w == p.annwnd
      <4>1. x \in Int /\ w \in Nat /\ x + w \in Int /\ w < WndWidth
        BY <1>2, <1>4
      <4>2. p.nxt = At(x) /\ e = At(x + w)
        BY <1>7
      <4> HIDE DEF x, w
      <4>3. Minus(At(x + w), At(x)) = ((x + w) - x) % SeqWidth
        BY <4>1, AtMinus
      <4>4. (x + w) - x = w
        BY <4>1
      <4>5. w % SeqWidth <= w
        <5>1. /\ w % SeqWidth \in 0..(SeqWidth - 1) /\ w \div SeqWidth \in Int
              /\ w = SeqWidth * (w \div SeqWidth) + (w % SeqWidth)
          BY <4>1, Widths, Remainder
        <5>2. CASE w \div SeqWidth >= 0
          <6>1. SeqWidth * (w \div SeqWidth) >= 0
            BY <5>1, <5>2, Widths
          <6> QED
            BY <4>1, <5>1, <6>1, Widths
        <5>3. CASE w < SeqWidth
          <6>1. w \in 0..(SeqWidth - 1)
            BY <4>1, <5>3, Widths
          <6> QED
            BY <4>1, <6>1, Widths, RemainderSame
        <5>4. CASE w >= SeqWidth
          <6>1. w % SeqWidth <= SeqWidth - 1
            BY <5>1
          <6> QED
            BY <4>1, <5>1, <5>4, <6>1, Widths
        <5> QED
          BY <4>1, <5>3, <5>4, Widths
      <4>6. w % SeqWidth \in Int
        BY <4>1, Widths, Remainder
      <4> QED
        BY <4>1, <4>2, <4>3, <4>4, <4>5, <4>6, Widths
    <3> QED
      BY <1>9, <2>2, <3>1 DEF Windowed
  <2> QED
    BY <2>1, <2>2
<1>13. RcvOK(q, r.app, N, F)
  BY <1>2, <1>3, <1>9, <1>11, <1>12 DEF RcvOK
<1>14. Pos(e) \in Nat
  BY <1>7, AtPos
<1>15. Kept(q, N, F, H)
  <2>1. CASE p.state = "ESTABLISHED"
    <3>1. Queued(p.ooseq, Pos(p.nxt), Pos(p.edge), N, F, H)
      BY <1>1, <2>1 DEF Kept
    <3>2. Queued(p.ooseq, Pos(p.nxt), Pos(e), N, F, H)
      <4> DEFINE x == Pos(p.nxt)
                 y == Pos(p.edge)
                 z == Pos(e)
      <4>1. x \in Nat /\ y \in Nat /\ z \in Nat /\ y <= z /\ Queued(p.ooseq, x, y, N, F, H)
        BY <1>2, <1>8, <1>14, <2>1, <3>1
      <4> HIDE DEF x, y, z
      <4>2. Queued(p.ooseq, x, z, N, F, H)
        BY <4>1, QueuedMore
      <4> QED
        BY <4>2 DEF x, z
    <3> QED
      BY <1>1, <1>9, <2>1, <3>2 DEF Kept
  <2>2. CASE p.state # "ESTABLISHED"
    BY <1>1, <1>9, <2>2 DEF Kept
  <2> QED
    BY <2>1, <2>2
<1>16. AcksOK((A \cup ToSet(r.tx)) \cup {a}, q, N)
  <2> DEFINE B == A \cup ToSet(r.tx)
  <2>1. \/ /\ Pos(p.edge) <= Pos(q.edge)
           /\ Pos(q.edge) = Pos(p.nxt) + a.wnd
           /\ p.state = "ESTABLISHED"
        \/ p.state # "ESTABLISHED" /\ Pos(p.nxt) > N
    <3>1. p.state \in {"ESTABLISHED", "CLOSE_WAIT"}
      BY <1>2 DEF RcvStates
    <3>2. N + 1 > N
      OBVIOUS
    <3> QED
      BY <1>5, <1>6, <1>8, <1>9, <3>1, <3>2
  <2> HIDE DEF B, q, p
  <2> QED
    BY <1>1, <1>2, <1>5, <1>9, <2>1, AcksMore DEF B
<1>17. AcksOK(A \cup ToSet(s.tx), q, N)
  <2>1. ToSet(Append(r.tx, a)) \subseteq ToSet(r.tx) \cup {a}
    BY <1>2, <1>5, ToSetAppend
  <2> HIDE DEF s, q
  <2>2. A \cup ToSet(s.tx) \subseteq (A \cup ToSet(r.tx)) \cup {a}
    BY <1>10, <2>1
  <2> QED
    BY <1>16, <2>2, AcksLess
<1> HIDE DEF s, q
<1>18. Good(s, A, N, F, H)
  BY <1>10, <1>13, <1>15, <1>17 DEF Good
<1>19. Advances(r, s)
  <2>1. Advances(r, r)
    BY <1>1, AdvancesSame
  <2> QED
    BY <1>8, <1>9, <1>10, <2>1 DEF Advances
<1>20. Answered(r, s)
  <2>1. q = [p EXCEPT !.flags = {}, !.edge = q.edge]
    BY <1>9 DEF q
  <2>2. s.tx \in Seq(AckMsgs)
    BY <1>10 DEF Handlers
  <2> QED
    BY <1>7, <1>9, <1>10, <2>1, <2>2 DEF Answered
<1> QED
  BY <1>18, <1>19, <1>20 DEF s

\* tcp_update_rcv_ann_wnd keeps what was announced, if it still can.
LEMMA UpdateAnnWndOK ==
  ASSUME NEW p \in RcvPcbs, NEW open \in BOOLEAN,
         open => /\ Pos(p.nxt) \in 0..Bytes /\ p.wnd \in 0..TCP_WND
                                    /\ Pos(p.edge) <= Pos(p.nxt) + p.wnd,
         ~open => Lt(p.edge, p.nxt) \/ Minus(p.edge, p.nxt) < WndWidth
  PROVE  LET q == UpdateAnnWnd(p)
         IN /\ q \in RcvPcbs /\ q = [p EXCEPT !.annwnd = q.annwnd]
            /\ open => /\ Pos(p.edge) <= Pos(p.nxt) + q.annwnd
                                          /\ q.annwnd <= p.wnd
<1> DEFINE q == UpdateAnnWnd(p)
           w == IF Announces(p) THEN p.wnd
                ELSE IF Lt(p.edge, p.nxt) THEN 0 ELSE Minus(p.edge, p.nxt)
           k == Pos(p.nxt)
           e == Pos(p.edge)
<1>1. q = [p EXCEPT !.annwnd = w]
  BY DEF UpdateAnnWnd
<1>2. /\ p.nxt \in Numbers /\ p.edge \in Numbers /\ p.wnd \in Windows /\ p.wnd \in Nat
      /\ p.annwnd \in Windows
  BY Widths DEF RcvPcbs, Windows
<1>3. k \in Nat /\ e \in Nat
  BY <1>2, AtPos
<1>4. ASSUME open
      PROVE  /\ Lt(p.edge, p.nxt) <=> e < k
             /\ ~(e < k) => Minus(p.edge, p.nxt) = e - k
             /\ e <= k + p.wnd /\ p.wnd <= TCP_WND
  <2>1. /\ k \in 0..Bytes /\ p.wnd \in 0..TCP_WND /\ e <= k + p.wnd
    BY <1>4
  <2>2. k \in Positions /\ e \in Positions
    <3> HIDE DEF k, e
    <3> QED
      BY <1>3, <2>1, Widths DEF Positions
  <2>3. Lt(p.edge, p.nxt) <=> e < k
    BY <1>2, <2>2, PosCompare
  <2>4. ~(e < k) => Minus(p.edge, p.nxt) = e - k
    <3> SUFFICES ASSUME ~(e < k) PROVE Minus(p.edge, p.nxt) = e - k
      OBVIOUS
    <3>1. Pos(p.nxt) <= Pos(p.edge)
      BY <1>3
    <3> QED
      BY <1>2, <3>1, PosMinus
  <2> QED
    BY <2>1, <2>3, <2>4
<1>5. w \in Windows
  <2>1. CASE Announces(p)
    BY <1>2, <2>1
  <2>2. CASE ~Announces(p) /\ Lt(p.edge, p.nxt)
    BY <2>2, Widths DEF Windows
  <2>3. CASE ~Announces(p) /\ ~Lt(p.edge, p.nxt)
    <3>1. w = Minus(p.edge, p.nxt)
      BY <2>3
    <3>2. Minus(p.edge, p.nxt) \in Nat
      <4>1. p.edge - p.nxt \in Int /\ SeqWidth \in Nat \ {0}
        BY <1>2, Widths DEF Numbers
      <4>2. (p.edge - p.nxt) % SeqWidth \in 0..(SeqWidth - 1)
        BY <4>1, Remainder
      <4> QED
        BY <4>1, <4>2 DEF Minus
    <3>3. Minus(p.edge, p.nxt) < WndWidth
      <4>1. CASE open
        <5>1. Minus(p.edge, p.nxt) = e - k /\ e <= k + p.wnd /\ p.wnd <= TCP_WND
          BY <1>4, <2>3, <4>1
        <5> HIDE DEF e, k
        <5> QED
          BY <1>2, <1>3, <5>1, Widths
      <4>2. CASE ~open
        BY <2>3, <4>2
      <4> QED
        BY <4>1, <4>2
    <3> HIDE DEF w
    <3> QED
      BY <3>1, <3>2, <3>3, Widths DEF Windows
  <2> QED
    BY <2>1, <2>2, <2>3
<1>6. ASSUME open PROVE e <= k + w /\ w <= p.wnd
  <2>1. /\ Lt(p.edge, p.nxt) <=> e < k
        /\ ~(e < k) => Minus(p.edge, p.nxt) = e - k
        /\ e <= k + p.wnd
    BY <1>4, <1>6
  <2> HIDE DEF e, k
  <2>2. CASE Announces(p)
    BY <1>2, <2>1, <2>2
  <2>3. CASE ~Announces(p) /\ e < k
    <3>1. w = 0
      BY <2>1, <2>3
    <3> HIDE DEF w
    <3> QED
      BY <1>2, <1>3, <2>3, <3>1
  <2>4. CASE ~Announces(p) /\ ~(e < k)
    <3>1. w = e - k
      BY <2>1, <2>4
    <3> HIDE DEF w
    <3> QED
      BY <1>2, <1>3, <2>1, <2>4, <3>1
  <2> QED
    BY <2>2, <2>3, <2>4
<1> HIDE DEF w, q, e, k
<1>7. q \in RcvPcbs /\ q.annwnd = w
  BY <1>1, <1>5 DEF RcvPcbs
<1>8. q = [p EXCEPT !.annwnd = q.annwnd]
  BY <1>1, <1>7
<1> QED
  BY <1>6, <1>7, <1>8 DEF q, e, k

(* The recv callback.                                                      *)
\* What a handler that only speaks to the application leaves alone
LEMMA UpwardOK ==
  ASSUME NEW r, NEW data, NEW fin, NEW A, NEW N \in 0..Bytes, NEW F, NEW H \in Nat,
         Carries(r, data, fin, A, N, F, H), NEW refuse
  PROVE  LET s == Upward(r, data, fin, refuse)
         IN Good(s, A, N, F, H) /\ Advances(r, s) /\ s.p.state = r.p.state
<1> DEFINE s == Upward(r, data, fin, refuse)
           p == r.p
           a == r.app
<1>1. /\ r \in Handlers /\ a.written = N /\ p.state # "RESET"
      /\ p.refused = <<>> /\ ~p.refusedFin /\ data \in Seq(Nat) /\ fin \in BOOLEAN
      /\ Counted(p, a, data, fin, N, F) /\ Windowed(p, a, data)
      /\ Kept(p, N, F, H) /\ AcksOK(A \cup ToSet(r.tx), p, N)
  BY DEF Carries
<1>2. /\ p \in RcvPcbs /\ a \in Apps /\ r.tx \in Seq(AckMsgs) /\ r.can \in Int
      /\ p.state \in RcvStates /\ a.out \in Seq(Nat) /\ a.unread \in Nat
  BY <1>1, HandlerTypes
<1>3. CASE data # <<>> /\ refuse
  <2> DEFINE q == [p EXCEPT !.refused = data, !.refusedFin = fin]
  <2>1. s = [r EXCEPT !.p = q, !.can = r.can - 1]
    BY <1>1, <1>3 DEF Upward, Handlers
  <2>2. /\ q \in RcvPcbs /\ q.state = p.state /\ q.nxt = p.nxt /\ q.wnd = p.wnd
        /\ q.annwnd = p.annwnd /\ q.edge = p.edge /\ q.ooseq = p.ooseq
        /\ q.refused = data /\ q.refusedFin = fin
    <3> HIDE DEF p
    <3> QED
      BY <1>1, <1>2 DEF RcvPcbs
  <2> HIDE DEF q
  <2>3. s.p = q /\ s.app = a /\ s.tx = r.tx /\ s \in Handlers
    <3> DEFINE c == r.can - 1
    <3>1. c \in Int
      BY <1>2
    <3>2. s = [r EXCEPT !.p = q, !.can = c]
      BY <2>1
    <3> HIDE DEF s, c
    <3> QED
      BY <1>1, <1>2, <2>2, <3>1, <3>2 DEF Handlers
  <2> HIDE DEF s, p, a
  <2>4. RcvOK(q, a, N, F)
    BY <1>1, <1>2, <1>3, <2>2 DEF RcvOK, Counted, Windowed
  <2>5. Kept(q, N, F, H) /\ AcksOK(A \cup ToSet(s.tx), q, N)
    BY <1>1, <2>2, <2>3 DEF Kept, AcksOK
  <2>6. Good(s, A, N, F, H)
    BY <2>3, <2>4, <2>5 DEF Good
  <2>7. Advances(r, s)
    <3>1. Advances(r, r)
      BY <1>1, AdvancesSame
    <3> QED
      BY <2>2, <2>3, <3>1 DEF Advances, p, a
  <2> QED
    BY <2>2, <2>3, <2>6, <2>7 DEF s, p
<1>4. CASE ~(data # <<>> /\ refuse)
  <2> DEFINE b == [a EXCEPT !.out = a.out \o data, !.unread = a.unread + Len(data),
                            !.ended = IF fin THEN TRUE ELSE a.ended]
             v == IF fin THEN IF p.wnd # TCP_WND THEN (p.wnd + 1) % WndWidth ELSE p.wnd
                  ELSE p.wnd
             q == [p EXCEPT !.wnd = v]
  <2>1. s = [r EXCEPT !.p = q, !.app = b]
    <3>1. CASE fin
      BY <1>1, <1>2, <1>4, <3>1 DEF Upward, Takes, Ended, Handlers, RcvPcbs, Apps
    <3>2. CASE ~fin
      BY <1>1, <1>2, <1>4, <3>2 DEF Upward, Takes, Ended, Handlers, RcvPcbs, Apps
    <3> QED
      BY <3>1, <3>2
  <2>2. v \in Windows
    <3>1. p.wnd \in Windows
      BY <1>2 DEF RcvPcbs
    <3>2. p.wnd + 1 \in Int /\ WndWidth \in Nat \ {0}
      BY <3>1, Widths DEF Windows
    <3> DEFINE x == p.wnd + 1
    <3> HIDE DEF x
    <3>3. x % WndWidth \in 0..(WndWidth - 1)
      BY <3>2, Remainder DEF x
    <3> QED
      BY <3>1, <3>3 DEF x, Windows
  <2> HIDE DEF v
  <2>3. /\ q \in RcvPcbs /\ q.state = p.state /\ q.nxt = p.nxt /\ q.wnd = v
        /\ q.annwnd = p.annwnd /\ q.edge = p.edge /\ q.ooseq = p.ooseq
        /\ q.refused = <<>> /\ q.refusedFin = FALSE
    <3>1. p.refusedFin = FALSE
      BY <1>1, <1>2 DEF RcvPcbs
    <3> HIDE DEF p
    <3> QED
      BY <1>1, <1>2, <2>2, <3>1 DEF RcvPcbs
  <2> DEFINE l == Len(a.out)
             d == Len(data)
             o == a.out \o data
  <2>4. l \in Nat /\ d \in Nat /\ o \in Seq(Nat) /\ Len(o) = l + d
    BY <1>1, <1>2
  <2>5. /\ b \in Apps /\ b.written = N /\ b.out = o /\ b.unread = a.unread + d
        /\ b.ended = (IF fin THEN TRUE ELSE a.ended)
    <3> HIDE DEF a, o, d
    <3>1. a.unread + d \in Nat
      BY <1>2, <2>4
    <3>2. (IF fin THEN TRUE ELSE a.ended) \in BOOLEAN
      BY <1>1, <1>2 DEF Apps
    <3>3. b = [a EXCEPT !.out = o, !.unread = a.unread + d,
                        !.ended = IF fin THEN TRUE ELSE a.ended]
      BY DEF o, d
    <3> HIDE DEF b
    <3> QED
      BY <1>1, <1>2, <2>4, <3>1, <3>2, <3>3 DEF Apps
  <2> HIDE DEF b, q
  <2>6. s.p = q /\ s.app = b /\ s.tx = r.tx /\ s.can = r.can /\ s \in Handlers
    <3> HIDE DEF s
    <3> QED
      BY <1>1, <1>2, <2>1, <2>3, <2>5 DEF Handlers
  <2> HIDE DEF s, p, a
  <2>7. o = Run(0, l + d)
    <3>1. a.out = Run(0, l) /\ data = Run(l, d)
      BY <1>1 DEF Counted
    <3>2. Run(0, l) \o Run(0 + l, d) = Run(0, l + d)
      <4> HIDE DEF l, d
      <4> QED
        BY <2>4, RunJoin
    <3>3. 0 + l = l
      BY <2>4
    <3> QED
      BY <3>1, <3>2, <3>3
  <2>8. Counted(q, b, q.refused, q.refusedFin, N, F)
    <3>1. /\ l + d <= N
          /\ p.state # "RESET" => p.nxt = At((l + d) + One(fin \/ a.ended))
          /\ fin \/ a.ended => F /\ l + d = N
          /\ p.state = "ESTABLISHED" => ~(fin \/ a.ended)
          /\ p.state = "CLOSE_WAIT" => fin \/ a.ended
      BY <1>1 DEF Counted
    <3>2. b.ended \in BOOLEAN /\ (b.ended <=> fin \/ a.ended)
      BY <1>1, <1>2, <2>5 DEF Apps
    <3>3. One(FALSE \/ b.ended) = One(fin \/ a.ended)
      BY <3>2 DEF One
    <3>4. Len(<<>>) = 0 /\ <<>> = Run(l + d, 0)
      <4> DEFINE z == l + d
      <4>1. z \in Nat
        BY <2>4
      <4> HIDE DEF z
      <4>2. Run(z, 0) = <<>>
        BY <4>1, RunIs
      <4> QED
        BY <4>2 DEF z
    <3>5. Len(b.out) = l + d /\ (l + d) + 0 = l + d
      BY <2>4, <2>5
    <3> HIDE DEF l, d, o
    <3> QED
      BY <2>3, <2>5, <2>7, <3>1, <3>2, <3>3, <3>4, <3>5 DEF Counted
  <2>9. Windowed(q, b, q.refused)
    <3>1. CASE p.state = "ESTABLISHED"
      <4>1. ~fin
        BY <1>1, <3>1 DEF Counted
      <4>2. v = p.wnd
        BY <4>1 DEF v
      <4>3. /\ p.wnd + a.unread + d = TCP_WND
            /\ Pos(p.edge) <= Pos(p.nxt) + p.annwnd /\ p.annwnd <= p.wnd
        BY <1>1, <3>1 DEF Windowed
      <4>4. p.wnd \in Nat
        BY <1>2, Widths DEF RcvPcbs, Windows
      <4>5. p.wnd + (a.unread + d) + 0 = TCP_WND /\ Len(<<>>) = 0
        BY <1>2, <2>4, <4>3, <4>4
      <4> QED
        BY <2>3, <2>5, <3>1, <4>2, <4>3, <4>5 DEF Windowed
    <3>2. CASE p.state # "ESTABLISHED"
      BY <1>1, <2>3, <3>2 DEF Windowed
    <3> QED
      BY <3>1, <3>2
  <2>10. RcvOK(q, b, N, F)
    BY <1>1, <2>3, <2>5, <2>8, <2>9 DEF RcvOK
  <2>11. Kept(q, N, F, H) /\ AcksOK(A \cup ToSet(s.tx), q, N)
    BY <1>1, <2>3, <2>6 DEF Kept, AcksOK
  <2>12. Good(s, A, N, F, H)
    BY <2>6, <2>10, <2>11 DEF Good
  <2>13. Advances(r, s)
    <3>1. Advances(r, r)
      BY <1>1, AdvancesSame
    <3>2. Len(a.out) <= Len(b.out)
      BY <2>4, <2>5
    <3>3. a.ended => b.ended
      BY <2>5
    <3> QED
      BY <1>1, <2>3, <2>5, <2>6, <3>1, <3>2, <3>3 DEF Advances, p, a
  <2> QED
    BY <2>3, <2>6, <2>12, <2>13 DEF s, p
<1> QED
  BY <1>3, <1>4

\* tcp_process_refused_data
LEMMA AgainOK ==
  ASSUME NEW r, NEW A, NEW N \in 0..Bytes, NEW F, NEW H \in Nat, Good(r, A, N, F, H),
         NEW refuse
  PROVE  LET s == Again(r, refuse)
         IN Good(s, A, N, F, H) /\ Advances(r, s) /\ s.p.state = r.p.state
<1> DEFINE s == Again(r, refuse)
           p == r.p
           q == [p EXCEPT !.refused = <<>>, !.refusedFin = FALSE]
           t == [r EXCEPT !.p = q]
<1>1. r \in Handlers /\ RcvOK(p, r.app, N, F) /\ Kept(p, N, F, H)
      /\ AcksOK(A \cup ToSet(r.tx), p, N)
  BY DEF Good
<1>2. p \in RcvPcbs /\ p.refused \in Seq(Nat) /\ p.refusedFin \in BOOLEAN
  BY <1>1, HandlerTypes
<1>3. CASE p.refused = <<>>
  <2>1. s = r
    BY <1>3 DEF Again
  <2>2. Advances(r, r)
    BY <1>1, AdvancesSame
  <2> QED
    BY <2>1, <2>2
<1>4. CASE p.refused # <<>>
  <2>1. s = Upward(t, p.refused, p.refusedFin, refuse)
    BY <1>1, <1>4 DEF Again, Handlers
  <2>2. /\ q \in RcvPcbs /\ q.state = p.state /\ q.nxt = p.nxt /\ q.wnd = p.wnd
        /\ q.annwnd = p.annwnd /\ q.edge = p.edge /\ q.ooseq = p.ooseq
        /\ q.refused = <<>> /\ q.refusedFin = FALSE
    <3>1. <<>> \in Seq(Nat)
      OBVIOUS
    <3> HIDE DEF p
    <3> QED
      BY <1>2, <3>1 DEF RcvPcbs
  <2> HIDE DEF q
  <2>3. t.p = q /\ t.app = r.app /\ t.tx = r.tx /\ t \in Handlers
    BY <1>1, <2>2 DEF Handlers
  <2>4. /\ Counted(p, r.app, p.refused, p.refusedFin, N, F) /\ Windowed(p, r.app, p.refused)
        /\ r.app.written = N /\ p.state # "RESET"
    BY <1>1, <1>4 DEF RcvOK
  <2> HIDE DEF t, s, p
  <2>5. Counted(q, r.app, p.refused, p.refusedFin, N, F) /\ Windowed(q, r.app, p.refused)
    BY <2>2, <2>4 DEF Counted, Windowed
  <2>6. Kept(q, N, F, H) /\ AcksOK(A \cup ToSet(t.tx), q, N)
    BY <1>1, <2>2, <2>3 DEF Kept, AcksOK
  <2> DEFINE data == p.refused
             fin == p.refusedFin
  <2>7. Carries(t, data, fin, A, N, F, H)
    BY <1>2, <2>2, <2>3, <2>4, <2>5, <2>6 DEF Carries
  <2> HIDE DEF data, fin
  <2>9. LET u == Upward(t, data, fin, refuse)
        IN Good(u, A, N, F, H) /\ Advances(t, u) /\ u.p.state = t.p.state
    BY <2>7, UpwardOK
  <2>10. s = Upward(t, data, fin, refuse)
    BY <2>1 DEF data, fin
  <2>11. Advances(r, s)
    <3>1. Advances(t, s)
      BY <2>9, <2>10
    <3> QED
      BY <2>2, <2>3, <3>1 DEF Advances, p
  <2> QED
    BY <2>2, <2>3, <2>9, <2>10, <2>11 DEF s, p
<1> QED
  BY <1>3, <1>4

\* The flags of the receiving end
LEMMA AckFlagsOK ==
  ASSUME NEW r, NEW A, NEW N \in 0..Bytes, NEW F, NEW H \in Nat, Good(r, A, N, F, H)
  PROVE  LET s == AckNow(r)
         IN Good(s, A, N, F, H) /\ Advances(r, s) /\ s.p.state = r.p.state
<1> DEFINE f == r.p.flags \cup {"NOW"}
<1>1. r.p \in RcvPcbs
  BY HandlerTypes DEF Good
<1>2. f \subseteq {"DELAY", "NOW"}
  BY <1>1 DEF RcvPcbs
<1>3. AckNow(r) = [r EXCEPT !.p.flags = f]
  BY DEF AckNow
<1> HIDE DEF f
<1> DEFINE t == [r EXCEPT !.p.flags = f]
<1>4. Good(t, A, N, F, H) /\ Advances(r, t) /\ t.p.state = r.p.state
  BY <1>2, Flags
<1> HIDE DEF t
<1>5. AckNow(r) = t
  BY <1>3 DEF t
<1> QED
  BY <1>4, <1>5

\* tcp_output sends an ACK when it is asked to.
LEMMA OutputAckOK ==
  ASSUME NEW r, NEW A, NEW N \in 0..Bytes, NEW F, NEW H \in Nat, Good(r, A, N, F, H),
         r.p.state # "RESET"
  PROVE  LET s == OutputAck(r) IN Good(s, A, N, F, H) /\ Advances(r, s)
<1>1. r \in Handlers
  BY DEF Good
<1>2. Advances(r, r)
  BY <1>1, AdvancesSame
<1>3. Good(SendAck(r), A, N, F, H) /\ Advances(r, SendAck(r))
  BY SendAckOK
<1>4. CASE "NOW" \in r.p.flags
  BY <1>3, <1>4 DEF OutputAck
<1>5. CASE "NOW" \notin r.p.flags
  BY <1>2, <1>5 DEF OutputAck
<1> QED
  BY <1>4, <1>5

\* A segment on its way: in the window that was announced, but for the byte of a probe
Arrives(s, p, N, F, H) ==
  /\ s \in Segs /\ Piece(s, N, F) /\ Top(s) <= H
  /\ p.state = "ESTABLISHED" => \/ DataTop(s) <= Pos(p.edge)
                                \/ s.len <= 1 /\ Pos(s.seq) <= Pos(p.nxt) /\ Pos(s.seq) <= Pos(p.edge)

\* What is known while the connection is established
LEMMA EstFacts ==
  ASSUME NEW r, NEW A, NEW N \in 0..Bytes, NEW F, NEW H \in Nat, Good(r, A, N, F, H),
         r.p.state = "ESTABLISHED", r.p.refused = <<>>
  PROVE  LET p == r.p
             k == Len(r.app.out)
             e == Pos(p.edge)
         IN /\ r \in Handlers /\ k \in 0..Bytes /\ k <= N /\ p.nxt = At(k) /\ Pos(p.nxt) = k
            /\ p.wnd \in 0..TCP_WND /\ p.wnd + r.app.unread = TCP_WND /\ r.app.unread \in Nat
            /\ e \in Nat /\ e <= k + p.wnd /\ Queued(p.ooseq, k, e, N, F, H)
            /\ r.app.out = Run(0, k) /\ ~r.app.ended /\ ~p.refusedFin
            /\ AcksOK(A \cup ToSet(r.tx), p, N) /\ r.app.written = N
<1> DEFINE p == r.p
           k == Len(r.app.out)
           e == Pos(p.edge)
           data == p.refused
           fin == p.refusedFin
           a == r.app
<1>1. /\ r \in Handlers /\ RcvOK(p, a, N, F) /\ Kept(p, N, F, H)
      /\ AcksOK(A \cup ToSet(r.tx), p, N)
  BY DEF Good
<1>2. /\ p \in RcvPcbs /\ a \in Apps /\ p.nxt \in Numbers /\ p.edge \in Numbers /\ p.wnd \in Nat
      /\ p.annwnd \in Nat /\ data \in Seq(Nat) /\ fin \in BOOLEAN /\ a.out \in Seq(Nat)
      /\ a.unread \in Nat /\ e \in Nat
  BY <1>1, HandlerTypes
<1>3. Counted(p, a, data, fin, N, F) /\ Windowed(p, a, data) /\ a.written = N
  BY <1>1 DEF RcvOK
<1>4. p.state = "ESTABLISHED" /\ data = <<>>
  OBVIOUS
<1> HIDE DEF p, a, data, fin
<1>5. Len(a.out) + Len(data) = Len(a.out) /\ Len(data) = 0 /\ Len(a.out) \in Nat
  BY <1>2, <1>4
<1>6. /\ Len(a.out) \in 0..N /\ Len(a.out) \in 0..Bytes
      /\ p.nxt = At(Len(a.out)) /\ Pos(p.nxt) = Len(a.out) /\ ~fin /\ ~a.ended
  <2>1. LET n == Len(a.out) + Len(data)
        IN /\ n \in 0..N /\ n \in 0..Bytes /\ n \in Nat
           /\ p.state = "ESTABLISHED" => p.nxt = At(n) /\ Pos(p.nxt) = n /\ ~fin /\ ~a.ended
    <3>1. p.state # "RESET"
      BY <1>4
    <3> QED
      BY <1>2, <1>3, <3>1, NxtIs
  <2> QED
    BY <1>4, <1>5, <2>1
<1>7. /\ p.wnd + a.unread + Len(data) = TCP_WND
      /\ Pos(p.edge) <= Pos(p.nxt) + p.annwnd /\ p.annwnd <= p.wnd
  BY <1>3, <1>4 DEF Windowed
<1>8. p.wnd + a.unread = TCP_WND /\ p.wnd \in 0..TCP_WND
  BY <1>2, <1>5, <1>7, Widths
<1>9. Pos(p.edge) <= Len(a.out) + p.wnd /\ Pos(p.edge) \in Nat
  <2>1. Pos(p.edge) \in Nat
    BY <1>2, AtPos
  <2> QED
    BY <1>2, <1>5, <1>6, <1>7, <2>1
<1>10. Queued(p.ooseq, Pos(p.nxt), Pos(p.edge), N, F, H)
  BY <1>1, <1>4 DEF Kept
<1>11. a.out = Run(0, Len(a.out))
  BY <1>3 DEF Counted
<1> QED
  BY <1>1, <1>2, <1>3, <1>6, <1>8, <1>9, <1>10, <1>11 DEF p, a, fin

\* What is in sequence is carried to the application.
Sequenced(r, y, f, A, N, F, H) ==
  LET got == InSequence(r.p, y)
      h == [r EXCEPT !.p = [got.p EXCEPT !.flags = f,
                              !.state = IF got.fin THEN "CLOSE_WAIT" ELSE "ESTABLISHED"]]
  IN Carries(h, got.data, got.fin, A, N, F, H) /\ Advances(r, h)
     /\ got.p.flags = r.p.flags /\ got.p.state = "ESTABLISHED" /\ got.p \in RcvPcbs

\* tcp_process of a segment in sequence
LEMMA SequenceOK ==
  ASSUME NEW r, NEW A, NEW N \in 0..Bytes, NEW F, NEW H \in Nat, Good(r, A, N, F, H),
         r.p.state = "ESTABLISHED", r.p.refused = <<>>,
         NEW y \in Segs, Piece(y, N, F), Top(y) <= H, Pos(y.seq) = Pos(r.p.nxt), r.p.wnd > 0,
         NEW f, f \subseteq {"DELAY", "NOW"}
  PROVE  Sequenced(r, y, f, A, N, F, H)
<1> DEFINE p == r.p
           k == Len(r.app.out)
           e == Pos(p.edge)
           got == InSequence(p, y)
           st == IF got.fin THEN "CLOSE_WAIT" ELSE "ESTABLISHED"
           z == [got.p EXCEPT !.flags = f, !.state = st]
           h == [r EXCEPT !.p = z]
           a == r.app
<1>1. /\ r \in Handlers /\ k \in 0..Bytes /\ k <= N /\ p.nxt = At(k) /\ Pos(p.nxt) = k
      /\ p.wnd \in 0..TCP_WND /\ p.wnd + a.unread = TCP_WND /\ a.unread \in Nat
      /\ e \in Nat /\ e <= k + p.wnd /\ Queued(p.ooseq, k, e, N, F, H)
      /\ a.out = Run(0, k) /\ ~a.ended /\ ~p.refusedFin
      /\ AcksOK(A \cup ToSet(r.tx), p, N) /\ a.written = N
  BY EstFacts
<1>2. /\ p \in RcvPcbs /\ a \in Apps /\ r.tx \in Seq(AckMsgs) /\ a.out \in Seq(Nat)
      /\ p.edge \in Numbers /\ p.nxt \in Numbers /\ p.refused = <<>>
  BY <1>1, HandlerTypes
<1>3. p.wnd \in 1..TCP_WND /\ p.wnd \in Nat /\ k \in Nat
  BY <1>1, Widths
<1>4. Pos(y.seq) = k /\ p.state = "ESTABLISHED"
  BY <1>1
<1> HIDE DEF p, k, e, a
<1>5. PICK M \in Nat : \E q : Taken(got, p, k, M, q, e, N, F, H)
  BY <1>1, <1>3, <1>4, InSequenceOK
<1>6. PICK q : Taken(got, p, k, M, q, e, N, F, H)
  BY <1>5
<1> HIDE DEF got
<1> DEFINE top == M + One(got.fin)
           w == (p.wnd - (top - k)) % WndWidth
           p1 == [p EXCEPT !.nxt = At(top), !.wnd = w, !.ooseq = q]
<1>7. /\ got.p = UpdateAnnWnd(p1)
      /\ got.data = Run(k, M - k) /\ got.fin \in BOOLEAN
      /\ k <= M /\ M <= k + p.wnd /\ M <= N /\ k < top /\ top <= H
      /\ got.fin => F /\ M = N /\ q = <<>>
      /\ Queued(q, top, e, N, F, H)
  BY <1>6 DEF Taken
<1>8. /\ top \in Nat /\ top <= Bytes + 1 /\ (got.fin => top = N + 1) /\ (~got.fin => top = M)
      /\ Pos(At(top)) = top /\ At(top) \in Numbers /\ top <= N + One(F)
  <2>1. got.fin => One(got.fin) = 1 /\ One(F) = 1
    BY <1>7 DEF One
  <2>2. ~got.fin => One(got.fin) = 0
    BY DEF One
  <2>3. One(F) \in 0..1
    BY DEF One
  <2>4. top \in Nat /\ top <= Bytes + 1 /\ (got.fin => top = N + 1) /\ (~got.fin => top = M)
        /\ top <= N + One(F)
    BY <1>7, <2>1, <2>2, <2>3, Widths, SMTT(30)
  <2> HIDE DEF top
  <2>5. top <= Bytes + TCP_WND
    BY <2>4, Widths
  <2> QED
    BY <2>4, <2>5, PosOf
<1>9. w \in Windows /\ (~got.fin => w = p.wnd - (M - k) /\ w \in 0..TCP_WND)
  <2> DEFINE x == p.wnd - (top - k)
  <2>1. x \in Int
    BY <1>3, <1>8
  <2>2. ~got.fin => x = p.wnd - (M - k) /\ x \in 0..TCP_WND /\ x \in 0..(WndWidth - 1)
    <3>1. ~got.fin => x = p.wnd - (M - k)
      BY <1>8
    <3>2. /\ k <= M /\ M <= k + p.wnd /\ p.wnd <= TCP_WND
          /\ k \in Nat /\ M \in Nat /\ p.wnd \in Nat
      BY <1>1, <1>3, <1>7, Widths, SMTT(30)
    <3>3. TCP_WND \in Nat /\ WndWidth \in Nat /\ TCP_WND < WndWidth
      BY Widths
    <3>4. ASSUME NEW i \in Nat, NEW j \in Nat, NEW c \in Nat,
                 i <= j, j <= i + c, c <= TCP_WND
          PROVE  c - (j - i) \in 0..TCP_WND /\ c - (j - i) \in 0..(WndWidth - 1)
      BY <3>3, <3>4
    <3> QED
      BY <3>1, <3>2, <3>4
  <2> HIDE DEF x
  <2>3. x % WndWidth \in 0..(WndWidth - 1)
    BY <2>1, Widths, Remainder
  <2>4. x \in 0..(WndWidth - 1) => x % WndWidth = x
    BY Widths, RemainderSame
  <2> QED
    BY <2>2, <2>3, <2>4 DEF x, Windows
<1> HIDE DEF top, w
<1>10. /\ p1 \in RcvPcbs /\ p1.state = "ESTABLISHED" /\ p1.nxt = At(top) /\ p1.wnd = w
       /\ p1.edge = p.edge /\ p1.ooseq = q /\ p1.refused = <<>> /\ p1.refusedFin = FALSE
       /\ p1.flags = p.flags
  <2>1. q \in Seq(Segs)
    BY <1>7 DEF Queued
  <2>2. p.refusedFin = FALSE
    BY <1>1, <1>2 DEF RcvPcbs
  <2> QED
    BY <1>2, <1>4, <1>8, <1>9, <2>1, <2>2 DEF RcvPcbs
<1> HIDE DEF p1
<1>11. got.fin => Lt(p1.edge, p1.nxt) \/ Minus(p1.edge, p1.nxt) < WndWidth
  <2>1. /\ p1.edge \in Numbers /\ p1.nxt \in Numbers /\ Pos(p1.edge) = e /\ Pos(p1.nxt) = top
        /\ e \in Positions /\ top \in Positions
    <3>1. e \in Positions /\ top \in Positions
      BY <1>1, <1>3, <1>8, Widths DEF Positions
    <3> QED
      BY <1>2, <1>8, <1>10, <3>1 DEF e
  <2>2. Lt(p1.edge, p1.nxt) <=> e < top
    BY <2>1, PosCompare
  <2>3. top <= e => Minus(p1.edge, p1.nxt) = e - top
    BY <2>1, PosMinus
  <2>4. e - top < WndWidth
    <3>1. /\ k < top /\ e <= k + p.wnd /\ p.wnd <= TCP_WND
          /\ k \in Nat /\ top \in Nat /\ e \in Nat /\ p.wnd \in Nat
      BY <1>1, <1>3, <1>7, <1>8, Widths
    <3>2. TCP_WND \in Nat /\ WndWidth \in Nat /\ TCP_WND < WndWidth
      BY Widths
    <3>3. ASSUME NEW i \in Nat, NEW j \in Nat, NEW l \in Nat, NEW c \in Nat,
                 l < j, i <= l + c, c <= TCP_WND
          PROVE  i - j < WndWidth
      BY <3>2, <3>3
    <3> QED
      BY <3>1, <3>3
  <2> QED
    BY <1>1, <1>8, <2>2, <2>3, <2>4
<1>12. /\ got.p \in RcvPcbs /\ got.p = [p1 EXCEPT !.annwnd = got.p.annwnd]
       /\ ~got.fin => e <= top + got.p.annwnd /\ got.p.annwnd <= w
  <2> DEFINE open == ~got.fin
             g == UpdateAnnWnd(p1)
  <2>1. open \in BOOLEAN
    OBVIOUS
  <2>2. open => /\ Pos(p1.nxt) \in 0..Bytes /\ p1.wnd \in 0..TCP_WND
                /\ Pos(p1.edge) <= Pos(p1.nxt) + p1.wnd
    <3> SUFFICES ASSUME ~got.fin
                 PROVE  /\ Pos(p1.nxt) \in 0..Bytes /\ p1.wnd \in 0..TCP_WND
                        /\ Pos(p1.edge) <= Pos(p1.nxt) + p1.wnd
      OBVIOUS
    <3>1. top = M /\ w = p.wnd - (M - k) /\ w \in 0..TCP_WND
      BY <1>8, <1>9
    <3>2. M \in 0..Bytes /\ e <= M + w
      BY <1>1, <1>3, <1>7, <3>1, Widths
    <3> QED
      BY <1>8, <1>10, <3>1, <3>2 DEF e
  <2>3. ~open => Lt(p1.edge, p1.nxt) \/ Minus(p1.edge, p1.nxt) < WndWidth
    BY <1>11
  <2> HIDE DEF open
  <2>4. /\ g \in RcvPcbs /\ g = [p1 EXCEPT !.annwnd = g.annwnd]
        /\ open => /\ Pos(p1.edge) <= Pos(p1.nxt) + g.annwnd
                   /\ g.annwnd <= p1.wnd
    BY <1>10, <2>1, <2>2, <2>3, UpdateAnnWndOK
  <2>5. Pos(p1.edge) = e /\ Pos(p1.nxt) = top /\ p1.wnd = w /\ g = got.p
    BY <1>7, <1>8, <1>10 DEF e
  <2> HIDE DEF g
  <2> QED
    BY <2>4, <2>5 DEF open
<1> DEFINE v == got.p.annwnd
<1>13. v \in Windows
  BY <1>12 DEF RcvPcbs
<1>14. /\ got.p.state = "ESTABLISHED" /\ got.p.flags = p.flags /\ got.p.nxt = At(top)
       /\ got.p.wnd = w /\ got.p.edge = p.edge /\ got.p.ooseq = q /\ got.p.refused = <<>>
       /\ got.p.refusedFin = FALSE
  <2>1. got.p = [p1 EXCEPT !.annwnd = v]
    BY <1>12
  <2> HIDE DEF v
  <2> QED
    BY <1>10, <2>1 DEF RcvPcbs
<1>15. /\ z \in RcvPcbs /\ z.state = st /\ z.nxt = At(top) /\ z.wnd = w /\ z.edge = p.edge
       /\ z.annwnd = v /\ z.ooseq = q /\ z.refused = <<>> /\ z.refusedFin = FALSE
  <2> DEFINE g == got.p
  <2>1. /\ g \in RcvPcbs /\ g.nxt = At(top) /\ g.wnd = w /\ g.edge = p.edge
        /\ g.annwnd = v /\ g.ooseq = q /\ g.refused = <<>> /\ g.refusedFin = FALSE
    BY <1>12, <1>14
  <2>2. st \in RcvStates
    BY DEF RcvStates
  <2> HIDE DEF g, st, v
  <2>3. z = [g EXCEPT !.flags = f, !.state = st]
    BY DEF g
  <2> HIDE DEF z
  <2> QED
    BY <2>1, <2>2, <2>3 DEF RcvPcbs
<1> HIDE DEF z, v
<1>16. h.p = z /\ h.app = a /\ h.tx = r.tx /\ h \in Handlers
  BY <1>1, <1>15 DEF Handlers, a
<1> HIDE DEF h
<1>17. Run(k, M - k) \in Seq(Nat) /\ Len(Run(k, M - k)) = M - k
  <2> DEFINE d == M - k
  <2>1. d \in Nat
    BY <1>3, <1>7
  <2> HIDE DEF d
  <2> QED
    BY <1>3, <2>1, RunIs DEF d
<1>18. Counted(z, a, got.data, got.fin, N, F)
  <2>1. Len(a.out) + Len(got.data) = M /\ Len(a.out) = k
    <3>1. Len(a.out) = k
      BY DEF a, k
    <3>2. Len(got.data) = M - k
      BY <1>7, <1>17
    <3>3. k + (M - k) = M
      BY <1>3
    <3> QED
      BY <3>1, <3>2, <3>3
  <2>2. a.out = Run(0, Len(a.out)) /\ got.data = Run(Len(a.out), Len(got.data))
    BY <1>1, <1>7, <1>17, <2>1
  <2>3. (got.fin \/ a.ended) = got.fin
    BY <1>1, <1>7
  <2>4. z.nxt = At(M + One(got.fin))
    BY <1>15 DEF top
  <2> HIDE DEF k
  <2> QED
    BY <1>1, <1>7, <1>15, <2>1, <2>2, <2>3, <2>4 DEF Counted
<1>19. Windowed(z, a, got.data)
  <2>1. CASE got.fin
    <3>1. z.state = "CLOSE_WAIT" /\ z.edge = p1.edge /\ z.nxt = p1.nxt
      BY <1>10, <1>15, <2>1
    <3> QED
      BY <1>11, <2>1, <3>1 DEF Windowed
  <2>2. CASE ~got.fin
    <3>1. z.state = "ESTABLISHED"
      BY <1>15, <2>2
    <3>2. w + a.unread + (M - k) = TCP_WND
      BY <1>1, <1>3, <1>9, <2>2, Widths
    <3>3. Pos(z.edge) <= Pos(z.nxt) + z.annwnd /\ z.annwnd <= z.wnd
      BY <1>8, <1>12, <1>15, <2>2 DEF e, v
    <3>4. z.wnd + a.unread + Len(got.data) = TCP_WND
      BY <1>7, <1>15, <1>17, <3>2
    <3> QED
      BY <3>1, <3>3, <3>4 DEF Windowed
  <2> QED
    BY <2>1, <2>2
<1>20. Kept(z, N, F, H)
  <2>1. Pos(z.nxt) = top /\ Pos(z.edge) = e
    BY <1>8, <1>15 DEF e
  <2>2. z.state # "ESTABLISHED" => z.ooseq = <<>>
    BY <1>7, <1>15
  <2> QED
    BY <1>7, <1>8, <1>15, <2>1, <2>2 DEF Kept
<1>21. AcksOK(A \cup ToSet(h.tx), z, N)
  <2>1. Pos(p.nxt) <= Pos(z.nxt) /\ Pos(p.edge) <= Pos(z.edge)
    BY <1>1, <1>3, <1>7, <1>8, <1>15 DEF e
  <2> DEFINE B == A \cup ToSet(r.tx)
  <2>2. AcksOK(B, p, N)
    BY <1>1
  <2> HIDE DEF B
  <2>3. AcksOK(B, z, N)
    BY <1>2, <1>4, <1>15, <2>1, <2>2, AcksLater
  <2> QED
    BY <1>16, <2>3 DEF B
<1>22. Carries(h, got.data, got.fin, A, N, F, H)
  <2>1. z.state # "RESET"
    BY <1>15
  <2> QED
    BY <1>1, <1>7, <1>15, <1>16, <1>17, <1>18, <1>19, <1>20, <1>21, <2>1 DEF Carries
<1>23. Advances(r, h)
  <2>1. Advances(r, r)
    BY <1>1, AdvancesSame
  <2>2. Pos(p.nxt) <= Pos(z.nxt)
    BY <1>1, <1>3, <1>7, <1>8, <1>15
  <2> QED
    BY <1>4, <1>15, <1>16, <2>1, <2>2 DEF Advances, p, a
<1> QED
  BY <1>12, <1>14, <1>22, <1>23 DEF Sequenced, h, z, st, got, p

\* tcp_receive and tcp_process of a segment with data or a FIN
LEMMA ReceiveOK ==
  ASSUME NoWrap, NEW r, NEW A, NEW N \in 0..Bytes, NEW F, NEW H \in Nat, Good(r, A, N, F, H),
         r.p.state # "RESET", r.p.refused = <<>>,
         NEW m, Arrives(Seg(m.seq, m.data, m.fin), r.p, N, F, H), NEW refuse
  PROVE  LET s == Receive(r, m, refuse)
         IN Good(s, A, N, F, H) /\ Advances(r, s) /\ s.p.state # "RESET"
<1> DEFINE p == r.p
           x == Seg(m.seq, m.data, m.fin)
           y == FirstEdge(p, x)
           got == InSequence(p, y)
           s == Receive(r, m, refuse)
           k == Len(r.app.out)
           e == Pos(p.edge)
<1>1. r \in Handlers /\ Advances(r, r) /\ p \in RcvPcbs
  <2>1. r \in Handlers
    BY DEF Good
  <2> QED
    BY <2>1, AdvancesSame, HandlerTypes
<1>2. Good(AckNow(r), A, N, F, H) /\ Advances(r, AckNow(r)) /\ AckNow(r).p.state = p.state
  BY AckFlagsOK
<1>3. CASE p.state # "ESTABLISHED"
  <2>1. s = r \/ s = AckNow(r)
    BY <1>3 DEF Receive
  <2> HIDE DEF s
  <2>2. CASE s = r
    BY <1>1, <2>2 DEF s, p
  <2>3. CASE s = AckNow(r)
    BY <1>2, <2>3 DEF s, p
  <2> QED
    BY <2>1, <2>2, <2>3
<1>4. CASE p.state = "ESTABLISHED"
  <2>1. /\ k \in 0..Bytes /\ k <= N /\ p.nxt = At(k) /\ Pos(p.nxt) = k
        /\ p.wnd \in 0..TCP_WND /\ e \in Nat /\ e <= k + p.wnd
        /\ Queued(p.ooseq, k, e, N, F, H)
    BY <1>4, EstFacts
  <2>2. /\ x \in Segs /\ Piece(x, N, F) /\ Top(x) <= H
        /\ DataTop(x) <= e \/ (x.len <= 1 /\ Pos(x.seq) <= Pos(p.nxt) /\ Pos(x.seq) <= e)
    BY <1>4 DEF Arrives
  <2> HIDE DEF x
  <2>3. EdgeCut(y, x, k, N, F)
    BY <2>1, <2>2, FirstEdgeOK
  <2>4. s = IF ~Inside(p, y.seq) THEN SendAck(r)
            ELSE IF y.seq # p.nxt THEN [SendAck(r) EXCEPT !.p.ooseq = OutOfSequence(p, y)]
            ELSE Upward(IF got.fin
                        THEN AckNow([Ack([r EXCEPT !.p = got.p]) EXCEPT !.p.state = "CLOSE_WAIT"])
                        ELSE Ack([r EXCEPT !.p = got.p]), got.data, got.fin, refuse)
    BY <1>4 DEF Receive, x
  <2> HIDE DEF y, s
  <2>5. /\ y \in Segs /\ Piece(y, N, F) /\ Top(y) = Top(x) /\ DataTop(y) = DataTop(x)
        /\ y = x \/ y.seq = At(k)
    BY <2>3 DEF EdgeCut
  <2>6. /\ y.seq \in Numbers /\ Pos(y.seq) \in Positions /\ Pos(y.seq) \in Nat
        /\ y.seq = At(Pos(y.seq)) /\ Top(y) <= H
    BY <2>2, <2>5, PieceFacts
  <2>7. Inside(p, y.seq) <=> k <= Pos(y.seq) /\ Pos(y.seq) < k + p.wnd
    BY <2>1, <2>6, InsideIs
  <2> DEFINE b == SendAck(r)
  <2>8. Good(b, A, N, F, H) /\ Advances(r, b) /\ Answered(r, b)
    BY SendAckOK
  <2>9. b.p.state = p.state
    BY <1>1, <2>8 DEF Answered, RcvPcbs
  <2>10. CASE ~Inside(p, y.seq)
    <3>1. s = b
      BY <2>4, <2>10
    <3> HIDE DEF b
    <3> QED
      BY <2>8, <2>9, <3>1 DEF s, p
  <2>11. CASE Inside(p, y.seq) /\ y.seq # p.nxt
    <3> DEFINE o == OutOfSequence(p, y)
    <3>1. s = [b EXCEPT !.p.ooseq = o]
      BY <2>4, <2>11
    <3>2. k < Pos(y.seq) /\ Pos(y.seq) < k + p.wnd
      <4>1. k # Pos(y.seq)
        BY <2>1, <2>6, <2>11
      <4> QED
        BY <2>1, <2>6, <2>7, <2>11, <4>1
    <3>3. DataTop(y) <= e
      <4>1. y = x
        BY <2>1, <2>5, <2>11
      <4>2. ~(Pos(x.seq) <= Pos(p.nxt))
        BY <2>1, <2>6, <3>2, <4>1
      <4> QED
        BY <2>2, <4>1, <4>2
    <3>4. Fresh(y, k, e, N, F, H)
      BY <2>5, <2>6, <3>2, <3>3 DEF Fresh
    <3>5. Queued(o, k, e, N, F, H)
      <4> HIDE DEF p, k, e
      <4> QED
        BY <2>1, <3>2, <3>4, OutOfSequenceOK
    <3> HIDE DEF o, b
    <3> DEFINE bp == b.p
               q == [bp EXCEPT !.ooseq = o]
    <3>6. /\ b \in Handlers /\ RcvOK(bp, b.app, N, F) /\ Kept(bp, N, F, H)
          /\ AcksOK(A \cup ToSet(b.tx), bp, N)
      BY <2>8 DEF Good
    <3>7. /\ bp \in RcvPcbs /\ bp.state = "ESTABLISHED" /\ bp.nxt = p.nxt
          /\ Pos(p.edge) <= Pos(bp.edge) /\ Pos(bp.edge) \in Nat
      <4>1. bp \in RcvPcbs /\ Pos(bp.edge) \in Nat
        BY <3>6, HandlerTypes
      <4>2. bp = [p EXCEPT !.flags = {}, !.edge = bp.edge]
        BY <2>8 DEF Answered
      <4>3. bp.nxt = p.nxt
        <5> HIDE DEF bp, p
        <5> QED
          BY <1>1, <4>1, <4>2 DEF RcvPcbs
      <4>4. Pos(p.edge) <= Pos(bp.edge)
        BY <1>4, <2>8, <2>9 DEF Advances
      <4> QED
        BY <1>4, <2>9, <4>1, <4>3, <4>4
    <3>8. o \in Seq(Segs)
      BY <3>5 DEF Queued
    <3>9. /\ q \in RcvPcbs /\ q.state = bp.state /\ q.nxt = bp.nxt /\ q.wnd = bp.wnd
          /\ q.annwnd = bp.annwnd /\ q.edge = bp.edge /\ q.ooseq = o
          /\ q.refused = bp.refused /\ q.refusedFin = bp.refusedFin
      <4> HIDE DEF bp
      <4> QED
        BY <3>7, <3>8 DEF RcvPcbs
    <3>10. s.p = q /\ s.app = b.app /\ s.tx = b.tx /\ s \in Handlers
      <4>1. s = [b EXCEPT !.p = q]
        BY <3>1, <3>6 DEF Handlers
      <4> HIDE DEF q
      <4> QED
        BY <3>6, <3>9, <4>1 DEF Handlers
    <3> HIDE DEF q, bp
    <3>11. RcvOK(q, b.app, N, F) /\ AcksOK(A \cup ToSet(s.tx), q, N)
      <4>1. RcvOK(q, b.app, N, F)
        BY <3>6, <3>9 DEF RcvOK, Counted, Windowed
      <4>2. AcksOK(A \cup ToSet(s.tx), q, N)
        BY <3>6, <3>9, <3>10 DEF AcksOK
      <4> QED
        BY <4>1, <4>2
    <3>12. Kept(q, N, F, H)
      <4> DEFINE f == Pos(bp.edge)
      <4>1. Queued(o, k, f, N, F, H)
        <5>1. f \in Nat /\ e <= f
          BY <3>7
        <5> HIDE DEF f, e, k
        <5> QED
          BY <2>1, <3>5, <5>1, QueuedMore
      <4>2. Pos(q.nxt) = k /\ Pos(q.edge) = f
        BY <2>1, <3>7, <3>9
      <4> HIDE DEF f, k
      <4> QED
        BY <3>6, <3>7, <3>9, <4>1, <4>2 DEF Kept
    <3>13. Good(s, A, N, F, H)
      BY <3>10, <3>11, <3>12 DEF Good
    <3>14. Advances(r, s)
      BY <2>8, <3>9, <3>10 DEF Advances, bp
    <3> QED
      BY <3>7, <3>9, <3>10, <3>13, <3>14 DEF s
  <2>12. CASE Inside(p, y.seq) /\ y.seq = p.nxt
    <3>1. Pos(y.seq) = Pos(r.p.nxt) /\ r.p.wnd > 0
      BY <2>1, <2>6, <2>7, <2>12
    <3> DEFINE fl == IF "DELAY" \in p.flags THEN (p.flags \ {"DELAY"}) \cup {"NOW"}
                     ELSE p.flags \cup {"DELAY"}
               fe == fl \cup {"NOW"}
               f == IF got.fin THEN fe ELSE fl
               st == IF got.fin THEN "CLOSE_WAIT" ELSE "ESTABLISHED"
               h == [r EXCEPT !.p = [got.p EXCEPT !.flags = f, !.state = st]]
    <3>2. p.flags \subseteq {"DELAY", "NOW"}
      BY <1>1 DEF RcvPcbs
    <3>3. f \subseteq {"DELAY", "NOW"}
      <4> HIDE DEF got
      <4> QED
        BY <3>2
    <3> HIDE DEF f
    <3>4. /\ Carries(h, got.data, got.fin, A, N, F, H) /\ Advances(r, h)
          /\ got.p.flags = p.flags /\ got.p.state = "ESTABLISHED" /\ got.p \in RcvPcbs
      <4>1. r.p.state = "ESTABLISHED" /\ y \in Segs /\ Piece(y, N, F) /\ Top(y) <= H
        BY <1>4, <2>5, <2>6
      <4>2. Sequenced(r, y, f, A, N, F, H)
        BY <3>1, <3>3, <4>1, SequenceOK
      <4> QED
        BY <4>2 DEF Sequenced
    <3> HIDE DEF got
    <3>5. h = IF got.fin
              THEN AckNow([Ack([r EXCEPT !.p = got.p]) EXCEPT !.p.state = "CLOSE_WAIT"])
              ELSE Ack([r EXCEPT !.p = got.p])
      <4> DEFINE g == got.p
                 rg == [r EXCEPT !.p = g]
      <4>1. g \in RcvPcbs /\ g.flags = p.flags /\ g.state = "ESTABLISHED"
        BY <3>4
      <4> HIDE DEF g, fl
      <4>2. rg.p = g /\ rg \in Handlers
        BY <1>1, <4>1 DEF Handlers
      <4>3. Ack(rg) = [r EXCEPT !.p = [g EXCEPT !.flags = fl]]
        <5>1. Ack(rg) = [rg EXCEPT !.p.flags = fl]
          BY <4>1, <4>2 DEF Ack, fl
        <5>2. [rg EXCEPT !.p.flags = fl] = [rg EXCEPT !.p = [g EXCEPT !.flags = fl]]
          BY <4>2
        <5> HIDE DEF p
        <5>3. [rg EXCEPT !.p = [g EXCEPT !.flags = fl]] = [r EXCEPT !.p = [g EXCEPT !.flags = fl]]
          BY <1>1 DEF Handlers
        <5> QED
          BY <5>1, <5>2, <5>3
      <4>4. [g EXCEPT !.flags = fl] = [g EXCEPT !.flags = fl, !.state = "ESTABLISHED"]
        BY <4>1 DEF RcvPcbs
      <4>5. AckNow([Ack(rg) EXCEPT !.p.state = "CLOSE_WAIT"])
              = [r EXCEPT !.p = [g EXCEPT !.flags = fe, !.state = "CLOSE_WAIT"]]
        <5> DEFINE z == [g EXCEPT !.flags = fl]
                   a1 == [r EXCEPT !.p = z]
                   zz == [z EXCEPT !.state = "CLOSE_WAIT"]
                   a2 == [r EXCEPT !.p = zz]
        <5>1. z.flags = fl
          BY <4>1 DEF RcvPcbs
        <5>2. zz = [g EXCEPT !.flags = fl, !.state = "CLOSE_WAIT"] /\ zz.flags = fl
          BY <4>1 DEF RcvPcbs
        <5>3. [zz EXCEPT !.flags = fe] = [g EXCEPT !.flags = fe, !.state = "CLOSE_WAIT"]
          BY <4>1, <5>2 DEF RcvPcbs
        <5> HIDE DEF z, fe, p
        <5>4. [a1 EXCEPT !.p.state = "CLOSE_WAIT"] = a2
          BY <1>1 DEF Handlers
        <5> HIDE DEF zz, fl
        <5>5. a2.p.flags = fl
          BY <1>1, <5>2 DEF Handlers
        <5>6. AckNow(a2) = [a2 EXCEPT !.p.flags = fl \cup {"NOW"}]
          BY <5>5 DEF AckNow
        <5>7. [a2 EXCEPT !.p.flags = fl \cup {"NOW"}] = [r EXCEPT !.p = [zz EXCEPT !.flags = fe]]
          BY <1>1 DEF Handlers, fe
        <5>8. Ack(rg) = a1
          BY <4>3 DEF z
        <5> HIDE DEF a1, a2
        <5> QED
          BY <5>3, <5>4, <5>6, <5>7, <5>8
      <4> HIDE DEF fe
      <4>6. CASE got.fin
        BY <4>5, <4>6 DEF f, g
      <4>7. CASE ~got.fin
        BY <4>3, <4>4, <4>7 DEF f, g
      <4> QED
        BY <4>6, <4>7
    <3> HIDE DEF h
    <3>6. s = Upward(h, got.data, got.fin, refuse)
      BY <2>4, <2>12, <3>5
    <3>7. Good(s, A, N, F, H) /\ Advances(h, s) /\ s.p.state = h.p.state
      <4> DEFINE u == Upward(h, got.data, got.fin, refuse)
      <4>1. Good(u, A, N, F, H) /\ Advances(h, u) /\ u.p.state = h.p.state
        BY <3>4, UpwardOK
      <4> HIDE DEF u
      <4>2. s = u
        BY <3>6 DEF u
      <4> QED
        BY <4>1, <4>2
    <3>8. h \in Handlers /\ h.p.state # "RESET" /\ s \in Handlers
      BY <3>4, <3>7 DEF Carries, Good
    <3>9. Advances(r, s)
      BY <1>1, <3>4, <3>7, <3>8, AdvancesOn
    <3> QED
      BY <3>7, <3>8, <3>9 DEF s
  <2> QED
    BY <2>10, <2>11, <2>12
<1> QED
  BY <1>3, <1>4

\* tcp_input of a segment that carries data or a FIN
LEMMA InputOK ==
  ASSUME NoWrap, NEW r, NEW A, NEW N \in 0..Bytes, NEW F, NEW H \in Nat, Good(r, A, N, F, H),
         r.p.state # "RESET",
         NEW m, Arrives(Seg(m.seq, m.data, m.fin), r.p, N, F, H), NEW refuse
  PROVE  LET s == Input(r, m, refuse)
         IN Good(s, A, N, F, H) /\ Advances(r, s)
<1> DEFINE t == Receive(r, m, refuse)
           o == OutputAck(t)
<1>1. r \in Handlers /\ Advances(r, r)
  <2>1. r \in Handlers
    BY DEF Good
  <2> QED
    BY <2>1, AdvancesSame
<1>2. CASE r.p.refused # <<>>
  BY <1>1, <1>2 DEF Input
<1>3. CASE r.p.refused = <<>>
  <2>1. Good(t, A, N, F, H) /\ Advances(r, t) /\ t.p.state # "RESET"
    BY <1>3, ReceiveOK
  <2>2. Input(r, m, refuse) = o
    BY <1>3 DEF Input
  <2> HIDE DEF t
  <2>3. Good(o, A, N, F, H) /\ Advances(t, o)
    BY <2>1, OutputAckOK
  <2> HIDE DEF o
  <2>4. t \in Handlers /\ o \in Handlers
    BY <2>1, <2>3 DEF Good
  <2>5. Advances(r, o)
    BY <1>1, <2>1, <2>3, <2>4, AdvancesOn
  <2> QED
    BY <2>2, <2>3, <2>5
<1> QED
  BY <1>2, <1>3

\* A reset: what was handed over stays, the rest is freed.
LEMMA ResetInOK ==
  ASSUME NEW r, NEW A, NEW N \in 0..Bytes, NEW F, NEW H \in Nat, Good(r, A, N, F, H),
         r.p.state # "RESET", NEW m
  PROVE  LET s == ResetIn(r, m)
         IN Good(s, A, N, F, H) /\ Advances(r, s)
<1> DEFINE p == r.p
           a == r.app
           s == ResetIn(r, m)
           q == [p EXCEPT !.state = "RESET", !.flags = {}, !.ooseq = <<>>,
                          !.refused = <<>>, !.refusedFin = FALSE]
<1>1. r \in Handlers /\ RcvOK(p, a, N, F) /\ Kept(p, N, F, H)
      /\ AcksOK(A \cup ToSet(r.tx), p, N)
  BY DEF Good
<1>2. /\ p \in RcvPcbs /\ a \in Apps /\ p.refused \in Seq(Nat) /\ a.out \in Seq(Nat)
      /\ Pos(p.nxt) \in Nat
  BY <1>1, HandlerTypes
<1>3. CASE Between(m.seq, p.nxt, Plus(p.nxt, p.wnd))
  <2>1. s = [r EXCEPT !.p = q]
    BY <1>1, <1>3 DEF ResetIn, Handlers
  <2>2. /\ q \in RcvPcbs /\ q.state = "RESET" /\ q.nxt = p.nxt /\ q.refused = <<>>
        /\ q.refusedFin = FALSE /\ q.ooseq = <<>>
    <3>1. <<>> \in Seq(Nat) /\ <<>> \in Seq(Segs) /\ {} \subseteq {"DELAY", "NOW"}
      OBVIOUS
    <3> HIDE DEF p
    <3> QED
      BY <1>2, <3>1 DEF RcvPcbs, RcvStates
  <2> HIDE DEF q, s
  <2>3. s.p = q /\ s.app = a /\ s.tx = r.tx /\ s \in Handlers
    BY <1>1, <2>1, <2>2 DEF Handlers
  <2> HIDE DEF p, a
  <2>4. Counted(p, a, p.refused, p.refusedFin, N, F) /\ a.written = N
    BY <1>1 DEF RcvOK
  <2> DEFINE l == Len(a.out)
  <2>5. l \in Nat /\ l <= N /\ l + 0 = l /\ Len(<<>>) = 0 /\ <<>> = Run(l, 0)
    <3>1. Len(p.refused) \in Nat /\ l \in Nat
      BY <1>2
    <3>2. l + Len(p.refused) <= N
      BY <2>4 DEF Counted
    <3> HIDE DEF l
    <3>3. Run(l, 0) = <<>>
      BY <3>1, RunIs
    <3> QED
      BY <3>1, <3>2, <3>3
  <2>6. a.ended => F /\ l = N
    <3> SUFFICES ASSUME a.ended PROVE F /\ l = N
      OBVIOUS
    <3>1. p.refused = <<>> /\ F /\ l + Len(p.refused) = N
      BY <2>4 DEF Counted
    <3>2. l + Len(<<>>) = l
      BY <2>5
    <3> QED
      BY <3>1, <3>2
  <2>7. a.out = Run(0, l)
    BY <2>4 DEF Counted
  <2>8. Counted(q, a, q.refused, q.refusedFin, N, F)
    BY <2>2, <2>5, <2>6, <2>7 DEF Counted
  <2>9. Windowed(q, a, q.refused)
    BY <2>2 DEF Windowed
  <2>10. RcvOK(q, a, N, F)
    BY <1>2, <2>2, <2>4, <2>8, <2>9 DEF RcvOK
  <2>11. Kept(q, N, F, H)
    BY <1>1, <2>2 DEF Kept
  <2>12. AcksOK(A \cup ToSet(s.tx), q, N)
    <3> DEFINE B == A \cup ToSet(r.tx)
    <3>1. Pos(p.nxt) <= Pos(q.nxt)
      BY <1>2, <2>2 DEF p
    <3>2. q.state # "ESTABLISHED" /\ AcksOK(B, p, N)
      BY <1>1, <2>2
    <3> HIDE DEF B
    <3>3. AcksOK(B, q, N)
      BY <1>2, <2>2, <3>1, <3>2, AcksLater
    <3> QED
      BY <2>3, <3>3 DEF B
  <2>13. Good(s, A, N, F, H)
    BY <2>3, <2>10, <2>11, <2>12 DEF Good
  <2>14. Advances(r, s)
    <3>1. Advances(r, r)
      BY <1>1, AdvancesSame
    <3> QED
      BY <2>2, <2>3, <3>1 DEF Advances, p, a
  <2> QED
    BY <2>13, <2>14 DEF s
<1>4. CASE ~Between(m.seq, p.nxt, Plus(p.nxt, p.wnd))
  <2>1. s = OutputAck(r)
    BY <1>4 DEF ResetIn
  <2>2. LET o == OutputAck(r) IN Good(o, A, N, F, H) /\ Advances(r, o)
    BY OutputAckOK
  <2> QED
    BY <2>1, <2>2
<1> QED
  BY <1>3, <1>4

\* tcp_recved: the room that the application has made is announced, or not yet.
LEMMA RecvedOK ==
  ASSUME NEW r, NEW A, NEW N \in 0..Bytes, NEW F, NEW H \in Nat, Good(r, A, N, F, H),
         r.p.state # "RESET", NEW n \in Nat, n <= r.app.unread
  PROVE  LET p == [r.p EXCEPT !.wnd = Smaller((@ + n) % WndWidth, TCP_WND)]
             s == [r EXCEPT !.p = UpdateAnnWnd(p), !.app.unread = @ - n]
         IN Good(s, A, N, F, H) /\ Advances(r, s) /\ s.p.state = r.p.state
<1> DEFINE o == r.p
           w == Smaller((o.wnd + n) % WndWidth, TCP_WND)
           p == [o EXCEPT !.wnd = w]
           q == UpdateAnnWnd(p)
           a == r.app
           u == a.unread - n
           b == [a EXCEPT !.unread = u]
           s == [r EXCEPT !.p = q, !.app = b]
<1>1. r \in Handlers /\ RcvOK(o, a, N, F) /\ Kept(o, N, F, H)
      /\ AcksOK(A \cup ToSet(r.tx), o, N)
  BY DEF Good
<1>2. /\ o \in RcvPcbs /\ a \in Apps /\ o.refused \in Seq(Nat) /\ o.refusedFin \in BOOLEAN
      /\ a.out \in Seq(Nat) /\ a.unread \in Nat /\ o.wnd \in Nat /\ o.annwnd \in Nat
      /\ Pos(o.nxt) \in Nat /\ Pos(o.edge) \in Nat /\ o.state # "RESET"
  BY <1>1, HandlerTypes
<1>3. Counted(o, a, o.refused, o.refusedFin, N, F) /\ Windowed(o, a, o.refused)
      /\ a.written = N /\ (o.refusedFin => o.refused # <<>>)
  BY <1>1 DEF RcvOK
<1>4. s = [r EXCEPT !.p = UpdateAnnWnd([r.p EXCEPT !.wnd = Smaller((@ + n) % WndWidth, TCP_WND)]),
                    !.app.unread = @ - n]
  BY <1>1 DEF Handlers
<1> HIDE DEF o, a
<1>5. w \in 0..TCP_WND /\ w \in Windows
  <2> DEFINE x == (o.wnd + n) % WndWidth
  <2>1. x \in 0..(WndWidth - 1)
    <3> DEFINE y == o.wnd + n
    <3>1. y \in Int
      BY <1>2
    <3>2. WndWidth \in Nat \ {0}
      BY Widths
    <3> HIDE DEF y
    <3>3. y % WndWidth \in 0..(WndWidth - 1)
      BY <3>1, <3>2, Remainder
    <3> QED
      BY <3>3 DEF y
  <2> HIDE DEF x
  <2>2. Smaller(x, TCP_WND) \in 0..TCP_WND /\ Smaller(x, TCP_WND) \in 0..(WndWidth - 1)
    BY <2>1, Widths DEF Smaller
  <2> QED
    BY <2>2 DEF x, Windows
<1>6. o.state = "ESTABLISHED" => /\ w = o.wnd + n /\ Pos(o.nxt) \in 0..Bytes
                                 /\ Pos(o.edge) <= Pos(o.nxt) + o.annwnd /\ o.annwnd <= o.wnd
                                 /\ o.wnd + a.unread + Len(o.refused) = TCP_WND
  <2> SUFFICES ASSUME o.state = "ESTABLISHED"
               PROVE  /\ w = o.wnd + n /\ Pos(o.nxt) \in 0..Bytes
                      /\ Pos(o.edge) <= Pos(o.nxt) + o.annwnd /\ o.annwnd <= o.wnd
                      /\ o.wnd + a.unread + Len(o.refused) = TCP_WND
    OBVIOUS
  <2>1. /\ Pos(o.edge) <= Pos(o.nxt) + o.annwnd /\ o.annwnd <= o.wnd
        /\ o.wnd + a.unread + Len(o.refused) = TCP_WND
    BY <1>3 DEF Windowed
  <2>2. Len(o.refused) \in Nat /\ n <= a.unread
    BY <1>2 DEF a
  <2> DEFINE x == o.wnd + n
  <2>3. x \in Nat /\ x <= TCP_WND /\ x \in 0..(WndWidth - 1)
    <3> DEFINE i == o.wnd
               j == a.unread
               k == Len(o.refused)
    <3>1. i \in Nat /\ j \in Nat /\ k \in Nat /\ i + j + k = TCP_WND /\ n <= j
      BY <1>2, <2>1, <2>2
    <3>2. TCP_WND \in Nat /\ TCP_WND < WndWidth /\ WndWidth \in Nat
      BY Widths
    <3> HIDE DEF i, j, k
    <3>3. i + n \in Nat /\ i + n <= TCP_WND /\ i + n \in 0..(WndWidth - 1)
      BY <3>1, <3>2
    <3> QED
      BY <3>3 DEF i
  <2> HIDE DEF x
  <2>4. x % WndWidth = x
    BY <2>3, Widths, RemainderSame
  <2>5. w = x
    BY <2>3, <2>4, Widths DEF x, Smaller
  <2>6. Pos(o.nxt) \in 0..Bytes
    <3> DEFINE d == o.refused
               f == o.refusedFin
    <3>1. d \in Seq(Nat) /\ f \in BOOLEAN /\ Counted(o, a, d, f, N, F)
      BY <1>2, <1>3
    <3> HIDE DEF d, f
    <3>2. LET l == Len(a.out) + Len(d)
          IN /\ l \in 0..N /\ l \in 0..Bytes /\ l \in Nat
             /\ o.state = "ESTABLISHED" => o.nxt = At(l) /\ Pos(o.nxt) = l /\ ~f /\ ~a.ended
      BY <1>2, <3>1, NxtIs
    <3> QED
      BY <3>2
  <2> QED
    BY <2>1, <2>5, <2>6 DEF x
<1> HIDE DEF w
<1>7. /\ p \in RcvPcbs /\ p.state = o.state /\ p.nxt = o.nxt /\ p.wnd = w /\ p.annwnd = o.annwnd
      /\ p.edge = o.edge /\ p.ooseq = o.ooseq /\ p.refused = o.refused
      /\ p.refusedFin = o.refusedFin
  BY <1>2, <1>5 DEF RcvPcbs
<1> HIDE DEF p
<1>8. /\ q \in RcvPcbs /\ q = [p EXCEPT !.annwnd = q.annwnd]
      /\ o.state = "ESTABLISHED" => /\ Pos(o.edge) <= Pos(o.nxt) + q.annwnd
                                    /\ q.annwnd <= w
  <2> DEFINE open == o.state = "ESTABLISHED"
  <2>1. open \in BOOLEAN
    OBVIOUS
  <2>2. open => /\ Pos(p.nxt) \in 0..Bytes /\ p.wnd \in 0..TCP_WND
                /\ Pos(p.edge) <= Pos(p.nxt) + p.wnd
    <3> SUFFICES ASSUME o.state = "ESTABLISHED"
                 PROVE  /\ Pos(p.nxt) \in 0..Bytes /\ p.wnd \in 0..TCP_WND
                        /\ Pos(p.edge) <= Pos(p.nxt) + p.wnd
      OBVIOUS
    <3>1. /\ w = o.wnd + n /\ Pos(o.nxt) \in 0..Bytes
          /\ Pos(o.edge) <= Pos(o.nxt) + o.annwnd /\ o.annwnd <= o.wnd
      BY <1>6
    <3>2. Pos(o.edge) <= Pos(o.nxt) + w
      BY <1>2, <3>1
    <3> QED
      BY <1>5, <1>7, <3>1, <3>2
  <2>3. ~open => Lt(p.edge, p.nxt) \/ Minus(p.edge, p.nxt) < WndWidth
    <3> SUFFICES ASSUME o.state # "ESTABLISHED"
                 PROVE  Lt(p.edge, p.nxt) \/ Minus(p.edge, p.nxt) < WndWidth
      OBVIOUS
    <3>1. o.state = "CLOSE_WAIT"
      BY <1>2 DEF RcvPcbs, RcvStates
    <3>2. Lt(o.edge, o.nxt) \/ Minus(o.edge, o.nxt) < WndWidth
      BY <1>3, <3>1 DEF Windowed
    <3> QED
      BY <1>7, <3>2
  <2> HIDE DEF open
  <2>4. /\ q \in RcvPcbs /\ q = [p EXCEPT !.annwnd = q.annwnd]
        /\ open => /\ Pos(p.edge) <= Pos(p.nxt) + q.annwnd
                   /\ q.annwnd <= p.wnd
    BY <1>7, <2>1, <2>2, <2>3, UpdateAnnWndOK
  <2> HIDE DEF q
  <2> QED
    BY <1>7, <2>4 DEF open
<1> HIDE DEF q
<1>9. /\ q.state = o.state /\ q.nxt = o.nxt /\ q.wnd = w /\ q.edge = o.edge /\ q.ooseq = o.ooseq
      /\ q.refused = o.refused /\ q.refusedFin = o.refusedFin
  <2> DEFINE v == q.annwnd
  <2>1. q = [p EXCEPT !.annwnd = v]
    BY <1>8
  <2> HIDE DEF v
  <2> QED
    BY <1>7, <2>1 DEF RcvPcbs
<1>10. u \in Nat
  <2>1. n <= a.unread
    BY DEF a
  <2> QED
    BY <1>2, <2>1
<1> HIDE DEF u
<1>11. /\ b \in Apps /\ b.out = a.out /\ b.written = a.written /\ b.ended = a.ended
       /\ b.unread = u
  BY <1>2, <1>10 DEF Apps
<1> HIDE DEF b
<1>12. s.p = q /\ s.app = b /\ s.tx = r.tx /\ s \in Handlers
  BY <1>1, <1>8, <1>11 DEF Handlers
<1> HIDE DEF s
<1>13. Counted(q, b, q.refused, q.refusedFin, N, F)
  BY <1>3, <1>9, <1>11 DEF Counted
<1>14. Windowed(q, b, q.refused)
  <2>1. CASE o.state = "ESTABLISHED"
    <3>1. w + u + Len(o.refused) = TCP_WND
      <4>1. w = o.wnd + n /\ o.wnd + a.unread + Len(o.refused) = TCP_WND /\ u = a.unread - n
        BY <1>6, <2>1 DEF u
      <4>2. Len(o.refused) \in Nat
        BY <1>2
      <4>3. ASSUME NEW i \in Nat, NEW j \in Nat, NEW l \in Nat, i + j + l = TCP_WND
            PROVE  (i + n) + (j - n) + l = TCP_WND
        BY <4>3
      <4> QED
        BY <1>2, <4>1, <4>2, <4>3, SMTT(30)
    <3> QED
      BY <1>8, <1>9, <1>11, <2>1, <3>1 DEF Windowed
  <2>2. CASE o.state # "ESTABLISHED"
    BY <1>3, <1>9, <2>2 DEF Windowed
  <2> QED
    BY <2>1, <2>2
<1>15. RcvOK(q, b, N, F)
  BY <1>2, <1>3, <1>8, <1>9, <1>11, <1>13, <1>14 DEF RcvOK
<1>16. Kept(q, N, F, H) /\ AcksOK(A \cup ToSet(s.tx), q, N)
  BY <1>1, <1>9, <1>12 DEF Kept, AcksOK
<1>17. Good(s, A, N, F, H)
  BY <1>12, <1>15, <1>16 DEF Good
<1>18. Advances(r, s)
  <2>1. Advances(r, r)
    BY <1>1, AdvancesSame
  <2> QED
    BY <1>9, <1>11, <1>12, <2>1 DEF Advances, o, a
<1> QED
  BY <1>4, <1>9, <1>12, <1>17, <1>18 DEF o

-----------------------------------------------------------------------------
(* The invariant.                                                          *)

\* Messages with data, a FIN or a RST
Msgs == [kind : {"seg"}, seq : Numbers, data : Seq(Nat), fin : BOOLEAN]
          \cup [kind : {"rst"}, seq : Numbers]

\* The network
Nets == [data : Seq(Msgs), acks : Seq(AckMsgs)]

\* What is left of the bounds
Bounds == [faults : Int, refused : Int]

\* A message to the receiving end: a reset comes from a sender that is gone.
DataOK(m, s, p, N) ==
  /\ m.kind = "rst" => s.state = "CLOSED"
  /\ m.kind = "seg" => Arrives(Seg(m.seq, m.data, m.fin), p, N, s.fin, High(s))

\* The ACKs that the sender has used, or will
AckSet(s, n) == ToSet(n.acks) \cup {AckMsg(s.wl2, s.wnd)}

\* What is around the sender s: the receiver p, the network n, the applications a
Around(s, p, n, a) ==
  /\ n \in Nets /\ a.written \in 0..Bytes
  /\ RcvOK(p, a, a.written, s.fin) /\ Kept(p, a.written, s.fin, High(s))
  /\ AcksOK(AckSet(s, n), p, a.written)
  /\ \A m \in ToSet(n.data) : DataOK(m, s, p, a.written)
  /\ p.state = "RESET" => s.state = "CLOSED"

\* The inductive invariant: the sending end, all that is around it, the bounds
IInv == SndOK(snd, app.written) /\ Around(snd, rcv, net, app) /\ left \in Bounds

\* The application has written more, or closed.
Later(N, F, K, G) ==
  \/ N = K /\ (F => G)
  \/ N <= K /\ ~F /\ ~G

\* Of two moments, the later has as many bytes, and a FIN if the first had it.
LEMMA OneLater ==
  ASSUME NEW N \in 0..Bytes, NEW F \in BOOLEAN, NEW K \in 0..Bytes, NEW G \in BOOLEAN,
         Later(N, F, K, G)
  PROVE  N <= K /\ N + One(F) <= K + One(G) /\ (F => G /\ N = K)
<1>1. N \in Int /\ K \in Int
  BY Widths
<1>2. CASE N = K /\ (F => G)
  BY <1>1, <1>2 DEF One
<1>3. CASE N <= K /\ ~F /\ ~G
  BY <1>1, <1>3 DEF One
<1> QED
  BY <1>2, <1>3 DEF Later

\* A piece of what was written is one of what is written later.
LEMMA PieceLater ==
  ASSUME NEW s \in Segs, NEW N \in 0..Bytes, NEW F \in BOOLEAN, NEW K \in 0..Bytes,
         NEW G \in BOOLEAN, Later(N, F, K, G), Piece(s, N, F)
  PROVE  Piece(s, K, G)
<1>1. N <= K /\ (F => G /\ N = K)
  BY OneLater
<1>2. DataTop(s) \in Nat /\ DataTop(s) <= N
  BY PieceFacts
<1>3. DataTop(s) <= K
  <2>1. ASSUME NEW i \in Nat, i <= N PROVE i <= K
    BY <1>1, <2>1, Widths
  <2> QED
    BY <1>2, <2>1
<1>4. s.fin => G /\ DataTop(s) = K
  BY <1>1 DEF Piece
<1> QED
  BY <1>3, <1>4 DEF Piece

\* So is what is queued out of sequence,
LEMMA QueuedLater ==
  ASSUME NEW q, NEW k \in Nat, NEW e \in Nat, NEW N \in 0..Bytes, NEW F \in BOOLEAN,
         NEW K \in 0..Bytes, NEW G \in BOOLEAN, Later(N, F, K, G), NEW H \in Nat, NEW J \in Nat,
         H <= J, Queued(q, k, e, N, F, H)
  PROVE  Queued(q, k, e, K, G, J)
<1>1. q \in Seq(Segs) /\ Oos(q, k, e, N, F, H)
  BY DEF Queued
<1>2. ASSUME NEW i \in 1..Len(q)
      PROVE  Piece(q[i], K, G) /\ k < Pos(q[i].seq) /\ DataTop(q[i]) <= e /\ Top(q[i]) <= J
  <2>1. /\ q[i] \in Segs /\ Piece(q[i], N, F) /\ k < Pos(q[i].seq) /\ DataTop(q[i]) <= e
        /\ Top(q[i]) <= H /\ Top(q[i]) \in Nat
    BY <1>1, OosFacts
  <2>2. Piece(q[i], K, G)
    BY <2>1, PieceLater
  <2>3. ASSUME NEW j \in Nat, j <= H PROVE j <= J
    BY <2>3
  <2> QED
    BY <2>1, <2>2, <2>3
<1> QED
  BY <1>1, <1>2 DEF Queued, Oos

\* what the receiving end keeps,
LEMMA KeptLater ==
  ASSUME NEW p \in RcvPcbs, NEW N \in 0..Bytes, NEW F \in BOOLEAN, NEW K \in 0..Bytes,
         NEW G \in BOOLEAN, Later(N, F, K, G), NEW H \in Nat, NEW J \in Nat, H <= J,
         Kept(p, N, F, H)
  PROVE  Kept(p, K, G, J)
<1>1. p.nxt \in Numbers /\ p.edge \in Numbers
  BY DEF RcvPcbs
<1>2. Pos(p.nxt) \in Nat /\ Pos(p.edge) \in Nat
  BY <1>1, AtPos
<1>3. p.state = "ESTABLISHED" => Queued(p.ooseq, Pos(p.nxt), Pos(p.edge), K, G, J)
  BY <1>2, QueuedLater DEF Kept
<1>4. Pos(p.nxt) <= J /\ Pos(p.nxt) <= K + One(G)
  <2>1. N + One(F) <= K + One(G) /\ N \in Nat /\ K \in Nat
    BY OneLater, Widths
  <2>2. N + One(F) \in Nat /\ K + One(G) \in Nat
    BY <2>1 DEF One
  <2>3. ASSUME NEW i \in Nat, NEW j \in Nat, NEW l \in Nat, i <= j, j <= l PROVE i <= l
    BY <2>3
  <2>4. Pos(p.nxt) <= H /\ Pos(p.nxt) <= N + One(F)
    BY DEF Kept
  <2> QED
    BY <1>2, <2>1, <2>2, <2>3, <2>4
<1> QED
  BY <1>3, <1>4 DEF Kept

\* what is under way,
LEMMA ArrivesLater ==
  ASSUME NEW s, NEW p, NEW N \in 0..Bytes, NEW F \in BOOLEAN, NEW K \in 0..Bytes,
         NEW G \in BOOLEAN, Later(N, F, K, G), NEW H \in Nat, NEW J \in Nat, H <= J,
         Arrives(s, p, N, F, H)
  PROVE  Arrives(s, p, K, G, J)
<1>1. s \in Segs /\ Piece(s, N, F) /\ Top(s) <= H
  BY DEF Arrives
<1>2. Piece(s, K, G)
  BY <1>1, PieceLater
<1>3. Top(s) <= J
  <2>1. ASSUME NEW j \in Nat, j <= H PROVE j <= J
    BY <2>1
  <2>2. Top(s) \in Nat
    BY <1>1, PieceFacts
  <2> QED
    BY <1>1, <2>1, <2>2
<1> QED
  BY <1>1, <1>2, <1>3 DEF Arrives

\* What the sending application does, the receiving one does not see.
Wrote(a, b, K) ==
  b \in Apps /\ b.written = K /\ b.out = a.out /\ b.unread = a.unread /\ b.ended = a.ended

\* and all of the receiving end.
LEMMA RcvLater ==
  ASSUME NEW p, NEW a, NEW b, NEW N \in 0..Bytes, NEW F \in BOOLEAN, NEW K \in 0..Bytes,
         NEW G \in BOOLEAN, Later(N, F, K, G), RcvOK(p, a, N, F), Wrote(a, b, K)
  PROVE  RcvOK(p, b, K, G)
<1>1. N <= K /\ (F => G /\ N = K)
  BY OneLater
<1>2. p \in RcvPcbs /\ a \in Apps /\ Counted(p, a, p.refused, p.refusedFin, N, F)
      /\ Windowed(p, a, p.refused)
  BY DEF RcvOK
<1>3. Windowed(p, b, p.refused)
  BY <1>2 DEF Windowed, Wrote
<1>4. Counted(p, b, p.refused, p.refusedFin, K, G)
  <2> DEFINE n == Len(a.out) + Len(p.refused)
  <2>1. n \in Nat /\ n <= N
    <3>1. a.out \in Seq(Nat) /\ p.refused \in Seq(Nat)
      BY <1>2 DEF RcvPcbs, Apps
    <3>2. Len(a.out) \in Nat /\ Len(p.refused) \in Nat
      BY <3>1
    <3>3. n <= N
      BY <1>2 DEF Counted
    <3>4. ASSUME NEW i \in Nat, NEW j \in Nat PROVE i + j \in Nat
      BY <3>4
    <3>5. n \in Nat
      BY <3>2, <3>4
    <3> QED
      BY <3>3, <3>5
  <2>2. n <= K
    <3>1. ASSUME NEW i \in Nat, i <= N PROVE i <= K
      BY <1>1, <3>1, Widths
    <3> HIDE DEF n
    <3> QED
      BY <2>1, <3>1
  <2>3. p.refusedFin \/ a.ended => G /\ n = K
    BY <1>1, <1>2 DEF Counted
  <2> QED
    BY <1>2, <2>2, <2>3 DEF Counted, Wrote
<1> QED
  BY <1>2, <1>3, <1>4 DEF RcvOK, Wrote

\* The highest position that was ever sent
LEMMA HighNat ==
  ASSUME NEW s \in Pcbs PROVE High(s) \in Nat /\ Pos(s.nxt) <= High(s) /\ s.fin \in BOOLEAN
<1>1. s.nxt \in Numbers /\ s.fin \in BOOLEAN
  BY DEF Pcbs
<1>2. Pos(s.nxt) \in Nat
  BY <1>1, AtPos
<1> QED
  BY <1>1, <1>2 DEF High

\* More is written, but it is for nobody to see: a later pair of ACKs is older than that.
LEMMA AcksWritten ==
  ASSUME NEW A, NEW p \in RcvPcbs, NEW N \in 0..Bytes, NEW F \in BOOLEAN, NEW K \in 0..Bytes,
         NEW G \in BOOLEAN, Later(N, F, K, G), Pos(p.nxt) <= N + One(F), AcksOK(A, p, N)
  PROVE  AcksOK(A, p, K)
<1>1. CASE N = K
  BY <1>1
<1>2. CASE N # K
  <2>1. ~F
    BY <1>2 DEF Later
  <2>2. Pos(p.nxt) \in Nat /\ Pos(p.nxt) <= N /\ N \in Nat
    <3>1. p.nxt \in Numbers
      BY DEF RcvPcbs
    <3>2. Pos(p.nxt) \in Nat
      BY <3>1, AtPos
    <3> QED
      BY <2>1, <3>2, Widths DEF One
  <2>3. ASSUME NEW j \in A PROVE Pos(j.ack) <= N
    <3>1. j \in AckMsgs /\ Pos(j.ack) <= Pos(p.nxt)
      BY DEF AcksOK
    <3>2. j.ack \in Numbers
      BY <3>1 DEF AckMsgs
    <3>3. Pos(j.ack) \in Nat
      BY <3>2, AtPos
    <3> QED
      BY <2>2, <3>1, <3>3
  <2> QED
    BY <2>3 DEF AcksOK
<1> QED
  BY <1>1, <1>2

\* The sender t that comes after s: what it has done is behind what s did.
Follows(s, t, n, a, K) ==
  /\ AckMsg(t.wl2, t.wnd) \in AckSet(s, n) /\ High(s) <= High(t)
  /\ s.state = "CLOSED" => t.state = "CLOSED"
  /\ Later(a.written, s.fin, K, t.fin)

\* What is around the sending end stays so when that end goes on.
LEMMA AroundMoves ==
  ASSUME NEW s \in Pcbs, NEW p, NEW n, NEW a, Around(s, p, n, a),
         NEW t \in Pcbs, NEW K \in 0..Bytes, Follows(s, t, n, a, K), NEW b, Wrote(a, b, K),
         NEW m \in Nets, ToSet(m.data) \subseteq ToSet(n.data), ToSet(m.acks) \subseteq ToSet(n.acks)
  PROVE  Around(t, p, m, b)
<1> DEFINE N == a.written
           F == s.fin
           G == t.fin
           H == High(s)
           J == High(t)
<1>1. /\ N \in 0..Bytes /\ RcvOK(p, a, N, F) /\ Kept(p, N, F, H) /\ AcksOK(AckSet(s, n), p, N)
      /\ p.state = "RESET" => s.state = "CLOSED"
  BY DEF Around
<1>2. F \in BOOLEAN /\ G \in BOOLEAN /\ H \in Nat /\ J \in Nat
  BY HighNat
<1>3. H <= J /\ Later(N, F, K, G) /\ b.written = K
  BY DEF Follows, Wrote
<1>4. \A d \in ToSet(n.data) : /\ d.kind = "rst" => s.state = "CLOSED"
                               /\ d.kind = "seg" => Arrives(Seg(d.seq, d.data, d.fin), p, N, F, H)
  BY DEF Around, DataOK
<1>5. p \in RcvPcbs /\ Pos(p.nxt) <= N + One(F)
  BY <1>1 DEF RcvOK, Kept
<1>6. AckSet(t, m) \subseteq AckSet(s, n)
  BY DEF Follows, AckSet
<1> HIDE DEF N, F, G, H, J
<1>7. RcvOK(p, b, K, G)
  BY <1>1, <1>2, <1>3, RcvLater
<1>8. Kept(p, K, G, J)
  BY <1>1, <1>2, <1>3, <1>5, KeptLater
<1>9. AcksOK(AckSet(t, m), p, K)
  <2> DEFINE B == AckSet(s, n)
             C == AckSet(t, m)
  <2>1. AcksOK(B, p, N) /\ C \subseteq B
    BY <1>1, <1>6
  <2> HIDE DEF B, C
  <2>2. AcksOK(B, p, K)
    BY <1>1, <1>2, <1>3, <1>5, <2>1, AcksWritten
  <2> QED
    BY <2>1, <2>2, AcksLess DEF C
<1>10. ASSUME NEW d \in ToSet(m.data)
       PROVE  /\ d.kind = "rst" => t.state = "CLOSED"
              /\ d.kind = "seg" => Arrives(Seg(d.seq, d.data, d.fin), p, K, G, J)
  <2> DEFINE x == Seg(d.seq, d.data, d.fin)
  <2>1. /\ d.kind = "rst" => s.state = "CLOSED"
        /\ d.kind = "seg" => Arrives(x, p, N, F, H)
    BY <1>4
  <2> HIDE DEF x
  <2>2. Arrives(x, p, N, F, H) => Arrives(x, p, K, G, J)
    BY <1>1, <1>2, <1>3, ArrivesLater
  <2> QED
    BY <2>1, <2>2 DEF Follows, x
<1> QED
  BY <1>1, <1>3, <1>7, <1>8, <1>9, <1>10 DEF Around, DataOK, Follows, G, J

\* The segments that tcp_output sends, as messages
SegMsgs(now) == [i \in DOMAIN now |-> SegMsg(now[i])]

\* The messages that carry segments
LEMMA SegMsgsIs ==
  ASSUME NEW now \in Seq(Segs)
  PROVE  /\ SegMsgs(now) \in Seq(Msgs) /\ Len(SegMsgs(now)) = Len(now)
         /\ \A i \in 1..Len(now) : SegMsgs(now)[i] = SegMsg(now[i])
<1>1. DOMAIN now = 1..Len(now) /\ \A i \in 1..Len(now) : now[i] \in Segs
  OBVIOUS
<1>2. \A i \in 1..Len(now) : SegMsg(now[i]) \in Msgs
  BY <1>1 DEF Segs, Msgs, SegMsg
<1>3. SegMsgs(now) = [i \in 1..Len(now) |-> SegMsg(now[i])]
  BY <1>1 DEF SegMsgs
<1> QED
  BY <1>2, <1>3

\* A segment that was sent comes in as it was.
LEMMA SegMsgSeg ==
  ASSUME NEW s \in Segs, Len(s.data) = s.len
  PROVE  LET m == SegMsg(s) IN m.kind = "seg" /\ Seg(m.seq, m.data, m.fin) = s /\ m \in Msgs
BY DEF SegMsg, Seg, Segs, Msgs

\* Messages are put behind those that are on their way.
LEMMA SendDataIs ==
  ASSUME NEW n \in Nets, NEW u \in Seq(Msgs)
  PROVE  LET m == SendData(n, u)
         IN m \in Nets /\ m.acks = n.acks /\ ToSet(m.data) \subseteq ToSet(n.data) \cup ToSet(u)
<1>1. n.data \in Seq(Msgs) /\ n.data \o u \in Seq(Msgs)
  BY DEF Nets
<1>2. ToSet(n.data \o u) \subseteq ToSet(n.data) \cup ToSet(u)
  BY <1>1, ToSetConcat
<1> QED
  BY <1>1, <1>2 DEF Nets, SendData

\* Sending messages that are in order keeps the network in order.
LEMMA AroundSends ==
  ASSUME NEW s, NEW p, NEW n, NEW a, Around(s, p, n, a), NEW u \in Seq(Msgs),
         \A d \in ToSet(u) : DataOK(d, s, p, a.written)
  PROVE  Around(s, p, SendData(n, u), a)
<1> DEFINE m == SendData(n, u)
<1>1. n \in Nets
  BY DEF Around
<1>2. m \in Nets /\ m.acks = n.acks /\ ToSet(m.data) \subseteq ToSet(n.data) \cup ToSet(u)
  BY <1>1, SendDataIs
<1> HIDE DEF m
<1>3. AckSet(s, m) = AckSet(s, n)
  BY <1>2 DEF AckSet
<1>4. \A d \in ToSet(m.data) : DataOK(d, s, p, a.written)
  BY <1>2 DEF Around
<1>5. Around(s, p, m, a)
  BY <1>2, <1>3, <1>4 DEF Around
<1> QED
  BY <1>5 DEF m

\* tcp_output, at the end of a handler
LEMMA AroundOutput ==
  ASSUME NEW s, NEW p, NEW n, NEW a, Around(s, p, n, a), Ready(s, a.written)
  PROVE  LET o == Output(s)
         IN /\ SndOK(o, a.written) /\ Around(o, p, SendData(n, SegMsgs(Sendable(s))), a)
            /\ o.fin = s.fin
<1> DEFINE N == a.written
           o == Output(s)
           now == Sendable(s)
           u == SegMsgs(now)
<1>1. N \in 0..Bytes /\ s \in Pcbs /\ n \in Nets /\ Ready(s, N) /\ NumbersOK(s, N)
  BY DEF Around, Ready
<1>2. /\ SndOK(o, N) /\ now \in Seq(Segs)
      /\ \A i \in 1..Len(now) : /\ Piece(now[i], N, s.fin)
                                /\ Top(now[i]) <= Pos(o.nxt)
                                /\ DataTop(now[i]) <= Pos(s.lastack) + s.wnd
  BY <1>1, OutputOK
<1>3. /\ o.state = s.state /\ o.fin = s.fin /\ o.lastack = s.lastack
      /\ o.wnd = s.wnd /\ o.wl2 = s.wl2 /\ High(s) <= High(o)
  BY <1>1, OutputSame
<1> HIDE DEF o, now
<1>4. o \in Pcbs
  BY <1>2 DEF SndOK
<1>5. Follows(s, o, n, a, N) /\ Wrote(a, a, N)
  <2>1. AckMsg(o.wl2, o.wnd) \in AckSet(s, n)
    BY <1>3 DEF AckSet
  <2>2. Later(a.written, s.fin, N, o.fin)
    BY <1>3 DEF Later
  <2>3. a \in Apps
    BY DEF Around, RcvOK
  <2> QED
    BY <1>3, <2>1, <2>2, <2>3 DEF Follows, Wrote
<1>6. Around(o, p, n, a)
  BY <1>1, <1>4, <1>5, AroundMoves
<1>7. u \in Seq(Msgs) /\ Len(u) = Len(now) /\ \A i \in 1..Len(now) : u[i] = SegMsg(now[i])
  BY <1>2, SegMsgsIs
<1>8. ASSUME NEW i \in 1..Len(now) PROVE DataOK(SegMsg(now[i]), o, p, N)
  <2> DEFINE x == now[i]
             d == SegMsg(x)
             k == Pos(s.lastack)
             l == Pos(s.wl2)
             e == Pos(p.edge)
             h == Pos(o.nxt)
  <2>1. x \in Segs /\ Piece(x, N, o.fin) /\ Top(x) <= h /\ DataTop(x) <= k + s.wnd
    BY <1>2, <1>3
  <2>2. DataTop(x) \in Nat /\ Top(x) \in Nat /\ Len(x.data) = x.len
    BY <1>1, <2>1, PieceFacts
  <2>3. k \in Nat /\ l \in Nat /\ s.wnd \in Nat /\ k <= l
    BY <1>1, PcbTypes DEF NumbersOK
  <2>4. h \in Nat /\ h <= High(o) /\ High(o) \in Nat
    <3>1. o.nxt \in Numbers
      BY <1>4 DEF Pcbs
    <3> QED
      BY <1>4, <3>1, AtPos, HighNat
  <2>5. p.state = "ESTABLISHED" => l + s.wnd <= e
    <3> DEFINE A == AckSet(s, n)
               g == AckMsg(s.wl2, s.wnd)
    <3>1. AcksOK(A, p, N) /\ g \in A /\ g.ack = s.wl2 /\ g.wnd = s.wnd
      BY DEF Around, AckSet, AckMsg
    <3> HIDE DEF A, g
    <3>2. p.state = "ESTABLISHED" => Pos(g.ack) + g.wnd <= e
      BY <3>1 DEF AcksOK
    <3> QED
      BY <3>1, <3>2
  <2>6. e \in Nat
    <3>1. p \in RcvPcbs
      BY DEF Around, RcvOK
    <3>2. p.edge \in Numbers
      BY <3>1 DEF RcvPcbs
    <3> QED
      BY <3>2, AtPos
  <2>7. d.kind = "seg" /\ Seg(d.seq, d.data, d.fin) = x
    BY <2>1, <2>2, SegMsgSeg
  <2> HIDE DEF x, d, k, l, e, h
  <2>8. Top(x) <= High(o)
    BY <2>1, <2>2, <2>4
  <2>9. p.state = "ESTABLISHED" => DataTop(x) <= e
    <3> SUFFICES ASSUME p.state = "ESTABLISHED" PROVE DataTop(x) <= e
      OBVIOUS
    <3>1. ASSUME NEW i1 \in Nat, NEW k1 \in Nat, NEW l1 \in Nat, NEW w1 \in Nat, NEW e1 \in Nat,
                 i1 <= k1 + w1, k1 <= l1, l1 + w1 <= e1
          PROVE  i1 <= e1
      BY <3>1
    <3> QED
      BY <2>1, <2>2, <2>3, <2>5, <2>6, <3>1
  <2>10. Arrives(x, p, N, o.fin, High(o))
    BY <2>1, <2>8, <2>9 DEF Arrives, e
  <2>11. DataOK(d, o, p, N)
    BY <2>7, <2>10 DEF DataOK
  <2> QED
    BY <2>11 DEF d, x
<1>9. \A d \in ToSet(u) : DataOK(d, o, p, N)
  BY <1>7, <1>8, ToSetIs
<1> HIDE DEF u
<1>10. Around(o, p, SendData(n, u), a)
  BY <1>6, <1>7, <1>9, AroundSends
<1> QED
  BY <1>2, <1>3, <1>10 DEF o, u, now

\* Whatever was on its way, less of it
LEMMA AroundLess ==
  ASSUME NEW s \in Pcbs, NEW p, NEW n, NEW a, Around(s, p, n, a),
         NEW m \in Nets, ToSet(m.data) \subseteq ToSet(n.data), ToSet(m.acks) \subseteq ToSet(n.acks)
  PROVE  Around(s, p, m, a)
<1>1. a.written \in 0..Bytes /\ a \in Apps
  BY DEF Around, RcvOK
<1>2. High(s) \in Nat
  BY HighNat
<1>3. Follows(s, s, n, a, a.written) /\ Wrote(a, a, a.written)
  BY <1>1, <1>2 DEF Follows, Wrote, AckSet, Later
<1> QED
  BY <1>1, <1>3, AroundMoves

-----------------------------------------------------------------------------
(* The steps of the sending end.                                           *)

\* A state in which the sender has closed, or has not, as before
LEMMA StateOK ==
  ASSUME NEW p, NEW N \in 0..Bytes, Ready(p, N), NEW st \in SndStates,
         st \in {"ESTABLISHED", "CLOSE_WAIT"} <=> p.state \in {"ESTABLISHED", "CLOSE_WAIT"}
  PROVE  LET q == [p EXCEPT !.state = st]
         IN /\ Ready(q, N) /\ (SndOK(p, N) => SndOK(q, N)) /\ q.state = st
            /\ q.fin = p.fin /\ q.wnd = p.wnd /\ q.wl2 = p.wl2 /\ High(q) = High(p)
<1> DEFINE q == [p EXCEPT !.state = st]
<1>1. p \in Pcbs
  BY DEF Ready
<1>2. /\ q.state = st /\ q.unacked = p.unacked /\ q.unsent = p.unsent /\ q.lastack = p.lastack
      /\ q.nxt = p.nxt /\ q.lbb = p.lbb /\ q.wnd = p.wnd /\ q.wl2 = p.wl2
      /\ q.persist = p.persist /\ q.fin = p.fin /\ q.infr = p.infr
  BY <1>1 DEF Pcbs
<1>3. q \in Pcbs
  BY <1>1 DEF Pcbs
<1> HIDE DEF q
<1>4. NumbersOK(p, N) => NumbersOK(q, N)
  BY <1>2 DEF NumbersOK
<1>5. ASSUME NEW c PROVE Holds(c, p, N) <=> Holds(c, q, N)
  BY <1>2 DEF Holds
<1>6. Resends(p, N) <=> Resends(q, N)
  BY <1>2, <1>5 DEF Resends
<1>7. Queue(q) = Queue(p)
  BY <1>2 DEF Queue
<1>8. High(q) = High(p)
  BY <1>2 DEF High
<1>9. Ready(q, N)
  BY <1>3, <1>4, <1>5, <1>6, <1>7 DEF Ready
<1>10. SndOK(p, N) => SndOK(q, N)
  BY <1>3, <1>4, <1>5, <1>7 DEF SndOK
<1> QED
  BY <1>2, <1>8, <1>9, <1>10 DEF q

\* SndOK is Ready with nothing to put back.
LEMMA SndReady == ASSUME NEW p, NEW N, SndOK(p, N) PROVE Ready(p, N)
BY DEF SndOK, Ready

\* The invariant in parts
LEMMA IInvFacts ==
  ASSUME IInv
  PROVE  /\ snd \in Pcbs /\ app.written \in 0..Bytes /\ SndOK(snd, app.written)
         /\ NumbersOK(snd, app.written) /\ Around(snd, rcv, net, app) /\ net \in Nets
         /\ app \in Apps /\ rcv \in RcvPcbs /\ left \in Bounds /\ High(snd) \in Nat
         /\ (snd.fin <=> snd.state \notin {"ESTABLISHED", "CLOSE_WAIT"}) /\ snd.fin \in BOOLEAN
<1>1. SndOK(snd, app.written) /\ Around(snd, rcv, net, app) /\ left \in Bounds
  BY DEF IInv
<1>2. snd \in Pcbs /\ NumbersOK(snd, app.written)
  BY <1>1 DEF SndOK
<1>3. app.written \in 0..Bytes /\ net \in Nets /\ app \in Apps /\ rcv \in RcvPcbs
  BY <1>1 DEF Around, RcvOK
<1> QED
  BY <1>1, <1>2, <1>3, HighNat DEF NumbersOK

\* tcp_write keeps the invariant.
LEMMA WriteOK ==
  ASSUME IInv, Write
  PROVE  IInv' /\ snd'.fin = snd.fin /\ ~snd.fin /\ app'.written \in Nat /\ app'.written > app.written
<1> USE IInvFacts
<1> DEFINE N == app.written
<1>1. PICK n \in 1..Smaller(Bytes - app.written, snd.buf) :
        LET p == Enqueued(snd, n)
        IN /\ snd.state \in {"ESTABLISHED", "CLOSE_WAIT"}
           /\ app' = [app EXCEPT !.written = @ + n]
           /\ IF Nagle(p, 1) THEN Sends(p, net) ELSE snd' = p /\ UNCHANGED net
           /\ UNCHANGED <<rcv, left>>
  BY DEF Write
<1> DEFINE K == N + n
           p == Enqueued(snd, n)
<1>2. n \in Nat \ {0} /\ K \in 0..Bytes /\ N <= K /\ app.written + n <= Bytes /\ n <= snd.buf
  <2>1. snd.buf \in Nat /\ Bytes \in Nat /\ N \in 0..Bytes
    BY Widths DEF Pcbs
  <2> QED
    BY <2>1 DEF Smaller
<1>3. ~snd.fin
  BY <1>1
<1>4. SndOK(p, K) /\ WriteKeeps(p, snd) /\ p.fin = snd.fin /\ p.state = snd.state
  BY <1>2, <1>3, EnqueuedOK
<1>5. Wrote(app, app', K)
  <2>1. K \in Nat
    BY <1>2, Widths
  <2>2. app' = [app EXCEPT !.written = K]
    BY <1>1 DEF Apps
  <2> HIDE DEF K
  <2> QED
    BY <2>1, <2>2 DEF Wrote, Apps
<1>6. rcv' = rcv /\ left' = left
  BY <1>1
<1>7. /\ Nagle(p, 1) => snd' = Output(p) /\ net' = SendData(net, SegMsgs(Sendable(p)))
      /\ ~Nagle(p, 1) => snd' = p /\ net' = net
  BY <1>1 DEF Sends, SegMsgs
<1> HIDE DEF p
<1>8. Follows(snd, p, net, app, K)
  <2>1. High(p) = High(snd) /\ p.wl2 = snd.wl2 /\ p.wnd = snd.wnd
    BY <1>4 DEF WriteKeeps
  <2>2. Later(app.written, snd.fin, K, p.fin)
    BY <1>2, <1>3, <1>4 DEF Later
  <2> QED
    BY <1>4, <2>1, <2>2 DEF Follows, AckSet
<1>9. Around(p, rcv, net, app')
  <2>1. p \in Pcbs /\ K \in 0..Bytes
    BY <1>2, <1>4 DEF SndOK
  <2> HIDE DEF K
  <2> QED
    BY <1>5, <1>8, <2>1, AroundMoves
<1>10. app'.written = K
  BY <1>5 DEF Wrote
<1>11. SndOK(snd', app'.written) /\ Around(snd', rcv, net', app') /\ snd'.fin = p.fin
  <2>1. CASE Nagle(p, 1)
    <3>1. Ready(p, app'.written)
      BY <1>4, <1>10, SndReady
    <3> QED
      BY <1>7, <1>9, <2>1, <3>1, AroundOutput
  <2>2. CASE ~Nagle(p, 1)
    BY <1>4, <1>7, <1>9, <1>10, <2>2
  <2> QED
    BY <2>1, <2>2
<1>12. app'.written \in Nat /\ app'.written > app.written
  BY <1>2, <1>10, Widths
<1> QED
  BY <1>3, <1>4, <1>6, <1>11, <1>12 DEF IInv

\* tcp_close keeps it.
LEMMA CloseOK == ASSUME IInv, Close PROVE IInv' /\ ~snd.fin /\ snd'.fin = TRUE
<1> USE IInvFacts
<1> DEFINE N == app.written
           f == Finished(snd)
           st == IF f.state = "ESTABLISHED" THEN "FIN_WAIT_1" ELSE "LAST_ACK"
           e == [f EXCEPT !.state = st]
<1>1. /\ snd.state \in {"ESTABLISHED", "CLOSE_WAIT"} /\ (snd.unsent # <<>> \/ snd.buf > 0)
      /\ Sends([Finished(snd) EXCEPT !.state = IF @ = "ESTABLISHED" THEN "FIN_WAIT_1"
                                           ELSE "LAST_ACK"], net)
      /\ rcv' = rcv /\ app' = app /\ left' = left
  BY DEF Close
<1>2. Sends(e, net)
  BY <1>1
<1>3. snd' = Output(e) /\ net' = SendData(net, SegMsgs(Sendable(e)))
  BY <1>2 DEF Sends, SegMsgs
<1>4. st \in SndStates \ {"ESTABLISHED", "CLOSE_WAIT"} /\ ~snd.fin
  BY <1>1 DEF SndStates
<1>5. SndOK(e, N) /\ WriteKeeps(e, snd) /\ e.fin = TRUE /\ e.state = st
  <2> HIDE DEF st
  <2> QED
    BY <1>1, <1>4, FinishedOK
<1> HIDE DEF e, st
<1>6. Follows(snd, e, net, app, N) /\ Wrote(app, app, N)
  <2>1. High(e) = High(snd) /\ e.wl2 = snd.wl2 /\ e.wnd = snd.wnd
    BY <1>5 DEF WriteKeeps
  <2>2. Later(app.written, snd.fin, N, e.fin)
    BY <1>5 DEF Later
  <2>3. snd.state # "CLOSED"
    BY <1>1
  <2> QED
    BY <2>1, <2>2, <2>3 DEF Follows, AckSet, Wrote
<1>7. Around(e, rcv, net, app)
  <2>1. e \in Pcbs
    BY <1>5 DEF SndOK
  <2> QED
    BY <1>6, <2>1, AroundMoves
<1>8. SndOK(snd', app.written) /\ Around(snd', rcv, net', app) /\ snd'.fin = TRUE
  BY <1>3, <1>5, <1>7, SndReady, AroundOutput
<1> QED
  BY <1>1, <1>4, <1>8 DEF IInv

\* What is known of an ACK on its way is what the sender needs.
LEMMA AckComes ==
  ASSUME IInv, NEW i \in DOMAIN net.acks
  PROVE  LET m == net.acks[i]
         IN /\ AckFits(snd, m, app.written) /\ m \in ToSet(net.acks) /\ m \in AckMsgs
            /\ AckMsg(m.ack, m.wnd) = m
            /\ LET n == [net EXCEPT !.acks = RemoveAt(@, i)]
               IN n \in Nets /\ n.data = net.data /\ ToSet(n.acks) \subseteq ToSet(net.acks)
<1> USE IInvFacts
<1> DEFINE N == app.written
           A == AckSet(snd, net)
           g == AckMsg(snd.wl2, snd.wnd)
           m == net.acks[i]
           k == Pos(rcv.nxt)
<1>1. net.acks \in Seq(AckMsgs) /\ i \in 1..Len(net.acks)
  BY DEF Nets
<1>2. m \in AckMsgs /\ m \in ToSet(net.acks)
  BY <1>1, ToSetIs
<1>3. AckMsg(m.ack, m.wnd) = m
  BY <1>2 DEF AckMsg, AckMsgs
<1>4. AcksOK(A, rcv, N) /\ k <= N + One(snd.fin) /\ k <= High(snd)
  BY DEF Around, Kept
<1>5. m \in A /\ g \in A /\ g.ack = snd.wl2 /\ g.wnd = snd.wnd
  BY <1>2 DEF AckSet, AckMsg
<1> HIDE DEF A, g, m
<1>6. Pos(m.ack) <= k /\ Pos(g.ack) <= k
  BY <1>4, <1>5 DEF AcksOK
<1>7. Pos(g.ack) < Pos(m.ack) /\ Pos(m.ack) <= N => Pos(g.ack) + g.wnd <= Pos(m.ack) + m.wnd
  BY <1>4, <1>5 DEF AcksOK
<1>8. m.ack \in Numbers /\ m.wnd \in Windows
  BY <1>2 DEF AckMsgs
<1>9. Pos(m.ack) \in Nat /\ Pos(g.ack) \in Nat /\ k \in Nat /\ High(snd) \in Nat
      /\ N + One(snd.fin) \in Nat
  <2>1. snd.wl2 \in Numbers /\ rcv.nxt \in Numbers
    BY DEF Pcbs, RcvPcbs
  <2>2. N \in Nat
    BY Widths
  <2> HIDE DEF N
  <2>3. N + One(snd.fin) \in Nat
    BY <2>2 DEF One
  <2> QED
    BY <1>5, <1>8, <2>1, <2>3, AtPos
<1>10. /\ Pos(m.ack) <= N + One(snd.fin) /\ Pos(m.ack) <= High(snd)
       /\ Pos(snd.wl2) <= N + One(snd.fin)
  <2>1. ASSUME NEW x \in Nat, NEW y \in Nat, NEW z \in Nat, x <= y, y <= z PROVE x <= z
    BY <2>1
  <2> HIDE DEF N, k
  <2> QED
    BY <1>4, <1>5, <1>6, <1>9, <2>1
<1>11. AckFits(snd, m, N)
  BY <1>5, <1>7, <1>8, <1>10 DEF AckFits
<1>12. LET n == [net EXCEPT !.acks = RemoveAt(@, i)]
       IN n \in Nets /\ n.data = net.data /\ ToSet(n.acks) \subseteq ToSet(net.acks)
  <2> DEFINE r == RemoveAt(net.acks, i)
  <2>1. r \in Seq(AckMsgs) /\ ToSet(r) \subseteq ToSet(net.acks)
    BY <1>1, ToSetRemoveAt
  <2> HIDE DEF r
  <2>2. LET n == [net EXCEPT !.acks = r]
        IN n \in Nets /\ n.data = net.data /\ ToSet(n.acks) \subseteq ToSet(net.acks)
    BY <2>1 DEF Nets
  <2> QED
    BY <2>2 DEF r
<1> QED
  BY <1>2, <1>3, <1>11, <1>12 DEF m

\* A sequence of one message has that one.
LEMMA ToSetOne == ASSUME NEW S, NEW d \in S PROVE <<d>> \in Seq(S) /\ \A e \in ToSet(<<d>>) : e = d
<1>1. <<d>> \in Seq(S) /\ Len(<<d>>) = 1 /\ <<d>>[1] = d
  OBVIOUS
<1> DEFINE q == <<d>>
<1> HIDE DEF q
<1>2. q \in Seq(S) /\ Len(q) = 1 /\ q[1] = d
  BY <1>1 DEF q
<1>3. \A e \in ToSet(q) : e = d
  BY <1>2, ToSetIs
<1> QED
  BY <1>2, <1>3 DEF q

\* A message that overtakes others is one fault more.
LEMMA OvertakingOK == ASSUME left \in Bounds, NEW i PROVE Overtaking(i) \in Bounds
BY DEF Overtaking, Bounds

\* tcp_receive of an ACK at the sending end keeps the invariant.
LEMMA AckInOK == ASSUME IInv, AckIn PROVE IInv' /\ snd'.fin = snd.fin
<1> USE IInvFacts
<1>1. PICK i \in DOMAIN net.acks :
        LET m == net.acks[i]
            p == Acknowledged(snd, m)
            q == [p EXCEPT !.state = NextState(@, m.ack = p.nxt)]
            n == [net EXCEPT !.acks = RemoveAt(@, i)]
        IN /\ CanOvertake(i)
           /\ IF snd.state = "CLOSED"
              THEN net' = SendData(n, <<RstMsg(m.ack)>>) /\ UNCHANGED snd
              ELSE IF q.state = "CLOSED" THEN snd' = q /\ net' = n
              ELSE Sends(q, n)
           /\ left' = Overtaking(i)
           /\ UNCHANGED <<rcv, app>>
  BY DEF AckIn
<1> DEFINE N == app.written
           m == net.acks[i]
           p == Acknowledged(snd, m)
           st == NextState(p.state, m.ack = p.nxt)
           q == [p EXCEPT !.state = st]
           n == [net EXCEPT !.acks = RemoveAt(@, i)]
<1>2. /\ AckFits(snd, m, N) /\ m \in ToSet(net.acks) /\ m \in AckMsgs
      /\ AckMsg(m.ack, m.wnd) = m
      /\ n \in Nets /\ n.data = net.data /\ ToSet(n.acks) \subseteq ToSet(net.acks)
  BY AckComes
<1>3. Ready(p, N) /\ AckKeeps(snd, p, m) /\ (m.ack = p.nxt => SndOK(p, N))
  BY <1>2, AckOK
<1>4. p \in Pcbs /\ q = [p EXCEPT !.state = NextState(@, m.ack = p.nxt)]
  BY <1>3 DEF Ready, Pcbs
<1>5. /\ snd.state = "CLOSED" => net' = SendData(n, <<RstMsg(m.ack)>>) /\ snd' = snd
      /\ snd.state # "CLOSED" /\ q.state = "CLOSED" => snd' = q /\ net' = n
      /\ snd.state # "CLOSED" /\ q.state # "CLOSED"
           => snd' = Output(q) /\ net' = SendData(n, SegMsgs(Sendable(q)))
      /\ left' = Overtaking(i) /\ rcv' = rcv /\ app' = app
  BY <1>1, <1>4 DEF Sends, SegMsgs
<1> HIDE DEF m, p, n
<1>6. /\ st \in SndStates /\ (st = "CLOSED" => p.state = "CLOSED" \/ m.ack = p.nxt)
      /\ st \in {"ESTABLISHED", "CLOSE_WAIT"} <=> p.state \in {"ESTABLISHED", "CLOSE_WAIT"}
      /\ p.state = "CLOSED" => st = "CLOSED"
  <2>1. p.state \in SndStates
    BY <1>4 DEF Pcbs
  <2> QED
    BY <2>1 DEF NextState, SndStates
<1> HIDE DEF st
<1>7. /\ Ready(q, N) /\ (SndOK(p, N) => SndOK(q, N)) /\ q.state = st
      /\ q.fin = p.fin /\ q.wnd = p.wnd /\ q.wl2 = p.wl2 /\ High(q) = High(p)
  <2>1. N \in 0..Bytes
    OBVIOUS
  <2> HIDE DEF N
  <2> QED
    BY <1>3, <1>6, <2>1, StateOK
<1> HIDE DEF q
<1>8. Around(snd, rcv, n, app)
  BY <1>2, AroundLess
<1>9. CASE snd.state = "CLOSED"
  <2> DEFINE d == RstMsg(m.ack)
  <2>1. d \in Msgs /\ d.kind = "rst"
    BY <1>2 DEF RstMsg, Msgs, AckMsgs
  <2> HIDE DEF d
  <2>2. DataOK(d, snd, rcv, N)
    BY <1>9, <2>1 DEF DataOK
  <2>3. <<d>> \in Seq(Msgs) /\ \A e \in ToSet(<<d>>) : e = d
    BY <2>1, ToSetOne
  <2>4. Around(snd, rcv, SendData(n, <<d>>), app)
    BY <1>8, <2>2, <2>3, AroundSends
  <2>5. SndOK(snd', N) /\ Around(snd', rcv', net', app') /\ app'.written = N
    BY <1>5, <1>9, <2>4 DEF d
  <2> QED
    BY <1>5, <1>9, <2>5, OvertakingOK DEF IInv
<1>10. CASE snd.state # "CLOSED"
  <2>1. q \in Pcbs
    BY <1>7 DEF Ready
  <2>2. Follows(snd, q, net, app, N) /\ Wrote(app, app, N)
    <3>1. AckMsg(q.wl2, q.wnd) \in AckSet(snd, net)
      BY <1>2, <1>3, <1>7 DEF AckKeeps, AckSet
    <3>2. High(snd) <= High(q) /\ q.fin = snd.fin
      BY <1>3, <1>7 DEF AckKeeps
    <3> QED
      BY <1>10, <3>1, <3>2 DEF Follows, Later, Wrote
  <2>3. Around(q, rcv, n, app)
    BY <1>2, <2>1, <2>2, AroundMoves
  <2>4. CASE q.state = "CLOSED"
    <3>1. p.state # "CLOSED"
      BY <1>3, <1>10 DEF AckKeeps
    <3>2. SndOK(q, N)
      BY <1>3, <1>6, <1>7, <2>4, <3>1
    <3>3. SndOK(snd', N) /\ Around(snd', rcv', net', app') /\ app'.written = N
          /\ snd'.fin = snd.fin
      BY <1>3, <1>5, <1>7, <1>10, <2>3, <2>4, <3>2 DEF AckKeeps
    <3> QED
      BY <1>5, <3>3, OvertakingOK DEF IInv
  <2>5. CASE q.state # "CLOSED"
    <3>1. SndOK(snd', N) /\ Around(snd', rcv', net', app') /\ app'.written = N
          /\ snd'.fin = q.fin
      BY <1>5, <1>7, <1>10, <2>3, <2>5, AroundOutput
    <3>2. snd'.fin = snd.fin
      BY <1>3, <1>7, <3>1 DEF AckKeeps
    <3> QED
      BY <1>5, <3>1, <3>2, OvertakingOK DEF IInv
  <2> QED
    BY <2>4, <2>5
<1> QED
  BY <1>9, <1>10

\* So does tcp_slowtmr when it retransmits,
LEMMA RexmitStep == ASSUME IInv, Rexmit PROVE IInv' /\ snd'.fin = snd.fin
<1> USE IInvFacts
<1> DEFINE N == app.written
           e == [snd EXCEPT !.ssthresh = Larger(Smaller(snd.cwnd, snd.wnd) \div 2, 2 * MSS),
                            !.cwnd = MSS, !.unsent = snd.unacked \o snd.unsent,
                            !.unacked = <<>>]
<1>1. /\ snd.unacked # <<>> /\ snd.state # "CLOSED"
      /\ Sends([snd EXCEPT !.ssthresh = Larger(Smaller(snd.cwnd, snd.wnd) \div 2, 2 * MSS),
                       !.cwnd = MSS,
                       !.unsent = snd.unacked \o @, !.unacked = <<>>], net)
      /\ left' = (IF Quiet THEN left ELSE [left EXCEPT !.faults = @ - 1])
      /\ rcv' = rcv /\ app' = app
  BY DEF Rexmit
<1>2. Sends(e, net)
  <2>1. e = [snd EXCEPT !.ssthresh = Larger(Smaller(snd.cwnd, snd.wnd) \div 2, 2 * MSS),
                        !.cwnd = MSS, !.unsent = snd.unacked \o @, !.unacked = <<>>]
    BY DEF Pcbs
  <2> HIDE DEF e
  <2> QED
    BY <1>1, <2>1
<1>3. /\ SndOK(e, N) /\ e.nxt = snd.nxt /\ e.lastack = snd.lastack
      /\ e.wnd = snd.wnd /\ e.wl2 = snd.wl2 /\ e.fin = snd.fin /\ e.state = snd.state
  BY RexmitOK
<1> HIDE DEF e
<1>4. snd' = Output(e) /\ net' = SendData(net, SegMsgs(Sendable(e)))
  BY <1>2 DEF Sends, SegMsgs
<1>5. e \in Pcbs /\ High(snd) <= High(e)
  <2>1. e \in Pcbs
    BY <1>3 DEF SndOK
  <2>2. High(snd) = Pos(snd.nxt) /\ Pos(e.nxt) <= High(e)
    BY <1>1, <2>1, HighNat DEF High
  <2> QED
    BY <1>3, <2>1, <2>2
<1>6. Follows(snd, e, net, app, N) /\ Wrote(app, app, N)
  BY <1>3, <1>5 DEF Follows, AckSet, Later, Wrote
<1>7. Around(e, rcv, net, app)
  BY <1>5, <1>6, AroundMoves
<1>8. SndOK(snd', app.written) /\ Around(snd', rcv, net', app) /\ snd'.fin = e.fin
  BY <1>3, <1>4, <1>7, SndReady, AroundOutput
<1>9. left' \in Bounds
  BY <1>1 DEF Bounds
<1> QED
  BY <1>1, <1>3, <1>8, <1>9 DEF IInv

\* when it gives up waiting for the FIN of the peer,
LEMMA FinWaitTimeoutOK == ASSUME IInv, FinWaitTimeout PROVE IInv' /\ snd'.fin = snd.fin
<1> USE IInvFacts
<1> DEFINE N == app.written
           st == "CLOSED"
           q == [snd EXCEPT !.state = st]
<1>1. /\ snd.state = "FIN_WAIT_2" /\ snd' = q
      /\ rcv' = rcv /\ net' = net /\ app' = app /\ left' = left
  BY DEF FinWaitTimeout
<1>2. st \in SndStates
      /\ (st \in {"ESTABLISHED", "CLOSE_WAIT"} <=> snd.state \in {"ESTABLISHED", "CLOSE_WAIT"})
  BY <1>1 DEF SndStates
<1> HIDE DEF st
<1>3. /\ SndOK(q, N) /\ q.state = st
      /\ q.fin = snd.fin /\ q.wnd = snd.wnd /\ q.wl2 = snd.wl2 /\ High(q) = High(snd)
  BY <1>2, SndReady, StateOK
<1> HIDE DEF q
<1>4. q \in Pcbs
  BY <1>3 DEF SndOK
<1>5. Follows(snd, q, net, app, N) /\ Wrote(app, app, N)
  BY <1>1, <1>3 DEF Follows, AckSet, Later, Wrote, st
<1>6. Around(q, rcv, net, app)
  BY <1>4, <1>5, AroundMoves
<1> QED
  BY <1>1, <1>3, <1>6 DEF IInv

\* A probe is the first byte that is kept, or the FIN.
ProbeSeg(s) == IF s.len = 0 THEN s ELSE Seg(s.seq, <<Head(s.data)>>, FALSE)

\* (a probe is the first byte, or the FIN, of a segment)
LEMMA ProbeSegOK ==
  ASSUME NEW s \in Segs, NEW N \in 0..Bytes, NEW F, Piece(s, N, F)
  PROVE  LET t == ProbeSeg(s)
         IN /\ t \in Segs /\ Piece(t, N, F) /\ t.seq = s.seq /\ t.len <= 1
            /\ Top(t) = Pos(s.seq) + 1 /\ Len(t.data) = t.len /\ Top(t) <= Top(s)
<1>1. /\ Pos(s.seq) \in Nat /\ s.seq \in Numbers /\ s.len \in Nat /\ s.fin \in BOOLEAN
      /\ Len(s.data) = s.len /\ DataTop(s) <= N /\ Pos(s.seq) < Top(s) /\ Top(s) \in Nat
  BY PieceFacts
<1>2. s.data = Run(Pos(s.seq), s.len) /\ (s.fin \/ s.len > 0)
  BY DEF Piece
<1>3. CASE s.len = 0
  <2>1. s.fin /\ DataTop(s) = Pos(s.seq)
    BY <1>1, <1>2, <1>3 DEF DataTop
  <2>2. Top(s) = Pos(s.seq) + 1
    BY <2>1 DEF Top, One
  <2>3. ProbeSeg(s) = s
    BY <1>3 DEF ProbeSeg
  <2> QED
    BY <1>1, <1>3, <2>2, <2>3
<1>4. CASE s.len # 0
  <2> DEFINE k == Pos(s.seq)
             n == s.len
             h == Head(s.data)
             b == <<h>>
             t == Seg(s.seq, b, FALSE)
  <2>1. k \in Nat /\ n \in Nat /\ n > 0
    BY <1>1, <1>4
  <2>2. Run(k, n) \in Seq(Nat) /\ Len(Run(k, n)) = n /\ Run(k, n)[1] = k + 1
    <3> HIDE DEF k, n
    <3>1. Run(k, n) \in Seq(Nat) /\ Len(Run(k, n)) = n /\ \A i \in 1..n : Run(k, n)[i] = k + i
      BY <2>1, RunIs
    <3>2. 1 \in 1..n
      BY <2>1
    <3> QED
      BY <3>1, <3>2
  <2>3. h = k + 1 /\ h \in Nat
    BY <1>2, <2>1, <2>2
  <2> HIDE DEF h
  <2>4. b \in Seq(Nat) /\ Len(b) = 1 /\ b[1] = k + 1
    BY <2>3
  <2> HIDE DEF b
  <2>5. b = Run(k, 1)
    <3>1. \A i \in 1..1 : b[i] = k + i
      BY <2>4
    <3> HIDE DEF k
    <3> QED
      BY <2>1, <2>4, <3>1, IsRun
  <2>6. t.seq = s.seq /\ t.len = 1 /\ t.data = b /\ t.fin = FALSE /\ t \in Segs
    BY <1>1, <2>4 DEF Seg, Segs
  <2> HIDE DEF t
  <2>7. DataTop(t) = k + 1 /\ Top(t) = k + 1
    BY <2>1, <2>6 DEF DataTop, Top, One
  <2>8. k + 1 <= N
    <3>1. k + n <= N
      BY <1>1 DEF DataTop
    <3> QED
      BY <2>1, <3>1, Widths
  <2>9. Piece(t, N, F)
    BY <2>5, <2>6, <2>7, <2>8 DEF Piece
  <2>10. Top(t) <= Top(s)
    BY <1>1, <2>1, <2>7
  <2>11. ProbeSeg(s) = t
    BY <1>4 DEF ProbeSeg, t, b, h
  <2>12. t.len <= 1 /\ Len(t.data) = t.len
    BY <2>4, <2>6
  <2> QED
    BY <2>6, <2>7, <2>9, <2>10, <2>11, <2>12
<1> QED
  BY <1>3, <1>4

\* and when it probes a window of zero.
LEMMA ProbeOK == ASSUME IInv, Probe PROVE IInv'
<1> USE IInvFacts
<1> DEFINE N == app.written
           q == Queue(snd)
           s == q[1]
           t == ProbeSeg(s)
           d == SegMsg(t)
<1>1. /\ q # <<>> /\ net' = SendData(net, <<d>>)
      /\ snd' = snd /\ rcv' = rcv /\ app' = app /\ left' = left
  <2>1. LET s1 == Head(q)
        IN /\ q # <<>> /\ snd' = snd /\ rcv' = rcv /\ app' = app /\ left' = left
           /\ net' = SendData(net, <<SegMsg(IF s1.len = 0 THEN s1
                                            ELSE Seg(s1.seq, <<Head(s1.data)>>, FALSE))>>)
    BY DEF Probe, Queue
  <2> HIDE DEF q
  <2>2. Head(q) = s
    OBVIOUS
  <2> HIDE DEF s
  <2> QED
    BY <2>1, <2>2 DEF ProbeSeg
<1>2. snd.unacked \in Seq(Segs) /\ snd.unsent \in Seq(Segs) /\ snd.lastack \in Numbers
      /\ snd.nxt \in Numbers /\ snd.wl2 \in Numbers /\ snd.wnd \in Nat /\ rcv.nxt \in Numbers
      /\ rcv.edge \in Numbers
  BY DEF Pcbs, RcvPcbs, Windows
<1>3. q \in Seq(Segs) /\ (snd.unacked # <<>> => q[1] = snd.unacked[1] /\ 1 \in 1..Len(snd.unacked))
  <2>1. q \in Seq(Segs) /\ \A i \in 1..Len(snd.unacked) : q[i] = snd.unacked[i]
    <3> DEFINE u == snd.unacked
               v == snd.unsent
    <3>1. u \in Seq(Segs) /\ v \in Seq(Segs) /\ q = u \o v
      BY <1>2 DEF Queue
    <3> HIDE DEF u, v, q
    <3>2. q \in Seq(Segs) /\ \A i \in 1..Len(u) : q[i] = u[i]
      BY <3>1, Behind
    <3> QED
      BY <3>2 DEF u
  <2>2. snd.unacked # <<>> => 1 \in 1..Len(snd.unacked)
    BY <1>2
  <2> QED
    BY <2>1, <2>2
<1>4. Holds(q, snd, N)
  BY DEF SndOK
<1>5. s \in Segs /\ Piece(s, N, snd.fin) /\ Pos(s.seq) <= Pos(snd.lastack)
  <2>1. 1 \in 1..Len(q)
    BY <1>1, <1>3
  <2> HIDE DEF q
  <2>2. s \in Segs /\ Piece(s, N, snd.fin)
    BY <1>3, <1>4, <2>1, HeldFacts
  <2> QED
    BY <1>1, <1>4, <2>2 DEF Holds
<1>6. /\ Pos(snd.lastack) <= Pos(snd.nxt) /\ Pos(snd.lastack) <= Pos(snd.wl2)
      /\ snd.unacked # <<>> => Top(s) <= Pos(snd.nxt)
  BY <1>3 DEF NumbersOK
<1> DEFINE A == AckSet(snd, net)
           g == AckMsg(snd.wl2, snd.wnd)
<1>7. AcksOK(A, rcv, N) /\ g \in A /\ g.ack = snd.wl2 /\ g.wnd = snd.wnd
  BY DEF Around, AckSet, AckMsg
<1> HIDE DEF A, g, q
<1>8. Pos(snd.wl2) <= Pos(rcv.nxt)
      /\ (rcv.state = "ESTABLISHED" => Pos(snd.wl2) + snd.wnd <= Pos(rcv.edge))
  BY <1>7 DEF AcksOK
<1>9. /\ t \in Segs /\ Piece(t, N, snd.fin) /\ t.seq = s.seq /\ t.len <= 1
      /\ Top(t) = Pos(s.seq) + 1 /\ Len(t.data) = t.len /\ Top(t) <= Top(s)
  BY <1>5, ProbeSegOK
<1>10. Pos(s.seq) \in Nat /\ Top(s) \in Nat /\ Pos(snd.lastack) \in Nat /\ Pos(snd.nxt) \in Nat
       /\ Pos(snd.wl2) \in Nat /\ Pos(rcv.nxt) \in Nat /\ Pos(rcv.edge) \in Nat
  BY <1>2, <1>5, PieceFacts, AtPos
<1>11. snd.lastack = snd.nxt <=> Pos(snd.lastack) = Pos(snd.nxt)
  <2>1. At(Pos(snd.lastack)) = snd.lastack /\ At(Pos(snd.nxt)) = snd.nxt
    BY <1>2, AtPos
  <2> QED
    BY <2>1
<1> HIDE DEF s, t
<1> DEFINE x == Pos(s.seq)
           l == Pos(snd.lastack)
           m == Pos(snd.nxt)
<1>12. Top(t) <= High(snd)
  <2>1. x \in Nat /\ l \in Nat /\ m \in Nat /\ Top(t) = x + 1 /\ x <= l /\ l <= m
    BY <1>5, <1>6, <1>9, <1>10
  <2>2. CASE snd.unacked = <<>> /\ snd.lastack = snd.nxt
    <3>1. High(snd) = m + 1
      BY <2>2 DEF High
    <3> HIDE DEF x, l, m
    <3> QED
      BY <2>1, <3>1
  <2>3. CASE snd.unacked # <<>>
    <3>1. High(snd) = m /\ Top(s) <= m /\ Top(t) <= Top(s)
      BY <1>6, <1>9, <2>3 DEF High
    <3> HIDE DEF x, l, m
    <3> QED
      BY <1>10, <2>1, <3>1
  <2>4. CASE snd.lastack # snd.nxt
    <3>1. High(snd) = m /\ l # m
      BY <1>11, <2>4 DEF High
    <3> HIDE DEF x, l, m
    <3> QED
      BY <2>1, <3>1
  <2> QED
    BY <2>2, <2>3, <2>4
<1>13. x <= Pos(rcv.nxt) /\ (rcv.state = "ESTABLISHED" => x <= Pos(rcv.edge))
  <2>1. ASSUME NEW i \in Nat, NEW j \in Nat, NEW k \in Nat, NEW e \in Nat, NEW w \in Nat,
               i <= j, j <= k
        PROVE  (k <= e => i <= e) /\ (k + w <= e => i <= e)
    BY <2>1
  <2> HIDE DEF l
  <2>2. x \in Nat /\ x <= l /\ l <= Pos(snd.wl2) /\ l \in Nat
    BY <1>5, <1>6, <1>10 DEF l
  <2> HIDE DEF x
  <2> QED
    BY <1>2, <1>8, <1>10, <2>1, <2>2
<1>14. Arrives(t, rcv, N, snd.fin, High(snd))
  BY <1>9, <1>12, <1>13 DEF Arrives
<1>15. d.kind = "seg" /\ Seg(d.seq, d.data, d.fin) = t /\ d \in Msgs
  BY <1>9, SegMsgSeg
<1> HIDE DEF d
<1>16. DataOK(d, snd, rcv, N)
  BY <1>14, <1>15 DEF DataOK
<1>17. Around(snd, rcv, SendData(net, <<d>>), app)
  <2>1. <<d>> \in Seq(Msgs) /\ \A e \in ToSet(<<d>>) : e = d
    BY <1>15, ToSetOne
  <2>2. \A e \in ToSet(<<d>>) : DataOK(e, snd, rcv, N)
    BY <1>16, <2>1
  <2> QED
    BY <2>1, <2>2, AroundSends
<1> QED
  BY <1>1, <1>17 DEF IInv

\* Without one of its messages the network has only messages it had.
LEMMA RemoveData ==
  ASSUME net \in Nets, NEW i \in DOMAIN net.data
  PROVE  LET n == [net EXCEPT !.data = RemoveAt(@, i)]
         IN /\ n \in Nets /\ n.acks = net.acks /\ ToSet(n.data) \subseteq ToSet(net.data)
            /\ net.data[i] \in ToSet(net.data) /\ net.data[i] \in Msgs
<1>1. net.data \in Seq(Msgs) /\ i \in 1..Len(net.data)
  BY DEF Nets
<1> DEFINE r == RemoveAt(net.data, i)
<1>2. r \in Seq(Msgs) /\ ToSet(r) \subseteq ToSet(net.data)
  BY <1>1, ToSetRemoveAt
<1> HIDE DEF r
<1>3. LET n == [net EXCEPT !.data = r]
      IN n \in Nets /\ n.acks = net.acks /\ ToSet(n.data) \subseteq ToSet(net.data)
  BY <1>2 DEF Nets
<1>4. net.data[i] \in ToSet(net.data) /\ net.data[i] \in Msgs
  BY <1>1, ToSetIs
<1> QED
  BY <1>3, <1>4 DEF r

\* A lost message keeps the invariant.
LEMMA LoseOK == ASSUME IInv, Lose PROVE IInv'
<1> USE IInvFacts
<1>1. /\ snd' = snd /\ rcv' = rcv /\ app' = app /\ left' = [left EXCEPT !.faults = @ - 1]
      /\ \/ \E i \in DOMAIN net.data : net' = [net EXCEPT !.data = RemoveAt(@, i)]
         \/ \E i \in DOMAIN net.acks : net' = [net EXCEPT !.acks = RemoveAt(@, i)]
  BY DEF Lose
<1>2. net' \in Nets /\ ToSet(net'.data) \subseteq ToSet(net.data)
      /\ ToSet(net'.acks) \subseteq ToSet(net.acks)
  <2>1. CASE \E i \in DOMAIN net.data : net' = [net EXCEPT !.data = RemoveAt(@, i)]
    BY <2>1, RemoveData
  <2>2. CASE \E i \in DOMAIN net.acks : net' = [net EXCEPT !.acks = RemoveAt(@, i)]
    BY <2>2, AckComes
  <2> QED
    BY <1>1, <2>1, <2>2
<1>3. Around(snd, rcv, net', app)
  BY <1>2, AroundLess
<1>4. left' \in Bounds
  BY <1>1 DEF Bounds
<1> QED
  BY <1>1, <1>3, <1>4 DEF IInv

\* A repeated message keeps it.
LEMMA RepeatOK == ASSUME IInv, Repeat PROVE IInv'
<1> USE IInvFacts
<1>1. /\ snd' = snd /\ rcv' = rcv /\ app' = app /\ left' = [left EXCEPT !.faults = @ - 1]
      /\ \/ \E m \in ToSet(net.data) : net' = SendData(net, <<m>>)
         \/ \E m \in ToSet(net.acks) : net' = SendAcks(net, <<m>>)
  BY DEF Repeat
<1>2. net.data \in Seq(Msgs) /\ net.acks \in Seq(AckMsgs)
  BY DEF Nets
<1>3. Around(snd, rcv, net', app)
  <2>1. CASE \E m \in ToSet(net.data) : net' = SendData(net, <<m>>)
    <3>1. PICK m \in ToSet(net.data) : net' = SendData(net, <<m>>)
      BY <2>1
    <3>2. m \in Msgs /\ DataOK(m, snd, rcv, app.written)
      BY <1>2, ToSetIs DEF Around
    <3>3. <<m>> \in Seq(Msgs) /\ \A e \in ToSet(<<m>>) : e = m
      BY <3>2, ToSetOne
    <3>4. \A e \in ToSet(<<m>>) : DataOK(e, snd, rcv, app.written)
      BY <3>2, <3>3
    <3> QED
      BY <3>1, <3>3, <3>4, AroundSends
  <2>2. CASE \E m \in ToSet(net.acks) : net' = SendAcks(net, <<m>>)
    <3>1. PICK m \in ToSet(net.acks) : net' = SendAcks(net, <<m>>)
      BY <2>2
    <3>2. m \in AckMsgs
      BY <1>2, ToSetIs
    <3>3. <<m>> \in Seq(AckMsgs) /\ \A d \in ToSet(<<m>>) : d = m
      BY <3>2, ToSetOne
    <3> DEFINE u == <<m>>
               v == net.acks \o u
    <3>4. v \in Seq(AckMsgs) /\ ToSet(v) \subseteq ToSet(net.acks)
      <4>1. u \in Seq(AckMsgs) /\ \A d \in ToSet(u) : d = m
        BY <3>3
      <4> HIDE DEF u
      <4>2. ToSet(v) \subseteq ToSet(net.acks) \cup ToSet(u)
        BY <1>2, <4>1, ToSetConcat
      <4> QED
        BY <1>2, <4>1, <4>2
    <3>5. net' = [net EXCEPT !.acks = v]
      BY <3>1 DEF SendAcks, Nets
    <3> HIDE DEF v
    <3>6. net' \in Nets /\ net'.data = net.data /\ ToSet(net'.acks) \subseteq ToSet(net.acks)
      BY <3>4, <3>5 DEF Nets
    <3> QED
      BY <3>6, AroundLess
  <2> QED
    BY <1>1, <2>1, <2>2
<1>4. left' \in Bounds
  BY <1>1 DEF Bounds
<1> QED
  BY <1>1, <1>3, <1>4 DEF IInv

-----------------------------------------------------------------------------
(* The steps of the receiving end.                                         *)

\* tcp_output leaves the state as it is.
LEMMA OutputAckState ==
  ASSUME NEW r \in Handlers PROVE OutputAck(r).p.state = r.p.state
<1>1. r.p \in RcvPcbs
  BY DEF Handlers
<1> QED
  BY <1>1 DEF OutputAck, SendAck, Handlers, RcvPcbs

\* tcp_input of data does not reset the connection.
LEMMA InputState ==
  ASSUME NoWrap, NEW r, NEW A, NEW N \in 0..Bytes, NEW F, NEW H \in Nat, Good(r, A, N, F, H),
         r.p.state # "RESET",
         NEW m, Arrives(Seg(m.seq, m.data, m.fin), r.p, N, F, H), NEW refuse
  PROVE  Input(r, m, refuse).p.state # "RESET"
<1>1. CASE r.p.refused # <<>>
  BY <1>1 DEF Input
<1>2. CASE r.p.refused = <<>>
  <2> DEFINE t == Receive(r, m, refuse)
  <2>1. Good(t, A, N, F, H) /\ t.p.state # "RESET"
    BY <1>2, ReceiveOK
  <2>2. Input(r, m, refuse) = OutputAck(t)
    BY <1>2 DEF Input
  <2> HIDE DEF t
  <2>3. t \in Handlers
    BY <2>1 DEF Good
  <2> QED
    BY <2>1, <2>2, <2>3, OutputAckState
<1> QED
  BY <1>1, <1>2

\* A segment on its way stays one that may come in.
LEMMA ArrivesOn ==
  ASSUME NEW x, NEW r \in Handlers, NEW s \in Handlers, Advances(r, s),
         NEW N \in 0..Bytes, NEW F, NEW H \in Nat, Arrives(x, r.p, N, F, H)
  PROVE  Arrives(x, s.p, N, F, H)
<1> DEFINE a == Pos(r.p.edge)
           b == Pos(s.p.edge)
           c == Pos(r.p.nxt)
           e == Pos(s.p.nxt)
           k == Pos(x.seq)
           l == DataTop(x)
<1>1. a \in Nat /\ b \in Nat /\ c \in Nat /\ e \in Nat
  BY HandlerTypes
<1>2. x \in Segs /\ Piece(x, N, F) /\ Top(x) <= H
  BY DEF Arrives
<1>3. k \in Nat /\ l \in Nat
  BY <1>2, PieceFacts
<1>4. c <= e /\ (s.p.state = "ESTABLISHED" => r.p.state = "ESTABLISHED" /\ a <= b)
  BY DEF Advances
<1>5. r.p.state = "ESTABLISHED" => l <= a \/ (x.len <= 1 /\ k <= c /\ k <= a)
  BY DEF Arrives
<1> HIDE DEF a, b, c, e, k, l
<1>6. s.p.state = "ESTABLISHED" => l <= b \/ (x.len <= 1 /\ k <= e /\ k <= b)
  <2> SUFFICES ASSUME s.p.state = "ESTABLISHED"
               PROVE  l <= b \/ (x.len <= 1 /\ k <= e /\ k <= b)
    OBVIOUS
  <2>1. ASSUME NEW i \in Nat, NEW j \in Nat, NEW h \in Nat, i <= j, j <= h PROVE i <= h
    BY <2>1
  <2>2. c <= e /\ a <= b /\ (l <= a \/ (x.len <= 1 /\ k <= c /\ k <= a))
    BY <1>4, <1>5
  <2>3. CASE l <= a
    BY <1>1, <1>3, <2>1, <2>2, <2>3
  <2>4. CASE x.len <= 1 /\ k <= c /\ k <= a
    BY <1>1, <1>3, <2>1, <2>2, <2>4
  <2> QED
    BY <2>2, <2>3, <2>4
<1> QED
  BY <1>2, <1>6 DEF Arrives, b, e, k, l

\* A handler begins with the pcb as it is.
LEMMA HandlerOK ==
  ASSUME IInv
  PROVE  /\ Good(Handler, AckSet(snd, net), app.written, snd.fin, High(snd))
         /\ Handler \in Handlers /\ Advances(Handler, Handler)
         /\ Handler.p = rcv /\ Handler.app = app
<1> USE IInvFacts
<1>1. Handler.p = rcv /\ Handler.app = app /\ Handler.tx = <<>> /\ Handler \in Handlers
  <2>1. left.refused \in Int /\ <<>> \in Seq(AckMsgs)
    BY DEF Bounds
  <2> QED
    BY <2>1 DEF Handler, Handlers
<1>2. AckSet(snd, net) \cup ToSet(<<>>) = AckSet(snd, net)
  BY DEF ToSet
<1>3. RcvOK(rcv, app, app.written, snd.fin) /\ Kept(rcv, app.written, snd.fin, High(snd))
      /\ AcksOK(AckSet(snd, net), rcv, app.written)
  BY DEF Around
<1>4. Good(Handler, AckSet(snd, net), app.written, snd.fin, High(snd))
  BY <1>1, <1>2, <1>3 DEF Good
<1> QED
  BY <1>1, <1>4, AdvancesSame

\* And what it leaves is in order, whatever the messages it took.
LEMMA CommitOK ==
  ASSUME IInv, NEW r, Good(r, AckSet(snd, net), app.written, snd.fin, High(snd)),
         Advances(Handler, r), r.p.state = "RESET" => snd.state = "CLOSED",
         NEW n \in Nets, n.acks = net.acks, ToSet(n.data) \subseteq ToSet(net.data),
         NEW bounds \in Bounds, Commit(r, n, bounds)
  PROVE  IInv'
<1> USE IInvFacts
<1> DEFINE N == app.written
           F == snd.fin
           H == High(snd)
           A == AckSet(snd, net)
           m == SendAcks(n, r.tx)
<1>1. /\ rcv' = r.p /\ app' = r.app /\ net' = m /\ left' = [bounds EXCEPT !.refused = r.can]
      /\ snd' = snd
  BY DEF Commit
<1>2. r \in Handlers /\ RcvOK(r.p, r.app, N, F) /\ Kept(r.p, N, F, H)
      /\ AcksOK(A \cup ToSet(r.tx), r.p, N)
  BY DEF Good
<1>3. r.tx \in Seq(AckMsgs) /\ r.can \in Int /\ r.app.written = N
  BY <1>2 DEF Handlers, RcvOK
<1>4. m \in Nets /\ m.data = n.data /\ ToSet(m.acks) \subseteq ToSet(net.acks) \cup ToSet(r.tx)
  <2> DEFINE u == n.acks
             v == r.tx
  <2>1. u \in Seq(AckMsgs) /\ v \in Seq(AckMsgs)
    BY <1>3 DEF Nets
  <2> HIDE DEF u, v
  <2>2. u \o v \in Seq(AckMsgs) /\ ToSet(u \o v) \subseteq ToSet(u) \cup ToSet(v)
    BY <2>1, ToSetConcat
  <2> DEFINE w == u \o v
  <2>3. m = [n EXCEPT !.acks = w]
    BY DEF SendAcks, Nets, u, v
  <2> HIDE DEF w, m
  <2>4. m \in Nets /\ m.data = n.data /\ m.acks = w
    BY <2>2, <2>3 DEF Nets, w
  <2> QED
    BY <2>2, <2>4 DEF u, v, w
<1>5. AcksOK(AckSet(snd, m), r.p, N)
  <2>1. AckSet(snd, m) \subseteq A \cup ToSet(r.tx)
    BY <1>4 DEF AckSet
  <2> QED
    BY <1>2, <2>1, AcksLess
<1>6. ASSUME NEW d \in ToSet(m.data) PROVE DataOK(d, snd, r.p, N)
  <2>1. DataOK(d, snd, rcv, N)
    BY <1>4 DEF Around
  <2>2. Handler \in Handlers /\ Handler.p = rcv
    BY HandlerOK
  <2> DEFINE x == Seg(d.seq, d.data, d.fin)
             h == Handler
  <2>3. d.kind = "seg" => Arrives(x, h.p, N, F, H)
    BY <2>1, <2>2 DEF DataOK
  <2> HIDE DEF x, h
  <2>4. h \in Handlers /\ Advances(h, r)
    BY <2>2 DEF h
  <2>5. N \in 0..Bytes /\ H \in Nat
    OBVIOUS
  <2> HIDE DEF N, F, H
  <2>6. d.kind = "seg" => Arrives(x, r.p, N, F, H)
    BY <1>2, <2>3, <2>4, <2>5, ArrivesOn
  <2> QED
    BY <2>1, <2>6 DEF DataOK, x, N, F, H
<1> HIDE DEF m
<1>7. Around(snd, r.p, m, r.app)
  BY <1>2, <1>3, <1>4, <1>5, <1>6 DEF Around
<1>8. left' \in Bounds
  BY <1>1, <1>3 DEF Bounds
<1> QED
  BY <1>1, <1>3, <1>7, <1>8 DEF IInv

\* Handlers one after the other, from the pcb as it is
OK(r) == Good(r, AckSet(snd, net), app.written, snd.fin, High(snd)) /\ Advances(Handler, r)

\* A handler that goes on from a good state, and advances, leaves a good one.
LEMMA ThenOK ==
  ASSUME IInv, NEW r, OK(r), NEW s,
         Good(s, AckSet(snd, net), app.written, snd.fin, High(snd)), Advances(r, s)
  PROVE  OK(s)
<1>1. Handler \in Handlers /\ r \in Handlers /\ s \in Handlers /\ Advances(Handler, r)
  BY HandlerOK DEF OK, Good
<1> QED
  BY <1>1, AdvancesOn DEF OK

\* tcp_input at the receiving end leaves a good state.
LEMMA SegInHandler ==
  ASSUME NoWrap, IInv, NEW i \in DOMAIN net.data, NEW again, NEW refuse
  PROVE  LET m == net.data[i]
             r == Again(Handler, again)
             h == IF rcv.state = "RESET" THEN Handler
                  ELSE IF m.kind = "rst" THEN ResetIn(r, m) ELSE Input(r, m, refuse)
         IN OK(h) /\ (h.p.state = "RESET" => snd.state = "CLOSED")
<1> USE IInvFacts
<1> DEFINE N == app.written
           F == snd.fin
           H == High(snd)
           A == AckSet(snd, net)
           m == net.data[i]
           r == Again(Handler, again)
<1>1. Handler.p = rcv /\ OK(Handler) /\ (rcv.state = "RESET" => snd.state = "CLOSED")
  BY HandlerOK DEF OK, Around
<1>2. m \in Msgs /\ DataOK(m, snd, rcv, N)
  BY RemoveData DEF Around
<1>3. OK(r) /\ Good(r, A, N, F, H) /\ r.p.state = rcv.state
  <2> DEFINE g == Handler
  <2>1. Good(g, A, N, F, H) /\ g.p = rcv /\ N \in 0..Bytes /\ H \in Nat
    BY HandlerOK
  <2> HIDE DEF g, A, N, F, H
  <2>2. Good(Again(g, again), A, N, F, H) /\ Advances(g, Again(g, again))
        /\ Again(g, again).p.state = rcv.state
    BY <2>1, AgainOK
  <2> QED
    BY <2>2 DEF OK, g, A, N, F, H
<1> HIDE DEF m, r
<1>4. CASE rcv.state = "RESET"
  BY <1>1, <1>4
<1>5. CASE rcv.state # "RESET" /\ m.kind = "rst"
  <2> DEFINE s == ResetIn(r, m)
  <2>1. N \in 0..Bytes /\ H \in Nat /\ r.p.state # "RESET"
    BY <1>3, <1>5
  <2> HIDE DEF A, N, F, H
  <2>2. Good(s, A, N, F, H) /\ Advances(r, s)
    BY <1>3, <2>1, ResetInOK
  <2> HIDE DEF s
  <2>3. OK(s)
    BY <1>3, <2>2, ThenOK DEF A, N, F, H
  <2>4. snd.state = "CLOSED"
    BY <1>2, <1>5 DEF DataOK
  <2> QED
    BY <1>5, <2>3, <2>4 DEF s, m, r
<1>6. CASE rcv.state # "RESET" /\ m.kind # "rst"
  <2> DEFINE s == Input(r, m, refuse)
             x == Seg(m.seq, m.data, m.fin)
             g == Handler
  <2>1. N \in 0..Bytes /\ H \in Nat /\ r.p.state # "RESET" /\ r \in Handlers /\ g \in Handlers
        /\ g.p = rcv /\ Advances(g, r)
    BY <1>3, <1>6, HandlerOK DEF Good, OK
  <2>2. Arrives(x, g.p, N, F, H)
    <3>1. m.kind = "seg"
      BY <1>2, <1>6 DEF Msgs
    <3> QED
      BY <1>2, <2>1, <3>1 DEF DataOK
  <2> HIDE DEF A, N, F, H, x, g
  <2>3. Arrives(x, r.p, N, F, H)
    BY <2>1, <2>2, ArrivesOn
  <2>4. Good(s, A, N, F, H) /\ Advances(r, s)
    BY <1>3, <2>1, <2>3, InputOK DEF x
  <2>5. s.p.state # "RESET"
    BY <1>3, <2>1, <2>3, InputState DEF x
  <2> HIDE DEF s
  <2>6. OK(s)
    BY <1>3, <2>4, ThenOK DEF A, N, F, H
  <2> QED
    BY <1>6, <2>5, <2>6 DEF s, m, r
<1> QED
  BY <1>4, <1>5, <1>6

\* So the step that receives a message keeps the invariant.
LEMMA SegInOK == ASSUME NoWrap, IInv, SegIn PROVE IInv'
<1> USE IInvFacts
<1>1. PICK i \in DOMAIN net.data, again \in BOOLEAN, refuse \in BOOLEAN :
        LET m == net.data[i]
            n == [net EXCEPT !.data = RemoveAt(@, i)]
            r == Again(Handler, again)
        IN Commit(IF rcv.state = "RESET" THEN Handler
                  ELSE IF m.kind = "rst" THEN ResetIn(r, m) ELSE Input(r, m, refuse),
                  n, Overtaking(i))
  BY DEF SegIn
<1> DEFINE m == net.data[i]
           n == [net EXCEPT !.data = RemoveAt(@, i)]
           r == Again(Handler, again)
           h == IF rcv.state = "RESET" THEN Handler
                ELSE IF m.kind = "rst" THEN ResetIn(r, m) ELSE Input(r, m, refuse)
           b == Overtaking(i)
<1>2. Commit(h, n, b)
  BY <1>1
<1>3. OK(h) /\ (h.p.state = "RESET" => snd.state = "CLOSED")
  BY SegInHandler
<1>4. n \in Nets /\ n.acks = net.acks /\ ToSet(n.data) \subseteq ToSet(net.data)
  BY RemoveData
<1>5. b \in Bounds
  BY OvertakingOK
<1> HIDE DEF h, n, b
<1> QED
  BY <1>2, <1>3, <1>4, <1>5, CommitOK DEF OK

\* tcp_fasttmr leaves a good state.
LEMMA FastTmrHandler ==
  ASSUME IInv, rcv.state # "RESET", NEW again
  PROVE  LET r == IF "DELAY" \in rcv.flags THEN SendAck(Handler) ELSE Handler
             h == Again(r, again)
         IN OK(h) /\ h.p.state # "RESET"
<1> USE IInvFacts
<1> DEFINE N == app.written
           F == snd.fin
           H == High(snd)
           A == AckSet(snd, net)
           g == Handler
           r == IF "DELAY" \in rcv.flags THEN SendAck(g) ELSE g
           h == Again(r, again)
<1>1. Good(g, A, N, F, H) /\ g.p = rcv /\ OK(g) /\ N \in 0..Bytes /\ H \in Nat
      /\ g.p.state # "RESET" /\ g.p \in RcvPcbs
  BY HandlerOK DEF OK
<1>2. OK(r) /\ Good(r, A, N, F, H) /\ r.p.state = rcv.state
  <2>1. CASE "DELAY" \in rcv.flags
    <3> DEFINE s == SendAck(g)
    <3> HIDE DEF g, A, N, F, H
    <3>1. Good(s, A, N, F, H) /\ Advances(g, s) /\ Answered(g, s)
      BY <1>1, SendAckOK
    <3> HIDE DEF s
    <3>2. s.p.state = rcv.state
      BY <1>1, <3>1 DEF Answered, RcvPcbs
    <3>3. OK(s)
      BY <1>1, <3>1, ThenOK DEF A, N, F, H
    <3>4. r = s
      BY <2>1 DEF s
    <3> QED
      BY <3>1, <3>2, <3>3, <3>4
  <2>2. CASE "DELAY" \notin rcv.flags
    <3>1. r = g
      BY <2>2
    <3> HIDE DEF g, r, A, N, F, H
    <3> QED
      BY <1>1, <3>1
  <2> QED
    BY <2>1, <2>2
<1> HIDE DEF r, g
<1>3. Good(h, A, N, F, H) /\ Advances(r, h) /\ h.p.state = r.p.state
  <2> HIDE DEF A, N, F, H
  <2> QED
    BY <1>1, <1>2, AgainOK
<1> HIDE DEF h
<1>4. OK(h)
  BY <1>2, <1>3, ThenOK
<1> QED
  BY <1>2, <1>3, <1>4 DEF h, r, g

\* So its step keeps the invariant.
LEMMA FastTmrOK == ASSUME IInv, FastTmr PROVE IInv'
<1> USE IInvFacts
<1>1. PICK again \in BOOLEAN :
        /\ rcv.state # "RESET"
        /\ LET r == IF "DELAY" \in rcv.flags THEN SendAck(Handler) ELSE Handler
           IN Commit(Again(r, again), net, left)
  BY DEF FastTmr
<1> DEFINE r == IF "DELAY" \in rcv.flags THEN SendAck(Handler) ELSE Handler
           h == Again(r, again)
<1>2. Commit(h, net, left)
  BY <1>1
<1>3. OK(h) /\ h.p.state # "RESET"
  BY <1>1, FastTmrHandler
<1> HIDE DEF h
<1> QED
  BY <1>2, <1>3, CommitOK DEF OK

\* tcp_recved leaves a good state.
LEMMA RecvedHandler ==
  ASSUME IInv, rcv.state # "RESET", NEW n \in 1..app.unread
  PROVE  LET p == [rcv EXCEPT !.wnd = Smaller((@ + n) % WndWidth, TCP_WND)]
             r == [Handler EXCEPT !.p = UpdateAnnWnd(p), !.app.unread = @ - n]
             h == OutputAck(AckNow(r))
         IN /\ OK(r) /\ r.p.state # "RESET"
            /\ OK(h) /\ h.p.state # "RESET"
<1> USE IInvFacts
<1> DEFINE N == app.written
           F == snd.fin
           H == High(snd)
           A == AckSet(snd, net)
           g == Handler
           p == [g.p EXCEPT !.wnd = Smaller((@ + n) % WndWidth, TCP_WND)]
           r == [g EXCEPT !.p = UpdateAnnWnd(p), !.app.unread = @ - n]
           s == AckNow(r)
           h == OutputAck(s)
<1>1. Good(g, A, N, F, H) /\ g.p = rcv /\ OK(g) /\ N \in 0..Bytes /\ H \in Nat
      /\ g.p.state # "RESET" /\ g.app = app
  BY HandlerOK DEF OK
<1>2. n \in Nat /\ n <= g.app.unread
  <2>1. app.unread \in Nat
    BY DEF Apps
  <2> QED
    BY <1>1, <2>1
<1> HIDE DEF g, A, N, F, H
<1>3. Good(r, A, N, F, H) /\ Advances(g, r) /\ r.p.state = g.p.state
  BY <1>1, <1>2, RecvedOK
<1> HIDE DEF r
<1>4. Good(s, A, N, F, H) /\ Advances(r, s) /\ s.p.state = r.p.state
  BY <1>1, <1>3, AckFlagsOK
<1> HIDE DEF s
<1>5. Good(h, A, N, F, H) /\ Advances(s, h)
  BY <1>1, <1>3, <1>4, OutputAckOK
<1>6. h.p.state = s.p.state
  BY <1>4, OutputAckState DEF Good
<1> HIDE DEF h
<1>7. OK(r)
  BY <1>1, <1>3, ThenOK DEF A, N, F, H
<1>8. OK(s)
  BY <1>4, <1>7, ThenOK DEF A, N, F, H
<1>9. OK(h)
  BY <1>5, <1>8, ThenOK DEF A, N, F, H
<1>10. r = [Handler EXCEPT !.p = UpdateAnnWnd([rcv EXCEPT !.wnd =
                                                Smaller((@ + n) % WndWidth, TCP_WND)]),
                           !.app.unread = @ - n]
  BY <1>1 DEF r, g
<1>11. r.p.state # "RESET" /\ h.p.state # "RESET" /\ h = OutputAck(AckNow(r))
  BY <1>1, <1>3, <1>4, <1>6 DEF h, s
<1> QED
  BY <1>7, <1>9, <1>10, <1>11

\* So its step keeps the invariant.
LEMMA RecvedStep == ASSUME IInv, Recved PROVE IInv'
<1> USE IInvFacts
<1>1. PICK n \in 1..app.unread :
        LET p == [rcv EXCEPT !.wnd = Smaller((@ + n) % WndWidth, TCP_WND)]
            more == IF Announces(p) THEN Minus(Plus(p.nxt, p.wnd), p.edge) ELSE 0
            r == [Handler EXCEPT !.p = UpdateAnnWnd(p), !.app.unread = @ - n]
        IN /\ rcv.state # "RESET"
           /\ Commit(IF more >= TCP_WND \div 4 THEN OutputAck(AckNow(r)) ELSE r, net, left)
  BY DEF Recved
<1> DEFINE p == [rcv EXCEPT !.wnd = Smaller((@ + n) % WndWidth, TCP_WND)]
           more == IF Announces(p) THEN Minus(Plus(p.nxt, p.wnd), p.edge) ELSE 0
           r == [Handler EXCEPT !.p = UpdateAnnWnd(p), !.app.unread = @ - n]
           h == OutputAck(AckNow(r))
           f == IF more >= TCP_WND \div 4 THEN h ELSE r
<1>2. Commit(f, net, left) /\ rcv.state # "RESET"
  BY <1>1
<1>3. OK(r) /\ r.p.state # "RESET" /\ OK(h) /\ h.p.state # "RESET"
  BY <1>2, RecvedHandler
<1> HIDE DEF more, r, h
<1>4. OK(f) /\ f.p.state # "RESET"
  BY <1>3
<1> HIDE DEF f
<1> QED
  BY <1>2, <1>4, CommitOK DEF OK

-----------------------------------------------------------------------------
(* The invariant is inductive.                                             *)

\* The first numbers of the connection
LEMMA First ==
  /\ Pos(Iss) = 0 /\ At(0) = Iss /\ Iss \in Numbers
  /\ Plus(Iss, TCP_WND) \in Numbers /\ Pos(Plus(Iss, TCP_WND)) = TCP_WND
<1>1. 0 \in Nat /\ 0 <= Bytes + TCP_WND /\ TCP_WND \in Nat /\ TCP_WND <= Bytes + TCP_WND
  BY Widths
<1>2. 0 \in Numbers /\ TCP_WND \in Numbers
  BY <1>1, PosOf
<1>3. Pos(At(0)) = 0 /\ Pos(At(TCP_WND)) = TCP_WND /\ At(TCP_WND) \in Numbers
  BY <1>2, PosAt
<1>4. Iss \in Numbers /\ Iss \in Int
  BY Widths
<1>5. At(0) = Iss
  <2>1. SeqWidth \in Nat \ {0} /\ Iss \in 0..(SeqWidth - 1)
    BY Widths DEF Numbers
  <2>2. Iss % SeqWidth = Iss
    BY <2>1, RemainderSame
  <2>3. Iss + 0 = Iss
    BY <1>4
  <2> QED
    BY <2>2, <2>3 DEF At, Plus
<1> QED
  BY <1>3, <1>4, <1>5 DEF At

\* The invariant holds at first.
LEMMA InitIInv == ASSUME Init PROVE IInv
<1> USE First
<1>1. /\ snd.unacked = <<>> /\ snd.unsent = <<>> /\ snd.lastack = Iss /\ snd.nxt = Iss
      /\ snd.lbb = Iss /\ snd.wnd = TCP_WND /\ snd.wl2 = Iss /\ snd.persist = FALSE
      /\ snd.fin = FALSE /\ snd.state \in {"ESTABLISHED", "CLOSE_WAIT"}
  BY DEF Init
<1>2. /\ rcv = [state |-> "ESTABLISHED", nxt |-> Iss, wnd |-> TCP_WND, annwnd |-> TCP_WND,
                edge |-> Plus(Iss, TCP_WND), ooseq |-> <<>>, refused |-> <<>>,
                refusedFin |-> FALSE, flags |-> {}]
      /\ net = [data |-> <<>>, acks |-> <<>>]
      /\ app = [written |-> 0, out |-> <<>>, unread |-> 0, ended |-> FALSE]
      /\ left = [faults |-> MaxFaults, refused |-> MaxRefused]
  BY DEF Init
<1>3. TCP_WND \in Windows /\ TCP_WND \in Nat /\ TCP_WND > 0 /\ 0 \in 0..Bytes
  BY Widths DEF Windows
<1>4. snd \in Pcbs
  <2>1. /\ <<>> \in Seq(Segs) /\ 2 * MSS \in MSS..(WndWidth - 1)
        /\ TCP_WND \in (2 * MSS)..(WndWidth - 1) /\ TCP_SND_BUF \in Nat /\ 0 \in 0..4
    <3>1. <<>> \in Seq(Segs)
      OBVIOUS
    <3> QED
      BY <3>1, Widths
  <2>2. PICK st \in {"ESTABLISHED", "CLOSE_WAIT"} :
          snd = [state |-> st, unacked |-> <<>>, unsent |-> <<>>, lastack |-> Iss,
                 nxt |-> Iss, lbb |-> Iss, wnd |-> TCP_WND, wl2 |-> Iss,
                 cwnd |-> 2 * MSS, ssthresh |-> TCP_WND, buf |-> TCP_SND_BUF,
                 timer |-> FALSE, persist |-> FALSE, dupacks |-> 0, infr |-> FALSE,
                 fin |-> FALSE]
    BY DEF Init
  <2>3. st \in SndStates
    BY DEF SndStates
  <2> DEFINE cw == 2 * MSS
  <2>4. cw \in MSS..(WndWidth - 1)
    BY <2>1
  <2> HIDE DEF cw
  <2>5. snd = [state |-> st, unacked |-> <<>>, unsent |-> <<>>, lastack |-> Iss,
                 nxt |-> Iss, lbb |-> Iss, wnd |-> TCP_WND, wl2 |-> Iss,
                 cwnd |-> cw, ssthresh |-> TCP_WND, buf |-> TCP_SND_BUF,
                 timer |-> FALSE, persist |-> FALSE, dupacks |-> 0, infr |-> FALSE,
                 fin |-> FALSE]
    BY <2>2 DEF cw
  <2> QED
    BY <1>3, <2>1, <2>3, <2>4, <2>5 DEF Pcbs
<1>5. NumbersOK(snd, 0)
  <2>1. Len(snd.unacked) = 0
    BY <1>1
  <2> QED
    BY <1>1, <1>3, <2>1 DEF NumbersOK, One, Smaller
<1>6. Queue(snd) = <<>>
  BY <1>1 DEF Queue
<1>7. Holds(Queue(snd), snd, 0)
  <2>1. Chain(<<>>, 0, FALSE)
    BY DEF Chain
  <2>2. Chain(Queue(snd), 0, snd.fin)
    BY <1>1, <1>6, <2>1
  <2>3. 0 + One(snd.fin) = 0
    BY <1>1 DEF One
  <2> QED
    BY <1>1, <1>6, <2>2, <2>3 DEF Holds
<1>8. app.written = 0 /\ app.out = <<>> /\ app.unread = 0 /\ app.ended = FALSE /\ app \in Apps
  BY <1>2 DEF Apps
<1>9. /\ rcv.state = "ESTABLISHED" /\ rcv.nxt = Iss /\ rcv.wnd = TCP_WND /\ rcv.annwnd = TCP_WND
      /\ rcv.edge = Plus(Iss, TCP_WND) /\ rcv.ooseq = <<>> /\ rcv.refused = <<>>
      /\ rcv.refusedFin = FALSE
  BY <1>2
<1>10. rcv \in RcvPcbs
  <2>1. <<>> \in Seq(Segs) /\ <<>> \in Seq(Nat) /\ {} \subseteq {"DELAY", "NOW"}
    OBVIOUS
  <2> QED
    BY <1>2, <1>3, <2>1 DEF RcvPcbs, RcvStates
<1>11. Counted(rcv, app, <<>>, FALSE, 0, FALSE)
  <2>1. Len(<<>>) = 0 /\ Run(0, 0) = <<>>
    BY RunIs
  <2> QED
    BY <1>8, <1>9, <2>1 DEF Counted, One
<1>12. Windowed(rcv, app, <<>>)
  <2>1. Len(<<>>) = 0
    OBVIOUS
  <2> QED
    BY <1>3, <1>8, <1>9, <2>1 DEF Windowed
<1>13. RcvOK(rcv, app, 0, FALSE)
  BY <1>8, <1>9, <1>10, <1>11, <1>12 DEF RcvOK
<1>14. High(snd) \in Nat
  BY <1>4, HighNat
<1>15. Kept(rcv, 0, FALSE, High(snd))
  <2>1. Queued(<<>>, 0, TCP_WND, 0, FALSE, High(snd))
    <3>1. <<>> \in Seq(Segs) /\ Len(<<>>) = 0
      OBVIOUS
    <3> QED
      BY <3>1 DEF Queued, Oos
  <2>2. Pos(rcv.nxt) = 0 /\ Pos(rcv.edge) = TCP_WND /\ 0 + One(FALSE) = 0 /\ 0 <= High(snd)
    BY <1>9, <1>14 DEF One
  <2>3. Queued(rcv.ooseq, Pos(rcv.nxt), Pos(rcv.edge), 0, FALSE, High(snd))
    BY <1>9, <2>1, <2>2
  <2>4. rcv.ooseq = <<>> /\ Pos(rcv.nxt) <= High(snd) /\ Pos(rcv.nxt) <= 0 + One(FALSE)
    <3>1. 0 <= 0
      OBVIOUS
    <3> QED
      BY <1>9, <2>2, <3>1
  <2> QED
    BY <2>3, <2>4 DEF Kept
<1>16. net \in Nets /\ ToSet(net.acks) = {} /\ ToSet(net.data) = {}
  <2>1. <<>> \in Seq(Msgs) /\ <<>> \in Seq(AckMsgs) /\ ToSet(<<>>) = {}
    BY DEF ToSet
  <2> QED
    BY <1>2, <2>1 DEF Nets
<1>17. AcksOK(AckSet(snd, net), rcv, 0)
  <2> DEFINE g == AckMsg(snd.wl2, snd.wnd)
  <2>1. AckSet(snd, net) = {g} /\ g.ack = Iss /\ g.wnd = TCP_WND /\ g \in AckMsgs
    BY <1>1, <1>3, <1>16 DEF AckSet, AckMsg, AckMsgs
  <2> HIDE DEF g
  <2> QED
    BY <1>3, <1>9, <2>1 DEF AcksOK
<1>18. left \in Bounds
  BY <1>2, TcpAssumption DEF Bounds
<1>19. Around(snd, rcv, net, app)
  BY <1>1, <1>3, <1>8, <1>9, <1>13, <1>15, <1>16, <1>17 DEF Around
<1> QED
  BY <1>4, <1>5, <1>7, <1>8, <1>18, <1>19 DEF IInv, SndOK

\* Every step keeps it.
LEMMA NextIInv == ASSUME NoWrap, IInv, [Next]_vars PROVE IInv'
<1>1. CASE Write
  BY <1>1, WriteOK
<1>2. CASE Close
  BY <1>2, CloseOK
<1>3. CASE Recved
  BY <1>3, RecvedStep
<1>4. CASE Rexmit
  BY <1>4, RexmitStep
<1>5. CASE Probe
  BY <1>5, ProbeOK
<1>6. CASE FinWaitTimeout
  BY <1>6, FinWaitTimeoutOK
<1>7. CASE FastTmr
  BY <1>7, FastTmrOK
<1>8. CASE AckIn
  BY <1>8, AckInOK
<1>9. CASE SegIn
  BY <1>9, SegInOK
<1>10. CASE Lose
  BY <1>10, LoseOK
<1>11. CASE Repeat
  BY <1>11, RepeatOK
<1>12. CASE UNCHANGED vars
  BY <1>12 DEF vars, IInv
<1> QED
  BY <1>1, <1>2, <1>3, <1>4, <1>5, <1>6, <1>7, <1>8, <1>9, <1>10, <1>11, <1>12 DEF Next, Timers

-----------------------------------------------------------------------------
(* What follows from it.                                                   *)

\* The types of the segments that the sending end has
LEMMA InvTypes ==
  ASSUME IInv
  PROVE  /\ snd.unacked \in Seq(Segs) /\ snd.unsent \in Seq(Segs) /\ Queue(snd) \in Seq(Segs)
         /\ Holds(Queue(snd), snd, app.written)
         /\ \A i \in 1..Len(Queue(snd)) : /\ Piece(Queue(snd)[i], app.written, snd.fin)
                                          /\ Queue(snd)[i] \in Segs
         /\ ToSet(snd.unacked) \cup ToSet(snd.unsent) \subseteq ToSet(Queue(snd))
<1> USE IInvFacts
<1> DEFINE u == snd.unacked
           v == snd.unsent
           q == Queue(snd)
<1>1. u \in Seq(Segs) /\ v \in Seq(Segs) /\ q = u \o v /\ Holds(q, snd, app.written)
  BY DEF Pcbs, Queue, SndOK
<1> HIDE DEF u, v, q
<1>2. /\ q \in Seq(Segs) /\ Len(q) = Len(u) + Len(v)
      /\ \A i \in 1..Len(u) : q[i] = u[i]
      /\ \A i \in 1..Len(v) : q[Len(u) + i] = v[i]
  BY <1>1, Behind
<1>3. \A i \in 1..Len(q) : Piece(q[i], app.written, snd.fin) /\ q[i] \in Segs
  BY <1>1, <1>2, HeldFacts
<1>4. ToSet(u) = {u[i] : i \in 1..Len(u)} /\ ToSet(v) = {v[i] : i \in 1..Len(v)}
      /\ ToSet(q) = {q[i] : i \in 1..Len(q)}
  <2>1. ToSet(u) = {u[i] : i \in 1..Len(u)}
    BY <1>1, ToSetIs
  <2>2. ToSet(v) = {v[i] : i \in 1..Len(v)}
    BY <1>1, ToSetIs
  <2>3. ToSet(q) = {q[i] : i \in 1..Len(q)}
    BY <1>2, ToSetIs, SMTT(30)
  <2> QED
    BY <2>1, <2>2, <2>3
<1>5. ASSUME NEW i \in 1..Len(u) PROVE u[i] \in ToSet(q)
  <2>1. i \in 1..Len(q) /\ q[i] = u[i]
    BY <1>1, <1>2
  <2> QED
    BY <1>4, <2>1
<1>6. ASSUME NEW i \in 1..Len(v) PROVE v[i] \in ToSet(q)
  <2>1. Len(u) + i \in 1..Len(q) /\ q[Len(u) + i] = v[i]
    BY <1>1, <1>2
  <2> QED
    BY <1>4, <2>1
<1> QED
  BY <1>1, <1>2, <1>3, <1>4, <1>5, <1>6 DEF u, v, q

\* The parts of Inv follow: the types,
LEMMA TypeHolds == ASSUME IInv PROVE TypeOK
<1> USE IInvFacts
<1>1. ASSUME NEW s \in ToSet(snd.unacked) \cup ToSet(snd.unsent)
      PROVE  TcpLen(s) > 0 /\ s.len = Len(s.data)
  <2> DEFINE q == Queue(snd)
  <2>1. q \in Seq(Segs) /\ s \in ToSet(q)
        /\ \A i \in 1..Len(q) : Piece(q[i], app.written, snd.fin) /\ q[i] \in Segs
    BY InvTypes
  <2> HIDE DEF q
  <2>2. s \in Segs /\ Piece(s, app.written, snd.fin)
    BY <2>1, ToSetIs
  <2> QED
    BY <2>2, PieceFacts
<1>2. snd.cwnd \in 1..(WndWidth - 1) /\ snd.wnd \in 0..(WndWidth - 1)
  <2>1. snd.cwnd \in MSS..(WndWidth - 1) /\ snd.wnd \in Windows
    BY DEF Pcbs
  <2> QED
    BY <2>1, Widths DEF Windows
<1>3. rcv.wnd \in 0..(WndWidth - 1) /\ rcv.flags \subseteq {"DELAY", "NOW"}
  BY DEF RcvPcbs, Windows
<1> QED
  BY <1>1, <1>2, <1>3 DEF TypeOK

\* the books of the sending end,
LEMMA BookHolds == ASSUME IInv PROVE SendBook
<1> USE IInvFacts
<1> DEFINE q == Queue(snd)
           N == app.written
<1>1. /\ q \in Seq(Segs) /\ Holds(q, snd, N)
      /\ \A i \in 1..Len(q) : Piece(q[i], N, snd.fin) /\ q[i] \in Segs
      /\ q = snd.unacked \o snd.unsent
  BY InvTypes DEF Queue
<1>2. snd.lastack \in Numbers /\ Pos(snd.lastack) \in Positions /\ Pos(snd.lastack) \in Nat
  BY PcbTypes
<1>3. N \in 0..Bytes
  OBVIOUS
<1> HIDE DEF q, N
<1>10. Len(q) \in Nat /\ (q # <<>> => Len(q) # 0)
  <2>1. q \in Seq(Segs)
    BY <1>1
  <2> QED
    BY <2>1
<1>4. ASSUME NEW i \in 2..Len(q) PROVE q[i].seq = End(q[i - 1])
  <2> DEFINE s == q[i]
             t == q[i - 1]
  <2>1. i \in 1..Len(q) /\ i - 1 \in 1..Len(q)
    BY <1>10
  <2>2. s \in Segs /\ t \in Segs /\ Piece(s, N, snd.fin) /\ Piece(t, N, snd.fin)
    BY <1>1, <2>1
  <2>3. Pos(s.seq) = Top(t)
    BY <1>1 DEF Holds, Chain
  <2> HIDE DEF s, t
  <2>4. s.seq = At(Pos(s.seq)) /\ End(t) = At(Top(t))
    BY <1>3, <2>2, PieceFacts
  <2>5. s.seq = End(t)
    BY <2>3, <2>4
  <2> QED
    BY <2>5 DEF s, t
<1>5. ASSUME q # <<>> PROVE Leq(q[1].seq, snd.lastack) /\ Lt(snd.lastack, End(q[1]))
  <2> DEFINE s == q[1]
             a == snd.lastack
             e == End(s)
  <2>1. 1 \in 1..Len(q)
    BY <1>5, <1>10
  <2>2. s \in Segs /\ Piece(s, N, snd.fin)
    BY <1>1, <2>1
  <2>3. Pos(s.seq) <= Pos(a) /\ Pos(a) < Top(s)
    BY <1>1, <1>5 DEF Holds
  <2>4. s.seq \in Numbers /\ e \in Numbers /\ Pos(e) = Top(s) /\ Pos(s.seq) \in Positions
        /\ Pos(e) \in Positions
    <3> HIDE DEF s
    <3> QED
      BY <1>3, <2>2, PieceFacts
  <2> HIDE DEF s, a, e
  <2>5. a \in Numbers /\ Pos(a) \in Positions
    BY <1>2 DEF a
  <2>6. Leq(s.seq, a) /\ Lt(a, e)
    BY <2>3, <2>4, <2>5, PosCompare
  <2> QED
    BY <2>6 DEF s, a, e
<1>6. q = <<>> => snd.lastack = snd.nxt
  BY <1>1 DEF Holds
<1> QED
  BY <1>1, <1>4, <1>5, <1>6 DEF SendBook

\* What is known of the receiver while the connection is established
LEMMA EdgeIs ==
  ASSUME NEW p, NEW a, NEW N \in 0..Bytes, NEW F, RcvOK(p, a, N, F), p.state = "ESTABLISHED"
  PROVE  /\ p.wnd + a.unread + Len(p.refused) = TCP_WND
         /\ Pos(p.edge) \in Nat /\ Pos(p.edge) <= Bytes + TCP_WND
         /\ p.edge \in Numbers /\ Pos(p.edge) \in Positions
<1>1. Windowed(p, a, p.refused) /\ Counted(p, a, p.refused, p.refusedFin, N, F)
      /\ p \in RcvPcbs /\ a \in Apps
  BY DEF RcvOK
<1> DEFINE k == Pos(p.nxt)
           e == Pos(p.edge)
           l == Len(p.refused)
<1>2. p.wnd + a.unread + l = TCP_WND /\ e <= k + p.annwnd /\ p.annwnd <= p.wnd
  BY <1>1 DEF Windowed
<1>3. /\ p.refused \in Seq(Nat) /\ p.refusedFin \in BOOLEAN /\ p.edge \in Numbers
      /\ p.wnd \in Nat /\ p.annwnd \in Nat /\ a.unread \in Nat /\ l \in Nat
  BY <1>1 DEF RcvPcbs, Apps, Windows
<1>4. k \in 0..Bytes
  <2> DEFINE d == p.refused
             f == p.refusedFin
             n == Len(a.out) + Len(d)
  <2>1. d \in Seq(Nat) /\ f \in BOOLEAN /\ Counted(p, a, d, f, N, F)
    BY <1>1, <1>3
  <2> HIDE DEF d, f
  <2>2. p.state # "RESET"
    OBVIOUS
  <2>3. n \in 0..Bytes /\ k = n
    BY <1>1, <2>1, <2>2, NxtIs
  <2> QED
    BY <2>3
<1>5. e \in Nat
  BY <1>3, AtPos
<1>6. ASSUME NEW k1 \in 0..Bytes, NEW e1 \in Nat, NEW w \in Nat, NEW x \in Nat, NEW u \in Nat,
             NEW l1 \in Nat, w + u + l1 = TCP_WND, e1 <= k1 + x, x <= w
      PROVE  e1 <= Bytes + TCP_WND
  BY <1>6, Widths
<1> HIDE DEF k, e, l
<1>7. e <= Bytes + TCP_WND
  BY <1>2, <1>3, <1>4, <1>5, <1>6
<1>8. e \in Positions
  BY <1>5, <1>7, Widths DEF Positions
<1> QED
  BY <1>2, <1>3, <1>5, <1>7, <1>8 DEF e, l

\* the room for what is announced,
LEMMA WindowFreeHolds == ASSUME IInv PROVE WindowFree
<1>1. RcvOK(rcv, app, app.written, snd.fin) /\ app.written \in 0..Bytes
  BY DEF IInv, Around
<1> QED
  BY <1>1, EdgeIs DEF WindowFree

\* and that nothing is sent beyond the window.
LEMMA InsideHolds == ASSUME IInv PROVE InsideWindow
<1> USE IInvFacts
<1> SUFFICES ASSUME rcv.state = "ESTABLISHED", NEW m \in ToSet(net.data), m.kind = "seg"
             PROVE  Leq(Plus(m.seq, Len(m.data)), Plus(rcv.edge, 1))
  BY DEF InsideWindow
<1> DEFINE s == Seg(m.seq, m.data, m.fin)
           e == Pos(rcv.edge)
           d == DataTop(s)
           N == app.written
<1>1. Arrives(s, rcv, N, snd.fin, High(snd))
  BY DEF Around, DataOK
<1>2. s.seq = m.seq /\ s.len = Len(m.data)
  BY DEF Seg
<1>3. e \in Nat /\ e <= Bytes + TCP_WND /\ rcv.edge \in Numbers
  <2>1. RcvOK(rcv, app, app.written, snd.fin)
    BY DEF Around
  <2> QED
    BY <2>1, EdgeIs
<1>4. s \in Segs /\ Piece(s, N, snd.fin) /\ N \in 0..Bytes
  BY <1>1 DEF Arrives
<1> HIDE DEF s, e, N
<1>5. /\ Plus(s.seq, s.len) = At(d) /\ d \in Nat /\ d <= N /\ Pos(s.seq) \in Nat /\ s.len \in Nat
      /\ d = Pos(s.seq) + s.len
  BY <1>4, PieceFacts DEF DataTop
<1>6. d <= e \/ (s.len <= 1 /\ Pos(s.seq) <= e)
  BY <1>1 DEF Arrives, e
<1> HIDE DEF d
<1>7. d <= e + 1
  BY <1>3, <1>5, <1>6
<1>8. Plus(rcv.edge, 1) = At(e + 1)
  <2>1. At(e) = rcv.edge
    BY <1>3, AtPos DEF e
  <2>2. e \in Int /\ 1 \in Int
    BY <1>3
  <2>3. Plus(At(e), 1) = At(e + 1)
    BY <2>2, AtPlus
  <2> QED
    BY <2>1, <2>3
<1>9. Leq(At(d), At(e + 1))
  <2>1. Near(d, e + 1)
    <3>1. N \in Nat /\ N <= Bytes /\ Bytes \in Nat /\ TCP_WND \in Nat
      BY <1>4, Widths
    <3> QED
      BY <1>3, <1>5, <3>1 DEF Near, Span
  <2>2. d \in Int /\ e + 1 \in Int
    BY <1>3, <1>5
  <2> DEFINE f == e + 1
  <2> HIDE DEF f
  <2>3. Near(d, f) /\ f \in Int /\ d <= f
    BY <1>7, <2>1, <2>2 DEF f
  <2>4. Leq(At(d), At(f))
    BY <2>2, <2>3, AtLt
  <2> QED
    BY <2>4 DEF f
<1> QED
  BY <1>2, <1>5, <1>8, <1>9

\* So Inv follows.
LEMMA IInvInv == ASSUME IInv PROVE Inv
BY TypeHolds, BookHolds, WindowFreeHolds, InsideHolds DEF Inv

\* So does AcksHeld.
LEMMA HeldHolds == ASSUME IInv PROVE AcksHeld
<1> USE IInvFacts
<1>1. Counted(rcv, app, rcv.refused, rcv.refusedFin, app.written, snd.fin)
  BY DEF Around, RcvOK
<1>2. rcv.state # "RESET" =>
        rcv.nxt = At(Len(app.out) + Len(rcv.refused) + One(rcv.refusedFin \/ app.ended))
  BY <1>1 DEF Counted
<1> QED
  BY <1>2 DEF AcksHeld, GotFin, At, One

\* The books of both ends hold in every state: the queues of the sender have every byte
\* that is not acknowledged, once and in order, the receive window is the room that is
\* left, and nothing but a probe is sent beyond the window that was announced (tcp_output,
\* tcp_rexmit, tcp_rexmit_rto, tcp_receive, tcp_recved, tcp_zero_window_probe).
THEOREM InvHolds == ASSUME NoWrap PROVE Spec => []Inv
<1>1. Init => IInv
  BY InitIInv
<1>2. IInv /\ [Next]_vars => IInv'
  BY NextIInv
<1>3. IInv => Inv
  BY IInvInv
<1> QED
  BY <1>1, <1>2, <1>3, PTL DEF Spec

\* What rcv_nxt acknowledges was given to the application or is kept for it
\* (tcp_receive, tcp_update_rcv_ann_wnd, tcp_process_refused_data).
THEOREM AcksHeldHolds == ASSUME NoWrap PROVE Spec => []AcksHeld
<1>1. Init => IInv
  BY InitIInv
<1>2. IInv /\ [Next]_vars => IInv'
  BY NextIInv
<1>3. IInv => AcksHeld
  BY HeldHolds
<1> QED
  BY <1>1, <1>2, <1>3, PTL DEF Spec

\* The steps that the receiving end takes, and those that it does not
LEMMA RcvSteps ==
  ASSUME NoWrap, IInv, SegIn \/ FastTmr \/ Recved
  PROVE  /\ snd' = snd
         /\ \E h : OK(h) /\ rcv' = h.p /\ app' = h.app
         /\ rcv.state = "RESET" => rcv' = rcv /\ app' = app
<1>1. CASE SegIn
  <2>1. PICK i \in DOMAIN net.data, again \in BOOLEAN, refuse \in BOOLEAN :
          LET m == net.data[i]
              n == [net EXCEPT !.data = RemoveAt(@, i)]
              r == Again(Handler, again)
          IN Commit(IF rcv.state = "RESET" THEN Handler
                    ELSE IF m.kind = "rst" THEN ResetIn(r, m) ELSE Input(r, m, refuse),
                    n, Overtaking(i))
    BY <1>1 DEF SegIn
  <2> DEFINE m == net.data[i]
             r == Again(Handler, again)
             h == IF rcv.state = "RESET" THEN Handler
                  ELSE IF m.kind = "rst" THEN ResetIn(r, m) ELSE Input(r, m, refuse)
  <2>2. snd' = snd /\ rcv' = h.p /\ app' = h.app
    BY <2>1 DEF Commit
  <2>3. OK(h)
    BY SegInHandler
  <2>4. rcv.state = "RESET" => h = Handler
    OBVIOUS
  <2> HIDE DEF h
  <2> QED
    BY <2>2, <2>3, <2>4, HandlerOK
<1>2. CASE FastTmr
  <2>1. PICK again \in BOOLEAN :
          /\ rcv.state # "RESET"
          /\ LET r == IF "DELAY" \in rcv.flags THEN SendAck(Handler) ELSE Handler
             IN Commit(Again(r, again), net, left)
    BY <1>2 DEF FastTmr
  <2> DEFINE r == IF "DELAY" \in rcv.flags THEN SendAck(Handler) ELSE Handler
             h == Again(r, again)
  <2>2. snd' = snd /\ rcv' = h.p /\ app' = h.app
    BY <2>1 DEF Commit
  <2>3. OK(h)
    BY <2>1, FastTmrHandler
  <2> HIDE DEF h
  <2> QED
    BY <2>1, <2>2, <2>3
<1>3. CASE Recved
  <2>1. PICK n \in 1..app.unread :
          LET p == [rcv EXCEPT !.wnd = Smaller((@ + n) % WndWidth, TCP_WND)]
              more == IF Announces(p) THEN Minus(Plus(p.nxt, p.wnd), p.edge) ELSE 0
              r == [Handler EXCEPT !.p = UpdateAnnWnd(p), !.app.unread = @ - n]
          IN /\ rcv.state # "RESET"
             /\ Commit(IF more >= TCP_WND \div 4 THEN OutputAck(AckNow(r)) ELSE r, net, left)
    BY <1>3 DEF Recved
  <2> DEFINE p == [rcv EXCEPT !.wnd = Smaller((@ + n) % WndWidth, TCP_WND)]
             more == IF Announces(p) THEN Minus(Plus(p.nxt, p.wnd), p.edge) ELSE 0
             r == [Handler EXCEPT !.p = UpdateAnnWnd(p), !.app.unread = @ - n]
             g == OutputAck(AckNow(r))
             h == IF more >= TCP_WND \div 4 THEN g ELSE r
  <2>2. snd' = snd /\ rcv' = h.p /\ app' = h.app /\ rcv.state # "RESET"
    BY <2>1 DEF Commit
  <2>3. OK(r) /\ OK(g)
    BY <2>2, RecvedHandler
  <2> HIDE DEF r, g, more
  <2>4. OK(h)
    BY <2>3
  <2> HIDE DEF h
  <2> QED
    BY <2>2, <2>4
<1> QED
  BY <1>1, <1>2, <1>3

\* Only three steps change the receiving end.
LEMMA OtherSteps ==
  ASSUME [Next]_vars
  PROVE  SegIn \/ FastTmr \/ Recved \/ rcv' = rcv
BY DEF Next, Timers, Write, Close, Rexmit, Probe, FinWaitTimeout, AckIn, Lose, Repeat, vars

\* None of them takes back what was announced.
LEMMA EdgeStep ==
  ASSUME NoWrap, IInv, [Next]_vars, rcv'.state = "ESTABLISHED"
  PROVE  Leq(rcv.edge, rcv'.edge)
<1>1. CASE rcv' = rcv
  BY <1>1 DEF Leq
<1>2. CASE SegIn \/ FastTmr \/ Recved
  <2>1. PICK h : OK(h) /\ rcv' = h.p
    BY <1>2, RcvSteps
  <2>2. rcv.state = "ESTABLISHED" /\ Pos(rcv.edge) <= Pos(rcv'.edge)
    BY <2>1, HandlerOK DEF OK, Advances
  <2>3. rcv.edge \in Numbers /\ Pos(rcv.edge) \in Positions
    BY <2>2, EdgeIs DEF IInv, Around
  <2>4. rcv'.edge \in Numbers /\ Pos(rcv'.edge) \in Positions
    <3>1. RcvOK(rcv', app', app'.written, snd'.fin) /\ app'.written \in 0..Bytes
      BY NextIInv DEF IInv, Around
    <3> QED
      BY <3>1, EdgeIs
  <2> DEFINE a == rcv.edge
             b == rcv'.edge
  <2> HIDE DEF a, b
  <2>5. Leq(a, b)
    BY <2>2, <2>3, <2>4, PosCompare DEF a, b
  <2> QED
    BY <2>5 DEF a, b
<1> QED
  BY <1>1, <1>2, OtherSteps

\* The right edge of the window that was announced never moves back (tcp_receive,
\* tcp_update_rcv_ann_wnd, tcp_recved).
THEOREM EdgeNeverBack == ASSUME NoWrap PROVE Spec => EdgeGrows
<1>1. Init => IInv
  BY InitIInv
<1>2. IInv /\ [Next]_vars => IInv'
  BY NextIInv
<1>3. IInv /\ [Next]_vars => [rcv'.state = "ESTABLISHED" => Leq(rcv.edge, rcv'.edge)]_vars
  BY EdgeStep
<1> QED
  BY <1>1, <1>2, <1>3, PTL DEF Spec, EdgeGrows

-----------------------------------------------------------------------------
(* The two ends are a byte stream.                                         *)

\* What was given to the application is the beginning of the stream; behind the end of the
\* stream nothing is missing.
LEMMA GivenIs ==
  ASSUME NEW p, NEW a, NEW N \in 0..Bytes, NEW F, RcvOK(p, a, N, F)
  PROVE  /\ a.out = Run(0, Len(a.out)) /\ Len(a.out) \in Nat /\ Len(a.out) <= N
         /\ a.ended => F /\ Len(a.out) = N
         /\ a.written = N /\ a.ended \in BOOLEAN /\ a.out = Stream!Given(Len(a.out))
<1> DEFINE k == Len(a.out)
           l == Len(p.refused)
<1>1. p \in RcvPcbs /\ a \in Apps /\ Counted(p, a, p.refused, p.refusedFin, N, F) /\ a.written = N
  BY DEF RcvOK
<1>2. a.out \in Seq(Nat) /\ p.refused \in Seq(Nat) /\ a.ended \in BOOLEAN
  BY <1>1 DEF RcvPcbs, Apps
<1>3. k \in Nat /\ l \in Nat
  BY <1>2
<1>4. a.out = Run(0, k) /\ k + l <= N
  BY <1>1 DEF Counted
<1>5. a.ended => F /\ k + l = N /\ p.refused = <<>>
  BY <1>1 DEF Counted
<1>6. a.ended => l = 0
  BY <1>5
<1> HIDE DEF k, l
<1>7. k <= N
  BY <1>3, <1>4, Widths
<1>8. a.ended => k = N
  <2>1. ASSUME a.ended PROVE k = N
    <3>1. k + l = N /\ l = 0
      BY <1>5, <1>6, <2>1
    <3> QED
      BY <1>3, <3>1
  <2> QED
    BY <2>1
<1>9. Run(0, k) = Stream!Given(k)
  <2>1. \A i \in 1..k : 0 + i = i
    OBVIOUS
  <2> QED
    BY <2>1 DEF Run, Stream!Given
<1> QED
  BY <1>1, <1>2, <1>3, <1>4, <1>5, <1>7, <1>8, <1>9 DEF k

\* The initial states are those of the byte stream.
LEMMA StreamInit == ASSUME Init PROVE Stream!Init
BY DEF Init, Stream!Init

\* What the receiving end does: bytes, the end, or a reset for the application, or nothing
LEMMA StreamDeliver ==
  ASSUME NoWrap, IInv, SegIn \/ FastTmr \/ Recved
  PROVE  [Stream!Deliver \/ Stream!Reset]_(Stream!streamVars)
<1> USE IInvFacts
<1> DEFINE N == app.written
           F == snd.fin
<1>1. snd' = snd /\ (rcv.state = "RESET" => rcv' = rcv /\ app' = app)
  BY RcvSteps
<1>2. PICK h : OK(h) /\ rcv' = h.p /\ app' = h.app
  BY RcvSteps
<1>3. /\ Len(app.out) <= Len(app'.out) /\ (app.ended => app'.ended) /\ app'.written = N
  BY <1>2, HandlerOK DEF OK, Advances
<1>4. RcvOK(rcv, app, N, F) /\ N \in 0..Bytes
  BY DEF Around
<1>5. RcvOK(rcv', app', N, F)
  BY <1>1, <1>3, NextIInv DEF IInv, Around, Next, Timers
<1> HIDE DEF N, F
<1>6. /\ app.out = Run(0, Len(app.out)) /\ Len(app.out) \in Nat /\ Len(app.out) <= N
      /\ (app.ended => F /\ Len(app.out) = N) /\ app.ended \in BOOLEAN
  BY <1>4, GivenIs
<1>7. /\ app'.out = Run(0, Len(app'.out)) /\ Len(app'.out) \in Nat /\ Len(app'.out) <= N
      /\ (app'.ended => F /\ Len(app'.out) = N) /\ app'.ended \in BOOLEAN
      /\ app'.out = Stream!Given(Len(app'.out))
  BY <1>4, <1>5, GivenIs
<1>8. app'.written = app.written /\ snd'.fin = snd.fin
  BY <1>1, <1>3 DEF N
<1>9. CASE rcv.state = "RESET"
  BY <1>1, <1>9 DEF Stream!streamVars
<1>10. CASE rcv.state # "RESET" /\ app.ended
  <2>1. app'.out = app.out /\ app'.ended = app.ended
    <3>1. app'.ended /\ Len(app'.out) = N /\ Len(app.out) = N
      BY <1>3, <1>6, <1>7, <1>10
    <3> QED
      BY <1>6, <1>7, <1>10, <3>1
  <2>2. CASE rcv'.state = "RESET"
    BY <1>8, <2>1, <2>2 DEF Stream!Reset
  <2>3. CASE rcv'.state # "RESET"
    BY <1>8, <1>10, <2>1, <2>3 DEF Stream!streamVars
  <2> QED
    BY <2>2, <2>3
<1>11. CASE rcv.state # "RESET" /\ ~app.ended
  <2>1. Len(app'.out) \in Len(app.out)..app.written
    <3>1. N \in Nat
      BY <1>4, Widths
    <3> QED
      BY <1>3, <1>6, <1>7, <3>1 DEF N
  <2>2. app'.ended => snd.fin /\ Len(app'.out) = app.written
    BY <1>7 DEF N, F
  <2>3. (rcv.state = "RESET")' \in BOOLEAN
    OBVIOUS
  <2> QED
    BY <1>7, <1>8, <1>11, <2>1, <2>2, <2>3 DEF Stream!Deliver
<1> QED
  BY <1>9, <1>10, <1>11

\* A step is one of the byte stream, or none.
LEMMA StreamNext ==
  ASSUME NoWrap, IInv, [Next]_vars
  PROVE  [Stream!Next]_(Stream!streamVars)
<1>1. CASE Write
  <2>1. /\ snd'.fin = snd.fin /\ ~snd.fin /\ app'.written \in Nat /\ app'.written > app.written
    BY <1>1, WriteOK
  <2>2. rcv' = rcv /\ app'.out = app.out /\ app'.ended = app.ended
    BY <1>1, IInvFacts DEF Write, Apps
  <2> QED
    BY <2>1, <2>2 DEF Stream!Write, Stream!Next
<1>2. CASE Close
  <2>1. snd'.fin = TRUE /\ ~snd.fin
    BY <1>2, CloseOK
  <2>2. rcv' = rcv /\ app' = app
    BY <1>2 DEF Close
  <2> QED
    BY <2>1, <2>2 DEF Stream!Close, Stream!Next
<1>3. CASE SegIn \/ FastTmr \/ Recved
  BY <1>3, StreamDeliver DEF Stream!Next
<1>4. CASE Rexmit \/ FinWaitTimeout \/ AckIn
  <2>1. snd'.fin = snd.fin
    BY <1>4, RexmitStep, FinWaitTimeoutOK, AckInOK
  <2>2. rcv' = rcv /\ app' = app
    BY <1>4 DEF Rexmit, FinWaitTimeout, AckIn
  <2> QED
    BY <2>1, <2>2 DEF Stream!streamVars
<1>5. CASE Probe \/ Lose \/ Repeat \/ UNCHANGED vars
  <2>1. rcv' = rcv /\ app' = app /\ snd' = snd
    BY <1>5 DEF Probe, Lose, Repeat, vars
  <2> QED
    BY <2>1 DEF Stream!streamVars
<1> QED
  BY <1>1, <1>2, <1>3, <1>4, <1>5 DEF Next, Timers

\* The receiving application is given what the sending one wrote, in order and each byte
\* once, and the end of the stream behind the last byte only: whatever is lost, repeated or
\* reordered on the way, retransmitted, refused or reset (tcp_in.c, tcp_out.c, tcp.c).
THEOREM StreamRefined == ASSUME NoWrap PROVE Spec => Refines
<1>1. Init => IInv /\ Stream!Init
  BY InitIInv, StreamInit
<1>2. IInv /\ [Next]_vars => IInv' /\ [Stream!Next]_(Stream!streamVars)
  BY NextIInv, StreamNext
<1> QED
  BY <1>1, <1>2, PTL DEF Spec, Refines, Stream!Spec

=============================================================================
