----------------------------- MODULE Dns_proofs -----------------------------
(***************************************************************************)
(* Proofs about Dns, for any tasks, names, sizes and times: the types,     *)
(* that every query belongs to one caller that waits and every caller that *)
(* waits to one query or one message, that addresses leave the table in    *)
(* time, and, for names of which none begins with the labels of another,   *)
(* that Dns implements Resolver.                                           *)
(*                                                                         *)
(* The ownership of the queries rests on the callers: an entry that asks   *)
(* is never taken for another name (ReusableIs), and an entry stops asking *)
(* only when its caller is told.  That an answer is the right one rests on *)
(* the name array, which begins with the name that is asked for whatever   *)
(* was there before: of two names it begins with, one begins with the      *)
(* other (PrefixesMeet).                                                   *)
(***************************************************************************)
EXTENDS Dns, FiniteSetTheorems, SequenceTheorems, WellFoundedInduction, TLAPS

\* The labels of the names.
Labels == UNION {ToSet(n) : n \in Names}

\* What a caller, and an entry of the table, can be.
Callers == [pc : {"idle", "posted", "lost", "waiting"}, name : Names \cup {<<>>},
            sem : 0..1, result : Names \cup {Failed}]
Queries == [st : {"asking"}, name : Names, found : Tasks, seq : 0..(SeqnoMod - 1),
            num : Servers, tmr : 1..MaxRetries, retries : 0..(MaxRetries - 1)]
Answers == [st : {"done"}, name : Names, found : Tasks, seq : 0..(SeqnoMod - 1),
            addr : Names, ttl : 0..(TtlMod - 1), given : 0..MaxTtl, age : 0..MaxTtl]
Cells == {Unused} \cup Queries \cup Answers

Types ==
  /\ caller \in [Tasks -> Callers] /\ mbox \in Seq(Tasks)
  /\ table \in [Entries -> Cells] /\ text \in [Entries -> Seq(Labels)]
  /\ seqno \in 0..(SeqnoMod - 1) /\ peer \in Servers
  /\ servers \subseteq Servers /\ sent \subseteq Entries \X Names \X Servers

\* A caller that is posted or waits, and has not been told.
Untold(c, pc) == c.pc = pc /\ c.sem = 0
Asks(i, t) == table[i].st = "asking" /\ table[i].found = t

\* Who asks through an entry waits, and who waits asks through one entry.
Waiters ==
  /\ \A i \in Entries : table[i].st = "asking" =>
       LET c == caller[table[i].found] IN Untold(c, "waiting") /\ c.name = table[i].name
  /\ \A i, j \in Entries : \A t \in Tasks : Asks(i, t) /\ Asks(j, t) => i = j
  /\ \A t \in Tasks : Untold(caller[t], "waiting") => \E i \in Entries : Asks(i, t)

\* Who has a message in the mailbox is posted, and who is posted has one message.
Messages ==
  /\ \A k \in 1..Len(mbox) : Untold(caller[mbox[k]], "posted")
  /\ \A k, l \in 1..Len(mbox) : mbox[k] = mbox[l] => k = l
  /\ \A t \in Tasks : Untold(caller[t], "posted") => \E k \in 1..Len(mbox) : mbox[k] = t

\* A caller asks for a name.
Named == \A t \in Tasks : caller[t].pc # "idle" => caller[t].name \in Names

\* What is left of the time of an address.
Left == \A i \in Entries :
  table[i].st = "done" /\ table[i].given > 0 => /\ table[i].ttl = table[i].given - table[i].age
                                                /\ table[i].age < table[i].given

\* The array of an entry that asks begins with its name.
Arrays == \A i \in Entries : table[i].st = "asking" => IsPrefix(table[i].name, text[i])

IInv == Types /\ Waiters /\ Messages /\ Named /\ Left /\ Arrays

\* No name begins with the labels of another.
Unlike == \A m, n \in Names : IsPrefix(m, n) => m = n

\* The table knows the address of the name.
Right == \A i \in Entries : table[i].st = "done" => table[i].addr = table[i].name

-----------------------------------------------------------------------------
(* Constants, and the choice of an entry                                   *)

\* The sizes are numbers, and there is an entry and a server.
LEMMA Consts ==
  /\ TableSize \in Nat /\ TableSize >= 1 /\ MaxServers \in Nat /\ MaxServers >= 1
  /\ MaxRetries \in Nat /\ MaxRetries >= 1 /\ SeqnoMod \in Nat /\ SeqnoMod >= 1
  /\ MaxTtl \in Nat /\ TtlMod \in Nat /\ MaxTtl < TtlMod
  /\ Entries \subseteq Nat /\ 0 \in Entries /\ 0 \in Servers
BY DnsAssumption DEF Entries, Servers

\* The order of the numbers.
Below == {ss \in Nat \X Nat : ss[1] < ss[2]}

\* A set of numbers that is not empty has a least one.
LEMMA LeastElement ==
  ASSUME NEW T, T \subseteq Nat, T # {}
  PROVE  \E m \in T : \A k \in T : m <= k
<1>1. IsWellFoundedOn(Below, Nat)
  BY NatLessThanWellFounded DEF OpToRel, Below
<1>2. PICK x \in T : \A y \in T : ~ (<<y, x>> \in Below)
  BY <1>1, WFMin
<1>3. ASSUME NEW y \in T PROVE x <= y
  <2>1. x \in Nat /\ y \in Nat
    OBVIOUS
  <2>2. ~ (y < x)
    BY <1>2, <2>1 DEF Below
  <2> QED
    BY <2>1, <2>2
<1> QED
  BY <1>3

\* First is one of the entries.
LEMMA FirstIn ==
  ASSUME NEW I, I \subseteq Entries, I # {}
  PROVE  First(I) \in I
<1>1. \E i \in I : \A j \in I : i <= j
  BY LeastElement, Consts
<1> QED
  BY <1>1 DEF First

\* There is a last one, to whose server udp_connect leaves the pcb connected.
LEMMA LastIn ==
  ASSUME NEW I, I \subseteq Entries, I # {}
  PROVE  (CHOOSE i \in I : \A j \in I : j <= i) \in I
<1> DEFINE T == {TableSize - j : j \in I}
<1>1. \A j \in I : j \in Nat /\ TableSize - j \in Nat
  BY Consts DEF Entries
<1>2. T \subseteq Nat /\ T # {}
  BY <1>1
<1>3. PICK m \in T : \A k \in T : m <= k
  BY <1>2, LeastElement
<1>4. PICK i \in I : m = TableSize - i
  BY <1>3
<1>5. \A j \in I : j <= i
  <2> TAKE j \in I
  <2>1. TableSize - i <= TableSize - j
    BY <1>3, <1>4
  <2> QED
    BY <1>1, <2>1, Consts
<1> QED
  BY <1>5

\* The three kinds of entries.
LEMMA Kinds ==
  ASSUME NEW e \in Cells
  PROVE  /\ e.st \in {"unused", "asking", "done"}
         /\ e.st = "asking" <=> e \in Queries
         /\ e.st = "done" <=> e \in Answers
         /\ e.st = "unused" <=> e = Unused
BY DEF Cells, Unused, Queries, Answers

\* The entry that dns_enqueue gives to another name has an address, and is not asking.
LEMMA ReusableIs ==
  ASSUME Types
  PROVE  \A i \in Reusable : i \in Entries /\ table[i].st = "done"
<1> DEFINE age(i) == seqno - table[i].seq
           old == {i \in Entries : table[i].st = "done" /\ age(i) > 0}
           top == {i \in old : \A j \in old : age(j) <= age(i)}
<1>1. CASE old # {}
  <2> DEFINE T == {SeqnoMod - age(j) : j \in old}
  <2>1. \A j \in old : age(j) \in Int /\ SeqnoMod - age(j) \in Nat
    <3> TAKE j \in old
    <3>1. table[j] \in Answers
      BY Kinds DEF Types
    <3>2. PICK s \in 0..(SeqnoMod - 1) : s = table[j].seq
      BY <3>1 DEF Answers
    <3> QED
      BY <3>2, Consts DEF Types
  <2>2. T \subseteq Nat /\ T # {}
    BY <1>1, <2>1
  <2>3. PICK m \in T : \A k \in T : m <= k
    BY <2>2, LeastElement
  <2>4. PICK i \in old : m = SeqnoMod - age(i)
    BY <2>3
  <2>5. \A j \in old : age(j) <= age(i)
    <3> TAKE j \in old
    <3>1. SeqnoMod - age(i) <= SeqnoMod - age(j)
      BY <2>3, <2>4
    <3> QED
      BY <2>1, <3>1, Consts
  <2>6. top # {} /\ top \subseteq Entries
    BY <2>5
  <2>7. First(top) \in top
    BY <2>6, FirstIn
  <2>8. Reusable = {First(top)}
    BY <1>1 DEF Reusable
  <2> QED
    BY <2>7, <2>8
<1>2. CASE old = {}
  <2>1. Reusable = {i \in {0} : table[i].st = "done"}
    BY <1>2 DEF Reusable
  <2> QED
    BY <2>1, Consts
<1> QED
  BY <1>1, <1>2

Slots == IF Free # {} THEN {First(Free)} ELSE Reusable

\* The entry that dns_enqueue takes does not ask for a name.
LEMMA SlotIs ==
  ASSUME Types, Slots # {}
  PROVE  First(Slots) \in Entries /\ table[First(Slots)].st # "asking"
<1>1. CASE Free # {}
  <2>1. First(Free) \in Free
    BY <1>1, FirstIn DEF Free
  <2>2. Slots = {First(Free)} /\ First(Free) \in Entries
    BY <1>1, <2>1 DEF Slots, Free
  <2>3. First(Slots) = First(Free)
    BY <2>2, FirstIn
  <2> QED
    BY <2>1, <2>3 DEF Free
<1>2. CASE Free = {}
  <2>1. Slots = Reusable /\ Slots \subseteq Entries
    BY <1>2, ReusableIs DEF Slots
  <2>2. First(Slots) \in Slots
    BY <2>1, FirstIn
  <2> QED
    BY <2>1, <2>2, ReusableIs
<1> QED
  BY <1>1, <1>2

-----------------------------------------------------------------------------
(* What the operators of tcpip_thread do                                   *)

\* The callers that are told have a result, the others are as they were.
LEMMA FoundIs ==
  ASSUME caller \in [Tasks -> Callers], NEW T, NEW r \in Names \cup {Failed},
         \A t \in T \cap Tasks : caller[t].sem = 0
  PROVE  /\ DnsFound(T, r) \in [Tasks -> Callers]
         /\ \A t \in Tasks :
              LET c == DnsFound(T, r)[t]
              IN /\ t \notin T => c = caller[t]
                 /\ t \in T => /\ c.pc = caller[t].pc /\ c.name = caller[t].name
                               /\ c.sem = 1 /\ c.result = r
<1>1. ASSUME NEW t \in Tasks, t \in T
      PROVE  LET c == [caller[t] EXCEPT !.result = r, !.sem = @ + 1]
             IN /\ c \in Callers /\ c.pc = caller[t].pc /\ c.name = caller[t].name
                /\ c.sem = 1 /\ c.result = r
  <2>1. PICK c \in Callers : c = caller[t] /\ c.sem = 0
    BY <1>1
  <2>2. PICK d \in Callers : d = [c EXCEPT !.result = r]
    BY DEF Callers
  <2>3. d.sem = 0 /\ d.pc = c.pc /\ d.name = c.name /\ d.result = r
    BY <2>1, <2>2 DEF Callers
  <2>4. [c EXCEPT !.result = r, !.sem = @ + 1] = [d EXCEPT !.sem = 0 + 1]
    BY <2>1, <2>2, <2>3 DEF Callers
  <2>5. 0 + 1 = 1
    OBVIOUS
  <2> QED
    BY <2>1, <2>3, <2>4, <2>5 DEF Callers
<1> QED
  BY <1>1 DEF DnsFound

\* What is sent is a query of an entry, to its server.
LEMMA SendIs ==
  ASSUME NEW tb, NEW I, I \subseteq Entries, \A i \in I : tb[i] \in Queries,
         peer \in Servers, sent \subseteq Entries \X Names \X Servers, DnsSend(tb, I)
  PROVE  sent' \subseteq Entries \X Names \X Servers /\ peer' \in Servers
<1>1. PICK ok \in SUBSET I :
        /\ sent' \in Remembered(sent \cup {<<i, tb[i].name, tb[i].num>> : i \in ok})
        /\ peer' = IF ok = {} THEN peer
                   ELSE tb[CHOOSE i \in ok : \A j \in ok : j <= i].num
  BY DEF DnsSend
<1>2. \A i \in ok : <<i, tb[i].name, tb[i].num>> \in Entries \X Names \X Servers
  BY DEF Queries
<1>3. sent' \subseteq sent \cup {<<i, tb[i].name, tb[i].num>> : i \in ok}
  BY <1>1 DEF Remembered
<1>4. peer' \in Servers
  <2>1. CASE ok = {}
    BY <1>1, <2>1
  <2>2. CASE ok # {}
    <3>1. PICK i \in ok : i = CHOOSE k \in ok : \A j \in ok : j <= k
      BY <2>2, LastIn
    <3>2. tb[i] \in Queries /\ peer' = tb[i].num
      BY <1>1, <2>2, <3>1
    <3> QED
      BY <3>2 DEF Queries
  <2> QED
    BY <2>1, <2>2
<1> QED
  BY <1>2, <1>3, <1>4

\* dns_check_entry, of an entry that asks: it gives up, or asks on for the same caller.
LEMMA CheckedAsking ==
  ASSUME servers \subseteq Servers, NEW e \in Queries
  PROVE  IF GivesUp(e) THEN Checked(e) = Unused
         ELSE /\ Checked(e) \in Queries /\ Checked(e).st = "asking"
              /\ Checked(e).name = e.name /\ Checked(e).found = e.found
<1>0. /\ e.st = "asking" /\ e.tmr \in 1..MaxRetries /\ e.retries \in 0..(MaxRetries - 1)
      /\ e.num \in Servers
  BY DEF Queries
<1>1. CASE GivesUp(e)
  BY <1>0, <1>1 DEF Checked, GivesUp, LastRetry, Resends
<1>2. CASE LastRetry(e) /\ NextServer(e)
  <2>1. ~GivesUp(e) /\ e.num + 1 \in Servers
    BY <1>2 DEF GivesUp, NextServer
  <2>2. Checked(e) = [e EXCEPT !.num = @ + 1, !.tmr = 1, !.retries = 0]
    BY <1>0, <1>2, <2>1 DEF Checked, LastRetry, Resends
  <2>3. 1 \in 1..MaxRetries /\ 0 \in 0..(MaxRetries - 1)
    BY Consts
  <2> QED
    BY <2>1, <2>2, <2>3 DEF Queries
<1>3. CASE Resends(e)
  <2>1. ~GivesUp(e) /\ ~LastRetry(e)
    BY <1>3 DEF GivesUp, Resends
  <2>2. Checked(e) = [e EXCEPT !.retries = @ + 1, !.tmr = e.retries + 1]
    BY <1>0, <1>3, <2>1 DEF Checked, Resends
  <2>3. e.retries + 1 \in 0..(MaxRetries - 1) /\ e.retries + 1 \in 1..MaxRetries
    BY <1>0, <1>3, <2>1, Consts DEF Resends, LastRetry
  <2> QED
    BY <2>1, <2>2, <2>3 DEF Queries
<1>4. CASE e.tmr > 1
  <2>1. ~GivesUp(e) /\ ~LastRetry(e) /\ ~Resends(e)
    BY <1>0, <1>4 DEF GivesUp, LastRetry, Resends
  <2>2. Checked(e) = [e EXCEPT !.tmr = @ - 1]
    BY <1>0, <1>4, <2>1 DEF Checked
  <2>3. e.tmr - 1 \in 1..MaxRetries
    BY <1>0, <1>4, Consts
  <2> QED
    BY <2>1, <2>2, <2>3 DEF Queries
<1> QED
  BY <1>0, <1>1, <1>2, <1>3, <1>4 DEF GivesUp, Resends

\* dns_check_entry, of an address: its time is over, or one less.
LEMMA CheckedDone ==
  ASSUME NEW e \in Answers
  PROVE  \/ Checked(e) = Unused
         \/ /\ Checked(e) \in Answers
            /\ Checked(e).name = e.name /\ Checked(e).addr = e.addr
            /\ Checked(e).given = e.given /\ e.ttl # 1
            /\ e.ttl > 0 => Checked(e).ttl = e.ttl - 1
            /\ Checked(e).age = IF e.age < e.given THEN e.age + 1 ELSE e.age
<1>0. /\ e.st = "done" /\ e.ttl \in 0..(TtlMod - 1) /\ e.given \in 0..MaxTtl /\ e.age \in 0..MaxTtl
  BY DEF Answers
<1>1. ~GivesUp(e) /\ ~LastRetry(e) /\ ~Resends(e)
  BY <1>0 DEF GivesUp, LastRetry, Resends
<1>2. CASE e.ttl = 1
  BY <1>0, <1>1, <1>2 DEF Checked
<1>3. CASE e.ttl # 1
  <2>1. Checked(e) = [e EXCEPT !.ttl = (@ - 1) % TtlMod, !.age = IF @ < e.given THEN @ + 1 ELSE @]
    BY <1>0, <1>1, <1>3 DEF Checked
  <2>2. (e.ttl - 1) % TtlMod \in 0..(TtlMod - 1)
    <3>1. PICK a \in Int, m \in Nat : a = e.ttl - 1 /\ m = TtlMod /\ m > 0
      BY <1>0, Consts
    <3>2. a % m \in 0..(m - 1)
      BY <3>1
    <3> QED
      BY <3>1, <3>2
  <2>3. e.ttl > 0 => (e.ttl - 1) % TtlMod = e.ttl - 1
    <3>1. PICK a \in Int, m \in Nat : a = e.ttl - 1 /\ m = TtlMod /\ m > 0 /\ a < m
      BY <1>0, Consts
    <3>2. a >= 0 => a % m = a
      BY <3>1
    <3> QED
      BY <1>0, <3>1, <3>2
  <2>4. (IF e.age < e.given THEN e.age + 1 ELSE e.age) \in 0..MaxTtl
    BY <1>0, Consts
  <2> QED
    BY <1>0, <1>3, <2>1, <2>2, <2>3, <2>4 DEF Answers
<1> QED
  BY <1>2, <1>3

\* Every entry that was checked is one of the three kinds.
LEMMA CheckedIs ==
  ASSUME servers \subseteq Servers, NEW e \in Cells
  PROVE  /\ Checked(e) \in Cells
         /\ e = Unused => Checked(e) = Unused
         /\ Checked(e).st = "asking" => e \in Queries /\ ~GivesUp(e)
         /\ Checked(e).st = "done" => e \in Answers
<1>1. CASE e = Unused
  BY <1>1 DEF Checked, Cells, Unused, GivesUp, LastRetry, Resends
<1>2. CASE e \in Queries
  BY <1>2, CheckedAsking, Kinds DEF Cells, Unused, Queries, Answers
<1>3. CASE e \in Answers
  BY <1>3, CheckedDone, Kinds DEF Cells, Unused, Queries, Answers
<1> QED
  BY <1>1, <1>2, <1>3 DEF Cells

-----------------------------------------------------------------------------
(* Names and arrays                                                        *)

\* A name is a sequence of labels, with one at least.
LEMMA NameIs == \A n \in Names : n \in Seq(Labels) /\ n # <<>> /\ Len(n) \in Nat /\ Len(n) >= 1
<1> TAKE n \in Names
<1>1. n \in Seq(ToSet(n)) /\ n # <<>>
  BY DnsAssumption
<1>2. ToSet(n) \subseteq Labels
  BY DEF Labels
<1>3. n \in Seq(Labels)
  BY <1>1, <1>2, SeqMonotonic
<1>4. Len(n) \in Nat /\ (Len(n) = 0 => n = <<>>)
  BY <1>3, EmptySeq
<1> QED
  BY <1>1, <1>3, <1>4

\* The array has the name, and behind it what was there before.
LEMMA ArrayIs ==
  ASSUME NEW old \in Seq(Labels), NEW n \in Names
  PROVE  Overwritten(old, n) \in Seq(Labels) /\ IsPrefix(n, Overwritten(old, n))
<1>1. PICK k \in Nat, l \in Nat : k = Len(n) /\ l = Len(old) /\ k >= 1 /\ n \in Seq(Labels)
  BY NameIs, LenProperties
<1> DEFINE x == SubSeq(old, k + 1, l)
<1>2. x \in Seq(Labels)
  <2>1. \A i \in (k + 1)..l : old[i] \in Labels
    BY <1>1, ElementOfSeq
  <2>2. k + 1 \in Int /\ l \in Int
    BY <1>1
  <2> QED
    BY <2>1, <2>2, SubSeqProperties
<1>3. Overwritten(old, n) = n \o x
  BY <1>1 DEF Overwritten
<1> HIDE DEF x
<1>4. n \o x \in Seq(Labels) /\ Len(n \o x) = k + Len(x) /\ Len(x) \in Nat
  BY <1>1, <1>2, ConcatProperties, LenProperties
<1>5. SubSeq(n \o x, 1, k) = SubSeq(n, 1, k)
  <2>1. 1 \in 1..Len(n) /\ k \in 1..Len(n)
    BY <1>1
  <2> QED
    BY <1>1, <1>2, <2>1, SubSeqOfConcat1
<1> QED
  BY <1>1, <1>3, <1>4, <1>5 DEF IsPrefix

\* Of two names an array begins with, one begins with the other.
LEMMA PrefixesMeet ==
  ASSUME NEW m \in Names, NEW n \in Names, NEW x \in Seq(Labels), IsPrefix(m, x), IsPrefix(n, x)
  PROVE  IsPrefix(m, n) \/ IsPrefix(n, m)
<1>1. ASSUME NEW a \in Names, NEW b \in Names, IsPrefix(a, x), IsPrefix(b, x), Len(a) <= Len(b)
      PROVE  IsPrefix(a, b)
  <2>1. PICK k \in Nat, l \in Nat : /\ k = Len(a) /\ l = Len(b) /\ 1 <= k /\ k <= l /\ l <= Len(x)
                                    /\ a \in Seq(Labels) /\ b \in Seq(Labels) /\ Len(x) \in Nat
    BY <1>1, NameIs, LenProperties DEF IsPrefix
  <2>2. SubSeq(b, 1, l) = SubSeq(x, 1, l) /\ SubSeq(a, 1, k) = SubSeq(x, 1, k)
    BY <1>1, <2>1 DEF IsPrefix
  <2>3. b = SubSeq(x, 1, l)
    BY <2>1, <2>2, SubSeqFull
  <2>4. SubSeq(SubSeq(x, 1, l), 1, k) = SubSeq(x, 1, k)
    <3>1. /\ 1 \in 1..Len(x) /\ l \in 1..Len(x) /\ 1 \in 1..(l - 1 + 1) /\ k \in 1..(l - 1 + 1)
          /\ 1 + 1 - 1 = 1 /\ 1 + k - 1 = k
      BY <2>1
    <3>2. SubSeq(SubSeq(x, 1, l), 1, k) = SubSeq(x, 1 + 1 - 1, 1 + k - 1)
      BY <3>1, SubSeqOfSubSeq
    <3> QED
      BY <3>1, <3>2
  <2> QED
    BY <2>1, <2>2, <2>3, <2>4 DEF IsPrefix
<1>2. Len(m) \in Nat /\ Len(n) \in Nat
  BY NameIs
<1> QED
  BY <1>1, <1>2

-----------------------------------------------------------------------------
(* The steps                                                               *)

\* do_gethostbyname answers the caller, or takes an entry that does not ask.
Told(t) == \E r \in Names \cup {Failed} :
  /\ r = Failed \/ \E i \in Entries : /\ table[i].st = "done" /\ table[i].name = caller[t].name
                                      /\ table[i].addr = r
  /\ caller' = DnsFound({t}, r) /\ UNCHANGED <<table, text, seqno, sent, peer>>
Queued(t) == \E i \in Entries :
  /\ table[i].st # "asking"
  /\ table' = [table EXCEPT ![i] = Asking(t, caller[t].name, seqno)]
  /\ text' = [text EXCEPT ![i] = Overwritten(@, caller[t].name)]
  /\ seqno' = (seqno + 1) % SeqnoMod
  /\ caller' = [caller EXCEPT ![t].pc = "waiting"]
  /\ DnsSend([table EXCEPT ![i] = Asking(t, caller[t].name, seqno)], {i})

\* do_gethostbyname takes the first message, whose caller is posted, and does one of the two.
LEMMA GetIs ==
  ASSUME Types, Messages, Named, DoGethostbyname
  PROVE  \E t \in Tasks : /\ mbox # <<>> /\ t = Head(mbox) /\ mbox' = Tail(mbox) /\ servers' = servers
                          /\ Untold(caller[t], "posted") /\ caller[t].name \in Names
                          /\ Told(t) \/ Queued(t)
<1>1. PICK t \in Tasks : t = Head(mbox)
  BY HeadTailProperties DEF Types, DoGethostbyname
<1>2. mbox # <<>> /\ mbox' = Tail(mbox) /\ servers' = servers
  BY DEF DoGethostbyname
<1>3. Untold(caller[t], "posted")
  <2>1. 1 \in 1..Len(mbox) /\ Head(mbox) = mbox[1]
    BY <1>2, EmptySeq, LenProperties DEF Types
  <2> QED
    BY <1>1, <2>1 DEF Messages
<1>4. caller[t].name \in Names
  BY <1>3 DEF Named, Untold
<1>5. Told(t) \/ Queued(t)
  <2> DEFINE n == caller[t].name
  <2>1. CASE Cached(n) # {}
    <3>1. PICK i \in Cached(n) : i = First(Cached(n))
      BY <2>1, FirstIn DEF Cached
    <3>2. i \in Entries /\ table[i].st = "done" /\ table[i].name = n
      BY <3>1 DEF Cached
    <3>3. table[i].addr \in Names
      BY <3>2, Kinds DEF Types, Answers
    <3>4. caller' = DnsFound({t}, table[i].addr) /\ UNCHANGED <<table, text, seqno, sent, peer>>
      BY <1>1, <2>1, <3>1 DEF DoGethostbyname
    <3> QED
      BY <3>2, <3>3, <3>4 DEF Told
  <2>2. CASE Cached(n) = {}
    <3>1. Enqueue(t, n)
      BY <1>1, <2>2 DEF DoGethostbyname
    <3>2. CASE Slots = {}
      <4>1. caller' = DnsFound({t}, Failed) /\ UNCHANGED <<table, text, seqno, sent, peer>>
        BY <3>1, <3>2 DEF Enqueue, Slots
      <4> QED
        BY <4>1 DEF Told
    <3>3. CASE Slots # {}
      <4>1. PICK i \in Entries : i = First(Slots) /\ table[i].st # "asking"
        BY <3>3, SlotIs
      <4>2. /\ table' = [table EXCEPT ![i] = Asking(t, n, seqno)]
            /\ text' = [text EXCEPT ![i] = Overwritten(@, n)]
            /\ seqno' = (seqno + 1) % SeqnoMod
            /\ caller' = [caller EXCEPT ![t].pc = "waiting"]
            /\ DnsSend([table EXCEPT ![i] = Asking(t, n, seqno)], {i})
        BY <3>1, <3>3, <4>1 DEF Enqueue, Slots
      <4> QED
        BY <4>1, <4>2 DEF Queued
    <3> QED
      BY <3>2, <3>3
  <2> QED
    BY <2>1, <2>2
<1> QED
  BY <1>1, <1>2, <1>3, <1>4, <1>5

\* dns_recv ends the query of an entry: with an address, or with none.
Ended(i, n, match, ttl) ==
  /\ table[i] \in Queries
  /\ match => SameName(text[i], n)
  /\ caller' = DnsFound({table[i].found}, IF match THEN n ELSE Failed)
  /\ table' = [table EXCEPT ![i] = IF match THEN Done(table[i], n, ttl) ELSE Unused]

\* dns_recv of an answer that an entry waits for.
LEMMA RecvIs ==
  ASSUME Types, DnsRecv
  PROVE  \E i \in Entries, n \in Names, match \in BOOLEAN, ttl \in 0..MaxTtl : Ended(i, n, match, ttl)
<1>1. PICK q \in sent, good \in BOOLEAN, ttl \in 0..MaxTtl : Accepts(q[1]) /\ Recv(q[1], q[2], good, ttl)
  BY DEF DnsRecv
<1>2. PICK i \in Entries, n \in Names : i = q[1] /\ n = q[2]
  BY DEF Types
<1>3. PICK match \in BOOLEAN : match = (good /\ SameName(text[i], n))
  OBVIOUS
<1>4. table[i] \in Queries
  BY <1>1, <1>2, Kinds DEF Types, Accepts
<1>5. /\ caller' = DnsFound({table[i].found}, IF match THEN n ELSE Failed)
      /\ table' = [table EXCEPT ![i] = IF match THEN Done(table[i], n, ttl) ELSE Unused]
  BY <1>1, <1>2, <1>3 DEF Recv
<1>6. match => SameName(text[i], n)
  BY <1>3
<1> QED
  BY <1>4, <1>5, <1>6 DEF Ended

\* The callers of the queries that dns_tmr ends have not been told.
Over == {i \in Entries : GivesUp(table[i])}
Owners == {table[i].found : i \in Over}

\* They wait, and ask through an entry.
LEMMA OverIs ==
  ASSUME Types, Waiters
  PROVE  /\ \A i \in Over : i \in Entries /\ table[i] \in Queries
         /\ \A t \in Owners : /\ t \in Tasks /\ Untold(caller[t], "waiting")
                              /\ \E i \in Entries : Asks(i, t)
<1>1. ASSUME NEW i \in Over
      PROVE  i \in Entries /\ table[i] \in Queries /\ table[i].st = "asking"
  <2>1. i \in Entries /\ table[i].st = "asking"
    BY DEF Over, GivesUp, LastRetry
  <2> QED
    BY <2>1, Kinds DEF Types
<1>2. ASSUME NEW i \in Over
      PROVE  /\ table[i].found \in Tasks /\ Untold(caller[table[i].found], "waiting")
             /\ Asks(i, table[i].found)
  BY <1>1 DEF Queries, Waiters, Asks
<1> QED
  BY <1>1, <1>2 DEF Owners

-----------------------------------------------------------------------------
(* Each step keeps the invariant                                           *)

\* A message at the end of the mailbox, and the first one taken out.
LEMMA MailIs ==
  ASSUME mbox \in Seq(Tasks), NEW t \in Tasks
  PROVE  /\ Append(mbox, t) \in Seq(Tasks) /\ Len(mbox) \in Nat
         /\ Len(Append(mbox, t)) = Len(mbox) + 1
         /\ \A k \in 1..Len(mbox) : Append(mbox, t)[k] = mbox[k]
         /\ Append(mbox, t)[Len(mbox) + 1] = t
         /\ mbox # <<>> => /\ Tail(mbox) \in Seq(Tasks) /\ Len(Tail(mbox)) = Len(mbox) - 1
                           /\ Len(mbox) >= 1 /\ Head(mbox) = mbox[1]
                           /\ \A k \in 1..(Len(mbox) - 1) : Tail(mbox)[k] = mbox[k + 1]
<1>1. Len(mbox) \in Nat /\ (Len(mbox) = 0 => mbox = <<>>)
  BY EmptySeq, LenProperties
<1>2. /\ Append(mbox, t) \in Seq(Tasks) /\ Len(Append(mbox, t)) = Len(mbox) + 1
      /\ \A k \in 1..Len(mbox) : Append(mbox, t)[k] = mbox[k]
      /\ Append(mbox, t)[Len(mbox) + 1] = t
  BY AppendProperties
<1>3. mbox # <<>> => /\ Tail(mbox) \in Seq(Tasks) /\ Len(Tail(mbox)) = Len(mbox) - 1
                     /\ Head(mbox) = mbox[1]
                     /\ \A k \in 1..(Len(mbox) - 1) : Tail(mbox)[k] = mbox[k + 1]
  BY HeadTailProperties
<1> QED
  BY <1>1, <1>2, <1>3

\* netconn_gethostbyname: the caller was idle, so no entry and no message is its own.
LEMMA GethostbynameStep ==
  ASSUME IInv, NEW t \in Tasks, Gethostbyname(t)
  PROVE  IInv'
<1>0. Types /\ Waiters /\ Messages /\ Named /\ Left /\ Arrays
  BY DEF IInv
<1>1. PICK n \in Names, room \in BOOLEAN :
        /\ caller' = [caller EXCEPT ![t] = [pc |-> IF room THEN "posted" ELSE "lost",
                                            name |-> n, sem |-> 0, result |-> Failed]]
        /\ mbox' = IF room THEN Append(mbox, t) ELSE mbox
  BY DEF Gethostbyname
<1>2. caller[t].pc = "idle" /\ UNCHANGED <<table, text, seqno, servers, peer, sent>>
  BY DEF Gethostbyname
<1>3. caller' \in [Tasks -> Callers]
  BY <1>0, <1>1 DEF Types, Callers
<1>4. /\ \A u \in Tasks \ {t} : caller'[u] = caller[u]
      /\ caller'[t].pc = IF room THEN "posted" ELSE "lost"
      /\ caller'[t].name = n /\ caller'[t].sem = 0
  BY <1>0, <1>1 DEF Types
<1>5. Types'
  BY <1>0, <1>1, <1>2, <1>3, MailIs DEF Types
<1>6. Waiters'
  <2>1. ASSUME NEW i \in Entries, table[i].st = "asking"
        PROVE  Untold(caller'[table[i].found], "waiting") /\ caller'[table[i].found].name = table[i].name
    <3>1. table[i].found \in Tasks
      BY <1>0, <2>1, Kinds DEF Types, Queries
    <3>2. Untold(caller[table[i].found], "waiting") /\ caller[table[i].found].name = table[i].name
      BY <1>0, <2>1 DEF Waiters
    <3>3. table[i].found # t
      BY <1>2, <3>2 DEF Untold
    <3> QED
      BY <1>4, <3>1, <3>2, <3>3
  <2>2. ASSUME NEW u \in Tasks, Untold(caller'[u], "waiting")
        PROVE  \E i \in Entries : Asks(i, u)
    <3>1. u # t
      BY <1>4, <2>2 DEF Untold
    <3> QED
      BY <1>0, <1>4, <2>2, <3>1 DEF Waiters
  <2> QED
    BY <1>0, <1>2, <2>1, <2>2 DEF Waiters, Asks, Untold
<1>7. Messages'
  <2>1. \A k \in 1..Len(mbox) : mbox[k] \in Tasks /\ mbox[k] # t /\ Untold(caller[mbox[k]], "posted")
    <3> TAKE k \in 1..Len(mbox)
    <3>1. mbox[k] \in Tasks /\ Untold(caller[mbox[k]], "posted")
      BY <1>0, ElementOfSeq DEF Types, Messages
    <3> QED
      BY <1>2, <3>1 DEF Untold
  <2>2. CASE room
    <3>0. mbox' = Append(mbox, t)
      BY <1>1, <2>2
    <3>1. \A k \in 1..Len(mbox') : \/ k \in 1..Len(mbox) /\ mbox'[k] = mbox[k]
                                   \/ k = Len(mbox) + 1 /\ mbox'[k] = t
      BY <1>0, <3>0, MailIs DEF Types
    <3>2. \A k \in 1..Len(mbox') : Untold(caller'[mbox'[k]], "posted")
      BY <1>4, <2>1, <2>2, <3>1 DEF Untold
    <3>3. \A k, l \in 1..Len(mbox') : mbox'[k] = mbox'[l] => k = l
      BY <1>0, <2>1, <3>1 DEF Messages
    <3>4. ASSUME NEW u \in Tasks, Untold(caller'[u], "posted")
          PROVE  \E k \in 1..Len(mbox') : mbox'[k] = u
      <4>1. CASE u = t
        BY <1>0, <3>0, <4>1, MailIs DEF Types
      <4>2. CASE u # t
        <5>1. PICK k \in 1..Len(mbox) : mbox[k] = u
          BY <1>0, <1>4, <3>4, <4>2 DEF Messages
        <5> QED
          BY <1>0, <3>0, <5>1, MailIs DEF Types
      <4> QED
        BY <4>1, <4>2
    <3> QED
      BY <3>2, <3>3, <3>4 DEF Messages, Untold
  <2>3. CASE ~room
    <3>1. mbox' = mbox
      BY <1>1, <2>3
    <3>2. \A k \in 1..Len(mbox) : Untold(caller'[mbox[k]], "posted")
      BY <1>4, <2>1 DEF Untold
    <3>3. ASSUME NEW u \in Tasks, Untold(caller'[u], "posted")
          PROVE  \E k \in 1..Len(mbox) : mbox[k] = u
      <4>1. u # t
        BY <1>4, <2>3, <3>3 DEF Untold
      <4> QED
        BY <1>0, <1>4, <3>3, <4>1 DEF Messages
    <3> QED
      BY <1>0, <3>1, <3>2, <3>3 DEF Messages, Untold
  <2> QED
    BY <2>2, <2>3
<1>8. Named'
  BY <1>0, <1>4 DEF Named
<1>9. Left' /\ Arrays'
  BY <1>0, <1>2 DEF Left, Arrays
<1> QED
  BY <1>5, <1>6, <1>7, <1>8, <1>9 DEF IInv

\* The caller goes on: it has been told, so no entry and no message points to its stack.
LEMMA ReturnStep ==
  ASSUME IInv, NEW t \in Tasks, Return(t)
  PROVE  IInv'
<1>0. Types /\ Waiters /\ Messages /\ Named /\ Left /\ Arrays
  BY DEF IInv
<1>1. /\ caller' = [caller EXCEPT ![t] = [pc |-> "idle", name |-> <<>>, sem |-> 0, result |-> Failed]]
      /\ caller[t].sem = 1 /\ UNCHANGED <<mbox, table, text, seqno, servers, peer, sent>>
  BY DEF Return
<1>2. caller' \in [Tasks -> Callers]
  BY <1>0, <1>1 DEF Types, Callers
<1>3. (\A u \in Tasks \ {t} : caller'[u] = caller[u]) /\ caller'[t].pc = "idle"
  BY <1>0, <1>1 DEF Types
<1>4. Types'
  BY <1>0, <1>1, <1>2 DEF Types
<1>5. \A u \in Tasks, loc \in {"posted", "waiting"} :
        /\ Untold(caller[u], loc) => caller'[u] = caller[u]
        /\ Untold(caller'[u], loc) => caller'[u] = caller[u]
  BY <1>1, <1>3 DEF Untold
<1>6. Waiters'
  <2>1. ASSUME NEW i \in Entries, table[i].st = "asking"
        PROVE  Untold(caller'[table[i].found], "waiting") /\ caller'[table[i].found].name = table[i].name
    <3>1. table[i].found \in Tasks
      BY <1>0, <2>1, Kinds DEF Types, Queries
    <3> QED
      BY <1>0, <1>5, <2>1, <3>1 DEF Waiters
  <2>2. \A u \in Tasks : Untold(caller'[u], "waiting") => \E i \in Entries : Asks(i, u)
    BY <1>0, <1>5 DEF Waiters
  <2> QED
    BY <1>0, <1>1, <2>1, <2>2 DEF Waiters, Asks, Untold
<1>7. Messages'
  <2>1. \A k \in 1..Len(mbox) : mbox[k] \in Tasks
    BY <1>0, ElementOfSeq DEF Types
  <2>2. \A k \in 1..Len(mbox) : Untold(caller'[mbox[k]], "posted")
    BY <1>0, <1>5, <2>1 DEF Messages
  <2>3. \A u \in Tasks : Untold(caller'[u], "posted") => \E k \in 1..Len(mbox) : mbox[k] = u
    BY <1>0, <1>5 DEF Messages
  <2> QED
    BY <1>0, <1>1, <2>2, <2>3 DEF Messages, Untold
<1>8. Named'
  BY <1>0, <1>3 DEF Named
<1>9. Left' /\ Arrays'
  BY <1>0, <1>1 DEF Left, Arrays
<1> QED
  BY <1>4, <1>6, <1>7, <1>8, <1>9 DEF IInv

\* dns_setserver touches no query.
LEMMA SetServerStep ==
  ASSUME IInv, NEW s \in Servers, SetServer(s)
  PROVE  IInv'
<1>0. Types /\ Waiters /\ Messages /\ Named /\ Left /\ Arrays
  BY DEF IInv
<1>1. servers' = servers \cup {s} /\ UNCHANGED <<caller, mbox, table, text, seqno, peer, sent>>
  BY DEF SetServer
<1>2. Types'
  BY <1>0, <1>1 DEF Types
<1>3. Waiters' /\ Messages' /\ Named' /\ Left' /\ Arrays'
  BY <1>0, <1>1 DEF Waiters, Messages, Named, Left, Arrays, Asks
<1> QED
  BY <1>2, <1>3 DEF IInv

\* The first message is taken out of the mailbox.
LEMMA MailTaken ==
  ASSUME Types, Messages, mbox # <<>>, NEW t \in Tasks, t = Head(mbox), mbox' = Tail(mbox),
         \A u \in Tasks \ {t} : caller'[u] = caller[u], ~Untold(caller'[t], "posted")
  PROVE  Messages'
<1>1. /\ \A k \in 1..Len(mbox') : /\ k + 1 \in 1..Len(mbox) /\ mbox'[k] = mbox[k + 1]
                                  /\ k + 1 # 1
      /\ \A k \in 1..Len(mbox) : k # 1 => k - 1 \in 1..Len(mbox') /\ mbox'[k - 1] = mbox[k]
      /\ 1 \in 1..Len(mbox) /\ mbox[1] = t /\ \A k \in 1..Len(mbox) : mbox[k] \in Tasks
  <2>1. PICK n \in Nat : n = Len(mbox) /\ n >= 1 /\ Len(mbox') = n - 1 /\ mbox[1] = t
    BY MailIs DEF Types
  <2>2. \A k \in 1..(n - 1) : mbox'[k] = mbox[k + 1]
    BY <2>1, MailIs DEF Types
  <2>3. \A k \in 1..n : mbox[k] \in Tasks
    BY <2>1, ElementOfSeq DEF Types
  <2>4. \A k \in 1..(n - 1) : k + 1 \in 1..n /\ k + 1 # 1
    BY <2>1
  <2>5. \A k \in 1..n : k # 1 => k - 1 \in 1..(n - 1) /\ (k - 1) + 1 = k
    BY <2>1
  <2> QED
    BY <2>1, <2>2, <2>3, <2>4, <2>5
<1>2. \A k \in 1..Len(mbox') : mbox'[k] \in Tasks /\ mbox'[k] # t
  BY <1>1 DEF Messages
<1>3. \A k \in 1..Len(mbox') : Untold(caller'[mbox'[k]], "posted")
  BY <1>1, <1>2 DEF Messages
<1>4. \A k, l \in 1..Len(mbox') : mbox'[k] = mbox'[l] => k = l
  <2> TAKE k, l \in 1..Len(mbox')
  <2>1. k \in Int /\ l \in Int
    OBVIOUS
  <2>2. mbox'[k] = mbox'[l] => k + 1 = l + 1
    BY <1>1 DEF Messages
  <2> QED
    BY <2>1, <2>2
<1>5. ASSUME NEW u \in Tasks, Untold(caller'[u], "posted")
      PROVE  \E k \in 1..Len(mbox') : mbox'[k] = u
  <2>1. u # t
    BY <1>5
  <2>2. PICK k \in 1..Len(mbox) : mbox[k] = u
    BY <1>5, <2>1 DEF Messages
  <2> QED
    BY <1>1, <2>1, <2>2
<1> QED
  BY <1>3, <1>4, <1>5 DEF Messages, Untold

\* do_gethostbyname, answered at once.
LEMMA ToldStep ==
  ASSUME IInv, NEW t \in Tasks, mbox # <<>>, t = Head(mbox), mbox' = Tail(mbox), servers' = servers,
         Untold(caller[t], "posted"), Told(t)
  PROVE  IInv'
<1>0. Types /\ Waiters /\ Messages /\ Named /\ Left /\ Arrays
  BY DEF IInv
<1>1. PICK r \in Names \cup {Failed} : caller' = DnsFound({t}, r)
  BY DEF Told
<1>2. UNCHANGED <<table, text, seqno, sent, peer>>
  BY DEF Told
<1>3. caller \in [Tasks -> Callers] /\ \A u \in {t} \cap Tasks : caller[u].sem = 0
  BY <1>0 DEF Types, Untold
<1>4. /\ caller' \in [Tasks -> Callers]
      /\ \A u \in Tasks \ {t} : caller'[u] = caller[u]
      /\ caller'[t].pc = "posted" /\ caller'[t].name = caller[t].name /\ caller'[t].sem = 1
  BY <1>1, <1>3, FoundIs DEF Untold
<1>5. Types'
  <2>1. mbox' \in Seq(Tasks)
    BY <1>0, MailIs DEF Types
  <2> QED
    BY <1>0, <1>2, <1>4, <2>1 DEF Types
<1>6. Waiters'
  <2>1. ASSUME NEW i \in Entries, table[i].st = "asking"
        PROVE  Untold(caller'[table[i].found], "waiting") /\ caller'[table[i].found].name = table[i].name
    <3>1. table[i].found \in Tasks
      BY <1>0, <2>1, Kinds DEF Types, Queries
    <3>2. Untold(caller[table[i].found], "waiting") /\ caller[table[i].found].name = table[i].name
      BY <1>0, <2>1 DEF Waiters
    <3>3. table[i].found # t
      BY <3>2 DEF Untold
    <3> QED
      BY <1>4, <3>1, <3>2, <3>3
  <2>2. ASSUME NEW u \in Tasks, Untold(caller'[u], "waiting")
        PROVE  \E i \in Entries : Asks(i, u)
    <3>1. u # t
      BY <1>4, <2>2 DEF Untold
    <3> QED
      BY <1>0, <1>4, <2>2, <3>1 DEF Waiters
  <2> QED
    BY <1>0, <1>2, <2>1, <2>2 DEF Waiters, Asks, Untold
<1>7. Messages'
  <2>1. ~Untold(caller'[t], "posted")
    BY <1>4 DEF Untold
  <2> QED
    BY <1>0, <1>4, <2>1, MailTaken
<1>8. Named'
  BY <1>0, <1>4 DEF Named, Untold
<1>9. Left' /\ Arrays'
  BY <1>0, <1>2 DEF Left, Arrays
<1> QED
  BY <1>5, <1>6, <1>7, <1>8, <1>9 DEF IInv

\* do_gethostbyname, with a query: the entry that is taken asks for nobody else.
LEMMA QueuedStep ==
  ASSUME IInv, NEW t \in Tasks, mbox # <<>>, t = Head(mbox), mbox' = Tail(mbox), servers' = servers,
         Untold(caller[t], "posted"), caller[t].name \in Names, Queued(t)
  PROVE  IInv'
<1> DEFINE n == caller[t].name
           a == Asking(t, n, seqno)
<1>0. Types /\ Waiters /\ Messages /\ Named /\ Left /\ Arrays
  BY DEF IInv
<1>1. PICK i \in Entries :
        /\ table[i].st # "asking"
        /\ table' = [table EXCEPT ![i] = a]
        /\ text' = [text EXCEPT ![i] = Overwritten(@, n)]
        /\ seqno' = (seqno + 1) % SeqnoMod
        /\ caller' = [caller EXCEPT ![t].pc = "waiting"]
        /\ DnsSend([table EXCEPT ![i] = a], {i})
  BY DEF Queued
<1>2. a \in Queries /\ a.st = "asking" /\ a.name = n /\ a.found = t
  BY <1>0, Consts DEF Asking, Queries, Types
<1> HIDE DEF a
<1>3. /\ caller' \in [Tasks -> Callers]
      /\ \A u \in Tasks \ {t} : caller'[u] = caller[u]
      /\ caller'[t].pc = "waiting" /\ caller'[t].name = n /\ caller'[t].sem = 0
  <2>1. PICK c \in Callers : c = caller[t] /\ c.sem = 0 /\ c.name = n
    BY <1>0 DEF Types, Untold
  <2> DEFINE d == [c EXCEPT !.pc = "waiting"]
  <2>2. d \in Callers /\ d.pc = "waiting" /\ d.name = c.name /\ d.sem = c.sem
    BY DEF Callers
  <2>3. caller' = [caller EXCEPT ![t] = d]
    BY <1>1, <2>1
  <2> HIDE DEF d
  <2> QED
    BY <1>0, <2>1, <2>2, <2>3 DEF Types
<1>4. /\ table' \in [Entries -> Cells] /\ table'[i] = a
      /\ \A j \in Entries \ {i} : table'[j] = table[j]
  BY <1>0, <1>1, <1>2 DEF Types, Cells
<1>5. /\ text' \in [Entries -> Seq(Labels)] /\ IsPrefix(n, text'[i])
      /\ \A j \in Entries \ {i} : text'[j] = text[j]
  <2>1. text[i] \in Seq(Labels)
    BY <1>0 DEF Types
  <2>2. Overwritten(text[i], n) \in Seq(Labels) /\ IsPrefix(n, Overwritten(text[i], n))
    BY <2>1, ArrayIs
  <2> QED
    BY <1>0, <1>1, <2>2 DEF Types
<1>6. Types'
  <2>1. mbox' \in Seq(Tasks)
    BY <1>0, MailIs DEF Types
  <2>2. seqno' \in 0..(SeqnoMod - 1)
    <3>1. PICK x \in Int, m \in Nat : x = seqno + 1 /\ m = SeqnoMod /\ m > 0
      BY <1>0, Consts DEF Types
    <3>2. x % m \in 0..(m - 1)
      BY <3>1
    <3> QED
      BY <1>1, <3>1, <3>2
  <2>3. sent' \subseteq Entries \X Names \X Servers /\ peer' \in Servers
    <3> DEFINE tb == [table EXCEPT ![i] = a]
    <3>1. \A j \in {i} : tb[j] \in Queries
      BY <1>0, <1>2 DEF Types
    <3>2. DnsSend(tb, {i}) /\ {i} \subseteq Entries
      BY <1>1
    <3> HIDE DEF tb
    <3> QED
      BY <1>0, <3>1, <3>2, SendIs DEF Types
  <2> QED
    BY <1>0, <1>3, <1>4, <1>5, <2>1, <2>2, <2>3 DEF Types
<1>7. \A j \in Entries : table[j].st = "asking" => /\ j # i /\ table[j].found \in Tasks \ {t}
                                                   /\ Untold(caller[table[j].found], "waiting")
                                                   /\ caller[table[j].found].name = table[j].name
  <2> SUFFICES ASSUME NEW j \in Entries, table[j].st = "asking"
               PROVE  /\ j # i /\ table[j].found \in Tasks \ {t}
                      /\ Untold(caller[table[j].found], "waiting")
                      /\ caller[table[j].found].name = table[j].name
    OBVIOUS
  <2>1. table[j].found \in Tasks
    BY <1>0, Kinds DEF Types, Queries
  <2>2. Untold(caller[table[j].found], "waiting") /\ caller[table[j].found].name = table[j].name
    BY <1>0 DEF Waiters
  <2> QED
    BY <1>1, <2>1, <2>2 DEF Untold
<1>8. Waiters'
  <2>1. ASSUME NEW j \in Entries, table'[j].st = "asking"
        PROVE  Untold(caller'[table'[j].found], "waiting") /\ caller'[table'[j].found].name = table'[j].name
    <3>1. CASE j = i
      BY <1>2, <1>3, <1>4, <3>1 DEF Untold
    <3>2. CASE j # i
      BY <1>3, <1>4, <1>7, <2>1, <3>2
    <3> QED
      BY <3>1, <3>2
  <2>2. \A j \in Entries : table'[j].st = "asking" /\ table'[j].found = t => j = i
    BY <1>4, <1>7
  <2>3. ASSUME NEW j \in Entries, NEW k \in Entries, NEW u \in Tasks,
               table'[j].st = "asking", table'[j].found = u, table'[k].st = "asking", table'[k].found = u
        PROVE  j = k
    <3>1. CASE u = t
      BY <2>2, <2>3, <3>1
    <3>2. CASE u # t
      <4>1. j # i /\ k # i
        BY <1>2, <1>4, <2>3, <3>2
      <4> QED
        BY <1>0, <1>4, <2>3, <4>1 DEF Waiters, Asks
    <3> QED
      BY <3>1, <3>2
  <2>4. ASSUME NEW u \in Tasks, Untold(caller'[u], "waiting")
        PROVE  \E j \in Entries : table'[j].st = "asking" /\ table'[j].found = u
    <3>1. CASE u = t
      BY <1>2, <1>4, <3>1
    <3>2. CASE u # t
      <4>1. PICK j \in Entries : Asks(j, u)
        BY <1>0, <1>3, <2>4, <3>2 DEF Waiters
      <4>2. j # i
        BY <1>7, <4>1 DEF Asks
      <4> QED
        BY <1>4, <4>1, <4>2 DEF Asks
    <3> QED
      BY <3>1, <3>2
  <2> QED
    BY <2>1, <2>3, <2>4 DEF Waiters, Asks, Untold
<1>9. Messages'
  <2>1. ~Untold(caller'[t], "posted")
    BY <1>3 DEF Untold
  <2> QED
    BY <1>0, <1>3, <2>1, MailTaken
<1>10. Named'
  BY <1>0, <1>3 DEF Named, Untold
<1>11. Left'
  BY <1>0, <1>2, <1>4 DEF Left
<1>12. Arrays'
  BY <1>0, <1>2, <1>4, <1>5 DEF Arrays
<1> QED
  BY <1>6, <1>8, <1>9, <1>10, <1>11, <1>12 DEF IInv

\* Callers T that wait and whose entries go are told.
LEMMA MailKept ==
  ASSUME Types, Messages, NEW T, \A t \in T : t \in Tasks /\ Untold(caller[t], "waiting"),
         \A t \in Tasks : /\ t \notin T => caller'[t] = caller[t]
                          /\ t \in T => caller'[t].sem = 1,
         mbox' = mbox
  PROVE  Messages'
<1>1. \A k \in 1..Len(mbox) : mbox[k] \in Tasks
  BY ElementOfSeq DEF Types
<1>2. \A t \in Tasks : Untold(caller[t], "posted") => t \notin T
  BY DEF Untold
<1>3. \A k \in 1..Len(mbox) : Untold(caller'[mbox[k]], "posted")
  BY <1>1, <1>2 DEF Messages
<1>4. ASSUME NEW t \in Tasks, Untold(caller'[t], "posted")
      PROVE  \E k \in 1..Len(mbox) : mbox[k] = t
  <2>1. t \notin T
    BY <1>4 DEF Untold
  <2> QED
    BY <1>4, <2>1 DEF Messages
<1> QED
  BY <1>3, <1>4 DEF Messages, Untold

\* dns_tmr: the callers of the queries that end are told, and only they.
LEMMA DnsTmrStep ==
  ASSUME IInv, DnsTmr
  PROVE  IInv'
<1> DEFINE tb == [i \in Entries |-> Checked(table[i])]
           again == {i \in Entries : Resends(table[i])}
<1>0. Types /\ Waiters /\ Messages /\ Named /\ Left /\ Arrays
  BY DEF IInv
<1>1. /\ table' = tb /\ caller' = DnsFound(Owners, Failed) /\ DnsSend(tb, again)
      /\ UNCHANGED <<mbox, text, seqno, servers>>
  BY DEF DnsTmr, Owners, Over
<1>2. /\ \A i \in Over : i \in Entries /\ table[i] \in Queries
      /\ \A t \in Owners : t \in Tasks /\ Untold(caller[t], "waiting")
  BY <1>0, OverIs
<1>3. /\ caller' \in [Tasks -> Callers]
      /\ \A t \in Tasks :
           /\ t \notin Owners => caller'[t] = caller[t]
           /\ t \in Owners => /\ caller'[t].pc = caller[t].pc /\ caller'[t].name = caller[t].name
                              /\ caller'[t].sem = 1
  <2>1. caller \in [Tasks -> Callers] /\ \A t \in Owners \cap Tasks : caller[t].sem = 0
    BY <1>0, <1>2 DEF Types, Untold
  <2> QED
    BY <1>1, <2>1, FoundIs
<1>4. \A i \in Entries : table[i] \in Cells /\ table'[i] = Checked(table[i])
  BY <1>0, <1>1 DEF Types
<1>5. servers \subseteq Servers
  BY <1>0 DEF Types
\* An entry that asks afterwards asked before, for the same caller, and did not give up.
<1>6. \A i \in Entries : table'[i].st = "asking" =>
        /\ table[i].st = "asking" /\ ~GivesUp(table[i])
        /\ table'[i].name = table[i].name /\ table'[i].found = table[i].found
  <2> TAKE i \in Entries
  <2>1. table'[i].st = "asking" => table[i] \in Queries /\ ~GivesUp(table[i])
    BY <1>4, <1>5, CheckedIs
  <2>2. table[i] \in Queries /\ ~GivesUp(table[i]) =>
          table'[i].name = table[i].name /\ table'[i].found = table[i].found
    BY <1>4, <1>5, CheckedAsking
  <2> QED
    BY <1>4, <2>1, <2>2, Kinds
<1>7. \A i \in Entries : table[i].st = "asking" /\ ~GivesUp(table[i]) =>
        /\ table'[i].st = "asking" /\ table'[i] \in Queries /\ table'[i].found = table[i].found
  BY <1>4, <1>5, CheckedAsking, Kinds
\* Who asks on is not told.
<1>8. \A i \in Entries : table[i].st = "asking" /\ ~GivesUp(table[i]) =>
        table[i].found \in Tasks \ Owners
  <2> SUFFICES ASSUME NEW i \in Entries, table[i].st = "asking", ~GivesUp(table[i])
               PROVE  table[i].found \in Tasks \ Owners
    OBVIOUS
  <2>1. table[i].found \in Tasks
    BY <1>4, Kinds DEF Queries
  <2>2. \A j \in Over : table[j].found = table[i].found => j = i
    BY <1>0, <1>2, <1>4, <2>1, Kinds DEF Waiters, Asks
  <2>3. i \notin Over
    BY DEF Over
  <2> QED
    BY <2>1, <2>2, <2>3 DEF Owners
<1>9. Types'
  <2>1. \A i \in Entries : table'[i] \in Cells
    BY <1>4, <1>5, CheckedIs
  <2>2. table' \in [Entries -> Cells]
    BY <1>1, <1>4, <2>1
  <2>3. \A i \in again : tb[i] \in Queries
    <3> TAKE i \in again
    <3>1. i \in Entries /\ table[i].st = "asking" /\ ~GivesUp(table[i])
      BY DEF Resends, GivesUp
    <3> QED
      BY <1>1, <1>7, <3>1
  <2>4. DnsSend(tb, again) /\ again \subseteq Entries
    BY <1>1
  <2> HIDE DEF tb, again
  <2>5. sent' \subseteq Entries \X Names \X Servers /\ peer' \in Servers
    BY <1>0, <2>3, <2>4, SendIs DEF Types
  <2> QED
    BY <1>0, <1>1, <1>3, <2>2, <2>5 DEF Types
<1>10. Waiters'
  <2>1. ASSUME NEW i \in Entries, table'[i].st = "asking"
        PROVE  Untold(caller'[table'[i].found], "waiting") /\ caller'[table'[i].found].name = table'[i].name
    <3>1. table[i].found \in Tasks \ Owners /\ table'[i].found = table[i].found
      BY <1>6, <1>8, <2>1
    <3>2. Untold(caller[table[i].found], "waiting") /\ caller[table[i].found].name = table[i].name
      BY <1>0, <1>6, <2>1 DEF Waiters
    <3> QED
      BY <1>3, <1>6, <2>1, <3>1, <3>2
  <2>2. \A i, j \in Entries : \A t \in Tasks :
          table'[i].st = "asking" /\ table'[i].found = t /\ table'[j].st = "asking" /\ table'[j].found = t
          => i = j
    BY <1>0, <1>6 DEF Waiters, Asks
  <2>3. ASSUME NEW t \in Tasks, Untold(caller'[t], "waiting")
        PROVE  \E i \in Entries : table'[i].st = "asking" /\ table'[i].found = t
    <3>1. t \notin Owners
      BY <1>3, <2>3 DEF Untold
    <3>2. PICK i \in Entries : table[i].st = "asking" /\ table[i].found = t
      BY <1>0, <1>3, <2>3, <3>1 DEF Waiters, Asks
    <3>3. ~GivesUp(table[i])
      BY <3>1, <3>2 DEF Owners, Over
    <3> QED
      BY <1>7, <3>2, <3>3
  <2> QED
    BY <2>1, <2>2, <2>3 DEF Waiters, Asks, Untold
<1>11. Messages'
  BY <1>0, <1>1, <1>2, <1>3, MailKept
<1>12. Named'
  BY <1>0, <1>3 DEF Named
<1>13. Left'
  <2> SUFFICES ASSUME NEW i \in Entries, table'[i].st = "done", table'[i].given > 0
               PROVE  table'[i].ttl = table'[i].given - table'[i].age /\ table'[i].age < table'[i].given
    BY DEF Left
  <2>1. PICK e \in Answers : e = table[i]
    BY <1>4, <1>5, CheckedIs
  <2>2. /\ table'[i].given = e.given /\ e.ttl # 1 /\ (e.ttl > 0 => table'[i].ttl = e.ttl - 1)
        /\ table'[i].age = IF e.age < e.given THEN e.age + 1 ELSE e.age
    <3>1. table'[i] # Unused
      BY DEF Unused
    <3> QED
      BY <1>4, <2>1, <3>1, CheckedDone
  <2>3. e.ttl = e.given - e.age /\ e.age < e.given
    BY <1>0, <2>1, <2>2 DEF Left, Answers
  <2>4. e.ttl \in Int /\ e.given \in Int /\ e.age \in Int
    BY DEF Answers
  <2> QED
    BY <2>2, <2>3, <2>4
<1>14. Arrays'
  BY <1>0, <1>1, <1>6 DEF Arrays
<1> QED
  BY <1>9, <1>10, <1>11, <1>12, <1>13, <1>14 DEF IInv

\* dns_recv: the caller of the entry is told, and the entry no longer asks.
LEMMA DnsRecvStep ==
  ASSUME IInv, DnsRecv
  PROVE  IInv'
<1>0. Types /\ Waiters /\ Messages /\ Named /\ Left /\ Arrays
  BY DEF IInv
<1>1. PICK i \in Entries, n \in Names, match \in BOOLEAN, ttl \in 0..MaxTtl : Ended(i, n, match, ttl)
  BY <1>0, RecvIs
<1>2. UNCHANGED <<mbox, text, seqno, servers, peer, sent>>
  BY DEF DnsRecv
<1>3. PICK t \in Tasks : /\ t = table[i].found /\ table[i] \in Queries /\ table[i].st = "asking"
                         /\ Untold(caller[t], "waiting")
  BY <1>0, <1>1 DEF Ended, Queries, Waiters
<1>4. PICK e \in Cells :
        /\ table' = [table EXCEPT ![i] = e] /\ e.st # "asking"
        /\ e.st = "done" => e.ttl = e.given /\ e.age = 0 /\ e.given \in Nat
  <2>1. CASE match
    <3>1. Done(table[i], n, ttl) \in Answers
      BY <1>3, Consts DEF Done, Answers, Queries
    <3>2. /\ Done(table[i], n, ttl).st # "asking" /\ Done(table[i], n, ttl).ttl = Done(table[i], n, ttl).given
          /\ Done(table[i], n, ttl).age = 0 /\ Done(table[i], n, ttl).given \in Nat
      BY Consts DEF Done
    <3> QED
      BY <1>1, <2>1, <3>1, <3>2 DEF Ended, Cells
  <2>2. CASE ~match
    <3>1. Unused \in Cells /\ Unused.st # "asking" /\ Unused.st # "done"
      BY DEF Cells, Unused
    <3>2. table' = [table EXCEPT ![i] = Unused]
      BY <1>1, <2>2 DEF Ended
    <3> QED
      BY <3>1, <3>2
  <2> QED
    BY <2>1, <2>2
<1>5. /\ caller' \in [Tasks -> Callers]
      /\ \A u \in Tasks :
           /\ u \notin {t} => caller'[u] = caller[u]
           /\ u \in {t} => /\ caller'[u].pc = caller[u].pc /\ caller'[u].name = caller[u].name
                           /\ caller'[u].sem = 1
  <2>1. caller \in [Tasks -> Callers] /\ \A u \in {t} \cap Tasks : caller[u].sem = 0
    BY <1>0, <1>3 DEF Types, Untold
  <2>2. PICK r \in Names \cup {Failed} : r = IF match THEN n ELSE Failed
    OBVIOUS
  <2>3. caller' = DnsFound({t}, r)
    BY <1>1, <1>3, <2>2 DEF Ended
  <2> QED
    BY <2>1, <2>3, FoundIs
<1>6. /\ table' \in [Entries -> Cells] /\ table'[i] = e
      /\ \A j \in Entries \ {i} : table'[j] = table[j]
  BY <1>0, <1>4 DEF Types
<1>7. Types'
  BY <1>0, <1>2, <1>5, <1>6 DEF Types
<1>8. \A j \in Entries : table'[j].st = "asking" => j # i /\ table'[j] = table[j]
  BY <1>4, <1>6
<1>9. \A j \in Entries : j # i /\ table[j].st = "asking" => table[j].found \in Tasks \ {t}
  <2> SUFFICES ASSUME NEW j \in Entries, j # i, table[j].st = "asking"
               PROVE  table[j].found \in Tasks \ {t}
    OBVIOUS
  <2>1. table[j].found \in Tasks
    BY <1>0, Kinds DEF Types, Queries
  <2> QED
    BY <1>0, <1>3, <2>1 DEF Waiters, Asks
<1>10. Waiters'
  <2>1. ASSUME NEW j \in Entries, table'[j].st = "asking"
        PROVE  Untold(caller'[table'[j].found], "waiting") /\ caller'[table'[j].found].name = table'[j].name
    <3>1. j # i /\ table'[j] = table[j] /\ table[j].found \in Tasks \ {t}
      BY <1>8, <1>9, <2>1
    <3>2. Untold(caller[table[j].found], "waiting") /\ caller[table[j].found].name = table[j].name
      BY <1>0, <2>1, <3>1 DEF Waiters
    <3> QED
      BY <1>5, <3>1, <3>2
  <2>2. \A j, k \in Entries : \A u \in Tasks :
          table'[j].st = "asking" /\ table'[j].found = u /\ table'[k].st = "asking" /\ table'[k].found = u
          => j = k
    BY <1>0, <1>8 DEF Waiters, Asks
  <2>3. ASSUME NEW u \in Tasks, Untold(caller'[u], "waiting")
        PROVE  \E j \in Entries : table'[j].st = "asking" /\ table'[j].found = u
    <3>1. u # t
      BY <1>5, <2>3 DEF Untold
    <3>2. PICK j \in Entries : table[j].st = "asking" /\ table[j].found = u
      BY <1>0, <1>5, <2>3, <3>1 DEF Waiters, Asks
    <3> QED
      BY <1>3, <1>6, <3>1, <3>2
  <2> QED
    BY <2>1, <2>2, <2>3 DEF Waiters, Asks, Untold
<1>11. Messages'
  <2>1. /\ \A u \in {t} : u \in Tasks /\ Untold(caller[u], "waiting")
        /\ \A u \in Tasks : /\ u \notin {t} => caller'[u] = caller[u]
                            /\ u \in {t} => caller'[u].sem = 1
    BY <1>3, <1>5
  <2> QED
    BY <1>0, <1>2, <2>1, MailKept
<1>12. Named'
  BY <1>0, <1>5 DEF Named
<1>13. Left'
  <2> SUFFICES ASSUME NEW j \in Entries, table'[j].st = "done", table'[j].given > 0
               PROVE  table'[j].ttl = table'[j].given - table'[j].age /\ table'[j].age < table'[j].given
    BY DEF Left
  <2>1. CASE j = i
    BY <1>4, <1>6, <2>1
  <2>2. CASE j # i
    BY <1>0, <1>6, <2>2 DEF Left
  <2> QED
    BY <2>1, <2>2
<1>14. Arrays'
  BY <1>0, <1>2, <1>8 DEF Arrays
<1> QED
  BY <1>7, <1>10, <1>11, <1>12, <1>13, <1>14 DEF IInv

\* At first nobody asks.
LEMMA InitIInv == Init => IInv
<1> SUFFICES ASSUME Init PROVE IInv
  OBVIOUS
<1>1. caller \in [Tasks -> Callers] /\ \A t \in Tasks : caller[t].pc = "idle"
  BY DEF Init, Callers, Failed
<1>2. table \in [Entries -> Cells] /\ \A i \in Entries : table[i].st = "unused"
  BY DEF Init, Cells, Unused
<1>3. text \in [Entries -> Seq(Labels)] /\ mbox \in Seq(Tasks) /\ Len(mbox) = 0
  BY EmptySeq DEF Init
<1>4. Types
  BY <1>1, <1>2, <1>3, Consts DEF Init, Types
<1>5. Waiters /\ Messages /\ Named /\ Left /\ Arrays
  BY <1>1, <1>2, <1>3 DEF Waiters, Messages, Named, Left, Arrays, Asks, Untold
<1> QED
  BY <1>4, <1>5 DEF IInv

\* Every step keeps the invariant.
LEMMA NextIInv == IInv /\ [Next]_vars => IInv'
<1> SUFFICES ASSUME IInv, [Next]_vars PROVE IInv'
  OBVIOUS
<1>1. CASE DoGethostbyname
  <2>1. Types /\ Messages /\ Named
    BY DEF IInv
  <2>2. PICK t \in Tasks : /\ mbox # <<>> /\ t = Head(mbox) /\ mbox' = Tail(mbox) /\ servers' = servers
                           /\ Untold(caller[t], "posted") /\ caller[t].name \in Names
                           /\ Told(t) \/ Queued(t)
    BY <1>1, <2>1, GetIs
  <2> QED
    BY <2>2, ToldStep, QueuedStep
<1>2. CASE DnsTmr
  BY <1>2, DnsTmrStep
<1>3. CASE DnsRecv
  BY <1>3, DnsRecvStep
<1>4. CASE \E s \in Servers : SetServer(s)
  BY <1>4, SetServerStep
<1>5. CASE \E t \in Tasks : Gethostbyname(t) \/ Return(t)
  BY <1>5, GethostbynameStep, ReturnStep
<1>6. CASE UNCHANGED vars
  <2>1. Types /\ Waiters /\ Messages /\ Named /\ Left /\ Arrays
    BY DEF IInv
  <2>2. /\ caller' = caller /\ mbox' = mbox /\ table' = table /\ text' = text /\ seqno' = seqno
        /\ peer' = peer /\ servers' = servers /\ sent' = sent
    BY <1>6 DEF vars
  <2>3. Types'
    BY <2>1, <2>2 DEF Types
  <2>4. Waiters' /\ Messages'
    BY <2>1, <2>2 DEF Waiters, Messages, Asks
  <2>5. Named' /\ Left' /\ Arrays'
    BY <2>1, <2>2 DEF Named, Left, Arrays
  <2> QED
    BY <2>3, <2>4, <2>5 DEF IInv
<1> QED
  BY <1>1, <1>2, <1>3, <1>4, <1>5, <1>6 DEF Next, Thread

-----------------------------------------------------------------------------
(* The invariant of the runs                                               *)

\* The types in the words of Dns.
LEMMA IInvTypes == IInv => TypeOK
<1> SUFFICES ASSUME IInv PROVE TypeOK
  OBVIOUS
<1>0. Types
  BY DEF IInv
<1>1. \A i \in Entries : LET e == table[i] IN
        \/ e = Unused
        \/ /\ e.st = "asking" /\ e.name \in Names /\ e.found \in Tasks
           /\ e.seq \in 0..(SeqnoMod - 1) /\ e.num \in Servers
           /\ e.tmr \in 1..MaxRetries /\ e.retries \in 0..(MaxRetries - 1)
        \/ /\ e.st = "done" /\ e.name \in Names /\ e.addr \in Names /\ e.found \in Tasks
           /\ e.seq \in 0..(SeqnoMod - 1) /\ e.ttl \in 0..(TtlMod - 1)
           /\ e.given \in 0..MaxTtl /\ e.age \in 0..MaxTtl
  <2> TAKE i \in Entries
  <2>1. table[i] = Unused \/ table[i] \in Queries \/ table[i] \in Answers
    BY <1>0 DEF Types, Cells
  <2> QED
    BY <2>1 DEF Queries, Answers
<1>2. \A i \in Entries : \A k \in DOMAIN text[i] : \E n \in Names : text[i][k] \in ToSet(n)
  <2> TAKE i \in Entries
  <2> TAKE k \in DOMAIN text[i]
  <2>1. text[i] \in Seq(Labels)
    BY <1>0 DEF Types
  <2>2. k \in 1..Len(text[i])
    BY <2>1, LenProperties
  <2>3. text[i][k] \in Labels
    BY <2>1, <2>2, ElementOfSeq
  <2> QED
    BY <2>3 DEF Labels
<1>3. caller \in [Tasks -> [pc : {"idle", "posted", "lost", "waiting"}, name : Names \cup {<<>>},
                            sem : 0..1, result : Names \cup {Failed}]]
  BY <1>0 DEF Types, Callers
<1>4. mbox \in Seq(Tasks) /\ DOMAIN table = Entries /\ seqno \in 0..(SeqnoMod - 1) /\ peer \in Servers
      /\ servers \subseteq Servers /\ sent \subseteq Entries \X Names \X Servers
  BY <1>0 DEF Types
<1> QED
  BY <1>1, <1>2, <1>3, <1>4 DEF TypeOK

\* A caller that waits has one entry, a caller that is posted one message.
LEMMA IInvPending == IInv => PendingOwned
<1> SUFFICES ASSUME IInv PROVE PendingOwned
  OBVIOUS
<1>0. Types /\ Waiters /\ Messages
  BY DEF IInv
<1>1. \A i \in Entries : table[i].st = "asking" =>
        LET c == caller[table[i].found]
        IN  c.pc = "waiting" /\ c.sem = 0 /\ c.name = table[i].name
  BY <1>0 DEF Waiters, Untold
<1>2. ASSUME NEW t \in Tasks, caller[t].pc = "waiting", caller[t].sem = 0
      PROVE  Cardinality({i \in Entries : table[i].st = "asking" /\ table[i].found = t}) = 1
  <2>1. PICK i \in Entries : Asks(i, t)
    BY <1>0, <1>2 DEF Waiters, Untold
  <2>2. {j \in Entries : table[j].st = "asking" /\ table[j].found = t} = {i}
    BY <1>0, <2>1 DEF Waiters, Asks
  <2> QED
    BY <2>2, FS_Singleton
<1>3. ASSUME NEW t \in Tasks, caller[t].pc = "posted", caller[t].sem = 0
      PROVE  Cardinality({k \in DOMAIN mbox : mbox[k] = t}) = 1
  <2>1. PICK k \in 1..Len(mbox) : mbox[k] = t
    BY <1>0, <1>3 DEF Messages, Untold
  <2>2. DOMAIN mbox = 1..Len(mbox)
    BY <1>0, LenProperties DEF Types
  <2>3. {l \in DOMAIN mbox : mbox[l] = t} = {k}
    BY <1>0, <2>1, <2>2 DEF Messages
  <2> QED
    BY <2>3, FS_Singleton
<1> QED
  BY <1>1, <1>2, <1>3 DEF PendingOwned

\* The invariant of the runs follows.
LEMMA IInvInv == IInv => Inv
<1>1. IInv => Fresh
  BY DEF IInv, Left, Fresh
<1> QED
  BY <1>1, IInvTypes, IInvPending DEF Inv

\* The invariant holds in every state.
LEMMA Invariance == Spec => []IInv
<1> QED
  BY InitIInv, NextIInv, PTL DEF Spec

\* For any tasks, names, sizes and times: a query under way calls back into the stack
\* of a caller that waits for just this name, whoever waits has one query or one
\* message, and an address is forgotten when its time is over (dns.c 637-714, 735-851,
\* 861-916; api_lib.c 755-779; api_msg.c 1534-1571).
THEOREM InvHolds == Spec => []Inv
<1> QED
  BY Invariance, IInvInv, PTL

-----------------------------------------------------------------------------
(* Names that are unlike                                                   *)

\* What an entry that asks accepts is its own name.
LEMMA MatchIs ==
  ASSUME Unlike, Types, Arrays, NEW i \in Entries, NEW n \in Names,
         table[i] \in Queries, SameName(text[i], n)
  PROVE  n = table[i].name
<1>1. PICK m \in Names : m = table[i].name /\ table[i].st = "asking"
  BY DEF Queries
<1>2. PICK x \in Seq(Labels) : x = text[i]
  BY DEF Types
<1>3. IsPrefix(m, x) /\ IsPrefix(n, x)
  BY <1>1, <1>2 DEF Arrays, SameName
<1>4. IsPrefix(m, n) \/ IsPrefix(n, m)
  BY <1>3, PrefixesMeet
<1> QED
  BY <1>1, <1>4 DEF Unlike

\* If the names are unlike, the table knows the right addresses.
LEMMA NextRight == Unlike /\ IInv /\ Right /\ [Next]_vars => Right'
<1> SUFFICES ASSUME Unlike, IInv, Right, [Next]_vars PROVE Right'
  OBVIOUS
<1>0. Types /\ Arrays /\ Messages /\ Named
  BY DEF IInv
<1>1. CASE DoGethostbyname
  <2>1. PICK t \in Tasks : Told(t) \/ Queued(t)
    BY <1>0, <1>1, GetIs
  <2>2. CASE Told(t)
    BY <2>2 DEF Told, Right
  <2>3. CASE Queued(t)
    <3>1. PICK i \in Entries : table' = [table EXCEPT ![i] = Asking(t, caller[t].name, seqno)]
      BY <2>3 DEF Queued
    <3> DEFINE a == Asking(t, caller[t].name, seqno)
    <3>2. a.st = "asking"
      BY DEF Asking
    <3>3. table' = [table EXCEPT ![i] = a]
      BY <3>1
    <3> HIDE DEF a
    <3>4. table'[i].st = "asking" /\ \A j \in Entries \ {i} : table'[j] = table[j]
      BY <1>0, <3>2, <3>3 DEF Types
    <3> QED
      BY <3>4 DEF Right
  <2> QED
    BY <2>1, <2>2, <2>3
<1>2. CASE DnsTmr
  <2> SUFFICES ASSUME NEW i \in Entries, table'[i].st = "done"
               PROVE  table'[i].addr = table'[i].name
    BY DEF Right
  <2>1. table[i] \in Cells /\ table'[i] = Checked(table[i]) /\ servers \subseteq Servers
    BY <1>0, <1>2 DEF DnsTmr, Types
  <2>2. table[i] \in Answers /\ table[i].st = "done"
    BY <2>1, CheckedIs, Kinds
  <2>3. table'[i].name = table[i].name /\ table'[i].addr = table[i].addr
    BY <2>1, <2>2, CheckedDone DEF Unused
  <2> QED
    BY <2>2, <2>3 DEF Right
<1>3. CASE DnsRecv
  <2>1. PICK i \in Entries, n \in Names, match \in BOOLEAN, ttl \in 0..MaxTtl : Ended(i, n, match, ttl)
    BY <1>0, <1>3, RecvIs
  <2>2. table'[i].st = "done" => table'[i].addr = table'[i].name
    <3>1. CASE match
      <4>1. n = table[i].name
        BY <1>0, <2>1, <3>1, MatchIs DEF Ended
      <4> QED
        BY <1>0, <2>1, <3>1, <4>1 DEF Ended, Types, Done
    <3>2. CASE ~match
      BY <1>0, <2>1, <3>2 DEF Ended, Types, Unused
    <3> QED
      BY <3>1, <3>2
  <2>3. \A j \in Entries \ {i} : table'[j] = table[j]
    BY <1>0, <2>1 DEF Ended, Types
  <2> QED
    BY <2>2, <2>3 DEF Right
<1>4. CASE (\E s \in Servers : SetServer(s)) \/ (\E t \in Tasks : Gethostbyname(t) \/ Return(t))
           \/ UNCHANGED vars
  <2>1. table' = table
    BY <1>4 DEF SetServer, Gethostbyname, Return, vars
  <2> QED
    BY <2>1 DEF Right
<1> QED
  BY <1>1, <1>2, <1>3, <1>4 DEF Next, Thread

-----------------------------------------------------------------------------
(* The calls as Resolver sees them                                         *)

\* The query of a caller, in the words of Resolver.
QueryOf(c) ==
  CASE c.pc = "idle" -> [st |-> "idle"]
    [] c.pc # "idle" /\ c.sem = 0 -> [st |-> "asked", name |-> c.name]
    [] OTHER -> [st |-> "told", name |-> c.name, result |-> c.result]

Query == [t \in Tasks |-> QueryOf(caller[t])]

\* The three cases of a caller.
LEMMA QueryOfIs ==
  ASSUME NEW c \in Callers
  PROVE  /\ c.pc = "idle" => QueryOf(c) = [st |-> "idle"]
         /\ c.pc # "idle" /\ c.sem = 0 => QueryOf(c) = [st |-> "asked", name |-> c.name]
         /\ c.pc # "idle" /\ c.sem = 1 =>
              QueryOf(c) = [st |-> "told", name |-> c.name, result |-> c.result]
<1>1. CASE c.pc = "idle"
  BY <1>1 DEF QueryOf
<1>2. CASE c.pc # "idle" /\ c.sem = 0
  BY <1>2 DEF QueryOf
<1>3. CASE c.pc # "idle" /\ c.sem = 1
  <2>1. QueryOf(c) = [st |-> "told", name |-> c.name, result |-> c.result]
    BY <1>3 DEF QueryOf
  <2> QED
    BY <1>3, <2>1
<1> QED
  BY <1>1, <1>2, <1>3 DEF Callers

\* The actions of Resolver, of the query of this module.
LEMMA ResolverIs ==
  /\ R!Init <=> Query = [t \in Tasks |-> [st |-> "idle"]]
  /\ \A t : R!Ask(t) <=> \E n \in Names : /\ Query[t] = [st |-> "idle"]
                                          /\ Query' = [Query EXCEPT ![t] = [st |-> "asked", name |-> n]]
  /\ \A t : R!GoOn(t) <=> /\ Query[t].st = "told"
                          /\ Query' = [Query EXCEPT ![t] = [st |-> "idle"]]
  /\ R!Answer <=>
       \E T \in (SUBSET Tasks) \ {{}} :
         /\ \A t \in T : Query[t].st = "asked"
         /\ \E r \in [T -> Names \cup {Failed}] :
              /\ \A t \in T : r[t] \in {Query[t].name, Failed}
              /\ Query' = [t \in Tasks |->
                             IF t \in T
                             THEN [st |-> "told", name |-> Query[t].name, result |-> r[t]]
                             ELSE Query[t]]
<1>1. R!Init <=> Query = [t \in Tasks |-> [st |-> "idle"]]
  BY DEF R!Init, R!Idle, Query, QueryOf
<1>2. \A t : R!Ask(t) <=> \E n \in Names :
        /\ Query[t] = [st |-> "idle"]
        /\ Query' = [Query EXCEPT ![t] = [st |-> "asked", name |-> n]]
  BY DEF R!Ask, R!Idle, R!Asked, Query, QueryOf
<1>3. \A t : R!GoOn(t) <=> Query[t].st = "told" /\ Query' = [Query EXCEPT ![t] = [st |-> "idle"]]
  BY DEF R!GoOn, R!Idle, Query, QueryOf
<1>4. R!Answer <=>
        \E T \in (SUBSET Tasks) \ {{}} :
          /\ \A t \in T : Query[t].st = "asked"
          /\ \E r \in [T -> Names \cup {Failed}] :
               /\ \A t \in T : r[t] \in {Query[t].name, Failed}
               /\ Query' = [t \in Tasks |->
                              IF t \in T
                              THEN [st |-> "told", name |-> Query[t].name, result |-> r[t]]
                              ELSE Query[t]]
  BY DEF R!Answer, R!Told, Query, QueryOf
<1> QED
  BY <1>1, <1>2, <1>3, <1>4

\* To tell callers that wait a failure, or the address of the name they asked for,
\* is to answer them.
LEMMA AnswerIs ==
  ASSUME caller \in [Tasks -> Callers], NEW T \in SUBSET Tasks, NEW r \in Names \cup {Failed},
         \A t \in T : caller[t].pc # "idle" /\ caller[t].sem = 0 /\ r \in {caller[t].name, Failed},
         caller' = DnsFound(T, r)
  PROVE  R!Answer \/ Query' = Query
<1>1. /\ caller' \in [Tasks -> Callers]
      /\ \A t \in Tasks :
           /\ t \notin T => caller'[t] = caller[t]
           /\ t \in T => /\ caller'[t].pc = caller[t].pc /\ caller'[t].name = caller[t].name
                         /\ caller'[t].sem = 1 /\ caller'[t].result = r
  BY FoundIs
<1>2. CASE T = {}
  <2>1. \A t \in Tasks : caller'[t] = caller[t]
    BY <1>1, <1>2
  <2> QED
    BY <2>1 DEF Query
<1>3. CASE T # {}
  <2>1. \A t \in T : /\ Query[t] = [st |-> "asked", name |-> caller[t].name]
                     /\ Query'[t] = [st |-> "told", name |-> caller[t].name, result |-> r]
    <3> TAKE t \in T
    <3>1. caller[t] \in Callers /\ caller'[t] \in Callers /\ t \in Tasks
      BY <1>1
    <3>2. QueryOf(caller[t]) = [st |-> "asked", name |-> caller[t].name]
      BY <3>1, QueryOfIs
    <3>3. QueryOf(caller'[t]) = [st |-> "told", name |-> caller'[t].name, result |-> caller'[t].result]
      BY <1>1, <3>1, QueryOfIs
    <3> QED
      BY <1>1, <3>1, <3>2, <3>3 DEF Query
  <2>2. \A t \in T : Query[t].st = "asked" /\ Query[t].name = caller[t].name
    <3> TAKE t \in T
    <3> DEFINE q == [st |-> "asked", name |-> caller[t].name]
    <3>1. q.st = "asked" /\ q.name = caller[t].name
      OBVIOUS
    <3> HIDE DEF q
    <3>2. Query[t] = q
      BY <2>1 DEF q
    <3> QED
      BY <3>1, <3>2
  <2>3. \A t \in Tasks \ T : Query'[t] = Query[t]
    BY <1>1 DEF Query
  <2> DEFINE told == [t \in T |-> r]
  <2>4. told \in [T -> Names \cup {Failed}] /\ \A t \in T : told[t] \in {Query[t].name, Failed}
    <3>1. told \in [T -> Names \cup {Failed}] /\ \A t \in T : told[t] = r
      OBVIOUS
    <3>2. \A t \in T : r \in {Query[t].name, Failed}
      BY <2>2
    <3> HIDE DEF told
    <3> QED
      BY <3>1, <3>2
  <2>5. Query' = [t \in Tasks |-> Query'[t]]
    BY DEF Query
  <2>6. Query' = [t \in Tasks |->
                    IF t \in T
                    THEN [st |-> "told", name |-> Query[t].name, result |-> told[t]]
                    ELSE Query[t]]
    <3>1. \A t \in Tasks : Query'[t] =
            IF t \in T THEN [st |-> "told", name |-> Query[t].name, result |-> told[t]] ELSE Query[t]
      <4>1. \A t \in T : told[t] = r /\ Query'[t] = [st |-> "told", name |-> Query[t].name, result |-> r]
        BY <2>1, <2>2
      <4> HIDE DEF told
      <4> QED
        BY <2>3, <4>1
    <3> HIDE DEF told
    <3> QED
      BY <2>5, <3>1
  <2>7. T \in (SUBSET Tasks) \ {{}} /\ \A t \in T : Query[t].st = "asked"
    BY <1>3, <2>2
  <2> HIDE DEF told
  <2> QED
    BY <2>4, <2>6, <2>7, ResolverIs
<1> QED
  BY <1>2, <1>3

\* If the names are unlike, each step is one of Resolver or none.
LEMMA StepResolves == Unlike /\ IInv /\ Right /\ [Next]_vars => [R!Next]_Query
<1> SUFFICES ASSUME Unlike, IInv, Right, [Next]_vars PROVE R!Next \/ Query' = Query
  OBVIOUS
<1>0. Types /\ Waiters /\ Messages /\ Named /\ Arrays /\ caller \in [Tasks -> Callers]
  BY DEF IInv, Types
<1>1. CASE DoGethostbyname
  <2>1. PICK t \in Tasks : Untold(caller[t], "posted") /\ caller[t].name \in Names /\ (Told(t) \/ Queued(t))
    BY <1>0, <1>1, GetIs
  <2>2. CASE Told(t)
    <3>1. PICK r \in Names \cup {Failed} : r \in {caller[t].name, Failed} /\ caller' = DnsFound({t}, r)
      BY <2>2 DEF Told, Right
    <3>2. R!Answer \/ Query' = Query
      BY <1>0, <2>1, <3>1, AnswerIs DEF Untold
    <3> QED
      BY <3>2 DEF R!Next
  <2>3. CASE Queued(t)
    <3>1. caller' = [caller EXCEPT ![t].pc = "waiting"]
      BY <2>3 DEF Queued
    <3>2. /\ \A u \in Tasks \ {t} : caller'[u] = caller[u]
          /\ caller'[t] \in Callers /\ caller[t] \in Callers
          /\ caller'[t].pc = "waiting" /\ caller'[t].name = caller[t].name /\ caller'[t].sem = 0
      BY <1>0, <2>1, <3>1 DEF Callers, Untold
    <3>3. QueryOf(caller'[t]) = QueryOf(caller[t])
      BY <2>1, <3>2, QueryOfIs DEF Untold
    <3> QED
      BY <3>2, <3>3 DEF Query
  <2> QED
    BY <2>1, <2>2, <2>3
<1>2. CASE DnsTmr
  <2>1. /\ Owners \in SUBSET Tasks
        /\ \A t \in Owners : caller[t].pc # "idle" /\ caller[t].sem = 0
    BY <1>0, OverIs DEF Untold
  <2>2. caller' = DnsFound(Owners, Failed)
    BY <1>2 DEF DnsTmr, Owners, Over
  <2>3. R!Answer \/ Query' = Query
    BY <1>0, <2>1, <2>2, AnswerIs
  <2> QED
    BY <2>3 DEF R!Next
<1>3. CASE DnsRecv
  <2>1. PICK i \in Entries, n \in Names, match \in BOOLEAN, ttl \in 0..MaxTtl : Ended(i, n, match, ttl)
    BY <1>0, <1>3, RecvIs
  <2>2. PICK t \in Tasks : t = table[i].found /\ Untold(caller[t], "waiting") /\ caller[t].name = table[i].name
    BY <1>0, <2>1 DEF Ended, Queries, Waiters
  <2>3. match => n = table[i].name
    BY <1>0, <2>1, MatchIs DEF Ended
  <2>4. PICK r \in Names \cup {Failed} : r = IF match THEN n ELSE Failed
    OBVIOUS
  <2>5. caller' = DnsFound({t}, r) /\ r \in {caller[t].name, Failed}
    BY <2>1, <2>2, <2>3, <2>4 DEF Ended
  <2>6. R!Answer \/ Query' = Query
    BY <1>0, <2>2, <2>5, AnswerIs DEF Untold
  <2> QED
    BY <2>6 DEF R!Next
<1>4. ASSUME NEW t \in Tasks, Gethostbyname(t)
      PROVE  R!Ask(t)
  <2>0. PICK n \in Names, room \in BOOLEAN :
          caller' = [caller EXCEPT ![t] = [pc |-> IF room THEN "posted" ELSE "lost",
                                           name |-> n, sem |-> 0, result |-> Failed]]
    BY <1>4 DEF Gethostbyname
  <2> DEFINE c == [pc |-> IF room THEN "posted" ELSE "lost", name |-> n, sem |-> 0, result |-> Failed]
  <2>1. c \in Callers /\ caller' = [caller EXCEPT ![t] = c] /\ c.pc # "idle" /\ c.sem = 0 /\ c.name = n
    BY <2>0 DEF Callers
  <2> HIDE DEF c
  <2>2. caller[t].pc = "idle" /\ caller[t] \in Callers
    BY <1>0, <1>4 DEF Gethostbyname
  <2>3. QueryOf(caller[t]) = [st |-> "idle"] /\ QueryOf(c) = [st |-> "asked", name |-> n]
    BY <2>1, <2>2, QueryOfIs
  <2>4. Query[t] = [st |-> "idle"] /\ Query' = [Query EXCEPT ![t] = [st |-> "asked", name |-> n]]
    BY <1>0, <2>1, <2>3 DEF Query
  <2> QED
    BY <2>4, ResolverIs
<1>5. ASSUME NEW t \in Tasks, Return(t)
      PROVE  R!GoOn(t)
  <2> DEFINE c == [pc |-> "idle", name |-> <<>>, sem |-> 0, result |-> Failed]
  <2>1. c \in Callers /\ caller' = [caller EXCEPT ![t] = c] /\ c.pc = "idle"
    BY <1>5 DEF Return, Callers
  <2> HIDE DEF c
  <2>2. caller[t].pc # "idle" /\ caller[t].sem = 1 /\ caller[t] \in Callers
    BY <1>0, <1>5 DEF Return
  <2>3. QueryOf(caller[t]).st = "told" /\ QueryOf(c) = [st |-> "idle"]
    BY <2>1, <2>2, QueryOfIs
  <2>4. Query[t].st = "told" /\ Query' = [Query EXCEPT ![t] = [st |-> "idle"]]
    BY <1>0, <2>1, <2>3 DEF Query
  <2> QED
    BY <2>4, ResolverIs
<1>6. CASE \E s \in Servers : SetServer(s)
  BY <1>6 DEF SetServer, Query
<1>7. CASE UNCHANGED vars
  BY <1>7 DEF vars, Query
<1> QED
  BY <1>1, <1>2, <1>3, <1>4, <1>5, <1>6, <1>7 DEF Next, Thread, R!Next

\* If no name begins with the labels of another, every call is told once, the address
\* of the name it asked for or a failure, whatever the network keeps back, repeats or
\* loses, and however dns_seqno wraps (dns.c 494-520, 735-851).
THEOREM ResolvesHolds == Unlike /\ Spec => Resolves
<1> SUFFICES ASSUME Unlike PROVE Spec => Resolves
  OBVIOUS
<1>1. Init => R!Init
  <2> SUFFICES ASSUME Init PROVE R!Init
    OBVIOUS
  <2>1. \A t \in Tasks : caller[t].pc = "idle"
    BY DEF Init
  <2>2. Query = [t \in Tasks |-> [st |-> "idle"]]
    BY <2>1 DEF Query, QueryOf
  <2> QED
    BY <2>2, ResolverIs
<1>2. Init => Right
  BY DEF Init, Right, Unused
<1>3. IInv /\ Right /\ [Next]_vars => Right'
  BY NextRight
<1>4. IInv /\ Right /\ [Next]_vars => [R!Next]_Query
  BY StepResolves
<1> QED
  BY <1>1, <1>2, <1>3, <1>4, Invariance, PTL DEF Spec, Resolves, R!Spec, Query, QueryOf

=============================================================================
