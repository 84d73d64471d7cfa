------------------------- MODULE RxFlowControl_proofs -------------------------
(***************************************************************************)
(* Proofs about RxFlowControl, for all capacities, packet sizes, latencies  *)
(* and faults: the host's counts agree with what is on its way and what     *)
(* the client holds, also after a resync, and what is in use of the buffer  *)
(* of the link exceeds the adjusted capacity only by what passes while the  *)
(* comparison of the counts is under way.                                   *)
(***************************************************************************)
EXTENDS RxFlowControl, Sums_proofs

AtMost(a, b) == a.bytes <= b.bytes /\ a.pkts <= b.pkts
Same(a, b) == a.bytes = b.bytes /\ a.pkts = b.pkts

Rounded(sizes) == [i \in DOMAIN sizes |-> RoundPktSize(sizes[i])]

\* What the FPGA has sent in whole packets.
SentWhole == Minus(send, [bytes |-> part * W, pkts |-> 0])

OnLink == Occupies(Sizes(down))

\* The sums of what the first packets of a link occupy, and what its i-th packet
\* and those behind it occupy.
LinkSums(d) == RunningSums(Rounded(Sizes(d)))
From(d, i) == [bytes |-> LinkSums(d)[Len(d)] - LinkSums(d)[i - 1],
               pkts  |-> Len(d) - i + 1]

\* A packet that is being sent has words left to send.
PartialPacket ==
    /\ state = "strc" => part < StrcWords
    /\ state = "pass" /\ part > 0 => size \in PktSizes /\ part < Words(size)

\* The counts in a stream command are those of what was sent before it.
StrcStarted == state = "strc" /\ part > 0 => strc_cnt = SentWhole.bytes
StrcOnLink ==
    \A i \in 1 .. Len(down) :
        down[i].type = "strc" => Same(Plus(down[i].cnt, From(down, i)), SentWhole)

\* Nothing is received that was not sent, and with no loss all of it is.
Received ==
    /\ AtMost(Plus(recv, OnLink), SentWhole)
    /\ insync => Same(Plus(recv, OnLink), SentWhole)

Held == Same(Plus(xfer, Occupies(held)), recv)

\* The FPGA never learns more than the host has released, nor anything older
\* than what it knows.
Released ==
    /\ AtMost(rcnt, last) /\ AtMost(last, xfer)
    /\ \A i \in 1 .. Len(up) : AtMost(rcnt, up[i]) /\ AtMost(up[i], last)
    /\ \A i, j \in 1 .. Len(up) : i < j => AtMost(up[i], up[j])

\* A comparison that was made i cycles before allows no more than i words more
\* than it compared, and two words are needed for a packet.
InFlight == Minus(send, rcnt)
HalfPkts == 2 * InFlight.pkts + (IF part > 0 THEN 1 ELSE 0)
Pipeline ==
    \A i \in 1 .. OkLatency :
        ok[i] => /\ InFlight.bytes < AdjCap.bytes + i * W
                 /\ HalfPkts < 2 * AdjCap.pkts + i

WithinBound ==
    /\ InFlight.bytes < AdjCap.bytes + (OkLatency + 1) * W
    /\ InFlight.pkts <= AdjCap.pkts + OkLatency \div 2

CountsInv ==
    TypeOK /\ PartialPacket /\ StrcStarted /\ StrcOnLink /\ Received /\ Held /\ Released
RoomInv == Pipeline /\ WithinBound

-----------------------------------------------------------------------------
(* Arithmetic *)

LEMMA Assoc == \A a, b, c \in Int : (a + b) + c = a + (b + c)
OBVIOUS

\* What a resync adds to the count of what is released.
LEMMA ResyncSum ==
    \A f, c, r, x \in Nat :
        r <= c => /\ f + (c - r) + x \in Nat
                  /\ f <= f + (c - r) + x
                  /\ \A h \in Nat : f + h = r => (f + (c - r) + x) + h = c + x
OBVIOUS

-----------------------------------------------------------------------------
(* Words and sizes *)

LEMMA WordSize == W \in Nat /\ W > 0 /\ StrcWords \in Nat /\ StrcWords > 1
BY RxAssumption

\* RoundPktSize and Words agree, and data packets have two words or more.
LEMMA WordsType ==
    ASSUME NEW n \in Nat
    PROVE  /\ Words(n) \in Nat
           /\ RoundPktSize(n) \in Nat
           /\ RoundPktSize(n) = Words(n) * W
           /\ n > W => Words(n) > 1
<1>1. Words(n) \in Nat
  BY WordSize DEF Words
<1>2. Words(n) * W \in Nat
  BY <1>1, WordSize
<1>3. ASSUME n > W PROVE Words(n) > 1
  <2>. DEFINE m == n + W - 1
  <2>1. m \in Nat /\ m >= 2 * W
    BY <1>3, WordSize
  <2>. HIDE DEF m
  <2>2. m \div W >= 2
    BY <2>1, WordSize
  <2>3. Words(n) = m \div W
    BY DEF Words, m
  <2>. QED
    BY <1>1, <2>2, <2>3
<1>. QED
  BY <1>1, <1>2, <1>3 DEF Words, RoundPktSize

\* A size in whole words is not rounded.
LEMMA StrcSize == StrcWords * W \in Nat /\ RoundPktSize(StrcWords * W) = StrcWords * W
<1>. DEFINE a == StrcWords * W
           x == a + W - 1
<1>1. a \in Nat /\ x \in Nat
  BY WordSize
<1>2. x \div W = StrcWords
  <2>. DEFINE q == x \div W
  <2>1. q \in Nat /\ q * W <= x /\ x < q * W + W
    BY <1>1, WordSize
  <2>. HIDE DEF q, x
  <2>2. x = StrcWords * W + W - 1
    BY DEF x
  <2>3. ~(q < StrcWords)
    <3>1. SUFFICES ASSUME q + 1 <= StrcWords PROVE FALSE
      BY <2>1, WordSize
    <3>2. (q + 1) * W <= StrcWords * W
      BY <3>1, <2>1, WordSize
    <3>3. (q + 1) * W = q * W + W
      BY <2>1, WordSize
    <3>. QED
      BY <2>1, <2>2, <3>2, <3>3, WordSize, <1>1 DEF a
  <2>4. ~(q > StrcWords)
    <3>1. SUFFICES ASSUME q >= StrcWords + 1 PROVE FALSE
      BY <2>1, WordSize
    <3>2. q * W >= (StrcWords + 1) * W
      BY <3>1, <2>1, WordSize
    <3>3. (StrcWords + 1) * W = StrcWords * W + W
      BY WordSize
    <3>. QED
      BY <2>1, <2>2, <3>2, <3>3, WordSize, <1>1 DEF a
  <2>5. q = StrcWords
    BY <2>1, <2>3, <2>4, WordSize
  <2>. QED
    BY <2>5 DEF q
<1>. QED
  BY <1>1, <1>2 DEF RoundPktSize

-----------------------------------------------------------------------------
(* What packets occupy *)

LEMMA RoundedSeq ==
    ASSUME NEW s \in Seq(Nat)
    PROVE  /\ Rounded(s) \in Seq(Nat) /\ Len(Rounded(s)) = Len(s)
           /\ \A i \in 1 .. Len(s) : Rounded(s)[i] = RoundPktSize(s[i])
<1>1. \A i \in 1 .. Len(s) : s[i] \in Nat /\ RoundPktSize(s[i]) \in Nat
  <2>1. \A i \in 1 .. Len(s) : s[i] \in Nat
    OBVIOUS
  <2>. QED
    BY <2>1, WordsType
<1>2. DOMAIN s = 1 .. Len(s) /\ Len(s) \in Nat
  OBVIOUS
<1>3. Rounded(s) \in [1 .. Len(s) -> Nat]
  BY <1>1, <1>2 DEF Rounded
<1>. QED
  BY <1>2, <1>3 DEF Rounded

LEMMA RoundedAppend ==
    ASSUME NEW s \in Seq(Nat), NEW n \in Nat
    PROVE  Rounded(Append(s, n)) = Append(Rounded(s), RoundPktSize(n))
<1>. DEFINE u == Rounded(Append(s, n))
           v == Append(Rounded(s), RoundPktSize(n))
<1>1. /\ Append(s, n) \in Seq(Nat) /\ Len(Append(s, n)) = Len(s) + 1
      /\ Len(s) \in Nat /\ Append(s, n)[Len(s) + 1] = n
      /\ \A i \in 1 .. Len(s) : Append(s, n)[i] = s[i]
  OBVIOUS
<1>2. /\ u \in Seq(Nat) /\ Len(u) = Len(s) + 1
      /\ \A i \in 1 .. Len(s) + 1 : u[i] = RoundPktSize(Append(s, n)[i])
  BY <1>1, RoundedSeq
<1>3. /\ Rounded(s) \in Seq(Nat) /\ Len(Rounded(s)) = Len(s)
      /\ \A i \in 1 .. Len(s) : Rounded(s)[i] = RoundPktSize(s[i])
  BY RoundedSeq
<1>4. RoundPktSize(n) \in Nat
  BY WordsType
<1>5. /\ v \in Seq(Nat) /\ Len(v) = Len(s) + 1 /\ v[Len(s) + 1] = RoundPktSize(n)
      /\ \A i \in 1 .. Len(s) : v[i] = Rounded(s)[i]
  BY <1>3, <1>4
<1>. HIDE DEF u, v
<1>6. \A i \in 1 .. Len(s) + 1 : u[i] = v[i]
  <2>1. SUFFICES ASSUME NEW i \in 1 .. Len(s) + 1 PROVE u[i] = v[i]
    OBVIOUS
  <2>2. CASE i = Len(s) + 1
    BY <2>2, <1>1, <1>2, <1>5
  <2>3. CASE i \in 1 .. Len(s)
    BY <2>3, <1>1, <1>2, <1>3, <1>5
  <2>. QED
    BY <2>2, <2>3, <1>1
<1>7. u = v
  BY <1>2, <1>5, <1>6, SeqEqual
<1>. QED
  BY <1>7 DEF u, v

LEMMA RoundedTail ==
    ASSUME NEW s \in Seq(Nat), s # <<>>
    PROVE  Rounded(Tail(s)) = Tail(Rounded(s)) /\ Head(Rounded(s)) = RoundPktSize(Head(s))
<1>. DEFINE u == Rounded(Tail(s))
           v == Tail(Rounded(s))
<1>1. /\ Tail(s) \in Seq(Nat) /\ Len(Tail(s)) = Len(s) - 1
      /\ Len(s) \in Nat \ {0} /\ Head(s) = s[1]
      /\ \A i \in 1 .. Len(s) - 1 : Tail(s)[i] = s[i + 1]
  OBVIOUS
<1>2. /\ u \in Seq(Nat) /\ Len(u) = Len(s) - 1
      /\ \A i \in 1 .. Len(s) - 1 : u[i] = RoundPktSize(Tail(s)[i])
  BY <1>1, RoundedSeq
<1>3. /\ Rounded(s) \in Seq(Nat) /\ Len(Rounded(s)) = Len(s)
      /\ \A i \in 1 .. Len(s) : Rounded(s)[i] = RoundPktSize(s[i])
  BY RoundedSeq
<1>4. Rounded(s) # <<>>
  BY <1>1, <1>3
<1>5. /\ v \in Seq(Nat) /\ Len(v) = Len(s) - 1 /\ Head(Rounded(s)) = Rounded(s)[1]
      /\ \A i \in 1 .. Len(s) - 1 : v[i] = Rounded(s)[i + 1]
  BY <1>1, <1>3, <1>4
<1>. HIDE DEF u, v
<1>6. \A i \in 1 .. Len(s) - 1 : u[i] = v[i]
  <2>1. SUFFICES ASSUME NEW i \in 1 .. Len(s) - 1 PROVE u[i] = v[i]
    OBVIOUS
  <2>2. i + 1 \in 1 .. Len(s)
    BY <1>1
  <2>3. u[i] = RoundPktSize(s[i + 1])
    BY <1>1, <1>2
  <2>4. v[i] = RoundPktSize(s[i + 1])
    BY <2>2, <1>3, <1>5
  <2>. QED
    BY <2>3, <2>4
<1>7. u = v
  BY <1>2, <1>5, <1>6, SeqEqual
<1>. QED
  BY <1>1, <1>3, <1>5, <1>7 DEF u, v

LEMMA OccupiesType ==
    ASSUME NEW s \in Seq(Nat)
    PROVE  /\ Occupies(s) \in Counts
           /\ Occupies(s).bytes = Total(Rounded(s)) /\ Occupies(s).pkts = Len(s)
<1>1. Total(Rounded(s)) \in Nat
  BY RoundedSeq, TotalType
<1>2. Occupies(s) = [bytes |-> Total(Rounded(s)), pkts |-> Len(s)]
  BY DEF Occupies, Rounded
<1>. QED
  BY <1>1, <1>2 DEF Counts

LEMMA OccupiesEmpty == Occupies(<<>>) = Zero
<1>1. <<>> \in Seq(Nat) /\ Len(<<>>) = 0
  OBVIOUS
<1>2. Rounded(<<>>) = <<>>
  <2>1. Rounded(<<>>) \in Seq(Nat) /\ Len(Rounded(<<>>)) = 0
    BY <1>1, RoundedSeq
  <2>. QED
    BY <2>1
<1>3. Occupies(<<>>) = [bytes |-> Total(Rounded(<<>>)), pkts |-> Len(<<>>)]
  BY DEF Occupies, Rounded
<1>. QED
  BY <1>1, <1>2, <1>3, TotalEmpty DEF Zero

LEMMA OccupiesAppend ==
    ASSUME NEW s \in Seq(Nat), NEW n \in Nat
    PROVE  /\ Occupies(Append(s, n)).bytes = Occupies(s).bytes + RoundPktSize(n)
           /\ Occupies(Append(s, n)).pkts = Occupies(s).pkts + 1
<1>1. Append(s, n) \in Seq(Nat) /\ Len(Append(s, n)) = Len(s) + 1
  OBVIOUS
<1>2. RoundPktSize(n) \in Nat
  BY WordsType
<1>3. Total(Rounded(Append(s, n))) = Total(Rounded(s)) + RoundPktSize(n)
  BY <1>2, RoundedAppend, RoundedSeq, TotalAppend
<1>. QED
  BY <1>1, <1>3, OccupiesType

LEMMA OccupiesTail ==
    ASSUME NEW s \in Seq(Nat), s # <<>>
    PROVE  /\ Occupies(s).bytes = RoundPktSize(Head(s)) + Occupies(Tail(s)).bytes
           /\ Occupies(s).pkts = 1 + Occupies(Tail(s)).pkts
<1>1. Tail(s) \in Seq(Nat) /\ Len(Tail(s)) = Len(s) - 1 /\ Len(s) \in Nat \ {0}
  OBVIOUS
<1>2. Rounded(s) \in Seq(Nat) /\ Rounded(s) # <<>>
  BY <1>1, RoundedSeq
<1>3. Total(Rounded(s)) = Head(Rounded(s)) + Total(Tail(Rounded(s)))
  BY <1>2, TotalTail
<1>4. Total(Rounded(s)) = RoundPktSize(Head(s)) + Total(Rounded(Tail(s)))
  BY <1>3, RoundedTail
<1>5. /\ Occupies(s).bytes = Total(Rounded(s)) /\ Occupies(s).pkts = Len(s)
      /\ Occupies(Tail(s)).bytes = Total(Rounded(Tail(s)))
      /\ Occupies(Tail(s)).pkts = Len(Tail(s))
  BY <1>1, OccupiesType
<1>. QED
  BY <1>1, <1>4, <1>5

LEMMA OccupiesConcat ==
    ASSUME NEW s \in Seq(Nat), NEW t \in Seq(Nat)
    PROVE  /\ Occupies(s \o t).bytes = Occupies(s).bytes + Occupies(t).bytes
           /\ Occupies(s \o t).pkts = Occupies(s).pkts + Occupies(t).pkts
<1>. DEFINE u == s \o t
           r == Rounded(s) \o Rounded(t)
<1>1. /\ u \in Seq(Nat) /\ Len(u) = Len(s) + Len(t) /\ Len(s) \in Nat /\ Len(t) \in Nat
      /\ \A i \in 1 .. Len(s) : u[i] = s[i]
      /\ \A i \in Len(s) + 1 .. Len(s) + Len(t) : u[i] = t[i - Len(s)]
  OBVIOUS
<1>2. /\ Rounded(s) \in Seq(Nat) /\ Len(Rounded(s)) = Len(s)
      /\ Rounded(t) \in Seq(Nat) /\ Len(Rounded(t)) = Len(t)
      /\ \A i \in 1 .. Len(s) : Rounded(s)[i] = RoundPktSize(s[i])
      /\ \A i \in 1 .. Len(t) : Rounded(t)[i] = RoundPktSize(t[i])
  BY RoundedSeq
<1>3. /\ r \in Seq(Nat) /\ Len(r) = Len(s) + Len(t)
      /\ \A i \in 1 .. Len(s) : r[i] = Rounded(s)[i]
      /\ \A i \in Len(s) + 1 .. Len(s) + Len(t) : r[i] = Rounded(t)[i - Len(s)]
  <2>. DEFINE a == Rounded(s)
             b == Rounded(t)
  <2>1. a \in Seq(Nat) /\ Len(a) = Len(s) /\ b \in Seq(Nat) /\ Len(b) = Len(t)
    BY <1>2
  <2>2. r = a \o b
    OBVIOUS
  <2>. HIDE DEF a, b, r
  <2>3. /\ r \in Seq(Nat) /\ Len(r) = Len(s) + Len(t)
        /\ \A i \in 1 .. Len(s) : r[i] = a[i]
        /\ \A i \in Len(s) + 1 .. Len(s) + Len(t) : r[i] = b[i - Len(s)]
    <3>1. /\ r \in Seq(Nat) /\ Len(r) = Len(a) + Len(b)
          /\ \A i \in 1 .. Len(a) : r[i] = a[i]
          /\ \A i \in Len(a) + 1 .. Len(a) + Len(b) : r[i] = b[i - Len(a)]
      <4>1. /\ r \in Seq(Nat) /\ Len(r) = Len(a) + Len(b)
            /\ \A i \in 1 .. Len(a) + Len(b) :
                 r[i] = IF i <= Len(a) THEN a[i] ELSE b[i - Len(a)]
        BY <2>1, <2>2, ConcatProperties
      <4>2. Len(a) \in Nat /\ Len(b) \in Nat
        BY <2>1
      <4>3. \A i \in 1 .. Len(a) : r[i] = a[i]
        BY <4>1, <4>2
      <4>4. \A i \in Len(a) + 1 .. Len(a) + Len(b) : r[i] = b[i - Len(a)]
        BY <4>1, <4>2
      <4>. QED
        BY <4>1, <4>3, <4>4
    <3>. QED
      BY <2>1, <3>1
  <2>. QED
    BY <2>3 DEF a, b
<1>. HIDE DEF u, r
<1>4. /\ Rounded(u) \in Seq(Nat) /\ Len(Rounded(u)) = Len(s) + Len(t)
      /\ \A i \in 1 .. Len(s) + Len(t) : Rounded(u)[i] = RoundPktSize(u[i])
  BY <1>1, RoundedSeq
<1>5. ASSUME NEW i \in 1 .. Len(s) + Len(t) PROVE Rounded(u)[i] = r[i]
  <2>1. CASE i \in 1 .. Len(s)
    BY <2>1, <1>1, <1>2, <1>3, <1>4
  <2>2. CASE i \in Len(s) + 1 .. Len(s) + Len(t)
    <3>1. i - Len(s) \in 1 .. Len(t)
      BY <2>2, <1>1
    <3>. QED
      BY <2>2, <3>1, <1>1, <1>2, <1>3, <1>4
  <2>. QED
    BY <2>1, <2>2, <1>1
<1>6. Rounded(u) = r
  BY <1>3, <1>4, <1>5, SeqEqual
<1>7. Total(r) = Total(Rounded(s)) + Total(Rounded(t))
  BY <1>2, TotalConcat DEF r
<1>8. /\ Occupies(u).bytes = Total(Rounded(u)) /\ Occupies(u).pkts = Len(u)
      /\ Occupies(s).bytes = Total(Rounded(s)) /\ Occupies(s).pkts = Len(s)
      /\ Occupies(t).bytes = Total(Rounded(t)) /\ Occupies(t).pkts = Len(t)
  BY <1>1, OccupiesType
<1>. QED
  BY <1>1, <1>6, <1>7, <1>8 DEF u

-----------------------------------------------------------------------------
(* The packets on the link *)

Packets == [type : {"data", "strc"}, size : Nat, cnt : Counts]

LEMMA SizesSeq ==
    ASSUME NEW d \in Seq(Packets)
    PROVE  /\ Sizes(d) \in Seq(Nat) /\ Len(Sizes(d)) = Len(d)
           /\ \A i \in 1 .. Len(d) : Sizes(d)[i] = d[i].size
<1>1. DOMAIN d = 1 .. Len(d) /\ Len(d) \in Nat
  OBVIOUS
<1>2. \A i \in 1 .. Len(d) : d[i].size \in Nat
  <2>1. \A i \in 1 .. Len(d) : d[i] \in Packets
    OBVIOUS
  <2>. QED
    BY <2>1 DEF Packets
<1>3. Sizes(d) \in [1 .. Len(d) -> Nat]
  BY <1>1, <1>2 DEF Sizes
<1>. QED
  BY <1>1, <1>3 DEF Sizes

LEMMA SizesAppend ==
    ASSUME NEW d \in Seq(Packets), NEW p \in Packets
    PROVE  Sizes(Append(d, p)) = Append(Sizes(d), p.size)
<1>. DEFINE e == Append(d, p)
           v == Append(Sizes(d), p.size)
<1>1. /\ e \in Seq(Packets) /\ Len(e) = Len(d) + 1 /\ Len(d) \in Nat
      /\ e[Len(d) + 1] = p /\ \A i \in 1 .. Len(d) : e[i] = d[i]
  OBVIOUS
<1>2. p.size \in Nat
  BY DEF Packets
<1>3. /\ Sizes(d) \in Seq(Nat) /\ Len(Sizes(d)) = Len(d)
      /\ \A i \in 1 .. Len(d) : Sizes(d)[i] = d[i].size
  BY SizesSeq
<1>4. /\ v \in Seq(Nat) /\ Len(v) = Len(d) + 1 /\ v[Len(d) + 1] = p.size
      /\ \A i \in 1 .. Len(d) : v[i] = Sizes(d)[i]
  BY <1>2, <1>3
<1>. HIDE DEF e, v
<1>5. /\ Sizes(e) \in Seq(Nat) /\ Len(Sizes(e)) = Len(d) + 1
      /\ \A i \in 1 .. Len(d) + 1 : Sizes(e)[i] = e[i].size
  BY <1>1, SizesSeq
<1>6. ASSUME NEW i \in 1 .. Len(d) + 1 PROVE Sizes(e)[i] = v[i]
  <2>1. CASE i \in 1 .. Len(d)
    BY <2>1, <1>1, <1>3, <1>4, <1>5
  <2>2. CASE i = Len(d) + 1
    BY <2>2, <1>1, <1>4, <1>5
  <2>. QED
    BY <2>1, <2>2, <1>1
<1>7. Sizes(e) = v
  BY <1>4, <1>5, <1>6, SeqEqual
<1>. QED
  BY <1>7 DEF e, v

LEMMA SizesTail ==
    ASSUME NEW d \in Seq(Packets), d # <<>>
    PROVE  Sizes(Tail(d)) = Tail(Sizes(d)) /\ Head(Sizes(d)) = Head(d).size
<1>. DEFINE e == Tail(d)
           v == Tail(Sizes(d))
<1>1. /\ e \in Seq(Packets) /\ Len(e) = Len(d) - 1 /\ Len(d) \in Nat \ {0}
      /\ Head(d) = d[1] /\ \A i \in 1 .. Len(d) - 1 : e[i] = d[i + 1]
  OBVIOUS
<1>2. /\ Sizes(d) \in Seq(Nat) /\ Len(Sizes(d)) = Len(d)
      /\ \A i \in 1 .. Len(d) : Sizes(d)[i] = d[i].size
  BY SizesSeq
<1>3. /\ v \in Seq(Nat) /\ Len(v) = Len(d) - 1 /\ Head(Sizes(d)) = Sizes(d)[1]
      /\ \A i \in 1 .. Len(d) - 1 : v[i] = Sizes(d)[i + 1]
  <2>1. Sizes(d) # <<>>
    BY <1>1, <1>2
  <2>. QED
    BY <2>1, <1>1, <1>2
<1>. HIDE DEF e, v
<1>4. /\ Sizes(e) \in Seq(Nat) /\ Len(Sizes(e)) = Len(d) - 1
      /\ \A i \in 1 .. Len(d) - 1 : Sizes(e)[i] = e[i].size
  BY <1>1, SizesSeq
<1>5. ASSUME NEW i \in 1 .. Len(d) - 1 PROVE Sizes(e)[i] = v[i]
  <2>1. i + 1 \in 1 .. Len(d)
    BY <1>1
  <2>. QED
    BY <2>1, <1>1, <1>2, <1>3, <1>4
<1>6. Sizes(e) = v
  BY <1>3, <1>4, <1>5, SeqEqual
<1>. QED
  BY <1>1, <1>2, <1>3, <1>6 DEF e, v

LEMMA LinkSumsAt ==
    ASSUME NEW d \in Seq(Packets)
    PROVE  /\ Rounded(Sizes(d)) \in Seq(Nat) /\ Len(Rounded(Sizes(d))) = Len(d)
           /\ \A i \in 1 .. Len(d) : Rounded(Sizes(d))[i] = RoundPktSize(d[i].size)
           /\ LinkSums(d)[0] = 0
           /\ \A i \in 0 .. Len(d) : LinkSums(d)[i] \in Nat
           /\ Occupies(Sizes(d)) \in Counts
           /\ Occupies(Sizes(d)).bytes = LinkSums(d)[Len(d)]
           /\ Occupies(Sizes(d)).pkts = Len(d)
<1>1. /\ Sizes(d) \in Seq(Nat) /\ Len(Sizes(d)) = Len(d)
      /\ \A i \in 1 .. Len(d) : Sizes(d)[i] = d[i].size
  BY SizesSeq
<1>2. /\ Rounded(Sizes(d)) \in Seq(Nat) /\ Len(Rounded(Sizes(d))) = Len(d)
      /\ \A i \in 1 .. Len(d) : Rounded(Sizes(d))[i] = RoundPktSize(d[i].size)
  BY <1>1, RoundedSeq
<1>3. LinkSums(d)[0] = 0 /\ \A i \in 0 .. Len(d) : LinkSums(d)[i] \in Nat
  BY <1>2, SumsAt DEF LinkSums
<1>4. /\ Occupies(Sizes(d)) \in Counts
      /\ Occupies(Sizes(d)).bytes = Total(Rounded(Sizes(d)))
      /\ Occupies(Sizes(d)).pkts = Len(d)
  BY <1>1, OccupiesType
<1>. QED
  BY <1>2, <1>3, <1>4 DEF LinkSums, Total

\* A packet that joins the link is behind all others.
LEMMA LinkAppend ==
    ASSUME NEW d \in Seq(Packets), NEW p \in Packets
    PROVE  /\ Occupies(Sizes(Append(d, p))).bytes
                 = Occupies(Sizes(d)).bytes + RoundPktSize(p.size)
           /\ Occupies(Sizes(Append(d, p))).pkts = Occupies(Sizes(d)).pkts + 1
           /\ \A i \in 1 .. Len(d) :
                /\ From(Append(d, p), i).bytes = From(d, i).bytes + RoundPktSize(p.size)
                /\ From(Append(d, p), i).pkts = From(d, i).pkts + 1
           /\ From(Append(d, p), Len(d) + 1) = Pkt(p.size)
<1>. DEFINE e == Append(d, p)
           r == Rounded(Sizes(d))
           q == Rounded(Sizes(e))
           x == RoundPktSize(p.size)
<1>1. /\ e \in Seq(Packets) /\ Len(e) = Len(d) + 1 /\ Len(d) \in Nat
      /\ e[Len(d) + 1] = p /\ \A i \in 1 .. Len(d) : e[i] = d[i]
  OBVIOUS
<1>2. p.size \in Nat /\ x \in Nat
  BY WordsType DEF Packets
<1>. HIDE DEF e, x
<1>3. /\ r \in Seq(Nat) /\ Len(r) = Len(d)
      /\ \A i \in 1 .. Len(d) : r[i] = RoundPktSize(d[i].size)
      /\ \A i \in 0 .. Len(d) : LinkSums(d)[i] \in Nat
  BY LinkSumsAt
<1>4. /\ q \in Seq(Nat) /\ Len(q) = Len(d) + 1
      /\ \A i \in 1 .. Len(d) + 1 : q[i] = RoundPktSize(e[i].size)
      /\ LinkSums(e)[0] = 0
  BY <1>1, LinkSumsAt
<1>. HIDE DEF r, q
<1>5. ASSUME NEW j \in 0 .. Len(d) PROVE LinkSums(e)[j] = LinkSums(d)[j]
  <2>1. ASSUME NEW i \in 1 .. j PROVE r[i] = q[0 + i]
    <3>1. i \in 1 .. Len(d) /\ i \in 1 .. Len(d) + 1 /\ 0 + i = i
      BY <1>1
    <3>. QED
      BY <3>1, <1>1, <1>3, <1>4
  <2>2. 0 \in Nat /\ j \in 0 .. Len(r) /\ 0 + j <= Len(q) /\ 0 + j = j
    BY <1>1, <1>3, <1>4
  <2>3. RunningSums(q)[0 + j] = RunningSums(q)[0] + RunningSums(r)[j]
    BY <1>3, <1>4, <2>1, <2>2, SumsShift
  <2>4. RunningSums(q) = LinkSums(e) /\ RunningSums(r) = LinkSums(d)
    BY DEF LinkSums, q, r
  <2>5. LinkSums(d)[j] \in Nat
    BY <1>3
  <2>. QED
    BY <1>4, <2>2, <2>3, <2>4, <2>5
<1>6. LinkSums(e)[Len(d) + 1] = LinkSums(d)[Len(d)] + x
  <2>1. Len(d) + 1 \in 1 .. Len(q) /\ (Len(d) + 1) - 1 = Len(d) /\ Len(d) \in 0 .. Len(d)
    BY <1>1, <1>4
  <2>2. RunningSums(q)[Len(d) + 1] = RunningSums(q)[(Len(d) + 1) - 1] + q[Len(d) + 1]
    BY <1>4, <2>1, SumsAt
  <2>3. q[Len(d) + 1] = x
    BY <1>1, <1>4 DEF x
  <2>4. RunningSums(q)[Len(d)] = LinkSums(d)[Len(d)]
    BY <1>5, <2>1 DEF LinkSums, q
  <2>. QED
    BY <2>1, <2>2, <2>3, <2>4 DEF LinkSums, q
<1>7. /\ Occupies(Sizes(e)).bytes = LinkSums(e)[Len(d) + 1]
      /\ Occupies(Sizes(e)).pkts = Len(d) + 1
      /\ Occupies(Sizes(d)).bytes = LinkSums(d)[Len(d)]
      /\ Occupies(Sizes(d)).pkts = Len(d)
  BY <1>1, LinkSumsAt
<1>8. ASSUME NEW i \in 1 .. Len(d)
      PROVE  From(e, i).bytes = From(d, i).bytes + x /\ From(e, i).pkts = From(d, i).pkts + 1
  <2>1. i - 1 \in 0 .. Len(d) /\ Len(d) \in 0 .. Len(d)
    BY <1>1
  <2>2. LinkSums(e)[i - 1] = LinkSums(d)[i - 1]
    BY <1>5, <2>1
  <2>3. LinkSums(d)[i - 1] \in Nat /\ LinkSums(d)[Len(d)] \in Nat
    BY <1>3, <2>1
  <2>. QED
    BY <1>1, <1>2, <1>6, <2>2, <2>3 DEF From
<1>9. From(e, Len(d) + 1) = Pkt(p.size)
  <2>1. Len(d) \in 0 .. Len(d) /\ (Len(d) + 1) - 1 = Len(d)
    BY <1>1
  <2>2. LinkSums(e)[(Len(d) + 1) - 1] = LinkSums(d)[Len(d)] /\ LinkSums(d)[Len(d)] \in Nat
    BY <1>3, <1>5, <2>1
  <2>3. /\ LinkSums(e)[Len(e)] - LinkSums(e)[(Len(d) + 1) - 1] = x
        /\ Len(e) - (Len(d) + 1) + 1 = 1
    BY <1>1, <1>2, <1>6, <2>2
  <2>. QED
    BY <2>3 DEF From, Pkt, x
<1>. QED
  BY <1>7, <1>6, <1>8, <1>9 DEF e, x

\* When the first packet leaves the link, the others remain as they are.
LEMMA LinkTail ==
    ASSUME NEW d \in Seq(Packets), d # <<>>
    PROVE  /\ Occupies(Sizes(d)).bytes
                 = RoundPktSize(Head(d).size) + Occupies(Sizes(Tail(d))).bytes
           /\ Occupies(Sizes(d)).pkts = 1 + Occupies(Sizes(Tail(d))).pkts
           /\ From(d, 1) = Occupies(Sizes(d))
           /\ \A i \in 1 .. Len(d) - 1 : From(Tail(d), i) = From(d, i + 1)
<1>. DEFINE e == Tail(d)
           r == Rounded(Sizes(d))
           q == Rounded(Sizes(e))
<1>1. /\ e \in Seq(Packets) /\ Len(e) = Len(d) - 1 /\ Len(d) \in Nat \ {0}
      /\ Head(d) = d[1] /\ \A i \in 1 .. Len(d) - 1 : e[i] = d[i + 1]
  OBVIOUS
<1>. HIDE DEF e
<1>2. /\ r \in Seq(Nat) /\ Len(r) = Len(d)
      /\ \A i \in 1 .. Len(d) : r[i] = RoundPktSize(d[i].size)
      /\ LinkSums(d)[0] = 0
      /\ \A i \in 0 .. Len(d) : LinkSums(d)[i] \in Nat
      /\ Occupies(Sizes(d)).bytes = LinkSums(d)[Len(d)]
      /\ Occupies(Sizes(d)).pkts = Len(d)
      /\ Occupies(Sizes(d)) \in Counts
  BY LinkSumsAt
<1>3. /\ q \in Seq(Nat) /\ Len(q) = Len(d) - 1
      /\ \A i \in 1 .. Len(d) - 1 : q[i] = RoundPktSize(e[i].size)
      /\ \A i \in 0 .. Len(d) - 1 : LinkSums(e)[i] \in Nat
      /\ Occupies(Sizes(e)).bytes = LinkSums(e)[Len(d) - 1]
      /\ Occupies(Sizes(e)).pkts = Len(d) - 1
  BY <1>1, LinkSumsAt
<1>. HIDE DEF r, q
<1>4. ASSUME NEW j \in 0 .. Len(d) - 1
      PROVE  LinkSums(d)[1 + j] = LinkSums(d)[1] + LinkSums(e)[j]
  <2>1. ASSUME NEW i \in 1 .. j PROVE q[i] = r[1 + i]
    <3>1. i \in 1 .. Len(d) - 1 /\ 1 + i \in 1 .. Len(d) /\ 1 + i = i + 1
      BY <1>1
    <3>. QED
      BY <3>1, <1>1, <1>2, <1>3
  <2>2. 1 \in Nat /\ j \in 0 .. Len(q) /\ 1 + j <= Len(r)
    BY <1>1, <1>2, <1>3
  <2>3. RunningSums(r)[1 + j] = RunningSums(r)[1] + RunningSums(q)[j]
    BY <1>2, <1>3, <2>1, <2>2, SumsShift
  <2>. QED
    BY <2>3 DEF LinkSums, r, q
<1>5. LinkSums(d)[1] = RoundPktSize(Head(d).size)
  <2>1. 1 \in 1 .. Len(r) /\ 1 \in 1 .. Len(d)
    BY <1>1, <1>2
  <2>2. RunningSums(r)[1] = RunningSums(r)[1 - 1] + r[1]
    BY <1>2, <2>1, SumsAt
  <2>3. r[1] = RoundPktSize(Head(d).size) /\ r[1] \in Nat
    BY <1>1, <1>2, <2>1
  <2>. QED
    BY <1>2, <2>2, <2>3 DEF LinkSums, r
<1>6. LinkSums(d)[Len(d)] = LinkSums(d)[1] + LinkSums(e)[Len(d) - 1]
  <2>1. Len(d) - 1 \in 0 .. Len(d) - 1 /\ 1 + (Len(d) - 1) = Len(d)
    BY <1>1
  <2>2. LinkSums(d)[1 + (Len(d) - 1)] = LinkSums(d)[1] + LinkSums(e)[Len(d) - 1]
    BY <1>4, <2>1
  <2>. QED
    BY <2>1, <2>2
<1>7. From(d, 1) = Occupies(Sizes(d))
  <2>1. Len(d) \in 0 .. Len(d)
    BY <1>1
  <2>2. LinkSums(d)[Len(d)] - LinkSums(d)[1 - 1] = LinkSums(d)[Len(d)] /\ Len(d) - 1 + 1 = Len(d)
    BY <1>1, <1>2, <2>1
  <2>3. From(d, 1) = [bytes |-> LinkSums(d)[Len(d)], pkts |-> Len(d)]
    BY <2>2 DEF From
  <2>. QED
    BY <1>2, <2>3 DEF Counts
<1>8. ASSUME NEW i \in 1 .. Len(d) - 1 PROVE From(e, i) = From(d, i + 1)
  <2>1. /\ i - 1 \in 0 .. Len(d) - 1 /\ Len(d) - 1 \in 0 .. Len(d) - 1
        /\ 1 + (i - 1) = (i + 1) - 1 /\ 1 \in 0 .. Len(d)
    BY <1>1
  <2>2. LinkSums(d)[(i + 1) - 1] = LinkSums(d)[1] + LinkSums(e)[i - 1]
    BY <1>4, <2>1
  <2>3. LinkSums(d)[1] \in Nat /\ LinkSums(e)[i - 1] \in Nat /\ LinkSums(e)[Len(d) - 1] \in Nat
    BY <1>2, <1>3, <2>1
  <2>4. /\ LinkSums(e)[Len(e)] - LinkSums(e)[i - 1]
               = LinkSums(d)[Len(d)] - LinkSums(d)[(i + 1) - 1]
        /\ Len(e) - i + 1 = Len(d) - (i + 1) + 1
    BY <1>1, <1>6, <2>2, <2>3
  <2>. QED
    BY <2>4 DEF From
<1>. QED
  BY <1>1, <1>2, <1>3, <1>5, <1>6, <1>7, <1>8 DEF e

-----------------------------------------------------------------------------
(* The shift registers *)

LEMMA ShiftAt ==
    ASSUME NEW reg \in [1 .. OkLatency -> BOOLEAN], NEW bit \in BOOLEAN
    PROVE  /\ Shift(reg, bit) \in [1 .. OkLatency -> BOOLEAN]
           /\ Shift(reg, bit)[1] = bit
           /\ \A i \in 2 .. OkLatency : Shift(reg, bit)[i] = reg[i - 1]
<1>1. OkLatency \in Nat /\ OkLatency >= 1
  BY RxAssumption
<1>. DEFINE s == SubSeq(reg, 1, OkLatency - 1)
           t == <<bit>> \o s
<1>2. reg \in Seq(BOOLEAN) /\ Len(reg) = OkLatency
  BY <1>1
<1>3. /\ s \in Seq(BOOLEAN) /\ Len(s) = OkLatency - 1
      /\ \A i \in 1 .. OkLatency - 1 : s[i] = reg[i]
  BY <1>1, <1>2
<1>. HIDE DEF s
<1>4. /\ t \in Seq(BOOLEAN) /\ Len(t) = OkLatency
      /\ \A i \in 1 .. OkLatency : t[i] = IF i <= 1 THEN bit ELSE s[i - 1]
  <2>1. <<bit>> \in Seq(BOOLEAN) /\ Len(<<bit>>) = 1 /\ <<bit>>[1] = bit
    OBVIOUS
  <2>2. /\ t \in Seq(BOOLEAN) /\ Len(t) = 1 + Len(s)
        /\ \A i \in 1 .. 1 + Len(s) :
             t[i] = IF i <= 1 THEN <<bit>>[i] ELSE s[i - 1]
    BY <1>3, <2>1, ConcatProperties
  <2>3. 1 + Len(s) = OkLatency
    BY <1>1, <1>3
  <2>4. \A i \in 1 .. OkLatency : i <= 1 => i = 1
    OBVIOUS
  <2>. QED
    BY <2>1, <2>2, <2>3, <2>4
<1>. HIDE DEF t
<1>5. t \in [1 .. OkLatency -> BOOLEAN]
  BY <1>4
<1>6. t[1] = bit
  BY <1>1, <1>4
<1>7. ASSUME NEW i \in 2 .. OkLatency PROVE t[i] = reg[i - 1]
  <2>1. i \in 1 .. OkLatency /\ ~(i <= 1) /\ i - 1 \in 1 .. OkLatency - 1
    BY <1>1
  <2>. QED
    BY <2>1, <1>3, <1>4
<1>. QED
  BY <1>5, <1>6, <1>7 DEF Shift, s, t

-----------------------------------------------------------------------------
(* The counts: how a step changes what is on the link *)

LEMMA Types ==
    ASSUME TypeOK
    PROVE  /\ send.bytes \in Nat /\ send.pkts \in Nat
           /\ recv.bytes \in Nat /\ recv.pkts \in Nat
           /\ xfer.bytes \in Nat /\ xfer.pkts \in Nat
           /\ last.bytes \in Nat /\ last.pkts \in Nat
           /\ rcnt.bytes \in Nat /\ rcnt.pkts \in Nat
           /\ accum.bytes \in Nat /\ accum.pkts \in Nat
           /\ part \in Nat /\ part * W \in Nat /\ strc_cnt \in Nat
           /\ down \in Seq(Packets) /\ Len(down) \in Nat
           /\ OnLink.bytes \in Nat /\ OnLink.pkts \in Nat
           /\ SentWhole.bytes = send.bytes - part * W /\ SentWhole.pkts = send.pkts
           /\ SentWhole.bytes \in Int
<1>1. /\ send \in Counts /\ recv \in Counts /\ xfer \in Counts
      /\ last \in Counts /\ rcnt \in Counts /\ accum \in Counts
      /\ part \in Nat /\ strc_cnt \in Nat /\ down \in Seq(Packets)
  BY DEF TypeOK, Packets
<1>2. part * W \in Nat
  BY <1>1, WordSize
<1>3. OnLink \in Counts /\ Len(down) \in Nat
  BY <1>1, LinkSumsAt DEF OnLink
<1>4. /\ send.bytes \in Nat /\ send.pkts \in Nat
      /\ recv.bytes \in Nat /\ recv.pkts \in Nat
      /\ xfer.bytes \in Nat /\ xfer.pkts \in Nat
      /\ last.bytes \in Nat /\ last.pkts \in Nat
      /\ rcnt.bytes \in Nat /\ rcnt.pkts \in Nat
      /\ accum.bytes \in Nat /\ accum.pkts \in Nat
      /\ OnLink.bytes \in Nat /\ OnLink.pkts \in Nat
  BY <1>1, <1>3 DEF Counts
<1>5. /\ SentWhole.bytes = send.bytes - part * W /\ SentWhole.pkts = send.pkts
      /\ SentWhole.bytes \in Int
  BY <1>2, <1>4 DEF SentWhole, Minus
<1>. QED
  BY <1>1, <1>2, <1>3, <1>4, <1>5

LEMMA FromType ==
    ASSUME NEW d \in Seq(Packets), NEW i \in 1 .. Len(d)
    PROVE  From(d, i).bytes \in Int /\ From(d, i).pkts \in Int
<1>1. i - 1 \in 0 .. Len(d) /\ Len(d) \in 0 .. Len(d)
  OBVIOUS
<1>2. LinkSums(d)[i - 1] \in Nat /\ LinkSums(d)[Len(d)] \in Nat
  BY <1>1, LinkSumsAt
<1>. QED
  BY <1>2 DEF From

\* A packet is sent: a stream command has the counts of what was sent before.
LEMMA LinkJoins ==
    ASSUME TypeOK, TypeOK', StrcOnLink, Received, NEW p \in Packets,
           down' = Append(down, p), recv' = recv, insync' = insync,
           SentWhole'.bytes = SentWhole.bytes + RoundPktSize(p.size),
           SentWhole'.pkts = SentWhole.pkts + 1,
           p.type = "strc" => Same(p.cnt, SentWhole)
    PROVE  StrcOnLink' /\ Received'
<1>. DEFINE x == RoundPktSize(p.size)
<1>1. /\ down \in Seq(Packets) /\ Len(down) \in Nat
      /\ Len(down') = Len(down) + 1 /\ down'[Len(down) + 1] = p
      /\ \A i \in 1 .. Len(down) : down'[i] = down[i]
  BY Types
<1>2. p.size \in Nat /\ x \in Nat /\ p.cnt.bytes \in Nat /\ p.cnt.pkts \in Nat
  <2>1. p.size \in Nat /\ p.cnt \in Counts
    BY DEF Packets
  <2>. QED
    BY <2>1, WordsType DEF Counts
<1>3. /\ OnLink'.bytes = OnLink.bytes + x /\ OnLink'.pkts = OnLink.pkts + 1
      /\ \A i \in 1 .. Len(down) :
            /\ From(down', i).bytes = From(down, i).bytes + x
            /\ From(down', i).pkts = From(down, i).pkts + 1
      /\ From(down', Len(down) + 1) = Pkt(p.size)
  BY <1>1, LinkAppend DEF OnLink
<1>. HIDE DEF x
<1>4. SentWhole'.bytes = SentWhole.bytes + x /\ SentWhole'.pkts = SentWhole.pkts + 1
  BY DEF x
<1>5. ASSUME NEW i \in 1 .. Len(down'), down'[i].type = "strc"
      PROVE  Same(Plus(down'[i].cnt, From(down', i)), SentWhole')
  <2>1. CASE i \in 1 .. Len(down)
    <3>1. Same(Plus(down[i].cnt, From(down, i)), SentWhole)
      BY <1>1, <1>5, <2>1 DEF StrcOnLink
    <3>2. down[i].cnt.bytes \in Nat /\ down[i].cnt.pkts \in Nat
      <4>1. down[i] \in Packets
        BY <1>1, <2>1
      <4>. QED
        BY <4>1 DEF Packets, Counts
    <3>3. From(down, i).bytes \in Int /\ From(down, i).pkts \in Int
      BY <1>1, <2>1, FromType
    <3>4. /\ From(down', i).bytes = From(down, i).bytes + x
          /\ From(down', i).pkts = From(down, i).pkts + 1
          /\ down'[i] = down[i]
      BY <1>1, <1>3, <2>1
    <3>5. /\ down[i].cnt.bytes + From(down, i).bytes = SentWhole.bytes
          /\ down[i].cnt.pkts + From(down, i).pkts = SentWhole.pkts
      BY <3>1 DEF Same, Plus
    <3>6. /\ down[i].cnt.bytes + From(down', i).bytes = SentWhole'.bytes
          /\ down[i].cnt.pkts + From(down', i).pkts = SentWhole'.pkts
      <4>1. /\ From(down', i).bytes = From(down, i).bytes + x
            /\ From(down', i).pkts = From(down, i).pkts + 1
        BY <3>4
      <4>2. x \in Int
        BY <1>2
      <4>3. down[i].cnt.bytes + From(down', i).bytes = SentWhole.bytes + x
        <5>. DEFINE d == down[i].cnt.bytes
                    e == From(down, i).bytes
        <5>1. d \in Int /\ e \in Int
          BY <3>2, <3>3
        <5>. HIDE DEF d, e
        <5>2. d + (e + x) = d + e + x
          BY <4>2, <5>1
        <5>. QED
          BY <3>5, <4>1, <5>2 DEF d, e
      <4>4. down[i].cnt.pkts + From(down', i).pkts = SentWhole.pkts + 1
        BY <3>2, <3>3, <3>5, <4>1
      <4>. QED
        BY <1>4, <4>3, <4>4
    <3>. QED
      BY <3>4, <3>6 DEF Same, Plus
  <2>2. CASE i = Len(down) + 1
    <3>1. Same(p.cnt, SentWhole)
      BY <1>1, <1>5, <2>2
    <3>2. From(down', i).bytes = x /\ From(down', i).pkts = 1
      BY <1>3, <2>2 DEF Pkt, x
    <3>. QED
      BY <1>1, <1>2, <1>4, <2>2, <3>1, <3>2, Types DEF Same, Plus
  <2>. QED
    BY <1>1, <2>1, <2>2
<1>6. StrcOnLink'
  BY <1>5 DEF StrcOnLink
<1>7. Received'
  <2>1. /\ recv.bytes \in Nat /\ recv.pkts \in Nat
        /\ OnLink.bytes \in Nat /\ OnLink.pkts \in Nat
        /\ SentWhole.bytes \in Int /\ SentWhole.pkts \in Int
    BY Types
  <2>2. /\ recv.bytes + OnLink.bytes <= SentWhole.bytes
        /\ recv.pkts + OnLink.pkts <= SentWhole.pkts
        /\ insync => /\ recv.bytes + OnLink.bytes = SentWhole.bytes
                     /\ recv.pkts + OnLink.pkts = SentWhole.pkts
    BY DEF Received, AtMost, Same, Plus
  <2>3. /\ recv.bytes + OnLink'.bytes <= SentWhole'.bytes
        /\ recv.pkts + OnLink'.pkts <= SentWhole'.pkts
        /\ insync => /\ recv.bytes + OnLink'.bytes = SentWhole'.bytes
                     /\ recv.pkts + OnLink'.pkts = SentWhole'.pkts
    <3>1. x \in Int /\ OnLink'.bytes = OnLink.bytes + x /\ OnLink'.pkts = OnLink.pkts + 1
      BY <1>2, <1>3
    <3>2. /\ recv.bytes + OnLink'.bytes <= SentWhole.bytes + x
          /\ insync => recv.bytes + OnLink'.bytes = SentWhole.bytes + x
      BY <2>1, <2>2, <3>1
    <3>3. /\ recv.pkts + OnLink'.pkts <= SentWhole.pkts + 1
          /\ insync => recv.pkts + OnLink'.pkts = SentWhole.pkts + 1
      BY <2>1, <2>2, <3>1
    <3>. QED
      BY <1>4, <3>2, <3>3
  <2>. QED
    BY <2>3 DEF Received, AtMost, Same, Plus
<1>. QED
  BY <1>6, <1>7

\* Nothing joins or leaves the link.
LEMMA LinkSame ==
    ASSUME TypeOK, StrcOnLink, Received, down' = down, recv' = recv, insync' = insync,
           SentWhole'.bytes = SentWhole.bytes, SentWhole'.pkts = SentWhole.pkts
    PROVE  StrcOnLink' /\ Received'
<1>1. OnLink' = OnLink /\ \A i : From(down', i) = From(down, i)
  BY DEF OnLink
<1>2. StrcOnLink'
  BY <1>1 DEF StrcOnLink, Same
<1>3. Received'
  BY <1>1 DEF Received, AtMost, Same
<1>. QED
  BY <1>2, <1>3

\* The first packet leaves the link.
LEMMA LinkLeaves ==
    ASSUME TypeOK, StrcOnLink, down # <<>>, down' = Tail(down),
           SentWhole'.bytes = SentWhole.bytes, SentWhole'.pkts = SentWhole.pkts
    PROVE  /\ StrcOnLink'
           /\ OnLink.bytes = RoundPktSize(Head(down).size) + OnLink'.bytes
           /\ OnLink.pkts = 1 + OnLink'.pkts
           /\ OnLink'.bytes \in Nat /\ OnLink'.pkts \in Nat
           /\ Head(down).size \in Nat /\ RoundPktSize(Head(down).size) \in Nat
<1>1. /\ down \in Seq(Packets) /\ Len(down) \in Nat \ {0} /\ down' \in Seq(Packets)
      /\ Len(down') = Len(down) - 1 /\ Head(down) = down[1] /\ Head(down) \in Packets
      /\ \A i \in 1 .. Len(down) - 1 : down'[i] = down[i + 1]
  BY Types
<1>2. /\ OnLink.bytes = RoundPktSize(Head(down).size) + OnLink'.bytes
      /\ OnLink.pkts = 1 + OnLink'.pkts
      /\ \A i \in 1 .. Len(down) - 1 : From(down', i) = From(down, i + 1)
  BY <1>1, LinkTail DEF OnLink
<1>3. OnLink'.bytes \in Nat /\ OnLink'.pkts \in Nat
  <2>1. OnLink' \in Counts
    BY <1>1, LinkSumsAt DEF OnLink
  <2>. QED
    BY <2>1 DEF Counts
<1>4. Head(down).size \in Nat /\ RoundPktSize(Head(down).size) \in Nat
  <2>1. Head(down).size \in Nat
    BY <1>1 DEF Packets
  <2>. QED
    BY <2>1, WordsType
<1>5. ASSUME NEW i \in 1 .. Len(down'), down'[i].type = "strc"
      PROVE  Same(Plus(down'[i].cnt, From(down', i)), SentWhole')
  <2>1. i \in 1 .. Len(down) - 1 /\ i + 1 \in 1 .. Len(down)
    BY <1>1
  <2>2. down'[i] = down[i + 1] /\ From(down', i) = From(down, i + 1)
    BY <1>1, <1>2, <2>1
  <2>3. Same(Plus(down[i + 1].cnt, From(down, i + 1)), SentWhole)
    BY <1>5, <2>1, <2>2 DEF StrcOnLink
  <2>. QED
    BY <2>2, <2>3 DEF Same
<1>6. StrcOnLink'
  BY <1>5 DEF StrcOnLink
<1>. QED
  BY <1>2, <1>3, <1>4, <1>6

-----------------------------------------------------------------------------
(* The counts: the FPGA *)

LEMMA WordCounted ==
    ASSUME TypeOK, NEW ends \in BOOLEAN, send' = Count(send, ends)
    PROVE  /\ send'.bytes = send.bytes + W
           /\ send'.pkts = send.pkts + (IF ends THEN 1 ELSE 0)
           /\ send' \in Counts /\ Count(accum, ends) \in Counts
<1>1. /\ send.bytes \in Nat /\ send.pkts \in Nat
      /\ accum.bytes \in Nat /\ accum.pkts \in Nat /\ W \in Nat
  BY Types, WordSize
<1>2. \A c : Count(c, ends) = [bytes |-> c.bytes + W,
                               pkts |-> c.pkts + (IF ends THEN 1 ELSE 0)]
  BY DEF Count, Plus
<1>3. Count(send, ends) \in Counts /\ Count(accum, ends) \in Counts
  BY <1>1, <1>2 DEF Counts
<1>. QED
  BY <1>2, <1>3

\* What a word does to the counts of what was sent in whole packets.
LEMMA SentWord ==
    ASSUME TypeOK, send'.bytes = send.bytes + W, send' \in Counts, NEW n \in Nat, NEW m \in Nat,
           RoundPktSize(n) = m * W
    PROVE  /\ part' = part + 1 => SentWhole'.bytes = SentWhole.bytes
           /\ part' = 0 /\ part + 1 = m =>
                SentWhole'.bytes = SentWhole.bytes + RoundPktSize(n)
           /\ SentWhole'.pkts = send'.pkts
<1>1. /\ W \in Nat /\ part \in Nat /\ part * W \in Nat /\ send.bytes \in Nat
      /\ SentWhole.bytes = send.bytes - part * W
  BY Types, WordSize
<1>2. (part + 1) * W = part * W + W /\ 0 * W = 0
  BY <1>1
<1>3. SentWhole'.bytes = send'.bytes - part' * W /\ SentWhole'.pkts = send'.pkts - 0
  BY DEF SentWhole, Minus
<1>4. ASSUME part' = part + 1 PROVE SentWhole'.bytes = SentWhole.bytes
  <2>1. SentWhole'.bytes = (send.bytes + W) - (part * W + W)
    BY <1>2, <1>3, <1>4
  <2>. QED
    BY <1>1, <2>1
<1>5. ASSUME part' = 0, part + 1 = m
      PROVE  SentWhole'.bytes = SentWhole.bytes + RoundPktSize(n)
  <2>1. SentWhole'.bytes = (send.bytes + W) - 0 /\ RoundPktSize(n) = part * W + W
    BY <1>2, <1>3, <1>5
  <2>. QED
    BY <1>1, <2>1
<1>6. SentWhole'.pkts = send'.pkts
  BY <1>3 DEF Counts
<1>. QED
  BY <1>4, <1>5, <1>6

LEMMA DataWordCounts ==
    ASSUME CountsInv, DataWord
    PROVE  CountsInv'
<1>. DEFINE Body(n) ==
       /\ send' = Count(send, part + 1 = Words(n))
       /\ accum' = IF Lossy THEN Count(accum, part + 1 = Words(n)) ELSE Zero
       /\ part' = IF part + 1 = Words(n) THEN 0 ELSE part + 1
       /\ size' = IF part + 1 = Words(n) THEN 0 ELSE n
       /\ down' = IF part + 1 = Words(n)
                    THEN Append(down, [type |-> "data", size |-> n, cnt |-> Zero])
                    ELSE down
       /\ state' = IF part > 0 /\ part + 1 = Words(n) /\ FcResyncReq THEN "strc" ELSE "pass"
       /\ npkts' = IF part + 1 = Words(n) THEN npkts + 1 ELSE npkts
<1>1. TypeOK /\ PartialPacket /\ StrcStarted /\ StrcOnLink /\ Received /\ Held /\ Released
  BY DEF CountsInv
<1>2. PICK n \in (IF part = 0 THEN PktSizes ELSE {size}) : Body(n)
  BY DEF DataWord
<1>3. /\ state = "pass" /\ ok' = Shift(ok, HasRoom) /\ req' = Shift(req, ResyncDue)
      /\ rcnt' = rcnt /\ strc_cnt' = strc_cnt /\ up' = up /\ insync' = insync
      /\ nloss' = nloss /\ recv' = recv /\ xfer' = xfer /\ last' = last /\ held' = held
  BY DEF DataWord, host
<1>4. /\ n \in PktSizes /\ n \in Nat /\ Words(n) \in Nat /\ part < Words(n)
      /\ Words(n) > 1 /\ RoundPktSize(n) = Words(n) * W /\ part \in Nat
  <2>1. part \in Nat
    BY <1>1, Types
  <2>2. CASE part = 0
    <3>1. n \in PktSizes /\ n \in Nat /\ n > W
      BY <1>2, <2>2, RxAssumption
    <3>. QED
      BY <2>1, <2>2, <3>1, WordsType
  <2>3. CASE part # 0
    <3>1. n = size /\ size \in PktSizes /\ part < Words(size)
      BY <1>1, <1>2, <1>3, <2>1, <2>3 DEF PartialPacket
    <3>2. n \in Nat /\ n > W
      BY <3>1, RxAssumption
    <3>. QED
      BY <2>1, <3>1, <3>2, WordsType
  <2>. QED
    BY <2>2, <2>3
<1>. DEFINE ends == part + 1 = Words(n)
           p == [type |-> "data", size |-> n, cnt |-> Zero]
<1>5. p \in Packets /\ p.size = n /\ p.type # "strc"
  BY <1>4 DEF Packets, Counts, Zero
<1>6. /\ send'.bytes = send.bytes + W
      /\ send'.pkts = send.pkts + (IF ends THEN 1 ELSE 0)
      /\ send' \in Counts /\ Count(accum, ends) \in Counts
  <2>1. ends \in BOOLEAN /\ send' = Count(send, ends)
    BY <1>2
  <2>. HIDE DEF ends
  <2>. QED
    BY <1>1, <2>1, WordCounted
<1>7. TypeOK'
  <2>1. /\ {send', rcnt', accum', recv', xfer', last'} \subseteq Counts
    <3>1. accum' \in Counts
      BY <1>2, <1>6 DEF Counts, Zero
    <3>. QED
      BY <1>1, <1>3, <1>6, <3>1 DEF TypeOK
  <2>2. ok' \in [1 .. OkLatency -> BOOLEAN] /\ req' \in [1 .. OkLatency -> BOOLEAN]
    <3>1. HasRoom \in BOOLEAN /\ ResyncDue \in BOOLEAN
      BY DEF HasRoom, ResyncDue
    <3>2. ok \in [1 .. OkLatency -> BOOLEAN] /\ req \in [1 .. OkLatency -> BOOLEAN]
      BY <1>1 DEF TypeOK
    <3>. QED
      BY <1>3, <3>1, <3>2, ShiftAt
  <2>3. down' \in Seq(Packets)
    <3>1. down \in Seq(Packets) /\ (down' = Append(down, p) \/ down' = down)
      BY <1>1, <1>2, Types
    <3>. HIDE DEF p
    <3>. QED
      BY <1>5, <3>1
  <2>4. /\ state' \in {"pass", "strc"} /\ part' \in Nat /\ size' \in PktSizes \cup {0}
        /\ strc_cnt' \in Nat /\ npkts' \in Nat
    BY <1>1, <1>2, <1>3, <1>4 DEF TypeOK
  <2>5. up' \in Seq(Counts) /\ held' \in Seq(Nat) /\ insync' \in BOOLEAN /\ nloss' \in Nat
    BY <1>1, <1>3 DEF TypeOK
  <2>. QED
    BY <2>1, <2>2, <2>3, <2>4, <2>5 DEF TypeOK, Packets
<1>8. PartialPacket'
  BY <1>2, <1>4, WordSize DEF PartialPacket
<1>9. StrcStarted'
  BY <1>2, <1>4 DEF StrcStarted
<1>10. StrcOnLink' /\ Received'
  <2>1. /\ part' = part + 1 => SentWhole'.bytes = SentWhole.bytes
        /\ part' = 0 /\ part + 1 = Words(n) =>
               SentWhole'.bytes = SentWhole.bytes + RoundPktSize(n)
        /\ SentWhole'.pkts = send'.pkts
    BY <1>1, <1>4, <1>6, SentWord
  <2>2. SentWhole.pkts = send.pkts /\ send.pkts \in Nat
    BY <1>1, Types
  <2>3. CASE ends
    <3>1. /\ SentWhole'.bytes = SentWhole.bytes + RoundPktSize(p.size)
          /\ SentWhole'.pkts = SentWhole.pkts + 1 /\ down' = Append(down, p)
      BY <1>2, <1>5, <1>6, <2>1, <2>2, <2>3
    <3>. HIDE DEF p
    <3>. QED
      BY <1>1, <1>3, <1>5, <1>7, <3>1, LinkJoins
  <2>4. CASE ~ends
    <3>1. /\ SentWhole'.bytes = SentWhole.bytes
          /\ SentWhole'.pkts = SentWhole.pkts /\ down' = down
      BY <1>2, <1>6, <2>1, <2>2, <2>4
    <3>. QED
      BY <1>1, <1>3, <3>1, LinkSame
  <2>. QED
    BY <2>3, <2>4
<1>11. Held' /\ Released'
  BY <1>1, <1>3 DEF Held, Released, Same, AtMost, Plus
<1>. QED
  BY <1>7, <1>8, <1>9, <1>10, <1>11 DEF CountsInv

LEMMA RegsType ==
    ASSUME TypeOK
    PROVE  /\ Shift(ok, HasRoom) \in [1 .. OkLatency -> BOOLEAN]
           /\ Shift(req, ResyncDue) \in [1 .. OkLatency -> BOOLEAN]
<1>1. HasRoom \in BOOLEAN /\ ResyncDue \in BOOLEAN
  BY DEF HasRoom, ResyncDue
<1>2. ok \in [1 .. OkLatency -> BOOLEAN] /\ req \in [1 .. OkLatency -> BOOLEAN]
  BY DEF TypeOK
<1>. QED
  BY <1>1, <1>2, ShiftAt

LEMMA StrcWordCounts ==
    ASSUME CountsInv, StrcWord
    PROVE  CountsInv'
<1>. DEFINE ends == part + 1 = StrcWords
           p == [type |-> "strc", size |-> StrcWords * W,
                 cnt |-> [bytes |-> strc_cnt, pkts |-> send.pkts]]
<1>1. TypeOK /\ PartialPacket /\ StrcStarted /\ StrcOnLink /\ Received /\ Held /\ Released
  BY DEF CountsInv
<1>2. /\ state = "strc" /\ send' = Count(send, ends)
      /\ strc_cnt' = (IF part = 0 THEN send.bytes ELSE strc_cnt)
      /\ part' = (IF ends THEN 0 ELSE part + 1)
      /\ accum' = (IF ends THEN Zero ELSE Count(accum, ends))
      /\ req' = (IF ends THEN [i \in 1 .. OkLatency |-> FALSE] ELSE Shift(req, ResyncDue))
      /\ state' = (IF ends THEN "pass" ELSE "strc")
      /\ down' = (IF ends THEN Append(down, p) ELSE down)
      /\ ok' = Shift(ok, HasRoom)
  BY DEF StrcWord, StrcCount
<1>3. /\ rcnt' = rcnt /\ size' = size /\ up' = up /\ insync' = insync
      /\ npkts' = npkts /\ nloss' = nloss
      /\ recv' = recv /\ xfer' = xfer /\ last' = last /\ held' = held
  BY DEF StrcWord, host
<1>4. /\ part \in Nat /\ part < StrcWords /\ StrcWords \in Nat /\ StrcWords > 1
      /\ StrcWords * W \in Nat /\ RoundPktSize(StrcWords * W) = StrcWords * W
      /\ send.bytes \in Nat /\ send.pkts \in Nat /\ strc_cnt \in Nat
      /\ part * W \in Nat /\ SentWhole.bytes = send.bytes - part * W
      /\ SentWhole.pkts = send.pkts /\ W \in Nat
  BY <1>1, <1>2, Types, WordSize, StrcSize DEF PartialPacket
<1>5. p \in Packets /\ p.size = StrcWords * W
  BY <1>4 DEF Packets, Counts
<1>6. /\ send'.bytes = send.bytes + W
      /\ send'.pkts = send.pkts + (IF ends THEN 1 ELSE 0)
      /\ send' \in Counts /\ Count(accum, ends) \in Counts
  <2>1. ends \in BOOLEAN /\ send' = Count(send, ends)
    BY <1>2
  <2>. HIDE DEF ends
  <2>. QED
    BY <1>1, <2>1, WordCounted
<1>7. TypeOK'
  <2>1. {send', rcnt', accum', recv', xfer', last'} \subseteq Counts
    <3>1. accum' \in Counts
      BY <1>2, <1>6 DEF Counts, Zero
    <3>. QED
      BY <1>1, <1>3, <1>6, <3>1 DEF TypeOK
  <2>2. ok' \in [1 .. OkLatency -> BOOLEAN] /\ req' \in [1 .. OkLatency -> BOOLEAN]
    BY <1>1, <1>2, RegsType
  <2>3. down' \in Seq(Packets)
    <3>1. down \in Seq(Packets) /\ (down' = Append(down, p) \/ down' = down)
      BY <1>1, <1>2, Types
    <3>. HIDE DEF p
    <3>. QED
      BY <1>5, <3>1
  <2>4. /\ state' \in {"pass", "strc"} /\ part' \in Nat /\ size' \in PktSizes \cup {0}
        /\ strc_cnt' \in Nat /\ npkts' \in Nat
    BY <1>1, <1>2, <1>3, <1>4 DEF TypeOK
  <2>5. up' \in Seq(Counts) /\ held' \in Seq(Nat) /\ insync' \in BOOLEAN /\ nloss' \in Nat
    BY <1>1, <1>3 DEF TypeOK
  <2>. QED
    BY <2>1, <2>2, <2>3, <2>4, <2>5 DEF TypeOK, Packets
<1>8. PartialPacket'
  BY <1>2, <1>4 DEF PartialPacket
<1>9. /\ part' = part + 1 => SentWhole'.bytes = SentWhole.bytes
      /\ part' = 0 /\ part + 1 = StrcWords =>
             SentWhole'.bytes = SentWhole.bytes + RoundPktSize(StrcWords * W)
      /\ SentWhole'.pkts = send'.pkts
  BY <1>1, <1>4, <1>6, SentWord
<1>10. StrcStarted'
  <2>1. SUFFICES ASSUME state' = "strc", part' > 0 PROVE strc_cnt' = SentWhole'.bytes
    BY DEF StrcStarted
  <2>2. part' = part + 1 /\ SentWhole'.bytes = SentWhole.bytes
    BY <1>2, <1>9, <2>1
  <2>3. CASE part = 0
    <3>1. part * W = 0
      BY <1>4, <2>3
    <3>. QED
      BY <1>2, <1>4, <2>2, <2>3, <3>1
  <2>4. CASE part > 0
    BY <1>1, <1>2, <2>2, <2>4 DEF StrcStarted
  <2>. QED
    BY <1>4, <2>3, <2>4
<1>11. StrcOnLink' /\ Received'
  <2>1. CASE ends
    <3>1. /\ SentWhole'.bytes = SentWhole.bytes + RoundPktSize(p.size)
          /\ SentWhole'.pkts = SentWhole.pkts + 1 /\ down' = Append(down, p)
      BY <1>2, <1>4, <1>5, <1>6, <1>9, <2>1
    <3>2. Same(p.cnt, SentWhole)
      <4>1. part > 0
        BY <1>4, <2>1
      <4>2. strc_cnt = SentWhole.bytes
        BY <1>1, <1>2, <4>1 DEF StrcStarted
      <4>. QED
        BY <1>4, <4>2 DEF Same
    <3>. HIDE DEF p
    <3>. QED
      BY <1>1, <1>3, <1>5, <1>7, <3>1, <3>2, LinkJoins
  <2>2. CASE ~ends
    <3>1. /\ SentWhole'.bytes = SentWhole.bytes
          /\ SentWhole'.pkts = SentWhole.pkts /\ down' = down
      BY <1>2, <1>4, <1>6, <1>9, <2>2
    <3>. QED
      BY <1>1, <1>3, <3>1, LinkSame
  <2>. QED
    BY <2>1, <2>2
<1>12. Held' /\ Released'
  BY <1>1, <1>3 DEF Held, Released, Same, AtMost, Plus
<1>. QED
  BY <1>7, <1>8, <1>10, <1>11, <1>12 DEF CountsInv

LEMMA IdleCycleCounts ==
    ASSUME CountsInv, IdleCycle
    PROVE  CountsInv'
<1>1. TypeOK /\ PartialPacket /\ StrcStarted /\ StrcOnLink /\ Received /\ Held /\ Released
  BY DEF CountsInv
<1>2. /\ ok' = Shift(ok, HasRoom) /\ req' = Shift(req, ResyncDue)
      /\ state' = (IF state = "pass" /\ part = 0 /\ FcResyncReq THEN "strc" ELSE state)
  BY DEF IdleCycle
<1>3. /\ send' = send /\ accum' = accum /\ part' = part /\ size' = size
      /\ strc_cnt' = strc_cnt /\ rcnt' = rcnt /\ down' = down /\ up' = up
      /\ recv' = recv /\ xfer' = xfer /\ last' = last /\ held' = held
      /\ insync' = insync /\ npkts' = npkts /\ nloss' = nloss
  BY DEF IdleCycle, host
<1>4. TypeOK'
  <2>1. ok' \in [1 .. OkLatency -> BOOLEAN] /\ req' \in [1 .. OkLatency -> BOOLEAN]
    BY <1>1, <1>2, RegsType
  <2>. QED
    BY <1>1, <1>2, <1>3, <2>1 DEF TypeOK
<1>5. PartialPacket' /\ StrcStarted'
  <2>1. part \in Nat /\ SentWhole' = SentWhole
    BY <1>1, <1>3, Types DEF SentWhole
  <2>. QED
    BY <1>1, <1>2, <1>3, <2>1, WordSize DEF PartialPacket, StrcStarted
<1>6. StrcOnLink' /\ Received'
  <2>1. SentWhole' = SentWhole
    BY <1>3 DEF SentWhole
  <2>. QED
    BY <1>1, <1>3, <2>1, LinkSame
<1>7. Held' /\ Released'
  BY <1>1, <1>3 DEF Held, Released, Same, AtMost, Plus
<1>. QED
  BY <1>4, <1>5, <1>6, <1>7 DEF CountsInv

LEMMA LatchStrsCounts ==
    ASSUME CountsInv, LatchStrs
    PROVE  CountsInv'
<1>1. TypeOK /\ PartialPacket /\ StrcStarted /\ StrcOnLink /\ Received /\ Held /\ Released
  BY DEF CountsInv
<1>2. up # <<>> /\ rcnt' = Head(up) /\ up' = Tail(up)
  BY DEF LatchStrs
<1>3. /\ send' = send /\ accum' = accum /\ part' = part /\ size' = size
      /\ strc_cnt' = strc_cnt /\ ok' = ok /\ req' = req /\ state' = state /\ down' = down
      /\ recv' = recv /\ xfer' = xfer /\ last' = last /\ held' = held
      /\ insync' = insync /\ npkts' = npkts /\ nloss' = nloss
  BY DEF LatchStrs, host, dev
<1>4. /\ up \in Seq(Counts) /\ Len(up) \in Nat \ {0} /\ up' \in Seq(Counts)
      /\ Len(up') = Len(up) - 1 /\ rcnt' = up[1] /\ rcnt' \in Counts
      /\ \A i \in 1 .. Len(up) - 1 : up'[i] = up[i + 1]
  <2>1. up \in Seq(Counts)
    BY <1>1 DEF TypeOK
  <2>. QED
    BY <1>2, <2>1
<1>5. TypeOK'
  BY <1>1, <1>3, <1>4 DEF TypeOK
<1>6. PartialPacket' /\ StrcStarted' /\ Held'
  BY <1>1, <1>3 DEF PartialPacket, StrcStarted, SentWhole, Held
<1>7. StrcOnLink' /\ Received'
  <2>1. SentWhole' = SentWhole
    BY <1>3 DEF SentWhole
  <2>. QED
    BY <1>1, <1>3, <2>1, LinkSame
<1>8. Released'
  <2>1. /\ AtMost(last, xfer)
        /\ \A i \in 1 .. Len(up) : AtMost(up[i], last)
        /\ \A i, j \in 1 .. Len(up) : i < j => AtMost(up[i], up[j])
    BY <1>1 DEF Released
  <2>2. AtMost(rcnt', last) /\ 1 \in 1 .. Len(up)
    BY <1>4, <2>1
  <2>3. ASSUME NEW i \in 1 .. Len(up') PROVE AtMost(rcnt', up'[i]) /\ AtMost(up'[i], last)
    <3>1. i + 1 \in 1 .. Len(up) /\ 1 < i + 1 /\ up'[i] = up[i + 1]
      BY <1>4
    <3>. QED
      BY <1>4, <2>1, <2>2, <3>1
  <2>4. ASSUME NEW i \in 1 .. Len(up'), NEW j \in 1 .. Len(up'), i < j
        PROVE  AtMost(up'[i], up'[j])
    <3>1. /\ i + 1 \in 1 .. Len(up) /\ j + 1 \in 1 .. Len(up) /\ i + 1 < j + 1
          /\ up'[i] = up[i + 1] /\ up'[j] = up[j + 1]
      BY <1>4, <2>4
    <3>. QED
      BY <2>1, <3>1
  <2>. QED
    BY <1>3, <2>1, <2>2, <2>3, <2>4 DEF Released, AtMost
<1>. QED
  BY <1>5, <1>6, <1>7, <1>8 DEF CountsInv

-----------------------------------------------------------------------------
(* The counts: the host *)

\* A response has the counts of what is released: the latest of all responses.
LEMMA FcResponse ==
    ASSUME TypeOK, Released, AtMost(xfer, xfer'), xfer' \in Counts, rcnt' = rcnt,
           SendFcResponse(xfer')
    PROVE  up' \in Seq(Counts) /\ last' \in Counts /\ nloss' \in Nat /\ Released'
<1>1. /\ up \in Seq(Counts) /\ Len(up) \in Nat /\ last \in Counts /\ nloss \in Nat
      /\ rcnt \in Counts /\ xfer \in Counts
      /\ \A i \in 1 .. Len(up) : up[i] \in Counts
  BY DEF TypeOK
<1>2. /\ AtMost(rcnt, last) /\ AtMost(last, xfer)
      /\ \A i \in 1 .. Len(up) : AtMost(rcnt, up[i]) /\ AtMost(up[i], last)
      /\ \A i, j \in 1 .. Len(up) : i < j => AtMost(up[i], up[j])
  BY DEF Released
<1>3. \A a, b, c \in Counts : AtMost(a, b) /\ AtMost(b, c) => AtMost(a, c)
  BY DEF AtMost, Counts
<1>4. \A a \in Counts : AtMost(a, a)
  BY DEF AtMost, Counts
<1>5. AtMost(last, xfer')
  BY <1>1, <1>2, <1>3
<1>6. CASE up' = up /\ last' = last /\ nloss' \in Nat
  BY <1>1, <1>2, <1>5, <1>6 DEF Released, AtMost
<1>7. CASE up' = Append(up, xfer') /\ last' = xfer' /\ nloss' = nloss
  <2>1. /\ up' \in Seq(Counts) /\ Len(up') = Len(up) + 1 /\ up'[Len(up) + 1] = xfer'
        /\ \A i \in 1 .. Len(up) : up'[i] = up[i]
    BY <1>1, <1>7
  <2>2. AtMost(rcnt, xfer') /\ AtMost(xfer', xfer')
    BY <1>1, <1>2, <1>3, <1>4, <1>5
  <2>3. ASSUME NEW i \in 1 .. Len(up')
        PROVE  AtMost(rcnt, up'[i]) /\ AtMost(up'[i], xfer')
    <3>1. CASE i \in 1 .. Len(up)
      BY <1>1, <1>2, <1>3, <1>5, <2>1, <3>1
    <3>2. CASE i = Len(up) + 1
      BY <2>1, <2>2, <3>2
    <3>. QED
      BY <1>1, <2>1, <3>1, <3>2
  <2>4. ASSUME NEW i \in 1 .. Len(up'), NEW j \in 1 .. Len(up'), i < j
        PROVE  AtMost(up'[i], up'[j])
    <3>1. CASE j \in 1 .. Len(up)
      <4>1. i \in 1 .. Len(up)
        BY <1>1, <2>4, <3>1
      <4>. QED
        BY <1>2, <2>1, <2>4, <3>1, <4>1
    <3>2. CASE j = Len(up) + 1
      BY <2>1, <2>3, <3>2
    <3>. QED
      BY <1>1, <2>1, <3>1, <3>2
  <2>5. Released'
    BY <1>7, <2>2, <2>3, <2>4 DEF Released, AtMost
  <2>. QED
    BY <1>1, <1>7, <2>1, <2>5
<1>. QED
  BY <1>1, <1>6, <1>7 DEF SendFcResponse

LEMMA RecvDataCounts ==
    ASSUME CountsInv, RecvData
    PROVE  CountsInv'
<1>1. TypeOK /\ PartialPacket /\ StrcStarted /\ StrcOnLink /\ Received /\ Held /\ Released
  BY DEF CountsInv
<1>. DEFINE n == Head(down).size
<1>2. /\ down # <<>> /\ down' = Tail(down) /\ recv' = Plus(recv, Pkt(n))
      /\ held' = Append(held, n)
  BY DEF RecvData
<1>3. /\ send' = send /\ accum' = accum /\ part' = part /\ size' = size
      /\ strc_cnt' = strc_cnt /\ ok' = ok /\ req' = req /\ state' = state
      /\ rcnt' = rcnt /\ up' = up /\ xfer' = xfer /\ last' = last
      /\ insync' = insync /\ npkts' = npkts /\ nloss' = nloss
  BY DEF RecvData, dev
<1>4. SentWhole' = SentWhole
  BY <1>3 DEF SentWhole
<1>5. /\ StrcOnLink'
      /\ OnLink.bytes = RoundPktSize(n) + OnLink'.bytes /\ OnLink.pkts = 1 + OnLink'.pkts
      /\ OnLink'.bytes \in Nat /\ OnLink'.pkts \in Nat
      /\ n \in Nat /\ RoundPktSize(n) \in Nat
  BY <1>1, <1>2, <1>4, LinkLeaves
<1>6. recv'.bytes = recv.bytes + RoundPktSize(n) /\ recv'.pkts = recv.pkts + 1
  BY <1>2 DEF Plus, Pkt
<1>7. /\ recv.bytes \in Nat /\ recv.pkts \in Nat /\ xfer.bytes \in Nat /\ xfer.pkts \in Nat
      /\ down \in Seq(Packets) /\ SentWhole.bytes \in Int /\ SentWhole.pkts \in Nat
  BY <1>1, Types
<1>8. held \in Seq(Nat) /\ held' \in Seq(Nat) /\ down' \in Seq(Packets)
  <2>1. held \in Seq(Nat)
    BY <1>1 DEF TypeOK
  <2>. HIDE DEF n
  <2>. QED
    BY <1>2, <1>5, <1>7, <2>1
<1>9. TypeOK'
  <2>1. recv.bytes + RoundPktSize(n) \in Nat /\ recv.pkts + 1 \in Nat
    <3>. DEFINE b == recv.bytes
                p == recv.pkts
                r == RoundPktSize(n)
    <3>1. b \in Nat /\ p \in Nat /\ r \in Nat
      BY <1>5, <1>7
    <3>. HIDE DEF b, p, r
    <3>2. b + r \in Nat /\ p + 1 \in Nat
      BY <3>1
    <3>. QED
      BY <3>2 DEF b, p, r
  <2>2. recv' = [bytes |-> recv.bytes + RoundPktSize(n), pkts |-> recv.pkts + 1]
    BY <1>2 DEF Plus, Pkt
  <2>3. recv' \in Counts
    BY <2>1, <2>2 DEF Counts
  <2>. QED
    BY <1>1, <1>3, <1>8, <2>3 DEF TypeOK, Packets
<1>10. PartialPacket' /\ StrcStarted' /\ Released'
  BY <1>1, <1>3, <1>4 DEF PartialPacket, StrcStarted, Released, AtMost
<1>. DEFINE x == RoundPktSize(n)
<1>11. Received'
  <2>1. /\ recv.bytes + OnLink.bytes <= SentWhole.bytes
        /\ recv.pkts + OnLink.pkts <= SentWhole.pkts
        /\ insync => /\ recv.bytes + OnLink.bytes = SentWhole.bytes
                     /\ recv.pkts + OnLink.pkts = SentWhole.pkts
    BY <1>1 DEF Received, AtMost, Same, Plus
  <2>. HIDE DEF x
  <2>2. /\ recv'.bytes = recv.bytes + x /\ OnLink.bytes = x + OnLink'.bytes /\ x \in Nat
        /\ recv'.pkts = recv.pkts + 1 /\ OnLink.pkts = 1 + OnLink'.pkts
    BY <1>5, <1>6 DEF x
  <2>3. recv'.bytes + OnLink'.bytes = recv.bytes + OnLink.bytes
    BY <1>5, <1>7, <2>2
  <2>4. recv'.pkts + OnLink'.pkts = recv.pkts + OnLink.pkts
    <3>. DEFINE a == recv'.pkts
               b == OnLink'.pkts
               d == recv.pkts
               e == OnLink.pkts
    <3>1. a = d + 1 /\ e = 1 + b /\ b \in Nat /\ d \in Nat
      BY <1>5, <1>7, <2>2
    <3>. HIDE DEF a, b, d, e
    <3>2. a + b = d + e
      BY <3>1
    <3>. QED
      BY <3>2 DEF a, b, d, e
  <2>. QED
    BY <1>3, <1>4, <2>1, <2>3, <2>4 DEF Received, AtMost, Same, Plus
<1>12. Held'
  <2>1. /\ Occupies(held').bytes = Occupies(held).bytes + x
        /\ Occupies(held').pkts = Occupies(held).pkts + 1
    BY <1>2, <1>5, <1>8, OccupiesAppend
  <2>2. Occupies(held).bytes \in Nat /\ Occupies(held).pkts \in Nat
    BY <1>8, OccupiesType DEF Counts
  <2>3. /\ xfer.bytes + Occupies(held).bytes = recv.bytes
        /\ xfer.pkts + Occupies(held).pkts = recv.pkts
    BY <1>1 DEF Held, Same, Plus
  <2>. HIDE DEF x
  <2>4. recv'.bytes = recv.bytes + x /\ recv'.pkts = recv.pkts + 1 /\ x \in Nat
    BY <1>5, <1>6 DEF x
  <2>5. xfer.bytes + Occupies(held').bytes = recv'.bytes
    BY <1>7, <2>1, <2>2, <2>3, <2>4
  <2>6. xfer.pkts + Occupies(held').pkts = recv'.pkts
    <3>. DEFINE a == xfer.pkts
               b == Occupies(held').pkts
               d == recv'.pkts
               e == Occupies(held).pkts
               f == recv.pkts
    <3>1. /\ d = f + 1 /\ b = e + 1 /\ a + e = f
          /\ a \in Nat /\ e \in Nat /\ f \in Nat
      BY <1>7, <2>1, <2>2, <2>3, <2>4
    <3>. HIDE DEF a, b, d, e, f
    <3>2. a + b = d
      BY <3>1
    <3>. QED
      BY <3>2 DEF a, b, d
  <2>. QED
    BY <1>3, <2>5, <2>6 DEF Held, Same, Plus
<1>. QED
  BY <1>5, <1>9, <1>10, <1>11, <1>12 DEF CountsInv

LEMMA ReleaseCounts ==
    ASSUME CountsInv, ReleaseRecvBuff
    PROVE  CountsInv' /\ AtMost(xfer, xfer')
<1>1. TypeOK /\ PartialPacket /\ StrcStarted /\ StrcOnLink /\ Received /\ Held /\ Released
  BY DEF CountsInv
<1>. DEFINE n == Head(held)
           x == RoundPktSize(n)
<1>2. /\ held # <<>> /\ held' = Tail(held) /\ xfer' = Plus(xfer, Pkt(n))
      /\ SendFcResponse(xfer')
  BY DEF ReleaseRecvBuff, XferDone
<1>3. /\ send' = send /\ accum' = accum /\ part' = part /\ size' = size
      /\ strc_cnt' = strc_cnt /\ ok' = ok /\ req' = req /\ state' = state
      /\ rcnt' = rcnt /\ down' = down /\ recv' = recv
      /\ insync' = insync /\ npkts' = npkts
  BY DEF ReleaseRecvBuff, dev
<1>4. /\ held \in Seq(Nat) /\ n \in Nat /\ held' \in Seq(Nat) /\ x \in Nat
  <2>1. held \in Seq(Nat)
    BY <1>1 DEF TypeOK
  <2>2. n \in Nat /\ held' \in Seq(Nat)
    BY <1>2, <2>1
  <2>. QED
    BY <2>1, <2>2, WordsType
<1>5. xfer'.bytes = xfer.bytes + x /\ xfer'.pkts = xfer.pkts + 1
  BY <1>2 DEF Plus, Pkt
<1>6. /\ recv.bytes \in Nat /\ recv.pkts \in Nat /\ xfer.bytes \in Nat /\ xfer.pkts \in Nat
  BY <1>1, Types
<1>7. xfer' \in Counts
  <2>1. xfer.bytes + x \in Nat /\ xfer.pkts + 1 \in Nat
    BY <1>4, <1>6
  <2>2. xfer' = [bytes |-> xfer.bytes + x, pkts |-> xfer.pkts + 1]
    BY <1>2 DEF Plus, Pkt
  <2>. QED
    BY <2>1, <2>2 DEF Counts
<1>8. Occupies(held).bytes = x + Occupies(held').bytes /\ Occupies(held).pkts = 1 + Occupies(held').pkts
  BY <1>2, <1>4, OccupiesTail
<1>9. Occupies(held').bytes \in Nat /\ Occupies(held').pkts \in Nat
  BY <1>4, OccupiesType DEF Counts
<1>. HIDE DEF x
<1>10. AtMost(xfer, xfer')
  BY <1>4, <1>5, <1>6 DEF AtMost
<1>11. up' \in Seq(Counts) /\ last' \in Counts /\ nloss' \in Nat /\ Released'
  BY <1>1, <1>2, <1>3, <1>7, <1>10, FcResponse
<1>12. TypeOK'
  BY <1>1, <1>3, <1>4, <1>7, <1>11 DEF TypeOK
<1>13. PartialPacket' /\ StrcStarted'
  BY <1>1, <1>3 DEF PartialPacket, StrcStarted, SentWhole
<1>14. StrcOnLink' /\ Received'
  <2>1. SentWhole' = SentWhole
    BY <1>3 DEF SentWhole
  <2>. QED
    BY <1>1, <1>3, <2>1, LinkSame
<1>15. Held'
  <2>1. /\ xfer.bytes + Occupies(held).bytes = recv.bytes
        /\ xfer.pkts + Occupies(held).pkts = recv.pkts
    BY <1>1 DEF Held, Same, Plus
  <2>2. xfer'.bytes + Occupies(held').bytes = recv.bytes
    BY <1>4, <1>5, <1>6, <1>8, <1>9, <2>1
  <2>3. xfer'.pkts + Occupies(held').pkts = recv.pkts
    <3>. DEFINE a == xfer'.pkts
               b == Occupies(held').pkts
               d == recv.pkts
               e == Occupies(held).pkts
               f == xfer.pkts
    <3>1. /\ a = f + 1 /\ e = 1 + b /\ f + e = d
          /\ b \in Nat /\ f \in Nat /\ d \in Nat
      BY <1>5, <1>6, <1>8, <1>9, <2>1
    <3>. HIDE DEF a, b, d, e, f
    <3>2. a + b = d
      BY <3>1
    <3>. QED
      BY <3>2 DEF a, b, d
  <2>. QED
    BY <1>3, <2>2, <2>3 DEF Held, Same, Plus
<1>. QED
  BY <1>10, <1>11, <1>12, <1>13, <1>14, <1>15 DEF CountsInv

\* A stream command has counts that are at least those of the host.
LEMMA RecvStrcCounts ==
    ASSUME CountsInv, RecvStrc
    PROVE  CountsInv' /\ AtMost(xfer, xfer')
<1>1. TypeOK /\ PartialPacket /\ StrcStarted /\ StrcOnLink /\ Received /\ Held /\ Released
  BY DEF CountsInv
<1>. DEFINE c == Head(down).cnt
           n == Head(down).size
           x == RoundPktSize(n)
<1>2. /\ down # <<>> /\ Head(down).type = "strc" /\ down' = Tail(down)
      /\ recv' = Plus(c, Pkt(n))
      /\ xfer' = Plus(Plus(xfer, Minus(c, recv)), Pkt(n))
      /\ SendFcResponse(xfer') /\ insync' = TRUE
  BY DEF RecvStrc, Resynchronize, XferDone
<1>3. /\ send' = send /\ accum' = accum /\ part' = part /\ size' = size
      /\ strc_cnt' = strc_cnt /\ ok' = ok /\ req' = req /\ state' = state
      /\ rcnt' = rcnt /\ held' = held /\ npkts' = npkts
  BY DEF RecvStrc, dev
<1>4. SentWhole' = SentWhole
  BY <1>3 DEF SentWhole
<1>5. /\ StrcOnLink'
      /\ OnLink.bytes = x + OnLink'.bytes /\ OnLink.pkts = 1 + OnLink'.pkts
      /\ OnLink'.bytes \in Nat /\ OnLink'.pkts \in Nat
      /\ n \in Nat /\ x \in Nat
  BY <1>1, <1>2, <1>4, LinkLeaves
<1>6. /\ recv.bytes \in Nat /\ recv.pkts \in Nat /\ xfer.bytes \in Nat /\ xfer.pkts \in Nat
      /\ down \in Seq(Packets) /\ Len(down) \in Nat /\ SentWhole.bytes \in Int
      /\ SentWhole.pkts \in Nat /\ OnLink.bytes \in Nat /\ OnLink.pkts \in Nat
  BY <1>1, Types
<1>7. /\ 1 \in 1 .. Len(down) /\ Head(down) = down[1] /\ down[1] \in Packets
      /\ down' \in Seq(Packets)
  BY <1>2, <1>6
<1>8. c.bytes \in Nat /\ c.pkts \in Nat
  BY <1>7 DEF Packets, Counts
<1>9. c.bytes + OnLink.bytes = SentWhole.bytes /\ c.pkts + OnLink.pkts = SentWhole.pkts
  <2>1. Same(Plus(down[1].cnt, From(down, 1)), SentWhole)
    BY <1>1, <1>2, <1>7 DEF StrcOnLink
  <2>2. From(down, 1) = OnLink
    BY <1>2, <1>6, LinkTail DEF OnLink
  <2>. QED
    BY <1>7, <2>1, <2>2 DEF Same, Plus
<1>10. recv.bytes <= c.bytes /\ recv.pkts <= c.pkts
  <2>1. recv.bytes + OnLink.bytes <= SentWhole.bytes /\ recv.pkts + OnLink.pkts <= SentWhole.pkts
    BY <1>1 DEF Received, AtMost, Plus
  <2>2. ASSUME NEW r \in Nat, NEW k \in Nat, NEW l \in Nat, NEW m \in Int,
               r + l <= m, k + l = m
        PROVE  r <= k
    BY <2>2
  <2>3. SentWhole.pkts \in Int
    BY <1>6
  <2>. HIDE DEF c
  <2>4. recv.bytes <= c.bytes
    BY <1>6, <1>8, <1>9, <2>1, <2>2
  <2>5. recv.pkts <= c.pkts
    BY <1>6, <1>8, <1>9, <2>1, <2>2, <2>3
  <2>. QED
    BY <2>4, <2>5
<1>11. /\ recv'.bytes = c.bytes + x /\ recv'.pkts = c.pkts + 1
       /\ xfer'.bytes = xfer.bytes + (c.bytes - recv.bytes) + x
       /\ xfer'.pkts = xfer.pkts + (c.pkts - recv.pkts) + 1
  BY <1>2 DEF Plus, Minus, Pkt
<1>12. recv' \in Counts /\ xfer' \in Counts
  <2>1. recv' = [bytes |-> c.bytes + x, pkts |-> c.pkts + 1]
    BY <1>2 DEF Plus, Pkt
  <2>2. xfer' = [bytes |-> xfer.bytes + (c.bytes - recv.bytes) + x,
                 pkts |-> xfer.pkts + (c.pkts - recv.pkts) + 1]
    BY <1>2 DEF Plus, Minus, Pkt
  <2>. HIDE DEF c, x
  <2>3. c.bytes + x \in Nat /\ c.pkts + 1 \in Nat
    BY <1>5, <1>8
  <2>4. xfer.bytes + (c.bytes - recv.bytes) + x \in Nat
    BY <1>5, <1>6, <1>8, <1>10, ResyncSum
  <2>5. xfer.pkts + (c.pkts - recv.pkts) + 1 \in Nat
    BY <1>6, <1>8, <1>10
  <2>. QED
    BY <2>1, <2>2, <2>3, <2>4, <2>5 DEF Counts
<1>. HIDE DEF c, x
<1>13. AtMost(xfer, xfer')
  <2>1. xfer.bytes <= xfer.bytes + (c.bytes - recv.bytes) + x
    BY <1>5, <1>6, <1>8, <1>10, ResyncSum
  <2>2. xfer.pkts <= xfer.pkts + (c.pkts - recv.pkts) + 1
    BY <1>6, <1>8, <1>10
  <2>. QED
    BY <1>11, <2>1, <2>2 DEF AtMost
<1>14. up' \in Seq(Counts) /\ last' \in Counts /\ nloss' \in Nat /\ Released'
  BY <1>1, <1>2, <1>3, <1>12, <1>13, FcResponse
<1>15. TypeOK'
  BY <1>1, <1>2, <1>3, <1>7, <1>12, <1>14 DEF TypeOK, Packets
<1>16. PartialPacket' /\ StrcStarted'
  BY <1>1, <1>3, <1>4 DEF PartialPacket, StrcStarted
<1>17. Received'
  <2>1. recv'.bytes + OnLink'.bytes = SentWhole.bytes
    BY <1>5, <1>8, <1>9, <1>11, Assoc
  <2>2. recv'.pkts + OnLink'.pkts = SentWhole.pkts
    <3>. DEFINE a == recv'.pkts
               b == OnLink'.pkts
               d == c.pkts
               e == OnLink.pkts
               f == SentWhole.pkts
    <3>1. /\ a = d + 1 /\ e = 1 + b /\ d + e = f
          /\ b \in Nat /\ d \in Nat /\ f \in Nat
      BY <1>5, <1>6, <1>8, <1>9, <1>11
    <3>. HIDE DEF a, b, d, e, f
    <3>2. a + b = f
      BY <3>1
    <3>. QED
      BY <3>2 DEF a, b, f
  <2>. QED
    BY <1>4, <1>6, <2>1, <2>2 DEF Received, AtMost, Same, Plus
<1>18. Held'
  <2>1. /\ xfer.bytes + Occupies(held).bytes = recv.bytes
        /\ xfer.pkts + Occupies(held).pkts = recv.pkts
    BY <1>1 DEF Held, Same, Plus
  <2>2. Occupies(held).bytes \in Nat /\ Occupies(held).pkts \in Nat
    BY <1>1, OccupiesType DEF TypeOK, Counts
  <2>3. xfer'.bytes + Occupies(held).bytes = recv'.bytes
    <3>. DEFINE a == xfer'.bytes
               b == Occupies(held).bytes
               d == recv'.bytes
               e == c.bytes
               f == xfer.bytes
               g == recv.bytes
    <3>1. /\ a = f + (e - g) + x /\ d = e + x /\ f + b = g
          /\ b \in Nat /\ e \in Nat /\ f \in Nat /\ g \in Nat /\ x \in Nat
      BY <1>5, <1>6, <1>8, <1>11, <2>1, <2>2
    <3>. HIDE DEF a, b, d, e, f, g
    <3>2. a + b = d
      BY <3>1
    <3>. QED
      BY <3>2 DEF a, b, d
  <2>4. xfer'.pkts + Occupies(held).pkts = recv'.pkts
    <3>. DEFINE a == xfer'.pkts
               b == Occupies(held).pkts
               d == recv'.pkts
               e == c.pkts
               f == xfer.pkts
               g == recv.pkts
    <3>1. /\ a = f + (e - g) + 1 /\ d = e + 1 /\ f + b = g
          /\ b \in Nat /\ e \in Nat /\ f \in Nat /\ g \in Nat
      BY <1>5, <1>6, <1>8, <1>10, <1>11, <2>1, <2>2
    <3>. HIDE DEF a, b, d, e, f, g
    <3>2. a + b = d
      BY <3>1
    <3>. QED
      BY <3>2 DEF a, b, d
  <2>. QED
    BY <1>3, <2>3, <2>4 DEF Held, Same, Plus
<1>. QED
  BY <1>5, <1>13, <1>14, <1>15, <1>16, <1>17, <1>18 DEF CountsInv

-----------------------------------------------------------------------------
(* The counts: losses, and every step *)

LEMMA LoseDownCounts ==
    ASSUME CountsInv, LoseDown
    PROVE  CountsInv'
<1>1. TypeOK /\ PartialPacket /\ StrcStarted /\ StrcOnLink /\ Received /\ Held /\ Released
  BY DEF CountsInv
<1>2. down # <<>> /\ down' = Tail(down) /\ insync' = FALSE /\ nloss' = nloss + 1
  BY DEF LoseDown
<1>3. /\ send' = send /\ accum' = accum /\ part' = part /\ size' = size
      /\ strc_cnt' = strc_cnt /\ ok' = ok /\ req' = req /\ state' = state
      /\ rcnt' = rcnt /\ up' = up /\ npkts' = npkts
      /\ recv' = recv /\ xfer' = xfer /\ last' = last /\ held' = held
  BY DEF LoseDown, dev, host
<1>. DEFINE x == RoundPktSize(Head(down).size)
<1>4. SentWhole' = SentWhole
  BY <1>3 DEF SentWhole
<1>5. /\ StrcOnLink'
      /\ OnLink.bytes = x + OnLink'.bytes /\ OnLink.pkts = 1 + OnLink'.pkts
      /\ OnLink'.bytes \in Nat /\ OnLink'.pkts \in Nat /\ x \in Nat
  BY <1>1, <1>2, <1>4, LinkLeaves
<1>6. TypeOK'
  <2>1. down \in Seq(Packets)
    BY <1>1, Types
  <2>2. down' \in Seq(Packets)
    BY <1>2, <2>1
  <2>3. nloss' \in Nat /\ insync' \in BOOLEAN
    <3>1. nloss \in Nat
      BY <1>1 DEF TypeOK
    <3>2. nloss' \in Nat
      BY <1>2, <3>1
    <3>. QED
      BY <1>2, <3>2
  <2>. QED
    BY <1>1, <1>3, <2>2, <2>3 DEF TypeOK, Packets
<1>7. PartialPacket' /\ StrcStarted' /\ Held' /\ Released'
  BY <1>1, <1>3, <1>4 DEF PartialPacket, StrcStarted, Held, Released, AtMost, Same
<1>8. Received'
  <2>1. recv.bytes + OnLink.bytes <= SentWhole.bytes /\ recv.pkts + OnLink.pkts <= SentWhole.pkts
    BY <1>1 DEF Received, AtMost, Plus
  <2>2. /\ recv.bytes \in Nat /\ recv.pkts \in Nat
        /\ SentWhole.bytes \in Int /\ SentWhole.pkts \in Nat
    BY <1>1, Types
  <2>. HIDE DEF x
  <2>3. recv.bytes + OnLink'.bytes <= SentWhole.bytes
    BY <1>5, <2>1, <2>2
  <2>4. recv.pkts + OnLink'.pkts <= SentWhole.pkts
    <3>. DEFINE a == recv.pkts
               b == OnLink'.pkts
               d == OnLink.pkts
               e == SentWhole.pkts
    <3>1. d = 1 + b /\ a + d <= e /\ a \in Nat /\ b \in Nat /\ e \in Nat
      BY <1>5, <2>1, <2>2
    <3>. HIDE DEF a, b, d, e
    <3>2. a + b <= e
      BY <3>1
    <3>. QED
      BY <3>2 DEF a, b, e
  <2>. QED
    BY <1>2, <1>3, <1>4, <2>3, <2>4 DEF Received, AtMost, Plus
<1>. QED
  BY <1>5, <1>6, <1>7, <1>8 DEF CountsInv

LEMMA LoseUpCounts ==
    ASSUME CountsInv, LoseUp
    PROVE  CountsInv'
<1>1. TypeOK /\ PartialPacket /\ StrcStarted /\ StrcOnLink /\ Received /\ Held /\ Released
  BY DEF CountsInv
<1>2. up # <<>> /\ up' = Tail(up) /\ nloss' = nloss + 1
  BY DEF LoseUp
<1>3. /\ send' = send /\ accum' = accum /\ part' = part /\ size' = size
      /\ strc_cnt' = strc_cnt /\ ok' = ok /\ req' = req /\ state' = state
      /\ rcnt' = rcnt /\ down' = down /\ insync' = insync /\ npkts' = npkts
      /\ recv' = recv /\ xfer' = xfer /\ last' = last /\ held' = held
  BY DEF LoseUp, dev, host
<1>4. /\ up \in Seq(Counts) /\ up' \in Seq(Counts) /\ Len(up) \in Nat \ {0}
      /\ Len(up') = Len(up) - 1 /\ \A i \in 1 .. Len(up) - 1 : up'[i] = up[i + 1]
  <2>1. up \in Seq(Counts)
    BY <1>1 DEF TypeOK
  <2>. QED
    BY <1>2, <2>1
<1>5. TypeOK'
  BY <1>1, <1>2, <1>3, <1>4 DEF TypeOK
<1>6. PartialPacket' /\ StrcStarted' /\ Held'
  BY <1>1, <1>3 DEF PartialPacket, StrcStarted, SentWhole, Held
<1>7. StrcOnLink' /\ Received'
  <2>1. SentWhole' = SentWhole
    BY <1>3 DEF SentWhole
  <2>. QED
    BY <1>1, <1>3, <2>1, LinkSame
<1>8. Released'
  <2>1. /\ AtMost(rcnt, last) /\ AtMost(last, xfer)
        /\ \A i \in 1 .. Len(up) : AtMost(rcnt, up[i]) /\ AtMost(up[i], last)
        /\ \A i, j \in 1 .. Len(up) : i < j => AtMost(up[i], up[j])
    BY <1>1 DEF Released
  <2>2. ASSUME NEW i \in 1 .. Len(up') PROVE AtMost(rcnt, up'[i]) /\ AtMost(up'[i], last)
    <3>1. i + 1 \in 1 .. Len(up) /\ up'[i] = up[i + 1]
      BY <1>4
    <3>. QED
      BY <2>1, <3>1
  <2>3. ASSUME NEW i \in 1 .. Len(up'), NEW j \in 1 .. Len(up'), i < j
        PROVE  AtMost(up'[i], up'[j])
    <3>1. /\ i + 1 \in 1 .. Len(up) /\ j + 1 \in 1 .. Len(up) /\ i + 1 < j + 1
          /\ up'[i] = up[i + 1] /\ up'[j] = up[j + 1]
      BY <1>4, <2>3
    <3>. QED
      BY <2>1, <3>1
  <2>. QED
    BY <1>3, <2>1, <2>2, <2>3 DEF Released, AtMost
<1>. QED
  BY <1>5, <1>6, <1>7, <1>8 DEF CountsInv

LEMMA CountsInit == Init => CountsInv
<1>. SUFFICES ASSUME Init PROVE CountsInv
  OBVIOUS
<1>1. /\ send = Zero /\ rcnt = Zero /\ accum = Zero /\ strc_cnt = 0
      /\ ok = [i \in 1 .. OkLatency |-> TRUE] /\ req = [i \in 1 .. OkLatency |-> FALSE]
      /\ state = "pass" /\ part = 0 /\ size = 0 /\ down = <<>> /\ up = <<>>
      /\ recv = Zero /\ xfer = Zero /\ last = Zero /\ held = <<>>
      /\ insync = TRUE /\ npkts = 0 /\ nloss = 0
  BY DEF Init
<1>2. TypeOK
  <2>1. Zero \in Counts
    BY DEF Zero, Counts
  <2>. QED
    BY <1>1, <2>1 DEF TypeOK
<1>3. PartialPacket /\ StrcStarted
  BY <1>1, WordSize DEF PartialPacket, StrcStarted
<1>4. Sizes(down) = <<>> /\ Len(down) = 0
  <2>1. down \in Seq(Packets) /\ Len(down) = 0
    BY <1>1
  <2>2. Sizes(down) \in Seq(Nat) /\ Len(Sizes(down)) = 0
    BY <2>1, SizesSeq
  <2>. QED
    BY <2>1, <2>2
<1>5. StrcOnLink
  BY <1>4 DEF StrcOnLink
<1>6. Received
  <2>1. OnLink = Zero
    BY <1>4, OccupiesEmpty DEF OnLink
  <2>2. SentWhole.bytes = 0 /\ SentWhole.pkts = 0
    <3>1. 0 * W = 0
      BY WordSize
    <3>. QED
      BY <1>1, <3>1 DEF SentWhole, Minus, Zero
  <2>. QED
    BY <1>1, <2>1, <2>2 DEF Received, AtMost, Same, Plus, Zero
<1>7. Held
  BY <1>1, OccupiesEmpty DEF Held, Same, Plus, Zero
<1>8. Released
  BY <1>1 DEF Released, AtMost, Zero
<1>. QED
  BY <1>2, <1>3, <1>5, <1>6, <1>7, <1>8 DEF CountsInv

LEMMA CountsNext == CountsInv /\ [Next]_vars => CountsInv'
<1>. SUFFICES ASSUME CountsInv, [Next]_vars PROVE CountsInv'
  OBVIOUS
<1>1. CASE DataWord
  BY <1>1, DataWordCounts
<1>2. CASE StrcWord
  BY <1>2, StrcWordCounts
<1>3. CASE IdleCycle
  BY <1>3, IdleCycleCounts
<1>4. CASE LatchStrs
  BY <1>4, LatchStrsCounts
<1>5. CASE RecvData
  BY <1>5, RecvDataCounts
<1>6. CASE RecvStrc
  BY <1>6, RecvStrcCounts
<1>7. CASE ReleaseRecvBuff
  BY <1>7, ReleaseCounts
<1>8. CASE LoseDown
  BY <1>8, LoseDownCounts
<1>9. CASE LoseUp
  BY <1>9, LoseUpCounts
<1>10. CASE UNCHANGED vars
  <2>1. /\ send' = send /\ accum' = accum /\ part' = part /\ size' = size
        /\ strc_cnt' = strc_cnt /\ ok' = ok /\ req' = req /\ state' = state
        /\ rcnt' = rcnt /\ down' = down /\ up' = up /\ recv' = recv /\ xfer' = xfer
        /\ last' = last /\ held' = held /\ insync' = insync /\ npkts' = npkts /\ nloss' = nloss
    BY <1>10 DEF vars, dev, host
  <2>2. TypeOK /\ PartialPacket /\ StrcStarted /\ StrcOnLink /\ Received /\ Held /\ Released
    BY DEF CountsInv
  <2>3. SentWhole' = SentWhole
    BY <2>1 DEF SentWhole
  <2>4. TypeOK'
    BY <2>1, <2>2 DEF TypeOK
  <2>5. PartialPacket' /\ StrcStarted' /\ Held' /\ Released'
    BY <2>1, <2>2, <2>3 DEF PartialPacket, StrcStarted, Held, Released, AtMost, Same
  <2>6. StrcOnLink' /\ Received'
    BY <2>1, <2>2, <2>3, LinkSame
  <2>. QED
    BY <2>4, <2>5, <2>6 DEF CountsInv
<1>. QED
  BY <1>1, <1>2, <1>3, <1>4, <1>5, <1>6, <1>7, <1>8, <1>9, <1>10
     DEF Next, Fpga, Host, Link

LEMMA CountsInvariant == Spec => []CountsInv
BY CountsInit, CountsNext, PTL DEF Spec

-----------------------------------------------------------------------------
(* What the counts say *)

\* The state is what the code's types allow; that the host's counts never fall
\* below zero needs that a resync never takes them back.
THEOREM TypeCorrect == Spec => []TypeOK
<1>1. CountsInv => TypeOK
  BY DEF CountsInv
<1>. QED
  BY <1>1, CountsInvariant, PTL

\* A resync neither loses credits nor returns any twice (resynchronize).
THEOREM HeldExactly == Spec => []HeldAccounting
<1>1. ASSUME CountsInv PROVE HeldAccounting
  <2>1. TypeOK /\ Held
    BY <1>1 DEF CountsInv
  <2>2. /\ recv.bytes \in Nat /\ recv.pkts \in Nat /\ xfer.bytes \in Nat /\ xfer.pkts \in Nat
        /\ held \in Seq(Nat)
    BY <2>1, Types DEF TypeOK
  <2>. DEFINE o == Occupies(held)
  <2>3. o \in Counts
    BY <2>2, OccupiesType
  <2>4. xfer.bytes + o.bytes = recv.bytes /\ xfer.pkts + o.pkts = recv.pkts
    BY <2>1 DEF Held, Same, Plus
  <2>. HIDE DEF o
  <2>5. o.bytes \in Nat /\ o.pkts \in Nat /\ o = [bytes |-> o.bytes, pkts |-> o.pkts]
    BY <2>3 DEF Counts
  <2>6. recv.bytes - xfer.bytes = o.bytes /\ recv.pkts - xfer.pkts = o.pkts
    BY <2>2, <2>4, <2>5
  <2>7. Minus(recv, xfer) = o
    BY <2>5, <2>6 DEF Minus
  <2>. QED
    BY <2>7 DEF HeldAccounting, o
<1>. QED
  BY <1>1, CountsInvariant, PTL

\* Once a stream command has arrived, the host's counts are exact, whatever was
\* lost before it.
THEOREM ResyncsExactly == Spec => []ResyncExact
<1>1. ASSUME CountsInv PROVE ResyncExact
  <2>1. SUFFICES ASSUME insync PROVE SentWhole = Plus(recv, OnLink)
    BY DEF ResyncExact, SentWhole, OnLink
  <2>2. Same(Plus(recv, OnLink), SentWhole)
    BY <1>1, <2>1 DEF CountsInv, Received
  <2>. QED
    BY <2>2 DEF Same, Plus, SentWhole, Minus
<1>. QED
  BY <1>1, CountsInvariant, PTL

-----------------------------------------------------------------------------
(* Room: the words that pass while the comparison is under way *)

LEMMA Capacities ==
    /\ Capacity.bytes \in Nat /\ Capacity.pkts \in Nat
    /\ Headroom.bytes \in Nat /\ Headroom.pkts \in Nat
    /\ OkLatency \in Nat /\ OkLatency >= 1
    /\ AdjCap.bytes \in Nat /\ AdjCap.pkts \in Nat
    /\ AdjCap.bytes = Capacity.bytes - (Headroom.bytes \div W) * W
    /\ AdjCap.pkts = Capacity.pkts - Headroom.pkts
    /\ Headroom.bytes \div W \in Nat /\ (Headroom.bytes \div W) * W \in Nat
<1>1. Capacity \in Counts /\ Headroom \in Counts
  BY RxAssumption
<1>2. /\ Capacity.bytes \in Nat /\ Capacity.pkts \in Nat
      /\ Headroom.bytes \in Nat /\ Headroom.pkts \in Nat
  BY <1>1 DEF Counts
<1>3. /\ Headroom.bytes <= Capacity.bytes /\ Headroom.pkts <= Capacity.pkts
      /\ OkLatency \in Nat /\ OkLatency >= 1
  BY RxAssumption
<1>. DEFINE h == Headroom.bytes \div W
<1>4. h \in Nat /\ h * W <= Headroom.bytes
  BY <1>2, WordSize
<1>. HIDE DEF h
<1>5. h * W \in Nat /\ Capacity.bytes - h * W \in Nat /\ Capacity.pkts - Headroom.pkts \in Nat
  BY <1>2, <1>3, <1>4, WordSize
<1>. QED
  BY <1>2, <1>3, <1>4, <1>5 DEF AdjCap, h

LEMMA InFlightTypes ==
    ASSUME TypeOK
    PROVE  /\ InFlight.bytes \in Int /\ InFlight.pkts \in Int
           /\ InFlight.bytes = send.bytes - rcnt.bytes
           /\ InFlight.pkts = send.pkts - rcnt.pkts
           /\ HalfPkts \in Int
           /\ 2 * InFlight.pkts <= HalfPkts /\ HalfPkts <= 2 * InFlight.pkts + 1
           /\ part > 0 => HalfPkts = 2 * InFlight.pkts + 1
           /\ part = 0 => HalfPkts = 2 * InFlight.pkts
<1>1. /\ InFlight.bytes \in Int /\ InFlight.pkts \in Int
      /\ InFlight.bytes = send.bytes - rcnt.bytes
      /\ InFlight.pkts = send.pkts - rcnt.pkts
  <2>1. /\ send.bytes \in Nat /\ send.pkts \in Nat
        /\ rcnt.bytes \in Nat /\ rcnt.pkts \in Nat
    BY Types
  <2>2. InFlight = [bytes |-> send.bytes - rcnt.bytes, pkts |-> send.pkts - rcnt.pkts]
    BY DEF InFlight, Minus
  <2>. QED
    BY <2>1, <2>2
<1>2. /\ HalfPkts = 2 * InFlight.pkts \/ HalfPkts = 2 * InFlight.pkts + 1
      /\ part > 0 => HalfPkts = 2 * InFlight.pkts + 1
      /\ part = 0 => HalfPkts = 2 * InFlight.pkts
  BY <1>1 DEF HalfPkts
<1>. QED
  BY <1>1, <1>2

LEMMA InFlightNext ==
    ASSUME TypeOK'
    PROVE  /\ InFlight'.bytes \in Int /\ InFlight'.pkts \in Int
           /\ InFlight'.bytes = send'.bytes - rcnt'.bytes
           /\ InFlight'.pkts = send'.pkts - rcnt'.pkts
           /\ HalfPkts' \in Int /\ 2 * InFlight'.pkts <= HalfPkts'
           /\ part' > 0 => HalfPkts' = 2 * InFlight'.pkts + 1
           /\ part' = 0 => HalfPkts' = 2 * InFlight'.pkts
<1>1. /\ InFlight'.bytes \in Int /\ InFlight'.pkts \in Int
      /\ InFlight'.bytes = send'.bytes - rcnt'.bytes
      /\ InFlight'.pkts = send'.pkts - rcnt'.pkts
  <2>1. send' \in Counts /\ rcnt' \in Counts
    BY DEF TypeOK
  <2>2. /\ send'.bytes \in Nat /\ send'.pkts \in Nat
        /\ rcnt'.bytes \in Nat /\ rcnt'.pkts \in Nat
    BY <2>1 DEF Counts
  <2>3. InFlight' = [bytes |-> send'.bytes - rcnt'.bytes, pkts |-> send'.pkts - rcnt'.pkts]
    BY DEF InFlight, Minus
  <2>. QED
    BY <2>2, <2>3
<1>2. /\ HalfPkts' = 2 * InFlight'.pkts \/ HalfPkts' = 2 * InFlight'.pkts + 1
      /\ part' > 0 => HalfPkts' = 2 * InFlight'.pkts + 1
      /\ part' = 0 => HalfPkts' = 2 * InFlight'.pkts
  BY <1>1 DEF HalfPkts
<1>. QED
  BY <1>1, <1>2

\* One more cycle, in which no more than a word passes.
LEMMA PipelineShift ==
    ASSUME TypeOK, TypeOK', Pipeline, ok' = Shift(ok, HasRoom),
           InFlight'.bytes <= InFlight.bytes + W, HalfPkts' <= HalfPkts + 1
    PROVE  Pipeline'
<1>1. ok' = Shift(ok, HasRoom) /\ ok \in [1 .. OkLatency -> BOOLEAN]
  BY DEF TypeOK
<1>2. ok'[1] = HasRoom /\ \A i \in 2 .. OkLatency : ok'[i] = ok[i - 1]
  <2>. DEFINE b == HasRoom
  <2>1. b \in BOOLEAN
    BY DEF HasRoom
  <2>2. ok' = Shift(ok, b)
    BY <1>1
  <2>. HIDE DEF b
  <2>3. /\ Shift(ok, b)[1] = b
        /\ \A i \in 2 .. OkLatency : Shift(ok, b)[i] = ok[i - 1]
    BY <1>1, <2>1, ShiftAt, Zenon
  <2>4. ok'[1] = b /\ \A i \in 2 .. OkLatency : ok'[i] = ok[i - 1]
    BY <2>2, <2>3
  <2>. QED
    BY <2>4 DEF b
<1>3. /\ InFlight.bytes \in Int /\ HalfPkts \in Int /\ InFlight'.bytes \in Int
      /\ HalfPkts' \in Int /\ InFlight.pkts \in Int
      /\ HalfPkts <= 2 * InFlight.pkts + 1
  BY InFlightTypes, InFlightNext
<1>4. W \in Nat /\ AdjCap.bytes \in Nat /\ AdjCap.pkts \in Nat /\ OkLatency \in Nat
  BY WordSize, Capacities
<1>5. ASSUME NEW i \in 1 .. OkLatency, ok'[i]
      PROVE  InFlight'.bytes < AdjCap.bytes + i * W /\ HalfPkts' < 2 * AdjCap.pkts + i
  <2>1. CASE i = 1
    <3>1. InFlight.bytes < AdjCap.bytes /\ InFlight.pkts < AdjCap.pkts
      BY <1>2, <1>5, <2>1, InFlightTypes DEF HasRoom
    <3>2. i * W = W
      BY <1>4, <2>1
    <3>3. InFlight'.bytes < AdjCap.bytes + W
      BY <1>3, <1>4, <3>1
    <3>4. HalfPkts' < 2 * AdjCap.pkts + 1
      BY <1>3, <1>4, <3>1
    <3>. QED
      BY <2>1, <3>2, <3>3, <3>4
  <2>2. CASE i # 1
    <3>1. i \in 2 .. OkLatency /\ i - 1 \in 1 .. OkLatency /\ ok[i - 1]
      <4>1. i \in 2 .. OkLatency /\ i - 1 \in 1 .. OkLatency
        BY <1>4, <2>2
      <4>. QED
        BY <1>2, <1>5, <4>1
    <3>2. InFlight.bytes < AdjCap.bytes + (i - 1) * W /\ HalfPkts < 2 * AdjCap.pkts + (i - 1)
      BY <3>1 DEF Pipeline
    <3>3. i \in Nat /\ (i - 1) * W \in Nat /\ i * W \in Nat /\ i * W = (i - 1) * W + W
      BY <1>4, <3>1
    <3>4. InFlight'.bytes < AdjCap.bytes + i * W
      BY <1>3, <1>4, <3>2, <3>3
    <3>5. HalfPkts' < 2 * AdjCap.pkts + i
      BY <1>3, <1>4, <3>2, <3>3
    <3>. QED
      BY <3>4, <3>5
  <2>. QED
    BY <2>1, <2>2
<1>6. \A i \in 1 .. OkLatency :
        ok'[i] => /\ InFlight'.bytes < AdjCap.bytes + i * W
                  /\ HalfPkts' < 2 * AdjCap.pkts + i
  BY <1>5
<1>7. AdjCap' = AdjCap
  BY DEF AdjCap
<1>. QED
  BY <1>6 DEF Pipeline, AdjCap

\* A word that the comparison of OkLatency cycles before allows has room.
LEMMA WordHasRoom ==
    ASSUME TypeOK, TypeOK', Pipeline, OkToSend,
           InFlight'.bytes = InFlight.bytes + W, HalfPkts' <= HalfPkts + 1
    PROVE  WithinBound'
<1>1. /\ InFlight.bytes \in Int /\ HalfPkts \in Int /\ InFlight'.pkts \in Int
      /\ HalfPkts' \in Int /\ 2 * InFlight'.pkts <= HalfPkts'
  BY InFlightTypes, InFlightNext
<1>2. /\ W \in Nat /\ OkLatency \in Nat /\ OkLatency >= 1
      /\ AdjCap.bytes \in Nat /\ AdjCap.pkts \in Nat
  BY WordSize, Capacities
<1>3. InFlight.bytes < AdjCap.bytes + OkLatency * W /\ HalfPkts < 2 * AdjCap.pkts + OkLatency
  <2>1. OkLatency \in 1 .. OkLatency /\ ok[OkLatency]
    BY <1>2 DEF OkToSend
  <2>. QED
    BY <2>1 DEF Pipeline
<1>4. InFlight'.bytes < AdjCap.bytes + (OkLatency + 1) * W
  <2>1. OkLatency * W \in Nat /\ (OkLatency + 1) * W = OkLatency * W + W
    BY <1>2
  <2>. QED
    BY <1>1, <1>2, <1>3, <2>1
<1>5. InFlight'.pkts <= AdjCap.pkts + OkLatency \div 2
  <2>1. 2 * InFlight'.pkts <= 2 * AdjCap.pkts + OkLatency
    BY <1>1, <1>2, <1>3
  <2>. QED
    BY <1>1, <1>2, <2>1
<1>6. AdjCap' = AdjCap
  BY DEF AdjCap
<1>. QED
  BY <1>4, <1>5, <1>6 DEF WithinBound

LEMMA RoomInit == Init => RoomInv
<1>. SUFFICES ASSUME Init PROVE RoomInv
  OBVIOUS
<1>1. /\ send = Zero /\ rcnt = Zero /\ strc_cnt = 0 /\ part = 0 /\ down = <<>> /\ up = <<>>
      /\ recv = Zero /\ xfer = Zero /\ last = Zero
  BY DEF Init
<1>3. InFlight.bytes = 0 /\ InFlight.pkts = 0 /\ HalfPkts = 0
  BY <1>1 DEF InFlight, HalfPkts, Minus, Zero
<1>4. Pipeline
  <2>1. ASSUME NEW i \in 1 .. OkLatency
        PROVE  InFlight.bytes < AdjCap.bytes + i * W /\ HalfPkts < 2 * AdjCap.pkts + i
    <3>1. AdjCap.bytes \in Nat /\ AdjCap.pkts \in Nat /\ i \in Nat /\ i >= 1
      BY Capacities
    <3>2. i * W \in Nat /\ i * W > 0
      BY <3>1, WordSize
    <3>3. 0 < AdjCap.bytes + i * W
      BY <3>1, <3>2
    <3>4. 0 < 2 * AdjCap.pkts + i
      BY <3>1
    <3>. QED
      BY <1>3, <3>3, <3>4
  <2>. QED
    BY <2>1 DEF Pipeline
<1>5. WithinBound
  <2>1. /\ AdjCap.bytes \in Nat /\ AdjCap.pkts \in Nat
        /\ (OkLatency + 1) * W \in Nat /\ (OkLatency + 1) * W > 0 /\ OkLatency \div 2 \in Nat
    BY Capacities, WordSize
  <2>. QED
    BY <1>3, <2>1 DEF WithinBound
<1>. QED
  BY <1>4, <1>5 DEF RoomInv

\* A packet has two words or more: a word adds half a packet at most.
LEMMA HalfPktsGrow ==
    ASSUME TypeOK, TypeOK', rcnt' = rcnt, NEW ends \in BOOLEAN,
           send'.bytes = send.bytes + W,
           send'.pkts = send.pkts + (IF ends THEN 1 ELSE 0),
           ends => part > 0 /\ part' = 0, ~ends => part' = part + 1
    PROVE  InFlight'.bytes = InFlight.bytes + W /\ HalfPkts' <= HalfPkts + 1
<1>1. /\ send.bytes \in Nat /\ send.pkts \in Nat /\ rcnt.bytes \in Nat /\ rcnt.pkts \in Nat
      /\ part \in Nat /\ W \in Nat
  BY Types, WordSize
<1>2. /\ InFlight.bytes = send.bytes - rcnt.bytes /\ InFlight.pkts = send.pkts - rcnt.pkts
      /\ part > 0 => HalfPkts = 2 * InFlight.pkts + 1
      /\ part = 0 => HalfPkts = 2 * InFlight.pkts
      /\ InFlight.pkts \in Int /\ HalfPkts \in Int
  BY InFlightTypes
<1>3. /\ InFlight'.bytes = send'.bytes - rcnt.bytes /\ InFlight'.pkts = send'.pkts - rcnt.pkts
      /\ part' > 0 => HalfPkts' = 2 * InFlight'.pkts + 1
      /\ part' = 0 => HalfPkts' = 2 * InFlight'.pkts
      /\ InFlight'.pkts \in Int /\ HalfPkts' \in Int
  BY InFlightNext
<1>4. InFlight'.bytes = InFlight.bytes + W
  BY <1>1, <1>2, <1>3
<1>5. CASE ends
  <2>1. HalfPkts = 2 * InFlight.pkts + 1 /\ HalfPkts' = 2 * InFlight'.pkts
    BY <1>2, <1>3, <1>5
  <2>2. InFlight'.pkts = InFlight.pkts + 1
    BY <1>1, <1>2, <1>3, <1>5
  <2>3. HalfPkts' = HalfPkts + 1
    BY <1>2, <2>1, <2>2
  <2>. QED
    BY <1>2, <1>4, <2>3
<1>6. CASE ~ends
  <2>1. HalfPkts' = 2 * InFlight'.pkts + 1
    BY <1>1, <1>3, <1>6
  <2>2. InFlight'.pkts = InFlight.pkts
    BY <1>1, <1>2, <1>3, <1>6
  <2>3. HalfPkts >= 2 * InFlight.pkts
    BY InFlightTypes
  <2>4. HalfPkts' <= HalfPkts + 1
    BY <1>2, <2>1, <2>2, <2>3
  <2>. QED
    BY <1>4, <2>4
<1>. QED
  BY <1>5, <1>6

LEMMA RoomNext ==
    ASSUME CountsInv, CountsInv', RoomInv, [Next]_vars
    PROVE  RoomInv'
<1>1. /\ TypeOK /\ TypeOK' /\ PartialPacket /\ Released
      /\ Pipeline /\ WithinBound
  BY DEF CountsInv, RoomInv
<1>3. part \in Nat
  BY <1>1 DEF TypeOK
<1>. SUFFICES Pipeline' /\ WithinBound'
  BY DEF RoomInv
<1>4. ASSUME DataWord \/ StrcWord
      PROVE  /\ InFlight'.bytes = InFlight.bytes + W /\ HalfPkts' <= HalfPkts + 1
             /\ ok' = Shift(ok, HasRoom) /\ OkToSend
  <2>1. \E ends \in BOOLEAN :
          /\ send' = Count(send, ends)
          /\ ends => part > 0 /\ part' = 0
          /\ ~ends => part' = part + 1
    <3>1. CASE DataWord
      <4>1. PICK n \in (IF part = 0 THEN PktSizes ELSE {size}) :
              /\ send' = Count(send, part + 1 = Words(n))
              /\ part' = IF part + 1 = Words(n) THEN 0 ELSE part + 1
        BY <3>1 DEF DataWord
      <4>2. part + 1 = Words(n) => part > 0
        <5>1. CASE part = 0
          <6>1. n \in Nat /\ n > W
            BY <4>1, <5>1, RxAssumption
          <6>2. Words(n) > 1 /\ Words(n) \in Nat
            BY <6>1, WordsType
          <6>. QED
            BY <5>1, <6>2
        <5>. QED
          BY <1>3, <5>1
      <4>. QED
        BY <4>1, <4>2
    <3>2. CASE StrcWord
      <4>1. /\ send' = Count(send, part + 1 = StrcWords)
            /\ part' = IF part + 1 = StrcWords THEN 0 ELSE part + 1
        BY <3>2 DEF StrcWord
      <4>2. part + 1 = StrcWords => part > 0
        BY <1>3, WordSize
      <4>. QED
        BY <4>1, <4>2
    <3>. QED
      BY <1>4, <3>1, <3>2
  <2>2. PICK ends \in BOOLEAN :
          /\ send' = Count(send, ends)
          /\ ends => part > 0 /\ part' = 0
          /\ ~ends => part' = part + 1
    BY <2>1
  <2>3. /\ send'.bytes = send.bytes + W
        /\ send'.pkts = send.pkts + (IF ends THEN 1 ELSE 0)
    BY <1>1, <2>2, WordCounted
  <2>4. rcnt' = rcnt /\ ok' = Shift(ok, HasRoom) /\ OkToSend
    BY <1>4 DEF DataWord, StrcWord
  <2>5. InFlight'.bytes = InFlight.bytes + W /\ HalfPkts' <= HalfPkts + 1
    BY <1>1, <2>2, <2>3, <2>4, HalfPktsGrow
  <2>. QED
    BY <2>4, <2>5
<1>5. CASE DataWord \/ StrcWord
  <2>1. InFlight.bytes \in Int /\ W \in Nat
    BY <1>1, InFlightTypes, WordSize
  <2>2. /\ InFlight'.bytes = InFlight.bytes + W /\ HalfPkts' <= HalfPkts + 1
        /\ ok' = Shift(ok, HasRoom) /\ OkToSend
    BY <1>4, <1>5
  <2>3. InFlight'.bytes <= InFlight.bytes + W
    BY <2>1, <2>2
  <2>4. Pipeline'
    BY <1>1, <2>2, <2>3, PipelineShift
  <2>5. WithinBound'
    BY <1>1, <2>2, WordHasRoom
  <2>. QED
    BY <2>4, <2>5
<1>6. CASE IdleCycle
  <2>1. /\ send' = send /\ rcnt' = rcnt /\ part' = part /\ ok' = Shift(ok, HasRoom)
    BY <1>6 DEF IdleCycle
  <2>2. InFlight' = InFlight /\ HalfPkts' = HalfPkts
    BY <2>1 DEF InFlight, HalfPkts
  <2>3. InFlight.bytes \in Int /\ HalfPkts \in Int /\ W \in Nat
    BY <1>1, InFlightTypes, WordSize
  <2>4. InFlight'.bytes <= InFlight.bytes + W /\ HalfPkts' <= HalfPkts + 1
    BY <2>2, <2>3
  <2>5. Pipeline'
    BY <1>1, <2>1, <2>4, PipelineShift
  <2>. QED
    BY <1>1, <2>2, <2>5 DEF WithinBound, AdjCap
<1>7. CASE LatchStrs
  <2>1. /\ up # <<>> /\ rcnt' = Head(up) /\ send' = send /\ part' = part /\ ok' = ok
    BY <1>7 DEF LatchStrs, dev
  <2>2. AtMost(rcnt, rcnt')
    <3>1. up \in Seq(Counts)
      BY <1>1 DEF TypeOK
    <3>2. 1 \in 1 .. Len(up) /\ rcnt' = up[1]
      BY <2>1, <3>1
    <3>. QED
      BY <1>1, <3>2 DEF Released
  <2>3. /\ send.bytes \in Nat /\ send.pkts \in Nat /\ rcnt.bytes \in Nat /\ rcnt.pkts \in Nat
    BY <1>1, Types
  <2>4. rcnt'.bytes \in Nat /\ rcnt'.pkts \in Nat
    BY <1>1 DEF TypeOK, Counts
  <2>5. /\ InFlight.bytes = send.bytes - rcnt.bytes /\ InFlight.pkts = send.pkts - rcnt.pkts
        /\ InFlight'.bytes = send.bytes - rcnt'.bytes /\ InFlight'.pkts = send.pkts - rcnt'.pkts
        /\ InFlight.bytes \in Int /\ InFlight.pkts \in Int
        /\ InFlight'.bytes \in Int /\ InFlight'.pkts \in Int
    BY <1>1, <2>1, InFlightTypes, InFlightNext
  <2>6. InFlight'.bytes <= InFlight.bytes
    BY <2>2, <2>3, <2>4, <2>5 DEF AtMost
  <2>7. InFlight'.pkts <= InFlight.pkts
    BY <2>2, <2>3, <2>4, <2>5 DEF AtMost
  <2>8. HalfPkts' <= HalfPkts /\ HalfPkts \in Int /\ HalfPkts' \in Int
    <3>1. CASE part = 0
      BY <1>1, <2>1, <2>5, <2>7, <3>1, InFlightTypes, InFlightNext
    <3>2. CASE part > 0
      BY <1>1, <2>1, <2>5, <2>7, <3>2, InFlightTypes, InFlightNext
    <3>. QED
      BY <1>3, <3>1, <3>2
  <2>9. Pipeline'
    <3>1. ASSUME NEW i \in 1 .. OkLatency, ok'[i]
          PROVE  InFlight'.bytes < AdjCap.bytes + i * W /\ HalfPkts' < 2 * AdjCap.pkts + i
      <4>1. InFlight.bytes < AdjCap.bytes + i * W /\ HalfPkts < 2 * AdjCap.pkts + i
        BY <1>1, <2>1, <3>1 DEF Pipeline
      <4>2. AdjCap.bytes + i * W \in Int /\ 2 * AdjCap.pkts + i \in Int
        BY Capacities, WordSize
      <4>3. InFlight'.bytes < AdjCap.bytes + i * W
        BY <2>5, <2>6, <4>1, <4>2
      <4>4. HalfPkts' < 2 * AdjCap.pkts + i
        BY <2>8, <4>1, <4>2
      <4>. QED
        BY <4>3, <4>4
    <3>. QED
      BY <3>1 DEF Pipeline, AdjCap
  <2>10. WithinBound'
    <3>. DEFINE b == AdjCap.bytes + (OkLatency + 1) * W
                p == AdjCap.pkts + OkLatency \div 2
    <3>1. b \in Int /\ p \in Int /\ b' = b /\ p' = p
      BY Capacities, WordSize DEF AdjCap
    <3>2. InFlight.bytes < b /\ InFlight.pkts <= p
      BY <1>1 DEF WithinBound
    <3>. HIDE DEF b, p
    <3>3. InFlight'.bytes < b /\ InFlight'.pkts <= p
      BY <2>5, <2>6, <2>7, <3>1, <3>2
    <3>. QED
      BY <3>1, <3>3 DEF WithinBound, b, p
  <2>. QED
    BY <2>9, <2>10
<1>8. CASE Host \/ Link \/ UNCHANGED vars
  <2>1. send' = send /\ rcnt' = rcnt /\ part' = part /\ ok' = ok
    BY <1>8 DEF Host, Link, RecvData, RecvStrc, ReleaseRecvBuff, LoseDown, LoseUp, vars, dev
  <2>2. InFlight' = InFlight /\ HalfPkts' = HalfPkts
    BY <2>1 DEF InFlight, HalfPkts
  <2>. QED
    BY <1>1, <2>1, <2>2 DEF Pipeline, WithinBound, AdjCap
<1>. QED
  BY <1>5, <1>6, <1>7, <1>8 DEF Next, Fpga

\* What is in use of the buffer that the host announced exceeds the adjusted
\* capacity by no more than the words that pass while the comparison of the
\* counts is under way (ok_shreg), whatever is lost and for every headroom.
THEOREM OverflowsByLatency == Spec => []OverflowBounded
<1>1. Init => CountsInv /\ RoomInv
  BY CountsInit, RoomInit
<1>2. CountsInv /\ RoomInv /\ [Next]_vars => (CountsInv /\ RoomInv)'
  BY CountsNext, RoomNext
<1>3. ASSUME CountsInv, RoomInv PROVE OverflowBounded
  <2>1. TypeOK /\ Received /\ Held /\ Released /\ WithinBound
    BY <1>3 DEF CountsInv, RoomInv
  <2>2. down \in Seq(Packets) /\ held \in Seq(Nat) /\ Sizes(down) \in Seq(Nat)
    <3>1. down \in Seq(Packets) /\ held \in Seq(Nat)
      BY <2>1, Types DEF TypeOK
    <3>. QED
      BY <3>1, SizesSeq
  <2>. DEFINE u == Occupies(Sizes(down) \o held)
             o == Occupies(held)
  <2>3. u.bytes = OnLink.bytes + o.bytes /\ u.pkts = OnLink.pkts + o.pkts
    BY <2>2, OccupiesConcat DEF OnLink
  <2>4. o.bytes \in Nat /\ o.pkts \in Nat
    BY <2>2, OccupiesType DEF Counts
  <2>5. /\ recv.bytes \in Nat /\ recv.pkts \in Nat /\ xfer.bytes \in Nat /\ xfer.pkts \in Nat
        /\ send.bytes \in Nat /\ send.pkts \in Nat /\ rcnt.bytes \in Nat /\ rcnt.pkts \in Nat
        /\ last.bytes \in Nat /\ last.pkts \in Nat /\ part * W \in Nat
        /\ OnLink.bytes \in Nat /\ OnLink.pkts \in Nat
        /\ SentWhole.bytes = send.bytes - part * W /\ SentWhole.pkts = send.pkts
    BY <2>1, Types
  <2>6. /\ recv.bytes + OnLink.bytes <= send.bytes - part * W
        /\ recv.pkts + OnLink.pkts <= send.pkts
    BY <2>1, <2>5 DEF Received, AtMost, Plus
  <2>7. xfer.bytes + o.bytes = recv.bytes /\ xfer.pkts + o.pkts = recv.pkts
    BY <2>1 DEF Held, Same, Plus
  <2>8. /\ rcnt.bytes <= last.bytes /\ last.bytes <= xfer.bytes
        /\ rcnt.pkts <= last.pkts /\ last.pkts <= xfer.pkts
    BY <2>1 DEF Released, AtMost
  <2>. HIDE DEF u, o
  <2>9. /\ OnLink.bytes + o.bytes + part * W <= send.bytes - rcnt.bytes
        /\ OnLink.pkts + o.pkts <= send.pkts - rcnt.pkts
    BY <2>4, <2>5, <2>6, <2>7, <2>8
  <2>10. Used.bytes = u.bytes + part * W /\ Used.pkts = u.pkts
    <3>1. u.pkts + 0 = u.pkts
      BY <2>3, <2>4, <2>5
    <3>. QED
      BY <3>1 DEF Used, Plus, u
  <2>11. Used.bytes <= InFlight.bytes /\ Used.pkts <= InFlight.pkts
         /\ Used.bytes \in Int /\ Used.pkts \in Int
    BY <2>1, <2>3, <2>4, <2>5, <2>9, <2>10, InFlightTypes
  <2>. DEFINE b == AdjCap.bytes + (OkLatency + 1) * W
              p == AdjCap.pkts + OkLatency \div 2
  <2>12. b \in Int /\ p \in Int /\ InFlight.bytes \in Int /\ InFlight.pkts \in Int
    BY <2>1, InFlightTypes, Capacities, WordSize
  <2>13. InFlight.bytes < b /\ InFlight.pkts <= p
    BY <2>1 DEF WithinBound
  <2>. HIDE DEF b, p
  <2>14. Used.bytes < b /\ Used.pkts <= p
    BY <2>11, <2>12, <2>13
  <2>. QED
    BY <2>14 DEF OverflowBounded, b, p
<1>. QED
  BY <1>1, <1>2, <1>3, PTL DEF Spec

\* A headroom that covers those words.
HeadroomCovers ==
    /\ Headroom.bytes \div W >= OkLatency + 1
    /\ Headroom.pkts >= OkLatency \div 2

\* It would keep what is in use within the buffer.  The drivers configure none.
COROLLARY HeadroomSuffices == HeadroomCovers => (Spec => []NoOverflow)
<1>. SUFFICES ASSUME HeadroomCovers PROVE Spec => []NoOverflow
  OBVIOUS
<1>1. /\ AdjCap.bytes + (OkLatency + 1) * W <= Capacity.bytes
      /\ AdjCap.pkts + OkLatency \div 2 <= Capacity.pkts
  <2>. DEFINE h == Headroom.bytes \div W
  <2>1. h >= OkLatency + 1 /\ h \in Nat /\ OkLatency \in Nat /\ W \in Nat
    BY Capacities, WordSize DEF HeadroomCovers
  <2>2. AdjCap.bytes = Capacity.bytes - h * W
    BY Capacities
  <2>. HIDE DEF h
  <2>3. h * W >= (OkLatency + 1) * W /\ h * W \in Nat /\ (OkLatency + 1) * W \in Nat
    BY <2>1
  <2>. QED
    BY <2>2, <2>3, Capacities DEF HeadroomCovers
<1>2. ASSUME TypeOK, OverflowBounded PROVE NoOverflow
  <2>1. Used.bytes \in Int /\ Used.pkts \in Int
    <3>1. down \in Seq(Packets) /\ held \in Seq(Nat) /\ Sizes(down) \in Seq(Nat)
      BY <1>2, Types, SizesSeq DEF TypeOK
    <3>. DEFINE t == Sizes(down) \o held
                u == Occupies(t)
    <3>2. u.bytes \in Nat /\ u.pkts \in Nat
      <4>1. t \in Seq(Nat)
        BY <3>1
      <4>. HIDE DEF t
      <4>. QED
        BY <4>1, OccupiesType DEF Counts
    <3>3. part * W \in Nat
      BY <1>2, Types
    <3>. HIDE DEF u
    <3>4. u.bytes + part * W \in Int /\ u.pkts + 0 \in Int
      BY <3>2, <3>3
    <3>. QED
      BY <3>4 DEF Used, Plus, u
  <2>2. /\ AdjCap.bytes + (OkLatency + 1) * W \in Int /\ AdjCap.pkts + OkLatency \div 2 \in Int
        /\ Capacity.bytes \in Int /\ Capacity.pkts \in Int
    BY Capacities, WordSize
  <2>. QED
    BY <1>1, <1>2, <2>1, <2>2 DEF OverflowBounded, NoOverflow
<1>. QED
  BY <1>2, TypeCorrect, OverflowsByLatency, PTL
================================================================================
