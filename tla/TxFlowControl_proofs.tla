------------------------- MODULE TxFlowControl_proofs -------------------------
(***************************************************************************)
(* Proofs about TxFlowControl, for all buffer and packet sizes, faults,    *)
(* losses and reinitialisations: no byte count overtakes the one it        *)
(* follows, and so the ingress buffer does not overflow, until a           *)
(* reinitialisation ends without the answer of the FPGA, and provided that *)
(* the frames of the link are whole words.                                 *)
(***************************************************************************)
EXTENDS TxFlowControl, Sums_proofs

\* "No need to round num_bytes since the transport always checks for enough
\* space for a full frame" (_fc_callback): true of frames of whole words.
WholeFrames == RoundPktSize(FrameSize) = FrameSize

Counts == 0 .. CountMod - 1

Packets ==
    [type : {"data"}, size : PktSizes, ofs : Counts]
    \union [type : {"resync"}, size : {StrcSize}, ofs : Counts]
    \union [type : {"init"}, size : {StrcSize}, ofs : {0}]

\* How far a count r is behind the count x.
LagOf(x, r) == (x - r) % CountMod

\* What a packet occupies.
Room(p) == RoundPktSize(p.size)

\* A packet that no init packet behind it will flush.
Current(L, i) == \A j \in i + 1 .. Len(L) : L[j].type # "init"

\* The count of a packet lags behind by what the packet and the ones after it
\* occupy, or by more if some of those are lost.
InOrder(L, x) ==
    \A i \in 1 .. Len(L) : Current(L, i) =>
        /\ LagOf(x, L[i].ofs) >= Room(L[i])
        /\ \A j \in i + 1 .. Len(L) :
                LagOf(x, L[i].ofs) >= LagOf(x, L[j].ofs) + Room(L[i])

\* The packets on the way to the FPGA or in its buffer.
Flow == buf \o down
NoInit == \A i \in 1 .. Len(Flow) : Flow[i].type # "init"
Lag(r) == LagOf(xfer, r)

Typed ==
    /\ TypeOK
    /\ buf \in Seq(Packets) /\ down \in Seq(Packets) /\ up \in Seq(Counts)

InSequence == InOrder(Flow, xfer)

\* What the host knows of the FPGA's count: while it reinitialises the stream,
\* it may read counts that are older than the init packet.
Base == IF mode = "run" THEN recv ELSE 0

\* The FPGA's count lags behind by what it has not consumed or more, and the
\* host's idea of it by as much or more.
Behind ==
    NoInit => /\ Lag(Base) >= Lag(cnt)
              /\ \A i \in 1 .. Len(Flow) : Lag(cnt) >= Lag(Flow[i].ofs)

Fits ==
    /\ Lag(Base) <= Capacity
    /\ held => Lag(Base) + FrameSize <= Capacity

\* The counts in status packets, the oldest first.
Running ==
    mode = "run" =>
        /\ NoInit
        /\ \A i \in 1 .. Len(up) : Lag(recv) >= Lag(up[i]) /\ Lag(up[i]) >= Lag(cnt)
        /\ \A i \in 1 .. Len(up) : \A j \in i + 1 .. Len(up) : Lag(up[i]) >= Lag(up[j])

\* There is one init packet at a time, and the last status packet is the answer
\* to it once nothing is due.
Initializing ==
    mode = "init" =>
        /\ ~held /\ recv = 0
        /\ \A i, j \in 1 .. Len(Flow) :
                Flow[i].type = "init" /\ Flow[j].type = "init" => i = j
        /\ NoInit /\ ~due /\ up # <<>> =>
                Lag(0) >= Lag(up[Len(up)]) /\ Lag(up[Len(up)]) >= Lag(cnt)

\* The answer is in the last status packet until the host has read that.
Draining ==
    mode = "drain" =>
        /\ ~held /\ NoInit
        /\ LET r == IF up = <<>> THEN recv ELSE up[Len(up)]
           IN  Lag(0) >= Lag(r) /\ Lag(r) >= Lag(cnt)

Sound == Typed /\ InSequence /\ Behind /\ Fits /\ Running /\ Initializing /\ Draining

\* Once a reinitialisation was cut short, nothing is known of the counts.
IInv == Typed /\ (~cut_short => Sound)

-----------------------------------------------------------------------------
(* Arithmetic *)

LEMMA Sizes ==
    /\ W \in Nat /\ W > 0 /\ Capacity \in Nat /\ FrameSize \in Nat /\ StrcSize \in Nat
    /\ MaxStrcSize \in Nat /\ CountMod \in Nat /\ Capacity < CountMod
    /\ MaxStrcSize <= Capacity /\ FcFreq \in Nat /\ PktSizes \subseteq 1 .. FrameSize
BY TxAssumption

LEMMA RoundType ==
    ASSUME NEW n \in Nat
    PROVE  RoundPktSize(n) \in Nat
<1>1. (n + W - 1) \div W \in Nat
  BY Sizes
<1>. QED
  BY <1>1, Sizes DEF RoundPktSize

LEMMA RoundMonotone ==
    ASSUME NEW m \in Nat, NEW n \in Nat, m <= n
    PROVE  RoundPktSize(m) <= RoundPktSize(n)
<1>. DEFINE a == (m + W - 1) \div W
            b == (n + W - 1) \div W
<1>1. a \in Nat /\ a * W <= m + W - 1
  BY Sizes
<1>2. b \in Nat /\ n + W - 1 < b * W + W
  BY Sizes
<1>. HIDE DEF a, b
<1>3. ~(b + 1 <= a)
  <2>1. SUFFICES ASSUME b + 1 <= a PROVE FALSE
    OBVIOUS
  <2>2. (b + 1) * W <= a * W
    BY <1>1, <1>2, <2>1, Sizes
  <2>3. (b + 1) * W = b * W + W /\ b * W \in Nat /\ a * W \in Nat
    BY <1>1, <1>2, Sizes
  <2>. QED
    BY <1>1, <1>2, <2>2, <2>3, Sizes
<1>4. a <= b
  BY <1>1, <1>2, <1>3
<1>5. a * W <= b * W
  BY <1>1, <1>2, <1>4, Sizes
<1>. QED
  BY <1>5 DEF RoundPktSize, a, b

LEMMA RoomType ==
    ASSUME NEW p \in Packets
    PROVE  /\ Room(p) \in Nat /\ p.size \in Nat /\ p.ofs \in Counts
           /\ p.type \in {"data", "resync", "init"}
           /\ p.type = "init" => p.ofs = 0
           /\ p \in PacketType
<1>1. PktSizes \subseteq Nat /\ StrcSize \in Nat /\ Counts \subseteq Nat /\ 0 \in Counts
  BY Sizes DEF Counts
<1>2. CASE p \in [type : {"data"}, size : PktSizes, ofs : Counts]
  <2>1. p.size \in Nat /\ p.ofs \in Counts /\ p.type = "data"
    BY <1>1, <1>2
  <2>2. p \in PacketType
    BY <1>1, <1>2 DEF PacketType
  <2>. QED
    BY <2>1, <2>2, RoundType DEF Room
<1>3. CASE p \in [type : {"resync"}, size : {StrcSize}, ofs : Counts]
  <2>1. p.size \in Nat /\ p.ofs \in Counts /\ p.type = "resync"
    BY <1>1, <1>3
  <2>2. p \in PacketType
    BY <1>1, <1>3 DEF PacketType
  <2>. QED
    BY <2>1, <2>2, RoundType DEF Room
<1>4. CASE p \in [type : {"init"}, size : {StrcSize}, ofs : {0}]
  <2>1. p.size \in Nat /\ p.ofs \in Counts /\ p.ofs = 0 /\ p.type = "init"
    BY <1>1, <1>4
  <2>2. p \in PacketType
    BY <1>1, <1>4 DEF PacketType
  <2>. QED
    BY <2>1, <2>2, RoundType DEF Room
<1>. QED
  BY <1>2, <1>3, <1>4 DEF Packets

\* One subtraction or addition of CountMod brings a sum or a difference back.
LEMMA ModCases ==
    ASSUME NEW a \in Int
    PROVE  /\ a % CountMod \in Counts
           /\ a \in Counts => a % CountMod = a
           /\ a + CountMod \in Counts => a % CountMod = a + CountMod
           /\ a - CountMod \in Counts => a % CountMod = a - CountMod
<1>. DEFINE M == CountMod
            q == a \div M
            r == a % M
<1>1. M \in Nat /\ M > 0
  BY Sizes
<1>2. q \in Int /\ r \in 0 .. M - 1 /\ a = M * q + r
  BY <1>1
<1>. HIDE DEF q, r, M
<1>3. ASSUME NEW k \in Int, a - M * k \in 0 .. M - 1 PROVE r = a - M * k
  <2>1. M * k \in Int /\ M * q \in Int
    BY <1>1, <1>2
  <2>2. ~(q < k)
    <3>1. SUFFICES ASSUME q + 1 <= k PROVE FALSE
      BY <1>2
    <3>2. M * (q + 1) <= M * k /\ M * (q + 1) = M * q + M
      BY <1>1, <1>2, <3>1
    <3>. QED
      BY <1>1, <1>2, <1>3, <2>1, <3>2
  <2>3. ~(k < q)
    <3>1. SUFFICES ASSUME k + 1 <= q PROVE FALSE
      BY <1>2
    <3>2. M * (k + 1) <= M * q /\ M * (k + 1) = M * k + M
      BY <1>1, <1>2, <3>1
    <3>. QED
      BY <1>1, <1>2, <1>3, <2>1, <3>2
  <2>4. q = k
    BY <1>2, <2>2, <2>3
  <2>. QED
    BY <1>1, <1>2, <2>1, <2>4
<1>4. M * 0 = 0 /\ M * (-1) = -M /\ M * 1 = M
  BY <1>1
<1>5. /\ r \in 0 .. M - 1
      /\ a \in 0 .. M - 1 => r = a
      /\ a + M \in 0 .. M - 1 => r = a + M
      /\ a - M \in 0 .. M - 1 => r = a - M
  <2>1. a \in 0 .. M - 1 => r = a
    BY <1>1, <1>3, <1>4
  <2>2. a + M \in 0 .. M - 1 => r = a + M
    BY <1>1, <1>3, <1>4
  <2>3. ASSUME a - M \in 0 .. M - 1 PROVE r = a - M
    <3>1. a - M * 1 = a - M
      BY <1>1
    <3>2. a - M * 1 \in 0 .. M - 1
      BY <2>3, <3>1
    <3>3. r = a - M * 1
      BY <1>3, <3>2
    <3>. QED
      BY <3>1, <3>3
  <2>. QED
    BY <1>2, <2>1, <2>2, <2>3
<1>. QED
  BY <1>5 DEF Counts, r, M

LEMMA LagCases ==
    ASSUME NEW x \in Counts, NEW r \in Counts
    PROVE  /\ LagOf(x, r) \in Counts /\ LagOf(x, r) \in Nat
           /\ LagOf(x, r) = IF r <= x THEN x - r ELSE x - r + CountMod
<1>1. x - r \in Int /\ x \in Int /\ r \in Int /\ CountMod \in Nat
  BY Sizes DEF Counts
<1>2. CASE r <= x
  <2>1. x - r \in Counts
    BY <1>1, <1>2 DEF Counts
  <2>2. (x - r) % CountMod = x - r
    BY <1>1, <2>1, ModCases
  <2>. QED
    BY <1>1, <1>2, <2>1, <2>2 DEF LagOf, Counts
<1>3. CASE ~(r <= x)
  <2>1. (x - r) + CountMod \in Counts
    BY <1>1, <1>3 DEF Counts
  <2>2. (x - r) % CountMod = (x - r) + CountMod
    BY <1>1, <2>1, ModCases
  <2>. QED
    BY <1>1, <1>3, <2>1, <2>2 DEF LagOf, Counts
<1>. QED
  BY <1>2, <1>3

LEMMA LagSelf == ASSUME NEW x \in Counts PROVE LagOf(x, x) = 0
BY LagCases DEF Counts

\* What is sent adds to a lag, what is consumed takes from it.
LEMMA LagGrows ==
    ASSUME NEW x \in Counts, NEW r \in Counts, NEW n \in Nat, LagOf(x, r) + n < CountMod
    PROVE  /\ (x + n) % CountMod \in Counts
           /\ LagOf((x + n) % CountMod, r) = LagOf(x, r) + n
<1>. DEFINE y == (x + n) % CountMod
            l == LagOf(x, r)
            m == LagOf(y, r)
<1>1. x \in Int /\ r \in Int /\ CountMod \in Nat /\ x + n \in Int
  BY Sizes DEF Counts
<1>2. y \in Counts /\ y \in Int
  BY <1>1, ModCases DEF Counts
<1>3. y = IF x + n < CountMod THEN x + n ELSE x + n - CountMod
  <2>1. CASE x + n < CountMod
    <3>1. x + n \in Counts
      BY <1>1, <2>1 DEF Counts
    <3>. QED
      BY <1>1, <2>1, <3>1, ModCases
  <2>2. CASE ~(x + n < CountMod)
    <3>1. l = IF r <= x THEN x - r ELSE x - r + CountMod
      BY LagCases
    <3>2. (x + n) - CountMod \in Counts
      BY <1>1, <2>2, <3>1 DEF Counts
    <3>. QED
      BY <1>1, <2>2, <3>2, ModCases
  <2>. QED
    BY <2>1, <2>2
<1>4. l = IF r <= x THEN x - r ELSE x - r + CountMod
  BY LagCases
<1>. HIDE DEF y
<1>5. m = IF r <= y THEN y - r ELSE y - r + CountMod
  BY <1>2, LagCases
<1>. HIDE DEF m, l
<1>6. l + n < CountMod
  BY DEF l
<1>7. m = l + n
  BY <1>1, <1>3, <1>4, <1>5, <1>6 DEF Counts
<1>. QED
  BY <1>2, <1>7 DEF y, m, l

LEMMA LagShrinks ==
    ASSUME NEW x \in Counts, NEW r \in Counts, NEW n \in Nat, n <= LagOf(x, r)
    PROVE  /\ (r + n) % CountMod \in Counts
           /\ LagOf(x, (r + n) % CountMod) = LagOf(x, r) - n
<1>. DEFINE s == (r + n) % CountMod
            l == LagOf(x, r)
            m == LagOf(x, s)
<1>1. x \in Int /\ r \in Int /\ CountMod \in Nat /\ r + n \in Int
  BY Sizes DEF Counts
<1>2. s \in Counts /\ s \in Int
  BY <1>1, ModCases DEF Counts
<1>4. l = (IF r <= x THEN x - r ELSE x - r + CountMod) /\ l \in Counts
  BY LagCases
<1>3. s = IF r + n < CountMod THEN r + n ELSE r + n - CountMod
  <2>1. CASE r + n < CountMod
    <3>1. r + n \in Counts
      BY <1>1, <2>1 DEF Counts
    <3>. QED
      BY <1>1, <2>1, <3>1, ModCases
  <2>2. CASE ~(r + n < CountMod)
    <3>1. (r + n) - CountMod \in Counts
      BY <1>1, <2>2, <1>4 DEF Counts
    <3>. QED
      BY <1>1, <2>2, <3>1, ModCases
  <2>. QED
    BY <2>1, <2>2
<1>. HIDE DEF s
<1>5. m = IF s <= x THEN x - s ELSE x - s + CountMod
  BY <1>2, LagCases
<1>. HIDE DEF m, l
<1>6. n <= l
  BY DEF l
<1>7. m = l - n
  BY <1>1, <1>3, <1>4, <1>5, <1>6 DEF Counts
<1>. QED
  BY <1>2, <1>7 DEF s, m, l

\* As long as no more is counted than the buffer holds, dest_has_space says
\* whether there is room.
LEMMA SpaceIsRoom ==
    ASSUME NEW x \in Counts, NEW r \in Counts, NEW size \in Nat,
           LagOf(x, r) <= Capacity, DestHasSpace(x, r, size)
    PROVE  LagOf(x, r) + size <= Capacity
<1>. DEFINE l == LagOf(x, r)
<1>1. l \in Nat /\ l <= Capacity
  BY LagCases
<1>2. (Capacity - l) % CountMod >= size
  BY DEF DestHasSpace, LagOf
<1>. HIDE DEF l
<1>3. Capacity - l \in Counts /\ Capacity - l \in Int
  BY <1>1, Sizes DEF Counts
<1>4. (Capacity - l) % CountMod = Capacity - l
  BY <1>3, ModCases
<1>. QED
  BY <1>1, <1>2, <1>4, Sizes DEF l

-----------------------------------------------------------------------------
(* Sequences of packets *)

LEMMA RoomAt ==
    ASSUME NEW L \in Seq(Packets), NEW i \in 1 .. Len(L)
    PROVE  /\ L[i] \in Packets /\ Room(L[i]) \in Nat /\ L[i].ofs \in Counts
           /\ \A x \in Counts : LagOf(x, L[i].ofs) \in Nat
<1>1. L[i] \in Packets
  OBVIOUS
<1>2. Room(L[i]) \in Nat /\ L[i].ofs \in Counts
  BY <1>1, RoomType
<1>. QED
  BY <1>1, <1>2, LagCases

\* Packets are taken from the front.
LEMMA SuffixInOrder ==
    ASSUME NEW L \in Seq(Packets), NEW L1 \in Seq(Packets), NEW x \in Counts, InOrder(L, x),
           NEW n \in Nat, Len(L1) + n = Len(L), \A i \in 1 .. Len(L1) : L1[i] = L[n + i]
    PROVE  InOrder(L1, x)
<1>1. Len(L) \in Nat /\ Len(L1) \in Nat
  OBVIOUS
<1>. SUFFICES ASSUME NEW i \in 1 .. Len(L1), Current(L1, i)
              PROVE  /\ LagOf(x, L1[i].ofs) >= Room(L1[i])
                     /\ \A j \in i + 1 .. Len(L1) :
                            LagOf(x, L1[i].ofs) >= LagOf(x, L1[j].ofs) + Room(L1[i])
  BY DEF InOrder
<1>2. n + i \in 1 .. Len(L) /\ L1[i] = L[n + i]
  BY <1>1
<1>3. Current(L, n + i)
  <2>. SUFFICES ASSUME NEW k \in n + i + 1 .. Len(L) PROVE L[k].type # "init"
    BY DEF Current
  <2>1. k - n \in i + 1 .. Len(L1) /\ k - n \in 1 .. Len(L1) /\ n + (k - n) = k
    BY <1>1
  <2>2. L1[k - n].type # "init"
    BY <2>1 DEF Current
  <2>. QED
    BY <2>1, <2>2
<1>4. LagOf(x, L[n + i].ofs) >= Room(L[n + i])
  BY <1>2, <1>3 DEF InOrder
<1>5. ASSUME NEW j \in i + 1 .. Len(L1)
      PROVE  LagOf(x, L1[i].ofs) >= LagOf(x, L1[j].ofs) + Room(L1[i])
  <2>1. n + j \in n + i + 1 .. Len(L) /\ j \in 1 .. Len(L1)
    BY <1>1
  <2>2. L1[j] = L[n + j]
    BY <2>1
  <2>3. LagOf(x, L[n + i].ofs) >= LagOf(x, L[n + j].ofs) + Room(L[n + i])
    BY <1>2, <1>3, <2>1 DEF InOrder
  <2>. QED
    BY <1>2, <2>2, <2>3
<1>. QED
  BY <1>2, <1>4, <1>5

\* One that is not an init packet is lost on the way.
LEMMA LossInOrder ==
    ASSUME NEW L \in Seq(Packets), NEW L1 \in Seq(Packets), NEW x \in Counts, InOrder(L, x),
           NEW n \in 1 .. Len(L), Len(L1) + 1 = Len(L), L[n].type # "init",
           \A i \in 1 .. Len(L1) : L1[i] = L[IF i < n THEN i ELSE i + 1]
    PROVE  InOrder(L1, x)
<1>. DEFINE f(i) == IF i < n THEN i ELSE i + 1
<1>1. Len(L) \in Nat /\ Len(L1) \in Nat
  OBVIOUS
<1>. SUFFICES ASSUME NEW i \in 1 .. Len(L1), Current(L1, i)
              PROVE  /\ LagOf(x, L1[i].ofs) >= Room(L1[i])
                     /\ \A j \in i + 1 .. Len(L1) :
                            LagOf(x, L1[i].ofs) >= LagOf(x, L1[j].ofs) + Room(L1[i])
  BY DEF InOrder
<1>2. f(i) \in 1 .. Len(L) /\ L1[i] = L[f(i)]
  BY <1>1
<1>3. Current(L, f(i))
  <2>. SUFFICES ASSUME NEW k \in f(i) + 1 .. Len(L), k # n PROVE L[k].type # "init"
    BY DEF Current
  <2>. DEFINE j == IF k < n THEN k ELSE k - 1
  <2>1. j \in i + 1 .. Len(L1) /\ j \in 1 .. Len(L1) /\ f(j) = k
    BY <1>1
  <2>2. L1[j].type # "init" /\ L1[j] = L[f(j)]
    BY <2>1 DEF Current
  <2>. QED
    BY <2>1, <2>2
<1>4. LagOf(x, L[f(i)].ofs) >= Room(L[f(i)])
  BY <1>2, <1>3 DEF InOrder
<1>5. ASSUME NEW j \in i + 1 .. Len(L1)
      PROVE  LagOf(x, L1[i].ofs) >= LagOf(x, L1[j].ofs) + Room(L1[i])
  <2>1. f(j) \in f(i) + 1 .. Len(L) /\ j \in 1 .. Len(L1)
    BY <1>1
  <2>2. L1[j] = L[f(j)]
    BY <2>1
  <2>. HIDE DEF f
  <2>3. LagOf(x, L[f(i)].ofs) >= LagOf(x, L[f(j)].ofs) + Room(L[f(i)])
    BY <1>2, <1>3, <2>1 DEF InOrder
  <2>. QED
    BY <1>2, <2>2, <2>3
<1>. QED
  BY <1>2, <1>4, <1>5

\* A packet is sent with the count before it.
LEMMA AppendInOrder ==
    ASSUME NEW L \in Seq(Packets), NEW p \in Packets, NEW x \in Counts,
           InOrder(L, x) \/ p.type = "init", p.ofs = x, Room(p) < CountMod,
           \A i \in 1 .. Len(L) : Current(Append(L, p), i) =>
                LagOf(x, L[i].ofs) + Room(p) < CountMod
    PROVE  InOrder(Append(L, p), (x + Room(p)) % CountMod)
<1>. DEFINE L1 == Append(L, p)
            n == Room(p)
            y == (x + n) % CountMod
            N == Len(L)
<1>1. /\ N \in Nat /\ Len(L1) = N + 1 /\ L1[N + 1] = p
      /\ \A i \in 1 .. N : L1[i] = L[i] /\ L[i] \in Packets
  OBVIOUS
<1>. HIDE DEF L1
<1>2. n \in Nat
  BY RoomType
<1>. HIDE DEF n
<1>3. LagOf(y, p.ofs) = n
  <2>1. LagOf(x, x) + n < CountMod /\ LagOf(x, x) = 0
    BY <1>2, LagSelf, Sizes DEF n
  <2>2. LagOf(y, x) = 0 + n
    BY <1>2, <2>1, LagGrows
  <2>. QED
    BY <1>2, <2>2
<1>4. ASSUME NEW i \in 1 .. N, Current(L1, i)
      PROVE  LagOf(y, L[i].ofs) = LagOf(x, L[i].ofs) + n
  <2>1. L[i].ofs \in Counts
    BY <1>1, RoomAt
  <2>2. LagOf(x, L[i].ofs) + n < CountMod
    BY <1>4 DEF n, L1
  <2>. QED
    BY <1>2, <2>1, <2>2, LagGrows
<1>. HIDE DEF y
<1>. SUFFICES ASSUME NEW i \in 1 .. N + 1, Current(L1, i)
              PROVE  /\ LagOf(y, L1[i].ofs) >= Room(L1[i])
                     /\ \A j \in i + 1 .. N + 1 :
                            LagOf(y, L1[i].ofs) >= LagOf(y, L1[j].ofs) + Room(L1[i])
  BY <1>1 DEF InOrder, L1, y, n
<1>5. CASE i = N + 1
  BY <1>1, <1>2, <1>3, <1>5 DEF n
<1>6. CASE i \in 1 .. N
  <2>1. /\ L1[i] = L[i] /\ LagOf(x, L[i].ofs) \in Nat /\ Room(L[i]) \in Nat
        /\ LagOf(y, L[i].ofs) = LagOf(x, L[i].ofs) + n
    BY <1>1, <1>4, <1>6, RoomAt
  <2>2. Current(L, i)
    BY <1>1, <1>6 DEF Current
  <2>7. InOrder(L, x)
    <3>1. N + 1 \in i + 1 .. Len(L1)
      BY <1>1, <1>6
    <3>. QED
      BY <1>1, <3>1 DEF Current
  <2>3. LagOf(x, L[i].ofs) >= Room(L[i])
    BY <1>6, <2>2, <2>7 DEF InOrder
  <2>4. LagOf(y, L[i].ofs) >= Room(L[i])
    BY <1>2, <2>1, <2>3
  <2>5. ASSUME NEW j \in i + 1 .. N
        PROVE  LagOf(y, L1[i].ofs) >= LagOf(y, L1[j].ofs) + Room(L1[i])
    <3>1. j \in 1 .. N /\ L1[j] = L[j]
      BY <1>1, <1>6
    <3>2. Current(L1, j)
      BY <1>1, <1>6 DEF Current
    <3>3. LagOf(y, L[j].ofs) = LagOf(x, L[j].ofs) + n /\ LagOf(x, L[j].ofs) \in Nat
      BY <1>4, <3>1, <3>2, RoomAt
    <3>4. LagOf(x, L[i].ofs) >= LagOf(x, L[j].ofs) + Room(L[i])
      BY <1>6, <2>2, <2>7 DEF InOrder
    <3>. QED
      BY <1>2, <2>1, <3>1, <3>3, <3>4
  <2>6. LagOf(y, L1[i].ofs) >= LagOf(y, L1[N + 1].ofs) + Room(L1[i])
    BY <1>1, <1>2, <1>3, <2>1, <2>3
  <2>. QED
    BY <1>1, <1>6, <2>1, <2>4, <2>5, <2>6
<1>. QED
  BY <1>1, <1>5, <1>6

\* Lags that grow by what each packet occupies cover what they occupy together.
LEMMA LagsCover ==
    ASSUME NEW s \in Seq(Nat), NEW g, Len(s) > 0,
           \A i \in 1 .. Len(s) : g[i] \in Nat,
           g[Len(s)] >= s[Len(s)],
           \A i \in 1 .. Len(s) - 1 : g[i] >= g[i + 1] + s[i]
    PROVE  Total(s) <= g[1]
<1>. DEFINE N == Len(s)
            R == RunningSums(s)
            S == {n \in 0 .. N - 1 : R[n] + g[n + 1] <= g[1]}
<1>1. N \in Nat /\ N > 0 /\ N - 1 \in Nat
  OBVIOUS
<1>2. R[0] = 0 /\ \A i \in 0 .. N : R[i] \in Nat
  BY SumsAt
<1>3. \A i \in 1 .. N : R[i] = R[i - 1] + s[i] /\ s[i] \in Nat
  BY SumsAt
<1>. HIDE DEF R, N
<1>4. 0 \in S
  <2>1. g[0 + 1] \in Nat
    BY <1>1 DEF N
  <2>. QED
    BY <1>1, <1>2, <2>1
<1>5. ASSUME NEW n \in 0 .. (N - 1) - 1, n \in S PROVE n + 1 \in S
  <2>1. /\ n + 1 \in 1 .. N - 1 /\ n + 1 \in 1 .. N /\ (n + 1) - 1 = n /\ n \in 0 .. N
        /\ n + 2 \in 1 .. N /\ (n + 1) + 1 = n + 2 /\ n + 1 \in 0 .. N - 1
        /\ n + 1 \in 0 .. N
    BY <1>1
  <2>2. R[n + 1] = R[n] + s[n + 1] /\ s[n + 1] \in Nat
    BY <1>3, <2>1
  <2>3. g[n + 1] >= g[n + 2] + s[n + 1]
    BY <2>1 DEF N
  <2>4. g[n + 1] \in Nat /\ g[n + 2] \in Nat /\ g[1] \in Nat
    BY <1>1, <2>1 DEF N
  <2>5. R[n] \in Nat /\ R[n] + g[n + 1] <= g[1]
    BY <1>2, <1>5, <2>1
  <2>6. R[n + 1] + g[n + 2] <= g[1]
    <3>. DEFINE a == R[n]
                b == s[n + 1]
                c == g[n + 1]
                d == g[n + 2]
                e == g[1]
                h == R[n + 1]
    <3>1. h = a + b /\ c >= d + b /\ a + c <= e
      BY <2>2, <2>3, <2>5
    <3>2. a \in Nat /\ b \in Nat /\ c \in Nat /\ d \in Nat /\ e \in Nat
      BY <2>2, <2>4, <2>5
    <3>. HIDE DEF a, b, c, d, e, h
    <3>3. h + d <= e
      BY <3>1, <3>2
    <3>. QED
      BY <3>3 DEF h, d, e
  <2>. QED
    BY <2>1, <2>6
<1>6. N - 1 \in S
  <2>. HIDE DEF S
  <2>1. 0 .. N - 1 \subseteq S
    BY <1>1, <1>4, <1>5, UpTo
  <2>. QED
    BY <1>1, <2>1
<1>7. R[N - 1] + g[N] <= g[1]
  <2>1. (N - 1) + 1 = N
    BY <1>1
  <2>. QED
    BY <1>6, <2>1
<1>8. R[N] = R[N - 1] + s[N] /\ g[N] >= s[N] /\ g[N] \in Nat /\ g[1] \in Nat
      /\ s[N] \in Nat /\ R[N - 1] \in Nat
  <2>1. N \in 1 .. N /\ N - 1 \in 0 .. N /\ 1 \in 1 .. N
    BY <1>1
  <2>. QED
    BY <1>2, <1>3, <2>1 DEF N
<1>9. R[N] <= g[1]
  BY <1>7, <1>8
<1>. QED
  BY <1>9 DEF R, N, Total

-----------------------------------------------------------------------------
(* The host sends *)

LEMMA FlowParts ==
    ASSUME Typed
    PROVE  /\ Flow \in Seq(Packets) /\ Len(Flow) = Len(buf) + Len(down)
           /\ Len(buf) \in Nat /\ Len(down) \in Nat
           /\ \A i \in 1 .. Len(buf) : Flow[i] = buf[i]
           /\ \A i \in 1 .. Len(down) : Flow[Len(buf) + i] = down[i]
BY DEF Typed, Flow

LEMMA AppendTwo ==
    ASSUME NEW s \in Seq(Packets), NEW t \in Seq(Packets), NEW p \in Packets, NEW q \in Packets
    PROVE  s \o (t \o <<p, q>>) = Append(Append(s \o t, p), q)
<1>. DEFINE a == s \o (t \o <<p, q>>)
            b == Append(Append(s \o t, p), q)
<1>1. /\ t \o <<p, q>> \in Seq(Packets) /\ Len(t \o <<p, q>>) = Len(t) + 2
      /\ a \in Seq(Packets) /\ b \in Seq(Packets)
      /\ Len(s) \in Nat /\ Len(t) \in Nat
      /\ Len(a) = Len(s) + Len(t) + 2 /\ Len(b) = Len(s) + Len(t) + 2
  OBVIOUS
<1>2. ASSUME NEW i \in 1 .. Len(s) + Len(t) + 2 PROVE a[i] = b[i]
  <2>1. CASE i \in 1 .. Len(s)
    BY <1>1, <2>1
  <2>2. CASE i \in Len(s) + 1 .. Len(s) + Len(t)
    BY <1>1, <2>2
  <2>3. CASE i = Len(s) + Len(t) + 1
    BY <1>1, <2>3
  <2>4. CASE i = Len(s) + Len(t) + 2
    BY <1>1, <2>4
  <2>. HIDE DEF a, b
  <2>. DEFINE k == Len(s)
              m == Len(t)
  <2>5. k \in Nat /\ m \in Nat /\ i \in 1 .. k + m + 2
    BY <1>1
  <2>. HIDE DEF k, m
  <2>6. i \in 1 .. k \/ i \in k + 1 .. k + m \/ i = k + m + 1 \/ i = k + m + 2
    BY <2>5
  <2>. QED
    BY <2>1, <2>2, <2>3, <2>4, <2>6 DEF k, m
<1>. HIDE DEF a, b
<1>3. a = b
  BY <1>1, <1>2
<1>. QED
  BY <1>3 DEF a, b

LEMMA DataSentType ==
    ASSUME NEW x \in Counts, NEW n \in Nat
    PROVE  DataSent(x, n) \in Counts
<1>1. x + RoundPktSize(n) \in Int
  BY RoundType DEF Counts
<1>. QED
  BY <1>1, ModCases DEF DataSent

LEMMA ResyncPacket ==
    ASSUME NEW x \in Counts
    PROVE  LET q == Packet("resync", StrcSize, x)
           IN  /\ q \in Packets /\ q.type = "resync" /\ q.ofs = x
               /\ Room(q) = RoundPktSize(StrcSize) /\ Room(q) \in Nat /\ Room(q) <= MaxStrcSize
               /\ q.size = StrcSize
<1>1. RoundPktSize(StrcSize) \in Nat /\ RoundPktSize(StrcSize) <= MaxStrcSize
  BY RoundType, TxAssumption, Sizes
<1>. QED
  BY <1>1 DEF Packet, Packets, Room

\* The exception does not undo what was sent and counted.
Sends(p, x0, r0) == SendReturns(p, x0, r0) \/ SendThrows(p, x0, r0)

LEMMA SendTypes ==
    ASSUME Typed, NEW p \in Packets, NEW x0 \in Counts, NEW r0, Sends(p, x0, r0)
    PROVE  /\ down' \in Seq(Packets) /\ xfer' \in Counts /\ last_resync' \in Counts
           /\ resync_req' \in BOOLEAN
<1>. DEFINE x == DataSent(x0, p.size)
            q == Packet("resync", StrcSize, x)
            due0 == ResyncPending(x)
            due1 == ResyncDue(xfer', x)
<1>1. x \in Counts
  BY RoomType, DataSentType
<1>. HIDE DEF x
<1>2. q \in Packets /\ DataSent(x, StrcSize) \in Counts
  BY <1>1, ResyncPacket, DataSentType, Sizes
<1>3. down \in Seq(Packets) /\ last_resync \in Counts /\ resync_req \in BOOLEAN
  BY DEF Typed, TypeOK, Counts
<1>4. due0 \in BOOLEAN /\ due1 \in BOOLEAN
  BY <1>3 DEF ResyncDue, ResyncPending
<1>. HIDE DEF q, due0, due1
<1>5. \/ /\ down' = down \o <<p, q>> /\ last_resync' = x
         /\ xfer' = DataSent(x, StrcSize) /\ resync_req' = due1
      \/ /\ down' = Append(down, p) /\ xfer' = x
         /\ resync_req' = due0 /\ last_resync' = last_resync
  BY DEF Sends, SendReturns, SendThrows, SendWithResync, SendAlone, x, q, due0, due1
<1>6. down \o <<p, q>> \in Seq(Packets) /\ Append(down, p) \in Seq(Packets)
  BY <1>2, <1>3
<1>. QED
  BY <1>1, <1>2, <1>3, <1>4, <1>5, <1>6

\* A packet for which there was room, and perhaps a resync after it, add t to the
\* lag of every count that was no further behind than the host's.
LEMMA SendKeepsOrder ==
    ASSUME Typed, NEW p \in Packets, NEW x0 \in Counts, NEW r0 \in Counts,
           InOrder(Flow, x0) \/ p.type = "init", p.ofs = x0,
           LagOf(x0, r0) + Room(p) <= Capacity,
           p.type # "init" =>
                \A i \in 1 .. Len(Flow) : LagOf(x0, Flow[i].ofs) <= LagOf(x0, r0),
           Sends(p, x0, r0), buf' = buf
    PROVE  /\ InOrder(Flow', xfer')
           /\ Len(Flow') > Len(Flow) /\ \A i \in 1 .. Len(Flow) : Flow'[i] = Flow[i]
           /\ Flow'[Len(Flow) + 1] = p
           /\ \A i \in Len(Flow) + 2 .. Len(Flow') : Flow'[i].type = "resync"
           /\ \E t \in Nat :
                /\ LagOf(x0, r0) + t <= Capacity
                /\ \A r \in Counts : LagOf(x0, r) <= LagOf(x0, r0) =>
                        LagOf(xfer', r) = LagOf(x0, r) + t
                /\ \A i \in Len(Flow) + 1 .. Len(Flow') : LagOf(xfer', Flow'[i].ofs) <= t
<1>. DEFINE n == Room(p)
            x == (x0 + n) % CountMod
            q == Packet("resync", StrcSize, x)
            m == Room(q)
            y == (x + m) % CountMod
            L == Flow
            L1 == Append(L, p)
            L2 == Append(L1, q)
            N == Len(L)
            l0 == LagOf(x0, r0)
<1>1. /\ L \in Seq(Packets) /\ N \in Nat /\ L1 \in Seq(Packets)
      /\ Len(L1) = N + 1 /\ Len(L2) = N + 2 /\ L1[N + 1] = p /\ L2[N + 2] = q /\ L2[N + 1] = p
      /\ \A i \in 1 .. N : L1[i] = L[i] /\ L2[i] = L[i]
  BY FlowParts
<1>2. n \in Nat /\ l0 \in Nat /\ l0 + n <= Capacity
  BY RoomType, LagCases
<1>3. x = DataSent(x0, p.size)
  BY DEF DataSent, Room
<1>4. x \in Counts
  BY <1>3, RoomType, DataSentType
<1>5. q \in Packets /\ q.type = "resync" /\ q.ofs = x /\ m \in Nat /\ m <= MaxStrcSize
  BY <1>4, ResyncPacket
<1>6. y = DataSent(x, StrcSize)
  BY <1>4, ResyncPacket DEF DataSent
<1>7. \/ xfer' = x /\ Flow' = L1
      \/ xfer' = y /\ Flow' = L2 /\ ResyncRoom(x, r0)
  <2>1. \/ xfer' = x /\ down' = Append(down, p)
        \/ xfer' = y /\ down' = down \o <<p, q>> /\ ResyncRoom(x, r0)
    <3>. HIDE DEF x, y
    <3>. QED
      BY <1>3, <1>6 DEF Sends, SendReturns, SendThrows, SendWithResync, SendAlone
  <2>. HIDE DEF q
  <2>2. buf \o Append(down, p) = L1
    BY DEF Flow, Typed
  <2>3. buf \o (down \o <<p, q>>) = L2
    BY <1>5, AppendTwo DEF Flow, Typed
  <2>4. Flow' = buf \o down'
    BY DEF Flow
  <2>. QED
    BY <2>1, <2>2, <2>3, <2>4
<1>8. ASSUME NEW r \in Counts, LagOf(x0, r) <= l0
      PROVE  LagOf(x, r) = LagOf(x0, r) + n /\ LagOf(x0, r) \in Nat
  <2>1. LagOf(x0, r) + n < CountMod /\ LagOf(x0, r) \in Nat
    BY <1>2, <1>8, LagCases, Sizes
  <2>. QED
    BY <1>2, <2>1, LagGrows
<1>9. LagOf(x0, x0) = 0 /\ LagOf(x, x0) = n
  BY <1>2, <1>8, LagSelf
<1>10. InOrder(L1, x)
  <2>1. ASSUME NEW i \in 1 .. Len(L), Current(L1, i)
        PROVE  LagOf(x0, L[i].ofs) + Room(p) < CountMod
    <3>1. p.type # "init"
      <4>1. N + 1 \in i + 1 .. Len(L1)
        BY <1>1
      <4>. QED
        BY <1>1, <2>1, <4>1 DEF Current
    <3>2. LagOf(x0, L[i].ofs) <= l0
      BY <3>1
    <3>3. LagOf(x0, L[i].ofs) \in Nat
      BY <1>1, RoomAt
    <3>. HIDE DEF L, n, l0
    <3>. QED
      BY <1>2, <3>2, <3>3, Sizes DEF n
  <2>2. Room(p) < CountMod
    BY <1>2, Sizes
  <2>3. InOrder(L, x0) \/ p.type = "init"
    OBVIOUS
  <2>4. L \in Seq(Packets)
    BY <1>1
  <2>. HIDE DEF L
  <2>. QED
    BY <2>1, <2>2, <2>3, <2>4, AppendInOrder
<1>11. CASE xfer' = x /\ Flow' = L1
  <2>1. \A r \in Counts : LagOf(x0, r) <= l0 => LagOf(xfer', r) = LagOf(x0, r) + n
    BY <1>8, <1>11
  <2>2. \A i \in N + 1 .. Len(L1) : LagOf(x, L1[i].ofs) <= n
    <3>. HIDE DEF L1, x, n
    <3>. QED
      BY <1>1, <1>2, <1>9
  <2>3. InOrder(Flow', xfer')
    BY <1>10, <1>11
  <2>4. \A i \in N + 2 .. Len(L1) : FALSE
    BY <1>1
  <2>. HIDE DEF x, L1, L, n
  <2>5. /\ Len(Flow') > Len(Flow) /\ \A i \in 1 .. Len(Flow) : Flow'[i] = Flow[i]
        /\ Flow'[Len(Flow) + 1] = p
        /\ \A i \in Len(Flow) + 2 .. Len(Flow') : FALSE
    BY <1>1, <1>11, <2>4 DEF L
  <2>6. \A i \in Len(Flow) + 1 .. Len(Flow') : LagOf(xfer', Flow'[i].ofs) <= n
    BY <1>11, <2>2 DEF L
  <2>. QED
    BY <1>2, <2>1, <2>3, <2>5, <2>6
<1>12. CASE xfer' = y /\ Flow' = L2 /\ ResyncRoom(x, r0)
  <2>1. LagOf(x, r0) = l0 + n
    BY <1>2, <1>8
  <2>2. l0 + n + m <= Capacity
    <3>1. LagOf(x, r0) <= Capacity
      BY <1>2, <2>1
    <3>. HIDE DEF x
    <3>2. LagOf(x, r0) + MaxStrcSize <= Capacity
      BY <1>4, <1>12, <3>1, SpaceIsRoom, Sizes DEF ResyncRoom
    <3>. HIDE DEF l0, n, m
    <3>. QED
      BY <1>2, <1>5, <2>1, <3>2, Sizes
  <2>3. ASSUME NEW r \in Counts, LagOf(x, r) <= l0 + n
        PROVE  LagOf(y, r) = LagOf(x, r) + m /\ LagOf(x, r) \in Nat
    <3>. HIDE DEF x
    <3>1. LagOf(x, r) \in Nat
      BY <1>4, LagCases
    <3>. HIDE DEF m, n, l0
    <3>2. LagOf(x, r) + m < CountMod
      BY <1>2, <1>5, <2>2, <2>3, <3>1, Sizes
    <3>. QED
      BY <1>4, <1>5, <3>1, <3>2, LagGrows DEF m
  <2>4. ASSUME NEW r \in Counts, LagOf(x0, r) <= l0
        PROVE  LagOf(y, r) = LagOf(x0, r) + (n + m)
    <3>1. LagOf(x, r) = LagOf(x0, r) + n /\ LagOf(x0, r) \in Nat
      BY <1>8, <2>4
    <3>. HIDE DEF x, y, l0, n, m
    <3>2. LagOf(x, r) <= l0 + n
      BY <1>2, <2>4, <3>1
    <3>. QED
      BY <1>2, <1>5, <2>3, <3>1, <3>2
  <2>5. ASSUME NEW i \in 1 .. Len(L1), Current(L2, i)
        PROVE  LagOf(x, L1[i].ofs) + Room(q) < CountMod
    <3>1. CASE i = N + 1
      <4>1. LagOf(x, L1[i].ofs) = n
        BY <1>1, <1>9, <3>1
      <4>. HIDE DEF x, n, m, L1, l0
      <4>. QED
        BY <1>2, <1>5, <2>2, <4>1, Sizes DEF m
    <3>2. CASE i # N + 1
      <4>1. i \in 1 .. N /\ L1[i] = L[i]
        BY <1>1, <3>2
      <4>2. p.type # "init"
        <5>1. N + 1 \in i + 1 .. Len(L2)
          BY <1>1, <4>1
        <5>. QED
          BY <1>1, <2>5, <5>1 DEF Current
      <4>3. LagOf(x0, L[i].ofs) <= l0
        BY <4>1, <4>2
      <4>5. L[i].ofs \in Counts
        BY <1>1, <4>1, RoomAt
      <4>4. LagOf(x, L[i].ofs) = LagOf(x0, L[i].ofs) + n /\ LagOf(x0, L[i].ofs) \in Nat
        BY <1>8, <4>3, <4>5
      <4>. HIDE DEF x, n, m, L1, L, l0
      <4>. QED
        BY <1>2, <1>5, <2>2, <4>1, <4>3, <4>4, Sizes DEF m
    <3>. QED
      BY <3>1, <3>2
  <2>6. InOrder(L2, y)
    <3>1. Room(q) < CountMod
      <4>. HIDE DEF n, m, l0
      <4>. QED
        BY <1>2, <1>5, <2>2, Sizes DEF m
    <3>2. L1 \in Seq(Packets)
      BY FlowParts
    <3>. HIDE DEF x, L1, q
    <3>. QED
      BY <1>4, <1>5, <1>10, <2>5, <3>1, <3>2, AppendInOrder
  <2>7. LagOf(y, x0) = n + m /\ LagOf(y, x) = m
    <3>1. LagOf(y, x0) = 0 + (n + m)
      BY <1>2, <1>9, <2>4
    <3>. HIDE DEF x, y
    <3>2. LagOf(x, x) = 0
      BY <1>4, LagSelf
    <3>. HIDE DEF n, m, l0
    <3>3. LagOf(y, x) = 0 + m
      BY <1>2, <1>4, <2>3, <3>2
    <3>. QED
      BY <1>2, <1>5, <3>1, <3>3
  <2>. HIDE DEF x, y, q, m, n, L, l0
  <2>8. \A i \in N + 1 .. Len(L2) : LagOf(y, L2[i].ofs) <= n + m
    <3>1. \A i \in N + 1 .. Len(L2) : i = N + 1 \/ i = N + 2
      BY <1>1
    <3>2. LagOf(y, L2[N + 1].ofs) <= n + m /\ LagOf(y, L2[N + 2].ofs) <= n + m
      BY <1>1, <1>2, <1>5, <2>7
    <3>. QED
      BY <3>1, <3>2
  <2>9. \A i \in N + 2 .. Len(L2) : L2[i].type = "resync"
    BY <1>1, <1>5
  <2>10. n + m \in Nat /\ l0 + (n + m) <= Capacity
    BY <1>2, <1>5, <2>2, Sizes
  <2>. HIDE DEF L2
  <2>11. /\ Len(Flow') > Len(Flow) /\ \A i \in 1 .. Len(Flow) : Flow'[i] = Flow[i]
         /\ Flow'[Len(Flow) + 1] = p
         /\ \A i \in Len(Flow) + 2 .. Len(Flow') : Flow'[i].type = "resync"
    BY <1>1, <1>12, <2>9 DEF L
  <2>12. /\ \A r \in Counts : LagOf(x0, r) <= l0 => LagOf(xfer', r) = LagOf(x0, r) + (n + m)
         /\ \A i \in Len(Flow) + 1 .. Len(Flow') : LagOf(xfer', Flow'[i].ofs) <= n + m
         /\ InOrder(Flow', xfer')
    BY <1>12, <2>4, <2>6, <2>8 DEF L
  <2>. QED
    BY <2>10, <2>11, <2>12 DEF l0
<1>. QED
  BY <1>7, <1>11, <1>12

-----------------------------------------------------------------------------
(* Types *)

HostTypes ==
    /\ xfer \in Counts /\ recv \in Counts /\ last_resync \in Counts
    /\ resync_req \in BOOLEAN /\ held \in BOOLEAN /\ mode \in {"run", "init", "drain"}
LinkTypes == buf \in Seq(Packets) /\ down \in Seq(Packets) /\ up \in Seq(Counts)
FpgaTypes ==
    /\ cnt \in Counts /\ accum \in Nat /\ due \in BOOLEAN /\ sending \in BOOLEAN
BoundTypes ==
    /\ cut_short \in BOOLEAN /\ uncounted \in BOOLEAN
    /\ npkts \in Nat /\ nloss \in Nat /\ ninits \in Nat

LEMMA SeqSubset ==
    ASSUME NEW S, NEW T, S \subseteq T, NEW s \in Seq(S)
    PROVE  s \in Seq(T)
<1>1. Len(s) \in Nat /\ \A i \in 1 .. Len(s) : s[i] \in T
  OBVIOUS
<1>2. s = [i \in 1 .. Len(s) |-> s[i]]
  OBVIOUS
<1>. QED
  BY <1>1, <1>2

LEMMA TypedParts == Typed <=> HostTypes /\ LinkTypes /\ FpgaTypes /\ BoundTypes
<1>1. Packets \subseteq PacketType /\ Counts \subseteq Nat
  BY RoomType DEF Counts
<1>2. ASSUME LinkTypes
      PROVE  buf \in Seq(PacketType) /\ down \in Seq(PacketType) /\ up \in Seq(Nat)
  BY <1>1, <1>2, SeqSubset DEF LinkTypes
<1>. QED
  BY <1>2 DEF Typed, TypeOK, HostTypes, LinkTypes, FpgaTypes, BoundTypes, Counts

LEMMA ReleaseTypes ==
    ASSUME Typed, NEW n \in PktSizes, Sends(Packet("data", n, xfer), xfer, recv)
    PROVE  /\ Packet("data", n, xfer) \in Packets /\ down' \in Seq(Packets)
           /\ xfer' \in Counts /\ last_resync' \in Counts /\ resync_req' \in BOOLEAN
<1>1. xfer \in Counts
  BY TypedParts DEF HostTypes
<1>2. Packet("data", n, xfer) \in Packets
  BY <1>1 DEF Packet, Packets
<1>. QED
  BY <1>1, <1>2, SendTypes

LEMMA InitTypes ==
    ASSUME Typed, Sends(Packet("init", StrcSize, 0), 0, 0)
    PROVE  /\ Packet("init", StrcSize, 0) \in Packets /\ down' \in Seq(Packets)
           /\ xfer' \in Counts /\ last_resync' \in Counts /\ resync_req' \in BOOLEAN
<1>1. 0 \in Counts
  BY Sizes DEF Counts
<1>2. Packet("init", StrcSize, 0) \in Packets
  BY DEF Packet, Packets
<1>. QED
  BY <1>1, <1>2, SendTypes

LEMMA LinkTypesParts ==
    ASSUME LinkTypes
    PROVE  /\ down # <<>> => /\ Append(buf, Head(down)) \in Seq(Packets)
                             /\ Tail(down) \in Seq(Packets)
           /\ buf # <<>> => Head(buf) \in Packets /\ Tail(buf) \in Seq(Packets)
           /\ up # <<>> => /\ Head(up) \in Counts /\ Tail(up) \in Seq(Counts)
                           /\ Last(up) \in Counts /\ Last(up) = up[Len(up)]
           /\ \A c \in Counts : Append(up, c) \in Seq(Counts)
           /\ \A k \in 0 .. Len(down) : SubSeq(down, k + 1, Len(down)) \in Seq(Packets)
           /\ <<>> \in Seq(Packets) /\ <<>> \in Seq(Counts)
<1>1. buf \in Seq(Packets) /\ down \in Seq(Packets) /\ up \in Seq(Counts)
  BY DEF LinkTypes
<1>2. down # <<>> => Append(buf, Head(down)) \in Seq(Packets) /\ Tail(down) \in Seq(Packets)
  BY <1>1
<1>3. buf # <<>> => Head(buf) \in Packets /\ Tail(buf) \in Seq(Packets)
  BY <1>1
<1>4. up # <<>> => Head(up) \in Counts /\ Tail(up) \in Seq(Counts)
  BY <1>1
<1>5. up # <<>> => Last(up) \in Counts /\ Last(up) = up[Len(up)]
  <2>. SUFFICES ASSUME up # <<>> PROVE up[Len(up)] \in Counts
    BY DEF Last
  <2>1. Len(up) \in 1 .. Len(up)
    BY <1>1
  <2>. QED
    BY <1>1, <2>1
<1>6. \A k \in 0 .. Len(down) : SubSeq(down, k + 1, Len(down)) \in Seq(Packets)
  BY <1>1
<1>7. \A c \in Counts : Append(up, c) \in Seq(Counts)
  BY <1>1
<1>. QED
  BY <1>2, <1>3, <1>4, <1>5, <1>6, <1>7

LEMMA CountType ==
    ASSUME FpgaTypes, NEW p \in Packets
    PROVE  /\ (cnt + Room(p)) % CountMod \in Counts /\ accum + Room(p) \in Nat
           /\ ResyncCount(p) \in Counts
<1>1. Room(p) \in Nat /\ p.ofs \in Counts
  BY RoomType
<1>2. cnt + Room(p) \in Int
  BY <1>1 DEF FpgaTypes, Counts
<1>. QED
  BY <1>1, <1>2, ModCases DEF FpgaTypes, ResyncCount

LEMMA TypesInit == Init => Typed
<1>. SUFFICES ASSUME Init PROVE HostTypes /\ LinkTypes /\ FpgaTypes /\ BoundTypes
  BY TypedParts
<1>1. 0 \in Counts
  BY Sizes DEF Counts
<1>2. HostTypes /\ FpgaTypes /\ BoundTypes
  BY <1>1 DEF Init, HostTypes, FpgaTypes, BoundTypes
<1>3. LinkTypes
  BY DEF Init, LinkTypes
<1>. QED
  BY <1>2, <1>3

LEMMA TypesNext == Typed /\ [Next]_vars => Typed'
<1>. SUFFICES ASSUME Typed, [Next]_vars PROVE Typed'
  OBVIOUS
<1>. USE DEF host, dev, history, bounds
<1>0. HostTypes /\ LinkTypes /\ FpgaTypes /\ BoundTypes
  BY TypedParts
<1>. SUFFICES HostTypes' /\ LinkTypes' /\ FpgaTypes' /\ BoundTypes'
  BY TypedParts, PTL
<1>1. CASE GetSendBuff
  BY <1>0, <1>1 DEF GetSendBuff, HostTypes, LinkTypes, FpgaTypes, BoundTypes
<1>2. CASE GetSendBuffTimeout
  BY <1>0, <1>2 DEF GetSendBuffTimeout, vars, HostTypes, LinkTypes, FpgaTypes, BoundTypes
<1>3. CASE ReleaseSendBuff
  <2>1. /\ down' \in Seq(Packets) /\ xfer' \in Counts /\ last_resync' \in Counts
        /\ resync_req' \in BOOLEAN
    BY <1>3, ReleaseTypes DEF ReleaseSendBuff, Sends
  <2>2. HostTypes' /\ LinkTypes'
    BY <1>0, <1>3, <2>1 DEF ReleaseSendBuff, HostTypes, LinkTypes
  <2>3. FpgaTypes' /\ BoundTypes'
    BY <1>0, <1>3 DEF ReleaseSendBuff, FpgaTypes, BoundTypes
  <2>. QED
    BY <2>2, <2>3
<1>4. CASE RecvStrs
  BY <1>0, <1>4, LinkTypesParts
     DEF RecvStrs, HostTypes, LinkTypes, FpgaTypes, BoundTypes
<1>5. CASE ResendInit
  <2>1. /\ down' \in Seq(Packets) /\ xfer' \in Counts /\ last_resync' \in Counts
        /\ resync_req' \in BOOLEAN
    BY <1>5, InitTypes DEF ResendInit, Sends
  <2>2. 0 \in Counts
    BY Sizes DEF Counts
  <2>3. mode' \in {mode, "init"} /\ cut_short' \in BOOLEAN
    BY <1>0, <1>5 DEF ResendInit, BoundTypes
  <2>4. HostTypes' /\ LinkTypes'
    BY <1>0, <1>5, <2>1, <2>2, <2>3 DEF ResendInit, HostTypes, LinkTypes
  <2>5. FpgaTypes' /\ BoundTypes'
    BY <1>0, <1>5, <2>3 DEF ResendInit, FpgaTypes, BoundTypes
  <2>. QED
    BY <2>4, <2>5
<1>6. CASE SleepDone
  BY <1>0, <1>6 DEF SleepDone, HostTypes, LinkTypes, FpgaTypes, BoundTypes
<1>16. CASE DrainStrs
  BY <1>0, <1>16, LinkTypesParts
     DEF DrainStrs, HostTypes, LinkTypes, FpgaTypes, BoundTypes
<1>17. CASE InitDone
  BY <1>0, <1>17 DEF InitDone, HostTypes, LinkTypes, FpgaTypes, BoundTypes
<1>7. CASE Arrive
  BY <1>0, <1>7, LinkTypesParts DEF Arrive, HostTypes, LinkTypes, FpgaTypes, BoundTypes
<1>8. CASE DevData
  <2>1. Head(buf) \in Packets
    BY <1>0, <1>8, LinkTypesParts DEF DevData, Passes
  <2>2. cnt' \in Counts /\ accum' \in Nat
    BY <1>0, <1>8, <2>1, CountType DEF DevData, Count, Room
  <2>3. due' \in BOOLEAN
    BY <1>0, <1>8 DEF DevData, FpgaTypes, FcRespDue
  <2>. QED
    BY <1>0, <1>8, <2>2, <2>3, LinkTypesParts
       DEF DevData, Passes, HostTypes, LinkTypes, FpgaTypes, BoundTypes
<1>9. CASE DevResync
  <2>1. Head(buf) \in Packets
    BY <1>0, <1>9, LinkTypesParts DEF DevResync, Passes
  <2>2. cnt' \in Counts /\ accum' \in Nat
    BY <1>0, <1>9, <2>1, CountType DEF DevResync, Room
  <2>. QED
    BY <1>0, <1>9, <2>2, LinkTypesParts
       DEF DevResync, Passes, HostTypes, LinkTypes, FpgaTypes, BoundTypes
<1>10. CASE DevInit
  <2>1. 0 \in Counts
    BY Sizes DEF Counts
  <2>2. buf' \in Seq(Packets) /\ down' \in Seq(Packets)
    BY <1>0, <1>10, LinkTypesParts DEF DevInit
  <2>. QED
    BY <1>0, <1>10, <2>1, <2>2 DEF DevInit, HostTypes, LinkTypes, FpgaTypes, BoundTypes
<1>11. CASE DevSendStrs
  BY <1>0, <1>11, LinkTypesParts
     DEF DevSendStrs, HostTypes, LinkTypes, FpgaTypes, BoundTypes
<1>12. CASE DevRefresh
  BY <1>0, <1>12 DEF DevRefresh, HostTypes, LinkTypes, FpgaTypes, BoundTypes
<1>13. CASE LoseDown
  BY <1>0, <1>13, LinkTypesParts
     DEF LoseDown, HostTypes, LinkTypes, FpgaTypes, BoundTypes
<1>14. CASE LoseUp
  BY <1>0, <1>14, LinkTypesParts DEF LoseUp, HostTypes, LinkTypes, FpgaTypes, BoundTypes
<1>15. CASE UNCHANGED vars
  BY <1>0, <1>15 DEF vars, HostTypes, LinkTypes, FpgaTypes, BoundTypes
<1>. QED
  BY <1>1, <1>2, <1>3, <1>4, <1>5, <1>6, <1>7, <1>8, <1>9, <1>10, <1>11, <1>12, <1>13,
     <1>14, <1>15, <1>16, <1>17 DEF Next, Host, Fpga, Link, Stopped

LEMMA TypesInvariant == Spec => []Typed
BY TypesInit, TypesNext, PTL DEF Spec

\* All counts and packets keep their types, whatever goes wrong.
THEOREM TypeCorrect == Spec => []TypeOK
<1>1. Typed => TypeOK
  BY DEF Typed
<1>. QED
  BY <1>1, TypesInvariant, PTL

-----------------------------------------------------------------------------
(* What each step does to the packets on the way *)

LEMMA Numbers ==
    ASSUME Typed
    PROVE  /\ xfer \in Counts /\ recv \in Counts /\ cnt \in Counts /\ Base \in Counts
           /\ Lag(recv) \in Nat /\ Lag(cnt) \in Nat /\ Lag(Base) \in Nat
           /\ mode \in {"run", "init", "drain"}
           /\ up \in Seq(Counts) /\ Len(up) \in Nat
           /\ \A i \in 1 .. Len(up) : up[i] \in Counts /\ Lag(up[i]) \in Nat
           /\ Flow \in Seq(Packets) /\ Len(Flow) \in Nat
           /\ \A i \in 1 .. Len(Flow) : Flow[i] \in Packets /\ Flow[i].ofs \in Counts
                        /\ Lag(Flow[i].ofs) \in Nat /\ Room(Flow[i]) \in Nat
<1>1. xfer \in Counts /\ recv \in Counts /\ cnt \in Counts /\ up \in Seq(Counts)
  BY TypedParts DEF HostTypes, FpgaTypes, LinkTypes
<1>6. Base \in Counts /\ mode \in {"run", "init", "drain"}
  BY <1>1, TypedParts, Sizes DEF HostTypes, Base, Counts
<1>2. \A i \in 1 .. Len(up) : up[i] \in Counts
  BY <1>1
<1>3. Flow \in Seq(Packets)
  BY FlowParts
<1>4. \A i \in 1 .. Len(Flow) : Flow[i] \in Packets /\ Flow[i].ofs \in Counts
                /\ Lag(Flow[i].ofs) \in Nat /\ Room(Flow[i]) \in Nat
  BY <1>1, <1>3, RoomAt DEF Lag
<1>5. Len(Flow) \in Nat /\ Len(up) \in Nat
  BY <1>1, <1>3
<1>. QED
  BY <1>1, <1>2, <1>3, <1>4, <1>5, <1>6, LagCases DEF Lag

LEMMA ArriveFlow ==
    ASSUME Typed, Arrive
    PROVE  Flow' = Flow
<1>1. /\ buf \in Seq(Packets) /\ down \in Seq(Packets) /\ down # <<>>
      /\ Flow' = Append(buf, Head(down)) \o Tail(down)
  BY DEF Typed, Arrive, Flow
<1>. DEFINE a == Append(buf, Head(down)) \o Tail(down)
            b == buf \o down
<1>2. Head(down) \in Packets /\ Tail(down) \in Seq(Packets) /\ Len(down) \in Nat \ {0}
      /\ Append(buf, Head(down)) \in Seq(Packets)
  BY <1>1
<1>3. a \in Seq(Packets) /\ b \in Seq(Packets)
      /\ Len(a) = Len(buf) + Len(down) /\ Len(b) = Len(buf) + Len(down)
  BY <1>1, <1>2
<1>4. ASSUME NEW i \in 1 .. Len(buf) + Len(down) PROVE a[i] = b[i]
  BY <1>1, <1>2
<1>. HIDE DEF a, b
<1>5. a = b
  BY <1>3, <1>4
<1>. QED
  BY <1>1, <1>5 DEF a, b, Flow

LEMMA FrontTaken ==
    ASSUME Typed, buf # <<>>, buf' = Tail(buf), down' = down
    PROVE  /\ 1 \in 1 .. Len(Flow) /\ Flow[1] = Head(buf) /\ Len(Flow') + 1 = Len(Flow)
           /\ \A i \in 1 .. Len(Flow') : Flow'[i] = Flow[1 + i]
<1>1. buf \in Seq(Packets) /\ down \in Seq(Packets) /\ Flow' = Tail(buf) \o down
  BY DEF Typed, Flow
<1>. QED
  BY <1>1 DEF Flow

LEMMA FlushedTo ==
    ASSUME Typed, NEW k \in 0 .. Len(down), buf' = <<>>,
           down' = SubSeq(down, k + 1, Len(down))
    PROVE  /\ Len(buf) + k \in Nat /\ Len(Flow') + (Len(buf) + k) = Len(Flow)
           /\ \A i \in 1 .. Len(Flow') : Flow'[i] = Flow[(Len(buf) + k) + i]
<1>1. buf \in Seq(Packets) /\ down \in Seq(Packets) /\ Flow' = <<>> \o down'
  BY DEF Typed, Flow
<1>2. /\ down' \in Seq(Packets) /\ Len(down') = Len(down) - k
      /\ \A i \in 1 .. Len(down) - k : down'[i] = down[k + i]
  BY <1>1
<1>3. Len(Flow') = Len(down') /\ \A i \in 1 .. Len(down') : Flow'[i] = down'[i]
  BY <1>1, <1>2
<1>4. Len(buf) \in Nat /\ Len(down) \in Nat /\ Len(Flow) = Len(buf) + Len(down)
      /\ \A i \in 1 .. Len(down) : Flow[Len(buf) + i] = down[i]
  BY FlowParts
<1>5. ASSUME NEW i \in 1 .. Len(Flow') PROVE Flow'[i] = Flow[(Len(buf) + k) + i]
  <2>. DEFINE b == Len(buf)
              d == Len(down)
  <2>3. i \in 1 .. d - k /\ b \in Nat /\ d \in Nat
    BY <1>2, <1>3, <1>4
  <2>4. i \in 1 .. d - k /\ k + i \in 1 .. d /\ (b + k) + i = b + (k + i)
    <3>. HIDE DEF b, d
    <3>. QED
      BY <2>3
  <2>1. i \in 1 .. Len(down) - k /\ k + i \in 1 .. Len(down)
        /\ (Len(buf) + k) + i = Len(buf) + (k + i)
    BY <2>4
  <2>2. Flow'[i] = down[k + i] /\ Flow[Len(buf) + (k + i)] = down[k + i]
    BY <1>2, <1>3, <1>4, <2>1
  <2>. QED
    BY <2>1, <2>2
<1>. QED
  BY <1>2, <1>3, <1>4, <1>5

LEMMA LostOnTheWay ==
    ASSUME Typed, down # <<>>, buf' = buf, down' = Tail(down)
    PROVE  LET n == Len(buf) + 1
           IN  /\ n \in 1 .. Len(Flow) /\ Flow[n] = Head(down) /\ Len(Flow') + 1 = Len(Flow)
               /\ \A i \in 1 .. Len(Flow') : Flow'[i] = Flow[IF i < n THEN i ELSE i + 1]
<1>. DEFINE n == Len(buf) + 1
<1>1. buf \in Seq(Packets) /\ down \in Seq(Packets) /\ Flow' = buf \o Tail(down)
  BY DEF Typed, Flow
<1>2. /\ Tail(down) \in Seq(Packets) /\ Len(Tail(down)) + 1 = Len(down)
      /\ Head(down) = down[1] /\ Len(down) \in Nat \ {0}
      /\ \A i \in 1 .. Len(Tail(down)) : Tail(down)[i] = down[i + 1]
  BY <1>1
<1>3. Len(buf) \in Nat /\ Len(Flow) = Len(buf) + Len(down)
      /\ (\A i \in 1 .. Len(buf) : Flow[i] = buf[i])
      /\ \A i \in 1 .. Len(down) : Flow[Len(buf) + i] = down[i]
  BY FlowParts
<1>4. /\ Len(Flow') = Len(buf) + Len(Tail(down))
      /\ \A i \in 1 .. Len(buf) : Flow'[i] = buf[i]
      /\ \A i \in 1 .. Len(Tail(down)) : Flow'[Len(buf) + i] = Tail(down)[i]
  BY <1>1, <1>2
<1>5. ASSUME NEW i \in 1 .. Len(Flow') PROVE Flow'[i] = Flow[IF i < n THEN i ELSE i + 1]
  <2>1. CASE i < n
    BY <1>2, <1>3, <1>4, <2>1
  <2>2. CASE ~(i < n)
    <3>. DEFINE j == i - Len(buf)
    <3>1. j \in 1 .. Len(Tail(down)) /\ i = Len(buf) + j /\ j + 1 \in 1 .. Len(down)
          /\ i + 1 = Len(buf) + (j + 1)
      BY <1>2, <1>3, <1>4, <2>2
    <3>. HIDE DEF j
    <3>2. Flow'[i] = down[j + 1] /\ Flow[i + 1] = down[j + 1]
      BY <1>2, <1>3, <1>4, <3>1
    <3>. QED
      BY <2>2, <3>2
  <2>. QED
    BY <2>1, <2>2
<1>6. Flow[Len(buf) + 1] = down[1] /\ n \in 1 .. Len(Flow)
  BY <1>2, <1>3
<1>. QED
  BY <1>2, <1>3, <1>4, <1>5, <1>6

-----------------------------------------------------------------------------
(* The invariant *)

\* Steps that move neither packets nor counts.
LEMMA Stays ==
    ASSUME Sound, Typed', Flow' = Flow, UNCHANGED <<xfer, recv, cnt, mode, up, due, held>>
    PROVE  Sound'
<1>0. Base' = Base
  BY DEF Base
<1>1. InSequence' /\ Fits'
  BY <1>0 DEF Sound, InSequence, Fits, Lag
<1>2. NoInit' = NoInit
  BY DEF NoInit
<1>3. Behind'
  BY <1>0, <1>2 DEF Sound, Behind, Lag
<1>4. Running' /\ Initializing' /\ Draining'
  BY <1>2 DEF Sound, Running, Initializing, Draining, Lag
<1>. QED
  BY <1>1, <1>3, <1>4 DEF Sound

\* Packets leave the flow, by consumption or by a loss.
LEMMA Leaves ==
    ASSUME Sound, Typed', UNCHANGED <<xfer, recv, mode, up, held>>,
           InOrder(Flow', xfer),
           NoInit' => /\ Lag(Base) >= LagOf(xfer, cnt')
                      /\ \A i \in 1 .. Len(Flow') : LagOf(xfer, cnt') >= LagOf(xfer, Flow'[i].ofs),
           mode # "init" => NoInit' /\ LagOf(xfer, cnt') <= Lag(cnt),
           mode = "init" =>
                /\ \A i, j \in 1 .. Len(Flow') :
                        Flow'[i].type = "init" /\ Flow'[j].type = "init" => i = j
                /\ NoInit' /\ ~due' => NoInit /\ ~due /\ LagOf(xfer, cnt') <= Lag(cnt)
    PROVE  Sound'
<1>0. Base' = Base
  BY DEF Base
<1>1. InSequence' /\ Fits'
  BY <1>0 DEF Sound, InSequence, Fits, Lag
<1>2. Behind'
  BY <1>0 DEF Behind, Lag
<1>3. LagOf(xfer, cnt') \in Nat
  <2>1. xfer \in Counts /\ cnt' \in Counts
    BY DEF Sound, Typed, TypeOK, Counts
  <2>. QED
    BY <2>1, LagCases
<1>4. Running'
  <2>. SUFFICES ASSUME mode = "run" PROVE Running'
    BY DEF Running
  <2>1. \A i \in 1 .. Len(up) : /\ Lag(recv) >= Lag(up[i]) /\ Lag(up[i]) >= Lag(cnt)
                                /\ Lag(up[i]) \in Nat /\ Lag(cnt) \in Nat
    BY Numbers DEF Sound, Running
  <2>2. \A i \in 1 .. Len(up) : Lag(up[i]) >= LagOf(xfer, cnt')
    BY <1>3, <2>1
  <2>3. \A i \in 1 .. Len(up) : \A j \in i + 1 .. Len(up) : Lag(up[i]) >= Lag(up[j])
    BY DEF Sound, Running
  <2>. QED
    BY <2>1, <2>2, <2>3 DEF Running, Lag
<1>5. Initializing'
  <2>. SUFFICES ASSUME mode = "init" PROVE Initializing'
    BY DEF Initializing
  <2>1. ~held' /\ recv' = 0
    BY DEF Sound, Initializing
  <2>2. ASSUME NoInit', ~due', up # <<>>
        PROVE  Lag(0) >= Lag(up[Len(up)]) /\ Lag(up[Len(up)]) >= LagOf(xfer, cnt')
    <3>1. Lag(0) >= Lag(up[Len(up)]) /\ Lag(up[Len(up)]) >= Lag(cnt)
      BY <2>2 DEF Sound, Initializing
    <3>2. Len(up) \in 1 .. Len(up)
      BY <2>2, Numbers DEF Sound
    <3>3. Lag(up[Len(up)]) \in Nat /\ Lag(cnt) \in Nat
      BY <3>2, Numbers DEF Sound
    <3>4. LagOf(xfer, cnt') <= Lag(cnt)
      BY <2>2
    <3>. QED
      BY <1>3, <3>1, <3>3, <3>4
  <2>. QED
    BY <2>1, <2>2 DEF Initializing, Lag
<1>6. Draining'
  <2>. SUFFICES ASSUME mode = "drain" PROVE Draining'
    BY DEF Draining
  <2>. DEFINE r == IF up = <<>> THEN recv ELSE up[Len(up)]
  <2>1. ~held' /\ NoInit' /\ Lag(0) >= Lag(r) /\ Lag(r) >= Lag(cnt)
    BY DEF Sound, Draining
  <2>2. Lag(r) \in Nat /\ Lag(cnt) \in Nat
    <3>1. up # <<>> => Len(up) \in 1 .. Len(up)
      BY Numbers DEF Sound
    <3>. QED
      BY <3>1, Numbers DEF Sound
  <2>3. r' = r
    OBVIOUS
  <2>. HIDE DEF r
  <2>4. Lag(r) >= LagOf(xfer, cnt')
    BY <1>3, <2>1, <2>2
  <2>. QED
    BY <2>1, <2>3, <2>4 DEF Draining, Lag, r
<1>. QED
  BY <1>1, <1>2, <1>4, <1>5, <1>6 DEF Sound

LEMMA RecvStrsKeeps == ASSUME Sound, Typed', RecvStrs PROVE Sound'
<1>1. /\ mode = "run" /\ up # <<>> /\ recv' = Head(up) /\ up' = Tail(up) /\ Flow' = Flow
      /\ UNCHANGED <<xfer, cnt, mode, due, held>>
  BY DEF RecvStrs, Flow, host, dev
<1>11. Base = recv /\ Base' = recv'
  BY <1>1 DEF Base
<1>2. up \in Seq(Counts) /\ Len(up) \in Nat
  BY Numbers DEF Sound
<1>3. /\ 1 \in 1 .. Len(up) /\ recv' = up[1] /\ Len(up') + 1 = Len(up)
      /\ \A i \in 1 .. Len(up') : up'[i] = up[i + 1] /\ i + 1 \in 2 .. Len(up)
  BY <1>1, <1>2
<1>4. /\ NoInit /\ NoInit'
      /\ \A i \in 1 .. Len(up) : Lag(recv) >= Lag(up[i]) /\ Lag(up[i]) >= Lag(cnt)
      /\ \A i \in 1 .. Len(up) : \A j \in i + 1 .. Len(up) : Lag(up[i]) >= Lag(up[j])
  BY <1>1 DEF Sound, Running, NoInit
<1>5. Lag(up[1]) <= Lag(recv) /\ Lag(up[1]) \in Nat /\ Lag(recv) \in Nat /\ Lag(up[1]) >= Lag(cnt)
  BY <1>3, <1>4, Numbers DEF Sound
<1>6. InSequence'
  BY <1>1 DEF Sound, InSequence
<1>7. Fits'
  <2>1. Lag(recv) <= Capacity /\ (held => Lag(recv) + FrameSize <= Capacity)
    BY <1>11 DEF Sound, Fits
  <2>2. Lag(up[1]) <= Capacity /\ (held => Lag(up[1]) + FrameSize <= Capacity)
    BY <1>5, <2>1, Sizes
  <2>. QED
    BY <1>1, <1>3, <1>11, <2>2 DEF Fits, Lag
<1>8. Behind'
  BY <1>1, <1>3, <1>4, <1>5, <1>11 DEF Sound, Behind, Lag
<1>9. Running'
  <2>1. \A i \in 1 .. Len(up') : Lag(up[1]) >= Lag(up[i + 1]) /\ Lag(up[i + 1]) >= Lag(cnt)
    BY <1>3, <1>4
  <2>2. ASSUME NEW i \in 1 .. Len(up'), NEW j \in i + 1 .. Len(up')
        PROVE  Lag(up'[i]) >= Lag(up'[j])
    <3>1. i + 1 \in 1 .. Len(up) /\ j + 1 \in (i + 1) + 1 .. Len(up) /\ j \in 1 .. Len(up')
      BY <1>2, <1>3
    <3>. QED
      BY <1>3, <1>4, <3>1
  <2>. QED
    BY <1>1, <1>3, <1>4, <2>1, <2>2 DEF Running, Lag
<1>10. Initializing' /\ Draining'
  BY <1>1 DEF Initializing, Draining
<1>. QED
  BY <1>6, <1>7, <1>8, <1>9, <1>10 DEF Sound

LEMMA SleepDoneKeeps == ASSUME Sound, Typed', SleepDone PROVE Sound'
<1>1. /\ mode = "init" /\ ~due /\ \A p \in ToSet(down \o buf) : p.type # "init"
      /\ mode' = "drain" /\ Flow' = Flow /\ UNCHANGED <<xfer, recv, cnt, up, held>>
  BY DEF SleepDone, Flow, host, dev
<1>2. NoInit
  <2>1. down \in Seq(Packets) /\ buf \in Seq(Packets)
    BY DEF Sound, Typed
  <2>3. \A k \in 1 .. Len(down \o buf) : (down \o buf)[k] \in ToSet(down \o buf)
    <3>1. down \o buf \in Seq(Packets)
      BY <2>1
    <3>. QED
      BY <3>1 DEF ToSet
  <2>2. ASSUME NEW i \in 1 .. Len(Flow) PROVE Flow[i] \in ToSet(down \o buf)
    <3>1. CASE i \in 1 .. Len(buf)
      <4>1. Flow[i] = (down \o buf)[Len(down) + i] /\ Len(down) + i \in 1 .. Len(down \o buf)
        BY <2>1, <3>1 DEF Flow
      <4>. QED
        BY <2>3, <4>1
    <3>2. CASE i \in Len(buf) + 1 .. Len(Flow)
      <4>1. Flow[i] = (down \o buf)[i - Len(buf)] /\ i - Len(buf) \in 1 .. Len(down \o buf)
        BY <2>1, <3>2 DEF Flow
      <4>. QED
        BY <2>3, <4>1
    <3>. QED
      BY <2>1, <3>1, <3>2
  <2>. QED
    BY <1>1, <2>2 DEF NoInit
<1>3. ~held /\ recv = 0 /\ Base = 0 /\ Base' = 0
  BY <1>1 DEF Sound, Initializing, Base
<1>4. NoInit' /\ InSequence' /\ Behind' /\ Fits'
  BY <1>1, <1>2, <1>3 DEF Sound, NoInit, InSequence, Behind, Fits, Lag
<1>5. Draining'
  <2>. DEFINE r == IF up = <<>> THEN recv ELSE up[Len(up)]
  <2>1. Lag(0) >= Lag(cnt) /\ Lag(0) \in Nat
    BY <1>2, <1>3, Numbers DEF Sound, Behind
  <2>2. Lag(0) >= Lag(r) /\ Lag(r) >= Lag(cnt)
    BY <1>1, <1>2, <1>3, <2>1 DEF Sound, Initializing
  <2>. HIDE DEF r
  <2>3. r' = r
    BY <1>1 DEF r
  <2>. QED
    BY <1>1, <1>3, <1>4, <2>2, <2>3 DEF Draining, Lag, r
<1>6. Running' /\ Initializing'
  BY <1>1 DEF Running, Initializing
<1>. QED
  BY <1>4, <1>5, <1>6 DEF Sound

LEMMA DrainStrsKeeps == ASSUME Sound, Typed', DrainStrs PROVE Sound'
<1>1. /\ mode = "drain" /\ mode' = "drain" /\ up # <<>> /\ recv' = Head(up)
      /\ up' = Tail(up) /\ Flow' = Flow /\ UNCHANGED <<xfer, cnt, held>>
  BY DEF DrainStrs, Flow, host, dev
<1>2. Base = 0 /\ Base' = 0
  BY <1>1 DEF Base
<1>3. NoInit' /\ InSequence' /\ Behind' /\ Fits'
  BY <1>1, <1>2 DEF Sound, Draining, NoInit, InSequence, Behind, Fits, Lag
<1>4. Draining'
  <2>. DEFINE r == IF up = <<>> THEN recv ELSE up[Len(up)]
  <2>1. Lag(0) >= Lag(r) /\ Lag(r) >= Lag(cnt) /\ ~held
    BY <1>1 DEF Sound, Draining
  <2>2. up \in Seq(Counts) /\ Len(up) \in Nat \ {0}
    BY <1>1, Numbers DEF Sound
  <2>3. r' = r
    <3>1. CASE Len(up) = 1
      BY <1>1, <2>2, <3>1
    <3>2. CASE Len(up) # 1
      <4>3. /\ Len(Tail(up)) + 1 = Len(up) /\ Len(Tail(up)) \in Nat
            /\ \A i \in 1 .. Len(Tail(up)) : Tail(up)[i] = up[i + 1]
        BY <1>1, <2>2
      <4>. DEFINE t == Tail(up)
                  n == Len(t)
      <4>1. n \in Nat /\ n + 1 = Len(up) /\ \A i \in 1 .. n : t[i] = up[i + 1]
        BY <4>3
      <4>. HIDE DEF t
      <4>4. t = <<>> => n = 0
        OBVIOUS
      <4>. HIDE DEF n
      <4>5. n \in 1 .. n /\ t # <<>>
        BY <2>2, <3>2, <4>1, <4>4
      <4>6. t[n] = up[n + 1]
        BY <4>1, <4>5
      <4>2. t # <<>> /\ t[Len(t)] = up[Len(up)] /\ up' = t
        BY <1>1, <4>1, <4>5, <4>6 DEF n, t
      <4>. HIDE DEF t
      <4>. QED
        BY <1>1, <4>2
    <3>. QED
      BY <3>1, <3>2
  <2>. HIDE DEF r
  <2>. QED
    BY <1>1, <1>3, <2>1, <2>3 DEF Draining, Lag, r
<1>5. Running' /\ Initializing'
  BY <1>1 DEF Running, Initializing
<1>. QED
  BY <1>3, <1>4, <1>5 DEF Sound

LEMMA InitDoneKeeps == ASSUME Sound, Typed', ~cut_short', InitDone PROVE Sound'
<1>1. /\ mode = "drain" /\ mode' = "run" /\ up = <<>> /\ Flow' = Flow
      /\ UNCHANGED <<xfer, recv, cnt, up, held>>
  BY DEF InitDone, Flow, host, dev
<1>2. Base = 0 /\ Base' = recv
  BY <1>1 DEF Base
<1>3. ~held /\ NoInit /\ Lag(0) >= Lag(recv) /\ Lag(recv) >= Lag(cnt)
  BY <1>1 DEF Sound, Draining
<1>4. InSequence'
  BY <1>1 DEF Sound, InSequence
<1>5. Behind'
  BY <1>1, <1>2, <1>3 DEF Sound, Behind, Lag
<1>6. Fits'
  <2>1. Lag(0) <= Capacity /\ Lag(0) \in Nat /\ Lag(recv) \in Nat
    BY <1>2, Numbers DEF Sound, Fits
  <2>2. Lag(recv) <= Capacity
    BY <1>3, <2>1, Sizes
  <2>. QED
    BY <1>1, <1>2, <1>3, <2>2 DEF Fits, Lag
<1>7. Running'
  <2>1. NoInit' /\ Len(up') = 0
    BY <1>1, <1>3 DEF NoInit
  <2>. QED
    BY <2>1 DEF Running
<1>8. Initializing' /\ Draining'
  BY <1>1 DEF Initializing, Draining
<1>. QED
  BY <1>4, <1>5, <1>6, <1>7, <1>8 DEF Sound

LEMMA DevSendStrsKeeps == ASSUME Sound, Typed', DevSendStrs PROVE Sound'
<1>1. /\ up' = Append(up, cnt) /\ Flow' = Flow
      /\ UNCHANGED <<xfer, recv, cnt, mode, held>>
  BY DEF DevSendStrs, Flow, host
<1>0. Base' = Base
  BY <1>1 DEF Base
<1>2. up \in Seq(Counts) /\ cnt \in Counts /\ Len(up) \in Nat
  BY Numbers DEF Sound
<1>3. /\ Len(up') = Len(up) + 1 /\ up'[Len(up) + 1] = cnt
      /\ \A i \in 1 .. Len(up) : up'[i] = up[i]
  BY <1>1, <1>2
<1>4. InSequence' /\ Fits'
  BY <1>0, <1>1 DEF Sound, InSequence, Fits, Lag
<1>5. (NoInit' <=> NoInit) /\ Behind'
  BY <1>0, <1>1 DEF Sound, Behind, NoInit, Lag
<1>6. Lag(cnt) \in Nat /\ Lag(recv) \in Nat
  BY Numbers DEF Sound
<1>7. Running'
  <2>. SUFFICES ASSUME mode = "run" PROVE Running'
    BY <1>1 DEF Running
  <2>1. /\ NoInit /\ Lag(recv) >= Lag(cnt)
        /\ \A i \in 1 .. Len(up) : Lag(recv) >= Lag(up[i]) /\ Lag(up[i]) >= Lag(cnt)
        /\ \A i \in 1 .. Len(up) : \A j \in i + 1 .. Len(up) : Lag(up[i]) >= Lag(up[j])
    BY DEF Sound, Running, Behind, Base
  <2>2. \A i \in 1 .. Len(up') : Lag(recv) >= Lag(up'[i]) /\ Lag(up'[i]) >= Lag(cnt)
    <3>1. \A i \in 1 .. Len(up') : i \in 1 .. Len(up) \/ i = Len(up) + 1
      BY <1>2, <1>3
    <3>. QED
      BY <1>3, <1>6, <2>1, <3>1
  <2>3. ASSUME NEW i \in 1 .. Len(up'), NEW j \in i + 1 .. Len(up')
        PROVE  Lag(up'[i]) >= Lag(up'[j])
    <3>1. i \in 1 .. Len(up) /\ (j \in i + 1 .. Len(up) \/ j = Len(up) + 1) /\ j \in 1 .. Len(up')
      BY <1>2, <1>3
    <3>. QED
      BY <1>3, <2>1, <3>1
  <2>. QED
    BY <1>1, <1>5, <2>1, <2>2, <2>3 DEF Running, Lag
<1>8. Initializing'
  <2>. SUFFICES ASSUME mode = "init" PROVE Initializing'
    BY <1>1 DEF Initializing
  <2>1. NoInit => Lag(0) >= Lag(cnt)
    BY DEF Sound, Behind, Base
  <2>2. up'[Len(up')] = cnt
    BY <1>3
  <2>. QED
    BY <1>1, <1>5, <1>6, <2>1, <2>2 DEF Sound, Initializing, Lag
<1>9. Draining'
  <2>. SUFFICES ASSUME mode = "drain" PROVE Draining'
    BY <1>1 DEF Draining
  <2>1. ~held /\ NoInit /\ Lag(0) >= Lag(cnt)
    BY DEF Sound, Draining, Behind, Base
  <2>2. up' # <<>> /\ up'[Len(up')] = cnt
    BY <1>1, <1>2, <1>3
  <2>. QED
    BY <1>1, <1>5, <1>6, <2>1, <2>2 DEF Draining, Lag
<1>. QED
  BY <1>4, <1>5, <1>7, <1>8, <1>9 DEF Sound

LEMMA LoseUpKeeps == ASSUME Sound, Typed', ~cut_short', LoseUp PROVE Sound'
<1>1. /\ up # <<>> /\ up' = Tail(up) /\ Flow' = Flow
      /\ UNCHANGED <<xfer, recv, cnt, mode, due, held>>
      /\ mode = "drain" => up' # <<>>
  BY DEF LoseUp, Flow, host, dev
<1>0. Base' = Base
  BY <1>1 DEF Base
<1>2. up \in Seq(Counts) /\ Len(up) \in Nat
  BY Numbers DEF Sound
<1>3. /\ Len(up') + 1 = Len(up) /\ Len(up') \in Nat
      /\ \A i \in 1 .. Len(up') : up'[i] = up[i + 1] /\ i + 1 \in 1 .. Len(up)
  BY <1>1, <1>2
<1>4. InSequence' /\ Fits'
  BY <1>0, <1>1 DEF Sound, InSequence, Fits, Lag
<1>5. (NoInit' <=> NoInit) /\ Behind'
  BY <1>0, <1>1 DEF Sound, Behind, NoInit, Lag
<1>7. Running'
  <2>. SUFFICES ASSUME mode = "run" PROVE Running'
    BY <1>1 DEF Running
  <2>1. /\ NoInit
        /\ \A i \in 1 .. Len(up) : Lag(recv) >= Lag(up[i]) /\ Lag(up[i]) >= Lag(cnt)
        /\ \A i \in 1 .. Len(up) : \A j \in i + 1 .. Len(up) : Lag(up[i]) >= Lag(up[j])
    BY DEF Sound, Running
  <2>2. ASSUME NEW i \in 1 .. Len(up'), NEW j \in i + 1 .. Len(up')
        PROVE  Lag(up'[i]) >= Lag(up'[j])
    <3>1. i + 1 \in 1 .. Len(up) /\ j + 1 \in (i + 1) + 1 .. Len(up) /\ j \in 1 .. Len(up')
      BY <1>2, <1>3
    <3>. QED
      BY <1>3, <2>1, <3>1
  <2>. QED
    BY <1>1, <1>3, <1>5, <2>1, <2>2 DEF Running, Lag
<1>6. up' # <<>> => up'[Len(up')] = up[Len(up)]
  <2>1. up' # <<>> => Len(up') \in 1 .. Len(up')
    BY <1>1, <1>2, <1>3
  <2>. QED
    BY <1>3, <2>1
<1>8. Initializing'
  BY <1>1, <1>5, <1>6 DEF Sound, Initializing, Lag
<1>9. Draining'
  BY <1>1, <1>5, <1>6 DEF Sound, Draining, Lag
<1>. QED
  BY <1>4, <1>5, <1>7, <1>8, <1>9 DEF Sound

\* A packet in front that is no init packet.
LEMMA FrontNoInit ==
    ASSUME Sound, Flow' \in Seq(Packets), Len(Flow') + 1 = Len(Flow), Flow[1].type # "init",
           \A i \in 1 .. Len(Flow') : Flow'[i] = Flow[1 + i]
    PROVE  /\ NoInit' <=> NoInit
           /\ mode = "init" => \A i, j \in 1 .. Len(Flow') :
                    Flow'[i].type = "init" /\ Flow'[j].type = "init" => i = j
<1>1. Len(Flow') \in Nat /\ Len(Flow) \in Nat
  BY Numbers DEF Sound
<1>2. \A i \in 1 .. Len(Flow') : 1 + i \in 1 .. Len(Flow)
  BY <1>1
<1>3. ASSUME NoInit PROVE NoInit'
  BY <1>2, <1>3 DEF NoInit
<1>4. ASSUME NoInit' PROVE NoInit
  <2>. SUFFICES ASSUME NEW i \in 1 .. Len(Flow), i # 1 PROVE Flow[i].type # "init"
    BY DEF NoInit
  <2>1. i - 1 \in 1 .. Len(Flow') /\ 1 + (i - 1) = i
    BY <1>1
  <2>2. Flow'[i - 1] = Flow[1 + (i - 1)] /\ Flow'[i - 1].type # "init"
    BY <1>4, <2>1 DEF NoInit
  <2>. QED
    BY <2>1, <2>2
<1>5. ASSUME mode = "init", NEW i \in 1 .. Len(Flow'), NEW j \in 1 .. Len(Flow'),
             Flow'[i].type = "init", Flow'[j].type = "init"
      PROVE  i = j
  <2>1. 1 + i = 1 + j
    BY <1>2, <1>5 DEF Sound, Initializing
  <2>. QED
    BY <2>1
<1>. QED
  BY <1>3, <1>4, <1>5

LEMMA DevDataKeeps == ASSUME Sound, Typed', DevData PROVE Sound'
<1>1. /\ buf # <<>> /\ buf' = Tail(buf) /\ down' = down /\ Head(buf).type = "data"
      /\ cnt' = (cnt + Room(Head(buf))) % CountMod
      /\ (~due' => ~due) /\ UNCHANGED <<xfer, recv, mode, up, held>>
  BY DEF DevData, Passes, Count, Room, host
<1>2. /\ 1 \in 1 .. Len(Flow) /\ Flow[1] = Head(buf) /\ Len(Flow') + 1 = Len(Flow)
      /\ \A i \in 1 .. Len(Flow') : Flow'[i] = Flow[1 + i]
  BY <1>1, FrontTaken DEF Sound
<1>3. /\ Flow \in Seq(Packets) /\ xfer \in Counts /\ cnt \in Counts
      /\ Room(Flow[1]) \in Nat /\ Lag(cnt) \in Nat /\ Lag(Base) \in Nat
      /\ \A i \in 1 .. Len(Flow) : Lag(Flow[i].ofs) \in Nat
  BY <1>2, Numbers DEF Sound
<1>4. Flow' \in Seq(Packets) /\ Len(Flow') \in Nat
  BY DEF Typed, Flow
<1>5. InOrder(Flow', xfer)
  BY <1>2, <1>3, <1>4, SuffixInOrder DEF Sound, InSequence
<1>6. NoInit' <=> NoInit
  BY <1>1, <1>2, <1>3, <1>4, FrontNoInit
<1>7. ASSUME NoInit
      PROVE  /\ LagOf(xfer, cnt') <= Lag(cnt) /\ Lag(Base) >= LagOf(xfer, cnt')
             /\ \A i \in 1 .. Len(Flow') : LagOf(xfer, cnt') >= LagOf(xfer, Flow'[i].ofs)
  <2>1. Current(Flow, 1)
    BY <1>2, <1>3, <1>7 DEF NoInit, Current
  <2>2. /\ Lag(Flow[1].ofs) >= Room(Flow[1])
        /\ \A j \in 2 .. Len(Flow) : Lag(Flow[1].ofs) >= Lag(Flow[j].ofs) + Room(Flow[1])
    BY <1>2, <2>1 DEF Sound, InSequence, InOrder, Lag
  <2>3. Lag(Base) >= Lag(cnt) /\ Lag(cnt) >= Lag(Flow[1].ofs)
    BY <1>2, <1>7 DEF Sound, Behind
  <2>. DEFINE n == Room(Flow[1])
              l == Lag(cnt)
              l1 == LagOf(xfer, cnt')
  <2>4. n <= l
    <3>. DEFINE o == Lag(Flow[1].ofs)
    <3>1. o \in Nat /\ o >= n /\ l >= o
      BY <1>2, <1>3, <2>2, <2>3
    <3>. HIDE DEF o, n, l
    <3>. QED
      BY <3>1, <1>3 DEF n, l
  <2>5. l1 = l - n
    BY <1>1, <1>2, <1>3, <2>4, LagShrinks DEF Lag
  <2>6. ASSUME NEW i \in 1 .. Len(Flow') PROVE l1 >= LagOf(xfer, Flow'[i].ofs)
    <3>. DEFINE o == Lag(Flow[1].ofs)
                h == Lag(Flow[1 + i].ofs)
    <3>1. 1 + i \in 2 .. Len(Flow) /\ Flow'[i] = Flow[1 + i] /\ 1 + i \in 1 .. Len(Flow)
      BY <1>2, <1>4
    <3>2. h \in Nat /\ o \in Nat /\ o >= h + n /\ l >= o
      BY <1>2, <1>3, <2>2, <2>3, <3>1
    <3>3. n \in Nat /\ l \in Nat
      BY <1>3
    <3>. HIDE DEF o, h, n, l, l1
    <3>4. l1 >= h
      BY <2>5, <3>2, <3>3
    <3>. QED
      BY <3>1, <3>4 DEF h, Lag
  <2>7. n \in Nat /\ l \in Nat /\ Lag(Base) >= l /\ Lag(Base) \in Nat
    BY <1>3, <2>3
  <2>. HIDE DEF n, l, l1
  <2>8. l1 <= l /\ Lag(Base) >= l1
    BY <2>5, <2>7
  <2>. QED
    BY <2>6, <2>8 DEF l1, l
<1>8. mode = "init" => \A i, j \in 1 .. Len(Flow') :
                        Flow'[i].type = "init" /\ Flow'[j].type = "init" => i = j
  BY <1>1, <1>2, <1>3, <1>4, FrontNoInit
<1>9. mode # "init" => NoInit
  BY Numbers DEF Sound, Running, Draining
<1>10. mode # "init" => NoInit' /\ LagOf(xfer, cnt') <= Lag(cnt)
  BY <1>6, <1>7, <1>9
<1>11. NoInit' => /\ Lag(Base) >= LagOf(xfer, cnt')
                  /\ \A i \in 1 .. Len(Flow') : LagOf(xfer, cnt') >= LagOf(xfer, Flow'[i].ofs)
  BY <1>6, <1>7
<1>12. NoInit' /\ ~due' => NoInit /\ ~due /\ LagOf(xfer, cnt') <= Lag(cnt)
  BY <1>1, <1>6, <1>7
<1>. QED
  BY <1>1, <1>5, <1>8, <1>10, <1>11, <1>12, Leaves

LEMMA DevResyncKeeps == ASSUME Sound, Typed', DevResync PROVE Sound'
<1>1. /\ buf # <<>> /\ buf' = Tail(buf) /\ down' = down /\ Head(buf).type = "resync"
      /\ cnt' = Head(buf).ofs /\ due' /\ UNCHANGED <<xfer, recv, mode, up, held>>
  BY DEF DevResync, Passes, ResyncCount, host
<1>2. /\ 1 \in 1 .. Len(Flow) /\ Flow[1] = Head(buf) /\ Len(Flow') + 1 = Len(Flow)
      /\ \A i \in 1 .. Len(Flow') : Flow'[i] = Flow[1 + i]
  BY <1>1, FrontTaken DEF Sound
<1>3. /\ Flow \in Seq(Packets) /\ xfer \in Counts
      /\ Room(Flow[1]) \in Nat /\ Lag(cnt) \in Nat /\ Lag(Base) \in Nat
      /\ \A i \in 1 .. Len(Flow) : Lag(Flow[i].ofs) \in Nat
  BY <1>2, Numbers DEF Sound
<1>4. Flow' \in Seq(Packets) /\ Len(Flow') \in Nat
  BY DEF Typed, Flow
<1>5. InOrder(Flow', xfer)
  BY <1>2, <1>3, <1>4, SuffixInOrder DEF Sound, InSequence
<1>6. NoInit' <=> NoInit
  BY <1>1, <1>2, <1>3, <1>4, FrontNoInit
<1>7. ASSUME NoInit
      PROVE  /\ LagOf(xfer, cnt') <= Lag(cnt) /\ Lag(Base) >= LagOf(xfer, cnt')
             /\ \A i \in 1 .. Len(Flow') : LagOf(xfer, cnt') >= LagOf(xfer, Flow'[i].ofs)
  <2>1. Current(Flow, 1)
    BY <1>2, <1>3, <1>7 DEF NoInit, Current
  <2>2. \A j \in 2 .. Len(Flow) : Lag(Flow[1].ofs) >= Lag(Flow[j].ofs) + Room(Flow[1])
    BY <1>2, <2>1 DEF Sound, InSequence, InOrder, Lag
  <2>3. Lag(Base) >= Lag(cnt) /\ Lag(cnt) >= Lag(Flow[1].ofs)
    BY <1>2, <1>7 DEF Sound, Behind
  <2>4. LagOf(xfer, cnt') = Lag(Flow[1].ofs) /\ Lag(Flow[1].ofs) \in Nat
    BY <1>1, <1>2, <1>3 DEF Lag
  <2>5. ASSUME NEW i \in 1 .. Len(Flow')
        PROVE  LagOf(xfer, cnt') >= LagOf(xfer, Flow'[i].ofs)
    <3>. DEFINE o == Lag(Flow[1].ofs)
                h == Lag(Flow[1 + i].ofs)
                n == Room(Flow[1])
    <3>1. 1 + i \in 2 .. Len(Flow) /\ Flow'[i] = Flow[1 + i] /\ 1 + i \in 1 .. Len(Flow)
      BY <1>2, <1>4
    <3>2. h \in Nat /\ o \in Nat /\ o >= h + n /\ n \in Nat
      BY <1>2, <1>3, <2>2, <3>1
    <3>. HIDE DEF o, h, n
    <3>4. o >= h
      BY <3>2
    <3>. QED
      BY <2>4, <3>1, <3>4 DEF h, o, Lag
  <2>. QED
    BY <1>3, <2>3, <2>4, <2>5
<1>8. mode = "init" => \A i, j \in 1 .. Len(Flow') :
                        Flow'[i].type = "init" /\ Flow'[j].type = "init" => i = j
  BY <1>1, <1>2, <1>3, <1>4, FrontNoInit
<1>9. mode # "init" => NoInit
  BY Numbers DEF Sound, Running, Draining
<1>10. mode # "init" => NoInit' /\ LagOf(xfer, cnt') <= Lag(cnt)
  BY <1>6, <1>7, <1>9
<1>11. NoInit' => /\ Lag(Base) >= LagOf(xfer, cnt')
                  /\ \A i \in 1 .. Len(Flow') : LagOf(xfer, cnt') >= LagOf(xfer, Flow'[i].ofs)
  BY <1>6, <1>7
<1>. QED
  BY <1>1, <1>5, <1>8, <1>10, <1>11, Leaves

LEMMA DevInitKeeps == ASSUME Sound, Typed', DevInit PROVE Sound'
<1>1. /\ buf # <<>> /\ buf' = <<>> /\ Head(buf).type = "init" /\ cnt' = 0 /\ due'
      /\ UNCHANGED <<xfer, recv, mode, up, held>>
  BY DEF DevInit, host
<1>2. PICK k \in 0 .. Len(down) : down' = SubSeq(down, k + 1, Len(down))
  BY DEF DevInit
<1>. DEFINE n == Len(buf) + k
<1>3. /\ buf \in Seq(Packets) /\ Flow \in Seq(Packets) /\ xfer \in Counts /\ recv \in Counts
      /\ \A i \in 1 .. Len(Flow) : Flow[i] \in Packets /\ Lag(Flow[i].ofs) \in Nat
                                   /\ Room(Flow[i]) \in Nat
  BY Numbers DEF Sound, Typed
<1>4. n \in Nat /\ Len(Flow') + n = Len(Flow) /\ \A i \in 1 .. Len(Flow') : Flow'[i] = Flow[n + i]
  BY <1>1, <1>2, FlushedTo DEF Sound
<1>5. Flow' \in Seq(Packets) /\ Len(Flow') \in Nat /\ Len(Flow) \in Nat
  BY <1>3 DEF Typed, Flow
<1>6. n >= 1 /\ 1 \in 1 .. Len(Flow) /\ Flow[1] = Head(buf)
  BY <1>1, <1>3, FlowParts DEF Sound
<1>. HIDE DEF n
<1>7. InOrder(Flow', xfer)
  BY <1>3, <1>4, <1>5, SuffixInOrder DEF Sound, InSequence
<1>8. mode = "init"
  <2>1. ~NoInit
    BY <1>1, <1>6 DEF NoInit
  <2>. QED
    BY <2>1, Numbers DEF Sound, Running, Draining
<1>9. Base = 0 /\ Flow[1].ofs = 0
  BY <1>1, <1>3, <1>6, <1>8, RoomType DEF Base
<1>10. \A i \in 2 .. Len(Flow) : Flow[i].type # "init"
  <2>. SUFFICES ASSUME NEW i \in 2 .. Len(Flow), Flow[i].type = "init" PROVE FALSE
    OBVIOUS
  <2>1. i \in 1 .. Len(Flow)
    OBVIOUS
  <2>2. i = 1
    BY <1>1, <1>6, <1>8, <2>1 DEF Sound, Initializing
  <2>. QED
    BY <2>2
<1>11. ASSUME NEW i \in 1 .. Len(Flow')
       PROVE  LagOf(xfer, 0) >= LagOf(xfer, Flow'[i].ofs) /\ Flow'[i].type # "init"
  <2>1. n + i \in 2 .. Len(Flow) /\ n + i \in 1 .. Len(Flow) /\ Flow'[i] = Flow[n + i]
    BY <1>4, <1>5, <1>6
  <2>2. Current(Flow, 1)
    BY <1>10 DEF Current
  <2>3. Lag(Flow[1].ofs) >= Lag(Flow[n + i].ofs) + Room(Flow[1])
    BY <1>6, <2>1, <2>2 DEF Sound, InSequence, InOrder, Lag
  <2>. DEFINE o == Lag(Flow[1].ofs)
              h == Lag(Flow[n + i].ofs)
              r == Room(Flow[1])
  <2>4. o \in Nat /\ h \in Nat /\ r \in Nat /\ o >= h + r
    BY <1>3, <1>6, <2>1, <2>3
  <2>. HIDE DEF o, h, r
  <2>5. o >= h
    BY <2>4
  <2>. QED
    BY <1>9, <1>10, <2>1, <2>5 DEF o, h, Lag
<1>12. Lag(Base) >= LagOf(xfer, cnt')
  BY <1>1, <1>9, Numbers DEF Lag, Sound
<1>13. \A i, j \in 1 .. Len(Flow') :
            Flow'[i].type = "init" /\ Flow'[j].type = "init" => i = j
  BY <1>11
<1>. QED
  BY <1>1, <1>7, <1>8, <1>11, <1>12, <1>13, Leaves

LEMMA LoseDownKeeps == ASSUME Sound, Typed', ~cut_short', LoseDown PROVE Sound'
<1>1. /\ down # <<>> /\ down' = Tail(down) /\ Head(down).type # "init" /\ buf' = buf
      /\ UNCHANGED <<xfer, recv, cnt, due, mode, up, held>>
  BY DEF LoseDown, host, dev
<1>. DEFINE n == Len(buf) + 1
            f(i) == IF i < n THEN i ELSE i + 1
<1>2. /\ n \in 1 .. Len(Flow) /\ Flow[n] = Head(down) /\ Len(Flow') + 1 = Len(Flow)
      /\ \A i \in 1 .. Len(Flow') : Flow'[i] = Flow[IF i < n THEN i ELSE i + 1]
  BY <1>1, LostOnTheWay DEF Sound
<1>3. Flow \in Seq(Packets) /\ xfer \in Counts /\ Len(Flow) \in Nat /\ Lag(cnt) \in Nat
  BY Numbers DEF Sound
<1>4. Flow' \in Seq(Packets) /\ Len(Flow') \in Nat
  BY DEF Typed, Flow
<1>. HIDE DEF n
<1>5. InOrder(Flow', xfer)
  BY <1>1, <1>2, <1>3, <1>4, LossInOrder DEF Sound, InSequence
<1>6. \A i \in 1 .. Len(Flow') : f(i) \in 1 .. Len(Flow) /\ Flow'[i] = Flow[f(i)]
  BY <1>2, <1>3, <1>4
<1>7. ASSUME NoInit' PROVE NoInit
  <2>. SUFFICES ASSUME NEW j \in 1 .. Len(Flow), j # n PROVE Flow[j].type # "init"
    BY <1>1, <1>2 DEF NoInit
  <2>. DEFINE i == IF j < n THEN j ELSE j - 1
  <2>1. i \in 1 .. Len(Flow') /\ f(i) = j
    BY <1>2, <1>3, <1>4
  <2>. HIDE DEF i, f
  <2>. QED
    BY <1>6, <1>7, <2>1 DEF NoInit
<1>8. NoInit => NoInit'
  <2>. HIDE DEF f
  <2>. QED
    BY <1>6 DEF NoInit
<1>9. ASSUME NoInit
      PROVE  /\ Lag(Base) >= Lag(cnt)
             /\ \A i \in 1 .. Len(Flow') : Lag(cnt) >= Lag(Flow'[i].ofs)
  <2>. HIDE DEF f
  <2>. QED
    BY <1>6, <1>9 DEF Sound, Behind
<1>10. mode = "init" => \A i, j \in 1 .. Len(Flow') :
            Flow'[i].type = "init" /\ Flow'[j].type = "init" => i = j
  <2>. SUFFICES ASSUME mode = "init", NEW i \in 1 .. Len(Flow'), NEW j \in 1 .. Len(Flow'),
                       Flow'[i].type = "init", Flow'[j].type = "init"
                PROVE  i = j
    OBVIOUS
  <2>1. f(i) = f(j)
    <3>. HIDE DEF f
    <3>. QED
      BY <1>6 DEF Sound, Initializing
  <2>. QED
    BY <1>2, <2>1
<1>11. mode # "init" => NoInit' /\ LagOf(xfer, cnt') <= Lag(cnt)
  BY <1>1, <1>3, <1>8, Numbers DEF Sound, Running, Draining, Lag
<1>12. NoInit' => /\ Lag(Base) >= LagOf(xfer, cnt')
                  /\ \A i \in 1 .. Len(Flow') : LagOf(xfer, cnt') >= LagOf(xfer, Flow'[i].ofs)
  BY <1>1, <1>7, <1>9 DEF Lag
<1>13. NoInit' /\ ~due' => NoInit /\ ~due /\ LagOf(xfer, cnt') <= Lag(cnt)
  BY <1>1, <1>3, <1>7 DEF Lag
<1>. QED
  BY <1>1, <1>5, <1>10, <1>11, <1>12, <1>13, Leaves

LEMMA GetSendBuffKeeps == ASSUME Sound, Typed', GetSendBuff PROVE Sound'
<1>1. /\ mode = "run" /\ DestHasSpace(xfer, recv, FrameSize) /\ held' /\ Flow' = Flow
      /\ UNCHANGED <<xfer, recv, cnt, mode, up, due>>
  BY DEF GetSendBuff, Flow, host, dev
<1>6. Base = recv /\ Base' = Base
  BY <1>1 DEF Base
<1>2. Lag(Base) + FrameSize <= Capacity
  BY <1>1, <1>6, Numbers, SpaceIsRoom, Sizes DEF Sound, Fits, Lag
<1>3. InSequence' /\ Fits'
  BY <1>1, <1>2, <1>6 DEF Sound, InSequence, Fits, Lag
<1>4. (NoInit' <=> NoInit) /\ Behind'
  BY <1>1, <1>6 DEF Sound, Behind, NoInit, Lag
<1>5. Running' /\ Initializing' /\ Draining'
  BY <1>1, <1>4 DEF Sound, Running, Initializing, Draining, Lag
<1>. QED
  BY <1>3, <1>4, <1>5 DEF Sound

LEMMA ReleaseKeeps == ASSUME WholeFrames, Sound, Typed', ReleaseSendBuff PROVE Sound'
<1>1. /\ held /\ ~held' /\ buf' = buf /\ UNCHANGED <<recv, cnt, mode, up, due>>
  BY DEF ReleaseSendBuff, dev
<1>2. PICK n \in PktSizes : Sends(Packet("data", n, xfer), xfer, recv)
  BY DEF ReleaseSendBuff, Sends
<1>. DEFINE p == Packet("data", n, xfer)
<1>3. p \in Packets /\ p.ofs = xfer /\ p.type = "data" /\ Room(p) = RoundPktSize(n)
  BY <1>2, ReleaseTypes DEF Sound, Packet, Room
<1>4. mode = "run" /\ Base = recv /\ Base' = recv
  BY <1>1, Numbers DEF Sound, Initializing, Draining, Base
<1>5. NoInit /\ Lag(recv) + FrameSize <= Capacity
  BY <1>1, <1>4 DEF Sound, Fits, Running
<1>6. /\ xfer \in Counts /\ recv \in Counts /\ cnt \in Counts /\ Lag(recv) \in Nat
      /\ Lag(cnt) \in Nat /\ Len(Flow) \in Nat /\ Len(up) \in Nat
      /\ (\A i \in 1 .. Len(Flow) : Flow[i].ofs \in Counts /\ Lag(Flow[i].ofs) \in Nat)
      /\ \A i \in 1 .. Len(up) : up[i] \in Counts /\ Lag(up[i]) \in Nat
  BY Numbers DEF Sound
<1>7. Lag(recv) + Room(p) <= Capacity
  <2>1. n \in Nat /\ n <= FrameSize
    BY Sizes
  <2>2. RoundPktSize(n) <= FrameSize /\ RoundPktSize(n) \in Nat
    BY <2>1, RoundMonotone, RoundType, Sizes DEF WholeFrames
  <2>. QED
    BY <1>3, <1>5, <1>6, <2>2, Sizes
<1>. HIDE DEF p
<1>8. Lag(recv) >= Lag(cnt) /\ \A i \in 1 .. Len(Flow) : Lag(cnt) >= Lag(Flow[i].ofs)
                                                          /\ Lag(Flow[i].ofs) <= Lag(recv)
  BY <1>4, <1>5, <1>6 DEF Sound, Behind
<1>9. /\ InOrder(Flow', xfer')
      /\ Len(Flow') > Len(Flow) /\ \A i \in 1 .. Len(Flow) : Flow'[i] = Flow[i]
      /\ Flow'[Len(Flow) + 1] = p
      /\ \A i \in Len(Flow) + 2 .. Len(Flow') : Flow'[i].type = "resync"
      /\ \E t \in Nat :
            /\ LagOf(xfer, recv) + t <= Capacity
            /\ \A r \in Counts : LagOf(xfer, r) <= LagOf(xfer, recv) =>
                    LagOf(xfer', r) = LagOf(xfer, r) + t
            /\ \A i \in Len(Flow) + 1 .. Len(Flow') : LagOf(xfer', Flow'[i].ofs) <= t
  <2>1. Sends(p, xfer, recv)
    BY <1>2 DEF p
  <2>2. /\ Typed /\ InOrder(Flow, xfer) /\ LagOf(xfer, recv) + Room(p) <= Capacity
        /\ \A i \in 1 .. Len(Flow) : LagOf(xfer, Flow[i].ofs) <= LagOf(xfer, recv)
    BY <1>7, <1>8 DEF Sound, InSequence, Lag
  <2>3. p.type # "init" =>
            \A i \in 1 .. Len(Flow) : LagOf(xfer, Flow[i].ofs) <= LagOf(xfer, recv)
    BY <2>2
  <2>4. /\ p \in Packets /\ xfer \in Counts /\ recv \in Counts /\ p.ofs = xfer
        /\ InOrder(Flow, xfer) \/ p.type = "init"
        /\ buf' = buf
    BY <1>1, <1>3, <1>6, <2>2
  <2>. QED
    BY <2>1, <2>2, <2>3, <2>4, SendKeepsOrder
<1>10. PICK t \in Nat :
            /\ Lag(recv) + t <= Capacity
            /\ \A r \in Counts : Lag(r) <= Lag(recv) => LagOf(xfer', r) = Lag(r) + t
            /\ \A i \in Len(Flow) + 1 .. Len(Flow') : LagOf(xfer', Flow'[i].ofs) <= t
  BY <1>9 DEF Lag
<1>11. /\ LagOf(xfer', recv) = Lag(recv) + t /\ LagOf(xfer', cnt) = Lag(cnt) + t
       /\ \A i \in 1 .. Len(Flow) : LagOf(xfer', Flow[i].ofs) = Lag(Flow[i].ofs) + t
  BY <1>6, <1>8, <1>10
<1>12. /\ \A i \in 1 .. Len(up) : Lag(recv) >= Lag(up[i]) /\ Lag(up[i]) >= Lag(cnt)
       /\ \A i \in 1 .. Len(up) : \A j \in i + 1 .. Len(up) : Lag(up[i]) >= Lag(up[j])
  BY <1>4 DEF Sound, Running
<1>13. \A i \in 1 .. Len(up) : LagOf(xfer', up[i]) = Lag(up[i]) + t
  BY <1>6, <1>10, <1>12
<1>14. Len(Flow') \in Nat
  BY DEF Typed, Flow
<1>15. ASSUME NEW i \in 1 .. Len(Flow')
       PROVE  LagOf(xfer', cnt) >= LagOf(xfer', Flow'[i].ofs) /\ Flow'[i].type # "init"
  <2>1. CASE i \in 1 .. Len(Flow)
    <3>. DEFINE o == Lag(Flow[i].ofs)
                l == Lag(cnt)
                o1 == LagOf(xfer', Flow[i].ofs)
                l1 == LagOf(xfer', cnt)
    <3>1. o \in Nat /\ l \in Nat /\ l >= o /\ o1 = o + t /\ l1 = l + t
      BY <1>6, <1>8, <1>11, <2>1
    <3>2. Flow'[i] = Flow[i] /\ Flow[i].type # "init"
      BY <1>5, <1>9, <2>1 DEF NoInit
    <3>. HIDE DEF o, l, o1, l1
    <3>3. l1 >= o1
      BY <3>1
    <3>. QED
      BY <3>2, <3>3 DEF o1, l1
  <2>2. CASE i \in Len(Flow) + 1 .. Len(Flow')
    <3>1. i = Len(Flow) + 1 \/ i \in Len(Flow) + 2 .. Len(Flow')
      BY <1>6, <1>14, <2>2
    <3>2. Flow'[i].type # "init"
      BY <1>3, <1>9, <3>1
    <3>3. LagOf(xfer', Flow'[i].ofs) <= t
      BY <1>10, <2>2
    <3>4. LagOf(xfer', Flow'[i].ofs) \in Nat
      <4>1. Flow' \in Seq(Packets) /\ xfer' \in Counts
        BY DEF Typed, TypeOK, Flow, Counts
      <4>. QED
        BY <4>1, RoomAt
    <3>. QED
      BY <1>6, <1>11, <3>2, <3>3, <3>4
  <2>. QED
    BY <1>6, <1>14, <2>1, <2>2
<1>16. NoInit' /\ Behind'
  <2>1. LagOf(xfer', recv) >= LagOf(xfer', cnt)
    BY <1>6, <1>8, <1>11
  <2>. QED
    BY <1>1, <1>4, <1>15, <2>1 DEF NoInit, Behind, Lag
<1>17. InSequence' /\ Fits'
  BY <1>1, <1>4, <1>9, <1>10, <1>11 DEF InSequence, Fits, Lag
<1>18. Running'
  <2>1. ASSUME NEW i \in 1 .. Len(up)
        PROVE  LagOf(xfer', recv) >= LagOf(xfer', up[i]) /\ LagOf(xfer', up[i]) >= LagOf(xfer', cnt)
    BY <1>6, <1>11, <1>12, <1>13
  <2>2. ASSUME NEW i \in 1 .. Len(up), NEW j \in i + 1 .. Len(up)
        PROVE  LagOf(xfer', up[i]) >= LagOf(xfer', up[j])
    <3>1. j \in 1 .. Len(up)
      BY <1>6
    <3>. QED
      BY <1>6, <1>12, <1>13, <3>1
  <2>. QED
    BY <1>1, <1>16, <2>1, <2>2 DEF Running, Lag
<1>19. Initializing' /\ Draining'
  BY <1>1, <1>4 DEF Initializing, Draining
<1>. QED
  BY <1>16, <1>17, <1>18, <1>19 DEF Sound

LEMMA ResendInitKeeps == ASSUME Sound, Typed', ~cut_short', ResendInit PROVE Sound'
<1>. DEFINE p == Packet("init", StrcSize, 0)
<1>1. /\ mode = "run" /\ ~held' /\ mode' = "init" /\ recv' = 0 /\ buf' = buf
      /\ Sends(p, 0, 0) /\ UNCHANGED <<cnt, up, due>>
  BY DEF ResendInit, dev, Sends
<1>13. Base' = 0
  BY <1>1 DEF Base
<1>2. p \in Packets /\ p.ofs = 0 /\ p.type = "init" /\ Room(p) = RoundPktSize(StrcSize)
  BY <1>1, InitTypes DEF Sound, Packet, Room
<1>. HIDE DEF p
<1>3. NoInit /\ Len(Flow) \in Nat /\ 0 \in Counts
  BY <1>1, Numbers, Sizes DEF Sound, Running, Counts
<1>4. LagOf(0, 0) = 0 /\ Room(p) <= Capacity /\ Room(p) \in Nat
  BY <1>2, <1>3, LagSelf, RoomType, TxAssumption, Sizes
<1>5. /\ InOrder(Flow', xfer')
      /\ Len(Flow') > Len(Flow) /\ \A i \in 1 .. Len(Flow) : Flow'[i] = Flow[i]
      /\ Flow'[Len(Flow) + 1] = p
      /\ \A i \in Len(Flow) + 2 .. Len(Flow') : Flow'[i].type = "resync"
      /\ \E t \in Nat :
            /\ LagOf(0, 0) + t <= Capacity
            /\ \A r \in Counts : LagOf(0, r) <= LagOf(0, 0) =>
                    LagOf(xfer', r) = LagOf(0, r) + t
            /\ \A i \in Len(Flow) + 1 .. Len(Flow') : LagOf(xfer', Flow'[i].ofs) <= t
  <2>1. LagOf(0, 0) + Room(p) <= Capacity
    BY <1>4
  <2>. QED
    BY <1>1, <1>2, <1>3, <2>1, SendKeepsOrder DEF Sound
<1>6. PICK t \in Nat : LagOf(0, 0) + t <= Capacity /\ LagOf(xfer', 0) = LagOf(0, 0) + t
  BY <1>3, <1>4, <1>5
<1>7. Len(Flow') \in Nat
  BY DEF Typed, Flow
<1>8. \A i \in 1 .. Len(Flow') : Flow'[i].type = "init" => i = Len(Flow) + 1
  <2>1. \A i \in 1 .. Len(Flow') : i \in 1 .. Len(Flow) \/ i = Len(Flow) + 1
                                    \/ i \in Len(Flow) + 2 .. Len(Flow')
    BY <1>3, <1>7
  <2>. QED
    BY <1>3, <1>5, <2>1 DEF NoInit
<1>9. ~NoInit'
  <2>1. Len(Flow) + 1 \in 1 .. Len(Flow')
    BY <1>3, <1>5, <1>7
  <2>. QED
    BY <1>2, <1>5, <2>1 DEF NoInit
<1>10. InSequence' /\ Behind' /\ Running'
  BY <1>1, <1>5, <1>9 DEF InSequence, Behind, Running
<1>11. Fits'
  BY <1>1, <1>4, <1>6, <1>13 DEF Fits, Lag
<1>12. Initializing' /\ Draining'
  BY <1>1, <1>8, <1>9 DEF Initializing, Draining
<1>. QED
  BY <1>10, <1>11, <1>12 DEF Sound

LEMMA InvInit == Init => IInv
<1>. SUFFICES ASSUME Init PROVE IInv
  OBVIOUS
<1>1. Typed
  BY TypesInit
<1>2. /\ xfer = 0 /\ recv = 0 /\ cnt = 0 /\ ~held /\ mode = "run" /\ up = <<>>
      /\ Flow = <<>> /\ Len(Flow) = 0 /\ Len(up) = 0
  BY DEF Init, Flow
<1>6. Base = 0
  BY <1>2 DEF Base
<1>3. Lag(Base) = 0 /\ Lag(cnt) = 0
  BY <1>2, <1>6, LagSelf, Sizes DEF Lag, Counts
<1>4. InSequence /\ NoInit /\ Behind
  BY <1>2, <1>3 DEF InSequence, InOrder, NoInit, Behind
<1>5. Fits /\ Running /\ Initializing /\ Draining
  BY <1>2, <1>3, <1>4, Sizes DEF Fits, Running, Initializing, Draining
<1>. QED
  BY <1>1, <1>4, <1>5 DEF Sound, IInv

LEMMA SoundNext ==
    ASSUME WholeFrames, Sound, Typed', ~cut_short', [Next]_vars
    PROVE  Sound'
<1>1. Typed' /\ ~cut_short'
  OBVIOUS
<1>2. CASE GetSendBuff \/ ReleaseSendBuff \/ RecvStrs \/ ResendInit
  BY <1>1, <1>2, GetSendBuffKeeps, ReleaseKeeps, RecvStrsKeeps, ResendInitKeeps
<1>7. CASE SleepDone \/ DrainStrs \/ InitDone
  BY <1>1, <1>7, SleepDoneKeeps, DrainStrsKeeps, InitDoneKeeps
<1>3. CASE DevData \/ DevResync \/ DevInit \/ DevSendStrs
  BY <1>1, <1>3, DevDataKeeps, DevResyncKeeps, DevInitKeeps, DevSendStrsKeeps
<1>4. CASE LoseDown \/ LoseUp
  BY <1>1, <1>4, LoseDownKeeps, LoseUpKeeps
<1>5. CASE Arrive
  <2>1. Flow' = Flow
    BY <1>5, ArriveFlow DEF Sound
  <2>2. UNCHANGED <<xfer, recv, cnt, mode, up, due, held>>
    BY <1>5 DEF Arrive, host, dev
  <2>. QED
    BY <1>1, <2>1, <2>2, Stays
<1>6. CASE DevRefresh \/ UNCHANGED vars
  <2>1. Flow' = Flow /\ UNCHANGED <<xfer, recv, cnt, mode, up, due, held>>
    BY <1>6 DEF DevRefresh, host, dev, vars, Flow
  <2>. QED
    BY <1>1, <2>1, Stays
<1>. QED
  BY <1>2, <1>3, <1>4, <1>5, <1>6, <1>7
     DEF Next, Host, Fpga, Link, Stopped, GetSendBuffTimeout

LEMMA CutShortStays == [Next]_vars => (cut_short => cut_short')
<1>. USE DEF history
<1>1. CASE Host
  BY <1>1 DEF Host, GetSendBuff, GetSendBuffTimeout, ReleaseSendBuff, RecvStrs, ResendInit,
              SleepDone, DrainStrs, InitDone, vars
<1>2. CASE Fpga
  BY <1>2 DEF Fpga, Arrive, DevData, DevResync, DevInit, DevSendStrs, DevRefresh
<1>3. CASE Link
  BY <1>3 DEF Link, LoseDown, LoseUp
<1>. QED
  BY <1>1, <1>2, <1>3 DEF Next, Stopped, vars

LEMMA InvNext == WholeFrames /\ IInv /\ [Next]_vars => IInv'
<1>. SUFFICES ASSUME WholeFrames, IInv, [Next]_vars PROVE IInv'
  OBVIOUS
<1>1. Typed'
  BY TypesNext DEF IInv
<1>2. ASSUME ~cut_short' PROVE Sound'
  <2>1. Sound
    BY <1>2, CutShortStays DEF IInv
  <2>. QED
    BY <1>1, <1>2, <2>1, SoundNext
<1>. QED
  BY <1>1, <1>2 DEF IInv

LEMMA Invariant == WholeFrames => (Spec => []IInv)
<1>1. ASSUME WholeFrames PROVE Spec => []IInv
  <2>1. IInv /\ [Next]_vars => IInv'
    BY <1>1, InvNext
  <2>. QED
    BY <2>1, InvInit, PTL DEF Spec
<1>. QED
  BY <1>1

-----------------------------------------------------------------------------
(* What follows *)

\* What is on the way is covered by the lag of the first packet of it.
LEMMA FlowCovered ==
    ASSUME Sound, mode = "run"
    PROVE  Bytes(Flow) <= Capacity
<1>. DEFINE N == Len(Flow)
            s == [i \in DOMAIN Flow |-> RoundPktSize(Flow[i].size)]
            g == [i \in 1 .. N |-> Lag(Flow[i].ofs)]
<1>1. /\ Flow \in Seq(Packets) /\ N \in Nat /\ DOMAIN Flow = 1 .. N
      /\ \A i \in 1 .. N : Lag(Flow[i].ofs) \in Nat /\ Room(Flow[i]) \in Nat
  BY Numbers DEF Sound
<1>2. s \in Seq(Nat) /\ Len(s) = N /\ \A i \in 1 .. N : s[i] = Room(Flow[i])
  BY <1>1 DEF Room
<1>3. Bytes(Flow) = Total(s)
  BY DEF Bytes
<1>4. NoInit /\ Lag(recv) >= Lag(cnt) /\ Lag(recv) <= Capacity
      /\ Lag(recv) \in Nat /\ Lag(cnt) \in Nat
  BY Numbers DEF Sound, Running, Behind, Fits, Base
<1>5. CASE N = 0
  <2>1. s = <<>>
    BY <1>2, <1>5
  <2>. QED
    BY <1>3, <2>1, TotalEmpty, Sizes
<1>6. CASE N > 0
  <2>1. \A i \in 1 .. N : Current(Flow, i)
    BY <1>1, <1>4 DEF Current, NoInit
  <2>2. \A i \in 1 .. N :
            /\ Lag(Flow[i].ofs) >= Room(Flow[i])
            /\ \A j \in i + 1 .. N : Lag(Flow[i].ofs) >= Lag(Flow[j].ofs) + Room(Flow[i])
    BY <2>1 DEF Sound, InSequence, InOrder, Lag
  <2>3. \A i \in 1 .. N : g[i] = Lag(Flow[i].ofs) /\ g[i] \in Nat
    BY <1>1
  <2>. HIDE DEF g, s, N
  <2>4. g[N] >= s[N]
    BY <1>1, <1>2, <1>6, <2>2, <2>3
  <2>5. ASSUME NEW i \in 1 .. N - 1 PROVE g[i] >= g[i + 1] + s[i]
    <3>1. i \in 1 .. N /\ i + 1 \in 1 .. N /\ i + 1 \in i + 1 .. N
      BY <1>1
    <3>. QED
      BY <1>2, <2>2, <2>3, <3>1
  <2>6. Total(s) <= g[1]
    BY <1>2, <1>6, <2>3, <2>4, <2>5, LagsCover
  <2>7. 1 \in 1 .. N
    BY <1>1, <1>6
  <2>8. Lag(cnt) >= g[1] /\ g[1] \in Nat
    BY <1>4, <2>3, <2>7 DEF Sound, Behind, N
  <2>9. Total(s) \in Nat
    BY <1>2, TotalType
  <2>. QED
    BY <1>3, <1>4, <2>6, <2>8, <2>9, Sizes
<1>. QED
  BY <1>1, <1>5, <1>6

\* What the host has sent and the FPGA has not consumed fits into the ingress
\* buffer, through losses, resyncs and reinitialisations, as long as each call
\* of resend_init has read the FPGA's answer: a transmit stream never blocks the
\* crossbar.  The frames must be whole words, because dest_has_space is asked for
\* a frame and data_sent counts words.
THEOREM NeverOverflows == WholeFrames => (Spec => []NoOverflow)
<1>1. IInv => NoOverflow
  BY FlowCovered DEF NoOverflow, Flow, IInv
<1>. QED
  BY <1>1, Invariant, PTL

\* No count that the host has of the FPGA, or will get from it, is ahead of what
\* the host has sent: the unsigned subtraction of dest_has_space never wraps.
THEOREM HostNeverAhead == WholeFrames => (Spec => []NeverAhead)
<1>1. IInv => NeverAhead
  <2>. SUFFICES ASSUME Sound, mode = "run", NEW r \in {recv} \cup ToSet(up)
                PROVE  (xfer - r) % CountMod <= Capacity
    BY DEF NeverAhead, IInv
  <2>1. Lag(recv) <= Capacity /\ Lag(recv) \in Nat
    BY Numbers DEF Sound, Fits, Base
  <2>2. CASE r = recv
    BY <2>1, <2>2 DEF Lag, LagOf
  <2>3. CASE r \in ToSet(up)
    <3>1. PICK i \in 1 .. Len(up) : r = up[i]
      BY <2>3, Numbers DEF Sound, ToSet
    <3>2. Lag(recv) >= Lag(up[i]) /\ Lag(up[i]) \in Nat
      BY Numbers DEF Sound, Running
    <3>3. Lag(r) <= Capacity
      BY <2>1, <3>1, <3>2, Sizes
    <3>. QED
      BY <3>3 DEF Lag, LagOf
  <2>. QED
    BY <2>2, <2>3
<1>. QED
  BY <1>1, Invariant, PTL
=============================================================================
