------------------------------ MODULE Sums_proofs ------------------------------
(***************************************************************************)
(* Lemmas about sums of sequences.  Induction over the length is by the    *)
(* least counterexample: every non-empty set of numbers has a least one.   *)
(***************************************************************************)
EXTENDS Sums, SequenceTheorems, WellFoundedInduction, TLAPS

LOCAL Less == {p \in Nat \X Nat : p[1] < p[2]}

\* The least number of a set.
LEMMA LeastExists ==
    ASSUME NEW S \in SUBSET Nat, S # {}
    PROVE  \E m \in S : \A n \in S : m <= n
<1>1. IsWellFoundedOn(Less, Nat)
  BY NatLessThanWellFounded DEF OpToRel, Less
<1>2. PICK m \in S : \A n \in S : <<n, m>> \notin Less
  BY <1>1, WFMin
<1>3. \A n \in S : ~(n < m)
  BY <1>2 DEF Less
<1>. QED
  BY <1>3

\* A set of numbers that contains 0, and n + 1 with every n that is less than
\* the bound N, contains every number up to N.
LEMMA UpTo ==
    ASSUME NEW N \in Nat, NEW S, 0 \in S,
           \A n \in 0 .. N - 1 : n \in S => n + 1 \in S
    PROVE  0 .. N \subseteq S
<1>. DEFINE Out == {n \in 0 .. N : n \notin S}
<1>1. SUFFICES ASSUME Out # {} PROVE FALSE
  OBVIOUS
<1>2. Out \in SUBSET Nat
  OBVIOUS
<1>3. PICK m \in Out : \A n \in Out : m <= n
  BY <1>1, <1>2, LeastExists
<1>4. m \in 1 .. N /\ m \notin S
  OBVIOUS
<1>5. m - 1 \in 0 .. N - 1 /\ m - 1 \notin Out
  BY <1>3, <1>4
<1>6. m - 1 \in S
  BY <1>5
<1>7. (m - 1) + 1 \in S
  BY <1>5, <1>6
<1>. QED
  BY <1>4, <1>7

\* The running sums of s up to n.
IsSums(f, s, n) == f = [i \in 0 .. n |-> IF i = 0 THEN 0 ELSE f[i - 1] + s[i]]

LEMMA SumsExist ==
    ASSUME NEW s, NEW N \in Nat
    PROVE  \E f : IsSums(f, s, N)
<1>. DEFINE Have == {n \in Nat : \E f : IsSums(f, s, n)}
<1>1. 0 \in Have
  <2>1. IsSums([i \in 0 .. 0 |-> 0], s, 0)
    BY DEF IsSums
  <2>. QED
    BY <2>1
<1>2. ASSUME NEW n \in 0 .. N - 1, n \in Have PROVE n + 1 \in Have
  <2>1. PICK f : IsSums(f, s, n)
    BY <1>2
  <2>. DEFINE g == [i \in 0 .. n + 1 |-> IF i = n + 1 THEN f[n] + s[n + 1] ELSE f[i]]
  <2>2. ASSUME NEW i \in 0 .. n + 1
        PROVE  g[i] = IF i = 0 THEN 0 ELSE g[i - 1] + s[i]
    <3>1. CASE i = n + 1
      BY <3>1
    <3>2. CASE i # n + 1
      <4>1. i \in 0 .. n
        BY <3>2
      <4>2. f[i] = IF i = 0 THEN 0 ELSE f[i - 1] + s[i]
        BY <2>1, <4>1 DEF IsSums
      <4>3. g[i] = f[i] /\ (i # 0 => g[i - 1] = f[i - 1])
        BY <4>1
      <4>. QED
        BY <4>2, <4>3
    <3>. QED
      BY <3>1, <3>2
  <2>3. IsSums(g, s, n + 1)
    BY <2>2 DEF IsSums
  <2>. QED
    BY <2>3
<1>. HIDE DEF Have
<1>3. N \in 0 .. N
  OBVIOUS
<1>4. N \in Have
  BY <1>1, <1>2, <1>3, UpTo
<1>. QED
  BY <1>4 DEF Have

LEMMA SumsUnfold ==
    ASSUME NEW T, NEW s \in Seq(T)
    PROVE  IsSums(RunningSums(s), s, Len(s))
<1>1. Len(s) \in Nat
  OBVIOUS
<1>2. \E f : IsSums(f, s, Len(s))
  BY <1>1, SumsExist
<1>. QED
  BY <1>2 DEF IsSums, RunningSums

LEMMA SumsAt ==
    ASSUME NEW s \in Seq(Nat)
    PROVE  /\ RunningSums(s)[0] = 0
           /\ \A i \in 1 .. Len(s) :
                RunningSums(s)[i] = RunningSums(s)[i - 1] + s[i]
           /\ \A i \in 0 .. Len(s) : RunningSums(s)[i] \in Nat
<1>. DEFINE R == RunningSums(s)
<1>1. R = [i \in 0 .. Len(s) |-> IF i = 0 THEN 0 ELSE R[i - 1] + s[i]]
  BY SumsUnfold DEF IsSums
<1>. HIDE DEF R
<1>2. Len(s) \in Nat
  OBVIOUS
<1>3. R[0] = 0
  BY <1>1, <1>2
<1>4. \A i \in 1 .. Len(s) : R[i] = R[i - 1] + s[i]
  BY <1>1, <1>2
<1>5. \A i \in 0 .. Len(s) : R[i] \in Nat
  <2>. DEFINE S == {i \in 0 .. Len(s) : R[i] \in Nat}
  <2>1. 0 \in S
    BY <1>2, <1>3
  <2>2. ASSUME NEW n \in 0 .. Len(s) - 1, n \in S PROVE n + 1 \in S
    <3>1. n + 1 \in 1 .. Len(s) /\ s[n + 1] \in Nat
      BY <1>2
    <3>2. R[n + 1] = R[n] + s[n + 1]
      BY <1>4, <3>1
    <3>. QED
      BY <2>2, <3>1, <3>2
  <2>3. 0 .. Len(s) \subseteq S
    <3>. HIDE DEF S
    <3>. QED
      BY <1>2, <2>1, <2>2, UpTo
  <2>. QED
    BY <2>3
<1>. QED
  BY <1>3, <1>4, <1>5 DEF R

LEMMA TotalType ==
    ASSUME NEW s \in Seq(Nat)
    PROVE  Total(s) \in Nat
<1>1. Len(s) \in 0 .. Len(s)
  OBVIOUS
<1>. QED
  BY <1>1, SumsAt DEF Total

LEMMA TotalEmpty == Total(<<>>) = 0
<1>1. <<>> \in Seq(Nat) /\ Len(<<>>) = 0
  OBVIOUS
<1>. QED
  BY <1>1, SumsAt DEF Total

\* Two sequences of which one goes on where the other ends have the same
\* running sums that far; and a sequence that starts n places into another
\* has the running sums of the rest of it.
LEMMA SumsShift ==
    ASSUME NEW s \in Seq(Nat), NEW t \in Seq(Nat), NEW k \in Nat,
           NEW m \in 0 .. Len(t), k + m <= Len(s),
           \A i \in 1 .. m : t[i] = s[k + i]
    PROVE  RunningSums(s)[k + m] = RunningSums(s)[k] + RunningSums(t)[m]
<1>. DEFINE S == {i \in 0 .. m : RunningSums(s)[k + i]
                                    = RunningSums(s)[k] + RunningSums(t)[i]}
<1>1. k + 0 = k /\ k \in 0 .. Len(s) /\ Len(s) \in Nat /\ Len(t) \in Nat /\ m \in Nat
  OBVIOUS
<1>2. RunningSums(s)[k] \in Nat /\ RunningSums(t)[0] = 0
  BY <1>1, SumsAt
<1>3. 0 \in S
  BY <1>1, <1>2
<1>4. ASSUME NEW n \in 0 .. m - 1, n \in S PROVE n + 1 \in S
  <2>1. /\ n + 1 \in 1 .. m /\ n + 1 \in 1 .. Len(t) /\ n \in 0 .. Len(t)
        /\ k + n + 1 \in 1 .. Len(s) /\ k + n \in 0 .. Len(s)
        /\ (k + n + 1) - 1 = k + n /\ (n + 1) - 1 = n /\ k + (n + 1) = k + n + 1
    <3>. DEFINE ls == Len(s)
                lt == Len(t)
    <3>1. ls \in Nat /\ lt \in Nat /\ m \in 0 .. lt /\ k + m <= ls /\ n \in 0 .. m - 1
      BY <1>1
    <3>. HIDE DEF ls, lt, S
    <3>2. /\ n \in Nat /\ m \in Nat /\ n + 1 <= m /\ m <= lt /\ k + n + 1 <= k + m
      BY <3>1
    <3>3. /\ n + 1 \in 1 .. m /\ n + 1 \in 1 .. lt /\ n \in 0 .. lt
      BY <3>1, <3>2
    <3>4. k + n + 1 \in 1 .. ls /\ k + n \in 0 .. ls
      BY <3>1, <3>2
    <3>5. (k + n + 1) - 1 = k + n /\ (n + 1) - 1 = n /\ k + (n + 1) = k + n + 1
      BY <3>2
    <3>. QED
      BY <3>3, <3>4, <3>5 DEF ls, lt
  <2>2. RunningSums(s)[k + n + 1] = RunningSums(s)[k + n] + s[k + n + 1]
    BY <2>1, SumsAt
  <2>3. RunningSums(t)[n + 1] = RunningSums(t)[n] + t[n + 1]
    BY <2>1, SumsAt
  <2>4. t[n + 1] = s[k + n + 1] /\ t[n + 1] \in Nat
    <3>. HIDE DEF S
    <3>1. t[n + 1] = s[k + (n + 1)]
      BY <2>1
    <3>2. t[n + 1] \in Nat
      BY <2>1
    <3>. QED
      BY <2>1, <3>1, <3>2
  <2>5. RunningSums(s)[k + n] = RunningSums(s)[k] + RunningSums(t)[n]
    BY <1>4
  <2>6. RunningSums(t)[n] \in Nat /\ RunningSums(s)[k + n] \in Nat
    BY <2>1, SumsAt
  <2>7. RunningSums(s)[k + n + 1] = RunningSums(s)[k] + RunningSums(t)[n + 1]
    <3>. DEFINE a == RunningSums(s)[k + n + 1]
                b == RunningSums(s)[k]
                c == RunningSums(t)[n + 1]
                d == RunningSums(t)[n]
                e == RunningSums(s)[k + n]
                x == s[k + n + 1]
    <3>1. a = e + x /\ c = d + x /\ e = b + d
      BY <2>2, <2>3, <2>4, <2>5
    <3>2. b \in Nat /\ d \in Nat /\ x \in Nat
      BY <1>2, <2>4, <2>6
    <3>. HIDE DEF a, b, c, d, e, x, S
    <3>3. a = b + c
      BY <3>1, <3>2
    <3>. QED
      BY <3>3 DEF a, b, c
  <2>8. RunningSums(s)[k + (n + 1)] = RunningSums(s)[k + n + 1]
    BY <2>1
  <2>. QED
    BY <2>1, <2>7, <2>8
<1>5. 0 .. m \subseteq S
  <2>. HIDE DEF S
  <2>. QED
    BY <1>1, <1>3, <1>4, UpTo
<1>. QED
  BY <1>1, <1>5

LEMMA TotalAppend ==
    ASSUME NEW s \in Seq(Nat), NEW x \in Nat
    PROVE  Total(Append(s, x)) = Total(s) + x
<1>. DEFINE t == Append(s, x)
<1>1. /\ t \in Seq(Nat) /\ Len(t) = Len(s) + 1 /\ Len(s) \in Nat /\ t[Len(s) + 1] = x
      /\ \A i \in 1 .. Len(s) : s[i] = t[i]
  OBVIOUS
<1>. HIDE DEF t
<1>2. \A i \in 1 .. Len(s) : s[i] = t[0 + i]
  BY <1>1
<1>3. RunningSums(t)[0 + Len(s)] = RunningSums(t)[0] + RunningSums(s)[Len(s)]
  <2>1. 0 \in Nat /\ Len(s) \in 0 .. Len(s) /\ 0 + Len(s) <= Len(t)
    BY <1>1
  <2>. QED
    BY <1>1, <1>2, <2>1, SumsShift
<1>4. RunningSums(t)[0] = 0 /\ RunningSums(s)[Len(s)] \in Nat
  BY <1>1, SumsAt
<1>5. RunningSums(t)[Len(s) + 1] = RunningSums(t)[(Len(s) + 1) - 1] + t[Len(s) + 1]
  <2>1. Len(s) + 1 \in 1 .. Len(t)
    BY <1>1
  <2>. QED
    BY <2>1, <1>1, SumsAt
<1>6. 0 + Len(s) = Len(s) /\ (Len(s) + 1) - 1 = Len(s)
  BY <1>1
<1>. QED
  BY <1>1, <1>3, <1>4, <1>5, <1>6 DEF Total, t

LEMMA TotalTail ==
    ASSUME NEW s \in Seq(Nat), s # <<>>
    PROVE  Total(s) = Head(s) + Total(Tail(s))
<1>. DEFINE t == Tail(s)
<1>1. /\ t \in Seq(Nat) /\ Len(s) \in Nat \ {0} /\ Len(t) \in Nat
      /\ Len(s) = 1 + Len(t) /\ Head(s) = s[1] /\ s[1] \in Nat
      /\ \A i \in 1 .. Len(t) : t[i] = s[1 + i]
  OBVIOUS
<1>. HIDE DEF t
<1>2. RunningSums(s)[1 + Len(t)] = RunningSums(s)[1] + RunningSums(t)[Len(t)]
  <2>1. 1 \in Nat /\ Len(t) \in 0 .. Len(t) /\ 1 + Len(t) <= Len(s)
    BY <1>1
  <2>. QED
    BY <1>1, <2>1, SumsShift
<1>3. RunningSums(s)[1] = RunningSums(s)[1 - 1] + s[1] /\ RunningSums(s)[0] = 0
  <2>1. 1 \in 1 .. Len(s)
    BY <1>1
  <2>. QED
    BY <2>1, SumsAt
<1>. QED
  BY <1>1, <1>2, <1>3 DEF Total, t

\* The sum of two sequences one after the other.
LEMMA TotalConcat ==
    ASSUME NEW s \in Seq(Nat), NEW t \in Seq(Nat)
    PROVE  Total(s \o t) = Total(s) + Total(t)
<1>. DEFINE u == s \o t
<1>1. /\ u \in Seq(Nat) /\ Len(u) = Len(s) + Len(t) /\ Len(s) \in Nat /\ Len(t) \in Nat
      /\ \A i \in 1 .. Len(t) : t[i] = u[Len(s) + i]
      /\ \A i \in 1 .. Len(s) : s[i] = u[i]
  OBVIOUS
<1>. HIDE DEF u
<1>2. RunningSums(u)[Len(s) + Len(t)] = RunningSums(u)[Len(s)] + RunningSums(t)[Len(t)]
  <2>1. Len(t) \in 0 .. Len(t) /\ Len(s) + Len(t) <= Len(u)
    BY <1>1
  <2>. QED
    BY <1>1, <2>1, SumsShift
<1>3. \A i \in 1 .. Len(s) : s[i] = u[0 + i]
  BY <1>1
<1>4. RunningSums(u)[0 + Len(s)] = RunningSums(u)[0] + RunningSums(s)[Len(s)]
  <2>1. 0 \in Nat /\ Len(s) \in 0 .. Len(s) /\ 0 + Len(s) <= Len(u)
    BY <1>1
  <2>. QED
    BY <1>1, <1>3, <2>1, SumsShift
<1>5. RunningSums(u)[0] = 0 /\ RunningSums(s)[Len(s)] \in Nat /\ 0 + Len(s) = Len(s)
  BY <1>1, SumsAt
<1>. QED
  BY <1>1, <1>2, <1>4, <1>5 DEF Total, u
================================================================================
