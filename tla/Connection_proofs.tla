-------------------------- MODULE Connection_proofs --------------------------
(***************************************************************************)
(* Facts about streams of bytes, and about the buffers of lua/net/ios.lua, *)
(* for streams and buffers of any length.  Tcp_proofs and Tls_proofs rest  *)
(* on them.                                                                *)
(***************************************************************************)
EXTENDS Connection, SequencesExt, TLAPS, SequenceTheorems, WellFoundedInduction

-----------------------------------------------------------------------------
(* Sequences.                                                              *)

LEMMA TakeDrop ==
  ASSUME NEW S, NEW s \in Seq(S), NEW n \in 0 .. Len(s)
  PROVE  /\ Take(s, n) \in Seq(S) /\ Drop(s, n) \in Seq(S)
         /\ Len(Take(s, n)) = n /\ Len(Drop(s, n)) = Len(s) - n
         /\ \A k \in 1 .. n : Take(s, n)[k] = s[k]
         /\ \A k \in 1 .. Len(s) - n : Drop(s, n)[k] = s[k + n]
BY DEF Take, Drop

LEMMA TakeThenDrop ==
  ASSUME NEW S, NEW s \in Seq(S), NEW n \in 0 .. Len(s)
  PROVE  Take(s, n) \o Drop(s, n) = s
<1>1. /\ Take(s, n) \in Seq(S) /\ Drop(s, n) \in Seq(S)
      /\ Len(Take(s, n)) = n /\ Len(Drop(s, n)) = Len(s) - n
      /\ \A k \in 1 .. n : Take(s, n)[k] = s[k]
      /\ \A k \in 1 .. Len(s) - n : Drop(s, n)[k] = s[k + n]
  BY TakeDrop
<1> DEFINE t == Take(s, n) \o Drop(s, n)
<1>2. /\ t \in Seq(S) /\ Len(t) = Len(s)
      /\ \A k \in 1 .. Len(s) : t[k] = IF k <= n THEN Take(s, n)[k] ELSE Drop(s, n)[k - n]
  BY <1>1
<1>3. \A k \in 1 .. Len(s) : t[k] = s[k]
  BY <1>1, <1>2
<1> QED
  BY <1>2, <1>3, SeqEqual

LEMMA DropNone == ASSUME NEW S, NEW s \in Seq(S) PROVE Drop(s, 0) = s /\ Drop(s, Len(s)) = << >>
<1>1. Len(Drop(s, 0)) = Len(s) /\ Drop(s, 0) \in Seq(S) /\ \A k \in 1 .. Len(s) : Drop(s, 0)[k] = s[k]
  BY DEF Drop
<1>2. Len(Drop(s, Len(s))) = 0 /\ Drop(s, Len(s)) \in Seq(S)
  BY DEF Drop
<1> QED
  BY <1>1, <1>2, SeqEqual

\* A part of a buffer, from m + 1 to u, is cut in two at n.
LEMMA PartSplit ==
  \A w \in Seq(Nat) : \A m, n, u \in Nat : m <= n /\ n <= u /\ u <= Len(w) =>
     /\ SubSeq(w, m + 1, u) \in Seq(Nat) /\ Len(SubSeq(w, m + 1, u)) = u - m
     /\ Take(SubSeq(w, m + 1, u), n - m) = SubSeq(w, m + 1, n)
     /\ Drop(SubSeq(w, m + 1, u), n - m) = SubSeq(w, n + 1, u)
     /\ SubSeq(w, m + 1, n) \in Seq(Nat) /\ SubSeq(w, n + 1, u) \in Seq(Nat)
     /\ SubSeq(w, m + 1, u) = SubSeq(w, m + 1, n) \o SubSeq(w, n + 1, u)
<1> TAKE w \in Seq(Nat)
<1> TAKE m, n, u \in Nat
<1> HAVE m <= n /\ n <= u /\ u <= Len(w)
<1> DEFINE p == SubSeq(w, m + 1, u)
           f == SubSeq(w, m + 1, n)
           b == SubSeq(w, n + 1, u)
<1>1. /\ p \in Seq(Nat) /\ Len(p) = u - m /\ \A k \in 1 .. u - m : p[k] = w[k + m]
      /\ f \in Seq(Nat) /\ Len(f) = n - m /\ \A k \in 1 .. n - m : f[k] = w[k + m]
      /\ b \in Seq(Nat) /\ Len(b) = u - n /\ \A k \in 1 .. u - n : b[k] = w[k + n]
  OBVIOUS
<1> HIDE DEF p, f, b
<1>2. n - m \in 0 .. Len(p)
  BY <1>1
<1> DEFINE d == n - m
<1> HIDE DEF d
<1>3. d \in 0 .. Len(p)
  BY <1>2 DEF d
<1>4. /\ Take(p, n - m) \in Seq(Nat) /\ Drop(p, n - m) \in Seq(Nat)
      /\ Len(Take(p, n - m)) = n - m /\ Len(Drop(p, n - m)) = Len(p) - (n - m)
      /\ \A k \in 1 .. n - m : Take(p, n - m)[k] = p[k]
      /\ \A k \in 1 .. Len(p) - (n - m) : Drop(p, n - m)[k] = p[k + (n - m)]
      /\ Take(p, n - m) \o Drop(p, n - m) = p
  <2>1. /\ Take(p, d) \in Seq(Nat) /\ Drop(p, d) \in Seq(Nat)
        /\ Len(Take(p, d)) = d /\ Len(Drop(p, d)) = Len(p) - d
        /\ \A k \in 1 .. d : Take(p, d)[k] = p[k]
        /\ \A k \in 1 .. Len(p) - d : Drop(p, d)[k] = p[k + d]
    BY <1>1, <1>3, TakeDrop
  <2>2. Take(p, d) \o Drop(p, d) = p
    BY <1>1, <1>3, TakeThenDrop
  <2> QED
    BY <2>1, <2>2 DEF d
<1>5. Take(p, n - m) = f
  <2>1. ASSUME NEW k \in 1 .. n - m PROVE Take(p, n - m)[k] = f[k]
    <3>1. k \in 1 .. u - m
      OBVIOUS
    <3> QED
      BY <1>1, <1>4, <3>1
  <2> QED
    BY <1>1, <1>4, <2>1, SeqEqual
<1>6. Drop(p, n - m) = b
  <2>1. Len(p) - (n - m) = u - n
    BY <1>1
  <2>2. ASSUME NEW k \in 1 .. u - n PROVE Drop(p, n - m)[k] = b[k]
    <3>1. k + (n - m) \in 1 .. u - m /\ (k + (n - m)) + m = k + n
      OBVIOUS
    <3>2. Drop(p, n - m)[k] = p[k + (n - m)] /\ p[k + (n - m)] = w[(k + (n - m)) + m] /\ b[k] = w[k + n]
      BY <1>1, <1>4, <2>1, <3>1
    <3> QED
      BY <3>1, <3>2
  <2> QED
    BY <1>1, <1>4, <2>1, <2>2, SeqEqual
<1> QED
  BY <1>1, <1>4, <1>5, <1>6 DEF p, f, b

LEMMA PartOf ==
  \A w \in Seq(Nat) : \A m, n \in Nat : m <= n /\ n <= Len(w) =>
     SubSeq(w, m + 1, n) \in Seq(Nat) /\ Len(SubSeq(w, m + 1, n)) = n - m
OBVIOUS

LEMMA PartTake ==
  \A w \in Seq(Nat) : \A m, n, u \in Nat : m <= n /\ n <= u /\ u <= Len(w) =>
     Take(SubSeq(w, m + 1, u), n - m) = SubSeq(w, m + 1, n)
BY PartSplit

LEMMA PartDrop ==
  \A w \in Seq(Nat) : \A m, n, u \in Nat : m <= n /\ n <= u /\ u <= Len(w) =>
     Drop(SubSeq(w, m + 1, u), n - m) = SubSeq(w, n + 1, u)
BY PartSplit

LEMMA PartJoin ==
  \A w \in Seq(Nat) : \A m, n, u \in Nat : m <= n /\ n <= u /\ u <= Len(w) =>
     SubSeq(w, m + 1, u) = SubSeq(w, m + 1, n) \o SubSeq(w, n + 1, u)
BY PartSplit

LEMMA Regroup == \A a, b, c \in Seq(Nat) : (a \o b) \o c = a \o (b \o c)
OBVIOUS

LEMMA RegroupPieces == \A a, b, c \in Seq(Seq(Nat)) : (a \o b) \o c = a \o (b \o c)
OBVIOUS

LEMMA Joined == \A a, b \in Seq(Nat) : a \o b \in Seq(Nat)
OBVIOUS

LEMMA NumbersSeq == ASSUME NEW n \in Nat
                    PROVE  Numbers(n) \in Seq(Nat) /\ Len(Numbers(n)) = n
                           /\ \A k \in 1 .. n : Numbers(n)[k] = k
BY DEF Numbers

LEMMA NumbersNext == ASSUME NEW n \in Nat, NEW m \in Nat
                     PROVE  Numbers(n) \o [k \in 1 .. m |-> n + k] = Numbers(n + m)
<1> DEFINE more == [k \in 1 .. m |-> n + k]
           old == Numbers(n)
           new == Numbers(n + m)
<1>1. more \in Seq(Nat) /\ Len(more) = m /\ \A k \in 1 .. m : more[k] = n + k
  OBVIOUS
<1>2. /\ old \in Seq(Nat) /\ Len(old) = n /\ \A k \in 1 .. n : old[k] = k
      /\ new \in Seq(Nat) /\ Len(new) = n + m /\ \A k \in 1 .. n + m : new[k] = k
  BY NumbersSeq
<1> HIDE DEF more, old, new
<1>3. /\ old \o more \in Seq(Nat) /\ Len(old \o more) = n + m
      /\ \A k \in 1 .. n + m : (old \o more)[k] = IF k <= n THEN old[k] ELSE more[k - n]
  <2>1. /\ old \o more \in Seq(Nat) /\ Len(old \o more) = Len(old) + Len(more)
        /\ \A k \in 1 .. Len(old) + Len(more) :
              (old \o more)[k] = IF k <= Len(old) THEN old[k] ELSE more[k - Len(old)]
    BY <1>1, <1>2, ConcatProperties
  <2> QED
    BY <1>1, <1>2, <2>1
<1>4. ASSUME NEW k \in 1 .. n + m PROVE (old \o more)[k] = new[k]
  <2>1. CASE k <= n
    BY <1>2, <1>3, <2>1
  <2>2. CASE k > n
    <3>1. (old \o more)[k] = more[k - n] /\ k - n \in 1 .. m
      BY <1>3, <2>2
    <3>2. more[k - n] = n + (k - n)
      BY <1>1, <3>1
    <3> QED
      BY <1>2, <3>1, <3>2
  <2>3. k <= n \/ k > n
    OBVIOUS
  <2> QED
    BY <2>1, <2>2, <2>3
<1>5. old \o more = new
  BY <1>2, <1>3, <1>4, SeqEqual
<1> QED
  BY <1>5 DEF more, old, new
-----------------------------------------------------------------------------
(* Bytes that come in order, though some of them may be missing.           *)

Ordered(s, n) == s \in Seq(Nat) /\ Increasing(s) /\ \A k \in 1 .. Len(s) : s[k] \in 1 .. n

LEMMA NumbersOrdered == ASSUME NEW n \in Nat PROVE Ordered(Numbers(n), n)
BY NumbersSeq DEF Ordered, Increasing

LEMMA OrderedNext == ASSUME NEW s, NEW n \in Nat, Ordered(s, n)
                     PROVE  Ordered(Append(s, n + 1), n + 1)
<1> DEFINE t == Append(s, n + 1)
<1>1. s \in Seq(Nat) /\ Increasing(s) /\ \A k \in 1 .. Len(s) : s[k] \in 1 .. n
  BY DEF Ordered
<1>2. /\ t \in Seq(Nat) /\ Len(t) = Len(s) + 1 /\ DOMAIN t = 1 .. Len(s) + 1
      /\ \A k \in 1 .. Len(s) : t[k] = s[k]
      /\ t[Len(s) + 1] = n + 1
  BY <1>1
<1> HIDE DEF t
<1>3. \A k \in 1 .. Len(t) : t[k] \in 1 .. n + 1
  <2> SUFFICES ASSUME NEW k \in 1 .. Len(t) PROVE t[k] \in 1 .. n + 1
    OBVIOUS
  <2>1. k \in 1 .. Len(s) \/ k = Len(s) + 1
    BY <1>1, <1>2
  <2>2. CASE k \in 1 .. Len(s)
    <3>1. t[k] \in 1 .. n
      BY <1>1, <1>2, <2>2
    <3> QED
      BY <3>1
  <2>3. CASE k = Len(s) + 1
    BY <1>2, <2>3
  <2> QED
    BY <2>1, <2>2, <2>3
<1>4. ASSUME NEW j \in DOMAIN t, NEW k \in DOMAIN t, j < k PROVE t[j] < t[k]
  <2>1. j \in 1 .. Len(s) /\ (k \in 1 .. Len(s) \/ k = Len(s) + 1)
    BY <1>1, <1>2, <1>4
  <2>2. CASE k \in 1 .. Len(s)
    <3>1. s[j] < s[k]
      BY <1>1, <1>4, <2>1, <2>2 DEF Increasing
    <3> QED
      BY <1>2, <2>1, <2>2, <3>1
  <2>3. CASE k = Len(s) + 1
    BY <1>1, <1>2, <2>1, <2>3
  <2> QED
    BY <2>1, <2>2, <2>3
<1> QED
  BY <1>2, <1>3, <1>4 DEF Ordered, Increasing, t

\* What is left of a stream when a part of it is taken out.
LEMMA OrderedWithout == ASSUME NEW a \in Seq(Nat), NEW b \in Seq(Nat), NEW c \in Seq(Nat), NEW n \in Nat,
                               Ordered(a \o (b \o c), n)
                        PROVE  Ordered(a \o c, n)
<1> DEFINE t == a \o c
           u == b \o c
           s == a \o u
<1>1. /\ t \in Seq(Nat) /\ Len(t) = Len(a) + Len(c) /\ DOMAIN t = 1 .. Len(a) + Len(c)
      /\ \A k \in 1 .. Len(a) + Len(c) : t[k] = IF k <= Len(a) THEN a[k] ELSE c[k - Len(a)]
  BY ConcatProperties
<1>2. /\ u \in Seq(Nat) /\ Len(u) = Len(b) + Len(c)
      /\ \A k \in 1 .. Len(b) + Len(c) : u[k] = IF k <= Len(b) THEN b[k] ELSE c[k - Len(b)]
  BY ConcatProperties
<1> HIDE DEF t, u
<1>3. /\ s \in Seq(Nat) /\ Len(s) = Len(a) + Len(u) /\ DOMAIN s = 1 .. Len(a) + Len(u)
      /\ \A k \in 1 .. Len(a) + Len(u) : s[k] = IF k <= Len(a) THEN a[k] ELSE u[k - Len(a)]
  <2>1. u \in Seq(Nat)
    BY <1>2
  <2> QED
    BY <2>1, ConcatProperties
<1> HIDE DEF s
<1> DEFINE Old(k) == IF k <= Len(a) THEN k ELSE k + Len(b)
<1>4. /\ Len(a) \in Nat /\ Len(b) \in Nat /\ Len(c) \in Nat
      /\ Len(u) = Len(b) + Len(c) /\ Len(s) = Len(a) + (Len(b) + Len(c))
  BY <1>2, <1>3
<1>5. ASSUME NEW k \in 1 .. Len(t) PROVE Old(k) \in 1 .. Len(s) /\ t[k] = s[Old(k)]
  <2>1. k \in 1 .. Len(a) + Len(c)
    BY <1>1
  <2>2. CASE k <= Len(a)
    <3>1. k \in 1 .. Len(s) /\ k \in 1 .. Len(a) + Len(u)
      BY <1>4, <2>1, <2>2
    <3>2. t[k] = a[k] /\ s[k] = a[k]
      BY <1>1, <1>3, <2>1, <2>2, <3>1
    <3> QED
      BY <2>2, <3>1, <3>2
  <2>3. CASE ~ (k <= Len(a))
    <3>1. /\ k - Len(a) \in 1 .. Len(c) /\ k + Len(b) \in 1 .. Len(s) /\ ~ (k + Len(b) <= Len(a))
          /\ (k + Len(b)) - Len(a) \in 1 .. Len(u) /\ ~ ((k + Len(b)) - Len(a) <= Len(b))
          /\ ((k + Len(b)) - Len(a)) - Len(b) = k - Len(a)
      BY <1>4, <2>1, <2>3
    <3>2. t[k] = c[k - Len(a)]
      BY <1>1, <2>1, <2>3
    <3>3. s[k + Len(b)] = u[(k + Len(b)) - Len(a)]
      <4>1. k + Len(b) \in 1 .. Len(a) + Len(u)
        BY <1>3, <3>1
      <4> QED
        BY <1>3, <3>1, <4>1
    <3>4. u[(k + Len(b)) - Len(a)] = c[k - Len(a)]
      <4>1. (k + Len(b)) - Len(a) \in 1 .. Len(b) + Len(c)
        BY <1>2, <3>1
      <4>2. u[(k + Len(b)) - Len(a)] = c[((k + Len(b)) - Len(a)) - Len(b)]
        BY <1>2, <3>1, <4>1
      <4> QED
        BY <3>1, <4>2
    <3> QED
      BY <2>3, <3>1, <3>2, <3>3, <3>4
  <2> QED
    BY <2>2, <2>3
<1>6. Ordered(s, n)
  BY DEF s, u
<1>7. ASSUME NEW j \in DOMAIN t, NEW k \in DOMAIN t, j < k PROVE t[j] < t[k]
  <2>1. j \in 1 .. Len(t) /\ k \in 1 .. Len(t) /\ j \in Nat /\ k \in Nat
    BY <1>1
  <2>2. Old(j) \in DOMAIN s /\ Old(k) \in DOMAIN s /\ t[j] = s[Old(j)] /\ t[k] = s[Old(k)]
    BY <1>3, <1>5, <2>1
  <2>3. Old(j) < Old(k)
    BY <1>4, <1>7, <2>1
  <2> QED
    BY <1>6, <2>2, <2>3 DEF Ordered, Increasing
<1>8. \A k \in 1 .. Len(t) : t[k] \in 1 .. n
  BY <1>5, <1>6 DEF Ordered
<1> QED
  BY <1>1, <1>7, <1>8 DEF Ordered, Increasing, t

\* There is no room for more of them than there are.
LEMMA OrderedLength == ASSUME NEW s, NEW n \in Nat, Ordered(s, n)
                       PROVE  Len(s) <= n
<1> DEFINE early == {k \in 1 .. Len(s) : s[k] < k}
           R == {ss \in Nat \X Nat : ss[1] < ss[2]}
<1>1. /\ s \in Seq(Nat) /\ DOMAIN s = 1 .. Len(s) /\ Len(s) \in Nat
      /\ \A k \in 1 .. Len(s) : s[k] \in 1 .. n
      /\ \A j, k \in 1 .. Len(s) : j < k => s[j] < s[k]
  BY DEF Ordered, Increasing
<1>2. early = {}
  <2> SUFFICES ASSUME early # {} PROVE FALSE
    OBVIOUS
  <2>1. R = OpToRel(<, Nat)
    BY Zenon DEF OpToRel
  <2>2. IsWellFoundedOn(R, Nat)
    BY <2>1, NatLessThanWellFounded
  <2>3. PICK m \in early : \A k \in early : ~ (<<k, m>> \in R)
    <3>1. early \in SUBSET Nat
      OBVIOUS
    <3> HIDE DEF R, early
    <3> QED
      BY <2>2, <3>1, WFMin
  <2>4. m \in 1 .. Len(s) /\ s[m] < m /\ s[m] \in 1 .. n
    BY <1>1
  <2>5. m - 1 \in 1 .. Len(s) /\ m - 1 < m /\ m - 1 \in Nat /\ m \in Nat
    BY <2>4
  <2>6. s[m - 1] < s[m] /\ s[m - 1] \in 1 .. n
    BY <1>1, <2>4, <2>5
  <2>7. s[m - 1] < m - 1
    BY <2>4, <2>5, <2>6
  <2>8. m - 1 \in early /\ <<m - 1, m>> \in R
    BY <2>5, <2>7
  <2> QED
    BY <2>3, <2>8
<1>3. CASE Len(s) = 0
  BY <1>3
<1>4. CASE Len(s) # 0
  <2>1. Len(s) \in 1 .. Len(s) /\ s[Len(s)] \in 1 .. n /\ ~ (s[Len(s)] < Len(s))
    BY <1>1, <1>2, <1>4
  <2> QED
    BY <1>1, <2>1
<1> QED
  BY <1>3, <1>4
-----------------------------------------------------------------------------
(* A look at the buffer.                                                   *)

LEMMA FirstIn == ASSUME NEW T \in SUBSET Nat
                 PROVE  IF T = {} THEN FirstOf(T) = 0
                        ELSE FirstOf(T) \in T /\ \A k \in T : FirstOf(T) <= k
<1>1. CASE T = {}
  BY <1>1 DEF FirstOf
<1>2. CASE T # {}
  <2> DEFINE R == {ss \in Nat \X Nat : ss[1] < ss[2]}
  <2>1. R = OpToRel(<, Nat)
    BY Zenon DEF OpToRel
  <2>2. IsWellFoundedOn(R, Nat)
    BY <2>1, NatLessThanWellFounded
  <2>3. PICK m \in T : \A k \in T : ~ (<<k, m>> \in R)
    <3> HIDE DEF R
    <3> QED
      BY <1>2, <2>2, WFMin
  <2>4. ASSUME NEW k \in T PROVE m <= k
    <3>1. k \in Nat /\ m \in Nat /\ (k < m => <<k, m>> \in R)
      OBVIOUS
    <3>2. ~ (k < m)
      BY <2>3, <3>1
    <3> QED
      BY <3>1, <3>2
  <2> QED
    BY <1>2, <2>3, <2>4 DEF FirstOf, Min
<1> QED
  BY <1>1, <1>2

\* The end of the first line that FindLine() finds is in the buffer.
LEMMA LineIn == ASSUME NEW S, NEW buf \in Seq(S), NEW from \in Nat, FindLine(buf, from) # 0
                PROVE  /\ FindLine(buf, from) \in 1 .. Len(buf)
                       /\ EndOfLine(buf, FindLine(buf, from)) \in 1 .. Len(buf)
<1> DEFINE ends == {k \in DOMAIN buf : k >= from /\ EndOfLine(buf, k) # 0}
<1>1. ends \in SUBSET Nat /\ FindLine(buf, from) = FirstOf(ends)
  BY DEF FindLine
<1> HIDE DEF ends
<1>2. FindLine(buf, from) \in ends
  BY <1>1, FirstIn
<1>3. FindLine(buf, from) \in 1 .. Len(buf) /\ EndOfLine(buf, FindLine(buf, from)) # 0
  BY <1>2 DEF ends
<1>4. ASSUME NEW k \in 1 .. Len(buf), EndOfLine(buf, k) # 0 PROVE EndOfLine(buf, k) \in 1 .. Len(buf)
  BY <1>4 DEF EndOfLine
<1> QED
  BY <1>3, <1>4

NoEndBefore(buf, k) == \A j \in 1 .. Len(buf) : j < k => Is[buf[j]] # "lf"

\* A look for a line, from where no line end is before: all of the buffer is
\* without one, or the line ends at the first there is.
LineMissing(buf, from) ==
  /\ NoEndBefore(buf, Len(buf) + 1)
  /\ \E next \in {from, Len(buf) + 1} : next <= Len(buf) + 1 /\ TryLine(buf, from) = More(buf, next)

LineThere(buf, from) ==
  \E e \in 1 .. Len(buf) :
    /\ NoEndBefore(buf, e)
    /\ \E data : TryLine(buf, from) = Found(data, Take(buf, e), Drop(buf, e), 1)

LEMMA LineLook ==
  \A buf \in Seq(Nat) : \A from \in Nat :
     NoEndBefore(buf, from) => LineMissing(buf, from) \/ LineThere(buf, from)
<1> TAKE buf \in Seq(Nat)
<1> TAKE from \in Nat
<1> HAVE NoEndBefore(buf, from)
<1> DEFINE A == {k \in DOMAIN buf : k >= from /\ Is[buf[k]] \in {"cr", "lf"}}
           s == FindByte(buf, {"cr", "lf"}, from)
           B == {k \in DOMAIN buf : k >= s /\ EndOfLine(buf, k) # 0}
           s2 == FindLine(buf, s)
           e2 == EndOfLine(buf, s2)
<1>1. A \in SUBSET (1 .. Len(buf)) /\ s = FirstOf(A) /\ Len(buf) \in Nat
  BY DEF FindByte
<1>2. B \in SUBSET (1 .. Len(buf)) /\ s2 = FirstOf(B)
  BY DEF FindLine
<1>3. IF A = {} THEN s = 0 ELSE s \in A /\ \A k \in A : s <= k
  <2> HIDE DEF A, s
  <2> QED
    BY <1>1, FirstIn
<1>4. IF B = {} THEN s2 = 0 ELSE s2 \in B /\ \A k \in B : s2 <= k
  <2> HIDE DEF B, s2
  <2> QED
    BY <1>2, FirstIn
<1>5. \A j \in 1 .. Len(buf) : j < s \/ s = 0 => Is[buf[j]] # "lf"
  <2> SUFFICES ASSUME NEW j \in 1 .. Len(buf), j < s \/ s = 0, Is[buf[j]] = "lf" PROVE FALSE
    OBVIOUS
  <2>1. ~ (j < from)
    BY DEF NoEndBefore
  <2>2. j \in A
    BY <2>1
  <2>3. s \in A /\ s <= j
    <3> HIDE DEF A, s
    <3> QED
      BY <1>3, <2>2
  <2>4. s \in 1 .. Len(buf)
    BY <1>1, <2>3, Zenon
  <2> HIDE DEF A, s
  <2> QED
    BY <1>1, <2>3, <2>4
<1>6. CASE s = 0
  <2>1. TryLine(buf, from) = More(buf, Len(buf) + 1)
    BY <1>6, Zenon DEF TryLine, JustBehind
  <2>2. NoEndBefore(buf, Len(buf) + 1)
    BY <1>5, <1>6 DEF NoEndBefore
  <2> QED
    BY <1>1, <2>1, <2>2 DEF LineMissing
<1>7. s # 0 => s \in 1 .. Len(buf) /\ s >= from
  BY <1>3
<1>8. s # 0 => \A j \in 1 .. Len(buf) : j < s2 \/ s2 = 0 => Is[buf[j]] # "lf"
  <2> SUFFICES ASSUME s # 0, NEW j \in 1 .. Len(buf), j < s2 \/ s2 = 0, Is[buf[j]] = "lf" PROVE FALSE
    OBVIOUS
  <2>1. EndOfLine(buf, j) # 0
    BY DEF EndOfLine
  <2> HIDE DEF s, s2
  <2>2. ~ (j < s) /\ s \in 1 .. Len(buf)
    BY <1>5, <1>7
  <2>3. j \in B
    BY <2>1, <2>2
  <2> HIDE DEF B
  <2>4. s2 \in B /\ s2 <= j
    BY <1>4, <2>3
  <2>5. s2 \in 1 .. Len(buf)
    BY <1>2, <2>4, Zenon
  <2> QED
    BY <1>2, <2>4, <2>5
<1>9. CASE s # 0 /\ s2 = 0
  <2>1. TryLine(buf, from) = More(buf, from)
    BY <1>9, Zenon DEF TryLine
  <2> HIDE DEF s, s2
  <2>2. NoEndBefore(buf, Len(buf) + 1)
    BY <1>8, <1>9 DEF NoEndBefore
  <2>3. from <= Len(buf) + 1
    BY <1>1, <1>7, <1>9
  <2> QED
    BY <2>1, <2>2, <2>3 DEF LineMissing
<1>10. CASE s # 0 /\ s2 # 0
  <2>1. TryLine(buf, from) = Found(Take(buf, s2 - 1), Take(buf, e2), Drop(buf, e2), 1)
    BY <1>10, Zenon DEF TryLine
  <2>2. s \in Nat
    BY <1>7, <1>10
  <2>3. e2 \in 1 .. Len(buf) /\ s2 \in 1 .. Len(buf)
    BY <1>10, <2>2, LineIn
  <2>4. e2 = s2 \/ (Is[buf[s2]] = "cr" /\ e2 = s2 + 1)
    BY <2>3 DEF EndOfLine
  <2> HIDE DEF s, s2, e2
  <2>5. ASSUME NEW j \in 1 .. Len(buf), j < e2 PROVE Is[buf[j]] # "lf"
    <3>1. j < s2 \/ j = s2
      BY <2>3, <2>4, <2>5
    <3>2. CASE j < s2
      BY <1>8, <1>10, <3>2
    <3>3. CASE j = s2
      <4>1. e2 # s2
        BY <2>3, <2>5, <3>3
      <4> QED
        BY <2>4, <3>3, <4>1
    <3> QED
      BY <3>1, <3>2, <3>3
  <2> QED
    BY <2>1, <2>3, <2>5 DEF NoEndBefore, LineThere
<1> QED
  BY <1>6, <1>9, <1>10

\* The other looks take bytes off the front of the buffer.
LEMMA OtherLook ==
  ASSUME readbuf \in Seq(Nat), ~ eof, format \in [kind : {"bytes", "line", "block", "all"}, n : Nat],
         format.kind # "line", NEW look, look = Try(format, readbuf, rpos, eof, tried)
  PROVE  /\ look.rpos \in {rpos, 1}
         /\ look.more => look.buf = readbuf
         /\ \E n \in 0 .. Len(readbuf) : look.buf = Drop(readbuf, n)
<1> DEFINE n == format.n
<1>0. /\ Len(readbuf) \in 0 .. Len(readbuf) /\ 0 \in 0 .. Len(readbuf)
      /\ Drop(readbuf, 0) = readbuf /\ Drop(readbuf, Len(readbuf)) = << >>
  BY DropNone
<1>1. CASE look = More(readbuf, rpos)
  BY <1>0, <1>1 DEF More
<1>2. CASE look = TakeBlock(readbuf)
  BY <1>0, <1>2 DEF TakeBlock, Found
<1>3. CASE format.kind = "bytes"
  <2>1. look = TryBytes(n, readbuf, rpos, eof)
    BY <1>3, Zenon DEF Try
  <2>2. CASE Len(readbuf) >= n
    <3>1. look = Found(Take(readbuf, n), Take(readbuf, n), Drop(readbuf, n), rpos)
      BY <2>1, <2>2, Zenon DEF TryBytes
    <3>2. n \in 0 .. Len(readbuf)
      BY <2>2
    <3> QED
      BY <3>1, <3>2 DEF Found
  <2>3. CASE ~ (Len(readbuf) >= n)
    BY <1>1, <2>1, <2>3, Zenon DEF TryBytes
  <2> QED
    BY <2>2, <2>3
<1>4. CASE format.kind = "block"
  <2>1. format.kind # "bytes"
    BY <1>4
  <2>2. look = TryBlock(readbuf, rpos, tried)
    BY <1>4, <2>1, Zenon DEF Try
  <2> QED
    BY <1>1, <1>2, <2>2, Zenon DEF TryBlock
<1>5. CASE format.kind = "all"
  <2>1. format.kind # "bytes" /\ format.kind # "block"
    BY <1>5
  <2>2. look = More(readbuf, rpos)
    BY <1>5, <2>1, Zenon DEF Try
  <2> QED
    BY <1>1, <2>2
<1> QED
  BY <1>3, <1>4, <1>5

LEMMA NoEndDropped ==
  ASSUME NEW buf \in Seq(Nat), NoEndBefore(buf, Len(buf) + 1), NEW n \in 0 .. Len(buf)
  PROVE  \A k \in Nat : NoEndBefore(Drop(buf, n), k)
<1> DEFINE b == Drop(buf, n)
<1>1. b \in Seq(Nat) /\ Len(b) = Len(buf) - n /\ \A k \in 1 .. Len(buf) - n : b[k] = buf[k + n]
  BY TakeDrop
<1> HIDE DEF b
<1>2. ASSUME NEW j \in 1 .. Len(b) PROVE Is[b[j]] # "lf"
  <2>1. j + n \in 1 .. Len(buf) /\ j + n < Len(buf) + 1 /\ b[j] = buf[j + n]
    BY <1>1
  <2> QED
    BY <2>1 DEF NoEndBefore
<1> QED
  BY <1>2 DEF NoEndBefore, b

\* What a look may do to a buffer of bytes of T.
LookKeeps(T, look) ==
  /\ look.used \in Seq(T) /\ (look.buf = Nil \/ look.buf \in Seq(T))
  /\ look.used \o Bytes(look.buf) = Bytes(readbuf)
  /\ look.buf = Nil => eof
  /\ look.more => look.buf = readbuf /\ readbuf # Nil /\ (~ eof \/ tried)
  /\ look.rpos \in {rpos, 1} \/ (readbuf # Nil /\ look.rpos = Len(readbuf) + 1)

LEMMA FoundKeeps ==
  ASSUME NEW T, NEW data, NEW more \in Seq(T), NEW buf, buf = Nil \/ buf \in Seq(T), NEW next,
         more \o Bytes(buf) = Bytes(readbuf), buf = Nil => eof, next \in {rpos, 1}
  PROVE  LookKeeps(T, Found(data, more, buf, next))
BY DEF LookKeeps, Found

LEMMA MoreKeeps ==
  ASSUME NEW T, readbuf \in Seq(T), readbuf # Nil, ~ eof \/ tried, NEW next,
         next = rpos \/ next = Len(readbuf) + 1
  PROVE  LookKeeps(T, More(readbuf, next))
BY DEF LookKeeps, More, Bytes

\* Each reader takes a part of the buffer from its front, or leaves it alone.
\* When it asks for more there is a buffer to add to.
LEMMA TryKeeps ==
  ASSUME NEW T, Nil \notin Seq(T), readbuf = Nil \/ readbuf \in Seq(T),
         format \in [kind : {"bytes", "line", "block", "all"}, n : Nat],
         readbuf = Nil => eof, tried => readbuf # Nil
  PROVE  LookKeeps(T, Try(format, readbuf, rpos, eof, tried))
<1> DEFINE look == Try(format, readbuf, rpos, eof, tried)
           n == format.n
<1>0. << >> \in Seq(T) /\ << >> # Nil /\ Bytes(Nil) = << >>
      /\ (readbuf # Nil => readbuf \in Seq(T) /\ Bytes(readbuf) = readbuf)
  <2>1. << >> \in Seq(T)
    OBVIOUS
  <2> QED
    BY <2>1 DEF Bytes
<1>1. LookKeeps(T, TakeAll(readbuf, rpos)) \/ ~ eof
  <2>1. Bytes(readbuf) \in Seq(T)
    BY <1>0
  <2>2. Bytes(readbuf) \o << >> = Bytes(readbuf)
    BY <2>1, ConcatEmptySeq
  <2> QED
    BY <1>0, <2>1, <2>2, FoundKeeps DEF TakeAll
<1>2. CASE format.kind = "bytes"
  <2>1. look = TryBytes(n, readbuf, rpos, eof)
    BY <1>2, Zenon DEF Try
  <2>2. CASE eof /\ Bytes(readbuf) = << >>
    <3>1. look = Found(Nil, << >>, Nil, rpos)
      BY <2>1, <2>2, Zenon DEF TryBytes
    <3>2. << >> \o Bytes(Nil) = Bytes(readbuf)
      BY <1>0, <2>2
    <3>3. LookKeeps(T, Found(Nil, << >>, Nil, rpos))
      BY <1>0, <2>2, <3>2, FoundKeeps
    <3> QED
      BY <3>1, <3>3
  <2>3. CASE ~ (eof /\ Bytes(readbuf) = << >>)
    <3>1. readbuf # Nil /\ readbuf \in Seq(T)
      BY <1>0, <2>3
    <3>2. CASE Len(readbuf) >= n
      <4>1. look = Found(Take(readbuf, n), Take(readbuf, n), Drop(readbuf, n), rpos)
        BY <2>1, <2>3, <3>2, Zenon DEF TryBytes
      <4>2. n \in 0 .. Len(readbuf)
        BY <3>1, <3>2
      <4>3. Take(readbuf, n) \in Seq(T) /\ Drop(readbuf, n) \in Seq(T)
            /\ Take(readbuf, n) \o Drop(readbuf, n) = readbuf
        BY <3>1, <4>2, TakeDrop, TakeThenDrop
      <4>4. Bytes(Drop(readbuf, n)) = Drop(readbuf, n) /\ Bytes(readbuf) = readbuf
            /\ Drop(readbuf, n) # Nil
        BY <3>1, <4>3 DEF Bytes
      <4>5. LookKeeps(T, Found(Take(readbuf, n), Take(readbuf, n), Drop(readbuf, n), rpos))
        BY <4>3, <4>4, FoundKeeps
      <4> QED
        BY <4>1, <4>5
    <3>3. CASE ~ (Len(readbuf) >= n)
      <4>1. look = IF eof THEN Found(readbuf, readbuf, << >>, rpos) ELSE More(readbuf, rpos)
        BY <2>1, <2>3, <3>3, Zenon DEF TryBytes
      <4>2. readbuf \o Bytes(<< >>) = Bytes(readbuf)
        BY <1>0, <3>1 DEF Bytes
      <4>3. LookKeeps(T, Found(readbuf, readbuf, << >>, rpos))
        BY <1>0, <3>1, <4>2, FoundKeeps
      <4>4. ~ eof => LookKeeps(T, More(readbuf, rpos))
        BY <1>0, <3>1, MoreKeeps
      <4> QED
        BY <4>1, <4>3, <4>4
    <3> QED
      BY <3>2, <3>3
  <2> QED
    BY <2>2, <2>3
<1>3. CASE format.kind = "line"
  <2>1. format.kind # "bytes"
    BY <1>3
  <2>2. look = IF eof THEN TakeAll(readbuf, rpos) ELSE TryLine(readbuf, rpos)
    BY <1>3, <2>1, Zenon DEF Try
  <2>3. CASE ~ eof
    <3> DEFINE s == FindByte(readbuf, {"cr", "lf"}, rpos)
               s2 == FindLine(readbuf, s)
               e2 == EndOfLine(readbuf, s2)
    <3>1. readbuf # Nil /\ readbuf \in Seq(T)
      BY <2>3
    <3>2. CASE s = 0
      <4>1. look = More(readbuf, JustBehind(readbuf))
        BY <2>2, <2>3, <3>2, Zenon DEF TryLine
      <4>2. LookKeeps(T, More(readbuf, Len(readbuf) + 1))
        BY <2>3, <3>1, MoreKeeps
      <4> QED
        BY <4>1, <4>2 DEF JustBehind
    <3>3. CASE s # 0 /\ s2 = 0
      <4>1. look = More(readbuf, rpos)
        BY <2>2, <2>3, <3>3, Zenon DEF TryLine
      <4>2. LookKeeps(T, More(readbuf, rpos))
        BY <2>3, <3>1, MoreKeeps
      <4> QED
        BY <4>1, <4>2
    <3>4. CASE s # 0 /\ s2 # 0
      <4>1. look = Found(Take(readbuf, s2 - 1), Take(readbuf, e2), Drop(readbuf, e2), 1)
        BY <2>2, <2>3, <3>4, Zenon DEF TryLine
      <4>2. {k \in DOMAIN readbuf : k >= rpos /\ Is[readbuf[k]] \in {"cr", "lf"}} \in SUBSET Nat
        BY <3>1
      <4>3. s \in Nat
        BY <4>2, FirstIn DEF FindByte
      <4>4. e2 \in 1 .. Len(readbuf)
        BY <3>1, <3>4, <4>3, LineIn
      <4> HIDE DEF e2, s2, s
      <4>5. Take(readbuf, e2) \in Seq(T) /\ Drop(readbuf, e2) \in Seq(T)
            /\ Take(readbuf, e2) \o Drop(readbuf, e2) = readbuf
        BY <3>1, <4>4, TakeDrop, TakeThenDrop
      <4>6. Bytes(Drop(readbuf, e2)) = Drop(readbuf, e2) /\ Bytes(readbuf) = readbuf
            /\ Drop(readbuf, e2) # Nil
        BY <3>1, <4>5 DEF Bytes
      <4>7. LookKeeps(T, Found(Take(readbuf, s2 - 1), Take(readbuf, e2), Drop(readbuf, e2), 1))
        BY <4>5, <4>6, FoundKeeps
      <4> QED
        BY <4>1, <4>7
    <3> QED
      BY <3>2, <3>3, <3>4
  <2> QED
    BY <1>1, <2>2, <2>3
<1>4. CASE format.kind = "block"
  <2>1. format.kind # "bytes" /\ format.kind # "line"
    BY <1>4
  <2>2. look = IF eof /\ ~ tried THEN TakeAll(readbuf, rpos) ELSE TryBlock(readbuf, rpos, tried)
    BY <1>4, <2>1, Zenon DEF Try
  <2>3. CASE ~ (eof /\ ~ tried)
    <3>1. readbuf # Nil /\ readbuf \in Seq(T)
      BY <2>3
    <3>2. readbuf \o Bytes(<< >>) = Bytes(readbuf)
      BY <1>0, <3>1 DEF Bytes
    <3>3. LookKeeps(T, TakeBlock(readbuf))
      BY <1>0, <3>1, <3>2, FoundKeeps DEF TakeBlock
    <3>4. LookKeeps(T, More(readbuf, rpos))
      BY <2>3, <3>1, MoreKeeps
    <3> QED
      BY <2>2, <2>3, <3>3, <3>4 DEF TryBlock
  <2> QED
    BY <1>1, <2>2, <2>3
<1>5. CASE format.kind = "all"
  <2>1. format.kind # "bytes" /\ format.kind # "line" /\ format.kind # "block"
    BY <1>5
  <2>2. look = IF eof /\ ~ tried THEN TakeAll(readbuf, rpos) ELSE More(readbuf, rpos)
    BY <1>5, <2>1, Zenon DEF Try
  <2>3. CASE ~ (eof /\ ~ tried)
    <3>1. readbuf # Nil /\ readbuf \in Seq(T)
      BY <2>3
    <3>2. LookKeeps(T, More(readbuf, rpos))
      BY <2>3, <3>1, MoreKeeps
    <3> QED
      BY <2>2, <2>3, <3>2
  <2> QED
    BY <1>1, <2>2, <2>3
<1> QED
  BY <1>2, <1>3, <1>4, <1>5
-----------------------------------------------------------------------------
(* What is drained is the front of the buffer.                             *)

LEMMA PieceIsFront ==
  ASSUME NEW S, NEW buf \in Seq(S), NEW kind \in {"no", "line", "full"}, NEW size \in Nat, Nil \notin Seq(S)
  PROVE  \/ Piece(kind, size, buf) = Nil
         \/ \E n \in 0 .. Len(buf) : Piece(kind, size, buf) = Take(buf, n)
<1>1. CASE kind = "no"
  <2>1. Piece(kind, size, buf) = buf
    BY <1>1, Zenon DEF Piece
  <2>2. Len(buf) \in 0 .. Len(buf) /\ Take(buf, Len(buf)) = buf
    BY DEF Take
  <2> QED
    BY <2>1, <2>2
<1>2. CASE kind = "line" /\ NewLine(buf) # 0
  <2> DEFINE ends == {k \in DOMAIN buf : IsOut[buf[k]] = "lf"}
  <2>1. kind # "no"
    BY <1>2
  <2>2. Piece(kind, size, buf) = Take(buf, NewLine(buf))
    BY <1>2, <2>1, Zenon DEF Piece
  <2>3. ends \in SUBSET Nat /\ NewLine(buf) = FirstOf(ends)
    BY DEF NewLine
  <2>4. NewLine(buf) \in ends
    <3> HIDE DEF ends
    <3> QED
      BY <1>2, <2>3, FirstIn
  <2> QED
    BY <2>2, <2>4
<1>3. CASE kind = "full" \/ (kind = "line" /\ NewLine(buf) = 0)
  <2>1. kind # "no" /\ ~ (kind = "line" /\ NewLine(buf) # 0)
    BY <1>3
  <2>2. Piece(kind, size, buf) = IF Len(buf) >= size THEN Take(buf, size) ELSE Nil
    BY <1>3, <2>1, Zenon DEF Piece
  <2> QED
    BY <2>2
<1> QED
  BY <1>1, <1>2, <1>3
-----------------------------------------------------------------------------
(* What comes from a sequence of pieces.                                   *)

\* The sums of a sequence of pieces: what the first k of them come to together.
SumsOf(f, p) == f[0] = << >> /\ \A i \in 1 .. Len(p) : f[i] = f[i - 1] \o p[i]

\* A set of numbers has a least one.
LEMMA LeastOf == ASSUME NEW T \in SUBSET Nat, T # {}
                 PROVE  \E m \in T : \A k \in T : m <= k
<1>1. FirstOf(T) \in T /\ \A k \in T : FirstOf(T) <= k
  BY FirstIn
<1> QED
  BY <1>1

LEMMA SumsThere == ASSUME NEW p \in Seq(Seq(Nat))
                   PROVE  \E f : SumsOf(f, p) /\ \A i \in 0 .. Len(p) : f[i] \in Seq(Nat)
<1> DEFINE Good(n) == \E f : /\ f[0] = << >> /\ \A i \in 1 .. n : f[i] = f[i - 1] \o p[i]
                             /\ \A i \in 0 .. n : f[i] \in Seq(Nat)
           Bad == {n \in 0 .. Len(p) : ~ Good(n)}
<1>0. Len(p) \in Nat /\ \A i \in 1 .. Len(p) : p[i] \in Seq(Nat)
  OBVIOUS
<1>1. Good(0)
  <2> DEFINE f == [i \in {0} |-> << >>]
  <2>1. /\ f[0] = << >> /\ \A i \in 1 .. 0 : f[i] = f[i - 1] \o p[i]
        /\ \A i \in 0 .. 0 : f[i] \in Seq(Nat)
    OBVIOUS
  <2> QED
    BY <2>1, Zenon
<1>2. ASSUME NEW n \in 1 .. Len(p), Good(n - 1) PROVE Good(n)
  <2> PICK f : /\ f[0] = << >> /\ \A i \in 1 .. n - 1 : f[i] = f[i - 1] \o p[i]
               /\ \A i \in 0 .. n - 1 : f[i] \in Seq(Nat)
    BY <1>2
  <2> DEFINE g == [i \in 0 .. n |-> IF i = n THEN f[n - 1] \o p[n] ELSE f[i]]
  <2>1. g[0] = << >>
    OBVIOUS
  <2>2. ASSUME NEW i \in 1 .. n PROVE g[i] = g[i - 1] \o p[i]
    <3>1. CASE i = n
      <4>1. n \in 0 .. n /\ n - 1 \in 0 .. n /\ n - 1 # n
        OBVIOUS
      <4>2. g[n] = f[n - 1] \o p[n] /\ g[n - 1] = f[n - 1]
        BY <4>1
      <4> QED
        BY <3>1, <4>2
    <3>2. CASE i # n
      <4>1. i \in 1 .. n - 1 /\ i - 1 \in 0 .. n - 1 /\ i \in 0 .. n /\ i - 1 # n
        BY <3>2
      <4>2. g[i] = f[i] /\ g[i - 1] = f[i - 1]
        BY <3>2, <4>1
      <4> QED
        BY <4>1, <4>2
    <3> QED
      BY <3>1, <3>2
  <2>3. ASSUME NEW i \in 0 .. n PROVE g[i] \in Seq(Nat)
    <3>1. CASE i = n
      <4>1. f[n - 1] \in Seq(Nat) /\ p[n] \in Seq(Nat)
        BY <1>0
      <4>2. f[n - 1] \o p[n] \in Seq(Nat)
        BY <4>1, Joined
      <4> QED
        BY <3>1, <4>2
    <3>2. CASE i # n
      BY <3>2
    <3> QED
      BY <3>1, <3>2
  <2> HIDE DEF g
  <2> QED
    BY <2>1, <2>2, <2>3
<1> HIDE DEF Good
<1>3. Bad = {}
  <2> SUFFICES ASSUME Bad # {} PROVE FALSE
    OBVIOUS
  <2>1. Bad \in SUBSET Nat
    BY <1>0
  <2>2. PICK m \in Bad : \A k \in Bad : m <= k
    BY <2>1, LeastOf
  <2>3. m \in 0 .. Len(p) /\ ~ Good(m)
    BY <2>2
  <2>4. m # 0
    BY <1>1, <2>3
  <2>5. m \in 1 .. Len(p) /\ m - 1 \in 0 .. Len(p) /\ ~ (m <= m - 1)
    BY <1>0, <2>3, <2>4
  <2>6. Good(m - 1)
    BY <2>2, <2>5
  <2> QED
    BY <1>2, <2>3, <2>5, <2>6
<1>4. Good(Len(p))
  BY <1>0, <1>3
<1> QED
  BY <1>4 DEF Good, SumsOf

LEMMA FlatIs == ASSUME NEW p \in Seq(Seq(Nat)), NEW f, SumsOf(f, p)
                PROVE  FlattenSeq(p) = f[Len(p)]
<1>0. /\ Len(p) \in Nat /\ \A i \in 1 .. Len(p) : p[i] \in Seq(Nat)
      /\ f[0] = << >> /\ \A i \in 1 .. Len(p) : f[i] = f[i - 1] \o p[i]
  <2>1. Len(p) \in Nat /\ \A i \in 1 .. Len(p) : p[i] \in Seq(Nat)
    OBVIOUS
  <2> QED
    BY <2>1, Zenon DEF SumsOf
<1>1. CASE Len(p) = 0
  <2>1. p = << >>
    BY <1>1
  <2>2. FlattenSeq(p) = p
    BY <1>1, Zenon DEF FlattenSeq
  <2> QED
    BY <1>0, <1>1, <2>1, <2>2
<1>2. CASE Len(p) # 0
  <2> DEFINE flatten == CHOOSE g : g = [i \in 1 .. Len(p) |-> IF i = 1 THEN p[i] ELSE g[i - 1] \o p[i]]
             h == [i \in 1 .. Len(p) |-> f[i]]
  <2>1. FlattenSeq(p) = flatten[Len(p)]
    BY <1>2, Zenon DEF FlattenSeq
  <2>2. h = [i \in 1 .. Len(p) |-> IF i = 1 THEN p[i] ELSE h[i - 1] \o p[i]]
    <3>1. ASSUME NEW i \in 1 .. Len(p) PROVE h[i] = IF i = 1 THEN p[i] ELSE h[i - 1] \o p[i]
      <4>1. CASE i = 1
        <5>1. f[1] = f[0] \o p[1]
          <6>1. 1 \in 1 .. Len(p) /\ 1 - 1 = 0
            BY <1>0, <1>2
          <6>2. f[1] = f[1 - 1] \o p[1]
            BY <1>0, <6>1, Zenon
          <6> QED
            BY <6>1, <6>2
        <5>2. << >> \o p[1] = p[1]
          BY <1>0, <1>2, ConcatEmptySeq
        <5> QED
          BY <1>0, <4>1, <5>1, <5>2
      <4>2. CASE i # 1
        <5>1. i - 1 \in 1 .. Len(p)
          BY <4>2
        <5>2. f[i] = f[i - 1] \o p[i]
          BY <1>0
        <5> QED
          BY <4>2, <5>1, <5>2
      <4> QED
        BY <4>1, <4>2
    <3> QED
      BY <3>1, Zenon
  <2>3. flatten = [i \in 1 .. Len(p) |-> IF i = 1 THEN p[i] ELSE flatten[i - 1] \o p[i]]
    BY <2>2, Zenon
  <2> HIDE DEF flatten
  <2> DEFINE Bad == {i \in 1 .. Len(p) : flatten[i] # f[i]}
  <2>4. Bad = {}
    <3> SUFFICES ASSUME Bad # {} PROVE FALSE
      OBVIOUS
    <3>1. Bad \in SUBSET Nat
      BY <1>0
    <3>2. PICK m \in Bad : \A k \in Bad : m <= k
      BY <3>1, LeastOf
    <3>3. m \in 1 .. Len(p) /\ flatten[m] # f[m]
      BY <3>2
    <3>4. CASE m = 1
      <4>1. flatten[1] = p[1]
        BY <2>3, <3>3, <3>4
      <4>2. f[1] = f[0] \o p[1] /\ f[0] = << >> /\ p[1] \in Seq(Nat)
        <5>1. 1 \in 1 .. Len(p) /\ 1 - 1 = 0
          BY <3>3, <3>4
        <5>2. f[1] = f[1 - 1] \o p[1] /\ p[1] \in Seq(Nat)
          BY <1>0, <5>1, Zenon
        <5> QED
          BY <1>0, <5>1, <5>2
      <4>3. << >> \o p[1] = p[1]
        BY <4>2, ConcatEmptySeq
      <4> QED
        BY <3>3, <3>4, <4>1, <4>2, <4>3
    <3>5. CASE m # 1
      <4>1. m - 1 \in 1 .. Len(p) /\ ~ (m <= m - 1)
        BY <3>3, <3>5
      <4>2. flatten[m - 1] = f[m - 1]
        BY <3>2, <4>1
      <4>3. flatten[m] = flatten[m - 1] \o p[m]
        BY <2>3, <3>3, <3>5
      <4>4. f[m] = f[m - 1] \o p[m]
        BY <1>0, <3>3
      <4> QED
        BY <3>3, <4>2, <4>3, <4>4
    <3> QED
      BY <3>4, <3>5
  <2>5. Len(p) \in 1 .. Len(p)
    BY <1>0, <1>2
  <2> QED
    BY <2>1, <2>4, <2>5
<1> QED
  BY <1>1, <1>2

LEMMA FlatNone == FlattenSeq(<< >>) = << >>
BY DEF FlattenSeq

LEMMA FlatTyped == ASSUME NEW p \in Seq(Seq(Nat)) PROVE FlattenSeq(p) \in Seq(Nat)
<1>1. PICK f : SumsOf(f, p) /\ \A i \in 0 .. Len(p) : f[i] \in Seq(Nat)
  BY SumsThere
<1>2. FlattenSeq(p) = f[Len(p)] /\ Len(p) \in 0 .. Len(p)
  BY <1>1, FlatIs
<1> QED
  BY <1>1, <1>2

LEMMA FlatOne == ASSUME NEW b \in Seq(Nat) PROVE FlattenSeq(<<b>>) = b
<1> DEFINE f == [i \in 0 .. 1 |-> IF i = 0 THEN << >> ELSE b]
<1>1. << >> \o b = b
  BY ConcatEmptySeq
<1>2. <<b>> \in Seq(Seq(Nat)) /\ Len(<<b>>) = 1 /\ <<b>>[1] = b
  OBVIOUS
<1>3. f[0] = << >> /\ f[1] = b
  OBVIOUS
<1> HIDE DEF f
<1>4. SumsOf(f, <<b>>)
  <2>1. f[1] = f[0] \o <<b>>[1] /\ f[0] = << >>
    BY <1>1, <1>2, <1>3
  <2>2. ASSUME NEW i \in 1 .. Len(<<b>>) PROVE i = 1 /\ i - 1 = 0
    BY <1>2
  <2>3. ASSUME NEW i \in 1 .. Len(<<b>>) PROVE f[i] = f[i - 1] \o <<b>>[i]
    BY <2>1, <2>2
  <2> QED
    BY <2>1, <2>3, Zenon DEF SumsOf
<1>5. FlattenSeq(<<b>>) = f[Len(<<b>>)]
  BY <1>2, <1>4, FlatIs
<1> QED
  BY <1>2, <1>3, <1>5

\* What two sequences of pieces come to together.
LEMMA FlatJoined == ASSUME NEW s \in Seq(Seq(Nat)), NEW t \in Seq(Seq(Nat))
                    PROVE  FlattenSeq(s \o t) = FlattenSeq(s) \o FlattenSeq(t)
<1> DEFINE m == Len(s)
           n == Len(t)
<1>1. PICK f : SumsOf(f, s) /\ \A i \in 0 .. m : f[i] \in Seq(Nat)
  BY SumsThere
<1>2. PICK g : SumsOf(g, t) /\ \A i \in 0 .. n : g[i] \in Seq(Nat)
  BY SumsThere
<1> DEFINE u == s \o t
           h == [i \in 0 .. m + n |-> IF i <= m THEN f[i] ELSE f[m] \o g[i - m]]
<1>3. /\ u \in Seq(Seq(Nat)) /\ Len(u) = m + n /\ m \in Nat /\ n \in Nat
      /\ \A i \in 1 .. m + n : u[i] = IF i <= m THEN s[i] ELSE t[i - m]
  BY ConcatProperties
<1>4. /\ \A i \in 0 .. m : h[i] = f[i]
      /\ \A i \in m .. m + n : h[i] = f[m] \o g[i - m]
  <2>1. f[m] \o g[0] = f[m]
    <3>1. f[m] \in Seq(Nat) /\ g[0] = << >>
      BY <1>1, <1>2, <1>3 DEF SumsOf
    <3> QED
      BY <3>1, ConcatEmptySeq
  <2>2. ASSUME NEW i \in 0 .. m PROVE h[i] = f[i]
    BY <1>3
  <2>3. ASSUME NEW i \in m .. m + n PROVE h[i] = f[m] \o g[i - m]
    <3>1. CASE i = m
      <4>1. i - m = 0 /\ h[i] = f[m]
        BY <1>3, <2>2, <3>1
      <4> QED
        BY <2>1, <4>1
    <3>2. CASE i # m
      <4>1. ~ (i <= m) /\ i \in 0 .. m + n
        BY <1>3, <3>2
      <4> QED
        BY <4>1
    <3> QED
      BY <3>1, <3>2
  <2> QED
    BY <2>2, <2>3
<1> HIDE DEF h, m, n, u
<1>5. ASSUME NEW i \in 1 .. m + n PROVE h[i] = h[i - 1] \o u[i]
  <2>1. CASE i <= m
    <3>1. i \in 0 .. m /\ i - 1 \in 0 .. m /\ i \in 1 .. Len(s)
      BY <1>3, <2>1 DEF m
    <3>2. f[i] = f[i - 1] \o s[i] /\ u[i] = s[i]
      BY <1>1, <1>3, <2>1, <3>1 DEF SumsOf
    <3> QED
      BY <1>4, <3>1, <3>2
  <2>2. CASE ~ (i <= m)
    <3>1. /\ i \in m .. m + n /\ i - 1 \in m .. m + n /\ i - m \in 1 .. Len(t)
          /\ (i - 1) - m = (i - m) - 1 /\ i - m \in 0 .. n /\ (i - m) - 1 \in 0 .. n
      BY <1>3, <2>2 DEF n
    <3>2. g[i - m] = g[(i - m) - 1] \o t[i - m] /\ u[i] = t[i - m]
      BY <1>2, <1>3, <2>2, <3>1 DEF SumsOf
    <3>3. h[i] = f[m] \o g[i - m] /\ h[i - 1] = f[m] \o g[(i - 1) - m]
      BY <1>4, <3>1
    <3>4. f[m] \in Seq(Nat) /\ g[(i - m) - 1] \in Seq(Nat) /\ t[i - m] \in Seq(Nat)
      BY <1>1, <1>2, <1>3, <3>1
    <3>5. f[m] \o (g[(i - m) - 1] \o t[i - m]) = (f[m] \o g[(i - m) - 1]) \o t[i - m]
      BY <3>4, Regroup
    <3>6. h[i] = (f[m] \o g[(i - m) - 1]) \o t[i - m] /\ h[i - 1] = f[m] \o g[(i - m) - 1]
      BY <3>1, <3>2, <3>3, <3>5
    <3> QED
      BY <3>2, <3>6
  <2> QED
    BY <2>1, <2>2
<1>6. h[0] = << >>
  <2>1. h[0] = f[0]
    BY <1>3, <1>4
  <2> QED
    BY <1>1, <2>1 DEF SumsOf
<1>7. SumsOf(h, u)
  BY <1>3, <1>5, <1>6 DEF SumsOf
<1>8. FlattenSeq(u) = h[m + n]
  BY <1>3, <1>7, FlatIs
<1>9. h[m + n] = f[m] \o g[n]
  <2>1. m + n \in m .. m + n /\ (m + n) - m = n
    BY <1>3
  <2>2. h[m + n] = f[m] \o g[(m + n) - m]
    BY <1>4, <2>1
  <2> QED
    BY <2>1, <2>2
<1>10. FlattenSeq(s) = f[m] /\ FlattenSeq(t) = g[n]
  BY <1>1, <1>2, FlatIs DEF m, n
<1> QED
  BY <1>8, <1>9, <1>10 DEF u

\* A sequence is its head and its tail.
LEMMA HeadTail == ASSUME NEW S, NEW s \in Seq(S), s # << >>
                  PROVE  Head(s) \in S /\ Tail(s) \in Seq(S) /\ s = <<Head(s)>> \o Tail(s)
<1>1. Head(s) \in S /\ Tail(s) \in Seq(S)
  OBVIOUS
<1> DEFINE t == <<Head(s)>> \o Tail(s)
<1>2. t \in Seq(S) /\ Len(t) = Len(s) /\ \A i \in 1 .. Len(s) : t[i] = s[i]
  OBVIOUS
<1> QED
  BY <1>1, <1>2, SeqEqual

LEMMA HeadTailOf == ASSUME NEW S, NEW h \in S, NEW y \in Seq(S)
                    PROVE  <<h>> \o y # << >> /\ Head(<<h>> \o y) = h /\ Tail(<<h>> \o y) = y
<1> DEFINE x == <<h>> \o y
<1>1. x \in Seq(S) /\ Len(x) = Len(y) + 1 /\ x[1] = h /\ \A k \in 1 .. Len(y) : x[k + 1] = y[k]
  OBVIOUS
<1> HIDE DEF x
<1>2. x # << >> /\ Head(x) = h /\ Tail(x) \in Seq(S) /\ Len(Tail(x)) = Len(y)
      /\ \A k \in 1 .. Len(y) : Tail(x)[k] = y[k]
  BY <1>1
<1>3. Tail(x) = y
  BY <1>2, SeqEqual
<1> QED
  BY <1>2, <1>3 DEF x

LEMMA FlatHead == ASSUME NEW s \in Seq(Seq(Nat)), s # << >>
                  PROVE  /\ Head(s) \in Seq(Nat) /\ Tail(s) \in Seq(Seq(Nat))
                         /\ FlattenSeq(s) = Head(s) \o FlattenSeq(Tail(s))
<1>1. Head(s) \in Seq(Nat) /\ Tail(s) \in Seq(Seq(Nat)) /\ <<Head(s)>> \in Seq(Seq(Nat))
  OBVIOUS
<1>2. s = <<Head(s)>> \o Tail(s)
  BY HeadTail
<1>3. FlattenSeq(<<Head(s)>> \o Tail(s)) = FlattenSeq(<<Head(s)>>) \o FlattenSeq(Tail(s))
  BY <1>1, FlatJoined
<1> QED
  BY <1>1, <1>2, <1>3, FlatOne

LEMMA FlatAppended == ASSUME NEW s \in Seq(Seq(Nat)), NEW b \in Seq(Nat)
                      PROVE  FlattenSeq(Append(s, b)) = FlattenSeq(s) \o b
<1>1. Append(s, b) = s \o <<b>> /\ <<b>> \in Seq(Seq(Nat))
  BY AppendIsConcat
<1>2. FlattenSeq(s \o <<b>>) = FlattenSeq(s) \o FlattenSeq(<<b>>)
  BY <1>1, FlatJoined
<1> QED
  BY <1>1, <1>2, FlatOne
-----------------------------------------------------------------------------
(* What the event loop does.                                               *)

Aside == UNCHANGED <<peerVars, sockVars, at, readVars, writeVars>>

LEMMA TimerDueDoes ==
  ASSUME TimerDue, Aside
  PROVE  /\ loop = "timers" /\ loop' = "wait" /\ UNCHANGED <<want, eof>>
         /\ queued' = queued \/ (queued = Nil /\ queued' = False)
         /\ at = "ended" => queued' = queued
         /\ ~ broken' => ~ broken /\ at \in {"connect", "nap"}
         /\ UNCHANGED <<peerVars, sockVars, at, readVars, writeVars>>
<1>1. ~ broken' => ~ broken /\ at \in {"connect", "nap"}
  BY Zenon DEF TimerDue
<1>2. loop = "timers" /\ loop' = "wait" /\ want' = want /\ eof' = eof
      /\ (IF at = "ended" THEN queued' = queued ELSE Schedule(False))
  BY Zenon DEF TimerDue, GoTo
<1>3. /\ queued' = queued \/ (queued = Nil /\ queued' = False)
      /\ at = "ended" => queued' = queued
  BY <1>2, Zenon DEF Schedule
<1> QED
  BY <1>1, <1>2, <1>3, Zenon DEF Aside

LEMMA WaitDoes ==
  ASSUME Wait, Aside
  PROVE  /\ loop = "wait" /\ loop' \in {"run", "hangup", "read", "write"}
         /\ loop' = "hangup" => link = "down"
         /\ loop' = "read" => link = "up" /\ want = "r" /\ (arrived # << >> \/ fin)
         /\ loop' = "write" => link = "up" /\ want = "w" /\ Len(leaving) < Window
         /\ want = "none" => loop' = "run"
         /\ UNCHANGED <<want, queued, broken, eof, peerVars, sockVars, at, readVars, writeVars>>
<1>1. loop' = "run" \/ loop' \in Ready
  BY DEF Wait, GoTo
<1>2. loop = "wait" /\ UNCHANGED <<want, queued, broken, eof, peerVars, sockVars, at, readVars, writeVars>>
  BY DEF Wait, Aside
<1> QED
  BY <1>1, <1>2 DEF Ready

\* The peer takes a piece from the socket.
LEMMA Taken == ASSUME NEW S, NEW a \in Seq(S), NEW l \in Seq(S), l # << >>
               PROVE  Append(a, Head(l)) \o Tail(l) = a \o l
<1> DEFINE x == Append(a, Head(l)) \o Tail(l)
           y == a \o l
<1>1. Len(l) \in Nat \ {0} /\ Head(l) = l[1] /\ Head(l) \in S /\ Tail(l) \in Seq(S) /\ Len(Tail(l)) = Len(l) - 1
  OBVIOUS
<1>2. x \in Seq(S) /\ y \in Seq(S) /\ Len(x) = Len(y)
  BY <1>1
<1>3. ASSUME NEW k \in 1 .. Len(y) PROVE x[k] = y[k]
  <2>1. CASE k <= Len(a)
    BY <1>1, <2>1
  <2>2. CASE k = Len(a) + 1
    BY <1>1, <2>2
  <2>3. CASE k > Len(a) + 1
    BY <1>1, <2>3
  <2> QED
    BY <2>1, <2>2, <2>3, <1>1
<1> QED
  BY <1>2, <1>3, SeqEqual

LEMMA TakenIs == \A a, l \in Seq(Nat) : l # << >> => Append(a, Head(l)) \o Tail(l) = a \o l
BY Taken

LEMMA PieceTaken == \A a, l \in Seq(Seq(Nat)) : l # << >> => Append(a, Head(l)) \o Tail(l) = a \o l
BY Taken
=============================================================================
