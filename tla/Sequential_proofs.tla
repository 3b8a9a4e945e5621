------------------------- MODULE Sequential_proofs -------------------------
(***************************************************************************)
(* Proofs about the TimeOut queue, for any number of coroutines, entries   *)
(* and delays: IInv is inductive, hence the queue is type correct, a heap  *)
(* between calls, free of duplicates and of stale references, and it       *)
(* implements the plain collection of timers of TimerBag.  And about the   *)
(* wrapping of text, for any text and any margin but 0: WrapIInv is        *)
(* inductive, hence every line fits, nothing is dropped but what a line    *)
(* was broken at, and the loop never goes back to where a line began.      *)
(* And about base64, for any messages, texts and options: Base64IInv is    *)
(* inductive, hence decode() gives back what encode() was given, and in    *)
(* strict mode takes no other padded text than what its answer is encoded  *)
(* to.                                                                     *)
(***************************************************************************)
EXTENDS MCSequential, TLAPS, SequenceTheorems, FiniteSetTheorems, WellFoundedInduction

\* The parent of a place other than the first is an earlier place, and a
\* place has at most the two children that bubble_down looks at.
LEMMA ParentPlace ==
  ASSUME NEW k \in Nat, k >= 1
  PROVE  /\ Parent(k) \in Nat
         /\ Parent(k) < k
         /\ k > 1 => Parent(k) >= 1
         /\ k = 2 * Parent(k) \/ k = 2 * Parent(k) + 1
BY SMT DEF Parent

\* One turn of bubble_up moves the exemption to the parent's place.
LEMMA UpStep ==
  ASSUME NEW n \in Nat, NEW t \in [1 .. n -> Nat], NEW u \in [1 .. n -> Nat],
         NEW c \in 1 .. n, Parent(c) > 0,
         UpShape(t, c), t[Parent(c)] > t[c],
         u = [t EXCEPT ![Parent(c)] = t[c], ![c] = t[Parent(c)]]
  PROVE  UpShape(u, Parent(c))
<1> DEFINE p == Parent(c)
<1>1. p \in 1 .. n /\ p # c /\ c > 1
  BY ParentPlace, SMT
<1>2. u[p] = t[c] /\ u[c] = t[p] /\ \A k \in 1 .. n : k # p /\ k # c => u[k] = t[k]
  BY <1>1
<1>3. ASSUME NEW k \in 1 .. n, k > 1
      PROVE  Parent(k) \in 1 .. n /\ Parent(k) # k
  <2>1. Parent(k) \in Nat /\ Parent(k) < k /\ Parent(k) >= 1
    BY <1>3, ParentPlace
  <2>2. QED
    BY <2>1, SMT
<1>4. DOMAIN t = 1 .. n /\ DOMAIN u = 1 .. n
  OBVIOUS
<1>5. \A k \in 1 .. n : /\ k > 1 /\ k # c => t[Parent(k)] <= t[k]
                        /\ Parent(k) = c => t[p] <= t[k]
  BY <1>1, <1>4 DEF UpShape, OrderedBut, OrderedAcross
<1> HIDE DEF p
<1>6. \A k \in 1 .. n : t[k] \in Nat /\ u[k] \in Nat
  OBVIOUS
<1>7. Parent(c) = p /\ t[p] > t[c]
  BY DEF p
<1>8. ASSUME NEW k \in 1 .. n, k > 1, k # p
      PROVE  u[Parent(k)] <= u[k]
  <2>1. CASE k = c
    BY <2>1, <1>1, <1>2, <1>6, <1>7, SMT
  <2>2. CASE k # c /\ Parent(k) = c
    <3>1. t[p] <= t[k]
      BY <2>2, <1>5
    <3>2. u[c] = t[p] /\ u[k] = t[k]
      BY <2>2, <1>8, <1>2
    <3>3. QED
      BY <3>1, <3>2, <2>2
  <2>3. CASE k # c /\ Parent(k) = p
    <3>1. t[p] <= t[k]
      BY <2>3, <1>5, <1>8
    <3>2. QED
      BY <3>1, <2>3, <1>8, <1>1, <1>2, <1>6, <1>7, SMT
  <2>4. CASE k # c /\ Parent(k) # c /\ Parent(k) # p
    <3>1. Parent(k) \in 1 .. n /\ t[Parent(k)] <= t[k]
      BY <2>4, <1>3, <1>5, <1>8
    <3>2. QED
      BY <3>1, <2>4, <1>8, <1>2
  <2>5. QED
    BY <2>1, <2>2, <2>3, <2>4
<1>9. ASSUME NEW k \in 1 .. n, Parent(k) = p, p > 1
      PROVE  u[Parent(p)] <= u[k]
  <2>1. /\ Parent(p) \in 1 .. n /\ Parent(p) # p /\ Parent(p) # c
        /\ t[Parent(p)] <= t[p]
    <3>1. Parent(p) < p /\ p < c
      BY <1>1, <1>7, ParentPlace, SMT
    <3>2. QED
      BY <3>1, <1>1, <1>3, <1>5, <1>9, SMT
  <2>2. k # p /\ k > 1
    BY <1>1, <1>9, ParentPlace, SMT
  <2>3. u[Parent(p)] = t[Parent(p)]
    BY <2>1, <1>2
  <2>4. t[p] <= u[k]
    <3>1. CASE k = c
      BY <3>1, <1>2, <1>1, <1>6, SMT
    <3>2. CASE k # c
      BY <3>2, <2>2, <1>2, <1>5, <1>9
    <3>3. QED
      BY <3>1, <3>2
  <2>5. t[Parent(p)] \in Nat /\ t[p] \in Nat /\ u[k] \in Nat
    BY <2>1, <1>1, <1>6
  <2>6. QED
    BY <2>1, <2>3, <2>4, <2>5, SMT
<1>10. QED
  BY <1>4, <1>7, <1>8, <1>9 DEF UpShape, OrderedBut, OrderedAcross

\* The place bubble_down picks, in terms of the times alone.
LEMMA DownStep ==
  ASSUME NEW n \in Nat, NEW t \in [1 .. n -> Nat], NEW u \in [1 .. n -> Nat],
         NEW c \in 1 .. n, NEW d \in 1 .. n, Parent(d) = c,
         DownShape(t, c), t[d] < t[c],
         \A k \in 1 .. n : Parent(k) = c => t[d] <= t[k],
         u = [t EXCEPT ![c] = t[d], ![d] = t[c]]
  PROVE  DownShape(u, d)
<1>1. d # c /\ d > 1 /\ c < d
  BY ParentPlace, SMT
<1>2. u[c] = t[d] /\ u[d] = t[c] /\ \A k \in 1 .. n : k # c /\ k # d => u[k] = t[k]
  BY <1>1
<1>3. ASSUME NEW k \in 1 .. n, k > 1
      PROVE  Parent(k) \in 1 .. n /\ Parent(k) # k
  <2>1. Parent(k) \in Nat /\ Parent(k) < k /\ Parent(k) >= 1
    BY <1>3, ParentPlace
  <2>2. QED
    BY <2>1, SMT
<1>4. DOMAIN t = 1 .. n /\ DOMAIN u = 1 .. n
  OBVIOUS
<1>5. \A k \in 1 .. n : /\ k > 1 /\ Parent(k) # c => t[Parent(k)] <= t[k]
                        /\ Parent(k) = c /\ c > 1 => t[Parent(c)] <= t[k]
  BY <1>4 DEF DownShape, OrderedBut, OrderedAcross
<1>6. \A k \in 1 .. n : t[k] \in Nat /\ u[k] \in Nat
  OBVIOUS
<1>7. ASSUME NEW k \in 1 .. n, k > 1, Parent(k) # d
      PROVE  u[Parent(k)] <= u[k]
  <2>1. CASE Parent(k) = c /\ k = d
    BY <2>1, <1>2, <1>6, SMT
  <2>2. CASE Parent(k) = c /\ k # d
    <3>1. k # c
      BY <2>2, <1>3, <1>7
    <3>2. QED
      BY <3>1, <2>2, <1>2
  <2>3. CASE Parent(k) # c /\ k = c
    <3>1. Parent(c) # d /\ Parent(c) # c /\ Parent(c) \in 1 .. n
      BY <2>3, <1>3, <1>7
    <3>2. t[Parent(c)] <= t[d]
      BY <2>3, <1>5, <1>7
    <3>3. QED
      BY <3>1, <3>2, <2>3, <1>2
  <2>4. CASE Parent(k) # c /\ k # c
    <3>1. k # d /\ Parent(k) \in 1 .. n
      BY <2>4, <1>3, <1>7
    <3>2. QED
      BY <3>1, <2>4, <1>2, <1>5, <1>7
  <2>5. QED
    BY <2>1, <2>2, <2>3, <2>4
<1>8. ASSUME NEW k \in 1 .. n, Parent(k) = d
      PROVE  u[Parent(d)] <= u[k]
  <2>1. k > 1 /\ d < k
    BY <1>1, <1>8, ParentPlace, SMT
  <2>2. k # c /\ k # d
    BY <2>1, <1>1, SMT
  <2>3. t[d] <= t[k]
    BY <2>1, <1>1, <1>5, <1>8
  <2>4. QED
    BY <2>2, <2>3, <1>2
<1>9. QED
  BY <1>4, <1>7, <1>8 DEF DownShape, OrderedBut, OrderedAcross

\* What Smallest returns: the place itself when no child is due before it,
\* otherwise the child that is due first.
LEMMA SmallestChild ==
  ASSUME heap \in Seq(Info), NEW c \in DOMAIN heap,
         \A k \in DOMAIN heap : Awake(k) \in Nat
  PROVE  /\ Smallest(c) = c => \A k \in DOMAIN heap :
                                  Parent(k) = c => Awake(c) <= Awake(k)
         /\ Smallest(c) # c => /\ Smallest(c) \in DOMAIN heap
                               /\ Parent(Smallest(c)) = c
                               /\ Awake(Smallest(c)) < Awake(c)
                               /\ \A k \in DOMAIN heap :
                                     Parent(k) = c => Awake(Smallest(c)) <= Awake(k)
<1> DEFINE n == Len(heap)
           l == 2 * c
           r == 2 * c + 1
           a == IF l <= n /\ Awake(l) < Awake(c) THEN l ELSE c
           s == IF r <= n /\ Awake(r) < Awake(a) THEN r ELSE a
<1>1. n \in Nat /\ DOMAIN heap = 1 .. n
  OBVIOUS
<1>2. Smallest(c) = s
  BY DEF Smallest
<1>3. c \in Nat /\ c >= 1 /\ l \in Nat /\ r \in Nat /\ l # c /\ r # c /\ l # r /\ l >= 1 /\ r >= 1
  BY <1>1, SMT
<1>4. Parent(l) = c /\ Parent(r) = c
  BY <1>1, SMT DEF Parent
<1>5. \A k \in DOMAIN heap : Parent(k) = c => k = l \/ k = r
  BY <1>1, ParentPlace, SMT
<1>6. \A k \in 1 .. n : Awake(k) \in Nat
  BY <1>1
<1> HIDE DEF n, l, r
<1>7. /\ s = c => /\ l \in 1 .. n => Awake(c) <= Awake(l)
                  /\ r \in 1 .. n => Awake(c) <= Awake(r)
      /\ s # c => /\ s \in {l, r} \cap 1 .. n
                  /\ Awake(s) < Awake(c)
                  /\ l \in 1 .. n => Awake(s) <= Awake(l)
                  /\ r \in 1 .. n => Awake(s) <= Awake(r)
  BY <1>1, <1>3, <1>6, SMT
<1> HIDE DEF s
<1>8. QED
  BY <1>1, <1>2, <1>4, <1>5, <1>7
-----------------------------------------------------------------------------
(* The state of the queue.                                                  *)

\* What the invariants say of the array: its places and the times in them.
LEMMA LiveTimes ==
  ASSUME TypeOK, LiveEntries
  PROVE  /\ Len(heap) \in Nat
         /\ DOMAIN heap = 1 .. Len(heap)
         /\ \A k \in DOMAIN heap : /\ heap[k] \in Info
                                   /\ heap[k] \in Members
                                   /\ info[heap[k]] \in Entry
                                   /\ Awake(k) \in Nat
                                   /\ Times[k] = Awake(k)
         /\ Times \in [1 .. Len(heap) -> Nat]
<1>1. /\ Len(heap) \in Nat
      /\ DOMAIN heap = 1 .. Len(heap)
      /\ \A k \in DOMAIN heap : heap[k] \in Info
  BY DEF TypeOK
<1>2. \A k \in DOMAIN heap : heap[k] \in Members
  BY DEF Members
<1>3. \A k \in DOMAIN heap : info[heap[k]] \in Entry
  BY <1>1, <1>2 DEF LiveEntries
<1>4. \A k \in DOMAIN heap : Awake(k) \in Nat
  BY <1>3 DEF Awake, Entry
<1>5. QED
  BY <1>1, <1>2, <1>3, <1>4 DEF Times

\* The array being a heap, in terms of the times.
LEMMA OrderedTimes ==
  ASSUME TypeOK, LiveEntries
  PROVE  (\A k \in 2 .. Len(heap) : Awake(Parent(k)) <= Awake(k))
           <=> OrderedBut(Times, LAMBDA k : FALSE)
<1>1. ASSUME NEW k \in 1 .. Len(heap), k > 1
      PROVE  Parent(k) \in 1 .. Len(heap)
  BY <1>1, ParentPlace, LiveTimes, SMT
<1>2. \A k : k \in 2 .. Len(heap) <=> k \in 1 .. Len(heap) /\ k > 1
  BY LiveTimes, SMT
<1>3. DOMAIN Times = 1 .. Len(heap)
  BY LiveTimes
<1>4. \A k \in 1 .. Len(heap) : Times[k] = Awake(k)
  BY LiveTimes
<1>5. QED
  BY <1>1, <1>2, <1>3, <1>4 DEF OrderedBut

\* Swapping two places keeps the entries, and swaps their times.
LEMMA SwapPlaces ==
  ASSUME TypeOK, LiveEntries, NoDuplicate,
         NEW a \in DOMAIN heap, NEW b \in DOMAIN heap, a # b,
         heap' = Swap(a, b), info' = info
  PROVE  /\ heap' \in Seq(Info)
         /\ DOMAIN heap' = DOMAIN heap
         /\ Members' = Members
         /\ Times' = [Times EXCEPT ![a] = Times[b], ![b] = Times[a]]
         /\ Times' \in [1 .. Len(heap) -> Nat]
         /\ NoDuplicate'
<1>1. /\ Len(heap) \in Nat
      /\ DOMAIN heap = 1 .. Len(heap)
      /\ \A k \in DOMAIN heap : heap[k] \in Info
  BY LiveTimes
<1>2. heap \in [1 .. Len(heap) -> Info]
  BY <1>1, LenProperties DEF TypeOK
<1>3. /\ heap' = [heap EXCEPT ![a] = heap[b], ![b] = heap[a]]
      /\ heap' \in [1 .. Len(heap) -> Info]
  BY <1>1, <1>2 DEF Swap
<1>4. heap' \in Seq(Info) /\ DOMAIN heap' = DOMAIN heap
  <2> DEFINE half == [heap EXCEPT ![a] = heap[b]]
  <2>1. half \in Seq(Info) /\ Len(half) = Len(heap)
    BY <1>1, ExceptSeq DEF TypeOK
  <2>2. heap' = [half EXCEPT ![b] = heap[a]]
    BY <1>3
  <2>3. heap' \in Seq(Info)
    BY <1>1, <2>1, <2>2, ExceptSeq
  <2>4. QED
    BY <1>1, <1>3, <2>3
<1>5. /\ heap'[a] = heap[b] /\ heap'[b] = heap[a]
      /\ \A k \in DOMAIN heap : k # a /\ k # b => heap'[k] = heap[k]
  BY <1>1, <1>2, <1>3
<1>6. Members' = Members
  BY <1>4, <1>5 DEF Members
<1>7. NoDuplicate'
  BY <1>4, <1>5 DEF NoDuplicate
<1>8. Times' = [Times EXCEPT ![a] = Times[b], ![b] = Times[a]]
  BY <1>4, <1>5 DEF Times, Awake
<1>9. Times' \in [1 .. Len(heap) -> Nat]
  <2>1. Times \in [1 .. Len(heap) -> Nat]
    BY LiveTimes
  <2>2. QED
    BY <1>1, <1>8, <2>1
<1>10. QED
  BY <1>4, <1>6, <1>7, <1>8, <1>9

\* The empty queue satisfies the invariant.
LEMMA InitIInv == Init => IInv
<1> SUFFICES ASSUME Init PROVE IInv
  OBVIOUS
<1> USE QueueAssumption DEF Init
<1>1. TypeOK
  BY DEF TypeOK
<1>2. Members = {} /\ DOMAIN heap = {} /\ Len(heap) = 0
  BY DEF Members
<1>3. NoDuplicate /\ IndexInHeap
  BY <1>2 DEF NoDuplicate, IndexInHeap
<1>4. LiveEntries
  BY <1>2 DEF LiveEntries, Entry
<1>5. Shape
  BY <1>2, SMT DEF Shape, HeapOrdered
<1>6. QED
  BY <1>1, <1>3, <1>4, <1>5 DEF IInv

\* Each action preserves the invariant: one lemma per action.
LEMMA InsertIInv ==
  ASSUME IInv, NEW co \in Co, NEW when \in Delays, Insert(co, when)
  PROVE  IInv'
<1> USE QueueAssumption
<1>1. TypeOK /\ NoDuplicate /\ LiveEntries /\ IndexInHeap /\ Shape
  BY DEF IInv
<1>2. PICK m \in Info \ Members :
         /\ heap' = Append(heap, m)
         /\ index' = [index EXCEPT ![co] = m]
         /\ info' = [info EXCEPT ![m] = [awake |-> clock + when, trigger |-> TRUE, co |-> co]]
  BY DEF Insert
<1>3. /\ pc = "idle" /\ pc' = "up" /\ cur' = Len(heap) + 1 /\ clock' = clock
      /\ clock + when \in Nat
  BY <1>1, SMT DEF Insert, TypeOK
<1> DEFINE n == Len(heap)
           e == [awake |-> clock + when, trigger |-> TRUE, co |-> co]
<1>4. /\ n \in Nat /\ DOMAIN heap = 1 .. n /\ DOMAIN heap' = 1 .. n + 1
      /\ heap' \in Seq(Info) /\ heap'[n + 1] = m
      /\ \A k \in 1 .. n : heap'[k] = heap[k] /\ k # n + 1 /\ k \in 1 .. n + 1
      /\ \A k \in 1 .. n + 1 : k \in 1 .. n \/ k = n + 1
  BY <1>1, <1>2, SMT DEF TypeOK
<1>5. \A k \in 1 .. n : heap[k] \in Members /\ heap[k] # m
  BY <1>1, <1>2, <1>4, LiveTimes
<1>6. e \in Entry
  BY <1>3 DEF Entry
<1>7. /\ info'[m] = e
      /\ \A j \in Info : j # m => info'[j] = info[j]
      /\ info' \in [Info -> Entry \cup {Garbage}]
  BY <1>1, <1>2, <1>6 DEF TypeOK
<1>8. Members' = Members \cup {m}
  BY <1>4, n + 1 \in 1 .. n + 1 DEF Members
<1>9. TypeOK'
  <2>1. index' \in [Co -> Info \cup {NoInfo}]
    BY <1>1, <1>2 DEF TypeOK
  <2>2. cur' \in Nat
    BY <1>3, <1>4
  <2>3. QED
    BY <1>1, <1>3, <1>4, <1>7, <2>1, <2>2 DEF TypeOK
<1>10. NoDuplicate'
  BY <1>1, <1>4, <1>5 DEF NoDuplicate
<1>11. LiveEntries'
  BY <1>1, <1>6, <1>7, <1>8 DEF LiveEntries
<1>12. IndexInHeap'
  <2>1. SUFFICES ASSUME NEW c \in Co, index'[c] # NoInfo
                 PROVE  index'[c] \in Members' /\ info'[index'[c]].co = c
    BY DEF IndexInHeap
  <2>2. CASE c = co
    BY <1>1, <1>2, <1>7, <1>8, <2>2 DEF TypeOK
  <2>3. CASE c # co
    BY <1>1, <1>2, <1>7, <1>8, <2>1, <2>3 DEF TypeOK, IndexInHeap
  <2>4. QED
    BY <2>2, <2>3
<1>13. Shape'
  <2>1. DOMAIN Times' = 1 .. n + 1 /\ \A k \in 1 .. n : Times'[k] = Times[k]
    <3>1. \A k \in 1 .. n : heap[k] \in Info
      BY <1>1, <1>4, LiveTimes
    <3>2. QED
      BY <1>4, <1>5, <1>7, <3>1 DEF Times, Awake
  <2>2. \A k \in 1 .. n : k > 1 => Parent(k) \in 1 .. n /\ Times[Parent(k)] <= Times[k]
    <3>1. OrderedBut(Times, LAMBDA k : FALSE)
      BY <1>1, <1>3, OrderedTimes DEF Shape, HeapOrdered
    <3>2. DOMAIN Times = 1 .. n
      BY <1>4 DEF Times
    <3>3. \A k \in 1 .. n : k > 1 => Parent(k) \in 1 .. n
      BY <1>4, ParentPlace, SMT
    <3>4. QED
      BY <3>1, <3>2, <3>3 DEF OrderedBut
  <2>3. OrderedBut(Times', LAMBDA k : k = n + 1)
    BY <1>4, <2>1, <2>2 DEF OrderedBut
  <2>4. \A k \in 1 .. n + 1 : Parent(k) # n + 1
    BY <1>4, ParentPlace, SMT
  <2>5. UpShape(Times', n + 1)
    BY <2>1, <2>3, <2>4 DEF UpShape, OrderedAcross
  <2>6. QED
    BY <1>3, <1>4, <2>5 DEF Shape
<1>14. QED
  BY <1>9, <1>10, <1>11, <1>12, <1>13 DEF IInv

LEMMA CancelIInv ==
  ASSUME IInv, NEW co \in Co, Cancel(co)
  PROVE  IInv'
<1> USE QueueAssumption
<1>1. TypeOK /\ NoDuplicate /\ LiveEntries /\ IndexInHeap /\ Shape
  BY DEF IInv
<1> DEFINE m == index[co]
<1>2. /\ pc = "idle" /\ m # NoInfo /\ info' = [info EXCEPT ![m].trigger = FALSE]
      /\ clock' = clock /\ heap' = heap /\ index' = index /\ pc' = pc /\ cur' = cur
  BY DEF Cancel
<1>3. m \in Info /\ m \in Members
  BY <1>1, <1>2 DEF TypeOK, IndexInHeap
<1>4. info[m] \in Entry
  BY <1>1, <1>3 DEF LiveEntries
<1>5. /\ info'[m] = [info[m] EXCEPT !.trigger = FALSE]
      /\ \A j \in Info : j # m => info'[j] = info[j]
      /\ info'[m] \in Entry
      /\ info'[m].awake = info[m].awake /\ info'[m].co = info[m].co
  BY <1>1, <1>2, <1>3, <1>4 DEF TypeOK, Entry
<1>6. Members' = Members
  BY <1>2 DEF Members
<1>7. TypeOK'
  <2>1. info' \in [Info -> Entry \cup {Garbage}]
    BY <1>1, <1>2, <1>3, <1>5 DEF TypeOK
  <2>2. QED
    BY <1>1, <1>2, <2>1 DEF TypeOK
<1>8. NoDuplicate'
  BY <1>1, <1>2 DEF NoDuplicate
<1>9. LiveEntries'
  BY <1>1, <1>3, <1>4, <1>5, <1>6 DEF LiveEntries
<1>10. IndexInHeap'
  BY <1>1, <1>2, <1>5, <1>6 DEF TypeOK, IndexInHeap
<1>11. Shape'
  <2>1. \A k \in DOMAIN heap : heap[k] \in Info
    BY <1>1, LiveTimes
  <2>2. Times' = Times
    BY <1>2, <1>5, <2>1 DEF Times, Awake
  <2>3. \A k \in DOMAIN heap : Awake(k)' = Awake(k)
    BY <1>2, <1>5, <2>1 DEF Awake
  <2>4. \A k \in 2 .. Len(heap) : k \in DOMAIN heap /\ Parent(k) \in DOMAIN heap
    BY <1>1, LiveTimes, ParentPlace, SMT
  <2>5. HeapOrdered => HeapOrdered'
    BY <1>2, <2>3, <2>4 DEF HeapOrdered, Awake
  <2>6. QED
    BY <1>1, <1>2, <2>5 DEF Shape
<1>12. QED
  BY <1>7, <1>8, <1>9, <1>10, <1>11 DEF IInv

\* A swap leaves everything but the shape to prove.
LEMMA SwapIInv ==
  ASSUME IInv, NEW a \in DOMAIN heap, NEW b \in DOMAIN heap, a # b,
         heap' = Swap(a, b), cur' \in DOMAIN heap, UNCHANGED <<clock, index, info, pc>>
  PROVE  Shape' => IInv'
<1>1. TypeOK /\ NoDuplicate /\ LiveEntries /\ IndexInHeap
  BY DEF IInv
<1>2. heap' \in Seq(Info) /\ Members' = Members /\ NoDuplicate'
  BY <1>1, SwapPlaces
<1>3. TypeOK'
  BY <1>1, <1>2, LiveTimes DEF TypeOK
<1>4. LiveEntries' /\ IndexInHeap'
  BY <1>1, <1>2 DEF LiveEntries, IndexInHeap
<1>5. QED
  BY <1>2, <1>3, <1>4 DEF IInv

\* The end of a loop leaves everything but the shape to prove.
LEMMA StopIInv ==
  ASSUME IInv, pc' = "idle", cur' = 0, UNCHANGED <<clock, index, info, heap>>,
         OrderedBut(Times, LAMBDA k : FALSE)
  PROVE  IInv'
<1>1. TypeOK /\ NoDuplicate /\ LiveEntries /\ IndexInHeap
  BY DEF IInv
<1>2. \A k \in 2 .. Len(heap) : Awake(Parent(k)) <= Awake(k)
  BY <1>1, OrderedTimes
<1>3. Shape'
  BY <1>2 DEF Shape, HeapOrdered, Awake
<1>4. TypeOK'
  BY <1>1 DEF TypeOK
<1>5. NoDuplicate' /\ Members' = Members
  BY <1>1 DEF NoDuplicate, Members
<1>6. LiveEntries' /\ IndexInHeap'
  BY <1>1, <1>5 DEF LiveEntries, IndexInHeap
<1>7. QED
  BY <1>3, <1>4, <1>5, <1>6 DEF IInv

LEMMA BubbleUpIInv ==
  ASSUME IInv, BubbleUp
  PROVE  IInv'
<1>1. TypeOK /\ NoDuplicate /\ LiveEntries /\ IndexInHeap /\ Shape
  BY DEF IInv
<1>2. /\ pc = "up" /\ cur \in DOMAIN heap /\ UpShape(Times, cur)
      /\ UNCHANGED <<clock, index, info>>
  BY <1>1 DEF Shape, BubbleUp
<1> DEFINE n == Len(heap)
<1>3. n \in Nat /\ DOMAIN heap = 1 .. n /\ Times \in [1 .. n -> Nat]
      /\ \A k \in 1 .. n : Times[k] = Awake(k)
  BY <1>1, LiveTimes
<1>4. Parent(cur) \in Nat /\ (Parent(cur) > 0 => Parent(cur) \in 1 .. n /\ Parent(cur) # cur)
  BY <1>2, <1>3, ParentPlace, SMT
<1>5. CASE Parent(cur) > 0 /\ Awake(Parent(cur)) > Awake(cur)
  <2>1. heap' = Swap(Parent(cur), cur) /\ cur' = Parent(cur) /\ pc' = pc
    BY <1>5 DEF BubbleUp
  <2>2. /\ DOMAIN heap' = DOMAIN heap
        /\ Times' = [Times EXCEPT ![Parent(cur)] = Times[cur], ![cur] = Times[Parent(cur)]]
        /\ Times' \in [1 .. n -> Nat]
    BY <1>1, <1>2, <1>3, <1>4, <1>5, <2>1, SwapPlaces
  <2>3. Times[Parent(cur)] > Times[cur]
    BY <1>2, <1>3, <1>4, <1>5
  <2> HIDE DEF n
  <2>4. UpShape(Times', Parent(cur))
    <3>1. cur \in 1 .. n
      BY <1>2, <1>3
    <3>2. QED
      BY <1>2, <1>3, <1>5, <2>2, <2>3, <3>1, UpStep
  <2>5. Shape'
    BY <1>2, <1>3, <1>4, <1>5, <2>1, <2>2, <2>4 DEF Shape
  <2>6. QED
    BY <1>2, <1>3, <1>4, <1>5, <2>1, <2>5, SwapIInv
<1>6. CASE ~ (Parent(cur) > 0 /\ Awake(Parent(cur)) > Awake(cur))
  <2>1. heap' = heap /\ cur' = 0 /\ pc' = "idle"
    BY <1>6 DEF BubbleUp
  <2>2. cur > 1 => Parent(cur) > 0
    BY <1>2, <1>3, ParentPlace, SMT
  <2>3. Parent(cur) > 0 => Times[Parent(cur)] <= Times[cur]
    <3>1. Parent(cur) > 0 => Awake(Parent(cur)) \in Nat /\ Awake(cur) \in Nat
      BY <1>1, <1>2, <1>3, <1>4, LiveTimes
    <3>2. Parent(cur) > 0 => Awake(Parent(cur)) <= Awake(cur)
      BY <1>6, <3>1, SMT
    <3>3. QED
      BY <1>2, <1>3, <1>4, <3>2
  <2>4. OrderedBut(Times, LAMBDA k : FALSE)
    BY <1>2, <2>2, <2>3 DEF UpShape, OrderedBut
  <2>5. QED
    BY <1>2, <2>1, <2>4, StopIInv
<1>7. QED
  BY <1>5, <1>6

LEMMA BubbleDownIInv ==
  ASSUME IInv, BubbleDown
  PROVE  IInv'
<1>1. TypeOK /\ NoDuplicate /\ LiveEntries /\ IndexInHeap /\ Shape
  BY DEF IInv
<1>2. /\ pc = "down" /\ cur \in DOMAIN heap /\ DownShape(Times, cur)
      /\ UNCHANGED <<clock, index, info>>
  BY <1>1 DEF Shape, BubbleDown
<1> DEFINE n == Len(heap)
           d == Smallest(cur)
<1>3. n \in Nat /\ DOMAIN heap = 1 .. n /\ Times \in [1 .. n -> Nat]
      /\ \A k \in 1 .. n : Times[k] = Awake(k) /\ Awake(k) \in Nat
  BY <1>1, LiveTimes
<1>4. /\ d = cur => \A k \in 1 .. n : Parent(k) = cur => Awake(cur) <= Awake(k)
      /\ d # cur => /\ d \in 1 .. n /\ Parent(d) = cur /\ Awake(d) < Awake(cur)
                    /\ \A k \in 1 .. n : Parent(k) = cur => Awake(d) <= Awake(k)
  BY <1>1, <1>2, <1>3, SmallestChild DEF TypeOK
<1> HIDE DEF n, d
<1>5. CASE d # cur
  <2>1. heap' = Swap(cur, d) /\ cur' = d /\ pc' = pc
    BY <1>5 DEF BubbleDown, d
  <2>2. /\ DOMAIN heap' = DOMAIN heap
        /\ Times' = [Times EXCEPT ![cur] = Times[d], ![d] = Times[cur]]
        /\ Times' \in [1 .. n -> Nat]
    BY <1>1, <1>2, <1>3, <1>4, <1>5, <2>1, SwapPlaces DEF n
  <2>3. /\ cur \in 1 .. n
        /\ Times[d] < Times[cur]
        /\ \A k \in 1 .. n : Parent(k) = cur => Times[d] <= Times[k]
    BY <1>2, <1>3, <1>4, <1>5
  <2>4. DownShape(Times', d)
    <3>1. n \in Nat /\ Times \in [1 .. n -> Nat] /\ Times' \in [1 .. n -> Nat]
      BY <1>3, <2>2
    <3>2. d \in 1 .. n /\ Parent(d) = cur /\ cur \in 1 .. n /\ DownShape(Times, cur)
      BY <1>2, <1>4, <1>5, <2>3
    <3>3. /\ Times[d] < Times[cur]
          /\ \A k \in 1 .. n : Parent(k) = cur => Times[d] <= Times[k]
          /\ Times' = [Times EXCEPT ![cur] = Times[d], ![d] = Times[cur]]
      BY <2>2, <2>3
    <3> DEFINE t == Times
               u == Times'
    <3>4. DownShape(t, cur) /\ u = [t EXCEPT ![cur] = t[d], ![d] = t[cur]]
      BY <3>2, <3>3
    <3> HIDE DEF t, u
    <3>5. DownShape(u, d)
      BY <3>1, <3>2, <3>3, <3>4, DownStep DEF t, u
    <3>6. QED
      BY <3>5 DEF u
  <2>5. Shape'
    BY <1>2, <1>3, <1>4, <1>5, <2>1, <2>2, <2>4 DEF Shape
  <2>6. QED
    BY <1>2, <1>3, <1>4, <1>5, <2>1, <2>5, SwapIInv
<1>6. CASE d = cur
  <2>1. heap' = heap /\ cur' = 0 /\ pc' = "idle"
    BY <1>6 DEF BubbleDown, d
  <2>2. \A k \in 1 .. n : Parent(k) = cur => Times[cur] <= Times[k]
    BY <1>2, <1>3, <1>4, <1>6
  <2>3. OrderedBut(Times, LAMBDA k : FALSE)
    BY <1>2, <1>3, <2>2 DEF DownShape, OrderedBut
  <2>4. QED
    BY <1>2, <2>1, <2>3, StopIInv
<1>7. QED
  BY <1>5, <1>6

\* The loops only rearrange the entries.
LEMMA BubbleMembers ==
  ASSUME IInv, BubbleUp \/ BubbleDown
  PROVE  Members' = Members
<1>1. TypeOK /\ NoDuplicate /\ LiveEntries /\ Shape
  BY DEF IInv
<1>2. CASE heap' = heap
  BY <1>2 DEF Members
<1>3. CASE BubbleUp /\ heap' # heap
  <2>1. /\ cur \in DOMAIN heap /\ Parent(cur) > 0
        /\ heap' = Swap(Parent(cur), cur) /\ info' = info
    BY <1>1, <1>3 DEF BubbleUp, Shape
  <2>2. Parent(cur) \in DOMAIN heap /\ Parent(cur) # cur
    BY <1>1, <2>1, ParentPlace, LiveTimes, SMT
  <2>3. QED
    BY <1>1, <2>1, <2>2, SwapPlaces
<1>4. CASE BubbleDown /\ heap' # heap
  <2>1. /\ cur \in DOMAIN heap /\ Smallest(cur) # cur
        /\ heap' = Swap(cur, Smallest(cur)) /\ info' = info
    BY <1>1, <1>4 DEF BubbleDown, Shape
  <2>2. Smallest(cur) \in DOMAIN heap
    BY <1>1, <2>1, SmallestChild, LiveTimes DEF TypeOK
  <2>3. QED
    BY <1>1, <2>1, <2>2, SwapPlaces
<1>5. QED
  BY <1>2, <1>3, <1>4

\* What Remove does to the array: its last entry takes the first place.
LEMMA RemovePlaces ==
  ASSUME IInv, Remove
  PROVE  /\ 1 \in 1 .. Len(heap) /\ Len(heap) \in 1 .. Len(heap)
         /\ heap' \in Seq(Info) /\ DOMAIN heap' = 1 .. Len(heap) - 1
         /\ Len(heap) > 1 => heap'[1] = heap[Len(heap)]
         /\ \A k \in 2 .. Len(heap) - 1 : heap'[k] = heap[k]
         /\ Members' = Members \ {heap[1]}
<1>1. TypeOK /\ NoDuplicate /\ LiveEntries /\ IndexInHeap /\ Shape
  BY DEF IInv
<1> DEFINE n == Len(heap)
           rest == SubSeq(heap, 1, n - 1)
           res == heap[1]
<1>2. /\ pc = "idle" /\ heap # <<>>
      /\ index' = [index EXCEPT ![info[res].co] = NoInfo]
      /\ info' = [info EXCEPT ![res] = Garbage]
      /\ heap' = IF n > 1 THEN [rest EXCEPT ![1] = heap[n]] ELSE rest
      /\ pc' = (IF n > 1 THEN "down" ELSE "idle")
      /\ cur' = (IF n > 1 THEN 1 ELSE 0)
      /\ clock' = clock
  BY DEF Remove, ForgetIndex, FirstReplaced
<1>3. /\ n \in Nat /\ DOMAIN heap = 1 .. n
      /\ \A k \in 1 .. n : /\ heap[k] \in Info /\ heap[k] \in Members
                           /\ info[heap[k]] \in Entry /\ Times[k] = Awake(k)
      /\ Times \in [1 .. n -> Nat]
  BY <1>1, LiveTimes
<1>4. n >= 1 /\ 1 \in 1 .. n /\ n \in 1 .. n
  BY <1>1, <1>2, <1>3, EmptySeq, SMT DEF TypeOK
<1>5. /\ heap' \in Seq(Info) /\ DOMAIN heap' = 1 .. n - 1
      /\ n > 1 => heap'[1] = heap[n]
      /\ \A k \in 2 .. n - 1 : heap'[k] = heap[k]
  <2>1. rest \in Seq(Info) /\ Len(rest) = n - 1 /\ \A k \in 1 .. n - 1 : rest[k] = heap[k]
    BY <1>1, <1>3, <1>4, SMT DEF TypeOK
  <2>2. CASE n > 1
    <3>1. 1 \in 1 .. Len(rest)
      BY <1>3, <2>1, <2>2, SMT
    <3>2. /\ heap' \in Seq(Info) /\ Len(heap') = n - 1
          /\ \A k \in 1 .. n - 1 : heap'[k] = IF k = 1 THEN heap[n] ELSE rest[k]
      <4>1. heap' = [rest EXCEPT ![1] = heap[n]] /\ heap[n] \in Info
        BY <1>2, <1>3, <1>4, <2>2
      <4> HIDE DEF rest
      <4>2. QED
        BY <2>1, <3>1, <4>1, ExceptSeq
    <3>3. DOMAIN heap' = 1 .. n - 1
      BY <3>2, LenProperties
    <3>4. \A k \in 2 .. n - 1 : k \in 1 .. n - 1 /\ k # 1
      BY <1>3, SMT
    <3>5. 1 \in 1 .. n - 1
      BY <2>1, <3>1
    <3> HIDE DEF rest, n
    <3>6. QED
      BY <2>1, <3>2, <3>3, <3>4, <3>5
  <2>3. CASE n = 1
    BY <1>2, <1>3, <2>1, <2>3, LenProperties, SMT
  <2>4. QED
    BY <1>3, <1>4, <2>2, <2>3, SMT
<1>6. \A k \in 1 .. n - 1 : k \in 1 .. n
  BY <1>3, SMT
<1> HIDE DEF rest
<1>7. Members' = Members \ {res}
  <2>1. ASSUME NEW k \in 1 .. n - 1 PROVE heap'[k] \in Members \ {res}
    <3>1. CASE k = 1
      <4>1. n > 1 /\ n # 1
        BY <1>3, <2>1, <3>1, SMT
      <4>2. QED
        BY <1>1, <1>3, <1>4, <1>5, <3>1, <4>1 DEF NoDuplicate
    <3>2. CASE k # 1
      <4>1. k \in 2 .. n - 1
        BY <1>3, <2>1, <3>2, SMT
      <4>2. QED
        BY <1>1, <1>3, <1>4, <1>5, <1>6, <3>2, <4>1 DEF NoDuplicate
    <3>3. QED
      BY <3>1, <3>2
  <2>2. ASSUME NEW k \in 1 .. n, heap[k] # res
        PROVE  \E j \in 1 .. n - 1 : heap'[j] = heap[k]
    <3>1. CASE k = n
      <4>1. n > 1 /\ 1 \in 1 .. n - 1
        BY <1>3, <1>4, <2>2, <3>1, SMT
      <4>2. QED
        BY <1>5, <3>1, <4>1
    <3>2. CASE k # n
      <4>1. k # 1
        BY <2>2
      <4>2. n \in Nat /\ k \in 1 .. n
        BY <1>3
      <4>3. k \in 2 .. n - 1 /\ k \in 1 .. n - 1
        BY <3>2, <4>1, <4>2, SMT
      <4>4. QED
        BY <1>5, <4>3
    <3>3. QED
      BY <3>1, <3>2
  <2>3. Members = {heap[k] : k \in 1 .. n} /\ Members' = {heap'[k] : k \in 1 .. n - 1}
    BY <1>3, <1>5 DEF Members
  <2> HIDE DEF res, n
  <2>4. QED
    BY <2>1, <2>2, <2>3
<1>8. QED
  BY <1>4, <1>5, <1>7

LEMMA RemoveIInv ==
  ASSUME IInv, Remove
  PROVE  IInv'
<1> USE QueueAssumption
<1>1. TypeOK /\ NoDuplicate /\ LiveEntries /\ IndexInHeap /\ Shape
  BY DEF IInv
<1> DEFINE n == Len(heap)
           res == heap[1]
<1>2. /\ pc = "idle" /\ heap # <<>>
      /\ index' = [index EXCEPT ![info[res].co] = NoInfo]
      /\ info' = [info EXCEPT ![res] = Garbage]
      /\ pc' = (IF n > 1 THEN "down" ELSE "idle")
      /\ cur' = (IF n > 1 THEN 1 ELSE 0)
      /\ clock' = clock
  BY DEF Remove, ForgetIndex, FirstReplaced
<1>3. /\ n \in Nat /\ DOMAIN heap = 1 .. n
      /\ \A k \in 1 .. n : /\ heap[k] \in Info /\ heap[k] \in Members
                           /\ info[heap[k]] \in Entry /\ Times[k] = Awake(k)
      /\ Times \in [1 .. n -> Nat]
  BY <1>1, LiveTimes
<1>4. n >= 1 /\ 1 \in 1 .. n /\ n \in 1 .. n
  BY <1>3, RemovePlaces, SMT
<1>5. /\ heap' \in Seq(Info) /\ DOMAIN heap' = 1 .. n - 1
      /\ n > 1 => heap'[1] = heap[n]
      /\ \A k \in 2 .. n - 1 : heap'[k] = heap[k]
  BY RemovePlaces
<1>6. \A k \in 1 .. n - 1 : k \in 1 .. n
  BY <1>3, SMT
<1>7. Members' = Members \ {res}
  BY RemovePlaces
<1>8. /\ info'[res] = Garbage /\ Garbage \notin Entry /\ res \in Info
      /\ \A j \in Info : j # res => info'[j] = info[j]
      /\ info' \in [Info -> Entry \cup {Garbage}]
  BY <1>1, <1>2, <1>3, <1>4 DEF TypeOK, Entry
<1>9. TypeOK'
  <2>1. index' \in [Co -> Info \cup {NoInfo}]
    BY <1>1, <1>2 DEF TypeOK
  <2>2. pc' \in {"idle", "up", "down"} /\ cur' \in Nat
    BY <1>2
  <2>3. QED
    BY <1>1, <1>2, <1>5, <1>8, <2>1, <2>2 DEF TypeOK
<1>10. NoDuplicate'
  <2>1. ASSUME NEW j \in 1 .. n - 1
        PROVE  \E p \in 1 .. n : /\ heap'[j] = heap[p]
                                 /\ j = 1 => p = n
                                 /\ j # 1 => p = j
    <3>1. j = 1 => n > 1
      BY <1>3, <2>1, SMT
    <3>2. j # 1 => j \in 2 .. n - 1
      BY <1>3, <2>1, SMT
    <3>3. QED
      BY <1>4, <1>5, <1>6, <3>1, <3>2
  <2>2. n \notin 1 .. n - 1
    BY <1>3, SMT
  <2>3. ASSUME NEW j \in 1 .. n - 1, NEW k \in 1 .. n - 1, heap'[j] = heap'[k]
        PROVE  j = k
    <3>1. PICK p \in 1 .. n : /\ heap'[j] = heap[p]
                              /\ j = 1 => p = n
                              /\ j # 1 => p = j
      BY <2>1
    <3>2. PICK q \in 1 .. n : /\ heap'[k] = heap[q]
                              /\ k = 1 => q = n
                              /\ k # 1 => q = k
      BY <2>1
    <3>3. p = q
      BY <1>1, <1>3, <2>3, <3>1, <3>2 DEF NoDuplicate
    <3>4. QED
      BY <2>2, <2>3, <3>1, <3>2, <3>3
  <2>4. QED
    BY <1>5, <2>3 DEF NoDuplicate
<1>11. LiveEntries'
  BY <1>1, <1>7, <1>8 DEF LiveEntries
<1>12. IndexInHeap'
  <2>1. SUFFICES ASSUME NEW c \in Co, index'[c] # NoInfo
                 PROVE  index'[c] \in Members' /\ info'[index'[c]].co = c
    BY DEF IndexInHeap
  <2>2. index'[c] = index[c] /\ c # info[res].co
    BY <1>1, <1>2, <2>1 DEF TypeOK
  <2>3. index[c] \in Members /\ info[index[c]].co = c /\ index[c] \in Info
    BY <1>1, <2>1, <2>2 DEF IndexInHeap, TypeOK
  <2>4. QED
    BY <1>7, <1>8, <2>2, <2>3
<1>13. Shape'
  <2>1. CASE n > 1
    <3>1. 1 \in 1 .. n - 1
      BY <1>3, <2>1, SMT
    <3>2. \A k \in 2 .. n - 1 : k \in 1 .. n /\ k # 1
      BY <1>3, SMT
    <3>3. DOMAIN Times' = 1 .. n - 1 /\ \A k \in 2 .. n - 1 : Times'[k] = Times[k]
      <4>1. \A k \in 2 .. n - 1 : k \in 1 .. n - 1
        BY <1>3, SMT
      <4>2. \A k \in 2 .. n - 1 : heap[k] # res /\ heap[k] \in Info
        BY <1>1, <1>3, <1>4, <3>2 DEF NoDuplicate
      <4>3. QED
        BY <1>3, <1>5, <1>8, <3>2, <4>1, <4>2 DEF Times, Awake
    <3>4. ASSUME NEW k \in 1 .. n - 1, k > 1, Parent(k) # 1
          PROVE  Times'[Parent(k)] <= Times'[k]
      <4>1. k \in 2 .. n - 1 /\ k \in 2 .. n /\ Parent(k) \in 2 .. n - 1
        BY <1>3, <3>4, ParentPlace, SMT
      <4>2. Awake(Parent(k)) <= Awake(k)
        BY <1>1, <1>2, <4>1 DEF Shape, HeapOrdered
      <4>3. QED
        BY <1>3, <3>2, <3>3, <4>1, <4>2
    <3>5. DownShape(Times', 1)
      BY <3>3, <3>4 DEF DownShape, OrderedBut, OrderedAcross
    <3>6. QED
      BY <1>2, <1>5, <2>1, <3>1, <3>5 DEF Shape
  <2>2. CASE n = 1
    <3>1. Len(heap') = 0
      BY <1>5, <2>2, LenProperties, SMT
    <3>2. HeapOrdered'
      BY <3>1, SMT DEF HeapOrdered
    <3>3. QED
      BY <1>2, <2>2, <3>2 DEF Shape
  <2>3. QED
    BY <1>3, <1>4, <2>1, <2>2, SMT
<1>14. QED
  BY <1>9, <1>10, <1>11, <1>12, <1>13 DEF IInv

\* The passing of time and a stuttering step change none of the parts.
LEMMA TickIInv ==
  ASSUME IInv, Tick \/ UNCHANGED vars
  PROVE  IInv'
<1>1. TypeOK /\ NoDuplicate /\ LiveEntries /\ IndexInHeap /\ Shape
  BY DEF IInv
<1>2. UNCHANGED <<heap, index, info, pc, cur>>
  BY DEF Tick, vars
<1>3. clock' \in 0 .. MaxClock
  BY <1>1, QueueAssumption, SMT DEF TypeOK, Tick, vars
<1>4. TypeOK'
  BY <1>1, <1>2, <1>3 DEF TypeOK
<1>5. Members' = Members /\ Times' = Times
  BY <1>2 DEF Members, Times, Awake
<1>6. NoDuplicate' /\ LiveEntries' /\ IndexInHeap'
  BY <1>1, <1>2, <1>5 DEF NoDuplicate, LiveEntries, IndexInHeap
<1>7. Shape'
  BY <1>1, <1>2, <1>5 DEF Shape, HeapOrdered, Awake
<1>8. QED
  BY <1>4, <1>6, <1>7 DEF IInv

LEMMA NextIInv == IInv /\ [Next]_vars => IInv'
<1> SUFFICES ASSUME IInv, [Next]_vars PROVE IInv'
  OBVIOUS
<1>1. ASSUME NEW co \in Co, NEW when \in Delays, Insert(co, when) PROVE IInv'
  BY <1>1, InsertIInv
<1>2. ASSUME NEW co \in Co, Cancel(co) PROVE IInv'
  BY <1>2, CancelIInv
<1>3. CASE Remove
  BY <1>3, RemoveIInv
<1>4. CASE BubbleUp
  BY <1>4, BubbleUpIInv
<1>5. CASE BubbleDown
  BY <1>5, BubbleDownIInv
<1>6. CASE Tick \/ UNCHANGED vars
  BY <1>6, TickIInv
<1>7. QED
  BY <1>1, <1>2, <1>3, <1>4, <1>5, <1>6 DEF Next

\* The invariant holds in every behaviour of the queue.
THEOREM Invariance == Spec => []IInv
BY InitIInv, NextIInv, PTL DEF Spec

\* The queue is type correct, whatever is armed, cancelled and removed.
THEOREM TypeCorrect == Spec => []TypeOK
<1>1. IInv => TypeOK
  BY DEF IInv
<1>2. QED
  BY <1>1, Invariance, PTL

\* Between calls the array of TOQUEUE is a heap, of any size: insert() and
\* remove() put it back in order.
THEOREM HeapOrder == Spec => []HeapOrdered
<1>1. IInv => HeapOrdered
  BY DEF IInv, Shape, HeapOrdered
<1>2. QED
  BY <1>1, Invariance, PTL

\* TOQUEUE[co] is always an entry of co that is still in the array, so that
\* the assertion in timeout() holds and a fired timer is never cancelled.
THEOREM IndexCorrect == Spec => []IndexInHeap
<1>1. IInv => IndexInHeap
  BY DEF IInv
<1>2. QED
  BY <1>1, Invariance, PTL

\* No entry is ever in the array twice.
THEOREM DuplicateFree == Spec => []NoDuplicate
<1>1. IInv => NoDuplicate
  BY DEF IInv
<1>2. QED
  BY <1>1, Invariance, PTL
-----------------------------------------------------------------------------
(* Refinement.                                                              *)

\* The first entry of a heap has the earliest time.  Otherwise the first
\* place that is due before it has a parent that is due no later, at an even
\* earlier place.
LEMMA RootEarliest ==
  ASSUME IInv, pc = "idle"
  PROVE  \A k \in DOMAIN heap : Awake(1) <= Awake(k)
<1>1. TypeOK /\ LiveEntries /\ HeapOrdered
  BY DEF IInv, Shape
<1> DEFINE n == Len(heap)
           Late == {k \in 1 .. n : Awake(k) < Awake(1)}
<1>2. n \in Nat /\ DOMAIN heap = 1 .. n /\ \A k \in 1 .. n : Awake(k) \in Nat
  BY <1>1, LiveTimes
<1>3. Late = {}
  <2>1. SUFFICES ASSUME Late # {} PROVE FALSE
    OBVIOUS
  <2>2. Late \subseteq Nat
    BY <1>2, SMT
  <2>3. PICK k \in Late : \A j \in Late : ~ (<<j, k>> \in OpToRel(<, Nat))
    <3> HIDE DEF Late
    <3>1. QED
      BY <2>1, <2>2, NatLessThanWellFounded, WFMin
  <2>4. \A j \in Late : ~ (j < k)
    BY <2>2, <2>3 DEF OpToRel
  <2>5. k \in 1 .. n /\ Awake(k) < Awake(1)
    BY <2>3
  <2>6. 1 \in 1 .. n
    BY <1>2, <2>5, SMT
  <2>7. k \in 2 .. n
    BY <1>2, <2>5, <2>6, SMT
  <2>8. Parent(k) \in 1 .. n /\ Parent(k) < k
    BY <1>2, <2>7, ParentPlace, SMT
  <2>9. Awake(Parent(k)) <= Awake(k)
    BY <1>1, <2>7 DEF HeapOrdered
  <2>10. Awake(Parent(k)) < Awake(1)
    BY <1>2, <2>5, <2>6, <2>8, <2>9, SMT
  <2>11. QED
    BY <2>4, <2>8, <2>10
<1>4. ASSUME NEW k \in 1 .. n PROVE Awake(1) <= Awake(k)
  <2>1. ~ (Awake(k) < Awake(1)) /\ 1 \in 1 .. n
    BY <1>2, <1>3, <1>4, SMT
  <2>2. QED
    BY <1>2, <2>1, SMT
<1>5. QED
  BY <1>2, <1>4

\* The initial queue is an empty collection of timers.
LEMMA BagInitial == Init => Bag!BagInit
<1> SUFFICES ASSUME Init PROVE Bag!BagInit
  OBVIOUS
<1>1. Members = {}
  BY DEF Init, Members
<1>2. QED
  BY <1>1 DEF Init, Bag!BagInit

\* Every step of the queue is a step of the collection, or none at all.
LEMMA BagStep == IInv /\ [Next]_vars => [Bag!BagNext]_(Bag!bagVars)
<1> SUFFICES ASSUME IInv, [Next]_vars
             PROVE  Bag!BagNext \/ UNCHANGED Bag!bagVars
  OBVIOUS
<1>1. TypeOK /\ NoDuplicate /\ LiveEntries /\ IndexInHeap
  BY DEF IInv
<1>2. ASSUME NEW co \in Co, NEW when \in Delays, Insert(co, when)
      PROVE  Bag!Arm(co, when)
  <2>1. PICK m \in Info \ Members : /\ heap' = Append(heap, m)
                                    /\ info' = [info EXCEPT ![m] =
                                         [awake |-> clock + when, trigger |-> TRUE, co |-> co]]
    BY <1>2 DEF Insert
  <2>2. Members' = Members \cup {m}
    <3>1. /\ Len(heap) \in Nat /\ DOMAIN heap = 1 .. Len(heap)
          /\ DOMAIN heap' = 1 .. Len(heap) + 1
          /\ heap'[Len(heap) + 1] = m
          /\ \A k \in 1 .. Len(heap) : heap'[k] = heap[k] /\ k \in 1 .. Len(heap) + 1
          /\ \A k \in 1 .. Len(heap) + 1 : k \in 1 .. Len(heap) \/ k = Len(heap) + 1
          /\ Len(heap) + 1 \in 1 .. Len(heap) + 1
      BY <1>1, <2>1, SMT DEF TypeOK
    <3>2. QED
      BY <3>1 DEF Members
  <2>3. clock + when <= MaxClock /\ clock' = clock
    BY <1>2 DEF Insert
  <2>4. QED
    BY <2>1, <2>2, <2>3 DEF Bag!Arm
<1>3. ASSUME NEW co \in Co, Cancel(co)
      PROVE  Bag!Disarm(co)
  <2>1. /\ index[co] \in Members /\ info[index[co]].co = co
        /\ info' = [info EXCEPT ![index[co]].trigger = FALSE]
    BY <1>1, <1>3 DEF Cancel, IndexInHeap
  <2>2. Members' = Members /\ clock' = clock
    BY <1>3 DEF Cancel, Members
  <2>3. QED
    BY <2>1, <2>2 DEF Bag!Disarm
<1>4. CASE Remove
  <2>1. 1 \in DOMAIN heap /\ heap[1] \in Members /\ heap[1] \in Info
    <3>1. Len(heap) \in Nat /\ Len(heap) # 0 /\ DOMAIN heap = 1 .. Len(heap)
      BY <1>1, <1>4, EmptySeq, LenProperties DEF Remove, TypeOK
    <3>2. 1 \in DOMAIN heap
      BY <3>1, SMT
    <3>3. QED
      BY <1>1, <3>2, LiveTimes
  <2>2. Members' = Members \ {heap[1]}
    BY <1>4, RemovePlaces
  <2>3. \A j \in Members : info[heap[1]].awake <= info[j].awake
    BY <1>4, RootEarliest DEF Remove, Members, Awake
  <2>4. /\ info[heap[1]].trigger => info[heap[1]].awake <= clock
        /\ info' = [info EXCEPT ![heap[1]] = Garbage] /\ clock' = clock
    BY <1>4 DEF Remove
  <2>5. Bag!Leave(heap[1])
    BY <2>1, <2>2, <2>3, <2>4 DEF Bag!Leave, Bag!Earliest
  <2>6. QED
    BY <2>1, <2>5 DEF Bag!BagNext
<1>5. CASE BubbleUp \/ BubbleDown
  <2>1. Members' = Members /\ clock' = clock /\ info' = info
    BY <1>5, BubbleMembers DEF BubbleUp, BubbleDown
  <2>2. QED
    BY <2>1 DEF Bag!bagVars
<1>6. CASE Tick
  BY <1>6 DEF Tick, Bag!BagTick, Bag!BagNext, Members
<1>7. CASE UNCHANGED vars
  BY <1>7 DEF vars, Bag!bagVars, Members
<1>8. QED
  BY <1>2, <1>3, <1>4, <1>5, <1>6, <1>7 DEF Next, Bag!BagNext

\* However the entries are arranged, the queue behaves as the collection of
\* timers of TimerBag: what the event loop takes off is due or cancelled, and
\* nothing that stays was due before it.
THEOREM Implementation == Spec => ImplementsBag
BY BagInitial, BagStep, Invariance, PTL DEF Spec, ImplementsBag, Bag!BagSpec
-----------------------------------------------------------------------------
(* The wrapping of text.                                                    *)

\* The glyphs of a stretch of the text are finitely many, and not more in a
\* stretch within it.
LEMMA GlyphCount ==
  ASSUME NEW a \in Nat, NEW b \in Nat, NEW S, S \subseteq a .. b
  PROVE  /\ IsFiniteSet({k \in a .. b : Glyph(k)})
         /\ Cardinality({k \in a .. b : Glyph(k)}) \in Nat
         /\ Cardinality({k \in S : Glyph(k)}) \in Nat
         /\ Cardinality({k \in S : Glyph(k)}) <= Cardinality({k \in a .. b : Glyph(k)})
<1> DEFINE all  == {k \in a .. b : Glyph(k)}
           some == {k \in S : Glyph(k)}
<1>1. IsFiniteSet(all)
  BY FS_Interval, FS_Subset, SMT
<1>2. some \subseteq all
  OBVIOUS
<1>3. QED
  BY <1>1, <1>2, FS_Subset, FS_CardinalityType

\* What the invariant says of the parts of the state.
LEMMA WrapTypes ==
  ASSUME WrapTypeOK
  PROVE  /\ Len(text) \in Nat /\ DOMAIN text = 1 .. Len(text)
         /\ \A k \in DOMAIN text : text[k] \in Classes
         /\ margin \in Nat /\ margin >= 1
         /\ i \in Nat /\ front \in Nat /\ cnt \in Nat
         /\ 1 <= i /\ i <= Len(text) + 1 /\ 1 <= front /\ front <= Len(text) + 1
         /\ cnt <= margin
         /\ Len(lines) \in Nat /\ DOMAIN lines = 1 .. Len(lines)
<1>1. text \in Seq(Classes)
  BY WrapAssumption DEF WrapTypeOK
<1>2. /\ Len(text) \in Nat /\ DOMAIN text = 1 .. Len(text)
      /\ \A k \in DOMAIN text : text[k] \in Classes
  BY <1>1
<1>3. margin \in Nat /\ margin >= 1
  BY WrapAssumption, SMT DEF WrapTypeOK
<1>4. i \in 1 .. Len(text) + 1 /\ front \in 1 .. Len(text) + 1 /\ cnt \in 0 .. margin
  BY DEF WrapTypeOK
<1>5. Len(lines) \in Nat /\ DOMAIN lines = 1 .. Len(lines)
  BY DEF WrapTypeOK
<1>6. QED
  BY <1>2, <1>3, <1>4, <1>5, SMT

\* The lines after one more.
LEMMA OneMoreLine ==
  ASSUME WrapTypeOK, NEW line \in SUBSET DOMAIN text, lines' = Append(lines, line)
  PROVE  /\ lines' \in Seq(SUBSET DOMAIN text)
         /\ Len(lines') = Len(lines) + 1
         /\ DOMAIN lines' = DOMAIN lines \cup {Len(lines) + 1}
         /\ Len(lines) + 1 \notin DOMAIN lines
         /\ lines'[Len(lines) + 1] = line
         /\ \A n \in DOMAIN lines : lines'[n] = lines[n] /\ n < Len(lines) + 1
<1>1. lines \in Seq(SUBSET DOMAIN text)
  BY DEF WrapTypeOK
<1>2. /\ Len(lines) \in Nat /\ DOMAIN lines = 1 .. Len(lines)
      /\ lines' \in Seq(SUBSET DOMAIN text) /\ Len(lines') = Len(lines) + 1
      /\ DOMAIN lines' = 1 .. Len(lines) + 1
      /\ lines'[Len(lines) + 1] = line
      /\ \A n \in 1 .. Len(lines) : lines'[n] = lines[n]
  BY <1>1, AppendProperties
<1>3. QED
  BY <1>2, SMT

LEMMA WrapInitIInv == WrapInit => WrapIInv
<1> SUFFICES ASSUME WrapInit PROVE WrapIInv
  OBVIOUS
<1> USE DEF WrapInit
<1>1. text \in Seq(Classes) /\ margin \in Nat /\ margin >= 1
  BY WrapAssumption, SMT
<1>2. Len(text) \in Nat
  BY <1>1
<1>3. WrapTypeOK
  <2>1. 1 \in 1 .. Len(text) + 1 /\ 0 \in 0 .. margin
    BY <1>1, <1>2, SMT
  <2>2. << >> \in Seq(SUBSET DOMAIN text)
    OBVIOUS
  <2>3. QED
    BY <2>1, <2>2 DEF WrapTypeOK
<1>4. DOMAIN lines = {} /\ Len(lines) = 0
  OBVIOUS
<1>5. 1 .. front - 1 = {} /\ front .. i - 1 = {}
  BY SMT
<1>6. LineSoFar
  BY <1>5, FS_EmptySet DEF LineSoFar
<1>7. Gone = {}
  BY <1>5 DEF Gone
<1>8. FewGone
  BY <1>4, <1>7, FS_EmptySet DEF FewGone
<1>9. QED
  BY <1>3, <1>4, <1>5, <1>6, <1>8
     DEF WrapIInv, LinesFit, NothingDropped, Partial, MarkInLine, LinesBefore,
         LinesInOrder, ResetsBreak

\* One character more on the line.
LEMMA GoOnIInv ==
  ASSUME WrapIInv, NEW class, Looking(class), class # "RESET",
         NEW m, NEW glyphs, GoOn(m, glyphs), glyphs <= margin,
         glyphs = IF class \in {"SPACE", "HYPHEN", "CHAR"} THEN cnt + 1 ELSE cnt,
         m # NoMark => \/ mark # NoMark /\ m = mark
                       \/ m = After
                       \/ class = "SPACE" /\ m = Before
  PROVE  WrapIInv'
<1> DEFINE n == Len(text)
<1>1. WrapTypeOK /\ LinesFit /\ Partial
  BY DEF WrapIInv, Looking
<1>2. /\ n \in Nat /\ DOMAIN text = 1 .. n /\ margin \in Nat
      /\ i \in Nat /\ front \in Nat /\ cnt \in Nat /\ 1 <= i /\ 1 <= front
      /\ i <= n /\ front <= i
  BY <1>1, WrapTypes DEF Looking, Partial, LineSoFar
<1>3. /\ text[i] = class /\ wrapped = "no"
      /\ text' = text /\ margin' = margin /\ wrapped' = wrapped
      /\ i' = i + 1 /\ cnt' = glyphs /\ mark' = m /\ front' = front /\ lines' = lines
  BY DEF Looking, GoOn
<1>4. m # NoMark => Breakable(m)'
  <2>1. SUFFICES ASSUME m # NoMark
                 PROVE  /\ m.resume \in front + 1 .. i + 1
                        /\ m.at = m.resume \/ (m.at + 1 = m.resume /\ text[m.at] = "SPACE")
    BY <1>3 DEF Breakable
  <2>2. CASE mark # NoMark /\ m = mark
    <3>1. Breakable(m)
      BY <1>1, <2>2 DEF Partial, MarkInLine
    <3>2. QED
      BY <1>2, <3>1, SMT DEF Breakable
  <2>3. CASE m = After
    <3>1. m.at = i + 1 /\ m.resume = i + 1
      BY <2>3 DEF After, Mark
    <3>2. QED
      BY <1>2, <3>1, SMT
  <2>4. CASE class = "SPACE" /\ m = Before
    <3>1. m.at = i /\ m.resume = i + 1
      BY <2>4 DEF Before, Mark
    <3>2. QED
      BY <1>2, <1>3, <2>4, <3>1, SMT
  <2>5. QED
    BY <2>1, <2>2, <2>3, <2>4
<1>5. cnt' = Cardinality({k \in front .. i : Glyph(k)}) /\ cnt' \in Nat
  <2> DEFINE seen == {k \in front .. i - 1 : Glyph(k)}
  <2>1. IsFiniteSet(seen) /\ cnt = Cardinality(seen) /\ i \notin seen
    <3>1. i - 1 \in Nat /\ i \notin front .. i - 1
      BY <1>2, SMT
    <3>2. QED
      BY <1>1, <1>2, <3>1, GlyphCount DEF Partial, LineSoFar
  <2>2. front .. i = (front .. i - 1) \cup {i}
    BY <1>2, SMT
  <2>3. CASE class \in {"SPACE", "HYPHEN", "CHAR"}
    <3>1. {k \in front .. i : Glyph(k)} = seen \cup {i}
      BY <1>3, <2>2, <2>3 DEF Glyph
    <3>2. Cardinality(seen \cup {i}) = cnt + 1
      BY <2>1, FS_AddElement
    <3>3. cnt' = cnt + 1 /\ cnt' \in Nat
      BY <1>2, <1>3, <2>3
    <3>4. QED
      BY <3>1, <3>2, <3>3
  <2>4. CASE class \notin {"SPACE", "HYPHEN", "CHAR"}
    <3>1. {k \in front .. i : Glyph(k)} = seen
      BY <1>3, <2>2, <2>4 DEF Glyph
    <3>2. QED
      BY <1>2, <1>3, <2>1, <2>4, <3>1
  <2>5. QED
    BY <2>3, <2>4
<1>6. i' - 1 = i /\ i' \in 1 .. n + 1
  BY <1>2, <1>3, SMT
<1>7. WrapTypeOK'
  <2>1. m = NoMark \/ m \in [at : 1 .. n + 1, resume : 2 .. n + 1]
    <3>1. ASSUME m # NoMark PROVE m \in [at : 1 .. n + 1, resume : 2 .. n + 1]
      <4>1. CASE mark # NoMark /\ m = mark
        BY <1>1, <4>1 DEF WrapTypeOK
      <4>2. CASE m = After
        <5>1. i + 1 \in 1 .. n + 1 /\ i + 1 \in 2 .. n + 1
          BY <1>2, SMT
        <5>2. QED
          BY <4>2, <5>1 DEF After, Mark
      <4>3. CASE m = Before
        <5>1. i \in 1 .. n + 1 /\ i + 1 \in 2 .. n + 1
          BY <1>2, SMT
        <5>2. QED
          BY <4>3, <5>1 DEF Before, Mark
      <4>4. QED
        BY <3>1, <4>1, <4>2, <4>3
    <3>2. QED
      BY <3>1
  <2>2. cnt' \in 0 .. margin
    BY <1>2, <1>3, <1>5, SMT
  <2>3. QED
    BY <1>1, <1>3, <1>6, <2>1, <2>2 DEF WrapTypeOK
<1>8. LineSoFar'
  <2>1. \A k \in front .. i : k \in front .. i - 1 \/ k = i
    BY <1>2, SMT
  <2>2. \A k \in front .. i : text[k] # "RESET"
    BY <1>1, <1>3, <2>1 DEF Partial, LineSoFar
  <2>3. front' <= i'
    BY <1>2, <1>3, SMT
  <2>4. cnt' = Cardinality({k \in front .. i - 1 : Glyph(k)})'
    <3>1. {k \in front .. i - 1 : Glyph(k)}' = {k \in front .. i : Glyph(k)}
      BY <1>3, <1>6 DEF Glyph
    <3>2. QED
      BY <1>5, <3>1
  <2>5. QED
    BY <1>3, <1>6, <2>2, <2>3, <2>4 DEF LineSoFar
<1>9. MarkInLine'
  BY <1>3, <1>4 DEF MarkInLine
<1>10. LinesFit' /\ LinesBefore' /\ LinesInOrder' /\ FewGone' /\ ResetsBreak'
  <2>1. Gone' = Gone
    BY <1>3 DEF Gone
  <2>2. QED
    BY <1>1, <1>3, <2>1
       DEF Partial, LinesFit, Glyph, LinesBefore, LinesInOrder, FewGone, ResetsBreak
<1>11. QED
  BY <1>3, <1>7, <1>8, <1>9, <1>10 DEF WrapIInv, Partial, NothingDropped

\* A line more: it has what is before the place of the break, the next one
\* begins behind it.
LEMMA BreakIInv ==
  ASSUME WrapIInv, NEW class, Looking(class), NEW m, BreakLine(m),
         \/ m # NoMark /\ mark # NoMark /\ m = mark /\ class # "RESET"
         \/ m = Before /\ class \in {"SPACE", "HYPHEN", "RESET"}
         \/ m = NoMark /\ class # "RESET" /\ cnt >= 1
  PROVE  WrapIInv' /\ front' > front
<1> DEFINE n    == Len(text)
           brk  == IF m = NoMark THEN Here ELSE m
           at   == brk.at
           next == brk.resume
           line == RemShy(front, at)
           w    == Len(lines)
<1>1. WrapTypeOK /\ LinesFit /\ Partial
  BY DEF WrapIInv, Looking
<1>2. /\ n \in Nat /\ DOMAIN text = 1 .. n /\ margin \in Nat
      /\ i \in Nat /\ front \in Nat /\ cnt \in Nat /\ 1 <= i /\ 1 <= front
      /\ i <= n /\ front <= i /\ cnt <= margin
      /\ w \in Nat /\ DOMAIN lines = 1 .. w
  BY <1>1, WrapTypes DEF Looking, Partial, LineSoFar
<1>3. /\ text[i] = class /\ wrapped = "no"
      /\ text' = text /\ margin' = margin /\ wrapped' = wrapped
      /\ i' = next /\ front' = next /\ cnt' = 0 /\ mark' = NoMark
      /\ lines' = Append(lines, line)
  BY DEF Looking, BreakLine
<1>4. LineSoFar /\ MarkInLine /\ LinesBefore /\ LinesInOrder /\ FewGone /\ ResetsBreak
  BY <1>1 DEF Partial
<1>5. cnt >= 1 => front + 1 <= i
  <2>1. ASSUME cnt >= 1, ~ (front + 1 <= i) PROVE FALSE
    <3>1. front .. i - 1 = {}
      BY <1>2, <2>1, SMT
    <3>2. cnt = 0
      BY <1>4, <3>1, FS_EmptySet DEF LineSoFar
    <3>3. QED
      BY <2>1, <3>2, SMT
  <2>2. QED
    BY <2>1
<1>6. /\ at \in Nat /\ next \in Nat /\ front <= at /\ at <= i /\ front + 1 <= next /\ next <= n + 1
      /\ \/ at = next
         \/ at + 1 = next /\ text[at] \in {"SPACE", "HYPHEN", "RESET"}
      /\ \A k \in front .. next - 1 : text[k] = "RESET" => k = at
  <2>1. CASE m # NoMark /\ mark # NoMark /\ m = mark /\ class # "RESET"
    <3>1. Breakable(mark) /\ at = mark.at /\ next = mark.resume
      BY <1>4, <2>1 DEF MarkInLine
    <3>2. /\ next \in front + 1 .. i
          /\ at = next \/ (at + 1 = next /\ text[at] = "SPACE")
          /\ mark.at \in 1 .. n + 1
      BY <1>1, <2>1, <3>1 DEF Breakable, WrapTypeOK
    <3>3. /\ at \in Nat /\ next \in Nat /\ front <= at /\ at <= i
          /\ front + 1 <= next /\ next <= i
      BY <1>2, <3>1, <3>2, SMT
    <3>4. \A k \in front .. next - 1 : k \in front .. i - 1
      BY <1>2, <3>3, SMT
    <3>5. next <= n + 1
      BY <1>2, <3>3, SMT
    <3>6. QED
      BY <1>4, <3>2, <3>3, <3>4, <3>5 DEF LineSoFar
  <2>2. CASE m = Before /\ class \in {"SPACE", "HYPHEN", "RESET"}
    <3>1. m # NoMark
      BY <1>2, <2>2, WrapAssumption DEF Before, Mark
    <3>2. at = i /\ next = i + 1
      BY <2>2, <3>1 DEF Before, Mark
    <3>3. \A k \in front .. next - 1 : k \in front .. i - 1 \/ k = i
      BY <1>2, <3>2, SMT
    <3>4. front + 1 <= next /\ next <= n + 1
      BY <1>2, <3>2, SMT
    <3>5. text[at] \in {"SPACE", "HYPHEN", "RESET"}
      BY <1>3, <2>2, <3>2
    <3>6. \A k \in front .. next - 1 : text[k] = "RESET" => k = at
      BY <1>4, <3>2, <3>3 DEF LineSoFar
    <3>7. /\ at \in Nat /\ next \in Nat /\ front <= at /\ at <= i /\ at + 1 = next
      BY <1>2, <3>2
    <3>8. QED
      BY <3>4, <3>5, <3>6, <3>7
  <2>3. CASE m = NoMark /\ class # "RESET" /\ cnt >= 1
    <3>1. at = i /\ next = i
      BY <2>3 DEF Here, Mark
    <3>2. next <= n + 1
      BY <1>2, <3>1, SMT
    <3>3. QED
      BY <1>2, <1>4, <1>5, <2>3, <3>1, <3>2 DEF LineSoFar
  <2>4. QED
    BY <2>1, <2>2, <2>3
<1> HIDE DEF brk, at, next
<1>7. /\ line \subseteq front .. at - 1
      /\ \A k \in front .. at - 1 : text[k] # "SHY" => k \in line
  BY DEF RemShy
<1>8. line \subseteq DOMAIN text
  <2>1. \A k \in front .. at - 1 : k \in 1 .. n
    BY <1>2, <1>6, SMT
  <2>2. QED
    BY <1>2, <1>7, <2>1
<1> HIDE DEF line
<1>9. /\ lines' \in Seq(SUBSET DOMAIN text) /\ Len(lines') = w + 1
      /\ DOMAIN lines' = DOMAIN lines \cup {w + 1}
      /\ w + 1 \notin DOMAIN lines
      /\ lines'[w + 1] = line
      /\ \A l \in DOMAIN lines : lines'[l] = lines[l] /\ l < w + 1
  BY <1>1, <1>3, <1>8, OneMoreLine
<1> HIDE DEF w
<1>10. \A l \in DOMAIN lines : lines[l] \subseteq 1 .. front - 1
  BY <1>4 DEF LinesBefore
<1>11. WrapTypeOK'
  <2>1. next \in 1 .. n + 1 /\ 0 \in 0 .. margin
    BY <1>2, <1>6, SMT
  <2>2. QED
    BY <1>1, <1>3, <1>9, <2>1 DEF WrapTypeOK
<1>12. LinesFit'
  <2>1. Cardinality({k \in line : Glyph(k)}) <= margin
    <3>1. i - 1 \in Nat /\ line \subseteq front .. i - 1
      <4>1. \A k \in front .. at - 1 : k \in front .. i - 1
        BY <1>2, <1>6, SMT
      <4>2. QED
        BY <1>2, <1>7, <4>1, SMT
    <3>2. /\ Cardinality({k \in line : Glyph(k)}) \in Nat
          /\ Cardinality({k \in line : Glyph(k)}) <= cnt
      BY <1>2, <1>4, <3>1, GlyphCount DEF LineSoFar
    <3>3. QED
      BY <1>2, <3>2
  <2>2. \A l \in DOMAIN lines' : Cardinality({k \in lines'[l] : Glyph(k)}) <= margin
    BY <1>1, <1>9, <2>1 DEF LinesFit
  <2>3. \A S : {k \in S : Glyph(k)'} = {k \in S : Glyph(k)}
    BY <1>3 DEF Glyph
  <2>4. QED
    BY <1>3, <2>2 DEF LinesFit, Glyph
<1>13. LineSoFar'
  <2>1. front' .. i' - 1 = {}
    BY <1>3, <1>6, SMT
  <2>2. {k \in front .. i - 1 : Glyph(k)}' = {}
    BY <2>1
  <2>3. front' <= i'
    BY <1>3, <1>6, SMT
  <2>4. QED
    BY <1>3, <2>1, <2>2, <2>3, FS_EmptySet DEF LineSoFar
<1>14. LinesBefore'
  <2>1. \A k \in 1 .. front - 1 : k \in 1 .. next - 1
    BY <1>2, <1>6, SMT
  <2>2. \A k \in front .. at - 1 : k \in 1 .. next - 1
    BY <1>2, <1>6, SMT
  <2>3. QED
    BY <1>3, <1>7, <1>9, <1>10, <2>1, <2>2 DEF LinesBefore
<1>15. LinesInOrder'
  <2>1. \A j \in 1 .. front - 1, k \in front .. at - 1 : j < k
    BY <1>2, <1>6, SMT
  <2>2. ASSUME NEW a \in DOMAIN lines', NEW b \in DOMAIN lines', a < b,
               NEW j \in lines'[a], NEW k \in lines'[b]
        PROVE  j < k
    <3>1. a \in DOMAIN lines
      <4>1. ~ (w + 1 < w + 1) /\ \A l \in DOMAIN lines : ~ (w + 1 < l)
        BY <1>2, SMT DEF w
      <4>2. QED
        BY <1>9, <2>2, <4>1
    <3>2. CASE b \in DOMAIN lines
      BY <1>4, <1>9, <2>2, <3>1, <3>2 DEF LinesInOrder
    <3>3. CASE b = w + 1
      BY <1>7, <1>9, <1>10, <2>1, <2>2, <3>1, <3>3
    <3>4. QED
      BY <1>9, <3>2, <3>3
  <2>3. QED
    BY <2>2 DEF LinesInOrder
<1>16. Gone' \subseteq Gone \cup (IF at = next THEN {} ELSE {at})
  <2>1. SUFFICES ASSUME NEW k \in Gone', k \notin Gone
                 PROVE  at # next /\ k = at
    OBVIOUS
  <2>2. /\ k \in 1 .. next - 1 /\ text[k] # "SHY"
        /\ \A l \in DOMAIN lines' : k \notin lines'[l]
    BY <1>3, <2>1 DEF Gone
  <2>3. k \notin line /\ \A l \in DOMAIN lines : k \notin lines[l]
    BY <1>9, <2>2
  <2>4. k \notin 1 .. front - 1
    BY <2>1, <2>2, <2>3 DEF Gone
  <2>5. k \notin front .. at - 1
    BY <1>7, <2>2, <2>3
  <2>6. QED
    BY <1>2, <1>6, <2>2, <2>4, <2>5, SMT
<1>17. FewGone'
  <2>1. IsFiniteSet(Gone) /\ Cardinality(Gone) \in Nat /\ Cardinality(Gone) <= w
    <3>1. IsFiniteSet(1 .. front - 1)
      <4>1. 1 \in Int /\ front - 1 \in Int
        BY <1>2, SMT
      <4>2. QED
        BY <4>1, FS_Interval
    <3>2. Gone \subseteq 1 .. front - 1
      BY DEF Gone
    <3>3. QED
      BY <1>4, <3>1, <3>2, FS_Subset, FS_CardinalityType DEF FewGone, w
  <2>2. CASE at = next
    <3>1. Gone' \subseteq Gone
      BY <1>16, <2>2
    <3>2. Cardinality(Gone') \in Nat /\ Cardinality(Gone') <= Cardinality(Gone)
      BY <2>1, <3>1, FS_Subset, FS_CardinalityType
    <3>3. Cardinality(Gone') <= w + 1
      BY <1>2, <2>1, <3>2, SMT DEF w
    <3>4. QED
      BY <1>3, <1>4, <1>9, <3>1, <3>3 DEF FewGone
  <2>3. CASE at # next
    <3>1. Gone' \subseteq Gone \cup {at}
      BY <1>16, <2>3
    <3>2. /\ IsFiniteSet(Gone \cup {at})
          /\ Cardinality(Gone \cup {at}) \in Nat
          /\ Cardinality(Gone \cup {at}) <= Cardinality(Gone) + 1
      <4>1. /\ IsFiniteSet(Gone \cup {at})
            /\ Cardinality(Gone \cup {at}) = IF at \in Gone THEN Cardinality(Gone)
                                                            ELSE Cardinality(Gone) + 1
        BY <2>1, FS_AddElement
      <4>2. QED
        BY <2>1, <4>1, SMT
    <3>3. Cardinality(Gone') \in Nat /\ Cardinality(Gone') <= Cardinality(Gone \cup {at})
      BY <3>1, <3>2, FS_Subset, FS_CardinalityType
    <3>4. Cardinality(Gone') <= w + 1
      BY <1>2, <2>1, <3>2, <3>3, SMT DEF w
    <3>5. text[at] \in {"SPACE", "HYPHEN", "RESET"}
      BY <1>6, <2>3
    <3>6. QED
      BY <1>3, <1>4, <1>9, <3>1, <3>4, <3>5 DEF FewGone
  <2>4. QED
    BY <2>2, <2>3
<1>18. ResetsBreak'
  <2>1. SUFFICES ASSUME NEW k \in 1 .. next - 1, text[k] = "RESET",
                        NEW l \in DOMAIN lines', NEW a \in lines'[l], NEW b \in lines'[l]
                 PROVE  a # k /\ (a < k <=> b < k)
    BY <1>3 DEF ResetsBreak
  <2>2. CASE k \in 1 .. front - 1
    <3>1. CASE l \in DOMAIN lines
      BY <1>4, <1>9, <2>1, <2>2, <3>1 DEF ResetsBreak
    <3>2. CASE l = w + 1
      <4>1. a \in front .. at - 1 /\ b \in front .. at - 1
        BY <1>7, <1>9, <2>1, <3>2
      <4>2. QED
        BY <1>2, <1>6, <2>2, <4>1, SMT
    <3>3. QED
      BY <1>9, <3>1, <3>2
  <2>3. CASE k \in front .. next - 1
    <3>1. k = at
      BY <1>6, <2>1, <2>3
    <3>2. a \in 1 .. at - 1 /\ b \in 1 .. at - 1
      <4>1. \A j \in 1 .. front - 1 : j \in 1 .. at - 1
        BY <1>2, <1>6, SMT
      <4>2. \A j \in front .. at - 1 : j \in 1 .. at - 1
        BY <1>2, <1>6, SMT
      <4>3. QED
        BY <1>7, <1>9, <1>10, <2>1, <4>1, <4>2
    <3>3. QED
      BY <1>6, <3>1, <3>2, SMT
  <2>4. QED
    BY <1>2, <2>1, <2>2, <2>3, SMT
<1>19. front' > front
  BY <1>2, <1>3, <1>6, SMT
<1>20. QED
  BY <1>3, <1>11, <1>12, <1>13, <1>14, <1>15, <1>17, <1>18, <1>19
     DEF WrapIInv, Partial, MarkInLine, NothingDropped

\* A character is put on the line or breaks it.
LEMMA AdvanceIInv ==
  ASSUME WrapIInv, NEW class, Looking(class), NEW m, NEW glyphs, Advance(m, glyphs),
         glyphs = IF class = "RESET" THEN margin + 1
                  ELSE IF class \in {"SPACE", "HYPHEN", "CHAR"} THEN cnt + 1 ELSE cnt,
         \/ m = mark /\ class \notin {"SPACE", "HYPHEN", "RESET"}
         \/ m = After /\ glyphs <= margin
         \/ m = Before /\ (class \in {"SPACE", "RESET"} \/ (class = "HYPHEN" /\ cnt + 1 > margin))
  PROVE  WrapIInv' /\ ProgressStep
<1>1. WrapTypeOK /\ cnt \in Nat /\ margin \in Nat /\ margin >= 1 /\ cnt <= margin /\ i \in Nat
  BY WrapTypes DEF WrapIInv
<1>2. glyphs \in Nat
  BY <1>1
<1>3. CASE glyphs > margin
  <2>1. BreakLine(m)
    BY <1>3 DEF Advance
  <2>2. cnt >= 1 \/ class = "RESET"
    BY <1>1, <1>3, SMT
  <2>3. m # After \/ m = mark \/ m = Before
    BY <1>1, <1>2, <1>3, SMT
  <2>4. \/ m # NoMark /\ mark # NoMark /\ m = mark /\ class # "RESET"
        \/ m = Before /\ class \in {"SPACE", "HYPHEN", "RESET"}
        \/ m = NoMark /\ class # "RESET" /\ cnt >= 1
    BY <1>1, <1>2, <1>3, <2>2, SMT
  <2>5. WrapIInv' /\ front' > front
    BY <2>1, <2>4, BreakIInv
  <2>6. QED
    BY <2>5 DEF ProgressStep
<1>4. CASE ~ (glyphs > margin)
  <2>1. GoOn(m, glyphs) /\ glyphs <= margin
    BY <1>1, <1>2, <1>4, SMT DEF Advance
  <2>2. class # "RESET"
    BY <1>1, <1>4, SMT
  <2>3. glyphs = IF class \in {"SPACE", "HYPHEN", "CHAR"} THEN cnt + 1 ELSE cnt
    BY <2>2
  <2>4. m # NoMark => \/ mark # NoMark /\ m = mark
                      \/ m = After
                      \/ class = "SPACE" /\ m = Before
    BY <1>1, <1>2, <1>4, <2>2, <2>3, SMT
  <2>5. WrapIInv'
    BY <2>1, <2>2, <2>3, <2>4, GoOnIInv
  <2>6. front' = front /\ i' > i
    BY <1>1, <2>1, SMT DEF GoOn
  <2>7. QED
    BY <2>5, <2>6 DEF ProgressStep
<1>5. QED
  BY <1>3, <1>4

\* The last line.
LEMMA EndIInv ==
  ASSUME WrapIInv, LastLine
  PROVE  WrapIInv' /\ ProgressStep
<1> DEFINE n    == Len(text)
           w    == Len(lines)
           line == RemShy(front, i)
<1>1. WrapTypeOK /\ LinesFit /\ Partial
  BY DEF WrapIInv, LastLine
<1>2. /\ n \in Nat /\ DOMAIN text = 1 .. n /\ margin \in Nat
      /\ front \in Nat /\ cnt \in Nat /\ 1 <= front /\ i = n + 1 /\ front <= i /\ cnt <= margin
      /\ w \in Nat /\ DOMAIN lines = 1 .. w
  BY <1>1, WrapTypes, SMT DEF LastLine, Partial, LineSoFar
<1>3. /\ text' = text /\ margin' = margin /\ i' = i /\ front' = front /\ cnt' = cnt
      /\ mark' = mark /\ lines' = Append(lines, line) /\ wrapped' = "yes"
  BY DEF LastLine
<1>4. LineSoFar /\ LinesBefore /\ LinesInOrder /\ FewGone /\ ResetsBreak
  BY <1>1 DEF Partial
<1>5. front .. i - 1 \subseteq 1 .. n /\ i - 1 = n
  BY <1>2, SMT
<1>6. /\ line \subseteq front .. n
      /\ \A k \in front .. n : text[k] # "SHY" => k \in line
  BY <1>5 DEF RemShy
<1>7. line \subseteq DOMAIN text
  BY <1>2, <1>5, <1>6
<1> HIDE DEF line
<1>8. /\ lines' \in Seq(SUBSET DOMAIN text) /\ Len(lines') = w + 1
      /\ DOMAIN lines' = DOMAIN lines \cup {w + 1}
      /\ w + 1 \notin DOMAIN lines
      /\ lines'[w + 1] = line
      /\ \A l \in DOMAIN lines : lines'[l] = lines[l] /\ l < w + 1
  BY <1>1, <1>3, <1>7, OneMoreLine
<1> HIDE DEF w
<1>9. \A l \in DOMAIN lines : lines[l] \subseteq 1 .. front - 1
  BY <1>4 DEF LinesBefore
<1>10. WrapTypeOK'
  BY <1>1, <1>3, <1>8 DEF WrapTypeOK
<1>11. LinesFit'
  <2>1. /\ Cardinality({k \in line : Glyph(k)}) \in Nat
        /\ Cardinality({k \in line : Glyph(k)}) <= cnt
    BY <1>2, <1>4, <1>5, <1>6, GlyphCount DEF LineSoFar
  <2>2. Cardinality({k \in line : Glyph(k)}) <= margin
    BY <1>2, <2>1
  <2>3. \A l \in DOMAIN lines' : Cardinality({k \in lines'[l] : Glyph(k)}) <= margin
    BY <1>1, <1>8, <2>2 DEF LinesFit
  <2>4. QED
    BY <1>3, <2>3 DEF LinesFit, Glyph
<1>12. LinesInOrder'
  <2>1. \A j \in 1 .. front - 1, k \in front .. n : j < k
    BY <1>2, SMT
  <2>2. ASSUME NEW a \in DOMAIN lines', NEW b \in DOMAIN lines', a < b,
               NEW j \in lines'[a], NEW k \in lines'[b]
        PROVE  j < k
    <3>1. a \in DOMAIN lines
      <4>1. ~ (w + 1 < w + 1) /\ \A l \in DOMAIN lines : ~ (w + 1 < l)
        BY <1>2, SMT DEF w
      <4>2. QED
        BY <1>8, <2>2, <4>1
    <3>2. CASE b \in DOMAIN lines
      BY <1>4, <1>8, <2>2, <3>1, <3>2 DEF LinesInOrder
    <3>3. CASE b = w + 1
      BY <1>6, <1>8, <1>9, <2>1, <2>2, <3>1, <3>3
    <3>4. QED
      BY <1>8, <3>2, <3>3
  <2>3. QED
    BY <2>2 DEF LinesInOrder
<1>13. Missing' \subseteq Gone
  <2>1. SUFFICES ASSUME NEW k \in Missing' PROVE k \in Gone
    OBVIOUS
  <2>2. /\ k \in 1 .. n /\ text[k] # "SHY"
        /\ \A l \in DOMAIN lines' : k \notin lines'[l]
    BY <1>2, <1>3, <2>1 DEF Missing
  <2>3. k \notin line /\ \A l \in DOMAIN lines : k \notin lines[l]
    BY <1>8, <2>2
  <2>4. k \notin front .. n
    BY <1>6, <2>2, <2>3
  <2>5. k \in 1 .. front - 1
    BY <1>2, <2>2, <2>4, SMT
  <2>6. QED
    BY <2>2, <2>3, <2>5 DEF Gone
<1>14. Cardinality(Missing') < Len(lines')
  <2>1. IsFiniteSet(Gone) /\ Cardinality(Gone) \in Nat /\ Cardinality(Gone) <= w
    <3>1. IsFiniteSet(1 .. front - 1)
      <4>1. 1 \in Int /\ front - 1 \in Int
        BY <1>2, SMT
      <4>2. QED
        BY <4>1, FS_Interval
    <3>2. Gone \subseteq 1 .. front - 1
      BY DEF Gone
    <3>3. QED
      BY <1>4, <3>1, <3>2, FS_Subset, FS_CardinalityType DEF FewGone, w
  <2>2. Cardinality(Missing') \in Nat /\ Cardinality(Missing') <= Cardinality(Gone)
    BY <1>13, <2>1, FS_Subset, FS_CardinalityType
  <2>3. QED
    BY <1>2, <1>8, <2>1, <2>2, SMT DEF w
<1>15. ASSUME NEW k \in 1 .. n, text[k] = "RESET",
              NEW l \in DOMAIN lines', NEW a \in lines'[l], NEW b \in lines'[l]
       PROVE  a # k /\ (a < k <=> b < k)
  <2>1. k \in 1 .. front - 1
    <3>1. k \notin front .. i - 1
      BY <1>4, <1>15 DEF LineSoFar
    <3>2. QED
      BY <1>2, <1>15, <3>1, SMT
  <2>2. CASE l \in DOMAIN lines
    BY <1>4, <1>8, <1>15, <2>1, <2>2 DEF ResetsBreak
  <2>3. CASE l = w + 1
    <3>1. a \in front .. n /\ b \in front .. n
      BY <1>6, <1>8, <1>15, <2>3
    <3>2. QED
      BY <1>2, <2>1, <3>1, SMT
  <2>4. QED
    BY <1>8, <2>2, <2>3
<1>16. NothingDropped'
  <2>1. \A k \in Missing' : text'[k] \in {"SPACE", "HYPHEN", "RESET"}
    BY <1>3, <1>4, <1>13 DEF FewGone
  <2>2. DOMAIN text' = 1 .. n
    BY <1>2, <1>3
  <2>3. QED
    BY <1>3, <1>12, <1>14, <1>15, <2>1, <2>2 DEF NothingDropped
<1>17. QED
  BY <1>3, <1>10, <1>11, <1>16 DEF WrapIInv, ProgressStep

\* Each action keeps the invariant and makes progress: one step per action.
LEMMA WrapNextIInv == WrapIInv /\ WrapNext => WrapIInv' /\ ProgressStep
<1> SUFFICES ASSUME WrapIInv, WrapNext PROVE WrapIInv' /\ ProgressStep
  OBVIOUS
<1>1. cnt \in Nat /\ margin \in Nat /\ cnt <= margin
  BY WrapTypes DEF WrapIInv
<1>2. CASE AtSpace
  BY <1>1, <1>2, AdvanceIInv DEF AtSpace
<1>3. CASE AtCombining
  BY <1>1, <1>3, AdvanceIInv DEF AtCombining
<1>4. CASE AtShy
  <2>1. CASE cnt < margin
    <3>1. Looking("SHY") /\ Advance(After, cnt) /\ cnt <= margin
      BY <1>1, <1>4, <2>1 DEF AtShy
    <3>2. QED
      BY <3>1, AdvanceIInv
  <2>2. CASE ~ (cnt < margin)
    <3>1. Looking("SHY") /\ Advance(mark, cnt)
      BY <1>4, <2>2 DEF AtShy
    <3>2. QED
      BY <3>1, AdvanceIInv
  <2>3. QED
    BY <2>1, <2>2
<1>5. CASE AtHyphen
  <2>1. CASE cnt < margin
    <3>1. Looking("HYPHEN") /\ Advance(After, cnt + 1) /\ cnt + 1 <= margin
      BY <1>1, <1>5, <2>1 DEF AtHyphen
    <3>2. QED
      BY <3>1, AdvanceIInv
  <2>2. CASE ~ (cnt < margin)
    <3>1. Looking("HYPHEN") /\ Advance(Before, cnt + 1) /\ cnt + 1 > margin
      BY <1>1, <1>5, <2>2 DEF AtHyphen
    <3>2. QED
      BY <3>1, AdvanceIInv
  <2>3. QED
    BY <2>1, <2>2
<1>6. CASE AtReset
  BY <1>1, <1>6, AdvanceIInv DEF AtReset
<1>7. CASE AtChar
  BY <1>1, <1>7, AdvanceIInv DEF AtChar
<1>8. CASE AtBad
  <2>1. /\ UNCHANGED <<text, margin, i, front, cnt, mark, lines>>
        /\ wrapped = "no" /\ wrapped' = "error"
    BY <1>8 DEF AtBad
  <2>2. Gone' = Gone
    BY <2>1 DEF Gone
  <2>3. Partial
    BY <2>1 DEF WrapIInv
  <2>4. Partial'
    BY <2>1, <2>2, <2>3
       DEF Partial, LineSoFar, Glyph, MarkInLine, Breakable, LinesBefore, LinesInOrder,
           FewGone, ResetsBreak
  <2>5. WrapTypeOK' /\ LinesFit' /\ NothingDropped'
    BY <2>1 DEF WrapIInv, WrapTypeOK, LinesFit, Glyph, NothingDropped
  <2>6. QED
    BY <2>1, <2>4, <2>5 DEF WrapIInv, ProgressStep
<1>9. CASE LastLine
  BY <1>9, EndIInv
<1>10. QED
  BY <1>2, <1>3, <1>4, <1>5, <1>6, <1>7, <1>8, <1>9 DEF WrapNext

LEMMA WrapStutter ==
  ASSUME WrapIInv, UNCHANGED wrapVars
  PROVE  WrapIInv'
<1>1. UNCHANGED <<text, margin, i, front, cnt, mark, lines, wrapped>>
  BY DEF wrapVars
<1>2. Gone' = Gone /\ Missing' = Missing
  BY <1>1 DEF Gone, Missing
<1>3. WrapTypeOK' /\ LinesFit'
  BY <1>1 DEF WrapIInv, WrapTypeOK, LinesFit, Glyph
<1>4. NothingDropped'
  BY <1>1, <1>2 DEF WrapIInv, NothingDropped, LinesInOrder
<1>5. wrapped' # "yes" => Partial'
  BY <1>1, <1>2
     DEF WrapIInv, Partial, LineSoFar, Glyph, MarkInLine, Breakable, LinesBefore,
         LinesInOrder, FewGone, ResetsBreak
<1>6. QED
  BY <1>3, <1>4, <1>5 DEF WrapIInv

\* The invariant holds however the text is made up.
THEOREM WrapInvariance == WrapSpec => []WrapIInv
<1>1. WrapIInv /\ [WrapNext]_wrapVars => WrapIInv'
  BY WrapNextIInv, WrapStutter
<1>2. QED
  BY WrapInitIInv, <1>1, PTL DEF WrapSpec

\* No line of strcore_wrapt() has more glyphs than the margin allows, whatever
\* the text and the margin.
THEOREM EveryLineFits == WrapSpec => []LinesFit
<1>1. WrapIInv => LinesFit
  BY DEF WrapIInv
<1>2. QED
  BY <1>1, WrapInvariance, PTL

\* What strcore_wrapt() returns has all there is to be seen of the text, once
\* and in order, but for a space, a hyphen or a new-line character for each
\* break, and is broken at every new-line character.
THEOREM TextKept == WrapSpec => []NothingDropped
<1>1. WrapIInv => NothingDropped
  BY DEF WrapIInv
<1>2. QED
  BY <1>1, WrapInvariance, PTL

\* The loop of strcore_wrapt() never goes back to where a line began: between
\* two breaks it goes on through the text, and a break is behind the last one.
THEOREM LoopProgress == WrapSpec => Progress
<1>1. WrapIInv /\ [WrapNext]_wrapVars => [ProgressStep]_wrapVars
  BY WrapNextIInv
<1>2. QED
  BY WrapInvariance, <1>1, PTL DEF WrapSpec, Progress
-----------------------------------------------------------------------------
(* base64: what the proofs need of numbers.                                 *)

\* Of some numbers one is the lowest.
LEMMA LowestOf == ASSUME NEW S \in SUBSET Nat, S # {}
                  PROVE  \E n \in S : \A m \in S : n <= m
<1> DEFINE R == {ss \in Nat \X Nat : ss[1] < ss[2]}
<1>1. R = OpToRel(<, Nat)
  BY Zenon DEF OpToRel
<1>2. PICK n \in S : \A m \in S : ~ (<<m, n>> \in R)
  <2>1. IsWellFoundedOn(R, Nat)
    BY <1>1, NatLessThanWellFounded
  <2> QED
    BY <2>1, WFMin
<1>3. \A m \in S : n <= m
  <2> SUFFICES ASSUME NEW m \in S PROVE n <= m
    OBVIOUS
  <2>1. m \in Nat /\ n \in Nat
    OBVIOUS
  <2>2. m < n => <<m, n>> \in R
    BY <2>1
  <2>3. ~ (m < n)
    BY <1>2, <2>2
  <2> QED
    BY <2>1, <2>3
<1> QED
  BY <1>3
-----------------------------------------------------------------------------
(* Bytes and digits.                                                        *)

\* A group of digits in terms of its places.
LEMMA DigitsOf ==
  ASSUME NEW a \in Byte, NEW b \in Byte, NEW c \in Byte
  PROVE  /\ Digits(a, b, c) \in [1 .. 4 -> Digit]
         /\ Digits(a, b, c)[1] = a \div 4
         /\ Digits(a, b, c)[2] = (a % 4) * 16 + b \div 16
         /\ Digits(a, b, c)[3] = (b % 16) * 4 + c \div 64
         /\ Digits(a, b, c)[4] = c % 64
         /\ Len(Digits(a, b, c)) = 4 /\ Digits(a, b, c) \in Seq(Digit)
<1>1. /\ a \div 4 \in Digit /\ (a % 4) * 16 + b \div 16 \in Digit
      /\ (b % 16) * 4 + c \div 64 \in Digit /\ c % 64 \in Digit
  BY SMT DEF Byte, Digit
<1>2. QED
  BY <1>1 DEF Digits

\* What is or-ed has no bits in common.
LEMMA OrOfTwo ==
  ASSUME NEW x \in 0 .. 63, NEW y \in 0 .. 3
  PROVE  BitOr((x * 4) % 256, y) = x * 4 + y
BY SMT DEF BitOr

LEMMA OrOfFour ==
  ASSUME NEW x \in 0 .. 63, NEW y \in 0 .. 15
  PROVE  BitOr((x * 16) % 256, y) = (x % 16) * 16 + y
BY SMT DEF BitOr

LEMMA OrOfSix ==
  ASSUME NEW x \in 0 .. 63, NEW y \in 0 .. 63
  PROVE  BitOr((x * 64) % 256, y) = (x % 4) * 64 + y
BY SMT DEF BitOr

\* A byte is had of any others.
LEMMA OrIsByte ==
  ASSUME NEW m \in Nat, NEW n \in Nat
  PROVE  BitOr(m, n) \in Byte
BY SMT DEF BitOr, Byte

\* Three bytes go through four digits and back, ...
LEMMA BytesBack ==
  ASSUME NEW a \in Byte, NEW b \in Byte, NEW c \in Byte,
         NEW d1, NEW d2, NEW d3, NEW d4,
         d1 = Digits(a, b, c)[1], d2 = Digits(a, b, c)[2],
         d3 = Digits(a, b, c)[3], d4 = Digits(a, b, c)[4]
  PROVE  /\ BitOr((d1 * 4) % 256, d2 \div 16) = a
         /\ BitOr((d2 * 16) % 256, d3 \div 4) = b
         /\ BitOr((d3 * 64) % 256, d4) = c
<1>1. /\ d1 = a \div 4 /\ d2 = (a % 4) * 16 + b \div 16
      /\ d3 = (b % 16) * 4 + c \div 64 /\ d4 = c % 64
  BY DigitsOf
<1>2. /\ d1 \in 0 .. 63 /\ d2 \in 0 .. 63 /\ d3 \in 0 .. 63 /\ d4 \in 0 .. 63
      /\ d2 \div 16 \in 0 .. 3 /\ d3 \div 4 \in 0 .. 15
  BY <1>1, SMT DEF Byte
<1>3. d1 * 4 + d2 \div 16 = a
  BY <1>1, SMT DEF Byte
<1>4. (d2 % 16) * 16 + d3 \div 4 = b
  BY <1>1, SMT DEF Byte
<1>5. (d3 % 4) * 64 + d4 = c
  BY <1>1, SMT DEF Byte
<1>6. BitOr((d1 * 4) % 256, d2 \div 16) = d1 * 4 + d2 \div 16
  BY <1>2, OrOfTwo
<1>7. BitOr((d2 * 16) % 256, d3 \div 4) = (d2 % 16) * 16 + d3 \div 4
  BY <1>2, OrOfFour
<1>8. BitOr((d3 * 64) % 256, d4) = (d3 % 4) * 64 + d4
  BY <1>2, OrOfSix
<1>9. QED
  BY <1>3, <1>4, <1>5, <1>6, <1>7, <1>8

\* ... and four digits through three bytes.
LEMMA DigitsBack ==
  ASSUME NEW q, q[1] \in Digit, q[2] \in Digit, q[3] \in Digit, q[4] \in Digit
  PROVE  LET a == BitOr((q[1] * 4) % 256, q[2] \div 16)
             b == BitOr((q[2] * 16) % 256, q[3] \div 4)
             c == BitOr((q[3] * 64) % 256, q[4])
         IN /\ a \in Byte /\ b \in Byte /\ c \in Byte
            /\ Digits(a, b, c)[1] = q[1] /\ Digits(a, b, c)[2] = q[2]
            /\ Digits(a, b, c)[3] = q[3] /\ Digits(a, b, c)[4] = q[4]
<1> DEFINE a == BitOr((q[1] * 4) % 256, q[2] \div 16)
           b == BitOr((q[2] * 16) % 256, q[3] \div 4)
           c == BitOr((q[3] * 64) % 256, q[4])
<1>1. PICK d1, d2, d3, d4 \in 0 .. 63 : q[1] = d1 /\ q[2] = d2 /\ q[3] = d3 /\ q[4] = d4
  BY DEF Digit
<1>2. d2 \div 16 \in 0 .. 3 /\ d3 \div 4 \in 0 .. 15
  BY SMT
<1>3. a = d1 * 4 + d2 \div 16 /\ b = (d2 % 16) * 16 + d3 \div 4 /\ c = (d3 % 4) * 64 + d4
  BY <1>1, <1>2, OrOfTwo, OrOfFour, OrOfSix
<1> HIDE DEF a, b, c
<1>4. a \in Byte /\ b \in Byte /\ c \in Byte
  BY <1>3, SMT DEF Byte
<1>5. /\ a \div 4 = d1 /\ (a % 4) * 16 + b \div 16 = d2
      /\ (b % 16) * 4 + c \div 64 = d3 /\ c % 64 = d4
  BY <1>3, SMT
<1>6. /\ Digits(a, b, c)[1] = d1 /\ Digits(a, b, c)[2] = d2
      /\ Digits(a, b, c)[3] = d3 /\ Digits(a, b, c)[4] = d4
  BY <1>4, <1>5, DigitsOf
<1>7. QED
  BY <1>1, <1>4, <1>6 DEF a, b, c

\* The digits of the group behind g groups.
ByteAt(bytes, n) == IF n <= Len(bytes) THEN bytes[n] ELSE 0

GroupOf(bytes, g) == Digits(ByteAt(bytes, 3 * g + 1), ByteAt(bytes, 3 * g + 2), ByteAt(bytes, 3 * g + 3))

LEMMA ByteAtType ==
  ASSUME NEW bytes \in Seq(Byte), NEW n \in Nat, n >= 1
  PROVE  ByteAt(bytes, n) \in Byte
<1>1. CASE n <= Len(bytes)
  <2>1. n \in 1 .. Len(bytes)
    BY <1>1, SMT
  <2>2. QED
    BY <2>1 DEF ByteAt
<1>2. CASE ~ (n <= Len(bytes))
  BY <1>2, SMT DEF ByteAt, Byte
<1>3. QED
  BY <1>1, <1>2

LEMMA DigitPlaces ==
  ASSUME NEW bytes \in Seq(Byte), NEW g \in Nat, NEW j \in 1 .. 4
  PROVE  /\ DigitOf(bytes, 4 * g + j) = GroupOf(bytes, g)[j]
         /\ GroupOf(bytes, g)[j] \in Digit
<1>1. (4 * g + j - 1) \div 4 = g /\ ((4 * g + j - 1) % 4) + 1 = j
  BY SMT
<1>2. DigitOf(bytes, 4 * g + j) = GroupOf(bytes, g)[j]
  BY <1>1 DEF DigitOf, GroupOf, ByteAt
<1>3. /\ ByteAt(bytes, 3 * g + 1) \in Byte /\ ByteAt(bytes, 3 * g + 2) \in Byte
      /\ ByteAt(bytes, 3 * g + 3) \in Byte
  BY ByteAtType
<1>4. QED
  BY <1>2, <1>3, DigitsOf DEF GroupOf

\* Every place of digits is in some group.
LEMMA PlaceInGroup ==
  ASSUME NEW k \in Nat, k >= 1
  PROVE  \E g \in Nat, j \in 1 .. 4 : k = 4 * g + j
<1>1. (k - 1) \div 4 \in Nat /\ ((k - 1) % 4) + 1 \in 1 .. 4
      /\ k = 4 * ((k - 1) \div 4) + (((k - 1) % 4) + 1)
  BY SMT
<1>2. QED
  BY <1>1

LEMMA DigitOfType ==
  ASSUME NEW bytes \in Seq(Byte), NEW k \in Nat, k >= 1
  PROVE  DigitOf(bytes, k) \in Digit
<1>1. PICK g \in Nat, j \in 1 .. 4 : k = 4 * g + j
  BY PlaceInGroup
<1>2. QED
  BY <1>1, DigitPlaces

\* How many digits there are, and pads with them.
LEMMA Counts ==
  ASSUME NEW bytes \in Seq(Byte)
  PROVE  /\ Len(bytes) \in Nat /\ DigitCount(bytes) \in Nat /\ PaddedLength(bytes) \in Nat
         /\ DigitCount(bytes) = (4 * Len(bytes) + 2) \div 3
         /\ PaddedLength(bytes) = 4 * ((Len(bytes) + 2) \div 3)
BY SMT DEF DigitCount, PaddedLength
-----------------------------------------------------------------------------
(* Symbols of a text.                                                       *)

LEMMA SymbolsStep ==
  ASSUME NEW s, NEW k \in Nat
  PROVE  /\ SymbolsIn(s, k) \in Nat
         /\ SymbolsIn(s, k + 1) = IF s[k + 1] # LineEnd THEN SymbolsIn(s, k) + 1 ELSE SymbolsIn(s, k)
<1> DEFINE upto(n) == {j \in 1 .. n : s[j] # LineEnd}
<1>1. IsFiniteSet(1 .. k) /\ upto(k) \subseteq 1 .. k
  BY FS_Interval
<1>2. IsFiniteSet(upto(k)) /\ Cardinality(upto(k)) \in Nat
  BY <1>1, FS_Subset, FS_CardinalityType
<1>3. 1 .. k + 1 = (1 .. k) \cup {k + 1} /\ k + 1 \notin 1 .. k
  BY SMT
<1>4. CASE s[k + 1] # LineEnd
  <2>1. upto(k + 1) = upto(k) \cup {k + 1} /\ k + 1 \notin upto(k)
    BY <1>3, <1>4
  <2>2. Cardinality(upto(k) \cup {k + 1}) = Cardinality(upto(k)) + 1
    BY <1>2, <2>1, FS_AddElement
  <2>3. QED
    BY <1>2, <1>4, <2>1, <2>2 DEF SymbolsIn
<1>5. CASE s[k + 1] = LineEnd
  <2>1. upto(k + 1) = upto(k)
    BY <1>3, <1>5
  <2>2. QED
    BY <1>2, <1>5, <2>1 DEF SymbolsIn
<1>6. QED
  BY <1>4, <1>5

LEMMA SymbolsNone == ASSUME NEW s PROVE SymbolsIn(s, 0) = 0
<1>1. {j \in 1 .. 0 : s[j] # LineEnd} = {}
  BY SMT
<1>2. QED
  BY <1>1, FS_EmptySet DEF SymbolsIn

LEMMA SymbolsGrow ==
  ASSUME NEW s, NEW k \in Nat, NEW n \in Nat, k <= n
  PROVE  SymbolsIn(s, k) <= SymbolsIn(s, n)
<1> DEFINE upto(m) == {j \in 1 .. m : s[j] # LineEnd}
<1>1. IsFiniteSet(1 .. n) /\ upto(n) \subseteq 1 .. n
  BY FS_Interval
<1>2. IsFiniteSet(upto(n))
  BY <1>1, FS_Subset
<1>3. \A j \in 1 .. k : j \in 1 .. n
  BY SMT
<1>4. upto(k) \subseteq upto(n)
  BY <1>3
<1>5. QED
  BY <1>2, <1>4, FS_Subset DEF SymbolsIn

\* Between two places there are line ends only.
LEMMA SymbolsStay ==
  ASSUME NEW s, NEW k \in Nat, NEW n \in Nat, k <= n,
         \A j \in k + 1 .. n : s[j] = LineEnd
  PROVE  SymbolsIn(s, n) = SymbolsIn(s, k)
<1>1. \A j \in 1 .. k : j \in 1 .. n
  BY SMT
<1>2. \A j \in 1 .. n : j \in 1 .. k \/ j \in k + 1 .. n
  BY SMT
<1>3. {j \in 1 .. n : s[j] # LineEnd} = {j \in 1 .. k : s[j] # LineEnd}
  BY <1>1, <1>2
<1>4. QED
  BY <1>3 DEF SymbolsIn

\* A text of which another is the beginning.
LEMMA SymbolsSame ==
  ASSUME NEW s, NEW t, NEW k \in Nat, \A j \in 1 .. k : s[j] = t[j]
  PROVE  SymbolsIn(s, k) = SymbolsIn(t, k)
<1>1. {j \in 1 .. k : s[j] # LineEnd} = {j \in 1 .. k : t[j] # LineEnd}
  OBVIOUS
<1>2. QED
  BY <1>1 DEF SymbolsIn

\* One symbol or line end more is the next one of what is spelt.
LEMMA SpellsMore ==
  ASSUME NEW bytes, NEW s \in Seq(Symbol), Spells(s, bytes), NEW x \in Symbol,
         x # LineEnd => x = SymbolOf(bytes, SymbolsIn(s, Len(s)) + 1)
  PROVE  LET t == Append(s, x)
         IN /\ Spells(t, bytes) /\ t \in Seq(Symbol) /\ Len(t) = Len(s) + 1 /\ t[Len(t)] = x
            /\ SymbolsIn(t, Len(t)) = IF x # LineEnd THEN SymbolsIn(s, Len(s)) + 1
                                                     ELSE SymbolsIn(s, Len(s))
            /\ (\E k \in DOMAIN t : t[k] = LineEnd) => x = LineEnd \/ \E k \in DOMAIN s : s[k] = LineEnd
<1> DEFINE t == Append(s, x)
           n == Len(s)
<1>1. /\ n \in Nat /\ DOMAIN s = 1 .. n /\ t \in Seq(Symbol) /\ Len(t) = n + 1
      /\ DOMAIN t = 1 .. n + 1 /\ t[n + 1] = x /\ \A j \in 1 .. n : t[j] = s[j]
  BY AppendProperties
<1> HIDE DEF t, n
<1>2. ASSUME NEW k \in 1 .. n PROVE SymbolsIn(t, k) = SymbolsIn(s, k)
  <2>1. k \in Nat /\ \A j \in 1 .. k : j \in 1 .. n
    BY <1>1, <1>2, SMT
  <2>2. \A j \in 1 .. k : s[j] = t[j]
    BY <1>1, <2>1
  <2>3. QED
    BY <2>1, <2>2, SymbolsSame
<1>3. SymbolsIn(t, n) = SymbolsIn(s, n)
  BY <1>1, SymbolsSame
<1>4. SymbolsIn(t, n + 1) = IF x # LineEnd THEN SymbolsIn(s, n) + 1 ELSE SymbolsIn(s, n)
  BY <1>1, <1>3, SymbolsStep
<1>5. \A k \in 1 .. n + 1 : k \in 1 .. n \/ k = n + 1
  BY <1>1, SMT
<1>6. Spells(t, bytes)
  <2>1. SUFFICES ASSUME NEW k \in 1 .. n + 1, t[k] # LineEnd
                 PROVE  t[k] = SymbolOf(bytes, SymbolsIn(t, k))
    BY <1>1 DEF Spells
  <2>2. CASE k \in 1 .. n
    BY <1>1, <1>2, <2>1, <2>2 DEF Spells
  <2>3. CASE k = n + 1
    BY <1>1, <1>4, <2>1, <2>3 DEF n
  <2>4. QED
    BY <1>5, <2>2, <2>3
<1>7. QED
  BY <1>1, <1>4, <1>5, <1>6 DEF t, n

\* Where Ib64_readout() finds something.
LEMMA FoundPlace ==
  ASSUME pos \in Nat, Len(coded) \in Nat, pos <= Len(coded) + 1
  PROVE  /\ Found \in pos .. Len(coded) + 1
         /\ \A j \in pos .. Found - 1 : Skipped(j)
         /\ Found <= Len(coded) => ~ Skipped(Found)
<1> DEFINE S == {k \in pos .. Len(coded) + 1 : k <= Len(coded) => ~ Skipped(k)}
<1>1. Len(coded) + 1 \in S
  BY SMT
<1>2. S \in SUBSET Nat
  BY SMT
<1>3. PICK k \in S : \A m \in S : k <= m
  <2> HIDE DEF S
  <2>1. QED
    BY <1>1, <1>2, LowestOf
<1>4. k \in pos .. Len(coded) + 1 /\ (k <= Len(coded) => ~ Skipped(k))
  BY <1>3
<1>5. ASSUME NEW j \in pos .. k - 1 PROVE Skipped(j)
  <2>1. j \in Nat /\ j \in pos .. Len(coded) + 1 /\ ~ (k <= j)
    BY <1>4, <1>5, SMT
  <2>2. j \notin S
    BY <1>3, <2>1
  <2>3. QED
    BY <2>1, <2>2
<1>6. \E n \in pos .. Len(coded) + 1 : /\ \A j \in pos .. n - 1 : Skipped(j)
                                       /\ n <= Len(coded) => ~ Skipped(n)
  BY <1>4, <1>5
<1>7. QED
  BY <1>6 DEF Found
-----------------------------------------------------------------------------
(* encode().                                                                *)

\* The state when nothing has been decoded.
LEMMA NothingDecoded ==
  ASSUME message \in Seq(Byte), pos = 1, quad = << >>, skip = 0, out = << >>
  PROVE  DecodedPart
<1>1. Len(out) = 0 /\ Len(quad) = 0 /\ DOMAIN out = {} /\ DOMAIN quad = {}
  OBVIOUS
<1>2. 0 \div 3 = 0 /\ 0 % 3 = 0 /\ 1 - 1 = 0 /\ Len(quad) - skip = 0
  BY <1>1, SMT
<1>3. DigitCount(message) \in Nat /\ Len(message) \in Nat
  BY Counts
<1>4. SymbolsIn(coded, 0) = 0
  BY SymbolsNone
<1>5. QED
  BY <1>1, <1>2, <1>3, <1>4, SMT DEF DecodedPart

LEMMA AppendTwo ==
  ASSUME NEW s \in Seq(Symbol), NEW x1 \in Symbol, NEW x2 \in Symbol
  PROVE  s \o <<x1, x2>> = Append(Append(s, x1), x2)
<1>1. <<x1, x2>> = <<x1>> \o <<x2>> /\ <<x1>> \in Seq(Symbol) /\ <<x2>> \in Seq(Symbol)
  <2>1. /\ <<x1>> \in Seq(Symbol) /\ <<x2>> \in Seq(Symbol) /\ <<x1, x2>> \in Seq(Symbol)
        /\ Len(<<x1>>) = 1 /\ Len(<<x2>>) = 1 /\ Len(<<x1, x2>>) = 2
    OBVIOUS
  <2>2. /\ <<x1>> \o <<x2>> \in Seq(Symbol) /\ Len(<<x1>> \o <<x2>>) = 2
        /\ (<<x1>> \o <<x2>>)[1] = x1 /\ (<<x1>> \o <<x2>>)[2] = x2
    BY <2>1, ConcatProperties
  <2>3. \A k \in 1 .. 2 : <<x1, x2>>[k] = (<<x1>> \o <<x2>>)[k]
    BY <2>2, \A k \in 1 .. 2 : k = 1 \/ k = 2
  <2>4. QED
    BY <2>1, <2>2, <2>3, SeqEqual
<1>2. s \o (<<x1>> \o <<x2>>) = (s \o <<x1>>) \o <<x2>>
  BY <1>1, ConcatAssociative
<1>3. Append(s, x1) \in Seq(Symbol) /\ Append(s, x1) = s \o <<x1>>
  BY AppendIsConcat, AppendProperties
<1>4. Append(Append(s, x1), x2) = Append(s, x1) \o <<x2>>
  BY <1>3, AppendIsConcat
<1>5. QED
  BY <1>1, <1>2, <1>3, <1>4

LEMMA AppendThree ==
  ASSUME NEW s \in Seq(Symbol), NEW x1 \in Symbol, NEW x2 \in Symbol, NEW x3 \in Symbol
  PROVE  s \o <<x1, x2, x3>> = Append(Append(Append(s, x1), x2), x3)
<1>1. <<x1, x2, x3>> = <<x1, x2>> \o <<x3>> /\ <<x1, x2>> \in Seq(Symbol) /\ <<x3>> \in Seq(Symbol)
  OBVIOUS
<1>2. s \o (<<x1, x2>> \o <<x3>>) = (s \o <<x1, x2>>) \o <<x3>>
  BY <1>1, ConcatAssociative
<1>3. Append(Append(s, x1), x2) \in Seq(Symbol)
  BY AppendProperties
<1>4. Append(Append(Append(s, x1), x2), x3) = Append(Append(s, x1), x2) \o <<x3>>
  BY <1>3, AppendIsConcat
<1>5. QED
  BY <1>1, <1>2, <1>4, AppendTwo

LEMMA AppendFour ==
  ASSUME NEW s \in Seq(Symbol), NEW x1 \in Symbol, NEW x2 \in Symbol,
         NEW x3 \in Symbol, NEW x4 \in Symbol
  PROVE  s \o <<x1, x2, x3, x4>> = Append(Append(Append(Append(s, x1), x2), x3), x4)
<1>1. /\ <<x1, x2, x3, x4>> = <<x1, x2, x3>> \o <<x4>>
      /\ <<x1, x2, x3>> \in Seq(Symbol) /\ <<x4>> \in Seq(Symbol)
  OBVIOUS
<1>2. s \o (<<x1, x2, x3>> \o <<x4>>) = (s \o <<x1, x2, x3>>) \o <<x4>>
  BY <1>1, ConcatAssociative
<1>3. Append(Append(Append(s, x1), x2), x3) \in Seq(Symbol)
  BY AppendProperties
<1>4. Append(Append(Append(Append(s, x1), x2), x3), x4) = Append(Append(Append(s, x1), x2), x3) \o <<x4>>
  BY <1>3, AppendIsConcat
<1>5. QED
  BY <1>1, <1>2, <1>4, AppendThree

\* Two, three or four symbols that come next, after c others.
Continues(s, t, bytes, c) ==
  /\ t \in Seq(Symbol) /\ Spells(t, bytes) /\ SymbolsIn(t, Len(t)) = c
  /\ (\E k \in DOMAIN t : t[k] = LineEnd) => \E k \in DOMAIN s : s[k] = LineEnd

LEMMA NotLineEnd == ASSUME NEW x, x \in Digit \/ x = PadSymbol PROVE x # LineEnd /\ x \in Symbol
BY SMT DEF Digit, PadSymbol, LineEnd, Symbol

LEMMA OneMore ==
  ASSUME NEW bytes, NEW s, NEW t, NEW c \in Nat, Continues(s, t, bytes, c),
         NEW x \in Symbol, x # LineEnd, x = SymbolOf(bytes, c + 1)
  PROVE  Continues(s, Append(t, x), bytes, c + 1)
<1>1. t \in Seq(Symbol) /\ Spells(t, bytes) /\ SymbolsIn(t, Len(t)) = c
  BY DEF Continues
<1>2. /\ Spells(Append(t, x), bytes) /\ Append(t, x) \in Seq(Symbol)
      /\ SymbolsIn(Append(t, x), Len(Append(t, x))) = c + 1
      /\ (\E k \in DOMAIN Append(t, x) : Append(t, x)[k] = LineEnd) => \E k \in DOMAIN t : t[k] = LineEnd
  BY <1>1, SpellsMore
<1>3. QED
  BY <1>2 DEF Continues

LEMMA TwoMore ==
  ASSUME NEW bytes, NEW s, NEW t, NEW c \in Nat, Continues(s, t, bytes, c),
         NEW x1 \in Symbol, x1 # LineEnd, x1 = SymbolOf(bytes, c + 1),
         NEW x2 \in Symbol, x2 # LineEnd, x2 = SymbolOf(bytes, c + 2)
  PROVE  Continues(s, t \o <<x1, x2>>, bytes, c + 2)
<1>1. Continues(s, Append(t, x1), bytes, c + 1) /\ c + 1 \in Nat /\ (c + 1) + 1 = c + 2
  BY OneMore, SMT
<1>2. Continues(s, Append(Append(t, x1), x2), bytes, (c + 1) + 1)
  BY <1>1, OneMore
<1>3. t \in Seq(Symbol)
  BY DEF Continues
<1>4. QED
  BY <1>1, <1>2, <1>3, AppendTwo

LEMMA ThreeMore ==
  ASSUME NEW bytes, NEW s, NEW t, NEW c \in Nat, Continues(s, t, bytes, c),
         NEW x1 \in Symbol, x1 # LineEnd, x1 = SymbolOf(bytes, c + 1),
         NEW x2 \in Symbol, x2 # LineEnd, x2 = SymbolOf(bytes, c + 2),
         NEW x3 \in Symbol, x3 # LineEnd, x3 = SymbolOf(bytes, c + 3)
  PROVE  Continues(s, t \o <<x1, x2, x3>>, bytes, c + 3)
<1>1. Continues(s, t \o <<x1, x2>>, bytes, c + 2) /\ c + 2 \in Nat /\ (c + 2) + 1 = c + 3
  BY TwoMore, SMT
<1>2. Continues(s, Append(t \o <<x1, x2>>, x3), bytes, (c + 2) + 1)
  BY <1>1, OneMore
<1>3. t \in Seq(Symbol)
  BY DEF Continues
<1>4. Append(t \o <<x1, x2>>, x3) = t \o <<x1, x2, x3>>
  BY <1>3, AppendTwo, AppendThree
<1>5. QED
  BY <1>1, <1>2, <1>4

LEMMA FourMore ==
  ASSUME NEW bytes, NEW s, NEW t, NEW c \in Nat, Continues(s, t, bytes, c),
         NEW x1 \in Symbol, x1 # LineEnd, x1 = SymbolOf(bytes, c + 1),
         NEW x2 \in Symbol, x2 # LineEnd, x2 = SymbolOf(bytes, c + 2),
         NEW x3 \in Symbol, x3 # LineEnd, x3 = SymbolOf(bytes, c + 3),
         NEW x4 \in Symbol, x4 # LineEnd, x4 = SymbolOf(bytes, c + 4)
  PROVE  Continues(s, t \o <<x1, x2, x3, x4>>, bytes, c + 4)
<1>1. Continues(s, t \o <<x1, x2, x3>>, bytes, c + 3) /\ c + 3 \in Nat /\ (c + 3) + 1 = c + 4
  BY ThreeMore, SMT
<1>2. Continues(s, Append(t \o <<x1, x2, x3>>, x4), bytes, (c + 3) + 1)
  BY <1>1, OneMore
<1>3. t \in Seq(Symbol)
  BY DEF Continues
<1>4. Append(t \o <<x1, x2, x3>>, x4) = t \o <<x1, x2, x3, x4>>
  BY <1>3, AppendThree, AppendFour
<1>5. QED
  BY <1>1, <1>2, <1>4

\* What the invariant says of the parts of the state.
LEMMA Base64Types ==
  ASSUME Base64TypeOK
  PROVE  /\ Len(message) \in Nat /\ DOMAIN message = 1 .. Len(message)
         /\ Len(coded) \in Nat /\ DOMAIN coded = 1 .. Len(coded)
         /\ \A k \in DOMAIN coded : coded[k] \in Symbol
         /\ size \in Nat /\ size <= Len(message)
         /\ pos \in Nat /\ 1 <= pos /\ pos <= Len(coded) + 1
         /\ Len(quad) \in Nat /\ DOMAIN quad = 1 .. Len(quad) /\ Len(quad) <= 4
         /\ skip \in Nat /\ Len(out) \in Nat /\ DOMAIN out = 1 .. Len(out)
BY SMT DEF Base64TypeOK

LEMMA Base64InitIInv == Base64Init => Base64IInv
<1> SUFFICES ASSUME Base64Init PROVE Base64IInv
  OBVIOUS
<1> USE DEF Base64Init
<1>1. options \in Options /\ message \in Seq(Byte) /\ coded \in Seq(Symbol) /\ given \in BOOLEAN
  <2>1. << >> \in Seq(Byte) /\ << >> \in Seq(Symbol)
    OBVIOUS
  <2>2. CASE given = FALSE /\ message \in Messages /\ coded = << >>
    BY <2>1, <2>2, Base64Assumption
  <2>3. CASE given = TRUE /\ message = << >> /\ coded \in Foreign
    BY <2>1, <2>3, Base64Assumption
  <2>4. QED
    BY <2>2, <2>3
<1>2. Len(message) \in Nat /\ Len(coded) \in Nat
  BY <1>1
<1>3. Base64TypeOK
  <2>1. size \in 0 .. Len(message) /\ pos \in 1 .. Len(coded) + 1 /\ Len(quad) <= 4 /\ skip \in 0 .. 6
    BY <1>2, SMT
  <2>2. QED
    BY <1>1, <2>1 DEF Base64TypeOK
<1>4. ~ given => OwnText
  <2>1. SUFFICES ASSUME ~ given PROVE OwnText
    OBVIOUS
  <2>2. coded = << >> /\ DOMAIN coded = {} /\ Len(coded) = 0 /\ SymbolsIn(coded, 0) = 0
    BY <2>1, SymbolsNone
  <2>3. DecodedPart
    BY <1>1, NothingDecoded
  <2>4. EncodedSoFar
    <3>1. size > 0 => Len(message) - size = 0
      BY <1>2, SMT
    <3>2. size = 0 => DigitCount(message) = 0 /\ PaddedLength(message) = 0
      <4>1. size = 0 => Len(message) = 0
        OBVIOUS
      <4>2. (4 * 0 + 2) \div 3 = 0 /\ 4 * ((0 + 2) \div 3) = 0
        BY SMT
      <4>3. QED
        BY <4>1, <4>2 DEF DigitCount, PaddedLength
    <3>3. 0 % 3 = 0 /\ 4 * (0 \div 3) = 0
      BY SMT
    <3>4. size > 0 \/ size = 0
      BY <1>2, SMT
    <3>5. QED
      BY <2>2, <3>1, <3>2, <3>3, <3>4 DEF EncodedSoFar, Spells
  <2>5. QED
    BY <2>3, <2>4 DEF OwnText
<1>5. given => size = 0 /\ StrictText
  <2>1. SUFFICES ASSUME given PROVE size = 0 /\ StrictText
    OBVIOUS
  <2>2. size = 0
    BY <2>1
  <2>3. Len(quad) = 0 /\ Len(out) = 0 /\ DOMAIN quad = {} /\ pos - 1 - Len(quad) = 0
    <3>1. Len(quad) = 0 /\ Len(out) = 0 /\ DOMAIN quad = {} /\ pos = 1
      OBVIOUS
    <3>2. 1 - 1 - 0 = 0
      BY SMT
    <3>3. QED
      BY <3>1, <3>2
  <2>4. PadsRead(0, 0) = 0
    <3>1. {j \in 1 .. 0 : coded[0 + j] = PadSymbol} = {}
      BY SMT
    <3>2. QED
      BY <3>1, FS_EmptySet DEF PadsRead
  <2>5. StrictPart
    <3>1. 1 .. 0 = {} /\ 0 % 4 = 0 /\ 4 * 0 = 3 * 0
      BY SMT
    <3>2. QED
      BY <2>3, <2>4, <3>1, SMT DEF StrictPart
  <2>6. QED
    BY <2>2, <2>5 DEF StrictText
<1>6. skip <= Len(quad) + 2
  BY SMT
<1>7. QED
  BY <1>3, <1>4, <1>5, <1>6 DEF Base64IInv

\* The symbols of a group.
LEMMA GroupSymbols ==
  ASSUME NEW bytes \in Seq(Byte), NEW g \in Nat, NEW j \in 1 .. 4
  PROVE  /\ 4 * g + j <= DigitCount(bytes) => SymbolOf(bytes, 4 * g + j) = GroupOf(bytes, g)[j]
         /\ DigitCount(bytes) < 4 * g + j => SymbolOf(bytes, 4 * g + j) = PadSymbol
         /\ GroupOf(bytes, g)[j] \in Symbol /\ GroupOf(bytes, g)[j] # LineEnd
<1>1. DigitOf(bytes, 4 * g + j) = GroupOf(bytes, g)[j] /\ GroupOf(bytes, g)[j] \in Digit
  BY DigitPlaces
<1>2. DigitCount(bytes) \in Nat /\ 4 * g + j \in Nat
  BY Counts, SMT
<1>3. 4 * g + j <= DigitCount(bytes) => SymbolOf(bytes, 4 * g + j) = GroupOf(bytes, g)[j]
  BY <1>1 DEF SymbolOf
<1>4. DigitCount(bytes) < 4 * g + j => SymbolOf(bytes, 4 * g + j) = PadSymbol
  BY <1>2, SMT DEF SymbolOf
<1>5. QED
  BY <1>1, <1>3, <1>4, NotLineEnd

\* What encode() has before it goes on.
LEMMA BeforeEncoding ==
  ASSUME Base64IInv, size > 0
  PROVE  /\ ~ given /\ EncodedSoFar /\ Base64TypeOK
         /\ pos = 1 /\ quad = << >> /\ skip = 0 /\ out = << >> /\ ended = "no"
         /\ \E g \in Nat : /\ Len(message) - size = 3 * g /\ (Len(message) - size) \div 3 = g
                           /\ Continues(coded, coded, message, 4 * g)
                           /\ \A k \in Nat : k < size => Data(k) = ByteAt(message, 3 * g + 1 + k)
<1>1. Base64TypeOK
  BY DEF Base64IInv
<1>2. /\ Len(message) \in Nat /\ size \in Nat /\ size <= Len(message)
  BY <1>1, Base64Types
<1>3. ~ given
  BY <1>2, SMT DEF Base64IInv
<1>4. OwnText
  BY <1>3 DEF Base64IInv
<1>5. /\ EncodedSoFar
      /\ pos = 1 /\ quad = << >> /\ skip = 0 /\ out = << >> /\ ended = "no"
  BY <1>4 DEF OwnText
<1> DEFINE g == (Len(message) - size) \div 3
<1>6. g \in Nat /\ Len(message) - size = 3 * g
  <2>1. (Len(message) - size) % 3 = 0 /\ Len(message) - size \in Nat
    BY <1>2, <1>5, SMT DEF EncodedSoFar
  <2>2. QED
    BY <2>1, SMT
<1>7. SymbolsIn(coded, Len(coded)) = 4 * g
  BY <1>5 DEF EncodedSoFar
<1> HIDE DEF g
<1>8. Continues(coded, coded, message, 4 * g)
  BY <1>1, <1>5, <1>7 DEF Continues, EncodedSoFar, Base64TypeOK
<1>9. ASSUME NEW k \in Nat, k < size PROVE Data(k) = ByteAt(message, 3 * g + 1 + k)
  <2>1. Len(message) - size + k + 1 = 3 * g + 1 + k /\ 3 * g + 1 + k <= Len(message)
    BY <1>2, <1>6, <1>9, SMT
  <2>2. QED
    BY <2>1 DEF Data, ByteAt
<1>10. QED
  BY <1>1, <1>3, <1>5, <1>6, <1>8, <1>9 DEF g

\* What is left to show when encode() has gone on.
LEMMA AfterEncoding ==
  ASSUME Base64TypeOK, ~ given,
         pos = 1, quad = << >>, skip = 0, out = << >>, ended = "no",
         Encoding,
         NEW c \in Nat, Continues(coded, coded', message, c) \/
                        (options.len # NoLimit /\ Spells(coded', message) /\ coded' \in Seq(Symbol)
                           /\ SymbolsIn(coded', Len(coded')) = c),
         EncodedSoFar, len' \in Nat, size' \in 0 .. Len(message),
         size' > 0 => (Len(message) - size') % 3 = 0 /\ c = 4 * ((Len(message) - size') \div 3),
         size' = 0 => c = IF options.pad THEN PaddedLength(message) ELSE DigitCount(message)
  PROVE  Base64IInv'
<1>1. /\ options' = options /\ message' = message /\ given' = given /\ pos' = pos /\ quad' = quad
      /\ skip' = skip /\ out' = out /\ ended' = ended
  BY DEF Encoding
<1>2. /\ coded' \in Seq(Symbol) /\ Spells(coded', message) /\ SymbolsIn(coded', Len(coded')) = c
      /\ (\E k \in DOMAIN coded' : coded'[k] = LineEnd) => options.len # NoLimit
  BY DEF Continues, EncodedSoFar
<1>3. Base64TypeOK'
  <2>1. pos' \in 1 .. Len(coded') + 1
    BY <1>1, <1>2, SMT
  <2>2. QED
    BY <1>1, <1>2, <2>1 DEF Base64TypeOK
<1>4. EncodedSoFar'
  <2>1. size' > 0 \/ size' = 0
    BY SMT
  <2>2. ~ (size' > 0 /\ size' = 0)
    BY SMT
  <2>3. QED
    BY <1>1, <1>2, <2>1, <2>2 DEF EncodedSoFar
<1>5. DecodedPart'
  <2>1. message' \in Seq(Byte) /\ pos' = 1 /\ quad' = << >> /\ skip' = 0 /\ out' = << >>
    BY <1>1 DEF Base64TypeOK
  <2>2. (message \in Seq(Byte) /\ pos = 1 /\ quad = << >> /\ skip = 0 /\ out = << >> => DecodedPart)'
    BY NothingDecoded, PTL
  <2>3. QED
    BY <2>1, <2>2
<1>6. OwnText'
  BY <1>1, <1>4, <1>5 DEF OwnText
<1>7. skip' <= Len(quad') + 2
  <2>1. Len(quad') = 0 /\ skip' = 0
    BY <1>1
  <2>2. QED
    BY <2>1, SMT
<1>8. QED
  BY <1>1, <1>3, <1>6, <1>7 DEF Base64IInv

LEMMA EncodeGroupIInv == ASSUME Base64IInv, EncodeGroup PROVE Base64IInv'
<1> DEFINE digits == Digits(Data(0), Data(1), Data(2))
           full   == options.len # NoLimit /\ len + 4 >= options.len
<1>1. /\ size > 2 /\ size' = size - 3 /\ Encoding
      /\ coded' = coded \o (IF full THEN Append(digits, LineEnd) ELSE digits)
      /\ len' = IF full THEN 0 ELSE len + 4
  BY DEF EncodeGroup
<1>2. Base64TypeOK
  BY DEF Base64IInv
<1>3. Len(message) \in Nat /\ size \in Nat /\ size <= Len(message) /\ size > 0 /\ message \in Seq(Byte)
  BY <1>1, <1>2, Base64Types, SMT DEF Base64TypeOK
<1>4. /\ ~ given /\ EncodedSoFar
      /\ pos = 1 /\ quad = << >> /\ skip = 0 /\ out = << >> /\ ended = "no"
  BY <1>3, BeforeEncoding
<1>5. PICK g \in Nat : /\ Len(message) - size = 3 * g
                       /\ Continues(coded, coded, message, 4 * g)
                       /\ \A k \in Nat : k < size => Data(k) = ByteAt(message, 3 * g + 1 + k)
  BY <1>3, BeforeEncoding
<1>6. digits = GroupOf(message, g)
  <2>1. 0 < size /\ 1 < size /\ 2 < size /\ 3 * g + 1 + 0 = 3 * g + 1 /\ 3 * g + 1 + 1 = 3 * g + 2
        /\ 3 * g + 1 + 2 = 3 * g + 3
    BY <1>1, <1>3, SMT
  <2>2. /\ Data(0) = ByteAt(message, 3 * g + 1 + 0) /\ Data(1) = ByteAt(message, 3 * g + 1 + 1)
        /\ Data(2) = ByteAt(message, 3 * g + 1 + 2)
    BY <1>5, <2>1
  <2>3. QED
    BY <2>1, <2>2 DEF GroupOf
<1> HIDE DEF digits, full
<1>7. /\ 4 * g \in Nat /\ 4 * g + 4 \in Nat
      /\ DigitCount(message) \in Nat /\ 4 * g + 4 <= DigitCount(message)
      /\ 3 * g + 3 <= Len(message)
  BY <1>1, <1>3, <1>5, Counts, SMT
<1>8. /\ digits = <<digits[1], digits[2], digits[3], digits[4]>>
      /\ digits \in Seq(Symbol)
      /\ \A j \in 1 .. 4 : /\ digits[j] \in Symbol /\ digits[j] # LineEnd
                           /\ digits[j] = SymbolOf(message, 4 * g + j)
  <2>1. ASSUME NEW j \in 1 .. 4
        PROVE  /\ digits[j] \in Symbol /\ digits[j] # LineEnd
               /\ digits[j] = SymbolOf(message, 4 * g + j)
    <3>1. 4 * g + j <= DigitCount(message)
      BY <1>7, SMT
    <3>2. QED
      BY <1>3, <1>6, <3>1, GroupSymbols
  <2>2. digits = <<digits[1], digits[2], digits[3], digits[4]>>
    BY DEF digits, Digits
  <2>3. 1 \in 1 .. 4 /\ 2 \in 1 .. 4 /\ 3 \in 1 .. 4 /\ 4 \in 1 .. 4
    BY SMT
  <2>4. <<digits[1], digits[2], digits[3], digits[4]>> \in Seq(Symbol)
    BY <2>1, <2>3
  <2>5. QED
    BY <2>1, <2>2, <2>4
<1>9. Continues(coded, coded \o digits, message, 4 * g + 4)
  <2>1. 1 \in 1 .. 4 /\ 2 \in 1 .. 4 /\ 3 \in 1 .. 4 /\ 4 \in 1 .. 4
    BY SMT
  <2>2. Continues(coded, coded \o <<digits[1], digits[2], digits[3], digits[4]>>, message, 4 * g + 4)
    BY <1>5, <1>7, <1>8, <2>1, FourMore
  <2>3. QED
    BY <1>8, <2>2
<1>10. \/ Continues(coded, coded', message, 4 * g + 4)
       \/ /\ options.len # NoLimit /\ Spells(coded', message) /\ coded' \in Seq(Symbol)
          /\ SymbolsIn(coded', Len(coded')) = 4 * g + 4
  <2>1. CASE ~ full
    BY <1>1, <1>9, <2>1
  <2>2. CASE full
    <3>1. LineEnd \in Symbol /\ coded \in Seq(Symbol)
      BY <1>2, SMT DEF LineEnd, Symbol, Base64TypeOK
    <3>2. coded' = Append(coded \o digits, LineEnd)
      <4> DEFINE end == <<LineEnd>>
      <4>1. Append(digits, LineEnd) = digits \o end /\ end \in Seq(Symbol)
        BY <1>8, <3>1, AppendIsConcat
      <4> HIDE DEF end
      <4>2. (coded \o digits) \o end = coded \o (digits \o end)
        <5>1. coded \in Seq(Symbol) /\ digits \in Seq(Symbol) /\ end \in Seq(Symbol)
          BY <1>8, <3>1, <4>1
        <5>2. QED
          BY <5>1, ConcatAssociative
      <4>3. coded \o digits \in Seq(Symbol)
        BY <1>9 DEF Continues
      <4>4. Append(coded \o digits, LineEnd) = (coded \o digits) \o end
        BY <3>1, <4>3, AppendIsConcat DEF end
      <4>5. QED
        BY <1>1, <2>2, <4>1, <4>2, <4>4
    <3>3. /\ Spells(Append(coded \o digits, LineEnd), message)
          /\ Append(coded \o digits, LineEnd) \in Seq(Symbol)
          /\ SymbolsIn(Append(coded \o digits, LineEnd), Len(Append(coded \o digits, LineEnd))) = 4 * g + 4
      BY <1>9, <3>1, SpellsMore DEF Continues
    <3>4. QED
      BY <2>2, <3>2, <3>3 DEF full
  <2>3. QED
    BY <2>1, <2>2
<1>11. /\ size' \in 0 .. Len(message)
       /\ size' > 0 => /\ (Len(message) - size') % 3 = 0
                       /\ 4 * g + 4 = 4 * ((Len(message) - size') \div 3)
       /\ size' = 0 => 4 * g + 4 = IF options.pad THEN PaddedLength(message) ELSE DigitCount(message)
  <2>1. size' \in 0 .. Len(message) /\ Len(message) - size' = 3 * g + 3
    <3>1. size' \in Nat /\ size' <= Len(message)
      BY <1>1, <1>3, SMT
    <3>2. Len(message) - size' = 3 * g + 3
      <4>1. size' = size - 3 /\ Len(message) - size = 3 * g /\ g \in Nat
        BY <1>1, <1>5
      <4>2. QED
        BY <1>3, <4>1, SMT
    <3>3. QED
      BY <1>3, <3>1, <3>2, SMT
  <2>2. (3 * g + 3) % 3 = 0 /\ (3 * g + 3) \div 3 = g + 1 /\ 4 * g + 4 = 4 * (g + 1)
    BY SMT
  <2>3. ASSUME size' = 0 PROVE 4 * g + 4 = PaddedLength(message) /\ 4 * g + 4 = DigitCount(message)
    <3>1. Len(message) = 3 * g + 3
      BY <1>3, <2>1, <2>3, SMT
    <3>2. (4 * (3 * g + 3) + 2) \div 3 = 4 * g + 4 /\ 4 * (((3 * g + 3) + 2) \div 3) = 4 * g + 4
      BY SMT
    <3>3. QED
      BY <3>1, <3>2 DEF PaddedLength, DigitCount
  <2>4. QED
    BY <2>1, <2>2, <2>3
<1>12. len' \in Nat
  BY <1>1, <1>2 DEF Base64TypeOK
<1>13. QED
  BY <1>1, <1>2, <1>4, <1>7, <1>10, <1>11, <1>12, AfterEncoding

LEMMA EncodeRestIInv == ASSUME Base64IInv, EncodeRest PROVE Base64IInv'
<1>1. /\ size = 1 \/ size = 2
      /\ size' = 0 /\ len' = len /\ Encoding
  BY DEF EncodeRest
<1>2. Base64TypeOK
  BY DEF Base64IInv
<1>3. Len(message) \in Nat /\ size \in Nat /\ size <= Len(message) /\ size > 0 /\ message \in Seq(Byte)
  BY <1>1, <1>2, Base64Types, SMT DEF Base64TypeOK
<1>4. /\ ~ given /\ EncodedSoFar
      /\ pos = 1 /\ quad = << >> /\ skip = 0 /\ out = << >> /\ ended = "no"
  BY <1>3, BeforeEncoding
<1>5. PICK g \in Nat : /\ Len(message) - size = 3 * g
                       /\ Continues(coded, coded, message, 4 * g)
                       /\ \A k \in Nat : k < size => Data(k) = ByteAt(message, 3 * g + 1 + k)
  BY <1>3, BeforeEncoding
<1> DEFINE d == GroupOf(message, g)
<1>6. /\ 4 * g \in Nat /\ 4 * g + 2 \in Nat /\ 4 * g + 3 \in Nat
      /\ 3 * g + 1 + 0 = 3 * g + 1 /\ 3 * g + 1 + 1 = 3 * g + 2
      /\ 1 \in 1 .. 4 /\ 2 \in 1 .. 4 /\ 3 \in 1 .. 4 /\ 4 \in 1 .. 4
      /\ 3 * g + 1 \in Nat /\ 3 * g + 2 \in Nat
  BY SMT
<1>7. /\ Data(0) = ByteAt(message, 3 * g + 1) /\ Data(0) \in Byte
      /\ 0 \in Byte
      /\ size = 2 => Data(1) = ByteAt(message, 3 * g + 2) /\ Data(1) \in Byte
  <2>1. Data(0) = ByteAt(message, 3 * g + 1 + 0) /\ (size = 2 => Data(1) = ByteAt(message, 3 * g + 1 + 1))
    BY <1>1, <1>5, SMT
  <2>2. ByteAt(message, 3 * g + 1) \in Byte /\ ByteAt(message, 3 * g + 2) \in Byte
    BY <1>3, <1>6, ByteAtType, SMT
  <2>3. 0 \in Byte
    BY SMT DEF Byte
  <2>4. QED
    BY <1>6, <2>1, <2>2, <2>3
<1>8. ByteAt(message, 3 * g + 3) = 0 /\ (size = 1 => ByteAt(message, 3 * g + 2) = 0)
  BY <1>1, <1>3, <1>5, SMT DEF ByteAt
<1>9. \A j \in 1 .. 4 : /\ d[j] \in Symbol /\ d[j] # LineEnd
                        /\ 4 * g + j <= DigitCount(message) => d[j] = SymbolOf(message, 4 * g + j)
                        /\ DigitCount(message) < 4 * g + j => PadSymbol = SymbolOf(message, 4 * g + j)
  BY <1>3, GroupSymbols
<1>10. PadSymbol \in Symbol /\ PadSymbol # LineEnd
  BY NotLineEnd
<1>11. size' \in 0 .. Len(message) /\ ~ (size' > 0) /\ len' \in Nat
  BY <1>1, <1>2, <1>3, SMT DEF Base64TypeOK
<1>12. CASE size = 1
  <2>1. coded' = coded \o SubSeq(d, 1, 2) \o Pads(2)
    BY <1>7, <1>8, <1>12 DEF EncodeRest, GroupOf
  <2>2. SubSeq(d, 1, 2) = <<d[1], d[2]>>
    <3> HIDE DEF d
    <3>1. \A j \in 1 .. 2 : d[j] \in Symbol /\ 1 + j - 1 = j
      BY <1>9, SMT
    <3>2. /\ SubSeq(d, 1, 2) \in Seq(Symbol) /\ Len(SubSeq(d, 1, 2)) = 2
          /\ \A j \in 1 .. 2 : SubSeq(d, 1, 2)[j] = d[j]
      BY <3>1, SubSeqProperties
    <3>3. /\ <<d[1], d[2]>> \in Seq(Symbol) /\ Len(<<d[1], d[2]>>) = 2
          /\ \A j \in 1 .. 2 : <<d[1], d[2]>>[j] = d[j]
      BY <1>6, <1>9, \A j \in 1 .. 2 : j = 1 \/ j = 2
    <3>4. QED
      BY <3>2, <3>3, SeqEqual
  <2>3. DigitCount(message) = 4 * g + 2 /\ PaddedLength(message) = 4 * g + 4
    <3>1. Len(message) = 3 * g + 1
      BY <1>3, <1>5, <1>12, SMT
    <3>2. (4 * (3 * g + 1) + 2) \div 3 = 4 * g + 2 /\ 4 * (((3 * g + 1) + 2) \div 3) = 4 * g + 4
      BY SMT
    <3>3. QED
      BY <3>1, <3>2 DEF DigitCount, PaddedLength
  <2>4. 4 * g + 1 <= 4 * g + 2 /\ 4 * g + 2 <= 4 * g + 2 /\ 4 * g + 2 < 4 * g + 3 /\ 4 * g + 2 < 4 * g + 4
    BY SMT
  <2>5. Continues(coded, coded \o SubSeq(d, 1, 2), message, 4 * g + 2)
    BY <1>5, <1>6, <1>9, <2>2, <2>3, <2>4, TwoMore
  <2>6. CASE options.pad
    <3>1. Pads(2) = <<PadSymbol, PadSymbol>>
      BY <2>6 DEF Pads
    <3>2. (4 * g + 2) + 1 = 4 * g + 3 /\ (4 * g + 2) + 2 = 4 * g + 4 /\ 4 * g + 4 \in Nat
      BY SMT
    <3>3. Continues(coded, (coded \o SubSeq(d, 1, 2)) \o <<PadSymbol, PadSymbol>>, message, (4 * g + 2) + 2)
      BY <1>6, <1>9, <1>10, <2>3, <2>4, <2>5, <3>2, TwoMore
    <3>4. Continues(coded, coded', message, 4 * g + 4)
      BY <2>1, <3>1, <3>2, <3>3
    <3>5. QED
      BY <1>1, <1>2, <1>4, <1>11, <2>3, <2>6, <3>2, <3>4, AfterEncoding
  <2>7. CASE ~ options.pad
    <3>1. Pads(2) = << >>
      BY <2>7 DEF Pads
    <3>2. coded \o SubSeq(d, 1, 2) \in Seq(Symbol)
      BY <2>5 DEF Continues
    <3>3. coded' = coded \o SubSeq(d, 1, 2)
      BY <2>1, <3>1, <3>2
    <3>4. QED
      BY <1>1, <1>2, <1>4, <1>6, <1>11, <2>3, <2>5, <2>7, <3>3, AfterEncoding
  <2>8. QED
    BY <2>6, <2>7
<1>13. CASE size = 2
  <2>1. coded' = coded \o SubSeq(d, 1, 3) \o Pads(1)
    BY <1>7, <1>8, <1>13 DEF EncodeRest, GroupOf
  <2>2. SubSeq(d, 1, 3) = <<d[1], d[2], d[3]>>
    <3> HIDE DEF d
    <3>1. \A j \in 1 .. 3 : d[j] \in Symbol /\ 1 + j - 1 = j
      BY <1>9, SMT
    <3>2. /\ SubSeq(d, 1, 3) \in Seq(Symbol) /\ Len(SubSeq(d, 1, 3)) = 3
          /\ \A j \in 1 .. 3 : SubSeq(d, 1, 3)[j] = d[j]
      BY <3>1, SubSeqProperties
    <3>3. /\ <<d[1], d[2], d[3]>> \in Seq(Symbol) /\ Len(<<d[1], d[2], d[3]>>) = 3
          /\ \A j \in 1 .. 3 : <<d[1], d[2], d[3]>>[j] = d[j]
      BY <1>6, <1>9, \A j \in 1 .. 3 : j = 1 \/ j = 2 \/ j = 3
    <3>4. QED
      BY <3>2, <3>3, SeqEqual
  <2>3. DigitCount(message) = 4 * g + 3 /\ PaddedLength(message) = 4 * g + 4
    <3>1. Len(message) = 3 * g + 2
      BY <1>3, <1>5, <1>13, SMT
    <3>2. (4 * (3 * g + 2) + 2) \div 3 = 4 * g + 3 /\ 4 * (((3 * g + 2) + 2) \div 3) = 4 * g + 4
      BY SMT
    <3>3. QED
      BY <3>1, <3>2 DEF DigitCount, PaddedLength
  <2>4. 4 * g + 1 <= 4 * g + 3 /\ 4 * g + 2 <= 4 * g + 3 /\ 4 * g + 3 <= 4 * g + 3 /\ 4 * g + 3 < 4 * g + 4
    BY SMT
  <2>5. Continues(coded, coded \o SubSeq(d, 1, 3), message, 4 * g + 3)
    <3>1. /\ d[1] = SymbolOf(message, 4 * g + 1) /\ d[2] = SymbolOf(message, 4 * g + 2)
          /\ d[3] = SymbolOf(message, 4 * g + 3)
      BY <1>6, <1>9, <2>3, <2>4
    <3>2. /\ d[1] \in Symbol /\ d[1] # LineEnd /\ d[2] \in Symbol /\ d[2] # LineEnd
          /\ d[3] \in Symbol /\ d[3] # LineEnd
      BY <1>6, <1>9
    <3> HIDE DEF d
    <3>3. Continues(coded, coded \o <<d[1], d[2], d[3]>>, message, 4 * g + 3)
      BY <1>5, <1>6, <3>1, <3>2, ThreeMore
    <3>4. QED
      BY <2>2, <3>3
  <2>6. coded \o SubSeq(d, 1, 3) \in Seq(Symbol)
    BY <2>5 DEF Continues
  <2>7. CASE options.pad
    <3>1. Pads(1) = <<PadSymbol>>
      BY <2>7 DEF Pads
    <3>2. (4 * g + 3) + 1 = 4 * g + 4 /\ 4 * g + 4 \in Nat
      BY SMT
    <3>3. Continues(coded, Append(coded \o SubSeq(d, 1, 3), PadSymbol), message, (4 * g + 3) + 1)
      BY <1>6, <1>9, <1>10, <2>3, <2>4, <2>5, <3>2, OneMore
    <3>4. Append(coded \o SubSeq(d, 1, 3), PadSymbol) = (coded \o SubSeq(d, 1, 3)) \o <<PadSymbol>>
      BY <1>10, <2>6, AppendIsConcat
    <3>5. Continues(coded, coded', message, 4 * g + 4)
      BY <2>1, <3>1, <3>2, <3>3, <3>4
    <3>6. QED
      BY <1>1, <1>2, <1>4, <1>11, <2>3, <2>7, <3>2, <3>5, AfterEncoding
  <2>8. CASE ~ options.pad
    <3>1. Pads(1) = << >>
      BY <2>8 DEF Pads
    <3>2. coded' = coded \o SubSeq(d, 1, 3)
      BY <2>1, <2>6, <3>1
    <3>3. QED
      BY <1>1, <1>2, <1>4, <1>6, <1>11, <2>3, <2>5, <2>8, <3>2, AfterEncoding
  <2>9. QED
    BY <2>7, <2>8
<1>14. QED
  BY <1>1, <1>12, <1>13
-----------------------------------------------------------------------------
(* decode().                                                                *)

\* The types, whatever the text is.
LEMMA ReadTypes ==
  ASSUME Base64TypeOK, skip <= Len(quad) + 2,
         ReadDigit \/ ReadPad \/ ReadEnd \/ BadCharacter
  PROVE  Base64TypeOK' /\ skip' <= Len(quad') + 2
<1>1. /\ Len(coded) \in Nat /\ pos \in Nat /\ 1 <= pos /\ pos <= Len(coded) + 1
      /\ \A k \in 1 .. Len(coded) : coded[k] \in Symbol
      /\ Len(quad) \in Nat /\ skip \in Nat /\ quad \in Seq(Byte)
  BY Base64Types DEF Base64TypeOK
<1>2. Found \in pos .. Len(coded) + 1
  BY <1>1, FoundPlace
<1>3. /\ options' = options /\ message' = message /\ coded' = coded /\ given' = given /\ size' = size
      /\ len' = len /\ out' = out /\ Len(quad) < 4 /\ ended = "no"
  BY DEF ReadDigit, ReadPad, ReadEnd, BadCharacter, Readout
<1>4. ASSUME NEW x \in Byte
      PROVE  Append(quad, x) \in Seq(Byte) /\ Len(Append(quad, x)) = Len(quad) + 1
  BY <1>1, AppendProperties
<1>5. Found <= Len(coded) => Found + 1 \in 1 .. Len(coded) + 1
  BY <1>1, <1>2, SMT
<1>6. 0 \in Byte /\ Behind \in Byte /\ Digit \subseteq Byte
  BY Base64Assumption, SMT DEF Byte, Digit
<1>7. CASE ReadDigit
  <2>1. Found <= Len(coded) /\ coded[Found] \in Digit \cup {Stray}
    BY <1>7 DEF ReadDigit, InTable
  <2>2. PICK x \in Byte : quad' = Append(quad, x)
    BY <1>6, <1>7, <2>1 DEF ReadDigit
  <2>3. pos' = Found + 1 /\ skip' = skip /\ ended' = ended
    BY <1>7 DEF ReadDigit
  <2>4. quad' \in Seq(Byte) /\ Len(quad') = Len(quad) + 1
    BY <1>4, <2>2
  <2>5. Len(quad') <= 4 /\ skip' <= Len(quad') + 2
    BY <1>1, <1>3, <2>3, <2>4, SMT
  <2>6. QED
    BY <1>3, <1>5, <2>1, <2>3, <2>4, <2>5 DEF Base64TypeOK
<1>8. CASE ReadPad \/ ReadEnd
  <2>1. quad' = Append(quad, 0) /\ skip' = skip + 1 /\ ended' = ended
    BY <1>8 DEF ReadPad, ReadEnd
  <2>2. pos' \in 1 .. Len(coded) + 1
    <3>1. pos \in 1 .. Len(coded) + 1
      BY DEF Base64TypeOK
    <3>2. QED
      BY <1>5, <1>8, <3>1 DEF ReadPad, ReadEnd
  <2>3. quad' \in Seq(Byte) /\ Len(quad') = Len(quad) + 1
    BY <1>4, <1>6, <2>1
  <2>4. Len(quad') <= 4 /\ skip' <= Len(quad') + 2 /\ skip' \in 0 .. 6
    BY <1>1, <1>3, <2>1, <2>3, SMT
  <2>5. QED
    BY <1>3, <2>1, <2>2, <2>3, <2>4 DEF Base64TypeOK
<1>9. CASE BadCharacter
  <2>1. ended' = "error" /\ pos' = pos /\ quad' = quad /\ skip' = skip
    BY <1>9 DEF BadCharacter
  <2>2. QED
    BY <1>3, <2>1 DEF Base64TypeOK
<1>10. QED
  BY <1>7, <1>8, <1>9

LEMMA ByteScales ==
  ASSUME NEW x \in Byte
  PROVE  /\ (x * 4) % 256 \in Nat /\ (x * 16) % 256 \in Nat /\ (x * 64) % 256 \in Nat
         /\ x \div 16 \in Nat /\ x \div 4 \in Nat /\ x \in Nat
BY SMT DEF Byte

\* The bytes of four digits and what is kept of them.
LEMMA KeptBytes ==
  ASSUME Base64TypeOK, Len(quad) = 4, skip <= 2
  PROVE  /\ quad[1] \in Byte /\ quad[2] \in Byte /\ quad[3] \in Byte /\ quad[4] \in Byte
         /\ ac \in Byte /\ bc \in Byte /\ cc \in Byte
         /\ skip \in Nat /\ Kept \in Seq(Byte) /\ Len(Kept) = 3 - skip
         /\ Kept[1] = ac /\ (skip < 2 => Kept[2] = bc) /\ (skip < 1 => Kept[3] = cc)
<1>1. 1 \in 1 .. 4 /\ 2 \in 1 .. 4 /\ 3 \in 1 .. 4 /\ 4 \in 1 .. 4
  BY SMT
<1>2. quad \in Seq(Byte) /\ skip \in Nat
  BY Base64Types DEF Base64TypeOK
<1>3. quad[1] \in Byte /\ quad[2] \in Byte /\ quad[3] \in Byte /\ quad[4] \in Byte
  BY <1>1, <1>2, ElementOfSeq
<1>4. /\ (quad[1] * 4) % 256 \in Nat /\ (quad[2] * 16) % 256 \in Nat /\ (quad[3] * 64) % 256 \in Nat
      /\ quad[2] \div 16 \in Nat /\ quad[3] \div 4 \in Nat /\ quad[4] \in Nat
  BY <1>3, ByteScales
<1>5. ac \in Byte /\ bc \in Byte /\ cc \in Byte
  BY <1>4, OrIsByte DEF ac, bc, cc
<1> DEFINE three == <<ac, bc, cc>>
<1>6. three[1] = ac /\ three[2] = bc /\ three[3] = cc
  OBVIOUS
<1>7. \A j \in 1 .. 3 - skip : j = 1 \/ (j = 2 /\ skip < 2) \/ (j = 3 /\ skip < 1)
  BY <1>2, SMT
<1> HIDE DEF three
<1>8. \A j \in 1 .. 3 - skip : three[j] \in Byte
  BY <1>5, <1>6, <1>7
<1>9. 3 - skip \in Int /\ 1 \in Int /\ 1 <= 3 - skip /\ 3 - skip - 1 + 1 = 3 - skip
  BY <1>2, SMT
<1>10. /\ SubSeq(three, 1, 3 - skip) \in Seq(Byte) /\ Len(SubSeq(three, 1, 3 - skip)) = 3 - skip
       /\ \A j \in 1 .. 3 - skip : SubSeq(three, 1, 3 - skip)[j] = three[1 + j - 1]
  BY <1>8, <1>9, SubSeqProperties
<1>11. /\ 1 \in 1 .. 3 - skip /\ 1 + 1 - 1 = 1 /\ 1 + 2 - 1 = 2 /\ 1 + 3 - 1 = 3
       /\ skip < 2 => 2 \in 1 .. 3 - skip
       /\ skip < 1 => 3 \in 1 .. 3 - skip
  BY <1>2, SMT
<1>12. Kept = SubSeq(three, 1, 3 - skip)
  BY DEF Kept, three
<1>13. /\ Kept[1] = ac /\ (skip < 2 => Kept[2] = bc) /\ (skip < 1 => Kept[3] = cc)
  BY <1>6, <1>10, <1>11, <1>12
<1>14. QED
  BY <1>2, <1>3, <1>5, <1>10, <1>12, <1>13

LEMMA DecodeTypes ==
  ASSUME Base64TypeOK, skip <= Len(quad) + 2, Decode \/ EndOfText
  PROVE  Base64TypeOK' /\ skip' <= Len(quad') + 2
<1>1. /\ Len(quad) \in Nat /\ skip \in Nat /\ quad \in Seq(Byte) /\ out \in Seq(Byte)
  BY Base64Types DEF Base64TypeOK
<1>2. /\ options' = options /\ message' = message /\ coded' = coded /\ given' = given /\ size' = size
      /\ len' = len /\ pos' = pos /\ skip' = skip
  BY DEF Decode, EndOfText
<1>3. CASE UNCHANGED <<quad, out>> /\ ended' \in {"abort", "refused", "ok"}
  BY <1>2, <1>3 DEF Base64TypeOK
<1>4. CASE Decode /\ skip <= 2 /\ out' = out \o Kept /\ quad' = << >> /\ ended' = ended
  <2>1. Kept \in Seq(Byte)
    BY <1>4, KeptBytes DEF Decode
  <2>2. out' \in Seq(Byte)
    BY <1>1, <1>4, <2>1, ConcatProperties
  <2>3. quad' \in Seq(Byte) /\ Len(quad') = 0
    BY <1>4
  <2>4. Len(quad') <= 4 /\ skip' <= Len(quad') + 2
    BY <1>1, <1>2, <1>4, <2>3, SMT
  <2>5. QED
    BY <1>2, <1>4, <2>2, <2>3, <2>4 DEF Base64TypeOK
<1>5. QED
  <2>1. CASE Decode
    <3>1. skip > 2 \/ skip <= 2
      BY <1>1, SMT
    <3>2. QED
      BY <1>3, <1>4, <2>1, <3>1 DEF Decode
  <2>2. CASE EndOfText
    BY <1>3, <2>2 DEF EndOfText
  <2>3. QED
    BY <2>1, <2>2
-----------------------------------------------------------------------------
(* What one has encoded oneself.                                            *)

\* Counts of digits, and the bytes they are of.
LEMMA CountsBack ==
  ASSUME NEW bytes \in Seq(Byte), NEW g \in Nat
  PROVE  /\ PaddedLength(bytes) = 4 * g /\ 3 * g <= Len(bytes) => Len(bytes) = 3 * g
         /\ DigitCount(bytes) = 4 * g => Len(bytes) = 3 * g /\ PaddedLength(bytes) = 4 * g
         /\ DigitCount(bytes) # 4 * g + 1
         /\ DigitCount(bytes) = 4 * g + 2 => Len(bytes) = 3 * g + 1 /\ PaddedLength(bytes) = 4 * g + 4
         /\ DigitCount(bytes) = 4 * g + 3 => Len(bytes) = 3 * g + 2 /\ PaddedLength(bytes) = 4 * g + 4
         /\ 4 * g + 4 <= DigitCount(bytes) => 3 * g + 3 <= Len(bytes)
         /\ PaddedLength(bytes) % 4 = 0
<1> DEFINE L == Len(bytes)
<1>1. L \in Nat
  BY Counts
<1> HIDE DEF L
<1>2. /\ 4 * ((L + 2) \div 3) = 4 * g /\ 3 * g <= L => L = 3 * g
      /\ (4 * L + 2) \div 3 = 4 * g => L = 3 * g
      /\ (4 * L + 2) \div 3 # 4 * g + 1
  BY <1>1, SMT
<1>3. /\ (4 * L + 2) \div 3 = 4 * g + 2 => L = 3 * g + 1
      /\ (4 * L + 2) \div 3 = 4 * g + 3 => L = 3 * g + 2
      /\ 4 * g + 4 <= (4 * L + 2) \div 3 => 3 * g + 3 <= L
  BY <1>1, SMT
<1>4. /\ L = 3 * g => 4 * ((L + 2) \div 3) = 4 * g
      /\ L = 3 * g + 1 => 4 * ((L + 2) \div 3) = 4 * g + 4
      /\ L = 3 * g + 2 => 4 * ((L + 2) \div 3) = 4 * g + 4
      /\ (4 * ((L + 2) \div 3)) % 4 = 0
  BY <1>1, SMT
<1>5. DigitCount(bytes) = (4 * L + 2) \div 3 /\ PaddedLength(bytes) = 4 * ((L + 2) \div 3)
  BY DEF L, DigitCount, PaddedLength
<1>6. QED
  BY <1>2, <1>3, <1>4, <1>5 DEF L

LEMMA DigitIsNoOther == ASSUME NEW x \in Digit PROVE x # PadSymbol /\ x # LineEnd /\ x # Stray
BY SMT DEF Digit, PadSymbol, LineEnd, Stray

\* A symbol of the text is a digit or, behind the digits, a pad.
LEMMA OwnSymbols ==
  ASSUME Base64TypeOK, EncodedSoFar, size = 0, NEW k \in 1 .. Len(coded), coded[k] # LineEnd
  PROVE  /\ SymbolsIn(coded, k) \in Nat /\ SymbolsIn(coded, k) >= 1
         /\ SymbolsIn(coded, k) <= SymbolsIn(coded, Len(coded))
         /\ SymbolsIn(coded, k) <= DigitCount(message) =>
              /\ coded[k] = DigitOf(message, SymbolsIn(coded, k)) /\ coded[k] \in Digit
              /\ InTable(k) /\ ~ IsPad(k)
         /\ ~ (SymbolsIn(coded, k) <= DigitCount(message)) =>
              /\ options.pad /\ coded[k] = PadSymbol
              /\ IsPad(k) /\ ~ InTable(k)
         /\ ~ Skipped(k)
<1> DEFINE p == SymbolsIn(coded, k)
<1>1. Len(coded) \in Nat /\ DOMAIN coded = 1 .. Len(coded) /\ message \in Seq(Byte)
  BY Base64Types DEF Base64TypeOK
<1>2. k \in Nat /\ k - 1 \in Nat /\ (k - 1) + 1 = k /\ k <= Len(coded)
  BY <1>1, SMT
<1>3. SymbolsIn(coded, k - 1) \in Nat /\ p = SymbolsIn(coded, k - 1) + 1
  BY <1>2, SymbolsStep
<1>4. p \in Nat /\ p >= 1
  BY <1>3, SMT
<1>5. p <= SymbolsIn(coded, Len(coded))
  BY <1>1, <1>2, SymbolsGrow
<1>6. coded[k] = SymbolOf(message, p)
  BY <1>1 DEF EncodedSoFar, Spells
<1>7. DigitCount(message) \in Nat
  BY <1>1, Counts
<1>8. ~ (size > 0)
  BY SMT
<1>9. SymbolsIn(coded, Len(coded)) = IF options.pad THEN PaddedLength(message) ELSE DigitCount(message)
  BY <1>8 DEF EncodedSoFar
<1> HIDE DEF p
<1>10. CASE p <= DigitCount(message)
  <2>1. coded[k] = DigitOf(message, p) /\ coded[k] \in Digit
    BY <1>1, <1>4, <1>6, <1>10, DigitOfType DEF SymbolOf
  <2>2. coded[k] # PadSymbol
    BY <2>1, DigitIsNoOther
  <2>3. InTable(k) /\ ~ IsPad(k)
    BY <2>1, <2>2 DEF InTable, IsPad
  <2>4. QED
    BY <1>4, <1>5, <1>10, <2>1, <2>3 DEF p, Skipped
<1>11. CASE ~ (p <= DigitCount(message))
  <2>1. coded[k] = PadSymbol
    BY <1>6, <1>11 DEF SymbolOf
  <2>2. options.pad
    BY <1>5, <1>9, <1>11
  <2>3. PadSymbol \notin Digit /\ PadSymbol # Stray
    BY SMT DEF Digit, PadSymbol, Stray
  <2>4. IsPad(k) /\ ~ InTable(k)
    BY <2>1, <2>2, <2>3 DEF InTable, IsPad
  <2>5. QED
    BY <1>4, <1>5, <1>11, <2>1, <2>2, <2>4 DEF p, Skipped
<1>12. QED
  BY <1>10, <1>11

LEMMA OwnLineEnds ==
  ASSUME Base64TypeOK, EncodedSoFar, NEW k \in 1 .. Len(coded), coded[k] = LineEnd
  PROVE  Skipped(k)
<1>1. options.len # NoLimit
  BY Base64Types DEF EncodedSoFar
<1>2. LineEnd \notin Digit /\ LineEnd # Stray /\ LineEnd # PadSymbol
  BY SMT DEF Digit, LineEnd, Stray, PadSymbol
<1>3. QED
  BY <1>1, <1>2 DEF Skipped, InTable, IsPad

\* Ib64_readout() finds the next symbol, if there is one.
LEMMA OwnFound ==
  ASSUME Base64TypeOK, EncodedSoFar, size = 0
  PROVE  /\ Found \in pos .. Len(coded) + 1
         /\ SymbolsIn(coded, pos - 1) \in Nat
         /\ \A j \in pos .. Found - 1 : coded[j] = LineEnd
         /\ Found <= Len(coded) => /\ Found \in 1 .. Len(coded) /\ coded[Found] # LineEnd
                                   /\ SymbolsIn(coded, Found) = SymbolsIn(coded, pos - 1) + 1
         /\ ~ (Found <= Len(coded)) => /\ Found = Len(coded) + 1
                                       /\ SymbolsIn(coded, pos - 1) = SymbolsIn(coded, Len(coded))
<1> DEFINE f == Found
<1>1. /\ Len(coded) \in Nat /\ pos \in Nat /\ 1 <= pos /\ pos <= Len(coded) + 1
  BY Base64Types
<1>2. /\ f \in pos .. Len(coded) + 1
      /\ \A j \in pos .. f - 1 : Skipped(j)
      /\ f <= Len(coded) => ~ Skipped(f)
  BY <1>1, FoundPlace
<1> HIDE DEF f
<1>3. f \in Nat /\ f - 1 \in Nat /\ pos - 1 \in Nat /\ pos - 1 <= f - 1 /\ (f - 1) + 1 = f /\ (pos - 1) + 1 = pos
  BY <1>1, <1>2, SMT
<1>4. \A j \in pos .. f - 1 : j \in 1 .. Len(coded)
  BY <1>1, <1>2, SMT
<1>5. \A j \in pos .. f - 1 : coded[j] = LineEnd
  BY <1>2, <1>4, OwnSymbols
<1>6. SymbolsIn(coded, f - 1) = SymbolsIn(coded, pos - 1)
  <2>1. \A j \in (pos - 1) + 1 .. f - 1 : coded[j] = LineEnd
    BY <1>3, <1>5
  <2>2. QED
    BY <1>3, <2>1, SymbolsStay
<1>7. SymbolsIn(coded, pos - 1) \in Nat
  BY <1>3, SymbolsStep
<1>8. f <= Len(coded) => /\ f \in 1 .. Len(coded) /\ coded[f] # LineEnd
                         /\ SymbolsIn(coded, f) = SymbolsIn(coded, pos - 1) + 1
  <2>1. SUFFICES ASSUME f <= Len(coded)
                 PROVE  /\ f \in 1 .. Len(coded) /\ coded[f] # LineEnd
                        /\ SymbolsIn(coded, f) = SymbolsIn(coded, pos - 1) + 1
    OBVIOUS
  <2>2. f \in 1 .. Len(coded)
    BY <1>1, <1>2, <2>1, SMT
  <2>3. coded[f] # LineEnd
    BY <1>2, <2>1, <2>2, OwnLineEnds
  <2>4. SymbolsIn(coded, f) = SymbolsIn(coded, f - 1) + 1
    BY <1>3, <2>3, SymbolsStep
  <2>5. QED
    BY <1>6, <2>2, <2>3, <2>4
<1>9. ~ (f <= Len(coded)) => f = Len(coded) + 1 /\ f - 1 = Len(coded)
  BY <1>1, <1>2, SMT
<1>10. QED
  BY <1>2, <1>5, <1>6, <1>7, <1>8, <1>9 DEF f

\* Of own text that is being read, g groups have been decoded and n digits read
\* of the next one.
PartIs(g, n) ==
  /\ Len(out) = 3 * g /\ 3 * g <= Len(message)
  /\ Len(quad) = n + skip
  /\ \A k \in DOMAIN out : out[k] = message[k]
  /\ 4 * g + n <= DigitCount(message)
  /\ skip > 0 => n > 0 /\ 4 * g + n = DigitCount(message)
  /\ SymbolsIn(coded, pos - 1) = IF options.pad THEN 4 * g + Len(quad) ELSE 4 * g + n
  /\ \A j \in DOMAIN quad : quad[j] = IF j <= n THEN DigitOf(message, 4 * g + j) ELSE 0

LEMMA PartFacts == ASSUME Base64TypeOK, DecodedPart PROVE \E g, n \in Nat : PartIs(g, n)
<1> DEFINE g == Len(out) \div 3
           n == Len(quad) - skip
<1>1. /\ Len(out) \in Nat /\ Len(quad) \in Nat /\ skip \in Nat
  BY Base64Types
<1>2. Len(out) % 3 = 0 /\ Len(out) <= Len(message) /\ skip <= Len(quad)
  BY DEF DecodedPart
<1>3. g \in Nat /\ Len(out) = 3 * g
  BY <1>1, <1>2, SMT
<1>4. n \in Nat /\ Len(quad) = n + skip
  BY <1>1, <1>2, SMT
<1>5. PartIs(g, n)
  BY <1>2, <1>3, <1>4 DEF DecodedPart, PartIs
<1> HIDE DEF g, n
<1>6. QED
  BY <1>3, <1>4, <1>5

LEMMA GroupsBack ==
  ASSUME NEW g \in Nat, NEW n \in Nat, NEW sk \in Nat
  PROVE  (3 * g) \div 3 = g /\ (3 * g) % 3 = 0 /\ (n + sk) - sk = n /\ sk <= n + sk
BY SMT

LEMMA PartOfNext ==
  ASSUME NEW g \in Nat, NEW n \in Nat, PartIs(g, n)', skip' \in Nat
  PROVE  DecodedPart'
<1>1. Len(out') = 3 * g /\ Len(quad') = n + skip'
  BY DEF PartIs
<1>2. (3 * g) \div 3 = g /\ (3 * g) % 3 = 0 /\ (n + skip') - skip' = n /\ skip' <= n + skip'
  BY GroupsBack
<1>3. Len(out') \div 3 = g /\ Len(out') % 3 = 0 /\ Len(quad') - skip' = n /\ skip' <= Len(quad')
  BY <1>1, <1>2
<1>4. QED
  BY <1>1, <1>3 DEF DecodedPart, PartIs

\* What there is in any such state.
LEMMA PartTypes ==
  ASSUME Base64TypeOK
  PROVE  /\ Len(quad) \in Nat /\ Len(quad) <= 4 /\ skip \in Nat /\ message \in Seq(Byte)
         /\ quad \in Seq(Byte) /\ DigitCount(message) \in Nat /\ PaddedLength(message) \in Nat
         /\ DOMAIN quad = 1 .. Len(quad)
<1>1. message \in Seq(Byte) /\ quad \in Seq(Byte)
  BY DEF Base64TypeOK
<1>2. QED
  BY <1>1, Base64Types, Counts

\* One digit more, or a 0 for what is missing.
LEMMA QuadMore ==
  ASSUME quad \in Seq(Byte), NEW x \in Byte, quad' = Append(quad, x)
  PROVE  /\ Len(quad) \in Nat /\ Len(quad') = Len(quad) + 1 /\ DOMAIN quad' = 1 .. Len(quad) + 1
         /\ \A j \in DOMAIN quad' : \/ (j \in DOMAIN quad /\ quad'[j] = quad[j] /\ j <= Len(quad))
                                     \/ (j = Len(quad) + 1 /\ quad'[j] = x)
<1>1. /\ Len(quad') = Len(quad) + 1 /\ DOMAIN quad = 1 .. Len(quad)
      /\ \A j \in 1 .. Len(quad) : quad'[j] = quad[j]
      /\ quad'[Len(quad) + 1] = x /\ DOMAIN quad' = 1 .. Len(quad) + 1 /\ Len(quad) \in Nat
  BY AppendProperties
<1>2. \A j \in 1 .. Len(quad) + 1 : (j \in 1 .. Len(quad) /\ j <= Len(quad)) \/ j = Len(quad) + 1
  BY <1>1, SMT
<1>3. QED
  BY <1>1, <1>2

LEMMA PartReadDigit ==
  ASSUME Base64TypeOK, EncodedSoFar, DecodedPart, ReadDigit
  PROVE  DecodedPart'
<1> DEFINE c == SymbolsIn(coded, pos - 1)
<1>1. PICK g \in Nat, n \in Nat : PartIs(g, n)
  BY PartFacts
<1>2. /\ Len(out) = 3 * g /\ 3 * g <= Len(message)
      /\ Len(quad) = n + skip
      /\ \A k \in DOMAIN out : out[k] = message[k]
      /\ skip > 0 => n > 0 /\ 4 * g + n = DigitCount(message)
      /\ c = IF options.pad THEN 4 * g + Len(quad) ELSE 4 * g + n
      /\ \A j \in DOMAIN quad : quad[j] = IF j <= n THEN DigitOf(message, 4 * g + j) ELSE 0
  BY <1>1 DEF PartIs
<1>3. Len(quad) \in Nat /\ skip \in Nat /\ DigitCount(message) \in Nat /\ quad \in Seq(Byte) /\ message \in Seq(Byte)
  BY PartTypes
<1>4. /\ size = 0 /\ Found <= Len(coded) /\ InTable(Found)
      /\ message' = message /\ coded' = coded /\ options' = options /\ out' = out /\ skip' = skip
      /\ quad' = Append(quad, IF coded[Found] = Stray THEN Behind ELSE coded[Found])
      /\ pos' = Found + 1
  BY DEF ReadDigit, Readout
<1>5. c \in Nat /\ Found \in 1 .. Len(coded) /\ coded[Found] # LineEnd /\ SymbolsIn(coded, Found) = c + 1
  BY <1>4, OwnFound
<1> HIDE DEF c
<1>6. c + 1 <= DigitCount(message)
  BY <1>4, <1>5, OwnSymbols
<1>7. coded[Found] = DigitOf(message, c + 1) /\ coded[Found] \in Digit
  BY <1>4, <1>5, <1>6, OwnSymbols
<1>8. quad' = Append(quad, DigitOf(message, c + 1))
  BY <1>4, <1>7, DigitIsNoOther
<1>9. skip = 0 /\ c = 4 * g + n
  <2>1. CASE options.pad
    <3>1. c = 4 * g + Len(quad)
      BY <1>2, <2>1
    <3>2. QED
      BY <1>2, <1>3, <1>5, <1>6, <3>1, SMT
  <2>2. CASE ~ options.pad
    <3>1. c = 4 * g + n
      BY <1>2, <2>2
    <3>2. QED
      BY <1>2, <1>3, <1>5, <1>6, <3>1, SMT
  <2>3. QED
    BY <2>1, <2>2
<1>10. Len(quad) = n /\ c + 1 = 4 * g + (n + 1) /\ n + 1 \in Nat
  BY <1>2, <1>9, SMT
<1>11. DigitOf(message, c + 1) \in Byte
  BY <1>7, SMT DEF Digit, Byte
<1>12. /\ Len(quad') = n + 1
       /\ \A j \in DOMAIN quad' : \/ (j \in DOMAIN quad /\ quad'[j] = quad[j] /\ j <= n)
                                   \/ (j = n + 1 /\ quad'[j] = DigitOf(message, c + 1))
  BY <1>3, <1>8, <1>10, <1>11, QuadMore
<1>13. \A j \in DOMAIN quad' : quad'[j] = IF j <= n + 1 THEN DigitOf(message', 4 * g + j) ELSE 0
  <2>1. SUFFICES ASSUME NEW j \in DOMAIN quad'
                 PROVE  quad'[j] = IF j <= n + 1 THEN DigitOf(message', 4 * g + j) ELSE 0
    OBVIOUS
  <2>2. CASE j \in DOMAIN quad /\ quad'[j] = quad[j] /\ j <= n
    <3>1. j \in Nat
      BY <1>3, <2>2
    <3>2. j <= n + 1
      BY <2>2, <3>1, SMT
    <3>3. QED
      BY <1>2, <1>4, <2>2, <3>2
  <2>3. CASE j = n + 1 /\ quad'[j] = DigitOf(message, c + 1)
    <3>1. j <= n + 1
      BY <2>3, SMT
    <3>2. QED
      BY <1>4, <1>10, <2>3, <3>1
  <2>4. QED
    BY <1>12, <2>2, <2>3
<1>14. pos' - 1 = Found /\ (n + 1) + 0 = n + 1
  BY <1>4, <1>5, SMT
<1>15. SymbolsIn(coded', pos' - 1) = 4 * g + (n + 1)
  BY <1>4, <1>5, <1>10, <1>14
<1>16. 4 * g + (n + 1) <= DigitCount(message)
  BY <1>6, <1>10
<1>17. ~ (0 > 0)
  BY SMT
<1>18. PartIs(g, n + 1)'
  BY <1>2, <1>4, <1>9, <1>12, <1>13, <1>14, <1>15, <1>16, <1>17 DEF PartIs
<1>19. skip' \in Nat
  BY <1>3, <1>4
<1>20. QED
  BY <1>10, <1>18, <1>19, PartOfNext

\* A 0 for what is a pad, or missing, behind the last digit.
LEMMA PartSkipped ==
  ASSUME Base64TypeOK, NEW g \in Nat, NEW n \in Nat, PartIs(g, n), n > 0, 4 * g + n = DigitCount(message),
         quad' = Append(quad, 0), skip' = skip + 1,
         message' = message, options' = options, out' = out, coded' = coded,
         SymbolsIn(coded, pos' - 1) = IF options.pad THEN 4 * g + Len(quad) + 1 ELSE 4 * g + n
  PROVE  DecodedPart'
<1>1. /\ Len(quad) \in Nat /\ skip \in Nat /\ quad \in Seq(Byte) /\ DOMAIN quad = 1 .. Len(quad)
      /\ DigitCount(message) \in Nat
  BY PartTypes
<1>2. Len(quad) = n + skip
  BY DEF PartIs
<1>3. 0 \in Byte
  BY SMT DEF Byte
<1>4. /\ Len(quad') = Len(quad) + 1
      /\ \A j \in DOMAIN quad' : \/ (j \in DOMAIN quad /\ quad'[j] = quad[j] /\ j <= Len(quad))
                                 \/ (j = Len(quad) + 1 /\ quad'[j] = 0)
  BY <1>1, <1>3, QuadMore
<1>5. /\ ~ (Len(quad) + 1 <= n) /\ Len(quad) + 1 = n + (skip + 1) /\ skip + 1 \in Nat
      /\ 4 * g + (Len(quad) + 1) = 4 * g + Len(quad) + 1 /\ 4 * g + n <= DigitCount(message)
  BY <1>1, <1>2, SMT
<1>6. \A j \in DOMAIN quad' : quad'[j] = IF j <= n THEN DigitOf(message', 4 * g + j) ELSE 0
  BY <1>4, <1>5 DEF PartIs
<1>7. PartIs(g, n)'
  BY <1>4, <1>5, <1>6 DEF PartIs
<1>8. skip' \in Nat
  BY <1>5
<1>9. QED
  BY <1>7, <1>8, PartOfNext

LEMMA PartReadPad ==
  ASSUME Base64TypeOK, EncodedSoFar, DecodedPart, ReadPad
  PROVE  DecodedPart'
<1> DEFINE c == SymbolsIn(coded, pos - 1)
<1>1. PICK g \in Nat, n \in Nat : PartIs(g, n)
  BY PartFacts
<1>2. /\ size = 0 /\ Found <= Len(coded) /\ IsPad(Found)
      /\ message' = message /\ coded' = coded /\ options' = options /\ out' = out /\ skip' = skip + 1
      /\ quad' = Append(quad, 0) /\ pos' = Found + 1
  BY DEF ReadPad, Readout
<1>3. /\ c \in Nat /\ Found \in 1 .. Len(coded) /\ coded[Found] # LineEnd
      /\ SymbolsIn(coded, Found) = c + 1
  BY <1>2, OwnFound
<1> HIDE DEF c
<1>4. /\ ~ (c + 1 <= DigitCount(message)) /\ options.pad
      /\ c + 1 <= SymbolsIn(coded, Len(coded))
  BY <1>2, <1>3, OwnSymbols
<1>5. /\ Len(quad) \in Nat /\ skip \in Nat /\ DigitCount(message) \in Nat /\ PaddedLength(message) \in Nat
      /\ message \in Seq(Byte)
  BY PartTypes
<1>6. c + 1 <= PaddedLength(message)
  <2>1. ~ (size > 0)
    BY <1>2, SMT
  <2>2. QED
    BY <1>4, <2>1 DEF EncodedSoFar
<1>7. /\ Len(quad) = n + skip /\ 4 * g + n <= DigitCount(message)
      /\ skip > 0 => n > 0 /\ 4 * g + n = DigitCount(message)
      /\ c = 4 * g + Len(quad)
  BY <1>1, <1>4 DEF PartIs, c
<1>8. 4 * g + n = DigitCount(message)
  BY <1>4, <1>5, <1>7, SMT
<1>9. n > 0
  <2>1. SUFFICES ASSUME ~ (n > 0) PROVE FALSE
    OBVIOUS
  <2>2. n = 0 /\ skip = 0
    BY <1>5, <1>7, <2>1, SMT
  <2>3. DigitCount(message) = 4 * g /\ c = 4 * g
    BY <1>7, <1>8, <2>2, SMT
  <2>4. PaddedLength(message) = 4 * g
    BY <1>5, <2>3, CountsBack
  <2>5. QED
    BY <1>6, <2>3, <2>4, SMT
<1>10. pos' - 1 = Found /\ c + 1 = 4 * g + Len(quad) + 1
  BY <1>2, <1>3, <1>7, SMT
<1>11. SymbolsIn(coded, pos' - 1) = IF options.pad THEN 4 * g + Len(quad) + 1 ELSE 4 * g + n
  BY <1>3, <1>4, <1>10
<1>12. QED
  BY <1>1, <1>2, <1>8, <1>9, <1>11, PartSkipped

\* Whoever is at the end of the text has read all its symbols.
LEMMA OwnEnd ==
  ASSUME Base64TypeOK, EncodedSoFar, size = 0, ~ EndsLine, pos <= Len(coded)
  PROVE  /\ SymbolsIn(coded, pos - 1) \in Nat
         /\ SymbolsIn(coded, pos - 1) < SymbolsIn(coded, Len(coded))
<1>1. /\ Len(coded) \in Nat /\ pos \in Nat /\ 1 <= pos
  BY Base64Types
<1>2. Len(coded) \in 1 .. Len(coded) /\ Len(coded) - 1 \in Nat /\ pos - 1 \in Nat /\ pos - 1 <= Len(coded) - 1
      /\ (Len(coded) - 1) + 1 = Len(coded)
  BY <1>1, SMT
<1>3. coded # << >>
  <2>1. SUFFICES ASSUME coded = << >> PROVE FALSE
    OBVIOUS
  <2>2. Len(coded) = 0
    BY <2>1
  <2>3. QED
    BY <1>1, <2>2, SMT
<1>4. coded[Len(coded)] # LineEnd
  BY <1>3 DEF EndsLine
<1>5. /\ SymbolsIn(coded, Len(coded) - 1) \in Nat
      /\ SymbolsIn(coded, Len(coded)) = SymbolsIn(coded, Len(coded) - 1) + 1
  BY <1>2, <1>4, SymbolsStep
<1>6. SymbolsIn(coded, pos - 1) \in Nat /\ SymbolsIn(coded, pos - 1) <= SymbolsIn(coded, Len(coded) - 1)
  BY <1>2, SymbolsStep, SymbolsGrow
<1>7. QED
  BY <1>5, <1>6, SMT

LEMMA PartReadEnd ==
  ASSUME Base64TypeOK, EncodedSoFar, DecodedPart, ReadEnd, ~ EndsLine
  PROVE  DecodedPart'
<1> DEFINE c == SymbolsIn(coded, pos - 1)
<1>1. PICK g \in Nat, n \in Nat : PartIs(g, n)
  BY PartFacts
<1>2. /\ size = 0 /\ Found > Len(coded) /\ Len(quad) < 4 /\ (quad = << >> => pos <= Len(coded))
      /\ message' = message /\ coded' = coded /\ options' = options /\ out' = out /\ skip' = skip + 1
      /\ quad' = Append(quad, 0) /\ pos' = pos
  BY DEF ReadEnd, Readout
<1>3. Found \in pos .. Len(coded) + 1 /\ pos \in Nat /\ Len(coded) \in Nat
  BY <1>2, OwnFound, Base64Types
<1>4. ~ (Found <= Len(coded))
  BY <1>2, <1>3, SMT
<1>5. c \in Nat /\ c = SymbolsIn(coded, Len(coded))
  BY <1>2, <1>4, OwnFound
<1>6. ~ (pos <= Len(coded))
  <2>1. SUFFICES ASSUME pos <= Len(coded) PROVE FALSE
    OBVIOUS
  <2>2. c < SymbolsIn(coded, Len(coded))
    BY <1>2, <2>1, OwnEnd
  <2>3. QED
    BY <1>5, <2>2, SMT
<1> HIDE DEF c
<1>7. /\ Len(quad) \in Nat /\ skip \in Nat /\ DigitCount(message) \in Nat /\ PaddedLength(message) \in Nat
      /\ message \in Seq(Byte) /\ quad \in Seq(Byte)
  BY PartTypes
<1>8. Len(quad) > 0
  <2>1. quad # << >>
    BY <1>2, <1>6
  <2>2. Len(quad) # 0
    BY <1>7, <2>1, EmptySeq
  <2>3. QED
    BY <1>7, <2>2, SMT
<1>9. /\ Len(quad) = n + skip
      /\ skip > 0 => n > 0 /\ 4 * g + n = DigitCount(message)
      /\ c = IF options.pad THEN 4 * g + Len(quad) ELSE 4 * g + n
  BY <1>1 DEF PartIs, c
<1>10. c = IF options.pad THEN PaddedLength(message) ELSE DigitCount(message)
  <2>1. ~ (size > 0)
    BY <1>2, SMT
  <2>2. QED
    BY <1>5, <2>1 DEF EncodedSoFar
<1>11. ~ options.pad
  <2>1. SUFFICES ASSUME options.pad PROVE FALSE
    OBVIOUS
  <2>2. PaddedLength(message) = 4 * g + Len(quad)
    BY <1>9, <1>10, <2>1
  <2>3. PaddedLength(message) % 4 = 0
    BY <1>7, CountsBack
  <2>4. QED
    BY <1>2, <1>7, <1>8, <2>2, <2>3, SMT
<1>12. c = 4 * g + n /\ 4 * g + n = DigitCount(message)
  BY <1>9, <1>10, <1>11
<1>13. n > 0
  BY <1>7, <1>8, <1>9, SMT
<1>14. SymbolsIn(coded, pos' - 1) = IF options.pad THEN 4 * g + Len(quad) + 1 ELSE 4 * g + n
  BY <1>2, <1>11, <1>12 DEF c
<1>15. QED
  BY <1>1, <1>2, <1>12, <1>13, <1>14, PartSkipped

\* Nothing else is found.
LEMMA OwnReads == ASSUME Base64TypeOK, EncodedSoFar PROVE ~ BadCharacter
<1>1. SUFFICES ASSUME BadCharacter PROVE FALSE
  OBVIOUS
<1>2. size = 0 /\ Found <= Len(coded) /\ ~ InTable(Found) /\ ~ IsPad(Found)
  BY <1>1 DEF BadCharacter, Readout
<1>3. Found \in 1 .. Len(coded) /\ coded[Found] # LineEnd
  BY <1>2, OwnFound
<1>4. QED
  BY <1>2, <1>3, OwnSymbols

\* What is decoded of a group comes behind what was decoded.
LEMMA BytesAppended ==
  ASSUME NEW s \in Seq(Byte), NEW t \in Seq(Byte), NEW m \in Nat, NEW sk \in Nat, sk <= 2,
         Len(s) = m, Len(t) = 3 - sk
  PROVE  /\ s \o t \in Seq(Byte) /\ Len(s \o t) = m + (3 - sk)
         /\ \A k \in 1 .. m : (s \o t)[k] = s[k]
         /\ \A k \in 1 .. 3 - sk : (s \o t)[m + k] = t[k]
<1>1. /\ s \o t \in Seq(Byte) /\ Len(s \o t) = Len(s) + Len(t)
      /\ \A i1 \in 1 .. Len(s) + Len(t) :
           (s \o t)[i1] = IF i1 <= Len(s) THEN s[i1] ELSE t[i1 - Len(s)]
  BY ConcatProperties
<1>2. ASSUME NEW k \in 1 .. m PROVE (s \o t)[k] = s[k]
  <2>1. k \in 1 .. Len(s) + Len(t) /\ k <= Len(s)
    BY <1>2, SMT
  <2>2. QED
    BY <1>1, <2>1
<1>3. ASSUME NEW k \in 1 .. 3 - sk PROVE (s \o t)[m + k] = t[k]
  <2>1. m + k \in 1 .. Len(s) + Len(t) /\ ~ (m + k <= Len(s)) /\ (m + k) - Len(s) = k
    BY <1>3, SMT
  <2>2. QED
    BY <1>1, <2>1
<1>4. QED
  BY <1>1, <1>2, <1>3

\* A group that is read is the next one of the message.
LEMMA OwnQuad ==
  ASSUME Base64TypeOK, NEW g \in Nat, NEW n \in Nat, PartIs(g, n), Len(quad) = 4
  PROVE  /\ \/ skip = 0 /\ n = 4 /\ 3 * g + 3 <= Len(message)
            \/ skip = 1 /\ n = 3 /\ Len(message) = 3 * g + 2 /\ PaddedLength(message) = 4 * g + 4
            \/ skip = 2 /\ n = 2 /\ Len(message) = 3 * g + 1 /\ PaddedLength(message) = 4 * g + 4
         /\ ac = ByteAt(message, 3 * g + 1)
         /\ bc = ByteAt(message, 3 * g + 2)
         /\ cc = ByteAt(message, 3 * g + 3)
<1> DEFINE a == ByteAt(message, 3 * g + 1)
           b == ByteAt(message, 3 * g + 2)
           c == ByteAt(message, 3 * g + 3)
<1>1. /\ skip \in Nat /\ message \in Seq(Byte) /\ DigitCount(message) \in Nat /\ DOMAIN quad = 1 .. 4
      /\ Len(message) \in Nat
  BY PartTypes, Counts
<1>2. /\ 4 = n + skip /\ 4 * g + n <= DigitCount(message)
      /\ skip > 0 => n > 0 /\ 4 * g + n = DigitCount(message)
      /\ \A j \in DOMAIN quad : quad[j] = IF j <= n THEN DigitOf(message, 4 * g + j) ELSE 0
  BY DEF PartIs
<1>3. \/ skip = 0 /\ n = 4 /\ 3 * g + 3 <= Len(message)
      \/ skip = 1 /\ n = 3 /\ Len(message) = 3 * g + 2 /\ PaddedLength(message) = 4 * g + 4
      \/ skip = 2 /\ n = 2 /\ Len(message) = 3 * g + 1 /\ PaddedLength(message) = 4 * g + 4
  <2>1. (skip = 0 /\ n = 4) \/ (skip > 0 /\ (n = 1 \/ n = 2 \/ n = 3))
    BY <1>1, <1>2, SMT
  <2>2. CASE skip = 0 /\ n = 4
    BY <1>1, <1>2, <2>2, CountsBack
  <2>3. CASE skip > 0 /\ n = 1
    BY <1>1, <1>2, <2>3, CountsBack
  <2>4. CASE skip > 0 /\ n = 2
    <3>1. skip = 2 /\ DigitCount(message) = 4 * g + 2
      BY <1>1, <1>2, <2>4, SMT
    <3>2. QED
      BY <1>1, <2>4, <3>1, CountsBack
  <2>5. CASE skip > 0 /\ n = 3
    <3>1. skip = 1 /\ DigitCount(message) = 4 * g + 3
      BY <1>1, <1>2, <2>5, SMT
    <3>2. QED
      BY <1>1, <2>5, <3>1, CountsBack
  <2>6. QED
    BY <2>1, <2>2, <2>3, <2>4, <2>5
<1>4. a \in Byte /\ b \in Byte /\ c \in Byte
  BY <1>1, ByteAtType
<1>5. (skip = 2 => b = 0 /\ c = 0) /\ (skip = 1 => c = 0)
  <2>1. /\ skip = 2 => ~ (3 * g + 2 <= Len(message)) /\ ~ (3 * g + 3 <= Len(message))
        /\ skip = 1 => ~ (3 * g + 3 <= Len(message))
    BY <1>1, <1>3, SMT
  <2>2. QED
    BY <2>1 DEF ByteAt
<1>6. GroupOf(message, g) = Digits(a, b, c)
  BY DEF GroupOf
<1>7. \A j \in 1 .. 4 : DigitOf(message, 4 * g + j) = GroupOf(message, g)[j]
  BY <1>1, DigitPlaces
<1> HIDE DEF a, b, c
<1>8. /\ b = 0 /\ c = 0 => GroupOf(message, g)[3] = 0
      /\ c = 0 => GroupOf(message, g)[4] = 0
  <2>1. GroupOf(message, g)[3] = (b % 16) * 4 + c \div 64 /\ GroupOf(message, g)[4] = c % 64
    BY <1>4, <1>6, DigitsOf
  <2>2. (0 % 16) * 4 + 0 \div 64 = 0 /\ 0 % 64 = 0
    BY SMT
  <2>3. QED
    BY <2>1, <2>2
<1>9. 1 \in 1 .. 4 /\ 2 \in 1 .. 4 /\ 3 \in 1 .. 4 /\ 4 \in 1 .. 4
  BY SMT
<1>10. /\ 1 <= n /\ 2 <= n
       /\ \/ 3 <= n
          \/ ~ (3 <= n) /\ skip = 2
       /\ \/ 4 <= n
          \/ ~ (4 <= n) /\ (skip = 1 \/ skip = 2)
  BY <1>1, <1>2, <1>3, SMT
<1>11. /\ quad[1] = GroupOf(message, g)[1] /\ quad[2] = GroupOf(message, g)[2]
       /\ quad[3] = GroupOf(message, g)[3] /\ quad[4] = GroupOf(message, g)[4]
  <2>1. quad[1] = GroupOf(message, g)[1] /\ quad[2] = GroupOf(message, g)[2]
    BY <1>1, <1>2, <1>7, <1>9, <1>10
  <2>2. quad[3] = GroupOf(message, g)[3]
    BY <1>1, <1>2, <1>5, <1>7, <1>8, <1>9, <1>10
  <2>3. quad[4] = GroupOf(message, g)[4]
    BY <1>1, <1>2, <1>5, <1>7, <1>8, <1>9, <1>10
  <2>4. QED
    BY <2>1, <2>2, <2>3
<1>12. ac = a /\ bc = b /\ cc = c
  BY <1>4, <1>6, <1>11, BytesBack DEF ac, bc, cc
<1>13. QED
  BY <1>3, <1>12 DEF a, b, c

LEMMA OwnDecodes ==
  ASSUME Base64TypeOK, DecodedPart, Decode
  PROVE  out' = out \o Kept /\ quad' = << >> /\ ended' = "no" /\ skip <= 2
<1>1. PICK g \in Nat, n \in Nat : PartIs(g, n)
  BY PartFacts
<1>2. Len(quad) = 4 /\ ended = "no"
  BY DEF Decode
<1>3. /\ \/ skip = 0
         \/ skip = 1 /\ Len(message) = 3 * g + 2
         \/ skip = 2 /\ Len(message) = 3 * g + 1
      /\ bc = ByteAt(message, 3 * g + 2)
      /\ cc = ByteAt(message, 3 * g + 3)
  BY <1>1, <1>2, OwnQuad
<1>4. ~ (skip > 2) /\ skip <= 2
  BY <1>3, SMT
<1>5. ~ Extraneous
  <2>1. CASE skip = 0
    BY <2>1, SMT DEF Extraneous
  <2>2. CASE skip = 1 /\ Len(message) = 3 * g + 2
    <3>1. ~ (3 * g + 3 <= Len(message)) /\ skip # 2
      BY <2>2, SMT
    <3>2. QED
      BY <1>3, <3>1 DEF Extraneous, ByteAt
  <2>3. CASE skip = 2 /\ Len(message) = 3 * g + 1
    <3>1. ~ (3 * g + 2 <= Len(message)) /\ ~ (3 * g + 3 <= Len(message)) /\ skip # 1
      BY <2>3, SMT
    <3>2. QED
      BY <1>3, <3>1 DEF Extraneous, ByteAt
  <2>4. QED
    BY <1>3, <2>1, <2>2, <2>3
<1>6. QED
  BY <1>2, <1>4, <1>5 DEF Decode

\* Three bytes more, or what is left.
LEMMA PartDecode ==
  ASSUME Base64TypeOK, EncodedSoFar, size = 0, ~ EndsLine, DecodedPart, Decode
  PROVE  ended' = "no" /\ (DecodedPart' \/ DecodedAll')
<1>1. PICK g \in Nat, n \in Nat : PartIs(g, n)
  BY PartFacts
<1>2. /\ Len(quad) = 4 /\ options' = options /\ message' = message /\ coded' = coded
      /\ pos' = pos /\ skip' = skip
      /\ out' = out \o Kept /\ quad' = << >> /\ ended' = "no" /\ skip <= 2
  BY OwnDecodes DEF Decode
<1>3. /\ \/ skip = 0 /\ n = 4 /\ 3 * g + 3 <= Len(message)
         \/ skip = 1 /\ n = 3 /\ Len(message) = 3 * g + 2 /\ PaddedLength(message) = 4 * g + 4
         \/ skip = 2 /\ n = 2 /\ Len(message) = 3 * g + 1 /\ PaddedLength(message) = 4 * g + 4
      /\ ac = ByteAt(message, 3 * g + 1)
      /\ bc = ByteAt(message, 3 * g + 2)
      /\ cc = ByteAt(message, 3 * g + 3)
  BY <1>1, <1>2, OwnQuad
<1>4. /\ Kept \in Seq(Byte) /\ Len(Kept) = 3 - skip /\ skip \in Nat
      /\ Kept[1] = ac /\ (skip < 2 => Kept[2] = bc) /\ (skip < 1 => Kept[3] = cc)
  BY <1>2, KeptBytes
<1>5. /\ Len(out) = 3 * g /\ 4 * g + n <= DigitCount(message)
      /\ skip > 0 => 4 * g + n = DigitCount(message)
      /\ \A k \in DOMAIN out : out[k] = message[k]
      /\ SymbolsIn(coded, pos - 1) = IF options.pad THEN 4 * g + 4 ELSE 4 * g + n
  BY <1>1, <1>2 DEF PartIs
<1>6. out \in Seq(Byte) /\ message \in Seq(Byte) /\ Len(out) \in Nat /\ Len(message) \in Nat
  BY Base64Types DEF Base64TypeOK
<1>7. 3 * g + (3 - skip) <= Len(message) /\ 3 * g + (3 - skip) \in Nat /\ 3 - skip \in Nat
  BY <1>2, <1>3, <1>4, <1>6, SMT
<1>8. /\ out' \in Seq(Byte) /\ Len(out') = 3 * g + (3 - skip) /\ DOMAIN out' = 1 .. 3 * g + (3 - skip)
      /\ \A k \in 1 .. Len(out) : out'[k] = out[k]
      /\ \A k \in 1 .. Len(Kept) : out'[Len(out) + k] = Kept[k]
  <2>1. /\ out \o Kept \in Seq(Byte) /\ Len(out \o Kept) = 3 * g + (3 - skip)
        /\ \A k \in 1 .. 3 * g : (out \o Kept)[k] = out[k]
        /\ \A k \in 1 .. 3 - skip : (out \o Kept)[3 * g + k] = Kept[k]
    <3>1. 3 * g \in Nat
      BY <1>5, <1>6
    <3>2. QED
      BY <1>2, <1>4, <1>5, <1>6, <3>1, BytesAppended
  <2>2. QED
    BY <1>2, <1>4, <1>5, <2>1
<1>9. \A k \in DOMAIN out' : out'[k] = message[k]
  <2>1. SUFFICES ASSUME NEW k \in 1 .. 3 * g + (3 - skip) PROVE out'[k] = message[k]
    BY <1>8
  <2>2. \/ k \in 1 .. Len(out)
        \/ k = 3 * g + 1
        \/ k = 3 * g + 2 /\ skip < 2
        \/ k = 3 * g + 3 /\ skip < 1
    BY <1>2, <1>4, <1>5, SMT
  <2>3. k <= Len(message) /\ k \in Nat
    BY <1>6, <1>7, SMT
  <2>4. CASE k \in 1 .. Len(out)
    <3>1. k \in DOMAIN out
      BY <1>6, <2>4
    <3>2. QED
      BY <1>5, <1>8, <2>4, <3>1
  <2>5. CASE k = 3 * g + 1
    <3>1. 1 \in 1 .. Len(Kept)
      BY <1>2, <1>4, SMT
    <3>2. out'[k] = ac
      BY <1>4, <1>5, <1>8, <2>5, <3>1
    <3>3. QED
      BY <1>3, <2>3, <2>5, <3>2 DEF ByteAt
  <2>6. CASE k = 3 * g + 2 /\ skip < 2
    <3>1. 2 \in 1 .. Len(Kept)
      BY <1>2, <1>4, <2>6, SMT
    <3>2. out'[k] = bc
      BY <1>4, <1>5, <1>8, <2>6, <3>1
    <3>3. QED
      BY <1>3, <2>3, <2>6, <3>2 DEF ByteAt
  <2>7. CASE k = 3 * g + 3 /\ skip < 1
    <3>1. 3 \in 1 .. Len(Kept)
      BY <1>2, <1>4, <2>7, SMT
    <3>2. out'[k] = cc
      BY <1>4, <1>5, <1>8, <2>7, <3>1
    <3>3. QED
      BY <1>3, <2>3, <2>7, <3>2 DEF ByteAt
  <2>8. QED
    BY <2>2, <2>4, <2>5, <2>6, <2>7
<1>10. Len(quad') = 0 /\ DOMAIN quad' = {}
  BY <1>2
<1>11. CASE skip = 0
  <2>1. n = 4 /\ 3 * g + 3 <= Len(message)
    BY <1>3, <1>11
  <2>2. /\ 3 * g + (3 - 0) = 3 * (g + 1) /\ 3 * g + 3 = 3 * (g + 1) /\ g + 1 \in Nat
        /\ 4 * (g + 1) + 0 = 4 * g + 4 /\ 0 + 0 = 0 /\ ~ (0 > 0)
    BY SMT
  <2>3. Len(out') = 3 * (g + 1) /\ 3 * (g + 1) <= Len(message)
    BY <1>8, <1>11, <2>1, <2>2
  <2>4. 4 * (g + 1) + 0 <= DigitCount(message)
    BY <1>5, <2>1, <2>2
  <2>5. SymbolsIn(coded', pos' - 1) = 4 * (g + 1) + 0
    BY <1>2, <1>5, <2>1, <2>2
  <2>6. PartIs(g + 1, 0)'
    BY <1>2, <1>9, <1>10, <1>11, <2>2, <2>3, <2>4, <2>5 DEF PartIs
  <2>7. skip' \in Nat /\ 0 \in Nat
    BY <1>2, <1>4
  <2>8. DecodedPart'
    BY <2>2, <2>6, <2>7, PartOfNext
  <2>9. QED
    BY <1>2, <2>8
<1>12. CASE skip = 1 \/ skip = 2
  <2>1. 3 * g + (3 - skip) = Len(message) /\ PaddedLength(message) = 4 * g + 4 /\ skip > 0
    BY <1>3, <1>12, SMT
  <2>2. out' = message
    <3>1. Len(out') = Len(message)
      BY <1>8, <2>1
    <3>2. \A k \in 1 .. Len(out') : out'[k] = message[k]
      BY <1>8, <1>9
    <3>3. QED
      BY <1>6, <1>8, <3>1, <3>2, SeqEqual
  <2>3. pos = Len(coded) + 1
    <3>1. SymbolsIn(coded, Len(coded)) = IF options.pad THEN 4 * g + 4 ELSE DigitCount(message)
      <4>1. ~ (size > 0)
        BY SMT
      <4>2. QED
        BY <2>1, <4>1 DEF EncodedSoFar
    <3>2. SymbolsIn(coded, Len(coded)) = SymbolsIn(coded, pos - 1)
      BY <1>5, <2>1, <3>1
    <3>3. ~ (pos <= Len(coded))
      <4>1. SUFFICES ASSUME pos <= Len(coded) PROVE FALSE
        OBVIOUS
      <4>2. /\ SymbolsIn(coded, pos - 1) \in Nat
            /\ SymbolsIn(coded, pos - 1) < SymbolsIn(coded, Len(coded))
        BY <4>1, OwnEnd
      <4>3. QED
        BY <3>2, <4>2, SMT
    <3>4. QED
      BY <3>3, Base64Types, SMT
  <2>4. DecodedAll'
    BY <1>2, <2>2, <2>3 DEF DecodedAll
  <2>5. QED
    BY <1>2, <2>4
<1>13. QED
  BY <1>3, <1>11, <1>12

LEMMA PartEnd ==
  ASSUME Base64TypeOK, EncodedSoFar, DecodedPart, EndOfText
  PROVE  out = message
<1>1. PICK g \in Nat, n \in Nat : PartIs(g, n)
  BY PartFacts
<1>2. size = 0 /\ quad = << >> /\ pos > Len(coded)
  BY DEF EndOfText
<1>3. /\ skip \in Nat /\ message \in Seq(Byte) /\ out \in Seq(Byte) /\ Len(message) \in Nat
      /\ DOMAIN out = 1 .. Len(out)
  BY PartTypes, Base64Types DEF Base64TypeOK
<1>4. pos - 1 = Len(coded)
  BY <1>2, Base64Types, SMT
<1>5. Len(quad) = 0
  BY <1>2
<1>6. /\ 0 = n + skip /\ Len(out) = 3 * g /\ 3 * g <= Len(message)
      /\ \A k \in DOMAIN out : out[k] = message[k]
      /\ SymbolsIn(coded, Len(coded)) = IF options.pad THEN 4 * g + 0 ELSE 4 * g + n
  BY <1>1, <1>4, <1>5 DEF PartIs
<1>7. n = 0 /\ 4 * g + 0 = 4 * g
  BY <1>3, <1>6, SMT
<1>8. SymbolsIn(coded, Len(coded)) = IF options.pad THEN PaddedLength(message) ELSE DigitCount(message)
  <2>1. ~ (size > 0)
    BY <1>2, SMT
  <2>2. QED
    BY <2>1 DEF EncodedSoFar
<1>9. PaddedLength(message) = 4 * g \/ DigitCount(message) = 4 * g
  BY <1>6, <1>7, <1>8
<1>10. Len(message) = 3 * g
  BY <1>3, <1>6, <1>9, CountsBack
<1>11. QED
  BY <1>3, <1>6, <1>10, SeqEqual

\* Reading and decoding what one has encoded oneself.
Reads == ReadDigit \/ ReadPad \/ ReadEnd \/ BadCharacter \/ Decode \/ EndOfText

LEMMA ReadsKeep ==
  ASSUME Base64TypeOK, Reads
  PROVE  /\ options' = options /\ message' = message /\ coded' = coded /\ given' = given
         /\ size' = size /\ len' = len /\ ended = "no"
BY DEF Reads, ReadDigit, ReadPad, ReadEnd, BadCharacter, Decode, EndOfText, Readout

LEMMA OwnTextReads ==
  ASSUME Base64TypeOK, OwnText, size = 0, Reads
  PROVE  OwnText'
<1>1. /\ options' = options /\ message' = message /\ coded' = coded /\ size' = size /\ ended = "no"
  BY ReadsKeep
<1>2. EncodedSoFar /\ ~ (size > 0)
  BY SMT DEF OwnText
<1>3. EncodedSoFar'
  BY <1>1, <1>2 DEF EncodedSoFar, Spells
<1>4. ASSUME ~ EndsLine
      PROVE  \/ ended' = "no" /\ (DecodedPart' \/ DecodedAll')
             \/ ended' = "ok" /\ out' = message'
  <2>1. DecodedPart \/ DecodedAll
    BY <1>1, <1>4 DEF OwnText
  <2>2. CASE DecodedAll
    <3>1. quad = << >> /\ out = message /\ ~ (pos <= Len(coded)) /\ Len(quad) # 4
      <4>1. quad = << >> /\ out = message /\ pos = Len(coded) + 1
        BY <2>2 DEF DecodedAll
      <4>2. Len(coded) \in Nat /\ Len(quad) = 0
        BY <4>1, Base64Types
      <4>3. QED
        BY <4>1, <4>2, SMT
    <3>2. EndOfText
      BY <3>1 DEF Reads, ReadDigit, ReadPad, ReadEnd, BadCharacter, Decode, Readout
    <3>3. QED
      BY <1>1, <3>1, <3>2 DEF EndOfText
  <2>3. CASE DecodedPart
    <3>1. CASE ReadDigit
      BY <1>1, <1>2, <2>3, <3>1, PartReadDigit DEF ReadDigit
    <3>2. CASE ReadPad
      BY <1>1, <1>2, <2>3, <3>2, PartReadPad DEF ReadPad
    <3>3. CASE ReadEnd
      BY <1>1, <1>2, <1>4, <2>3, <3>3, PartReadEnd DEF ReadEnd
    <3>4. CASE BadCharacter
      BY <1>2, <3>4, OwnReads
    <3>5. CASE Decode
      BY <1>2, <1>4, <2>3, <3>5, PartDecode
    <3>6. CASE EndOfText
      <4>1. out' = out /\ ended' = "ok"
        BY <3>6 DEF EndOfText
      <4>2. QED
        BY <1>1, <1>2, <2>3, <3>6, <4>1, PartEnd
    <3>7. QED
      BY <3>1, <3>2, <3>3, <3>4, <3>5, <3>6 DEF Reads
  <2>4. QED
    BY <2>1, <2>2, <2>3
<1>5. EndsLine' <=> EndsLine
  BY <1>1 DEF EndsLine
<1>6. ~ (size' > 0)
  BY <1>1, <1>2
<1>7. QED
  BY <1>3, <1>4, <1>5, <1>6 DEF OwnText
-----------------------------------------------------------------------------
(* What others have encoded, in strict mode.                                 *)

\* A padded text is read symbol by symbol.
LEMMA PaddedPlaces ==
  ASSUME Base64TypeOK, Padded, options.pad
  PROVE  /\ \A k \in 1 .. Len(coded) :
              /\ coded[k] \in Digit => InTable(k) /\ ~ IsPad(k) /\ ~ Skipped(k)
              /\ coded[k] = PadSymbol => ~ InTable(k) /\ IsPad(k) /\ ~ Skipped(k)
              /\ coded[k] \in Digit \/ coded[k] = PadSymbol
         /\ pos <= Len(coded) => Found = pos /\ pos \in 1 .. Len(coded)
<1>1. /\ Len(coded) \in Nat /\ pos \in Nat /\ 1 <= pos /\ pos <= Len(coded) + 1
      /\ DOMAIN coded = 1 .. Len(coded)
  BY Base64Types
<1>2. ASSUME NEW k \in 1 .. Len(coded)
      PROVE  /\ coded[k] \in Digit => InTable(k) /\ ~ IsPad(k) /\ ~ Skipped(k)
             /\ coded[k] = PadSymbol => ~ InTable(k) /\ IsPad(k) /\ ~ Skipped(k)
             /\ coded[k] \in Digit \/ coded[k] = PadSymbol
  <2>1. coded[k] \in Digit \/ coded[k] = PadSymbol
    BY <1>1 DEF Padded
  <2>2. CASE coded[k] \in Digit
    <3>1. coded[k] # PadSymbol
      BY <2>2, DigitIsNoOther
    <3>2. QED
      BY <2>2, <3>1 DEF InTable, IsPad, Skipped
  <2>3. CASE coded[k] = PadSymbol
    <3>1. PadSymbol \notin Digit /\ PadSymbol # Stray
      BY SMT DEF Digit, PadSymbol, Stray
    <3>2. QED
      BY <2>3, <3>1 DEF InTable, IsPad, Skipped
  <2>4. QED
    BY <2>1, <2>2, <2>3
<1>3. ASSUME pos <= Len(coded) PROVE Found = pos /\ pos \in 1 .. Len(coded)
  <2>1. pos \in 1 .. Len(coded)
    BY <1>1, <1>3, SMT
  <2>2. ~ Skipped(pos)
    BY <1>2, <2>1
  <2>3. Found \in pos .. Len(coded) + 1 /\ \A j \in pos .. Found - 1 : Skipped(j)
    BY <1>1, FoundPlace
  <2>4. pos \notin pos .. Found - 1
    BY <2>2, <2>3
  <2>5. Found = pos
    BY <1>1, <2>3, <2>4, SMT
  <2>6. QED
    BY <2>1, <2>5
<1>4. QED
  BY <1>2, <1>3

LEMMA PadsStep ==
  ASSUME NEW b \in Nat, NEW n \in Nat
  PROVE  /\ PadsRead(b, n) \in Nat
         /\ PadsRead(b, n + 1) = IF coded[b + (n + 1)] = PadSymbol THEN PadsRead(b, n) + 1 ELSE PadsRead(b, n)
<1> DEFINE upto(m) == {j \in 1 .. m : coded[b + j] = PadSymbol}
<1>1. IsFiniteSet(1 .. n) /\ upto(n) \subseteq 1 .. n
  BY FS_Interval
<1>2. IsFiniteSet(upto(n)) /\ Cardinality(upto(n)) \in Nat
  BY <1>1, FS_Subset, FS_CardinalityType
<1>3. 1 .. n + 1 = (1 .. n) \cup {n + 1} /\ n + 1 \notin 1 .. n
  BY SMT
<1>4. CASE coded[b + (n + 1)] = PadSymbol
  <2>1. upto(n + 1) = upto(n) \cup {n + 1} /\ n + 1 \notin upto(n)
    BY <1>3, <1>4
  <2>2. Cardinality(upto(n) \cup {n + 1}) = Cardinality(upto(n)) + 1
    BY <1>2, <2>1, FS_AddElement
  <2>3. QED
    BY <1>2, <1>4, <2>1, <2>2 DEF PadsRead
<1>5. CASE coded[b + (n + 1)] # PadSymbol
  <2>1. upto(n + 1) = upto(n)
    BY <1>3, <1>5
  <2>2. QED
    BY <1>2, <1>5, <2>1 DEF PadsRead
<1>6. QED
  BY <1>4, <1>5

LEMMA NoPads == ASSUME NEW b PROVE PadsRead(b, 0) = 0
<1>1. {j \in 1 .. 0 : coded[b + j] = PadSymbol} = {}
  BY SMT
<1>2. QED
  BY <1>1, FS_EmptySet DEF PadsRead

\* The part that has been read, with g groups decoded.
StrictIs(g) ==
  /\ pos = 4 * g + Len(quad) + 1
  /\ Len(out) = 3 * g
  /\ \A k \in 1 .. 4 * g : coded[k] = DigitOf(out, k)
  /\ skip = PadsRead(4 * g, Len(quad))
  /\ \A j \in DOMAIN quad : quad[j] = IF coded[4 * g + j] = PadSymbol THEN 0 ELSE coded[4 * g + j]

LEMMA StrictFacts == ASSUME Base64TypeOK, StrictPart PROVE \E g \in Nat : StrictIs(g)
<1> DEFINE b == pos - 1 - Len(quad)
           g == b \div 4
<1>1. pos \in Nat /\ Len(quad) \in Nat /\ Len(out) \in Nat
  BY Base64Types
<1>2. /\ pos > Len(quad) /\ b % 4 = 0 /\ 4 * Len(out) = 3 * b
      /\ \A k \in 1 .. b : coded[k] = DigitOf(out, k)
      /\ skip = PadsRead(b, Len(quad))
      /\ \A j \in DOMAIN quad : quad[j] = IF coded[b + j] = PadSymbol THEN 0 ELSE coded[b + j]
  BY DEF StrictPart
<1>3. b \in Nat /\ pos = b + Len(quad) + 1
  BY <1>1, <1>2, SMT
<1> HIDE DEF b
<1>4. g \in Nat /\ b = 4 * g
  BY <1>2, <1>3, SMT
<1> HIDE DEF g
<1>5. Len(out) = 3 * g
  BY <1>1, <1>2, <1>4, SMT
<1>6. StrictIs(g)
  BY <1>2, <1>3, <1>4, <1>5 DEF StrictIs
<1>7. QED
  BY <1>4, <1>6

LEMMA StrictBack ==
  ASSUME NEW g \in Nat, NEW n \in Nat
  PROVE  /\ (4 * g + n + 1) - 1 - n = 4 * g /\ 4 * g + n + 1 > n
         /\ (4 * g) % 4 = 0 /\ 4 * (3 * g) = 3 * (4 * g)
BY SMT

LEMMA StrictOfNext ==
  ASSUME NEW g \in Nat, StrictIs(g)', Len(quad') \in Nat
  PROVE  StrictPart'
<1>1. pos' = 4 * g + Len(quad') + 1 /\ Len(out') = 3 * g
  BY DEF StrictIs
<1>2. /\ (4 * g + Len(quad') + 1) - 1 - Len(quad') = 4 * g /\ 4 * g + Len(quad') + 1 > Len(quad')
      /\ (4 * g) % 4 = 0 /\ 4 * (3 * g) = 3 * (4 * g)
  BY StrictBack
<1>3. pos' - 1 - Len(quad') = 4 * g /\ pos' > Len(quad') /\ 4 * Len(out') = 3 * (4 * g)
  BY <1>1, <1>2
<1>4. QED
  BY <1>2, <1>3 DEF StrictPart, StrictIs

\* The next symbol is read.
LEMMA StrictReads ==
  ASSUME Base64TypeOK, Padded, options.pad, StrictPart, ReadDigit \/ ReadPad
  PROVE  StrictPart'
<1>1. PICK g \in Nat : StrictIs(g)
  BY StrictFacts
<1> DEFINE x == IF coded[pos] = PadSymbol THEN 0 ELSE coded[pos]
<1>q. PICK q \in Nat : q = Len(quad)
  BY Base64Types
<1>2. /\ Found <= Len(coded) /\ coded' = coded /\ out' = out
  BY DEF ReadDigit, ReadPad, Readout
<1>3. pos \in Nat /\ Len(coded) \in Nat /\ quad \in Seq(Byte)
  BY Base64Types DEF Base64TypeOK
<1>4. Found \in pos .. Len(coded) + 1
  BY <1>3, FoundPlace, Base64Types
<1>5. pos <= Len(coded)
  BY <1>2, <1>3, <1>4, SMT
<1>6. Found = pos /\ pos \in 1 .. Len(coded)
  BY <1>5, PaddedPlaces
<1>7. /\ coded[pos] \in Digit \/ coded[pos] = PadSymbol
      /\ coded[pos] \in Digit => InTable(pos) /\ ~ IsPad(pos)
      /\ coded[pos] = PadSymbol => ~ InTable(pos) /\ IsPad(pos)
  BY <1>6, PaddedPlaces
<1>8. /\ quad' = Append(quad, x) /\ pos' = pos + 1 /\ x \in Byte
      /\ skip' = IF coded[pos] = PadSymbol THEN skip + 1 ELSE skip
  <2>1. CASE coded[pos] \in Digit
    <3>1. ReadDigit /\ coded[pos] # PadSymbol /\ coded[pos] # Stray
      BY <1>6, <1>7, <2>1, DigitIsNoOther DEF ReadPad
    <3>2. coded[pos] \in Byte
      BY <2>1, SMT DEF Digit, Byte
    <3>3. QED
      BY <1>6, <3>1, <3>2 DEF ReadDigit
  <2>2. CASE coded[pos] = PadSymbol
    <3>1. ReadPad
      BY <1>6, <1>7, <2>2 DEF ReadDigit
    <3>2. 0 \in Byte
      BY SMT DEF Byte
    <3>3. QED
      BY <1>6, <2>2, <3>1, <3>2 DEF ReadPad
  <2>3. QED
    BY <1>7, <2>1, <2>2
<1>9. /\ pos = 4 * g + q + 1 /\ Len(out) = 3 * g
      /\ \A k \in 1 .. 4 * g : coded[k] = DigitOf(out, k)
      /\ skip = PadsRead(4 * g, q)
      /\ \A j \in DOMAIN quad : quad[j] = IF coded[4 * g + j] = PadSymbol THEN 0 ELSE coded[4 * g + j]
  BY <1>q, <1>1 DEF StrictIs
<1> HIDE DEF x
<1>10. /\ Len(quad') = q + 1
       /\ \A j \in DOMAIN quad' : \/ (j \in DOMAIN quad /\ quad'[j] = quad[j])
                                  \/ (j = q + 1 /\ quad'[j] = x)
  BY <1>q, <1>3, <1>8, QuadMore
<1>11. 4 * g \in Nat /\ 4 * g + q + 1 = 4 * g + (q + 1) /\ (4 * g + (q + 1)) + 1 = 4 * g + (q + 1) + 1
       /\ q + 1 \in Nat
  BY <1>3, SMT
<1>12. skip' = PadsRead(4 * g, q + 1)
  <2>1. PadsRead(4 * g, q + 1) = IF coded[4 * g + (q + 1)] = PadSymbol THEN PadsRead(4 * g, q) + 1
                                                                      ELSE PadsRead(4 * g, q)
    BY <1>11, PadsStep
  <2>2. 4 * g + (q + 1) = pos
    BY <1>9, <1>11
  <2>3. QED
    BY <1>8, <1>9, <2>1, <2>2
<1>13. \A j \in DOMAIN quad' : quad'[j] = IF coded'[4 * g + j] = PadSymbol THEN 0 ELSE coded'[4 * g + j]
  <2>1. 4 * g + (q + 1) = pos
    BY <1>9, <1>11
  <2>2. QED
    BY <1>2, <1>9, <1>10, <2>1 DEF x
<1>14. pos' = 4 * g + Len(quad') + 1
  BY <1>8, <1>9, <1>10, <1>11
<1>15. StrictIs(g)'
  BY <1>2, <1>9, <1>10, <1>12, <1>13, <1>14 DEF StrictIs, PadsRead
<1>16. Len(quad') \in Nat
  BY <1>10, <1>11
<1>17. QED
  BY <1>15, <1>16, StrictOfNext

\* A padded text ends with a group.
LEMMA StrictNoEnd ==
  ASSUME Base64TypeOK, Padded, options.pad, StrictPart
  PROVE  ~ ReadEnd /\ ~ BadCharacter
<1>1. PICK g \in Nat : StrictIs(g)
  BY StrictFacts
<1>2. /\ pos \in Nat /\ Len(coded) \in Nat /\ pos <= Len(coded) + 1 /\ Len(quad) \in Nat
      /\ quad \in Seq(Byte)
  BY Base64Types DEF Base64TypeOK
<1>3. ~ BadCharacter
  <2>1. SUFFICES ASSUME BadCharacter PROVE FALSE
    OBVIOUS
  <2>2. Found <= Len(coded) /\ ~ InTable(Found) /\ ~ IsPad(Found)
    BY <2>1 DEF BadCharacter
  <2>3. Found \in pos .. Len(coded) + 1
    BY <1>2, FoundPlace
  <2>4. Found \in 1 .. Len(coded)
    BY <2>2, <2>3, Base64Types, SMT
  <2>5. QED
    BY <2>2, <2>4, PaddedPlaces
<1>4. ~ ReadEnd
  <2>1. SUFFICES ASSUME ReadEnd PROVE FALSE
    OBVIOUS
  <2>2. Found > Len(coded) /\ Len(quad) < 4 /\ (quad = << >> => pos <= Len(coded))
    BY <2>1 DEF ReadEnd, Readout
  <2>3. ~ (pos <= Len(coded))
    <3>1. SUFFICES ASSUME pos <= Len(coded) PROVE FALSE
      OBVIOUS
    <3>2. Found = pos
      BY <3>1, PaddedPlaces
    <3>3. QED
      BY <1>2, <2>2, <3>1, <3>2, SMT
  <2>4. pos = Len(coded) + 1 /\ quad # << >>
    BY <1>2, <2>2, <2>3, SMT
  <2>5. Len(quad) # 0
    BY <1>2, <2>4, EmptySeq
  <2>6. Len(coded) = 4 * g + Len(quad)
    <3>1. pos = 4 * g + Len(quad) + 1
      BY <1>1 DEF StrictIs
    <3>2. QED
      BY <1>2, <2>4, <3>1, SMT
  <2>7. Len(coded) % 4 = 0
    BY DEF Padded
  <2>8. QED
    BY <1>2, <2>2, <2>5, <2>6, <2>7, SMT
<1>5. QED
  BY <1>3, <1>4

\* A text of whole groups is what its bytes are encoded to.
LEMMA WholeGroups ==
  ASSUME Base64TypeOK, Padded, StrictPart, EndOfText
  PROVE  coded = Canonical(out)
<1>1. PICK g \in Nat : StrictIs(g)
  BY StrictFacts
<1>2. /\ pos \in Nat /\ Len(coded) \in Nat /\ pos <= Len(coded) + 1
      /\ coded \in Seq(Symbol) /\ out \in Seq(Byte) /\ DOMAIN coded = 1 .. Len(coded)
  BY Base64Types DEF Base64TypeOK
<1>3. Len(quad) = 0 /\ pos > Len(coded)
  BY DEF EndOfText
<1>4. /\ pos = 4 * g + 0 + 1 /\ Len(out) = 3 * g
      /\ \A k \in 1 .. 4 * g : coded[k] = DigitOf(out, k)
  BY <1>1, <1>3 DEF StrictIs
<1>5. Len(coded) = 4 * g
  <2>1. pos = Len(coded) + 1
    BY <1>2, <1>3, SMT
  <2>2. 4 * g + 0 + 1 = 4 * g + 1 /\ 4 * g \in Nat
    BY SMT
  <2>3. Len(coded) + 1 = 4 * g + 1
    BY <1>4, <2>1, <2>2
  <2>4. \A x, y \in Nat : x + 1 = y + 1 => x = y
    BY SMT
  <2>5. QED
    BY <1>2, <2>2, <2>3, <2>4
<1>6. DigitCount(out) = 4 * g /\ PaddedLength(out) = 4 * g
  <2>1. (4 * (3 * g) + 2) \div 3 = 4 * g /\ 4 * ((3 * g + 2) \div 3) = 4 * g
    BY SMT
  <2>2. QED
    BY <1>4, <2>1 DEF DigitCount, PaddedLength
<1>7. \A k \in 1 .. 4 * g : k <= 4 * g
  BY SMT
<1>8. \A k \in 1 .. 4 * g : coded[k] = SymbolOf(out, k)
  BY <1>4, <1>6, <1>7 DEF SymbolOf
<1>9. coded = [k \in 1 .. Len(coded) |-> coded[k]]
  BY <1>2
<1>10. Canonical(out) = [k \in 1 .. Len(coded) |-> SymbolOf(out, k)]
  BY <1>5, <1>6 DEF Canonical
<1>11. QED
  BY <1>5, <1>8, <1>9, <1>10

LEMMA LastGroup ==
  ASSUME NEW l \in Nat, NEW g \in Nat, 4 * g + 4 <= l, l % 4 = 0
  PROVE  /\ ~ (4 * g + 1 > l - 2) /\ ~ (4 * g + 2 > l - 2)
         /\ (4 * g + 3 > l - 2 \/ 4 * g + 4 > l - 2) =>
               l = 4 * g + 4 /\ l - 1 = 4 * g + 3 /\ l > 1
<1>1. PICK h \in Nat : l = 4 * h
  <2>1. l = 4 * (l \div 4) /\ l \div 4 \in Nat
    BY SMT
  <2>2. QED
    BY <2>1
<1>2. QED
  BY <1>1, SMT

\* A group of a padded text, with its pads.
LEMMA StrictQuad ==
  ASSUME Base64TypeOK, Padded, options.pad, NEW g \in Nat, StrictIs(g), Len(quad) = 4
  PROVE  /\ quad[1] \in Digit /\ quad[2] \in Digit /\ quad[3] \in Digit /\ quad[4] \in Digit
         /\ 4 * g + 4 <= Len(coded)
         /\ coded[4 * g + 1] = quad[1] /\ coded[4 * g + 2] = quad[2]
         /\ \/ skip = 0 /\ coded[4 * g + 3] = quad[3] /\ coded[4 * g + 4] = quad[4]
            \/ /\ skip = 1 /\ coded[4 * g + 3] = quad[3] /\ coded[4 * g + 4] = PadSymbol
               /\ quad[4] = 0 /\ Len(coded) = 4 * g + 4
            \/ /\ skip = 2 /\ coded[4 * g + 3] = PadSymbol /\ coded[4 * g + 4] = PadSymbol
               /\ quad[3] = 0 /\ quad[4] = 0 /\ Len(coded) = 4 * g + 4
<1>1. /\ pos \in Nat /\ Len(coded) \in Nat /\ pos <= Len(coded) + 1 /\ DOMAIN quad = 1 .. 4
      /\ DOMAIN coded = 1 .. Len(coded)
  BY Base64Types
<1>2. /\ pos = 4 * g + 4 + 1
      /\ skip = PadsRead(4 * g, 4)
      /\ \A j \in DOMAIN quad : quad[j] = IF coded[4 * g + j] = PadSymbol THEN 0 ELSE coded[4 * g + j]
  BY DEF StrictIs
<1>3. 4 * g + 4 <= Len(coded)
  BY <1>1, <1>2, SMT
<1>4. /\ 1 \in 1 .. 4 /\ 2 \in 1 .. 4 /\ 3 \in 1 .. 4 /\ 4 \in 1 .. 4
      /\ 4 * g + 1 \in 1 .. Len(coded) /\ 4 * g + 2 \in 1 .. Len(coded)
      /\ 4 * g + 3 \in 1 .. Len(coded) /\ 4 * g + 4 \in 1 .. Len(coded)
  BY <1>1, <1>3, SMT
<1>5. /\ quad[1] = IF coded[4 * g + 1] = PadSymbol THEN 0 ELSE coded[4 * g + 1]
      /\ quad[2] = IF coded[4 * g + 2] = PadSymbol THEN 0 ELSE coded[4 * g + 2]
      /\ quad[3] = IF coded[4 * g + 3] = PadSymbol THEN 0 ELSE coded[4 * g + 3]
      /\ quad[4] = IF coded[4 * g + 4] = PadSymbol THEN 0 ELSE coded[4 * g + 4]
  BY <1>1, <1>2, <1>4
<1>6. \A k \in 1 .. Len(coded) : coded[k] \in Digit \/ (coded[k] = PadSymbol /\ k > Len(coded) - 2)
  BY <1>1 DEF Padded
<1>7. Len(coded) % 4 = 0 /\ ((Len(coded) > 1 /\ coded[Len(coded) - 1] = PadSymbol) => coded[Len(coded)] = PadSymbol)
  BY DEF Padded
<1>8. /\ ~ (4 * g + 1 > Len(coded) - 2) /\ ~ (4 * g + 2 > Len(coded) - 2)
      /\ (4 * g + 3 > Len(coded) - 2 \/ 4 * g + 4 > Len(coded) - 2) =>
            Len(coded) = 4 * g + 4 /\ Len(coded) - 1 = 4 * g + 3 /\ Len(coded) > 1
  BY <1>1, <1>3, <1>7, LastGroup
<1>9. /\ coded[4 * g + 1] \in Digit /\ coded[4 * g + 2] \in Digit
      /\ coded[4 * g + 3] \in Digit \/ (coded[4 * g + 3] = PadSymbol /\ Len(coded) = 4 * g + 4)
      /\ coded[4 * g + 4] \in Digit \/ (coded[4 * g + 4] = PadSymbol /\ Len(coded) = 4 * g + 4)
      /\ coded[4 * g + 3] = PadSymbol => coded[4 * g + 4] = PadSymbol
  <2>1. coded[4 * g + 1] \in Digit /\ coded[4 * g + 2] \in Digit
    BY <1>4, <1>6, <1>8
  <2>2. coded[4 * g + 3] \in Digit \/ (coded[4 * g + 3] = PadSymbol /\ 4 * g + 3 > Len(coded) - 2)
    BY <1>4, <1>6
  <2>3. coded[4 * g + 4] \in Digit \/ (coded[4 * g + 4] = PadSymbol /\ 4 * g + 4 > Len(coded) - 2)
    BY <1>4, <1>6
  <2>4. ASSUME coded[4 * g + 3] = PadSymbol PROVE coded[4 * g + 4] = PadSymbol
    <3>1. 4 * g + 3 > Len(coded) - 2
      BY <2>2, <2>4, DigitIsNoOther
    <3>2. Len(coded) = 4 * g + 4 /\ Len(coded) - 1 = 4 * g + 3 /\ Len(coded) > 1
      BY <1>8, <3>1
    <3>3. QED
      BY <1>7, <2>4, <3>2
  <2>5. QED
    BY <1>8, <2>1, <2>2, <2>3, <2>4
<1>10. \A j \in {1, 2, 3, 4} : coded[4 * g + j] \in Digit => coded[4 * g + j] # PadSymbol
  BY DigitIsNoOther
<1>11. 0 \in Digit
  BY SMT DEF Digit
<1>12. /\ PadsRead(4 * g, 0) = 0
       /\ PadsRead(4 * g, 1) = 0 /\ PadsRead(4 * g, 2) = 0
       /\ PadsRead(4 * g, 3) = IF coded[4 * g + 3] = PadSymbol THEN 1 ELSE 0
       /\ PadsRead(4 * g, 4) = IF coded[4 * g + 4] = PadSymbol THEN PadsRead(4 * g, 3) + 1
                                                              ELSE PadsRead(4 * g, 3)
  <2>1. 4 * g \in Nat /\ 0 + 1 = 1 /\ 1 + 1 = 2 /\ 2 + 1 = 3 /\ 3 + 1 = 4
    BY SMT
  <2>2. PadsRead(4 * g, 0) = 0
    BY NoPads
  <2>3. PadsRead(4 * g, 0 + 1) = 0
    <3>1. PadsRead(4 * g, 0 + 1) = IF coded[4 * g + (0 + 1)] = PadSymbol THEN PadsRead(4 * g, 0) + 1
                                                                       ELSE PadsRead(4 * g, 0)
      BY <2>1, PadsStep
    <3>2. QED
      BY <1>9, <1>10, <2>1, <2>2, <3>1
  <2>4. PadsRead(4 * g, 1 + 1) = 0
    <3>1. PadsRead(4 * g, 1 + 1) = IF coded[4 * g + (1 + 1)] = PadSymbol THEN PadsRead(4 * g, 1) + 1
                                                                       ELSE PadsRead(4 * g, 1)
      BY <2>1, PadsStep
    <3>2. QED
      BY <1>9, <1>10, <2>1, <2>3, <3>1
  <2>5. PadsRead(4 * g, 2 + 1) = IF coded[4 * g + 3] = PadSymbol THEN 1 ELSE 0
    <3>1. PadsRead(4 * g, 2 + 1) = IF coded[4 * g + (2 + 1)] = PadSymbol THEN PadsRead(4 * g, 2) + 1
                                                                       ELSE PadsRead(4 * g, 2)
      BY <2>1, PadsStep
    <3>2. QED
      BY <2>1, <2>4, <3>1
  <2>6. PadsRead(4 * g, 3 + 1) = IF coded[4 * g + (3 + 1)] = PadSymbol THEN PadsRead(4 * g, 3) + 1
                                                                     ELSE PadsRead(4 * g, 3)
    BY <2>1, PadsStep
  <2>7. QED
    BY <2>1, <2>2, <2>3, <2>4, <2>5, <2>6
<1>13. CASE coded[4 * g + 3] = PadSymbol
  <2>1. coded[4 * g + 4] = PadSymbol /\ Len(coded) = 4 * g + 4
    BY <1>9, <1>13, DigitIsNoOther
  <2>2. skip = 2
    BY <1>2, <1>12, <1>13, <2>1, 1 + 1 = 2
  <2>3. QED
    BY <1>3, <1>5, <1>9, <1>10, <1>11, <1>13, <2>1, <2>2
<1>14. CASE coded[4 * g + 3] \in Digit /\ coded[4 * g + 4] = PadSymbol
  <2>1. Len(coded) = 4 * g + 4 /\ coded[4 * g + 3] # PadSymbol
    BY <1>9, <1>10, <1>14, DigitIsNoOther
  <2>2. skip = 1
    BY <1>2, <1>12, <1>14, <2>1, 0 + 1 = 1
  <2>3. QED
    BY <1>3, <1>5, <1>9, <1>10, <1>11, <1>14, <2>1, <2>2
<1>15. CASE coded[4 * g + 3] \in Digit /\ coded[4 * g + 4] \in Digit
  <2>1. coded[4 * g + 3] # PadSymbol /\ coded[4 * g + 4] # PadSymbol
    BY <1>10, <1>15
  <2>2. skip = 0
    BY <1>2, <1>12, <2>1
  <2>3. QED
    BY <1>3, <1>5, <1>9, <1>10, <1>15, <2>1, <2>2
<1>16. QED
  BY <1>9, <1>13, <1>14, <1>15

\* Whole groups of bytes keep their digits.
LEMMA DigitsKept ==
  ASSUME NEW s \in Seq(Byte), NEW t \in Seq(Byte), NEW g \in Nat, Len(s) = 3 * g, Len(t) >= 3 * g,
         \A k \in 1 .. 3 * g : t[k] = s[k]
  PROVE  \A k \in 1 .. 4 * g : DigitOf(t, k) = DigitOf(s, k)
<1>1. SUFFICES ASSUME NEW k \in 1 .. 4 * g PROVE DigitOf(t, k) = DigitOf(s, k)
  OBVIOUS
<1>2. k \in Nat /\ k >= 1 /\ Len(t) \in Nat
  BY SMT
<1>3. PICK h \in Nat, j \in 1 .. 4 : k = 4 * h + j
  BY <1>2, PlaceInGroup
<1>4. h < g
  BY <1>1, <1>3, SMT
<1>5. /\ 3 * h + 1 \in 1 .. 3 * g /\ 3 * h + 2 \in 1 .. 3 * g /\ 3 * h + 3 \in 1 .. 3 * g
      /\ 3 * h + 1 <= 3 * g /\ 3 * h + 2 <= 3 * g /\ 3 * h + 3 <= 3 * g
      /\ 3 * h + 1 <= Len(t) /\ 3 * h + 2 <= Len(t) /\ 3 * h + 3 <= Len(t)
  BY <1>2, <1>4, SMT
<1>6. GroupOf(t, h) = GroupOf(s, h)
  BY <1>5 DEF GroupOf, ByteAt
<1>7. DigitOf(t, 4 * h + j) = GroupOf(t, h)[j] /\ DigitOf(s, 4 * h + j) = GroupOf(s, h)[j]
  BY DigitPlaces
<1>8. QED
  BY <1>3, <1>6, <1>7

\* What is decoded of a group is encoded to its digits.
LEMMA StrictDecode ==
  ASSUME Base64TypeOK, Padded, options.pad, options.strict, StrictPart, Decode
  PROVE  ended' = "refused" \/ (ended' = "no" /\ (StrictPart' \/ StrictAll'))
<1>1. PICK g \in Nat : StrictIs(g)
  BY StrictFacts
<1>2. /\ Len(quad) = 4 /\ ended = "no"
      /\ options' = options /\ coded' = coded /\ pos' = pos /\ skip' = skip
  BY DEF Decode
<1>3. /\ quad[1] \in Digit /\ quad[2] \in Digit /\ quad[3] \in Digit /\ quad[4] \in Digit
      /\ 4 * g + 4 <= Len(coded)
      /\ coded[4 * g + 1] = quad[1] /\ coded[4 * g + 2] = quad[2]
      /\ \/ skip = 0 /\ coded[4 * g + 3] = quad[3] /\ coded[4 * g + 4] = quad[4]
         \/ /\ skip = 1 /\ coded[4 * g + 3] = quad[3] /\ coded[4 * g + 4] = PadSymbol
            /\ quad[4] = 0 /\ Len(coded) = 4 * g + 4
         \/ /\ skip = 2 /\ coded[4 * g + 3] = PadSymbol /\ coded[4 * g + 4] = PadSymbol
            /\ quad[3] = 0 /\ quad[4] = 0 /\ Len(coded) = 4 * g + 4
  BY <1>1, <1>2, StrictQuad
<1>4. ~ (skip > 2) /\ skip <= 2 /\ (skip = 0 \/ skip = 1 \/ skip = 2)
  BY <1>3, SMT
<1>5. CASE Extraneous
  BY <1>2, <1>4, <1>5 DEF Decode
<1>6. CASE ~ Extraneous
  <2>1. out' = out \o Kept /\ quad' = << >> /\ ended' = "no"
    BY <1>2, <1>4, <1>6 DEF Decode
  <2>2. /\ ac \in Byte /\ bc \in Byte /\ cc \in Byte
        /\ Digits(ac, bc, cc)[1] = quad[1] /\ Digits(ac, bc, cc)[2] = quad[2]
        /\ Digits(ac, bc, cc)[3] = quad[3] /\ Digits(ac, bc, cc)[4] = quad[4]
    <3>1. quad[1] \in Digit /\ quad[2] \in Digit /\ quad[3] \in Digit /\ quad[4] \in Digit
      BY <1>3
    <3>2. QED
      BY <3>1, DigitsBack DEF ac, bc, cc
  <2>3. (skip = 2 => bc = 0 /\ cc = 0) /\ (skip = 1 => cc = 0)
    BY <1>6 DEF Extraneous
  <2>4. /\ Kept \in Seq(Byte) /\ Len(Kept) = 3 - skip /\ skip \in Nat
        /\ Kept[1] = ac /\ (skip < 2 => Kept[2] = bc) /\ (skip < 1 => Kept[3] = cc)
    BY <1>2, <1>4, KeptBytes
  <2>5. /\ pos = 4 * g + 4 + 1 /\ Len(out) = 3 * g
        /\ \A k \in 1 .. 4 * g : coded[k] = DigitOf(out, k)
    BY <1>1, <1>2 DEF StrictIs
  <2>6. out \in Seq(Byte) /\ coded \in Seq(Symbol) /\ Len(coded) \in Nat /\ DOMAIN coded = 1 .. Len(coded)
        /\ pos \in Nat /\ pos <= Len(coded) + 1
    BY Base64Types DEF Base64TypeOK
  <2>7. /\ out' \in Seq(Byte) /\ Len(out') = 3 * g + (3 - skip)
        /\ \A k \in 1 .. 3 * g : out'[k] = out[k]
        /\ \A k \in 1 .. 3 - skip : out'[3 * g + k] = Kept[k]
    <3>1. 3 * g \in Nat
      BY SMT
    <3>2. /\ out \o Kept \in Seq(Byte) /\ Len(out \o Kept) = 3 * g + (3 - skip)
          /\ \A k \in 1 .. 3 * g : (out \o Kept)[k] = out[k]
          /\ \A k \in 1 .. 3 - skip : (out \o Kept)[3 * g + k] = Kept[k]
      BY <1>4, <2>4, <2>5, <2>6, <3>1, BytesAppended
    <3>3. QED
      BY <2>1, <3>2
  <2> HIDE <2>1
  <2>8. \A k \in 1 .. 4 * g : DigitOf(out', k) = DigitOf(out, k)
    <3>1. \A k \in 1 .. 3 * g : out'[k] = out[k]
      BY <2>7
    <3>2. Len(out') >= 3 * g
      BY <1>4, <2>7, SMT
    <3>3. QED
      BY <2>5, <2>6, <2>7, <3>1, <3>2, DigitsKept
  <2>9. GroupOf(out', g) = Digits(ac, bc, cc)
    <3>1. ByteAt(out', 3 * g + 1) = ac
      <4>1. 1 \in 1 .. 3 - skip /\ 3 * g + 1 <= Len(out')
        BY <1>4, <2>7, SMT
      <4>2. QED
        BY <2>4, <2>7, <4>1 DEF ByteAt
    <3>2. ByteAt(out', 3 * g + 2) = bc
      <4>1. CASE skip = 2
        <5>1. ~ (3 * g + 2 <= Len(out'))
          BY <2>7, <4>1, SMT
        <5>2. QED
          BY <2>3, <4>1, <5>1 DEF ByteAt
      <4>2. CASE skip = 0 \/ skip = 1
        <5>1. 2 \in 1 .. 3 - skip /\ 3 * g + 2 <= Len(out') /\ skip < 2
          BY <2>7, <4>2, SMT
        <5>2. QED
          BY <2>4, <2>7, <5>1 DEF ByteAt
      <4>3. QED
        BY <1>4, <4>1, <4>2
    <3>3. ByteAt(out', 3 * g + 3) = cc
      <4>1. CASE skip = 1 \/ skip = 2
        <5>1. ~ (3 * g + 3 <= Len(out'))
          BY <2>7, <4>1, SMT
        <5>2. QED
          BY <2>3, <4>1, <5>1 DEF ByteAt
      <4>2. CASE skip = 0
        <5>1. 3 \in 1 .. 3 - skip /\ 3 * g + 3 <= Len(out') /\ skip < 1
          BY <2>7, <4>2, SMT
        <5>2. QED
          BY <2>4, <2>7, <5>1 DEF ByteAt
      <4>3. QED
        BY <1>4, <4>1, <4>2
    <3>4. QED
      BY <3>1, <3>2, <3>3 DEF GroupOf
  <2>10. \A j \in 1 .. 4 : DigitOf(out', 4 * g + j) = quad[j]
    <3>1. \A j \in 1 .. 4 : DigitOf(out', 4 * g + j) = Digits(ac, bc, cc)[j]
      BY <2>7, <2>9, DigitPlaces
    <3>2. \A j \in 1 .. 4 : j = 1 \/ j = 2 \/ j = 3 \/ j = 4
      BY SMT
    <3>3. QED
      BY <2>2, <3>1, <3>2
  <2>11. /\ \A k \in 1 .. 4 * g + 4 : k \in 1 .. 4 * g \/ k = 4 * g + 1 \/ k = 4 * g + 2
                                      \/ k = 4 * g + 3 \/ k = 4 * g + 4
         /\ 1 \in 1 .. 4 /\ 2 \in 1 .. 4 /\ 3 \in 1 .. 4 /\ 4 \in 1 .. 4
    BY SMT
  <2>12. \A k \in 1 .. 4 * g : coded[k] = DigitOf(out', k)
    BY <2>5, <2>8
  <2>13. CASE skip = 0
    <3>1. 4 * (g + 1) = 4 * g + 4 /\ 3 * (g + 1) = 3 * g + (3 - 0) /\ g + 1 \in Nat
          /\ 4 * g + 4 + 0 + 1 = 4 * g + 4 + 1
      BY SMT
    <3>2. \A k \in 1 .. 4 * (g + 1) : coded'[k] = DigitOf(out', k)
      BY <1>2, <1>3, <2>10, <2>11, <2>12, <2>13, <3>1
    <3>3. Len(quad') = 0 /\ DOMAIN quad' = {}
      BY <2>1
    <3>4. PadsRead(4 * (g + 1), 0)' = 0
      <4>1. {j \in 1 .. 0 : coded'[4 * (g + 1) + j] = PadSymbol} = {}
        BY SMT
      <4>2. QED
        BY <4>1, FS_EmptySet DEF PadsRead
    <3>5. StrictIs(g + 1)'
      BY <1>2, <2>5, <2>7, <2>13, <3>1, <3>2, <3>3, <3>4 DEF StrictIs, PadsRead
    <3>6. Len(quad') \in Nat
      BY <3>3
    <3>7. StrictPart'
      BY <3>1, <3>5, <3>6, StrictOfNext
    <3>8. QED
      BY <2>1, <3>7
  <2>14. CASE skip = 1 \/ skip = 2
    <3>1. Len(coded) = 4 * g + 4
      BY <1>3, <2>14, SMT
    <3>2. pos' = Len(coded') + 1
      BY <1>2, <2>5, <3>1
    <3>3. PaddedLength(out') = 4 * g + 4 /\ (skip = 1 => DigitCount(out') = 4 * g + 3)
          /\ (skip = 2 => DigitCount(out') = 4 * g + 2)
      <4>1. /\ 4 * ((3 * g + (3 - 1) + 2) \div 3) = 4 * g + 4
            /\ 4 * ((3 * g + (3 - 2) + 2) \div 3) = 4 * g + 4
            /\ (4 * (3 * g + (3 - 1)) + 2) \div 3 = 4 * g + 3
            /\ (4 * (3 * g + (3 - 2)) + 2) \div 3 = 4 * g + 2
        BY SMT
      <4>2. QED
        BY <2>7, <2>14, <4>1 DEF PaddedLength, DigitCount
    <3>4. ASSUME NEW k \in 1 .. 4 * g + 4 PROVE coded[k] = SymbolOf(out', k)
      <4>1. CASE k \in 1 .. 4 * g
        <5>1. k <= 4 * g + 3 /\ k <= 4 * g + 2
          BY <4>1, SMT
        <5>2. QED
          BY <2>12, <2>14, <3>3, <4>1, <5>1 DEF SymbolOf
      <4>2. CASE k = 4 * g + 1 \/ k = 4 * g + 2
        <5>1. k <= 4 * g + 3 /\ k <= 4 * g + 2
          BY <4>2, SMT
        <5>2. coded[k] = DigitOf(out', k)
          BY <1>3, <2>10, <2>11, <4>2
        <5>3. QED
          BY <2>14, <3>3, <5>1, <5>2 DEF SymbolOf
      <4>3. CASE k = 4 * g + 3 /\ skip = 1
        <5>1. k <= 4 * g + 3 /\ skip # 0 /\ skip # 2
          BY <4>3, SMT
        <5>2. coded[k] = DigitOf(out', k)
          BY <1>3, <2>10, <2>11, <4>3, <5>1
        <5>3. QED
          BY <3>3, <4>3, <5>1, <5>2 DEF SymbolOf
      <4>4. CASE k = 4 * g + 3 /\ skip = 2
        <5>1. ~ (k <= 4 * g + 2) /\ skip # 0 /\ skip # 1
          BY <4>4, SMT
        <5>2. QED
          BY <1>3, <3>3, <4>4, <5>1 DEF SymbolOf
      <4>5. CASE k = 4 * g + 4
        <5>1. ~ (k <= 4 * g + 2) /\ ~ (k <= 4 * g + 3)
          BY <4>5, SMT
        <5>2. coded[k] = PadSymbol
          BY <1>3, <2>14, <4>5, 0 # 1, 0 # 2
        <5>3. QED
          BY <2>14, <3>3, <5>1, <5>2 DEF SymbolOf
      <4>6. QED
        BY <2>11, <2>14, <4>1, <4>2, <4>3, <4>4, <4>5
    <3>5. coded' = Canonical(out')
      <4>1. coded = [k \in 1 .. 4 * g + 4 |-> coded[k]]
        BY <2>6, <3>1
      <4>2. Canonical(out') = [k \in 1 .. 4 * g + 4 |-> SymbolOf(out', k)]
        BY <3>3 DEF Canonical
      <4>3. QED
        BY <1>2, <3>4, <4>1, <4>2
    <3>6. StrictAll'
      BY <2>1, <3>2, <3>5 DEF StrictAll
    <3>7. QED
      BY <2>1, <3>6
  <2>15. QED
    BY <1>4, <2>13, <2>14
<1>7. QED
  BY <1>5, <1>6

LEMMA StrictTextReads ==
  ASSUME Base64TypeOK, StrictText, size = 0, Reads
  PROVE  StrictText'
<1>1. /\ options' = options /\ coded' = coded /\ ended = "no"
  BY ReadsKeep
<1>2. SUFFICES ASSUME options.strict, options.pad, Padded
               PROVE  /\ ended' = "no" => StrictPart' \/ StrictAll'
                      /\ ended' = "ok" => coded' = Canonical(out')
  BY <1>1 DEF StrictText, Padded
<1>3. StrictPart \/ StrictAll
  BY <1>1, <1>2 DEF StrictText
<1>4. CASE StrictAll
  <2>1. quad = << >> /\ coded = Canonical(out) /\ ~ (pos <= Len(coded)) /\ Len(quad) # 4
    <3>1. quad = << >> /\ coded = Canonical(out) /\ pos = Len(coded) + 1
      BY <1>4 DEF StrictAll
    <3>2. Len(coded) \in Nat /\ Len(quad) = 0
      BY <3>1, Base64Types
    <3>3. QED
      BY <3>1, <3>2, SMT
  <2>2. EndOfText
    BY <2>1 DEF Reads, ReadDigit, ReadPad, ReadEnd, BadCharacter, Decode, Readout
  <2>3. QED
    BY <1>1, <2>1, <2>2 DEF EndOfText
<1>5. CASE StrictPart
  <2>1. CASE ReadDigit \/ ReadPad
    <3>1. ended' = "no"
      BY <1>1, <2>1 DEF ReadDigit, ReadPad
    <3>2. QED
      BY <1>2, <1>5, <2>1, <3>1, StrictReads
  <2>2. CASE ReadEnd \/ BadCharacter
    BY <1>2, <1>5, <2>2, StrictNoEnd
  <2>3. CASE Decode
    BY <1>2, <1>5, <2>3, StrictDecode
  <2>4. CASE EndOfText
    <3>1. ended' = "ok" /\ out' = out
      BY <2>4 DEF EndOfText
    <3>2. QED
      BY <1>1, <1>2, <1>5, <2>4, <3>1, WholeGroups
  <2>5. QED
    BY <2>1, <2>2, <2>3, <2>4 DEF Reads
<1>6. QED
  BY <1>3, <1>4, <1>5

\* Every step keeps what is inductive.
LEMMA ReadsIInv == ASSUME Base64IInv, size = 0, Reads PROVE Base64IInv'
<1>1. Base64TypeOK /\ skip <= Len(quad) + 2
  BY DEF Base64IInv
<1>2. Base64TypeOK' /\ skip' <= Len(quad') + 2
  BY <1>1, ReadTypes, DecodeTypes DEF Reads
<1>3. given' = given /\ size' = size
  BY <1>1, ReadsKeep
<1>4. ~ given => OwnText'
  BY <1>1, OwnTextReads DEF Base64IInv
<1>5. given => StrictText'
  BY <1>1, StrictTextReads DEF Base64IInv
<1>6. QED
  BY <1>2, <1>3, <1>4, <1>5 DEF Base64IInv

LEMMA Base64NextIInv == Base64IInv /\ [Base64Next]_base64Vars => Base64IInv'
<1> SUFFICES ASSUME Base64IInv, [Base64Next]_base64Vars PROVE Base64IInv'
  OBVIOUS
<1>1. CASE EncodeGroup
  BY <1>1, EncodeGroupIInv
<1>2. CASE EncodeRest
  BY <1>2, EncodeRestIInv
<1>3. CASE Reads
  <2>1. CASE size = 0
    BY <1>3, <2>1, ReadsIInv
  <2>2. CASE size # 0
    <3>1. ~ given /\ size > 0
      BY <2>2, Base64Types, SMT DEF Base64IInv
    <3>2. quad = << >>
      BY <3>1 DEF Base64IInv, OwnText
    <3>3. Len(quad) # 4
      BY <3>2
    <3>4. QED
      BY <1>3, <2>2, <3>3 DEF Reads, ReadDigit, ReadPad, ReadEnd, BadCharacter, Decode, EndOfText, Readout
  <2>3. QED
    BY <2>1, <2>2
<1>4. CASE UNCHANGED base64Vars
  <2>1. UNCHANGED <<options, message, coded, given, size, len, pos, quad, skip, out, ended>>
    BY <1>4 DEF base64Vars
  <2>2. Base64TypeOK' /\ skip' <= Len(quad') + 2
    BY <2>1 DEF Base64IInv, Base64TypeOK
  <2>3. EncodedSoFar' <=> EncodedSoFar
    BY <2>1 DEF EncodedSoFar, Spells
  <2>4. (DecodedPart' <=> DecodedPart) /\ (DecodedAll' <=> DecodedAll) /\ (EndsLine' <=> EndsLine)
    BY <2>1 DEF DecodedPart, DecodedAll, EndsLine
  <2>5. OwnText' <=> OwnText
    BY <2>1, <2>3, <2>4 DEF OwnText
  <2>6. (Padded' <=> Padded) /\ (StrictPart' <=> StrictPart) /\ (StrictAll' <=> StrictAll)
    BY <2>1 DEF Padded, StrictPart, StrictAll, PadsRead
  <2>7. StrictText' <=> StrictText
    BY <2>1, <2>6 DEF StrictText
  <2>8. QED
    BY <2>1, <2>2, <2>5, <2>7 DEF Base64IInv
<1>5. QED
  BY <1>1, <1>2, <1>3, <1>4 DEF Base64Next, Reads

\* Base64IInv always holds: of its own text the decoder has the first bytes, ...
THEOREM Base64Invariance == Base64Spec => []Base64IInv
<1>1. QED
  BY Base64InitIInv, Base64NextIInv, PTL DEF Base64Spec

\* b64meta_decode() gives back what b64meta_encode() was given.
THEOREM DecodesBack == Base64Spec => []RoundTrip
<1>1. Base64IInv => RoundTrip
  <2>1. SUFFICES ASSUME Base64IInv, ~ given, ended # "no", ~ EndsLine
                 PROVE  ended = "ok" /\ out = message
    BY DEF RoundTrip
  <2>2. OwnText
    BY <2>1 DEF Base64IInv
  <2>3. size = 0
    <3>1. ~ (size > 0)
      BY <2>1, <2>2 DEF OwnText
    <3>2. QED
      BY <2>1, <3>1, Base64Types, SMT DEF Base64IInv
  <2>4. QED
    BY <2>1, <2>2, <2>3 DEF OwnText
<1>2. QED
  BY <1>1, Base64Invariance, PTL

\* In strict mode, of all padded texts one is decoded to a message.
THEOREM StrictRefuses == Base64Spec => []StrictIsCanonical
<1>1. Base64IInv => StrictIsCanonical
  BY DEF Base64IInv, StrictText, StrictIsCanonical
<1>2. QED
  BY <1>1, Base64Invariance, PTL
-----------------------------------------------------------------------------
(* The parts together, and the shift register.                              *)

\* A bit of a number that is turned over leaves a number.
LEMMA TurnedType == ASSUME NEW n \in Nat, NEW bit \in {128, 32, 16, 4, 32768, 8192, 4096, 1024}
                    PROVE  Shift!Turned(n, bit) \in Nat
<1>1. (n \div bit) % 2 = 1 => n >= bit
  BY SMT
<1>2. QED
  BY <1>1, SMT DEF Shift!Turned

LEMMA ShiftedType == ASSUME lfsr \in Nat
                     PROVE  Shift!Shifted \in Nat
<1>1. lfsr \div 2 \in Nat
  BY SMT
<1>2. CASE bits = 8
  <2>1. Shift!Taps(bits) = <<128, 32, 16, 4>>
    BY <1>2 DEF Shift!Taps
  <2>2. ASSUME NEW n \in Nat
        PROVE  Shift!Turned(Shift!Turned(Shift!Turned(Shift!Turned(n, 128), 32), 16), 4) \in Nat
    <3>1. Shift!Turned(n, 128) \in Nat
      BY TurnedType
    <3>2. Shift!Turned(Shift!Turned(n, 128), 32) \in Nat
      BY <3>1, TurnedType
    <3>3. Shift!Turned(Shift!Turned(Shift!Turned(n, 128), 32), 16) \in Nat
      BY <3>2, TurnedType
    <3>4. QED
      BY <3>3, TurnedType
  <2>3. QED
    BY <1>1, <2>1, <2>2 DEF Shift!Shifted
<1>3. CASE bits # 8
  <2>1. Shift!Taps(bits) = <<32768, 8192, 4096, 1024>>
    BY <1>3 DEF Shift!Taps
  <2>2. ASSUME NEW n \in Nat
        PROVE  Shift!Turned(Shift!Turned(Shift!Turned(Shift!Turned(n, 32768), 8192), 4096), 1024) \in Nat
    <3>1. Shift!Turned(n, 32768) \in Nat
      BY TurnedType
    <3>2. Shift!Turned(Shift!Turned(n, 32768), 8192) \in Nat
      BY <3>1, TurnedType
    <3>3. Shift!Turned(Shift!Turned(Shift!Turned(n, 32768), 8192), 4096) \in Nat
      BY <3>2, TurnedType
    <3>4. QED
      BY <3>3, TurnedType
  <2>3. QED
    BY <1>1, <2>1, <2>2 DEF Shift!Shifted
<1>4. QED
  BY <1>2, <1>3

\* lfsrnext() keeps its upvalue in the mask.
LEMMA ShiftTypes == ASSUME Shift!TypeOK, Shift!Next
                    PROVE  Shift!TypeOK'
<1>1. PICK r \in Registers : bits = r.bits /\ seed = r.seed /\ r.seed \in Nat
  BY Assumptions DEF Shift!TypeOK, Shift!LfsrAssumption
<1>2. Shift!Bits(bits) \in {255, 65535}
  BY DEF Shift!Bits
<1>3. lfsr \in Nat
  BY <1>1, <1>2 DEF Shift!TypeOK
<1>4. Shift!Shifted \in Nat
  BY <1>3, ShiftedType
<1>5. bits' = bits /\ seed' = seed
  BY DEF Shift!Next
<1>6. Shift!Bits(bits)' = Shift!Bits(bits)
  BY <1>5 DEF Shift!Bits
<1>7. lfsr' \in 0 .. Shift!Bits(bits)
  <2>1. lfsr' = Shift!Shifted % (Shift!Bits(bits) + 1)
    BY DEF Shift!Next
  <2>2. QED
    BY <1>2, <1>4, <2>1, SMT
<1>8. steps' \in 0 .. Shift!Bits(bits) - 1
  <2>1. steps' = (steps + 1) % Shift!Bits(bits) /\ steps \in 0 .. Shift!Bits(bits) - 1
    BY DEF Shift!Next, Shift!TypeOK
  <2>2. QED
    BY <1>2, <2>1, SMT
<1>9. QED
  BY <1>5, <1>6, <1>7, <1>8 DEF Shift!TypeOK

\* What a part keeps to, if it is the one there is.
PartsIInv == /\ part = "wrap"   => WrapIInv
             /\ part = "base64" => Base64IInv
             /\ part = "lfsr"   => Shift!TypeOK

\* Texts, messages and registers have values of their kinds, in whichever part there is: an
\* index into a text stays in it, a byte is one, and the register keeps to its mask.
THEOREM PartsTyped == MCSpec => []TypesOK
<1>1. MCInit => PartsIInv
  <2>1. ASSUME MCInit, part = "lfsr" PROVE Shift!TypeOK
    <3>1. PICK r \in Registers : bits = r.bits /\ seed = r.seed
      BY <2>1 DEF MCInit, Shift!Init
    <3>2. r.bits \in {8, 16} /\ r.seed \in Nat
      BY Assumptions DEF Shift!LfsrAssumption
    <3>3. [bits |-> bits, seed |-> seed] \in Registers
      BY <3>1, Assumptions DEF Shift!LfsrAssumption
    <3>4. lfsr = seed /\ steps = 0
      BY <2>1 DEF MCInit, Shift!Init
    <3>5. Shift!Bits(bits) \in {255, 65535}
      BY DEF Shift!Bits
    <3>6. QED
      BY <3>3, <3>4, <3>5 DEF Shift!TypeOK
  <2>2. QED
    BY <2>1, WrapInitIInv, Base64InitIInv DEF MCInit, PartsIInv
<1>2. PartsIInv /\ [MCNext]_allVars => PartsIInv'
  <2>1. SUFFICES ASSUME PartsIInv, [MCNext]_allVars PROVE PartsIInv'
    OBVIOUS
  <2>2. part' = part
    BY <2>1 DEF MCNext, Queue, Wrapping, Decoding, Shifting, allVars
  <2>3. ASSUME part = "wrap" PROVE WrapIInv'
    <3>1. WrapIInv
      BY <2>1, <2>3 DEF PartsIInv
    <3>2. [WrapNext]_wrapVars
      BY <2>1, <2>3 DEF MCNext, Queue, Wrapping, Decoding, Shifting, allVars
    <3>3. QED
      BY <3>1, <3>2, WrapNextIInv, WrapStutter
  <2>4. ASSUME part = "base64" PROVE Base64IInv'
    <3>1. Base64IInv
      BY <2>1, <2>4 DEF PartsIInv
    <3>2. [Base64Next]_base64Vars
      BY <2>1, <2>4 DEF MCNext, Queue, Wrapping, Decoding, Shifting, allVars
    <3>3. QED
      BY <3>1, <3>2, Base64NextIInv
  <2>5. ASSUME part = "lfsr" PROVE Shift!TypeOK'
    <3>1. Shift!TypeOK
      BY <2>1, <2>5 DEF PartsIInv
    <3>2. Shift!Next \/ UNCHANGED lfsrVars
      BY <2>1, <2>5 DEF MCNext, Queue, Wrapping, Decoding, Shifting, allVars
    <3>3. CASE UNCHANGED lfsrVars
      BY <3>1, <3>3 DEF lfsrVars, Shift!TypeOK, Shift!Bits
    <3>4. QED
      BY <3>1, <3>2, <3>3, ShiftTypes
  <2>6. QED
    BY <2>2, <2>3, <2>4, <2>5 DEF PartsIInv
<1>3. PartsIInv => TypesOK
  BY DEF PartsIInv, TypesOK, WrapIInv, Base64IInv
<1>4. QED
  BY <1>1, <1>2, <1>3, PTL DEF MCSpec
=============================================================================
