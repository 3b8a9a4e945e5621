---------------------------- MODULE TimeoutQueue ----------------------------
(***************************************************************************)
(* TOQUEUE of lua/nfl.lua: a binary heap of timers, kept in the array part *)
(* of a Lua table, whose hash part maps a coroutine to one of its entries. *)
(*                                                                         *)
(* insert() and remove() finish with a loop (bubble_up and bubble_down,    *)
(* tail-recursive local functions); each turn of a loop is a step here, so *)
(* that what the loop keeps true can be stated and proved.                 *)
(***************************************************************************)
EXTENDS Naturals, Sequences

CONSTANTS Co,        \* the coroutines
          Info,      \* identities of the entries: the `info' tables of insert()
          NoInfo,    \* nil: the coroutine has no entry in the hash part
          Garbage,   \* content of an entry that nothing refers to
          Delays,    \* the delays passed to timeout(), other than 0
          MaxClock   \* bound: no timer is armed for a later time

ASSUME QueueAssumption ==
  /\ Delays \subseteq Nat \ {0}
  /\ MaxClock \in Nat
  /\ NoInfo \notin Info
  /\ Garbage \notin [awake : Nat, trigger : BOOLEAN, co : Co]

VARIABLES clock,     \* clock.get('monotonic')
          heap,      \* the array part: heap[1] is TOQUEUE[1]
          index,     \* the hash part: index[co] is TOQUEUE[co]
          info,      \* the content of each entry
          pc,        \* "idle", or the loop that is running: "up" or "down"
          cur        \* where that loop stands in the heap; 0 when idle

vars == <<clock, heap, index, info, pc, cur>>

Entry == [awake : Nat, trigger : BOOLEAN, co : Co]

Members == {heap[k] : k \in DOMAIN heap}

Awake(k) == info[heap[k]].awake

Parent(k) == k \div 2

TypeOK == /\ clock \in 0 .. MaxClock
          /\ heap \in Seq(Info)
          /\ index \in [Co -> Info \cup {NoInfo}]
          /\ info \in [Info -> Entry \cup {Garbage}]
          /\ pc \in {"idle", "up", "down"}
          /\ cur \in Nat

Init == /\ clock = 0
        /\ heap = <<>>
        /\ index = [co \in Co |-> NoInfo]
        /\ info = [i \in Info |-> Garbage]
        /\ pc = "idle"
        /\ cur = 0
-----------------------------------------------------------------------------
\* As Insert, with the place of the entry instead of the entry in the hash part.
InsertPlace(co, when) ==
  /\ pc = "idle"
  /\ clock + when <= MaxClock
  /\ \E i \in Info \ Members :
        /\ heap' = Append(heap, i)
        /\ index' = [index EXCEPT ![co] = Len(heap) + 1]
        /\ info' = [info EXCEPT ![i] =
                      [awake |-> clock + when, trigger |-> TRUE, co |-> co]]
  /\ pc' = "up"
  /\ cur' = Len(heap) + 1
  /\ UNCHANGED clock

\* timeout(when) of a running coroutine, when # 0: the entry goes to the end
\* of the array and replaces whatever entry the hash part had for co.
Insert(co, when) ==
  /\ pc = "idle"
  /\ clock + when <= MaxClock
  /\ \E i \in Info \ Members :
        /\ heap' = Append(heap, i)
        /\ index' = [index EXCEPT ![co] = i]
        /\ info' = [info EXCEPT ![i] =
                      [awake |-> clock + when, trigger |-> TRUE, co |-> co]]
  /\ pc' = "up"
  /\ cur' = Len(heap) + 1
  /\ UNCHANGED clock

\* timeout(0): the entry found through the hash part, if any, is disarmed and
\* left where it is.
Cancel(co) ==
  /\ pc = "idle"
  /\ index[co] # NoInfo
  /\ info' = [info EXCEPT ![index[co]].trigger = FALSE]
  /\ UNCHANGED <<clock, heap, index, pc, cur>>

Swap(a, b) == [heap EXCEPT ![a] = heap[b], ![b] = heap[a]]

BubbleUp ==
  /\ pc = "up"
  /\ IF Parent(cur) > 0 /\ Awake(Parent(cur)) > Awake(cur)
     THEN /\ heap' = Swap(Parent(cur), cur)
          /\ cur' = Parent(cur)
          /\ UNCHANGED pc
     ELSE /\ pc' = "idle"
          /\ cur' = 0
          /\ UNCHANGED heap
  /\ UNCHANGED <<clock, index, info>>

KeepIndex(co) == index

\* self[res.co] = nil, whichever entry of co that was.
ForgetIndex(co) == [index EXCEPT ![co] = NoInfo]

FirstOverwritten == IF Len(heap) > 1 THEN [heap EXCEPT ![1] = heap[Len(heap)]] ELSE <<>>

\* table.remove(self): the last entry leaves its place for the first.
FirstReplaced ==
  LET rest == SubSeq(heap, 1, Len(heap) - 1)
  IN IF Len(heap) > 1 THEN [rest EXCEPT ![1] = heap[Len(heap)]] ELSE rest

\* The event loop takes the first entry off when it is due or cancelled: the
\* last entry moves to the front, and the hash part forgets the coroutine.
Remove ==
  /\ pc = "idle"
  /\ heap # <<>>
  /\ LET res == heap[1]
     IN /\ info[res].trigger => info[res].awake <= clock
        /\ index' = ForgetIndex(info[res].co)
        /\ info' = [info EXCEPT ![res] = Garbage]
  /\ heap' = FirstReplaced
  /\ pc' = IF Len(heap) > 1 THEN "down" ELSE "idle"
  /\ cur' = IF Len(heap) > 1 THEN 1 ELSE 0
  /\ UNCHANGED clock

\* As Smallest, without a look at the right child.
LeftOnly(k) == IF 2 * k <= Len(heap) /\ Awake(2 * k) < Awake(k) THEN 2 * k ELSE k

\* Of a place and its two children, the one with the earliest time; the place
\* itself, then the left child, are preferred on a tie.
Smallest(k) ==
  LET Best(a, b) == IF b <= Len(heap) /\ Awake(b) < Awake(a) THEN b ELSE a
  IN Best(Best(k, 2 * k), 2 * k + 1)

BubbleDown ==
  /\ pc = "down"
  /\ IF Smallest(cur) # cur
     THEN /\ heap' = Swap(cur, Smallest(cur))
          /\ cur' = Smallest(cur)
          /\ UNCHANGED pc
     ELSE /\ pc' = "idle"
          /\ cur' = 0
          /\ UNCHANGED heap
  /\ UNCHANGED <<clock, index, info>>

\* Time passes between the calls; insert() and remove() read the clock once.
Tick == /\ pc = "idle"
        /\ clock < MaxClock
        /\ clock' = clock + 1
        /\ UNCHANGED <<heap, index, info, pc, cur>>

Next == \/ \E co \in Co : (\E when \in Delays : Insert(co, when)) \/ Cancel(co)
        \/ Remove
        \/ BubbleUp
        \/ BubbleDown
        \/ Tick

Spec == Init /\ [][Next]_vars
-----------------------------------------------------------------------------
\* Between calls the array is a heap: no entry is due before its parent.
\* The event loop looks at TOQUEUE[1] only and sleeps until its time, so a
\* misplaced entry would be slept over.
HeapOrdered ==
  pc = "idle" => \A k \in 2 .. Len(heap) : Awake(Parent(k)) <= Awake(k)

\* TOQUEUE[co], when there is one, is an entry still in the array and belongs
\* to co: timeout(0) never touches another coroutine's timer (the assertion in
\* timeout()) nor one that has already fired.
IndexInHeap ==
  \A co \in Co : index[co] # NoInfo =>
     /\ index[co] \in Members
     /\ info[index[co]].co = co

\* No entry is in the array twice, so none fires twice or is lost when the
\* last entry is moved over the first.
NoDuplicate == \A j, k \in DOMAIN heap : heap[j] = heap[k] => j = k

-----------------------------------------------------------------------------
(* The inductive invariant.  While a loop runs the array is a heap except   *)
(* at the loop's place: bubble_up has one entry that may be due before its  *)
(* parent, bubble_down one that may be due after its children, and in both  *)
(* cases the entries around that place are in order across it.              *)

\* The times of the entries, by their place.
Times == [k \in DOMAIN heap |-> Awake(k)]

\* The children of place c are not due before the parent of c.
OrderedAcross(t, c) ==
  \A k \in DOMAIN t : Parent(k) = c /\ c > 1 => t[Parent(c)] <= t[k]

OrderedBut(t, Exempt(_)) ==
  \A k \in DOMAIN t : k > 1 /\ ~ Exempt(k) => t[Parent(k)] <= t[k]

UpShape(t, c) == OrderedBut(t, LAMBDA k : k = c) /\ OrderedAcross(t, c)

DownShape(t, c) == OrderedBut(t, LAMBDA k : Parent(k) = c) /\ OrderedAcross(t, c)

Shape == /\ pc = "idle" => HeapOrdered /\ cur = 0
         /\ pc = "up" => cur \in DOMAIN heap /\ UpShape(Times, cur)
         /\ pc = "down" => cur \in DOMAIN heap /\ DownShape(Times, cur)

\* An entry of the array holds a timer, an entry outside of it holds none.
LiveEntries == \A i \in Info : info[i] \in Entry <=> i \in Members

IInv == TypeOK /\ NoDuplicate /\ LiveEntries /\ IndexInHeap /\ Shape
-----------------------------------------------------------------------------
\* The queue behaves as the plain collection of timers of TimerBag: a timer
\* leaves only when it is due or cancelled, and never before an earlier one.
Bag == INSTANCE TimerBag WITH pending <- Members

ImplementsBag == Bag!BagSpec
=============================================================================
