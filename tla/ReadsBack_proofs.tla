-------------------------- MODULE ReadsBack_proofs ---------------------------
(***************************************************************************)
(* Proofs about the parts of Bindings where what the program writes can be *)
(* read again: the options of sockets, addresses, the tree of files and    *)
(* paths.  Each part has an inductive invariant, of the types of its       *)
(* variables and of what they say of each other, from which follows what   *)
(* ReadsBack asks of the part; Bindings_proofs puts them together.         *)
(***************************************************************************)
EXTENDS Bindings, TLAPS, SequenceTheorems, FiniteSetTheorems, WellFoundedInduction

\* What is proved by the least counterexample: one there is.
LEMMA LowestOf == ASSUME NEW S \in SUBSET Nat, S # {}
                  PROVE  \E n \in S : \A m \in S : n <= m
<1> DEFINE R == {ss \in Nat \X Nat : ss[1] < ss[2]}
<1>1. R = OpToRel(<, Nat)
  BY Zenon DEF OpToRel
<1>2. PICK n \in S : \A m \in S : ~ (<<m, n>> \in R)
  <2>1. IsWellFoundedOn(R, Nat)
    BY <1>1, NatLessThanWellFounded
  <2> QED
    BY <2>1, WFMin
<1>3. \A m \in S : n <= m
  <2> SUFFICES ASSUME NEW m \in S PROVE n <= m
    OBVIOUS
  <2>1. m \in Nat /\ n \in Nat
    OBVIOUS
  <2>2. m < n => <<m, n>> \in R
    BY <2>1
  <2>3. ~ (m < n)
    BY <1>2, <2>2
  <2> QED
    BY <2>1, <2>3
<1> QED
  BY <1>3
-----------------------------------------------------------------------------
(* The options of a socket have values of their kinds.                      *)

SoptFlags == {"broadcast", "closeexec", "debug", "dontroute", "keepalive", "nodelay", "quickack", "nonblock",
              "oobinline", "reuseaddr", "reuseport"}
SoptValues(n) == IF n = "linger" THEN [on : BOOLEAN, linger : {0} \cup Integer]
                 ELSE IF n \in SoptFlags THEN BOOLEAN ELSE {0} \cup Integer
SoptReadings(n) == IF n = "linger" \/ n \in SoptFlags THEN SoptValues(n) ELSE Nat

LEMMA SoptAssumed == /\ U!SockOptionsAssumption
                     /\ \A n : SoptValues(n) \subseteq SoptReadings(n)
<1>1. U!SockOptionsAssumption
  BY Assumptions, Zenon
<1>2. {0} \cup Integer \subseteq Nat
  BY <1>1 DEF U!SockOptionsAssumption
<1>3. ASSUME NEW n PROVE SoptValues(n) \subseteq SoptReadings(n)
  <2>1. CASE n = "linger" \/ n \in SoptFlags
    BY <2>1 DEF SoptReadings
  <2>2. CASE ~ (n = "linger" \/ n \in SoptFlags)
    <3>1. SoptValues(n) = {0} \cup Integer /\ SoptReadings(n) = Nat
      BY <2>2 DEF SoptValues, SoptReadings
    <3> QED
      BY <1>2, <3>1
  <2> QED
    BY <2>1, <2>2
<1> QED
  BY <1>1, <1>3

LEMMA SoptDomain == DOMAIN U!m_sockoptions = 1 .. 23
BY DEF U!m_sockoptions

\* A row that has a flag, a word or a pair of numbers says so by its type.
SoptSound(row) == /\ row.type = "LINGER" <=> row.name = "linger"
                  /\ row.type \in {"FLAG", "FCNTL"} <=> row.name \in SoptFlags
                  /\ row.type \in {"LINGER", "FLAG", "FCNTL", "INT", "IOCTL"}

LEMMA SoptRow == ASSUME NEW key, NEW name, NEW level, NEW type, NEW set,
                        type = "LINGER" <=> name = "linger",
                        type \in {"FLAG", "FCNTL"} <=> name \in SoptFlags,
                        type \in {"LINGER", "FLAG", "FCNTL", "INT", "IOCTL"}
                 PROVE  SoptSound(U!Row(key, name, level, type, set))
BY DEF SoptSound, U!Row

LEMMA SoptAllSound == \A k \in 1 .. 23 : SoptSound(U!m_sockoptions[k])
<1>1. /\ SoptSound(U!m_sockoptions[1]) /\ SoptSound(U!m_sockoptions[2]) /\ SoptSound(U!m_sockoptions[3])
         /\ SoptSound(U!m_sockoptions[4]) /\ SoptSound(U!m_sockoptions[5]) /\ SoptSound(U!m_sockoptions[6])
  BY SoptRow DEF U!m_sockoptions, SoptFlags
<1>2. /\ SoptSound(U!m_sockoptions[7]) /\ SoptSound(U!m_sockoptions[8]) /\ SoptSound(U!m_sockoptions[9])
         /\ SoptSound(U!m_sockoptions[10]) /\ SoptSound(U!m_sockoptions[11]) /\ SoptSound(U!m_sockoptions[12])
  BY SoptRow DEF U!m_sockoptions, SoptFlags
<1>3. /\ SoptSound(U!m_sockoptions[13]) /\ SoptSound(U!m_sockoptions[14]) /\ SoptSound(U!m_sockoptions[15])
         /\ SoptSound(U!m_sockoptions[16]) /\ SoptSound(U!m_sockoptions[17]) /\ SoptSound(U!m_sockoptions[18])
  BY SoptRow DEF U!m_sockoptions, SoptFlags
<1>4. /\ SoptSound(U!m_sockoptions[19]) /\ SoptSound(U!m_sockoptions[20]) /\ SoptSound(U!m_sockoptions[21])
         /\ SoptSound(U!m_sockoptions[22]) /\ SoptSound(U!m_sockoptions[23])
  BY SoptRow DEF U!m_sockoptions, SoptFlags
<1> QED
  BY <1>1, <1>2, <1>3, <1>4

LEMMA SoptKind == ASSUME NEW row \in U!Rows
  PROVE  /\ row.type = "LINGER" <=> row.name = "linger"
         /\ row.type \in {"FLAG", "FCNTL"} <=> row.name \in SoptFlags
         /\ row.type \in {"LINGER", "FLAG", "FCNTL", "INT", "IOCTL"}
         /\ row.name \in U!Names
<1>1. PICK k \in 1 .. 23 : row = U!m_sockoptions[k]
  BY SoptDomain DEF U!Rows
<1> QED
  BY <1>1, SoptAllSound DEF U!Names, SoptSound

LEMMA SoptValuesOf == ASSUME NEW row \in U!Rows PROVE U!Values(row) = SoptValues(row.name)
<1>1. CASE row.type = "LINGER"
  BY <1>1, SoptKind DEF U!Values, SoptValues
<1>2. CASE row.type \in {"FLAG", "FCNTL"}
  BY <1>2, SoptKind DEF U!Values, SoptValues, SoptFlags
<1>3. CASE ~ (row.type = "LINGER") /\ ~ (row.type \in {"FLAG", "FCNTL"})
  BY <1>3, SoptKind DEF U!Values, SoptValues
<1> QED
  BY <1>1, <1>2, <1>3

LEMMA SoptReadingsOf == ASSUME NEW row \in U!Rows PROVE U!Readings(row) = SoptReadings(row.name)
<1>1. CASE row.type \in {"INT", "IOCTL"}
  BY <1>1, SoptKind DEF U!Readings, SoptReadings
<1>2. CASE ~ (row.type \in {"INT", "IOCTL"})
  <2>1. row.name = "linger" \/ row.name \in SoptFlags
    BY <1>2, SoptKind
  <2> QED
    BY <1>2, <2>1, SoptValuesOf DEF U!Readings, SoptReadings
<1> QED
  BY <1>1, <1>2

SoptIInv == /\ file \in {"tcp", "udp", "pipe"}
            /\ DOMAIN val = U!Names /\ DOMAIN wanted = U!Names
            /\ val = [n \in U!Names |-> val[n]] /\ wanted = [n \in U!Names |-> wanted[n]]
            /\ \A n \in U!Names : val[n] \in SoptReadings(n) /\ wanted[n] \in SoptValues(n) \cup {Nothing}

LEMMA SoptUnset == ASSUME NEW row \in U!Rows PROVE U!Unset(row) \in SoptReadings(row.name)
<1>1. CASE row.type = "LINGER"
  BY <1>1, SoptKind DEF U!Unset, SoptValues, SoptReadings
<1>2. CASE row.type \in {"FLAG", "FCNTL"}
  BY <1>2, SoptKind DEF U!Unset, SoptValues, SoptReadings, SoptFlags
<1>3. CASE ~ (row.type = "LINGER") /\ ~ (row.type \in {"FLAG", "FCNTL"})
  <2>1. SoptReadings(row.name) = Nat
    BY <1>3, SoptKind DEF SoptReadings
  <2>2. U!Unset(row) \in {0, 1, LeastBuffer}
    BY <1>3 DEF U!Unset
  <2> QED
    BY <2>1, <2>2, SoptAssumed DEF U!SockOptionsAssumption
<1> QED
  BY <1>1, <1>2, <1>3

LEMMA SoptInitHolds == U!Init => SoptIInv
<1> SUFFICES ASSUME U!Init PROVE SoptIInv
  OBVIOUS
<1>1. PICK marked \in BOOLEAN :
        val = [n \in U!Names |-> IF n = "closeexec" THEN marked
                                 ELSE U!Unset(CHOOSE row \in U!Rows : row.name = n)]
  BY DEF U!Init
<1>2. ASSUME NEW n \in U!Names PROVE val[n] \in SoptReadings(n)
  <2>1. PICK row \in U!Rows : row.name = n
    BY DEF U!Names
  <2> DEFINE first == CHOOSE r \in U!Rows : r.name = n
  <2>2. first \in U!Rows /\ first.name = n
    BY <2>1
  <2>3. CASE n = "closeexec"
    BY <1>1, <2>3 DEF SoptValues, SoptReadings, SoptFlags
  <2>4. CASE n # "closeexec"
    <3>1. val[n] = U!Unset(first)
      BY <1>1, <2>4
    <3> HIDE DEF first
    <3> QED
      BY <2>2, <3>1, SoptUnset
  <2> QED
    BY <2>3, <2>4
<1> QED
  BY <1>1, <1>2 DEF U!Init, SoptIInv

\* One option changes, and it is assigned to or not.
LEMMA SoptSet == ASSUME SoptIInv, NEW n \in U!Names, NEW v \in SoptReadings(n), NEW w \in SoptValues(n),
                        val' = [val EXCEPT ![n] = v] \/ val' = val,
                        wanted' = [wanted EXCEPT ![n] = w] \/ wanted' = wanted, UNCHANGED file
                 PROVE  SoptIInv'
<1>1. ASSUME NEW m \in U!Names PROVE val'[m] \in SoptReadings(m) /\ wanted'[m] \in SoptValues(m) \cup {Nothing}
  <2>1. val'[m] = val[m] \/ (m = n /\ val'[m] = v)
    BY DEF SoptIInv
  <2>2. wanted'[m] = wanted[m] \/ (m = n /\ wanted'[m] = w)
    BY DEF SoptIInv
  <2> QED
    BY <2>1, <2>2 DEF SoptIInv
<1>2. DOMAIN val' = U!Names /\ val' = [m \in U!Names |-> val'[m]]
  BY DEF SoptIInv
<1>3. DOMAIN wanted' = U!Names /\ wanted' = [m \in U!Names |-> wanted'[m]]
  BY DEF SoptIInv
<1> QED
  BY <1>1, <1>2, <1>3 DEF SoptIInv

\* What setsockopt() leaves behind is of the option's kind.
LEMMA SoptKept == ASSUME SoptIInv, NEW row \in U!Rows, NEW to \in SoptValues(row.name), NEW takes \in U!KeptAs(row, to)
                  PROVE  takes \in SoptReadings(row.name)
<1> DEFINE name == row.name
<1>1. val[name] \in SoptReadings(name)
  BY SoptKind DEF SoptIInv
<1>2. to \in SoptReadings(name)
  BY SoptAssumed
<1>3. CASE takes \in {val[name], to}
  BY <1>1, <1>2, <1>3
<1>4. CASE name = "debug" /\ takes \in {val[name], TRUE, FALSE}
  BY <1>1, <1>4 DEF SoptReadings, SoptValues, SoptFlags
<1>5. CASE name = "maxsegment" /\ takes \in {0} \cup Integer
  <2>1. SoptValues(name) = {0} \cup Integer
    BY <1>5 DEF SoptValues, SoptFlags
  <2> QED
    BY <1>5, <2>1, SoptAssumed
<1>6. CASE name \in {"recvbuffer", "sendbuffer"} /\ takes = U!Buffer(to)
  <2>1. SoptReadings(name) = Nat
    BY <1>6 DEF SoptReadings, SoptFlags
  <2> QED
    BY <1>2, <1>6, <2>1, SoptAssumed DEF U!Buffer, U!SockOptionsAssumption
<1>7. CASE name = "recvlow" /\ takes \in 1 .. (IF to = 0 THEN 1 ELSE to)
  <2>1. SoptReadings(name) = Nat
    BY <1>7 DEF SoptReadings, SoptFlags
  <2> QED
    BY <1>2, <1>7, <2>1
<1>8. CASE name = "linger" /\ takes = [on |-> to.on, linger |-> IF to.on THEN to.linger ELSE val[name].linger]
  <2>1. SoptReadings(name) = [on : BOOLEAN, linger : {0} \cup Integer]
    BY <1>8 DEF SoptReadings, SoptValues
  <2> QED
    BY <1>1, <1>2, <1>8, <2>1
<1> QED
  BY <1>3, <1>4, <1>5, <1>6, <1>7, <1>8 DEF U!KeptAs

LEMMA SoptNextKeeps == ASSUME SoptIInv, [U!Next]_(U!vars) PROVE SoptIInv'
<1>1. U!SockOptionsAssumption
  BY Assumptions, Zenon
<1>2. "error" \in U!Names /\ "recvqueue" \in U!Names
  <2>1. U!m_sockoptions[5].name = "error"
    <3>1. U!m_sockoptions[5] = U!Row(5, "error", "SOCKET", "INT", FALSE)
      BY DEF U!m_sockoptions
    <3> QED
      BY <3>1 DEF U!Row
  <2>2. U!m_sockoptions[15].name = "recvqueue"
    <3>1. U!m_sockoptions[15] = U!Row(15, "recvqueue", "SOCKET", "IOCTL", FALSE)
      BY DEF U!m_sockoptions
    <3> QED
      BY <3>1 DEF U!Row
  <2>3. U!m_sockoptions[5] \in U!Rows /\ U!m_sockoptions[15] \in U!Rows
    BY SoptDomain DEF U!Rows
  <2> QED
    BY <2>1, <2>2, <2>3 DEF U!Names
<1>3. SoptValues("error") = {0} \cup Integer /\ SoptValues("recvqueue") = {0} \cup Integer
  BY DEF SoptValues, SoptFlags
<1>8. ASSUME NEW n \in {"error", "recvqueue"}, NEW v \in {0} \cup Integer,
             val' = [val EXCEPT ![n] = v], UNCHANGED <<file, wanted>>
      PROVE  SoptIInv'
  <2>1. n \in U!Names /\ v \in SoptValues(n) /\ v \in SoptReadings(n)
    BY <1>2, <1>3, SoptAssumed
  <2> QED
    BY <1>8, <2>1, SoptSet
<1>4. CASE U!Index
  BY <1>4, <1>8 DEF U!Index
<1>5. ASSUME NEW row \in U!Rows, NEW to \in U!Values(row), U!NewIndex(row, to) PROVE SoptIInv'
  <2>1. row.name \in U!Names /\ to \in SoptValues(row.name)
    BY SoptKind, SoptValuesOf
  <2>2. wanted' = [wanted EXCEPT ![row.name] = to] /\ UNCHANGED file
    BY <1>5 DEF U!NewIndex
  <2>6. to \in SoptReadings(row.name)
    BY <2>1, SoptAssumed
  <2>3. CASE val' = val
    BY <2>1, <2>2, <2>3, <2>6, SoptSet
  <2>4. CASE row.type = "FCNTL" /\ U!SetFcntl(row, to)
    <3>1. SoptValues(row.name) = BOOLEAN
      BY <2>4, SoptKind DEF SoptValues, SoptFlags
    <3>2. val' = val \/ \E b \in BOOLEAN : val' = [val EXCEPT ![row.name] = b] /\ b = to
      <4>1. row.name \in (U!Word(row) \cup {row.name}) /\ row.name \notin (U!Word(row) \ {row.name})
        OBVIOUS
      <4> QED
        BY <2>4, <2>1, <3>1, <4>1 DEF U!SetFcntl
    <3> QED
      BY <2>1, <2>2, <2>6, <3>2, SoptSet
  <2>5. CASE U!SetSockopt(row, to)
    <3>1. PICK takes \in U!KeptAs(row, to) : val' = [val EXCEPT ![row.name] = takes]
      BY <2>5 DEF U!SetSockopt
    <3>2. takes \in SoptReadings(row.name)
      BY <2>1, SoptKept
    <3> QED
      BY <2>1, <2>2, <3>1, <3>2, SoptSet
  <2> QED
    BY <1>5, <2>3, <2>4, <2>5 DEF U!NewIndex
<1>6. ASSUME NEW n \in {"error", "recvqueue"}, U!Happens(n) PROVE SoptIInv'
  BY <1>6, <1>8 DEF U!Happens
<1>7. CASE UNCHANGED U!vars
  BY <1>7 DEF U!vars, SoptIInv
<1> QED
  BY <1>4, <1>5, <1>6, <1>7 DEF U!Next

LEMMA SoptTypes == SoptIInv => U!TypeOK
BY SoptKind, SoptValuesOf, SoptReadingsOf DEF SoptIInv, U!TypeOK

\* Where the rows are: all but those of 10 to 12 at the places of their names.
SoptPlace(k) == IF k = 10 THEN 12 ELSE IF k \in {11, 12} THEN k - 1 ELSE k

\* What the row at a place is like.
SoptLevel(n) == IF n \in {"maxsegment", "nodelay", "quickack"} THEN "TCP"
                ELSE IF n = "closeexec" THEN "FD" ELSE IF n = "nonblock" THEN "FL" ELSE "SOCKET"

SoptIs(row, key, name, level, type, set) ==
  row.place = key /\ row.name = name /\ row.level = level /\ row.type = type /\ row.set = set

LEMMA SoptRowIs == ASSUME NEW key, NEW name, NEW level, NEW type, NEW set
                   PROVE  SoptIs(U!Row(key, name, level, type, set), key, name, level, type, set)
BY DEF SoptIs, U!Row

SoptLike(row, k) == /\ row.place = SoptPlace(k)
                    /\ row.name = "quickack" <=> k = 10
                    /\ row.level = SoptLevel(row.name)
                    /\ row.type = "FCNTL" <=> row.name \in {"closeexec", "nonblock"}
                    /\ row.set <=> row.name \notin {"error", "type", "recvqueue", "sendqueue"}

LEMMA SoptAllLike == \A k \in 1 .. 23 : SoptLike(U!m_sockoptions[k], k)
<1>1. SoptLike(U!m_sockoptions[1], 1)
  <2>1. SoptIs(U!m_sockoptions[1], 1, "broadcast", "SOCKET", "FLAG", TRUE)
    BY SoptRowIs DEF U!m_sockoptions
  <2> QED
    BY <2>1 DEF SoptIs, SoptLike, SoptPlace, SoptLevel
<1>2. SoptLike(U!m_sockoptions[2], 2)
  <2>1. SoptIs(U!m_sockoptions[2], 2, "closeexec", "FD", "FCNTL", TRUE)
    BY SoptRowIs DEF U!m_sockoptions
  <2> QED
    BY <2>1 DEF SoptIs, SoptLike, SoptPlace, SoptLevel
<1>3. SoptLike(U!m_sockoptions[3], 3)
  <2>1. SoptIs(U!m_sockoptions[3], 3, "debug", "SOCKET", "FLAG", TRUE)
    BY SoptRowIs DEF U!m_sockoptions
  <2> QED
    BY <2>1 DEF SoptIs, SoptLike, SoptPlace, SoptLevel
<1>4. SoptLike(U!m_sockoptions[4], 4)
  <2>1. SoptIs(U!m_sockoptions[4], 4, "dontroute", "SOCKET", "FLAG", TRUE)
    BY SoptRowIs DEF U!m_sockoptions
  <2> QED
    BY <2>1 DEF SoptIs, SoptLike, SoptPlace, SoptLevel
<1>5. SoptLike(U!m_sockoptions[5], 5)
  <2>1. SoptIs(U!m_sockoptions[5], 5, "error", "SOCKET", "INT", FALSE)
    BY SoptRowIs DEF U!m_sockoptions
  <2> QED
    BY <2>1 DEF SoptIs, SoptLike, SoptPlace, SoptLevel
<1>6. SoptLike(U!m_sockoptions[6], 6)
  <2>1. SoptIs(U!m_sockoptions[6], 6, "keepalive", "SOCKET", "FLAG", TRUE)
    BY SoptRowIs DEF U!m_sockoptions
  <2> QED
    BY <2>1 DEF SoptIs, SoptLike, SoptPlace, SoptLevel
<1>7. SoptLike(U!m_sockoptions[7], 7)
  <2>1. SoptIs(U!m_sockoptions[7], 7, "linger", "SOCKET", "LINGER", TRUE)
    BY SoptRowIs DEF U!m_sockoptions
  <2> QED
    BY <2>1 DEF SoptIs, SoptLike, SoptPlace, SoptLevel
<1>8. SoptLike(U!m_sockoptions[8], 8)
  <2>1. SoptIs(U!m_sockoptions[8], 8, "maxsegment", "TCP", "INT", TRUE)
    BY SoptRowIs DEF U!m_sockoptions
  <2> QED
    BY <2>1 DEF SoptIs, SoptLike, SoptPlace, SoptLevel
<1>9. SoptLike(U!m_sockoptions[9], 9)
  <2>1. SoptIs(U!m_sockoptions[9], 9, "nodelay", "TCP", "FLAG", TRUE)
    BY SoptRowIs DEF U!m_sockoptions
  <2> QED
    BY <2>1 DEF SoptIs, SoptLike, SoptPlace, SoptLevel
<1>10. SoptLike(U!m_sockoptions[10], 10)
  <2>1. SoptIs(U!m_sockoptions[10], 12, "quickack", "TCP", "FLAG", TRUE)
    BY SoptRowIs DEF U!m_sockoptions
  <2> QED
    BY <2>1 DEF SoptIs, SoptLike, SoptPlace, SoptLevel
<1>11. SoptLike(U!m_sockoptions[11], 11)
  <2>1. SoptIs(U!m_sockoptions[11], 10, "nonblock", "FL", "FCNTL", TRUE)
    BY SoptRowIs DEF U!m_sockoptions
  <2> QED
    BY <2>1 DEF SoptIs, SoptLike, SoptPlace, SoptLevel
<1>12. SoptLike(U!m_sockoptions[12], 12)
  <2>1. SoptIs(U!m_sockoptions[12], 11, "oobinline", "SOCKET", "FLAG", TRUE)
    BY SoptRowIs DEF U!m_sockoptions
  <2> QED
    BY <2>1 DEF SoptIs, SoptLike, SoptPlace, SoptLevel
<1>13. SoptLike(U!m_sockoptions[13], 13)
  <2>1. SoptIs(U!m_sockoptions[13], 13, "recvbuffer", "SOCKET", "INT", TRUE)
    BY SoptRowIs DEF U!m_sockoptions
  <2> QED
    BY <2>1 DEF SoptIs, SoptLike, SoptPlace, SoptLevel
<1>14. SoptLike(U!m_sockoptions[14], 14)
  <2>1. SoptIs(U!m_sockoptions[14], 14, "recvlow", "SOCKET", "INT", TRUE)
    BY SoptRowIs DEF U!m_sockoptions
  <2> QED
    BY <2>1 DEF SoptIs, SoptLike, SoptPlace, SoptLevel
<1>15. SoptLike(U!m_sockoptions[15], 15)
  <2>1. SoptIs(U!m_sockoptions[15], 15, "recvqueue", "SOCKET", "IOCTL", FALSE)
    BY SoptRowIs DEF U!m_sockoptions
  <2> QED
    BY <2>1 DEF SoptIs, SoptLike, SoptPlace, SoptLevel
<1>16. SoptLike(U!m_sockoptions[16], 16)
  <2>1. SoptIs(U!m_sockoptions[16], 16, "recvtimeout", "SOCKET", "INT", TRUE)
    BY SoptRowIs DEF U!m_sockoptions
  <2> QED
    BY <2>1 DEF SoptIs, SoptLike, SoptPlace, SoptLevel
<1>17. SoptLike(U!m_sockoptions[17], 17)
  <2>1. SoptIs(U!m_sockoptions[17], 17, "reuseaddr", "SOCKET", "FLAG", TRUE)
    BY SoptRowIs DEF U!m_sockoptions
  <2> QED
    BY <2>1 DEF SoptIs, SoptLike, SoptPlace, SoptLevel
<1>18. SoptLike(U!m_sockoptions[18], 18)
  <2>1. SoptIs(U!m_sockoptions[18], 18, "reuseport", "SOCKET", "FLAG", TRUE)
    BY SoptRowIs DEF U!m_sockoptions
  <2> QED
    BY <2>1 DEF SoptIs, SoptLike, SoptPlace, SoptLevel
<1>19. SoptLike(U!m_sockoptions[19], 19)
  <2>1. SoptIs(U!m_sockoptions[19], 19, "sendbuffer", "SOCKET", "INT", TRUE)
    BY SoptRowIs DEF U!m_sockoptions
  <2> QED
    BY <2>1 DEF SoptIs, SoptLike, SoptPlace, SoptLevel
<1>20. SoptLike(U!m_sockoptions[20], 20)
  <2>1. SoptIs(U!m_sockoptions[20], 20, "sendlow", "SOCKET", "INT", TRUE)
    BY SoptRowIs DEF U!m_sockoptions
  <2> QED
    BY <2>1 DEF SoptIs, SoptLike, SoptPlace, SoptLevel
<1>21. SoptLike(U!m_sockoptions[21], 21)
  <2>1. SoptIs(U!m_sockoptions[21], 21, "sendqueue", "SOCKET", "IOCTL", FALSE)
    BY SoptRowIs DEF U!m_sockoptions
  <2> QED
    BY <2>1 DEF SoptIs, SoptLike, SoptPlace, SoptLevel
<1>22. SoptLike(U!m_sockoptions[22], 22)
  <2>1. SoptIs(U!m_sockoptions[22], 22, "sendtimeout", "SOCKET", "INT", TRUE)
    BY SoptRowIs DEF U!m_sockoptions
  <2> QED
    BY <2>1 DEF SoptIs, SoptLike, SoptPlace, SoptLevel
<1>23. SoptLike(U!m_sockoptions[23], 23)
  <2>1. SoptIs(U!m_sockoptions[23], 23, "type", "SOCKET", "INT", FALSE)
    BY SoptRowIs DEF U!m_sockoptions
  <2> QED
    BY <2>1 DEF SoptIs, SoptLike, SoptPlace, SoptLevel
<1> QED
  BY <1>1, <1>2, <1>3, <1>4, <1>5, <1>6, <1>7, <1>8, <1>9, <1>10, <1>11, <1>12, <1>13, <1>14, <1>15, <1>16, <1>17, <1>18, <1>19, <1>20, <1>21, <1>22, <1>23

\* One comparison, of the row behind m.
SoptSays(row, l, u, m, key) ==
  U!Halved(row, U!m_sockoptions, <<l, u>>) =
    IF row.place < key THEN <<l, m>> ELSE IF row.place > key THEN <<m + 1, u>> ELSE <<l, u>>

LEMMA SoptHalved ==
  ASSUME NEW l \in 0 .. 23, NEW u \in 0 .. 23, l < u, NEW mid \in 0 .. 22, mid = (l + u) \div 2,
         NEW row, row.place \in 1 .. 23, NEW key, key = SoptPlace(mid + 1)
  PROVE  SoptSays(row, l, u, mid, key)
<1> DEFINE span == <<l, u>>
<1>1. span[1] = l /\ span[2] = u /\ U!Middle(span) = mid
  BY DEF U!Middle
<1> DEFINE comparison == U!sopt_compare(row, U!m_sockoptions[U!Middle(span) + 1])
<1> HIDE DEF span
<1>2. U!Halved(row, U!m_sockoptions, span) = U!Remaining(span, comparison)
  BY DEF U!Halved
<1>3. key \in 1 .. 23
  BY SMT DEF SoptPlace
<1>4. comparison = row.place - key
  BY <1>1, SoptAllLike DEF U!sopt_compare, SoptLike
<1> HIDE DEF comparison
<1>5. U!Halved(row, U!m_sockoptions, span) =
        IF row.place < key THEN <<l, mid>> ELSE IF row.place > key THEN <<mid + 1, u>> ELSE span
  BY <1>1, <1>2, <1>3, <1>4, SMT DEF U!Remaining
<1> QED
  BY <1>5 DEF span, SoptSays

\* bsearch() finds every name but one.
LEMMA SoptFound == ASSUME NEW row, row.place \in 1 .. 23
                   PROVE  U!bsearch(row) = 0 <=> row.place = 12
<1> DEFINE p == row.place
<1>1. Len(U!m_sockoptions) = 23
  BY DEF U!m_sockoptions
<1>2. SoptSays(row, 0, 1, 0, 1)
  BY SoptHalved DEF SoptPlace
<1>3. SoptSays(row, 0, 2, 1, 2)
  BY SoptHalved DEF SoptPlace
<1>4. SoptSays(row, 0, 5, 2, 3)
  BY SoptHalved DEF SoptPlace
<1>5. SoptSays(row, 0, 11, 5, 6)
  BY SoptHalved DEF SoptPlace
<1>6. SoptSays(row, 0, 23, 11, 11)
  BY SoptHalved DEF SoptPlace
<1>7. SoptSays(row, 3, 4, 3, 4)
  BY SoptHalved DEF SoptPlace
<1>8. SoptSays(row, 3, 5, 4, 5)
  BY SoptHalved DEF SoptPlace
<1>9. SoptSays(row, 6, 7, 6, 7)
  BY SoptHalved DEF SoptPlace
<1>10. SoptSays(row, 6, 8, 7, 8)
  BY SoptHalved DEF SoptPlace
<1>11. SoptSays(row, 6, 11, 8, 9)
  BY SoptHalved DEF SoptPlace
<1>12. SoptSays(row, 9, 11, 10, 10)
  BY SoptHalved DEF SoptPlace
<1>13. SoptSays(row, 12, 13, 12, 13)
  BY SoptHalved DEF SoptPlace
<1>14. SoptSays(row, 12, 14, 13, 14)
  BY SoptHalved DEF SoptPlace
<1>15. SoptSays(row, 12, 17, 14, 15)
  BY SoptHalved DEF SoptPlace
<1>16. SoptSays(row, 12, 23, 17, 18)
  BY SoptHalved DEF SoptPlace
<1>17. SoptSays(row, 15, 16, 15, 16)
  BY SoptHalved DEF SoptPlace
<1>18. SoptSays(row, 15, 17, 16, 17)
  BY SoptHalved DEF SoptPlace
<1>19. SoptSays(row, 18, 19, 18, 19)
  BY SoptHalved DEF SoptPlace
<1>20. SoptSays(row, 18, 20, 19, 20)
  BY SoptHalved DEF SoptPlace
<1>21. SoptSays(row, 18, 23, 20, 21)
  BY SoptHalved DEF SoptPlace
<1>22. SoptSays(row, 21, 22, 21, 22)
  BY SoptHalved DEF SoptPlace
<1>23. SoptSays(row, 21, 23, 22, 23)
  BY SoptHalved DEF SoptPlace
<1> DEFINE h1 == U!Halved(row, U!m_sockoptions, <<0, 23>>)
           h2 == U!Halved(row, U!m_sockoptions, h1)
           h3 == U!Halved(row, U!m_sockoptions, h2)
           h4 == U!Halved(row, U!m_sockoptions, h3)
           h5 == U!Halved(row, U!m_sockoptions, h4)
<1>24. \/ p \in 1 .. 10 /\ h1 = <<0, 11>>
       \/ p = 11 /\ h1 = <<0, 23>>
       \/ p \in 12 .. 23 /\ h1 = <<12, 23>>
  BY <1>6, SMT DEF SoptSays
<1>25. \/ p \in 1 .. 5 /\ h2 = <<0, 5>>
       \/ p = 6 /\ h2 = <<0, 11>>
       \/ p \in 7 .. 10 /\ h2 = <<6, 11>>
       \/ p = 11 /\ h2 = <<0, 23>>
       \/ p \in 12 .. 17 /\ h2 = <<12, 17>>
       \/ p = 18 /\ h2 = <<12, 23>>
       \/ p \in 19 .. 23 /\ h2 = <<18, 23>>
  BY <1>24, <1>5, <1>6, <1>16, SMT DEF SoptSays
<1>26. \/ p \in 1 .. 2 /\ h3 = <<0, 2>>
       \/ p = 3 /\ h3 = <<0, 5>>
       \/ p \in 4 .. 5 /\ h3 = <<3, 5>>
       \/ p = 6 /\ h3 = <<0, 11>>
       \/ p \in 7 .. 8 /\ h3 = <<6, 8>>
       \/ p = 9 /\ h3 = <<6, 11>>
       \/ p = 10 /\ h3 = <<9, 11>>
       \/ p = 11 /\ h3 = <<0, 23>>
       \/ p \in 12 .. 14 /\ h3 = <<12, 14>>
       \/ p = 15 /\ h3 = <<12, 17>>
       \/ p \in 16 .. 17 /\ h3 = <<15, 17>>
       \/ p = 18 /\ h3 = <<12, 23>>
       \/ p \in 19 .. 20 /\ h3 = <<18, 20>>
       \/ p = 21 /\ h3 = <<18, 23>>
       \/ p \in 22 .. 23 /\ h3 = <<21, 23>>
  BY <1>25, <1>4, <1>5, <1>6, <1>11, <1>15, <1>16, <1>21, SMT DEF SoptSays
<1>27. \/ p = 1 /\ h4 = <<0, 1>>
       \/ p = 2 /\ h4 = <<0, 2>>
       \/ p = 3 /\ h4 = <<0, 5>>
       \/ p = 4 /\ h4 = <<3, 4>>
       \/ p = 5 /\ h4 = <<3, 5>>
       \/ p = 6 /\ h4 = <<0, 11>>
       \/ p = 7 /\ h4 = <<6, 7>>
       \/ p = 8 /\ h4 = <<6, 8>>
       \/ p = 9 /\ h4 = <<6, 11>>
       \/ p = 10 /\ h4 = <<9, 11>>
       \/ p = 11 /\ h4 = <<0, 23>>
       \/ p \in 12 .. 13 /\ h4 = <<12, 13>>
       \/ p = 14 /\ h4 = <<12, 14>>
       \/ p = 15 /\ h4 = <<12, 17>>
       \/ p = 16 /\ h4 = <<15, 16>>
       \/ p = 17 /\ h4 = <<15, 17>>
       \/ p = 18 /\ h4 = <<12, 23>>
       \/ p = 19 /\ h4 = <<18, 19>>
       \/ p = 20 /\ h4 = <<18, 20>>
       \/ p = 21 /\ h4 = <<18, 23>>
       \/ p = 22 /\ h4 = <<21, 22>>
       \/ p = 23 /\ h4 = <<21, 23>>
  BY <1>26, <1>3, <1>4, <1>5, <1>6, <1>8, <1>10, <1>11, <1>12, <1>14, <1>15, <1>16, <1>18, <1>20, <1>21, <1>23, SMT DEF SoptSays
<1>28. \/ p = 1 /\ h5 = <<0, 1>>
       \/ p = 2 /\ h5 = <<0, 2>>
       \/ p = 3 /\ h5 = <<0, 5>>
       \/ p = 4 /\ h5 = <<3, 4>>
       \/ p = 5 /\ h5 = <<3, 5>>
       \/ p = 6 /\ h5 = <<0, 11>>
       \/ p = 7 /\ h5 = <<6, 7>>
       \/ p = 8 /\ h5 = <<6, 8>>
       \/ p = 9 /\ h5 = <<6, 11>>
       \/ p = 10 /\ h5 = <<9, 11>>
       \/ p = 11 /\ h5 = <<0, 23>>
       \/ p = 12 /\ h5 = <<12, 12>>
       \/ p = 13 /\ h5 = <<12, 13>>
       \/ p = 14 /\ h5 = <<12, 14>>
       \/ p = 15 /\ h5 = <<12, 17>>
       \/ p = 16 /\ h5 = <<15, 16>>
       \/ p = 17 /\ h5 = <<15, 17>>
       \/ p = 18 /\ h5 = <<12, 23>>
       \/ p = 19 /\ h5 = <<18, 19>>
       \/ p = 20 /\ h5 = <<18, 20>>
       \/ p = 21 /\ h5 = <<18, 23>>
       \/ p = 22 /\ h5 = <<21, 22>>
       \/ p = 23 /\ h5 = <<21, 23>>
  BY <1>27, <1>2, <1>3, <1>4, <1>5, <1>6, <1>7, <1>8, <1>9, <1>10, <1>11, <1>12, <1>13, <1>14, <1>15, <1>16, <1>17, <1>18, <1>19, <1>20, <1>21, <1>22, <1>23, SMT DEF SoptSays
<1> HIDE DEF h5
<1>29. U!bsearch(row) = IF h5[1] < h5[2] THEN U!Middle(h5) + 1 ELSE 0
  BY <1>1 DEF U!bsearch, h5
<1>30. h5[1] < h5[2] => U!Middle(h5) + 1 # 0
  BY <1>28, SMT DEF U!Middle
<1> QED
  BY <1>28, <1>29, <1>30, SMT

\* A row is found unless it is the one that is out of its place.
LEMMA SoptRowFacts == ASSUME NEW row \in U!Rows
  PROVE  /\ U!bsearch(row) = 0 <=> row.name = "quickack"
         /\ row.level = SoptLevel(row.name)
         /\ row.type = "FCNTL" <=> row.name \in {"closeexec", "nonblock"}
         /\ row.set <=> row.name \notin {"error", "type", "recvqueue", "sendqueue"}
<1>1. PICK k \in 1 .. 23 : row = U!m_sockoptions[k]
  BY SoptDomain DEF U!Rows
<1>2. SoptLike(row, k)
  BY <1>1, SoptAllLike
<1>3. SoptPlace(k) \in 1 .. 23 /\ (SoptPlace(k) = 12 <=> k = 10)
  BY SMT DEF SoptPlace
<1>4. row.place \in 1 .. 23 /\ (row.place = 12 <=> k = 10)
  BY <1>2, <1>3 DEF SoptLike
<1>5. U!bsearch(row) = 0 <=> k = 10
  BY <1>4, SoptFound
<1> QED
  BY <1>2, <1>5 DEF SoptLike

\* What was assigned last is what the kernel has, if the kernel heeds it, in the
\* way in which it takes it.
SoptHeld == /\ \A row \in U!Rows : U!Heeded(row) /\ wanted[row.name] # Nothing
                                     => U!ReadsAs(row, wanted[row.name], val[row.name])
            /\ wanted["closeexec"] = FALSE => val["closeexec"] = FALSE

LEMMA SoptCloseexec == "closeexec" \in U!Names
<1>1. U!m_sockoptions[2] = U!Row(2, "closeexec", "FD", "FCNTL", TRUE)
  BY DEF U!m_sockoptions
<1>2. U!m_sockoptions[2] \in U!Rows /\ U!m_sockoptions[2].name = "closeexec"
  BY <1>1, SoptDomain DEF U!Rows, U!Row
<1> QED
  BY <1>2 DEF U!Names

LEMMA SoptHeldInit == U!Init => SoptHeld
<1> SUFFICES ASSUME U!Init PROVE SoptHeld
  OBVIOUS
<1>1. U!SockOptionsAssumption
  BY Assumptions, Zenon
<1>2. ASSUME NEW n \in U!Names PROVE wanted[n] = Nothing
  BY DEF U!Init
<1>3. ASSUME NEW row \in U!Rows PROVE wanted[row.name] = Nothing
  BY <1>2, SoptKind
<1>4. wanted["closeexec"] # FALSE
  BY <1>1, <1>2, SoptCloseexec DEF U!SockOptionsAssumption
<1> QED
  BY <1>3, <1>4 DEF SoptHeld

LEMMA SoptOthersHeld == ASSUME SoptIInv, SoptHeld, UNCHANGED <<file, wanted>>, NEW n \in {"error", "recvqueue"}, NEW v,
                               val' = [val EXCEPT ![n] = v]
                        PROVE  SoptHeld'
<1>1. ASSUME NEW row \in U!Rows, U!Heeded(row)', wanted'[row.name] # Nothing
      PROVE  U!ReadsAs(row, wanted'[row.name], val'[row.name])
  <2>1. U!Heeded(row) /\ row.name # n
    BY <1>1 DEF U!Heeded, U!Has
  <2>2. row.name \in DOMAIN val
    BY SoptKind DEF SoptIInv
  <2>3. val'[row.name] = val[row.name]
    BY <2>1, <2>2
  <2> QED
    BY <1>1, <2>1, <2>3 DEF SoptHeld
<1>2. val'["closeexec"] = val["closeexec"]
  BY SoptCloseexec DEF SoptIInv
<1> QED
  BY <1>1, <1>2 DEF SoptHeld

\* What setsockopt() leaves behind is what should be read.
LEMMA SoptHeededReads ==
  ASSUME NEW row \in U!Rows, U!Heeded(row), NEW to \in SoptValues(row.name), NEW takes \in U!KeptAs(row, to)
  PROVE  U!ReadsAs(row, to, takes)
<1>1. U!Has(row.level) /\ row.name \notin {"recvtimeout", "sendtimeout", "sendlow", "maxsegment"}
  BY DEF U!Heeded
<1>2. CASE row.name = "debug"
  <2>1. to \in BOOLEAN
    BY <1>2 DEF SoptValues, SoptFlags
  <2>2. takes = FALSE \/ to = TRUE
    BY <1>1, <1>2, <2>1 DEF U!KeptAs
  <2> QED
    BY <1>2, <2>2 DEF U!ReadsAs
<1>3. CASE row.name \in {"recvbuffer", "sendbuffer"}
  BY <1>1, <1>3 DEF U!KeptAs, U!ReadsAs
<1>4. CASE row.name = "recvlow"
  BY <1>1, <1>4 DEF U!KeptAs, U!ReadsAs
<1>5. CASE row.name = "linger"
  <2>1. takes = [on |-> to.on, linger |-> IF to.on THEN to.linger ELSE val[row.name].linger]
    BY <1>1, <1>5 DEF U!KeptAs
  <2>2. takes.on = to.on /\ (to.on => takes.linger = to.linger)
    BY <2>1
  <2> QED
    BY <1>5, <2>2 DEF U!ReadsAs
<1>6. CASE row.name \notin {"debug", "recvbuffer", "sendbuffer", "recvlow", "linger"}
  BY <1>1, <1>6 DEF U!KeptAs, U!ReadsAs
<1> QED
  BY <1>2, <1>3, <1>4, <1>5, <1>6

\* Of the row that is assigned to.
LEMMA SoptTaken == ASSUME SoptIInv, NEW row \in U!Rows, NEW to \in U!Values(row), U!NewIndex(row, to), U!Heeded(row)
                   PROVE  U!ReadsAs(row, to, val'[row.name])
<1>1. row.name \in U!Names /\ row.name \in DOMAIN val
  BY SoptKind DEF SoptIInv
<1>2. U!bsearch(row) # 0 /\ row.set
  BY SoptRowFacts DEF U!Heeded
<1>3. CASE row.type = "FCNTL"
  <2>1. row.name = "nonblock" /\ row.level = "FL" /\ file # "pipe"
    BY <1>3, SoptRowFacts DEF U!Heeded, SoptLevel
  <2>2. "O_RDWR" \in U!Word(row)
    BY <2>1 DEF U!Word
  <2>3. U!SetFcntl(row, to)
    BY <1>2, <1>3 DEF U!NewIndex
  <2>4. to \in BOOLEAN
    BY <1>3, SoptKind, SoptValuesOf DEF SoptValues, SoptFlags
  <2>5. ASSUME to = TRUE PROVE val'[row.name] = to
    BY <1>1, <2>2, <2>3, <2>5 DEF U!SetFcntl
  <2>6. ASSUME to = FALSE PROVE val'[row.name] = to
    <3>1. val' = [val EXCEPT ![row.name] = row.name \in U!Word(row) \ {row.name}]
      BY <2>2, <2>3, <2>6 DEF U!SetFcntl
    <3>2. (row.name \in U!Word(row) \ {row.name}) = FALSE
      OBVIOUS
    <3> QED
      BY <1>1, <2>6, <3>1, <3>2
  <2>7. val'[row.name] = to
    BY <2>4, <2>5, <2>6
  <2> QED
    BY <2>1, <2>7 DEF U!ReadsAs
<1>4. CASE row.type # "FCNTL"
  <2>1. U!SetSockopt(row, to)
    BY <1>2, <1>4 DEF U!NewIndex
  <2>2. PICK takes \in U!KeptAs(row, to) : val' = [val EXCEPT ![row.name] = takes]
    BY <2>1 DEF U!SetSockopt
  <2>3. val'[row.name] = takes
    BY <1>1, <2>2
  <2>4. to \in SoptValues(row.name)
    BY SoptValuesOf
  <2>5. U!ReadsAs(row, to, takes)
    BY <2>2, <2>4, SoptHeededReads
  <2> QED
    BY <2>3, <2>5
<1> QED
  BY <1>3, <1>4

\* closeexec can be switched off.
LEMMA SoptSwitchedOff == ASSUME SoptIInv, NEW row \in U!Rows, row.name = "closeexec", U!NewIndex(row, FALSE)
                         PROVE  val'["closeexec"] = FALSE
<1>1. U!bsearch(row) # 0 /\ row.set /\ row.type = "FCNTL"
  BY SoptRowFacts
<1>2. U!SetFcntl(row, FALSE)
  BY <1>1 DEF U!NewIndex
<1>3. row.name \in DOMAIN val /\ val["closeexec"] \in BOOLEAN
  BY SoptCloseexec DEF SoptIInv, SoptValues, SoptReadings, SoptFlags
<1>4. CASE U!Word(row) # {}
  <2>1. val' = [val EXCEPT ![row.name] = row.name \in U!Word(row) \ {row.name}]
    BY <1>2, <1>4 DEF U!SetFcntl
  <2>2. (row.name \in U!Word(row) \ {row.name}) = FALSE
    OBVIOUS
  <2> QED
    BY <1>3, <2>1, <2>2
<1>5. CASE U!Word(row) = {}
  <2>1. val' = val
    BY <1>2, <1>5 DEF U!SetFcntl
  <2>2. ~ val["closeexec"]
    BY <1>5 DEF U!Word
  <2> QED
    BY <1>3, <2>1, <2>2
<1> QED
  BY <1>4, <1>5

\* An assignment leaves the other options as they are.
LEMMA SoptOneSet == ASSUME SoptIInv, NEW row \in U!Rows, NEW to, U!NewIndex(row, to), NEW n \in U!Names, n # row.name
                    PROVE  val'[n] = val[n] /\ wanted'[n] = wanted[n]
<1>1. n \in DOMAIN val /\ n \in DOMAIN wanted
  BY DEF SoptIInv
<1>2. wanted' = [wanted EXCEPT ![row.name] = to]
  BY DEF U!NewIndex
<1>3. val' = val \/ \E v : val' = [val EXCEPT ![row.name] = v]
  BY DEF U!NewIndex, U!SetFcntl, U!SetSockopt
<1> QED
  BY <1>1, <1>2, <1>3

LEMMA SoptNewHeld == ASSUME SoptIInv, SoptHeld, NEW row \in U!Rows, NEW to \in U!Values(row), U!NewIndex(row, to)
                     PROVE  SoptHeld'
<1>1. row.name \in U!Names /\ row.name \in DOMAIN wanted
  BY SoptKind DEF SoptIInv
<1>2. wanted'[row.name] = to /\ file' = file
  BY <1>1 DEF U!NewIndex
<1>3. ASSUME NEW r \in U!Rows, U!Heeded(r)', wanted'[r.name] # Nothing
      PROVE  U!ReadsAs(r, wanted'[r.name], val'[r.name])
  <2>1. U!Heeded(r)
    BY <1>2, <1>3 DEF U!Heeded, U!Has
  <2>2. CASE r.name = row.name
    <3>1. r.level = row.level
      BY <2>2, SoptRowFacts
    <3>2. U!Heeded(row)
      BY <2>1, <2>2, <3>1 DEF U!Heeded
    <3>3. U!ReadsAs(row, to, val'[row.name])
      BY <3>2, SoptTaken
    <3>4. U!ReadsAs(r, to, val'[r.name])
      BY <2>2, <3>3 DEF U!ReadsAs
    <3> QED
      BY <1>2, <2>2, <3>4
  <2>3. CASE r.name # row.name
    <3>1. val'[r.name] = val[r.name] /\ wanted'[r.name] = wanted[r.name]
      BY <2>3, SoptKind, SoptOneSet
    <3> QED
      BY <1>3, <2>1, <3>1 DEF SoptHeld
  <2> QED
    BY <2>2, <2>3
<1>4. ASSUME wanted'["closeexec"] = FALSE PROVE val'["closeexec"] = FALSE
  <2>1. CASE row.name = "closeexec"
    <3>1. to = FALSE
      BY <1>2, <1>4, <2>1
    <3> QED
      BY <2>1, <3>1, SoptSwitchedOff
  <2>2. CASE row.name # "closeexec"
    BY <1>4, <2>2, SoptCloseexec, SoptOneSet DEF SoptHeld
  <2> QED
    BY <2>1, <2>2
<1> QED
  BY <1>3, <1>4 DEF SoptHeld

LEMMA SoptHeldKept == ASSUME SoptIInv, SoptHeld, [U!Next]_(U!vars) PROVE SoptHeld'
<1>1. CASE U!Index
  BY <1>1, SoptOthersHeld DEF U!Index
<1>2. ASSUME NEW n \in {"error", "recvqueue"}, U!Happens(n) PROVE SoptHeld'
  BY <1>2, SoptOthersHeld DEF U!Happens
<1>3. CASE UNCHANGED U!vars
  BY <1>3 DEF U!vars, SoptHeld, U!Heeded, U!Has, U!ReadsAs
<1> QED
  BY <1>1, <1>2, <1>3, SoptNewHeld DEF U!Next

\* Options read back as they were assigned.
LEMMA SoptReads == SoptIInv /\ SoptHeld => U!OptionsReadBack
<1> SUFFICES ASSUME SoptIInv, SoptHeld, NEW row \in U!Rows
             PROVE  /\ U!Heeded(row) /\ wanted[row.name] # Nothing => U!ReadsAs(row, wanted[row.name], U!Shown(row))
                    /\ U!bsearch(row) = 0 <=> row.name = "quickack"
                    /\ row.name = "closeexec" /\ wanted["closeexec"] = FALSE => ~ U!Shown(row)
  BY DEF U!OptionsReadBack
<1>1. ASSUME U!Heeded(row), wanted[row.name] # Nothing PROVE U!ReadsAs(row, wanted[row.name], U!Shown(row))
  <2>1. U!bsearch(row) # 0 /\ U!Has(row.level)
    BY <1>1, SoptRowFacts DEF U!Heeded
  <2>2. U!Shown(row) = val[row.name]
    BY <2>1 DEF U!Shown
  <2> QED
    BY <1>1, <2>2 DEF SoptHeld
<1>2. ASSUME row.name = "closeexec", wanted["closeexec"] = FALSE PROVE ~ U!Shown(row)
  <2>1. U!bsearch(row) # 0 /\ row.level = "FD"
    BY <1>2, SoptRowFacts DEF SoptLevel
  <2>2. U!Has(row.level)
    BY <2>1 DEF U!Has
  <2>3. U!Shown(row) = val["closeexec"]
    BY <1>2, <2>1, <2>2 DEF U!Shown
  <2> QED
    BY <1>2, <2>3 DEF SoptHeld
<1> QED
  BY <1>1, <1>2, SoptRowFacts
-----------------------------------------------------------------------------
(* Addresses have as many bytes as their family has, and ports in range.    *)

AddrTypes == \A a \in known : /\ a.family \in {A!AF_UNIX, A!AF_INET, A!AF_INET6}
                              /\ a.port \in 0 .. MaxPort
                              /\ a.bytes \in Seq(0 .. 255)
                              /\ Len(a.bytes) = IF a.family = A!AF_UNIX THEN PathSize
                                                ELSE IF a.family = A!AF_INET THEN 4 ELSE 16

\* What a call makes is an address, or there is none.
AddrSound(result) ==
  result.err = 0 =>
    LET a == result.address
    IN /\ a.family \in {A!AF_UNIX, A!AF_INET, A!AF_INET6}
       /\ a.port \in 0 .. MaxPort
       /\ a.bytes \in Seq(0 .. 255)
       /\ Len(a.bytes) = IF a.family = A!AF_UNIX THEN PathSize ELSE IF a.family = A!AF_INET THEN 4 ELSE 16

LEMMA AddrAssumed == A!AddressesAssumption
BY Assumptions, Zenon

LEMMA AddrWithPort ==
  ASSUME NEW family \in {A!AF_INET, A!AF_INET6}, NEW bytes \in Seq(0 .. 255), NEW proto, NEW port,
         Len(bytes) = IF family = A!AF_INET THEN 4 ELSE 16
  PROVE  AddrSound(A!WithPort(family, bytes, proto, port))
<1> DEFINE p == A!PortOf(proto, port)
           a == [family |-> family, bytes |-> bytes, port |-> p]
<1>1. CASE p \in 0 .. MaxPort
  <2>1. A!WithPort(family, bytes, proto, port) = A!Made(a)
    BY <1>1 DEF A!WithPort
  <2>2. a.family = family /\ a.bytes = bytes /\ a.port = p
    OBVIOUS
  <2>3. A!Made(a).address = a
    BY DEF A!Made
  <2>4. family # A!AF_UNIX
    BY DEF A!AF_UNIX, A!AF_INET, A!AF_INET6
  <2> HIDE DEF a, p
  <2> QED
    BY <1>1, <2>1, <2>2, <2>3, <2>4 DEF AddrSound
<1>2. CASE ~ (p \in 0 .. MaxPort)
  <2>1. A!WithPort(family, bytes, proto, port) = A!Aborts
    BY <1>2 DEF A!WithPort
  <2> QED
    BY <2>1 DEF AddrSound, A!Aborts, A!Abort
<1> QED
  BY <1>1, <1>2

LEMMA AddrPath ==
  ASSUME NEW text \in Seq(0 .. 255), Len(text) <= PathSize - 1, NEW junk \in Junk
  PROVE  AddrSound(A!UnixPath(text, junk))
<1> DEFINE rest == SubSeq(junk, Len(text) + 2, PathSize)
           bytes == text \o <<0>> \o rest
<1>1. /\ PathSize \in Nat \ {0} /\ junk \in Seq(0 .. 255) /\ Len(junk) = PathSize /\ 0 \in 0 .. MaxPort
      /\ Len(text) \in Nat
  BY AddrAssumed DEF A!AddressesAssumption
<1>2. rest \in Seq(0 .. 255) /\ Len(rest) = PathSize - Len(text) - 1
  BY <1>1
<1>3. <<0>> \in Seq(0 .. 255) /\ Len(<<0>>) = 1
  OBVIOUS
<1> HIDE DEF rest
<1>4. bytes \in Seq(0 .. 255) /\ Len(bytes) = PathSize
  BY <1>1, <1>2, <1>3
<1>5. A!UnixPath(text, junk) = A!Made([family |-> A!AF_UNIX, port |-> 0, bytes |-> bytes])
  BY DEF A!UnixPath, rest
<1> HIDE DEF bytes
<1> QED
  BY <1>1, <1>4, <1>5 DEF AddrSound, A!Made, A!AF_UNIX

LEMMA AddrAddress ==
  ASSUME NEW host \in Hosts, NEW proto, NEW port, NEW junk, host.reads = "path" => junk \in Junk
  PROVE  AddrSound(A!Address(host, proto, port, junk))
<1>1. /\ host.reads \in {"ip", "ip6", "path"} /\ host.bytes \in Seq(0 .. 255)
      /\ host.reads = "ip" => Len(host.bytes) = 4
      /\ host.reads = "ip6" => Len(host.bytes) = 16
  BY AddrAssumed DEF A!AddressesAssumption
<1>2. A!AF_INET \in {A!AF_INET, A!AF_INET6} /\ A!AF_INET6 # A!AF_INET
  BY DEF A!AF_INET, A!AF_INET6
<1>3. CASE host.reads = "ip"
  <2>1. A!Address(host, proto, port, junk) = A!WithPort(A!AF_INET, host.bytes, proto, port)
    BY <1>3 DEF A!Address
  <2> QED
    BY <1>1, <1>2, <1>3, <2>1, AddrWithPort
<1>4. CASE host.reads = "ip6"
  <2>1. A!Address(host, proto, port, junk) = A!WithPort(A!AF_INET6, host.bytes, proto, port)
    BY <1>4 DEF A!Address
  <2> QED
    BY <1>1, <1>2, <1>4, <2>1, AddrWithPort
<1>5. CASE host.reads = "path" /\ Len(host.bytes) > PathSize - 1
  BY <1>5 DEF A!Address, A!Refused, AddrSound
<1>6. CASE host.reads = "path" /\ Len(host.bytes) <= PathSize - 1
  <2>1. A!Address(host, proto, port, junk) = A!UnixPath(host.bytes, junk)
    BY <1>1, <1>6, AddrAssumed DEF A!Address, A!AddressesAssumption
  <2> QED
    BY <1>1, <1>6, <2>1, AddrPath
<1>7. Len(host.bytes) > PathSize - 1 \/ Len(host.bytes) <= PathSize - 1
  BY <1>1, AddrAssumed DEF A!AddressesAssumption
<1> QED
  BY <1>1, <1>3, <1>4, <1>5, <1>6, <1>7

LEMMA AddrRaw ==
  ASSUME NEW bytes \in Seq(0 .. 255), NEW proto, NEW port
  PROVE  AddrSound(A!AddressRaw(bytes, proto, port))
<1>1. A!AF_INET \in {A!AF_INET, A!AF_INET6} /\ A!AF_INET6 # A!AF_INET
  BY DEF A!AF_INET, A!AF_INET6
<1>2. CASE Len(bytes) = 4
  BY <1>1, <1>2, AddrWithPort DEF A!AddressRaw
<1>3. CASE Len(bytes) = 16
  BY <1>1, <1>3, AddrWithPort DEF A!AddressRaw
<1>4. CASE Len(bytes) # 4 /\ Len(bytes) # 16
  BY <1>4 DEF A!AddressRaw, A!Refused, AddrSound
<1> QED
  BY <1>2, <1>3, <1>4

LEMMA AddrKeeps == ASSUME AddrTypes, NEW result, AddrSound(result), A!Keeps(result) PROVE AddrTypes'
BY DEF AddrTypes, AddrSound, A!Keeps

LEMMA AddrNextKeeps == ASSUME AddrTypes, [A!Next]_(A!vars) PROVE AddrTypes'
<1>1. CASE UNCHANGED A!vars
  BY <1>1 DEF A!vars, AddrTypes
<1>2. CASE A!MakeAddress
  BY <1>2, AddrAddress, AddrKeeps DEF A!MakeAddress
<1>3. CASE A!MakeRaw
  <2>1. \A a \in known : A!AddrBits(a) \in Seq(0 .. 255)
    BY DEF AddrTypes, A!AddrBits
  <2> QED
    BY <1>3, <2>1, AddrRaw, AddrKeeps DEF A!MakeRaw
<1>4. CASE A!MakeAddress2
  <2> PICK host \in Hosts, port \in Ports, family \in {"any", "ip", "ip6", "other"} :
        /\ host.reads # "path"
        /\ A!Keeps(A!Address(host, A!TCP, port, << >>)) \/ A!Keeps(A!Refused)
    BY <1>4 DEF A!MakeAddress2
  <2>1. AddrSound(A!Refused)
    BY DEF AddrSound, A!Refused
  <2> QED
    BY <2>1, AddrAddress, AddrKeeps
<1> QED
  BY <1>1, <1>2, <1>3, <1>4 DEF A!Next

LEMMA AddrInitHolds == A!Init => AddrTypes
BY DEF A!Init, AddrTypes

LEMMA AddrKept == AddrTypes => A!TypeOK
BY DEF AddrTypes, A!TypeOK, A!AF_UNIX, A!AF_INET, A!AF_INET6
-----------------------------------------------------------------------------
(* The order of addresses, byte by byte.                                    *)

AddrWell(a) == /\ a.family \in {A!AF_UNIX, A!AF_INET, A!AF_INET6}
               /\ a.port \in 0 .. MaxPort
               /\ a.bytes \in Seq(0 .. 255)

\* strlen() finds an end.
LEMMA AddrEnd == ASSUME NEW bytes \in Seq(0 .. 255) PROVE A!strlen(bytes) \in 0 .. Len(bytes)
<1> DEFINE stops == {n \in 0 .. Len(bytes) : n = Len(bytes) \/ bytes[n + 1] = 0}
<1>1. Len(bytes) \in Nat
  OBVIOUS
<1>2. stops \in SUBSET Nat /\ stops # {}
  BY <1>1
<1>3. PICK n \in stops : \A m \in stops : n <= m
  BY <1>2, LowestOf
<1>4. n \in 0 .. Len(bytes) /\ (n = Len(bytes) \/ bytes[n + 1] = 0)
  OBVIOUS
<1>5. ASSUME NEW k \in 1 .. n PROVE bytes[k] # 0
  <2>1. k - 1 \in 0 .. Len(bytes) /\ k - 1 < n /\ (k - 1) + 1 = k
    BY <1>1, <1>4
  <2>2. k - 1 \notin stops
    <3> SUFFICES ASSUME k - 1 \in stops PROVE FALSE
      OBVIOUS
    <3>1. n <= k - 1
      BY <1>3
    <3> QED
      BY <1>1, <1>4, <2>1, <3>1
  <2> QED
    BY <1>1, <1>4, <2>1, <2>2
<1>6. \E m \in 0 .. Len(bytes) : /\ m = Len(bytes) \/ bytes[m + 1] = 0
                                 /\ \A k \in 1 .. m : bytes[k] # 0
  BY <1>4, <1>5
<1> QED
  BY <1>6 DEF A!strlen

LEMMA AddrSizes == ASSUME NEW a, AddrWell(a)
                   PROVE  /\ A!Inet_addrlen(a) \in 0 .. Len(a.bytes) /\ Len(a.bytes) \in Nat
                          /\ A!Inet_port(a) \in 0 .. MaxPort /\ MaxPort \in Nat
                          /\ a.family \in Nat
<1>1. MaxPort \in Nat /\ 0 \in 0 .. MaxPort
  BY AddrAssumed DEF A!AddressesAssumption
<1> QED
  BY <1>1, AddrEnd DEF AddrWell, A!Inet_addrlen, A!Inet_port, A!AF_UNIX, A!AF_INET, A!AF_INET6

\* memcmp() tells of the first place where there is a difference, if there is one.
LEMMA AddrMemcmp ==
  ASSUME NEW s \in Seq(0 .. 255), NEW t \in Seq(0 .. 255), NEW n \in Nat, n <= Len(s), n <= Len(t)
  PROVE  \E k \in 1 .. n + 1 : /\ \A j \in 1 .. k - 1 : s[j] = t[j]
                               /\ IF k <= n THEN s[k] # t[k] /\ A!memcmp(s, t, n) = s[k] - t[k]
                                  ELSE A!memcmp(s, t, n) = 0
<1> DEFINE differ == {k \in 1 .. n : s[k] # t[k]}
<1>1. CASE differ = {}
  <2>1. A!memcmp(s, t, n) = 0
    BY <1>1 DEF A!memcmp
  <2>2. \A j \in 1 .. n : s[j] = t[j]
    BY <1>1
  <2> WITNESS n + 1 \in 1 .. n + 1
  <2> QED
    BY <2>1, <2>2
<1>2. CASE differ # {}
  <2>1. differ \in SUBSET Nat
    OBVIOUS
  <2> DEFINE first == CHOOSE k \in differ : \A j \in differ : k <= j
  <2>2. first \in differ /\ \A j \in differ : first <= j
    BY <1>2, <2>1, LowestOf
  <2>3. A!memcmp(s, t, n) = s[first] - t[first]
    BY <1>2 DEF A!memcmp
  <2> HIDE DEF first
  <2>4. ASSUME NEW j \in 1 .. first - 1 PROVE s[j] = t[j]
    <3>1. j \in 1 .. n /\ j < first
      BY <2>2
    <3>2. j \notin differ
      BY <2>1, <2>2, <3>1
    <3> QED
      BY <3>1, <3>2
  <2>5. first \in 1 .. n + 1 /\ first <= n /\ s[first] # t[first]
    BY <2>2
  <2> QED
    BY <2>3, <2>4, <2>5
<1> QED
  BY <1>1, <1>2

\* What an address has at a place: a byte, or its end, which is before any byte.
AddrAt(a, j) == IF j <= A!Inet_addrlen(a) THEN a.bytes[j] ELSE -1

LEMMA AddrAtSound == ASSUME NEW a, AddrWell(a), NEW j \in Nat \ {0}
                     PROVE  AddrAt(a, j) \in -1 .. 255 /\ (AddrAt(a, j) = -1 <=> j > A!Inet_addrlen(a))
<1>1. A!Inet_addrlen(a) \in 0 .. Len(a.bytes) /\ Len(a.bytes) \in Nat
  BY AddrSizes
<1>2. CASE j <= A!Inet_addrlen(a)
  <2>1. j \in 1 .. Len(a.bytes)
    BY <1>1, <1>2
  <2>2. a.bytes \in Seq(0 .. 255)
    BY DEF AddrWell
  <2>3. a.bytes[j] \in 0 .. 255
    BY <2>1, <2>2, ElementOfSeq
  <2>4. AddrAt(a, j) = a.bytes[j]
    BY <1>2 DEF AddrAt
  <2>5. ~ (j > A!Inet_addrlen(a))
    BY <1>1, <1>2
  <2> QED
    BY <2>3, <2>4, <2>5
<1>3. CASE ~ (j <= A!Inet_addrlen(a))
  BY <1>1, <1>3 DEF AddrAt
<1> QED
  BY <1>2, <1>3

\* The first place where two addresses of one family differ decides, and if
\* there is none the ports do.
AddrAgree(a, b, k) == \A j \in Nat \ {0} : j < k => AddrAt(a, j) = AddrAt(b, j)
AddrAlike(a, b) == \A j \in Nat \ {0} : AddrAt(a, j) = AddrAt(b, j)

AddrBelow(a, b, k) == k \in Nat \ {0} /\ AddrAgree(a, b, k) /\ AddrAt(a, k) < AddrAt(b, k)

AddrDecided(a, b) ==
  \/ (\E k \in Nat \ {0} : AddrBelow(a, b, k)) /\ A!Inet_comp(a, b) < 0
  \/ (\E k \in Nat \ {0} : AddrBelow(b, a, k)) /\ A!Inet_comp(a, b) > 0
  \/ AddrAlike(a, b) /\ A!Inet_comp(a, b) = A!Inet_port(a) - A!Inet_port(b)

LEMMA AddrCompared == ASSUME NEW a, NEW b, AddrWell(a), AddrWell(b), a.family = b.family
                      PROVE  AddrDecided(a, b) /\ A!Inet_comp(a, b) \in Int
<1> DEFINE la == A!Inet_addrlen(a)
           lb == A!Inet_addrlen(b)
           short == A!Shorter(la, lb)
           found == A!memcmp(a.bytes, b.bytes, short)
<1>1. la \in 0 .. Len(a.bytes) /\ lb \in 0 .. Len(b.bytes) /\ Len(a.bytes) \in Nat /\ Len(b.bytes) \in Nat
  BY AddrSizes
<1>2. A!Inet_comp(a, b) = IF found # 0 THEN found ELSE IF la < lb THEN -1 ELSE IF la > lb THEN 1
                          ELSE A!Inet_port(a) - A!Inet_port(b)
  BY DEF A!Inet_comp
<1>3. short = IF la < lb THEN la ELSE lb
  BY DEF A!Shorter
<1>4. A!Inet_port(a) \in Int /\ A!Inet_port(b) \in Int
  BY AddrSizes
<1>5. \A j \in Nat \ {0} : /\ AddrAt(a, j) = IF j <= la THEN a.bytes[j] ELSE -1
                           /\ AddrAt(b, j) = IF j <= lb THEN b.bytes[j] ELSE -1
                           /\ AddrAt(a, j) \in -1 .. 255 /\ (AddrAt(a, j) = -1 <=> j > la)
                           /\ AddrAt(b, j) \in -1 .. 255 /\ (AddrAt(b, j) = -1 <=> j > lb)
  BY AddrAtSound DEF AddrAt
<1> HIDE DEF la, lb, found, short
<1>6. short \in Nat /\ short <= Len(a.bytes) /\ short <= Len(b.bytes)
  BY <1>1, <1>3
<1>7. a.bytes \in Seq(0 .. 255) /\ b.bytes \in Seq(0 .. 255)
  BY DEF AddrWell
<1>8. PICK k \in 1 .. short + 1 : /\ \A j \in 1 .. k - 1 : a.bytes[j] = b.bytes[j]
                                  /\ IF k <= short THEN a.bytes[k] # b.bytes[k] /\ found = a.bytes[k] - b.bytes[k]
                                     ELSE found = 0
  BY <1>6, <1>7, AddrMemcmp, ZenonT(60) DEF found
<1>9. k \in Nat \ {0} /\ k <= la + 1 /\ k <= lb + 1
  BY <1>1, <1>3, <1>8
<1>10. ASSUME NEW j \in Nat \ {0}, j < k PROVE AddrAt(a, j) = AddrAt(b, j)
  <2>1. a.bytes[j] = b.bytes[j]
    BY <1>8, <1>9, <1>10
  <2>2. j <= la /\ j <= lb
    BY <1>1, <1>9, <1>10
  <2> QED
    BY <1>5, <2>1, <2>2
<1>11. AddrAgree(a, b, k) /\ AddrAgree(b, a, k)
  BY <1>10 DEF AddrAgree
<1>12. CASE k <= short
  <2>1. k <= la /\ k <= lb
    BY <1>1, <1>3, <1>9, <1>12
  <2>2. AddrAt(a, k) = a.bytes[k] /\ AddrAt(b, k) = b.bytes[k]
    BY <1>5, <1>9, <2>1
  <2>3. AddrAt(a, k) \in Int /\ AddrAt(b, k) \in Int
    BY <1>5, <1>9, SMTT(40)
  <2>4. AddrAt(a, k) # AddrAt(b, k) /\ found = AddrAt(a, k) - AddrAt(b, k)
    BY <1>8, <1>12, <2>2
  <2>5. A!Inet_comp(a, b) = AddrAt(a, k) - AddrAt(b, k)
    BY <1>2, <2>3, <2>4
  <2>6. CASE AddrAt(a, k) < AddrAt(b, k)
    BY <1>9, <1>11, <2>3, <2>5, <2>6 DEF AddrDecided, AddrBelow
  <2>7. CASE AddrAt(b, k) < AddrAt(a, k)
    BY <1>9, <1>11, <2>3, <2>5, <2>7 DEF AddrDecided, AddrBelow
  <2> QED
    BY <2>3, <2>4, <2>6, <2>7
<1>13. CASE ~ (k <= short)
  <2>1. found = 0 /\ k = short + 1
    BY <1>6, <1>8, <1>13
  <2>2. CASE la < lb
    <3>1. k > la /\ k <= lb
      BY <1>1, <1>3, <2>1, <2>2
    <3>2. AddrAt(a, k) < AddrAt(b, k)
      <4>1. AddrAt(a, k) = -1
        BY <1>5, <1>9, <3>1
      <4>2. AddrAt(b, k) \in -1 .. 255 /\ AddrAt(b, k) # -1
        BY <1>1, <1>5, <1>9, <3>1, SMTT(40)
      <4> QED
        BY <4>1, <4>2
    <3>3. A!Inet_comp(a, b) = -1
      BY <1>2, <2>1, <2>2
    <3> QED
      BY <1>9, <1>11, <3>2, <3>3 DEF AddrDecided, AddrBelow
  <2>3. CASE la > lb
    <3>1. k <= la /\ k > lb
      BY <1>1, <1>3, <2>1, <2>3
    <3>2. AddrAt(b, k) < AddrAt(a, k)
      <4>1. AddrAt(b, k) = -1
        BY <1>5, <1>9, <3>1
      <4>2. AddrAt(a, k) \in -1 .. 255 /\ AddrAt(a, k) # -1
        BY <1>1, <1>5, <1>9, <3>1, SMTT(40)
      <4> QED
        BY <4>1, <4>2
    <3>3. A!Inet_comp(a, b) = 1
      BY <1>1, <1>2, <2>1, <2>3
    <3> QED
      BY <1>9, <1>11, <3>2, <3>3 DEF AddrDecided, AddrBelow
  <2>4. CASE la = lb
    <3>1. A!Inet_comp(a, b) = A!Inet_port(a) - A!Inet_port(b)
      BY <1>1, <1>2, <2>1, <2>4
    <3>2. ASSUME NEW j \in Nat \ {0} PROVE AddrAt(a, j) = AddrAt(b, j)
      <4>1. CASE j < k
        BY <1>10, <4>1
      <4>2. CASE ~ (j < k)
        <5>1. j > la /\ j > lb
          BY <1>1, <1>3, <2>1, <2>4, <4>2
        <5> QED
          BY <1>5, <5>1
      <4> QED
        BY <4>1, <4>2
    <3> QED
      BY <1>4, <3>1, <3>2 DEF AddrDecided, AddrAlike
  <2> QED
    BY <1>1, <2>2, <2>3, <2>4
<1> QED
  BY <1>12, <1>13

LEMMA AddrOtherFamily == ASSUME NEW a, NEW b, AddrWell(a), AddrWell(b), a.family # b.family
                         PROVE  /\ A!Inet_comp(a, b) = a.family - b.family
                                /\ a.family \in Nat /\ b.family \in Nat
BY AddrSizes DEF A!Inet_comp

LEMMA AddrPorts == ASSUME NEW a, AddrWell(a) PROVE A!Inet_port(a) \in Nat
<1>1. A!Inet_port(a) \in 0 .. MaxPort /\ MaxPort \in Nat
  BY AddrSizes
<1> QED
  BY <1>1

\* Of two addresses one is below the other, or they are alike.
LEMMA AddrOneWay == ASSUME NEW a, NEW b, AddrWell(a), AddrWell(b)
                    PROVE  /\ \A k, m \in Nat \ {0} : ~ (AddrBelow(a, b, k) /\ AddrBelow(b, a, m))
                           /\ \A k \in Nat \ {0} : ~ (AddrBelow(a, b, k) /\ (AddrAlike(a, b) \/ AddrAlike(b, a)))
<1>1. \A j \in Nat \ {0} : AddrAt(a, j) \in Int /\ AddrAt(b, j) \in Int
  BY AddrAtSound
<1>2. ASSUME NEW k \in Nat \ {0}, NEW m \in Nat \ {0}, AddrBelow(a, b, k), AddrBelow(b, a, m) PROVE FALSE
  <2>1. CASE k < m
    BY <1>1, <1>2, <2>1 DEF AddrBelow, AddrAgree
  <2>2. CASE m < k
    BY <1>1, <1>2, <2>2 DEF AddrBelow, AddrAgree
  <2>3. CASE m = k
    BY <1>1, <1>2, <2>3 DEF AddrBelow
  <2> QED
    BY <2>1, <2>2, <2>3
<1>3. ASSUME NEW k \in Nat \ {0}, AddrBelow(a, b, k), AddrAlike(a, b) \/ AddrAlike(b, a) PROVE FALSE
  BY <1>1, <1>3 DEF AddrBelow, AddrAlike
<1> QED
  BY <1>2, <1>3

\* Turned around, the comparison says the opposite.
LEMMA AddrTurned == ASSUME NEW a, NEW b, AddrWell(a), AddrWell(b)
                    PROVE  /\ A!Inet_comp(a, b) \in Int
                           /\ A!Inet_comp(a, b) < 0 <=> A!Inet_comp(b, a) > 0
<1>1. A!Inet_port(a) \in Nat /\ A!Inet_port(b) \in Nat
  BY AddrPorts
<1>2. CASE a.family # b.family
  <2>1. A!Inet_comp(a, b) = a.family - b.family /\ a.family \in Nat /\ b.family \in Nat
    BY <1>2, AddrOtherFamily
  <2>2. A!Inet_comp(b, a) = b.family - a.family
    BY <1>2, AddrOtherFamily
  <2> QED
    BY <2>1, <2>2
<1>3. CASE a.family = b.family
  <2>1. AddrDecided(a, b) /\ A!Inet_comp(a, b) \in Int
    BY <1>3, AddrCompared
  <2>2. AddrDecided(b, a) /\ A!Inet_comp(b, a) \in Int
    BY <1>3, AddrCompared
  <2>3. /\ \A k, m \in Nat \ {0} : ~ (AddrBelow(a, b, k) /\ AddrBelow(b, a, m))
        /\ \A k \in Nat \ {0} : ~ (AddrBelow(a, b, k) /\ (AddrAlike(a, b) \/ AddrAlike(b, a)))
    BY AddrOneWay
  <2>4. \A k \in Nat \ {0} : ~ (AddrBelow(b, a, k) /\ (AddrAlike(b, a) \/ AddrAlike(a, b)))
    BY AddrOneWay
  <2>5. CASE \E k \in Nat \ {0} : AddrBelow(a, b, k)
    BY <2>1, <2>2, <2>3, <2>5 DEF AddrDecided
  <2>6. CASE \E k \in Nat \ {0} : AddrBelow(b, a, k)
    BY <2>1, <2>2, <2>3, <2>4, <2>6 DEF AddrDecided
  <2>7. CASE ~ (\E k \in Nat \ {0} : AddrBelow(a, b, k)) /\ ~ (\E k \in Nat \ {0} : AddrBelow(b, a, k))
    BY <1>1, <2>1, <2>2, <2>7 DEF AddrDecided
  <2> QED
    BY <2>5, <2>6, <2>7
<1> QED
  BY <1>2, <1>3

\* What is not after what is not after an address is not after it.
LEMMA AddrThird ==
  ASSUME NEW a, NEW b, NEW c, AddrWell(a), AddrWell(b), AddrWell(c),
         A!Inet_comp(a, b) <= 0, A!Inet_comp(b, c) <= 0
  PROVE  A!Inet_comp(a, c) <= 0
<1>1. a.family \in Nat /\ b.family \in Nat /\ c.family \in Nat
  BY AddrSizes
<1>2. A!Inet_port(a) \in Nat /\ A!Inet_port(b) \in Nat /\ A!Inet_port(c) \in Nat
  BY AddrPorts
<1>3. \A j \in Nat \ {0} : AddrAt(a, j) \in Int /\ AddrAt(b, j) \in Int /\ AddrAt(c, j) \in Int
  BY AddrAtSound, SMTT(40)
<1>4. CASE ~ (a.family = b.family /\ b.family = c.family)
  <2>1. a.family # b.family => A!Inet_comp(a, b) = a.family - b.family
    BY AddrOtherFamily
  <2>2. b.family # c.family => A!Inet_comp(b, c) = b.family - c.family
    BY AddrOtherFamily
  <2>3. a.family # c.family => A!Inet_comp(a, c) = a.family - c.family
    BY AddrOtherFamily
  <2> QED
    BY <1>1, <1>4, <2>1, <2>2, <2>3
<1>5. CASE a.family = b.family /\ b.family = c.family
  <2>1. AddrDecided(a, b) /\ A!Inet_comp(a, b) \in Int
    BY <1>5, AddrCompared
  <2>2. AddrDecided(b, c) /\ A!Inet_comp(b, c) \in Int
    BY <1>5, AddrCompared
  <2>3. AddrDecided(a, c) /\ A!Inet_comp(a, c) \in Int
    BY <1>5, AddrCompared
  <2>4. /\ \A k, m \in Nat \ {0} : ~ (AddrBelow(a, c, k) /\ AddrBelow(c, a, m))
        /\ \A k \in Nat \ {0} : ~ (AddrBelow(a, c, k) /\ (AddrAlike(a, c) \/ AddrAlike(c, a)))
    BY AddrOneWay
  <2>5. (\E k \in Nat \ {0} : AddrBelow(a, c, k)) => A!Inet_comp(a, c) <= 0
    BY <2>3, <2>4 DEF AddrDecided
  <2>6. ASSUME NEW k \in Nat \ {0}, AddrBelow(a, b, k), NEW m \in Nat \ {0}, AddrBelow(b, c, m)
        PROVE  \E n \in Nat \ {0} : AddrBelow(a, c, n)
    <3>1. CASE k <= m
      <4>1. AddrAgree(a, c, k)
        BY <2>6, <3>1 DEF AddrBelow, AddrAgree
      <4>2. AddrAt(a, k) < AddrAt(c, k)
        BY <1>3, <2>6, <3>1 DEF AddrBelow, AddrAgree
      <4> QED
        BY <4>1, <4>2 DEF AddrBelow
    <3>2. CASE m < k
      <4>1. AddrAgree(a, c, m)
        BY <2>6, <3>2 DEF AddrBelow, AddrAgree
      <4>2. AddrAt(a, m) < AddrAt(c, m)
        BY <1>3, <2>6, <3>2 DEF AddrBelow, AddrAgree
      <4> QED
        BY <4>1, <4>2 DEF AddrBelow
    <3> QED
      BY <3>1, <3>2
  <2>7. ASSUME NEW k \in Nat \ {0}, AddrBelow(a, b, k), AddrAlike(b, c)
        PROVE  AddrBelow(a, c, k)
    BY <2>7 DEF AddrBelow, AddrAgree, AddrAlike
  <2>8. ASSUME AddrAlike(a, b), NEW m \in Nat \ {0}, AddrBelow(b, c, m)
        PROVE  AddrBelow(a, c, m)
    BY <2>8 DEF AddrBelow, AddrAgree, AddrAlike
  <2>9. ASSUME AddrAlike(a, b), AddrAlike(b, c)
        PROVE  AddrAlike(a, c) /\ AddrAlike(c, a)
    BY <2>9 DEF AddrAlike
  <2>10. CASE \E k \in Nat \ {0} : AddrBelow(a, b, k)
    <3>1. (\E m \in Nat \ {0} : AddrBelow(b, c, m)) \/ AddrAlike(b, c)
      BY <2>2 DEF AddrDecided
    <3> QED
      BY <2>5, <2>6, <2>7, <2>10, <3>1
  <2>11. CASE AddrAlike(a, b) /\ A!Inet_comp(a, b) = A!Inet_port(a) - A!Inet_port(b)
    <3>1. CASE \E m \in Nat \ {0} : AddrBelow(b, c, m)
      BY <2>5, <2>8, <2>11, <3>1
    <3>2. CASE AddrAlike(b, c) /\ A!Inet_comp(b, c) = A!Inet_port(b) - A!Inet_port(c)
      <4>1. AddrAlike(a, c) /\ AddrAlike(c, a)
        BY <2>9, <2>11, <3>2
      <4>2. \A k \in Nat \ {0} : ~ (AddrBelow(c, a, k) /\ (AddrAlike(c, a) \/ AddrAlike(a, c)))
        BY AddrOneWay
      <4>3. A!Inet_comp(a, c) = A!Inet_port(a) - A!Inet_port(c)
        BY <2>3, <2>4, <4>1, <4>2 DEF AddrDecided
      <4> QED
        BY <1>2, <2>11, <3>2, <4>3
    <3> QED
      BY <2>2, <3>1, <3>2 DEF AddrDecided
  <2> QED
    BY <2>1, <2>10, <2>11 DEF AddrDecided
<1> QED
  BY <1>4, <1>5

LEMMA AddrFirst == ASSUME NEW s \in Seq(0 .. 255), NEW n \in 0 .. Len(s)
                   PROVE  /\ SubSeq(s, 1, n) \in Seq(0 .. 255) /\ Len(SubSeq(s, 1, n)) = n
                          /\ \A j \in 1 .. n : SubSeq(s, 1, n)[j] = s[j]
<1>1. ASSUME NEW j \in 1 .. n PROVE s[j] \in 0 .. 255
  <2>1. j \in 1 .. Len(s)
    OBVIOUS
  <2> QED
    BY <2>1, ElementOfSeq
<1> DEFINE m == 1
<1>2. m \in Int /\ n \in Int /\ \A j \in m .. n : s[j] \in 0 .. 255
  BY <1>1
<1> HIDE DEF m
<1>3. /\ SubSeq(s, m, n) \in Seq(0 .. 255)
      /\ Len(SubSeq(s, m, n)) = IF m <= n THEN n - m + 1 ELSE 0
      /\ \A j \in 1 .. n - m + 1 : SubSeq(s, m, n)[j] = s[m + j - 1]
  BY <1>2, SubSeqProperties
<1> QED
  BY <1>3 DEF m

\* Two addresses compare as equal when they are shown as the same.
LEMMA AddrShown == ASSUME NEW a, NEW b, AddrWell(a), AddrWell(b)
                   PROVE  A!Equal(a, b) <=> A!Shows(a) = A!Shows(b)
<1> DEFINE la == A!Inet_addrlen(a)
           lb == A!Inet_addrlen(b)
           pa == IF a.family = A!AF_UNIX THEN Nothing ELSE A!Inet_port(a)
           pb == IF b.family = A!AF_UNIX THEN Nothing ELSE A!Inet_port(b)
           ta == SubSeq(a.bytes, 1, la)
           tb == SubSeq(b.bytes, 1, lb)
<1>1. /\ la \in 0 .. Len(a.bytes) /\ lb \in 0 .. Len(b.bytes) /\ Len(a.bytes) \in Nat /\ Len(b.bytes) \in Nat
      /\ a.family \in Nat /\ b.family \in Nat
  BY AddrSizes
<1>2. A!Inet_port(a) \in Nat /\ A!Inet_port(b) \in Nat
  BY AddrPorts
<1>3. Nothing \notin Int
  BY AddrAssumed DEF A!AddressesAssumption
<1>4. A!Inet_port(a) # Nothing /\ A!Inet_port(b) # Nothing
  BY <1>2, <1>3
<1>5. A!Shows(a) = A!Shows(b) <=> a.family = b.family /\ ta = tb /\ pa = pb
  <2>1. A!Shows(a) = [family |-> a.family, display |-> [text |-> ta, brackets |-> a.family = A!AF_INET6, port |-> pa]]
    BY <1>4 DEF A!Shows, A!Display
  <2>2. A!Shows(b) = [family |-> b.family, display |-> [text |-> tb, brackets |-> b.family = A!AF_INET6, port |-> pb]]
    BY <1>4 DEF A!Shows, A!Display
  <2> HIDE DEF ta, tb, pa, pb
  <2>3. ASSUME A!Shows(a) = A!Shows(b) PROVE a.family = b.family /\ ta = tb /\ pa = pb
    <3>1. A!Shows(a).family = A!Shows(b).family /\ A!Shows(a).display = A!Shows(b).display
      BY <2>3
    <3>2. /\ A!Shows(a).family = a.family /\ A!Shows(b).family = b.family
          /\ A!Shows(a).display.text = ta /\ A!Shows(b).display.text = tb
          /\ A!Shows(a).display.port = pa /\ A!Shows(b).display.port = pb
      BY <2>1, <2>2
    <3> QED
      BY <3>1, <3>2
  <2>4. ASSUME a.family = b.family, ta = tb, pa = pb PROVE A!Shows(a) = A!Shows(b)
    BY <2>1, <2>2, <2>4
  <2> QED
    BY <2>3, <2>4
<1>6. a.bytes \in Seq(0 .. 255) /\ b.bytes \in Seq(0 .. 255)
  BY DEF AddrWell
<1>7. /\ Len(ta) = la /\ \A j \in 1 .. la : ta[j] = a.bytes[j]
      /\ Len(tb) = lb /\ \A j \in 1 .. lb : tb[j] = b.bytes[j]
      /\ ta \in Seq(0 .. 255) /\ tb \in Seq(0 .. 255)
  BY <1>1, <1>6, AddrFirst
<1>8. \A j \in Nat \ {0} : /\ AddrAt(a, j) = IF j <= la THEN a.bytes[j] ELSE -1
                           /\ AddrAt(b, j) = IF j <= lb THEN b.bytes[j] ELSE -1
                           /\ AddrAt(a, j) \in -1 .. 255 /\ (AddrAt(a, j) = -1 <=> j > la)
                           /\ AddrAt(b, j) \in -1 .. 255 /\ (AddrAt(b, j) = -1 <=> j > lb)
  BY AddrAtSound DEF AddrAt
<1> HIDE DEF la, lb, ta, tb
<1>9. AddrAlike(a, b) <=> ta = tb
  <2>1. ASSUME AddrAlike(a, b) PROVE ta = tb
    <3>1. \A j \in Nat \ {0} : j > la <=> j > lb
      BY <1>8, <2>1 DEF AddrAlike
    <3>2. la = lb
      <4>1. la + 1 \in Nat \ {0} /\ lb + 1 \in Nat \ {0} /\ la \in Nat /\ lb \in Nat
        BY <1>1
      <4>2. la + 1 > lb /\ lb + 1 > la
        BY <3>1, <4>1
      <4> QED
        BY <4>1, <4>2
    <3>3. ASSUME NEW j \in 1 .. la PROVE ta[j] = tb[j]
      <4>1. j \in Nat \ {0} /\ j <= la /\ j <= lb
        BY <1>1, <3>2
      <4>2. AddrAt(a, j) = a.bytes[j] /\ AddrAt(b, j) = b.bytes[j]
        BY <1>8, <4>1
      <4> QED
        BY <1>7, <2>1, <3>2, <4>1, <4>2 DEF AddrAlike
    <3> QED
      BY <1>7, <3>2, <3>3
  <2>2. ASSUME ta = tb, NEW j \in Nat \ {0} PROVE AddrAt(a, j) = AddrAt(b, j)
    <3>1. la = lb /\ la \in Nat
      BY <1>1, <1>7, <2>2
    <3>2. CASE j <= la
      <4>1. a.bytes[j] = b.bytes[j]
        BY <1>7, <2>2, <3>1, <3>2
      <4> QED
        BY <1>8, <3>1, <3>2, <4>1
    <3>3. CASE ~ (j <= la)
      BY <1>8, <3>1, <3>3
    <3> QED
      BY <3>2, <3>3
  <2> QED
    BY <2>1, <2>2 DEF AddrAlike
<1>10. a.family # b.family => ~ A!Equal(a, b)
  BY <1>1, AddrOtherFamily DEF A!Equal
<1>11. ASSUME a.family = b.family PROVE A!Equal(a, b) <=> AddrAlike(a, b) /\ A!Inet_port(a) = A!Inet_port(b)
  <2>1. AddrDecided(a, b) /\ A!Inet_comp(a, b) \in Int
    BY <1>11, AddrCompared
  <2>2. /\ \A k \in Nat \ {0} : ~ (AddrBelow(a, b, k) /\ (AddrAlike(a, b) \/ AddrAlike(b, a)))
        /\ \A k \in Nat \ {0} : ~ (AddrBelow(b, a, k) /\ (AddrAlike(b, a) \/ AddrAlike(a, b)))
    BY AddrOneWay
  <2>3. ASSUME A!Inet_comp(a, b) = 0 PROVE AddrAlike(a, b) /\ A!Inet_port(a) = A!Inet_port(b)
    BY <1>2, <2>1, <2>3 DEF AddrDecided
  <2>4. ASSUME AddrAlike(a, b), A!Inet_port(a) = A!Inet_port(b) PROVE A!Inet_comp(a, b) = 0
    BY <1>2, <2>1, <2>2, <2>4 DEF AddrDecided
  <2> QED
    BY <2>3, <2>4 DEF A!Equal
<1>12. ASSUME a.family = b.family PROVE A!Inet_port(a) = A!Inet_port(b) <=> pa = pb
  <2>1. CASE a.family = A!AF_UNIX
    BY <1>12, <2>1 DEF A!Inet_port
  <2>2. CASE a.family # A!AF_UNIX
    BY <1>12, <2>2
  <2> QED
    BY <2>1, <2>2
<1> QED
  BY <1>5, <1>9, <1>10, <1>11, <1>12

LEMMA AddrInOrder == AddrTypes => A!Ordered
<1> SUFFICES ASSUME AddrTypes, NEW a \in known, NEW b \in known
             PROVE  /\ A!Equal(a, b) <=> A!Shows(a) = A!Shows(b)
                    /\ A!Before(a, b) <=> ~ A!NotAfter(b, a)
                    /\ A!NotAfter(a, b) <=> A!Before(a, b) \/ A!Equal(a, b)
                    /\ \A c \in known : A!NotAfter(a, b) /\ A!NotAfter(b, c) => A!NotAfter(a, c)
  BY DEF A!Ordered
<1>1. \A c \in known : AddrWell(c)
  BY DEF AddrTypes, AddrWell
<1>2. A!Equal(a, b) <=> A!Shows(a) = A!Shows(b)
  BY <1>1, AddrShown
<1>3. /\ A!Inet_comp(a, b) \in Int /\ A!Inet_comp(b, a) \in Int
      /\ A!Inet_comp(a, b) < 0 <=> A!Inet_comp(b, a) > 0
  BY <1>1, AddrTurned
<1>4. A!Before(a, b) <=> ~ A!NotAfter(b, a)
  BY <1>3 DEF A!Before, A!NotAfter
<1>5. A!NotAfter(a, b) <=> A!Before(a, b) \/ A!Equal(a, b)
  BY <1>3 DEF A!Before, A!NotAfter, A!Equal
<1>6. ASSUME NEW c \in known, A!NotAfter(a, b), A!NotAfter(b, c) PROVE A!NotAfter(a, c)
  BY <1>1, <1>6, AddrThird DEF A!NotAfter
<1> QED
  BY <1>2, <1>4, <1>5, <1>6

(* What a call makes is what it was asked for.                              *)
AddrAsAsked(result, bytes, proto, port) ==
  /\ result.err = 0 => LET a == result.address
                       IN /\ SubSeq(a.bytes, 1, Len(bytes)) = bytes
                          /\ a.family # A!AF_UNIX => A!Inet_port(a) = A!PortOf(proto, port)
  /\ result.err = A!Abort => A!PortOf(proto, port) \notin 0 .. MaxPort

LEMMA AddrRefusedAsAsked == ASSUME NEW bytes, NEW proto, NEW port
                            PROVE  AddrAsAsked(A!Refused, bytes, proto, port)
BY DEF AddrAsAsked, A!Refused, A!Abort

LEMMA AddrPortAsAsked ==
  ASSUME NEW family \in {A!AF_INET, A!AF_INET6}, NEW bytes \in Seq(0 .. 255), NEW proto, NEW port
  PROVE  AddrAsAsked(A!WithPort(family, bytes, proto, port), bytes, proto, port)
<1> DEFINE p == A!PortOf(proto, port)
           a == [family |-> family, bytes |-> bytes, port |-> p]
<1>1. CASE p \in 0 .. MaxPort
  <2>1. A!WithPort(family, bytes, proto, port) = A!Made(a)
    BY <1>1 DEF A!WithPort
  <2>2. a.family = family /\ a.bytes = bytes /\ a.port = p
    OBVIOUS
  <2>3. A!Made(a).address = a /\ A!Made(a).err = 0
    BY DEF A!Made
  <2>4. family # A!AF_UNIX
    BY DEF A!AF_UNIX, A!AF_INET, A!AF_INET6
  <2>5. A!Inet_port(a) = p
    BY <2>2, <2>4 DEF A!Inet_port
  <2>6. SubSeq(bytes, 1, Len(bytes)) = bytes
    OBVIOUS
  <2> HIDE DEF a
  <2> QED
    BY <2>1, <2>2, <2>3, <2>5, <2>6 DEF AddrAsAsked, A!Abort
<1>2. CASE ~ (p \in 0 .. MaxPort)
  <2>1. A!WithPort(family, bytes, proto, port) = A!Aborts
    BY <1>2 DEF A!WithPort
  <2>2. A!Aborts.err # 0
    BY DEF A!Aborts, A!Abort
  <2> QED
    BY <1>2, <2>1, <2>2 DEF AddrAsAsked
<1> QED
  BY <1>1, <1>2

LEMMA AddrPathAsAsked ==
  ASSUME NEW text \in Seq(0 .. 255), Len(text) <= PathSize - 1, NEW junk \in Junk, NEW proto, NEW port
  PROVE  AddrAsAsked(A!UnixPath(text, junk), text, proto, port)
<1> DEFINE rest == SubSeq(junk, Len(text) + 2, PathSize)
           bytes == text \o <<0>> \o rest
           a == [family |-> A!AF_UNIX, port |-> 0, bytes |-> bytes]
<1>1. /\ PathSize \in Nat \ {0} /\ junk \in Seq(0 .. 255) /\ Len(junk) = PathSize /\ Len(text) \in Nat
  BY AddrAssumed DEF A!AddressesAssumption
<1>2. rest \in Seq(0 .. 255)
  <2>1. Len(text) + 2 \in Int /\ PathSize \in Int
    BY <1>1
  <2>2. ASSUME NEW j \in Len(text) + 2 .. PathSize PROVE junk[j] \in 0 .. 255
    <3>1. j \in 1 .. Len(junk)
      BY <1>1
    <3> QED
      BY <1>1, <3>1, ElementOfSeq
  <2> QED
    BY <2>1, <2>2, SubSeqProperties
<1>3. <<0>> \in Seq(0 .. 255)
  OBVIOUS
<1>4. A!UnixPath(text, junk) = A!Made(a)
  BY DEF A!UnixPath
<1> HIDE DEF rest
<1>5. bytes \in Seq(0 .. 255) /\ Len(text) <= Len(bytes) /\ \A j \in 1 .. Len(text) : bytes[j] = text[j]
  BY <1>2, <1>3
<1>6. a.family = A!AF_UNIX /\ a.bytes = bytes
  OBVIOUS
<1> HIDE DEF bytes
<1>7. SubSeq(bytes, 1, Len(text)) = text
  BY <1>1, <1>5
<1>8. A!Made(a).address = a /\ A!Made(a).err = 0
  BY DEF A!Made
<1> HIDE DEF a
<1> QED
  BY <1>4, <1>6, <1>7, <1>8 DEF AddrAsAsked, A!Abort

LEMMA AddrAddressAsAsked ==
  ASSUME NEW host \in Hosts, NEW proto, NEW port, NEW junk, host.reads = "path" => junk \in Junk
  PROVE  AddrAsAsked(A!Address(host, proto, port, junk), host.bytes, proto, port)
<1>1. host.reads \in {"ip", "ip6", "path"} /\ host.bytes \in Seq(0 .. 255)
  BY AddrAssumed DEF A!AddressesAssumption
<1>2. A!AF_INET \in {A!AF_INET, A!AF_INET6} /\ A!AF_INET6 \in {A!AF_INET, A!AF_INET6}
  OBVIOUS
<1>3. CASE host.reads = "ip"
  BY <1>1, <1>2, <1>3, AddrPortAsAsked DEF A!Address
<1>4. CASE host.reads = "ip6"
  BY <1>1, <1>2, <1>4, AddrPortAsAsked DEF A!Address
<1>5. CASE host.reads = "path" /\ Len(host.bytes) > PathSize - 1
  BY <1>5, AddrRefusedAsAsked DEF A!Address
<1>6. CASE host.reads = "path" /\ ~ (Len(host.bytes) > PathSize - 1)
  <2>1. A!Address(host, proto, port, junk) = A!UnixPath(host.bytes, junk)
    BY <1>6 DEF A!Address
  <2>2. Len(host.bytes) <= PathSize - 1
    BY <1>1, <1>6, AddrAssumed DEF A!AddressesAssumption
  <2> QED
    BY <1>1, <1>6, <2>1, <2>2, AddrPathAsAsked
<1> QED
  BY <1>1, <1>3, <1>4, <1>5, <1>6

LEMMA AddrRawAsAsked ==
  ASSUME NEW bytes \in Seq(0 .. 255), NEW proto, NEW port
  PROVE  AddrAsAsked(A!AddressRaw(bytes, proto, port), bytes, proto, port)
<1>1. A!AF_INET \in {A!AF_INET, A!AF_INET6} /\ A!AF_INET6 \in {A!AF_INET, A!AF_INET6}
  OBVIOUS
<1>2. CASE Len(bytes) = 4
  BY <1>1, <1>2, AddrPortAsAsked DEF A!AddressRaw
<1>3. CASE Len(bytes) = 16
  BY <1>1, <1>3, AddrPortAsAsked DEF A!AddressRaw
<1>4. CASE Len(bytes) # 4 /\ Len(bytes) # 16
  BY <1>4, AddrRefusedAsAsked DEF A!AddressRaw
<1> QED
  BY <1>2, <1>3, <1>4

AddrAsAskedEver == AddrAsAsked(outcome, madeOf.bytes, madeOf.proto, madeOf.port)

LEMMA AddrAsAskedKept == ASSUME AddrTypes, AddrAsAskedEver, [A!Next]_(A!vars) PROVE AddrAsAskedEver'
<1>1. ASSUME NEW result, NEW bytes, NEW proto, NEW port, AddrAsAsked(result, bytes, proto, port),
             A!Keeps(result), madeOf' = [proto |-> proto, port |-> port, bytes |-> bytes]
      PROVE  AddrAsAskedEver'
  <2>1. outcome' = result /\ madeOf'.bytes = bytes /\ madeOf'.proto = proto /\ madeOf'.port = port
    BY <1>1 DEF A!Keeps
  <2> QED
    BY <1>1, <2>1 DEF AddrAsAskedEver, AddrAsAsked
<1>2. CASE UNCHANGED A!vars
  BY <1>2 DEF A!vars, AddrAsAskedEver, AddrAsAsked
<1>3. CASE A!MakeAddress
  BY <1>1, <1>3, AddrAddressAsAsked DEF A!MakeAddress
<1>4. CASE A!MakeRaw
  <2>1. \A a \in known : A!AddrBits(a) \in Seq(0 .. 255)
    BY DEF AddrTypes, A!AddrBits
  <2> QED
    BY <1>1, <1>4, <2>1, AddrRawAsAsked DEF A!MakeRaw
<1>5. CASE A!MakeAddress2
  <2> PICK host \in Hosts, port \in Ports :
        /\ host.reads # "path"
        /\ A!Keeps(A!Address(host, A!TCP, port, << >>)) \/ A!Keeps(A!Refused)
        /\ madeOf' = [proto |-> A!TCP, port |-> port, bytes |-> host.bytes]
    BY <1>5 DEF A!MakeAddress2
  <2> QED
    BY <1>1, AddrAddressAsAsked, AddrRefusedAsAsked
<1> QED
  BY <1>2, <1>3, <1>4, <1>5 DEF A!Next

LEMMA AddrAsAskedInit == A!Init => AddrAsAskedEver
BY AddrRefusedAsAsked DEF A!Init, AddrAsAskedEver

LEMMA AddrReads == AddrTypes /\ AddrAsAskedEver => A!Ordered /\ A!MadeAsAsked
BY AddrInOrder DEF AddrAsAskedEver, AddrAsAsked, A!MadeAsAsked
-----------------------------------------------------------------------------
(* Every inode in use has a name, and a directory no other.                 *)

TreeInode == [type : {"free", "dir", "pipe", "link"}, perms : SUBSET (1 .. 12), to : Name \cup {"nowhere"}]

TreeTypes == /\ names \in [Name -> Ino \cup {0}]
             /\ inode \in [Ino -> TreeInode]
             /\ umask \subseteq T!Permissions

TreeNamed == \A i \in Ino : inode[i].type = "free" <=> \A n \in Name : names[n] # i

TreeOnce == \A i \in Ino : inode[i].type = "dir" => \A m, n \in Name : names[m] = i /\ names[n] = i => m = n

TreeIInv == TreeTypes /\ TreeNamed /\ TreeOnce

LEMMA TreeAssumed == 0 \notin Ino /\ T!Permissions \subseteq 1 .. 12
<1>1. T!TreeAssumption
  BY Assumptions, Zenon
<1> QED
  BY <1>1 DEF T!TreeAssumption, T!Permissions

LEMMA TreeMode == ASSUME NEW txt, NEW def, def \subseteq 1 .. 12 PROVE T!checkmode(txt, def) \subseteq 1 .. 12
BY TreeAssumed DEF T!checkmode, T!Nine

LEMMA TreeMake == ASSUME TreeIInv, NEW n \in Name, NEW type \in {"dir", "pipe", "link"}, NEW perms \in SUBSET (1 .. 12),
                         NEW to \in Name \cup {"nowhere"}, NEW wish, T!Make(n, type, perms, to, wish)
                  PROVE  TreeIInv'
<1>1. PICK i \in Ino : /\ inode[i].type = "free"
                       /\ names' = [names EXCEPT ![n] = i]
                       /\ inode' = [inode EXCEPT ![i] = [type |-> type, perms |-> perms, to |-> to]]
  BY DEF T!Make, T!Unused
<1>2. names[n] = 0 /\ UNCHANGED umask
  BY DEF T!Make, T!Exists
<1>3. \A m \in Name : names[m] # i
  BY <1>1 DEF TreeIInv, TreeNamed
<1>4. names' \in [Name -> Ino \cup {0}]
  BY <1>1 DEF TreeIInv, TreeTypes
<1>5. [type |-> type, perms |-> perms, to |-> to] \in TreeInode
  BY DEF TreeInode
<1>6. inode' \in [Ino -> TreeInode]
  BY <1>1, <1>5 DEF TreeIInv, TreeTypes
<1>7. /\ \A j \in Ino : inode'[j].type = IF j = i THEN type ELSE inode[j].type
      /\ \A m \in Name : names'[m] = IF m = n THEN i ELSE names[m]
  BY <1>1 DEF TreeIInv, TreeTypes
<1>8. TreeNamed'
  BY <1>2, <1>3, <1>7, TreeAssumed DEF TreeIInv, TreeNamed
<1>9. TreeOnce'
  BY <1>2, <1>3, <1>7, TreeAssumed DEF TreeIInv, TreeOnce
<1> QED
  BY <1>2, <1>4, <1>6, <1>8, <1>9 DEF TreeIInv, TreeTypes

LEMMA TreeLink == ASSUME TreeIInv, NEW old \in Name, NEW new \in Name, T!Link(old, new) PROVE TreeIInv'
<1>1. /\ names[old] \in Ino /\ names[new] = 0 /\ inode[names[old]].type # "dir"
      /\ names' = [names EXCEPT ![new] = names[old]] /\ UNCHANGED <<inode, umask>>
  BY DEF T!Link, T!Exists, TreeIInv, TreeTypes
<1>2. \A m \in Name : names'[m] = IF m = new THEN names[old] ELSE names[m]
  BY <1>1 DEF TreeIInv, TreeTypes
<1>3. TreeNamed'
  BY <1>1, <1>2, TreeAssumed DEF TreeIInv, TreeNamed
<1>4. TreeOnce'
  BY <1>1, <1>2, TreeAssumed DEF TreeIInv, TreeOnce
<1> QED
  BY <1>1, <1>3, <1>4 DEF TreeIInv, TreeTypes

LEMMA TreeRmdir == ASSUME TreeIInv, NEW n \in Name, T!Rmdir(n) PROVE TreeIInv'
<1>1. /\ names[n] \in Ino /\ inode[names[n]].type = "dir"
      /\ inode' = [inode EXCEPT ![names[n]] = T!Free]
      /\ names' = [names EXCEPT ![n] = 0] /\ UNCHANGED umask
  BY DEF T!Rmdir, T!Exists, TreeIInv, TreeTypes
<1>2. T!Free \in TreeInode /\ T!Free.type = "free"
  BY DEF T!Free, TreeInode
<1>3. inode' \in [Ino -> TreeInode] /\ names' \in [Name -> Ino \cup {0}]
  BY <1>1, <1>2 DEF TreeIInv, TreeTypes
<1>4. /\ \A j \in Ino : inode'[j].type = IF j = names[n] THEN "free" ELSE inode[j].type
      /\ \A m \in Name : names'[m] = IF m = n THEN 0 ELSE names[m]
  BY <1>1, <1>2 DEF TreeIInv, TreeTypes
<1>5. \A m \in Name : names[m] = names[n] => m = n
  BY <1>1 DEF TreeIInv, TreeOnce
<1>6. TreeNamed'
  BY <1>4, <1>5, TreeAssumed DEF TreeIInv, TreeNamed
<1>7. TreeOnce'
  BY <1>4, TreeAssumed DEF TreeIInv, TreeOnce
<1> QED
  BY <1>1, <1>3, <1>6, <1>7 DEF TreeIInv, TreeTypes

\* Whatever inode is found behind the links, it stays of its kind.
LEMMA TreeChmod == ASSUME TreeIInv, NEW n \in Name, NEW def \in SUBSET (1 .. 12), T!Chmod(n, def) PROVE TreeIInv'
<1>1. PICK txt : /\ inode' = [inode EXCEPT ![T!Resolved(n)].perms = T!checkmode(txt, def)]
                 /\ UNCHANGED <<names, umask>>
  BY DEF T!Chmod
<1> DEFINE found == T!Resolved(n)
           perms == T!checkmode(txt, def)
<1>2. perms \in SUBSET (1 .. 12)
  BY TreeMode
<1> HIDE DEF found, perms
<1>3. inode' = [inode EXCEPT ![found].perms = perms]
  BY <1>1 DEF found, perms
<1>4. \A i \in Ino : inode'[i] = inode[i] \/ inode'[i] = [inode[i] EXCEPT !.perms = perms]
  BY <1>3 DEF TreeIInv, TreeTypes
<1>5. ASSUME NEW i \in Ino PROVE inode'[i] \in TreeInode /\ inode'[i].type = inode[i].type
  <2>1. inode[i] \in TreeInode
    BY DEF TreeIInv, TreeTypes
  <2>2. CASE inode'[i] = inode[i]
    BY <2>1, <2>2
  <2>3. CASE inode'[i] = [inode[i] EXCEPT !.perms = perms]
    BY <1>2, <2>1, <2>3 DEF TreeInode
  <2> QED
    BY <1>4, <2>2, <2>3
<1>6. inode' \in [Ino -> TreeInode]
  BY <1>3, <1>5 DEF TreeIInv, TreeTypes
<1> QED
  BY <1>1, <1>5, <1>6 DEF TreeIInv, TreeTypes, TreeNamed, TreeOnce

LEMMA TreeNextKeeps == ASSUME TreeIInv, [T!Next]_(T!vars) PROVE TreeIInv'
<1>1. ASSUME NEW n \in Name, T!Mkdir(n) PROVE TreeIInv'
  <2> PICK ask \in T!Requests(T!Open0777) :
        T!Make(n, "dir", T!Kept("dir", T!checkmode(ask.txt, T!Open0777)) \ umask, "nowhere",
               T!Kept("dir", ask.mode) \ umask)
    BY <1>1 DEF T!Mkdir
  <2>1. (T!Kept("dir", T!checkmode(ask.txt, T!Open0777)) \ umask) \in SUBSET (1 .. 12)
    BY TreeMode, TreeAssumed DEF T!Kept, T!Open0777
  <2> QED
    BY <2>1, TreeMake
<1>2. ASSUME NEW n \in Name, T!Mkfifo(n) PROVE TreeIInv'
  <2> PICK ask \in T!Requests(T!Open0666) :
        T!Make(n, "pipe", T!checkmode(ask.txt, T!Open0666) \ umask, "nowhere", ask.mode \ umask)
    BY <1>2 DEF T!Mkfifo
  <2>1. (T!checkmode(ask.txt, T!Open0666) \ umask) \in SUBSET (1 .. 12)
    BY TreeMode DEF T!Open0666
  <2> QED
    BY <2>1, TreeMake
<1>3. ASSUME NEW old \in Name, NEW new \in Name, T!Symlink(old, new) PROVE TreeIInv'
  BY <1>3, TreeMake, TreeAssumed DEF T!Symlink
<1>4. ASSUME NEW ask, T!Umask(ask) PROVE TreeIInv'
  BY <1>4 DEF T!Umask, TreeIInv, TreeTypes, TreeNamed, TreeOnce
<1>5. CASE UNCHANGED T!vars
  BY <1>5 DEF T!vars, TreeIInv, TreeTypes, TreeNamed, TreeOnce
<1>6. T!Open0666 \in SUBSET (1 .. 12) /\ T!Open0664 \in SUBSET (1 .. 12)
  BY DEF T!Open0666, T!Open0664
<1> QED
  BY <1>1, <1>2, <1>3, <1>4, <1>5, <1>6, TreeLink, TreeRmdir, TreeChmod DEF T!Next

LEMMA TreeInitHolds == T!Init => TreeIInv
<1> SUFFICES ASSUME T!Init PROVE TreeIInv
  OBVIOUS
<1>1. T!Free \in TreeInode /\ T!Free.type = "free"
  BY DEF T!Free, TreeInode
<1>2. TreeTypes
  BY <1>1 DEF T!Init, TreeTypes
<1>3. (\A i \in Ino : inode[i].type = "free") /\ \A n \in Name : names[n] = 0
  BY <1>1 DEF T!Init
<1> QED
  BY <1>2, <1>3, TreeAssumed DEF TreeIInv, TreeNamed, TreeOnce

LEMMA TreeKept == TreeIInv => T!TypeOK
BY DEF TreeIInv, TreeTypes, TreeNamed, T!TypeOK, T!NamesOf
-----------------------------------------------------------------------------
(* Permissions are shown as they were meant, and links lead to what is      *)
(* behind them.                                                             *)

LEMMA TreeLinksMeant == MaxLinks \in Nat /\ "nil" \notin Name
<1>1. T!TreeAssumption
  BY Assumptions, Zenon
<1> QED
  BY <1>1 DEF T!TreeAssumption

\* Letters are none of what stands where there is no permission.
LEMMA TreeLetters == /\ \A k \in 1 .. 12 : T!Letters[k] # "-"
                     /\ \A k \in 4 .. 12 : (k - 4) % 3 \in 0 .. 2 /\ T!Letters[((k - 4) % 3) + 4] = T!Letters[k]
<1>1. \A k \in 1 .. 12 : T!Letters[k] \in {"u", "g", "s", "r", "w", "x"}
  BY DEF T!Letters
<1>2. ASSUME NEW k \in 4 .. 12 PROVE (k - 4) % 3 \in 0 .. 2 /\ T!Letters[((k - 4) % 3) + 4] = T!Letters[k]
  <2>1. k = 4 \/ k = 5 \/ k = 6 \/ k = 7 \/ k = 8 \/ k = 9 \/ k = 10 \/ k = 11 \/ k = 12
    OBVIOUS
  <2> QED
    BY <2>1 DEF T!Letters
<1> QED
  BY <1>1, <1>2

LEMMA TreeShownMode ==
  ASSUME NEW mode \in SUBSET (1 .. 12)
  PROVE  /\ T!pushperm(mode) \in Seq({"u", "g", "s", "r", "w", "x", "-"}) /\ Len(T!pushperm(mode)) = 12
         /\ \A k \in 1 .. 12 : T!pushperm(mode)[k] = T!Letters[k] <=> k \in mode
         /\ \A k \in 1 .. 12 : T!pushperm(mode)[k] = IF k \in mode THEN T!Letters[k] ELSE "-"
<1>1. \A k \in 1 .. 12 : T!Letters[k] \in {"u", "g", "s", "r", "w", "x"}
  BY DEF T!Letters
<1>2. T!pushperm(mode) \in [1 .. 12 -> {"u", "g", "s", "r", "w", "x", "-"}]
  BY <1>1 DEF T!pushperm
<1>3. \A k \in 1 .. 12 : T!pushperm(mode)[k] = IF k \in mode THEN T!Letters[k] ELSE "-"
  BY DEF T!pushperm
<1>4. \A k \in 1 .. 12 : T!pushperm(mode)[k] = T!Letters[k] <=> k \in mode
  BY <1>3, TreeLetters
<1>5. T!pushperm(mode) \in Seq({"u", "g", "s", "r", "w", "x", "-"}) /\ Len(T!pushperm(mode)) = 12
  <2>1. 12 \in Nat
    OBVIOUS
  <2>2. T!pushperm(mode) \in Seq({"u", "g", "s", "r", "w", "x", "-"})
    BY <1>2, <2>1, SeqDef
  <2>3. DOMAIN T!pushperm(mode) = 1 .. 12
    BY <1>2
  <2> QED
    BY <2>1, <2>2, <2>3, LenProperties
<1> QED
  BY <1>3, <1>4, <1>5

LEMMA TreeCut == ASSUME NEW S, NEW txt \in Seq(S), Len(txt) = 12, NEW n \in {6, 12}
                 PROVE  /\ SubSeq(txt, 4, n) \in Seq(S) /\ Len(SubSeq(txt, 4, n)) = n - 3
                        /\ \A k \in 4 .. n : SubSeq(txt, 4, n)[k - 3] = txt[k]
                        /\ \A k \in 1 .. n - 3 : SubSeq(txt, 4, n)[k] = txt[k + 3]
<1>1. ASSUME NEW k \in 4 .. n PROVE txt[k] \in S
  <2>1. k \in 1 .. Len(txt)
    OBVIOUS
  <2> QED
    BY <2>1, ElementOfSeq
<1>2. /\ SubSeq(txt, 4, n) \in Seq(S)
      /\ Len(SubSeq(txt, 4, n)) = IF 4 <= n THEN n - 4 + 1 ELSE 0
      /\ \A k \in 1 .. n - 4 + 1 : SubSeq(txt, 4, n)[k] = txt[4 + k - 1]
  <2>1. 4 \in Int /\ n \in Int
    OBVIOUS
  <2> QED
    BY <1>1, <2>1, SubSeqProperties
<1> DEFINE cut == SubSeq(txt, 4, n)
<1> HIDE DEF cut
<1>3. Len(cut) = n - 3 /\ \A k \in 1 .. n - 3 : cut[k] = txt[k + 3]
  BY <1>2 DEF cut
<1>4. ASSUME NEW k \in 4 .. n PROVE cut[k - 3] = txt[k]
  <2>1. k - 3 \in 1 .. n - 3 /\ (k - 3) + 3 = k
    OBVIOUS
  <2> QED
    BY <1>3, <2>1
<1> QED
  BY <1>2, <1>3, <1>4 DEF cut

\* A text of twelve letters says a mode, one of nine what is in it of the last
\* nine, and one of three what everybody may.
LEMMA TreeTwelve ==
  ASSUME NEW S, NEW txt \in Seq(S), NEW def, Len(txt) = 12
  PROVE  T!checkmode(txt, def) = {k \in 1 .. 12 : txt[k] = T!Letters[k]}
<1>1. Len(<< >>) = 0
  BY EmptySeq
<1>2. txt # << >> /\ Len(txt) # 3
  BY <1>1
<1> DEFINE last == SubSeq(txt, 4, 12)
<1>3. T!checkmode(txt, def) = {k \in 1 .. 3 : txt[k] = T!Letters[k]} \cup {k \in T!Permissions : last[k - 3] = T!Letters[k]}
  <2>1. T!checkmode(txt, def) = {k \in 1 .. 3 : txt[k] = T!Letters[k]} \cup T!Nine(last)
    BY <1>2 DEF T!checkmode
  <2> QED
    BY <2>1 DEF T!Nine
<1>4. \A k \in 4 .. 12 : last[k - 3] = txt[k]
  BY TreeCut
<1> HIDE DEF last
<1>5. {k \in 1 .. 3 : txt[k] = T!Letters[k]} \cup {k \in 4 .. 12 : txt[k] = T!Letters[k]}
        = {k \in 1 .. 12 : txt[k] = T!Letters[k]}
  OBVIOUS
<1>6. {k \in T!Permissions : last[k - 3] = T!Letters[k]} = {k \in 4 .. 12 : txt[k] = T!Letters[k]}
  BY <1>4 DEF T!Permissions
<1> QED
  BY <1>3, <1>5, <1>6

LEMMA TreeNine ==
  ASSUME NEW txt \in Seq({"u", "g", "s", "r", "w", "x", "-"}), NEW def, Len(txt) = 9
  PROVE  T!checkmode(txt, def) = {k \in 4 .. 12 : txt[k - 3] = T!Letters[k]}
<1>1. T!checkmode(txt, def) = {k \in T!Permissions : txt[k - 3] = T!Letters[k]}
  BY DEF T!checkmode, T!Nine
<1> QED
  BY <1>1 DEF T!Permissions

LEMMA TreeThree ==
  ASSUME NEW txt \in Seq({"u", "g", "s", "r", "w", "x", "-"}), NEW def, Len(txt) = 3
  PROVE  T!checkmode(txt, def) = {k \in 4 .. 12 : txt[((k - 4) % 3) + 1] = T!Letters[k]}
<1>1. T!checkmode(txt, def) = {k \in T!Permissions : txt[((k - 4) % 3) + 1] = T!Letters[k]}
  BY DEF T!checkmode
<1> QED
  BY <1>1 DEF T!Permissions

\* What is shown can be given back.
LEMMA TreeReadsBack == ASSUME NEW mode \in SUBSET (1 .. 12), NEW def
                       PROVE  T!checkmode(T!pushperm(mode), def) = mode
<1> DEFINE txt == T!pushperm(mode)
<1>1. /\ txt \in Seq({"u", "g", "s", "r", "w", "x", "-"}) /\ Len(txt) = 12
      /\ \A k \in 1 .. 12 : txt[k] = T!Letters[k] <=> k \in mode
  BY TreeShownMode
<1> HIDE DEF txt
<1>2. T!checkmode(txt, def) = {k \in 1 .. 12 : txt[k] = T!Letters[k]}
  BY <1>1, TreeTwelve
<1>3. {k \in 1 .. 12 : txt[k] = T!Letters[k]} = mode
  BY <1>1
<1> QED
  BY <1>2, <1>3 DEF txt

\* In whatever form a mode is written, what is meant by it is read.
LEMMA TreeAsked == ASSUME NEW def \in SUBSET (1 .. 12), NEW ask \in T!Requests(def)
                   PROVE  T!checkmode(ask.txt, def) = ask.mode /\ ask.mode \subseteq 1 .. 12
<1>1. T!TreeAssumption
  BY Assumptions, Zenon
<1>2. CASE ask = [txt |-> << >>, mode |-> def]
  <2>1. ask.txt = << >> /\ ask.mode = def
    BY <1>2
  <2> QED
    BY <2>1 DEF T!checkmode
<1>3. CASE ask # [txt |-> << >>, mode |-> def]
  <2> PICK mode \in Modes : \E txt \in T!Texts(mode) : ask = [txt |-> txt, mode |-> mode]
    BY <1>3 DEF T!Requests
  <2> PICK txt \in T!Texts(mode) : ask = [txt |-> txt, mode |-> mode]
    OBVIOUS
  <2>1. ask.txt = txt /\ ask.mode = mode
    OBVIOUS
  <2>2. mode \in SUBSET (1 .. 12)
    BY <1>1 DEF T!TreeAssumption
  <2> DEFINE all == T!pushperm(mode)
  <2>3. /\ all \in Seq({"u", "g", "s", "r", "w", "x", "-"}) /\ Len(all) = 12
        /\ \A k \in 1 .. 12 : all[k] = T!Letters[k] <=> k \in mode
        /\ \A k \in 1 .. 12 : all[k] = IF k \in mode THEN T!Letters[k] ELSE "-"
    BY <2>2, TreeShownMode
  <2>4. CASE txt = all
    BY <2>1, <2>2, <2>4, TreeReadsBack
  <2>5. CASE mode \subseteq T!Permissions /\ txt = SubSeq(all, 4, 12)
    <3> HIDE DEF all
    <3>1. txt \in Seq({"u", "g", "s", "r", "w", "x", "-"}) /\ Len(txt) = 9 /\ \A k \in 4 .. 12 : txt[k - 3] = all[k]
      BY <2>3, <2>5, TreeCut
    <3>2. T!checkmode(txt, def) = {k \in 4 .. 12 : txt[k - 3] = T!Letters[k]}
      BY <3>1, TreeNine
    <3>3. \A k \in 4 .. 12 : txt[k - 3] = T!Letters[k] <=> k \in mode
      BY <2>3, <3>1
    <3>4. {k \in 4 .. 12 : txt[k - 3] = T!Letters[k]} = mode
      BY <2>5, <3>3 DEF T!Permissions
    <3> QED
      BY <2>1, <2>2, <3>2, <3>4
  <2>6. CASE mode \in T!Uniform /\ txt = SubSeq(all, 4, 6)
    <3> HIDE DEF all
    <3>1. txt \in Seq({"u", "g", "s", "r", "w", "x", "-"}) /\ Len(txt) = 3 /\ \A k \in 1 .. 3 : txt[k] = all[k + 3]
      BY <2>3, <2>6, TreeCut
    <3>2. T!checkmode(txt, def) = {k \in 4 .. 12 : txt[((k - 4) % 3) + 1] = T!Letters[k]}
      BY <3>1, TreeThree
    <3>3. PICK some \in SUBSET (0 .. 2) : mode = {k \in 4 .. 12 : (k - 4) % 3 \in some}
      BY <2>6 DEF T!Uniform, T!Permissions
    <3>4. ASSUME NEW k \in 4 .. 12 PROVE txt[((k - 4) % 3) + 1] = T!Letters[k] <=> k \in mode
      <4> DEFINE place3 == (k - 4) % 3
      <4>1. place3 \in 0 .. 2 /\ T!Letters[place3 + 4] = T!Letters[k]
        BY TreeLetters
      <4>2. k \in mode <=> place3 \in some
        BY <3>3
      <4> HIDE DEF place3
      <4>3. place3 + 4 \in 4 .. 12 /\ (place3 + 4 - 4) % 3 = place3
        BY <4>1
      <4>4. place3 + 4 \in mode <=> place3 \in some
        <5> DEFINE k3 == place3 + 4
        <5>1. k3 \in 4 .. 12 /\ (k3 - 4) % 3 = place3
          BY <4>1, <4>3
        <5> HIDE DEF k3
        <5>2. k3 \in mode <=> (k3 - 4) % 3 \in some
          BY <3>3, <5>1
        <5> QED
          BY <5>1, <5>2 DEF k3
      <4>5. txt[place3 + 1] = all[place3 + 4]
        BY <3>1, <4>1
      <4>6. all[place3 + 4] = T!Letters[place3 + 4] <=> place3 + 4 \in mode
        BY <2>3, <4>3
      <4> QED
        BY <4>1, <4>2, <4>4, <4>5, <4>6 DEF place3
    <3>5. {k \in 4 .. 12 : txt[((k - 4) % 3) + 1] = T!Letters[k]} = mode
      BY <3>3, <3>4
    <3> QED
      BY <2>1, <2>2, <3>2, <3>5
  <2> QED
    BY <2>4, <2>5, <2>6 DEF T!Texts
<1> QED
  BY <1>2, <1>3

\* The inodes have the permissions that were meant, links are of names, and
\* what umask() shows is the mask it replaced.
TreeRead == /\ meant \in [Ino -> SUBSET (1 .. 12)]
            /\ \A i \in Ino : /\ inode[i].perms = meant[i]
                              /\ inode[i].type = "link" => inode[i].to \in Name
            /\ before \subseteq T!Permissions /\ shown = T!pushperm(T!Permissions \ before)

LEMMA TreeReadInit == T!Init => TreeRead
<1> SUFFICES ASSUME T!Init PROVE TreeRead
  OBVIOUS
<1>1. meant = [i \in Ino |-> {}] /\ inode = [i \in Ino |-> T!Free]
  BY DEF T!Init
<1>2. T!Free.perms = {} /\ T!Free.type = "free"
  BY DEF T!Free
<1>3. before \subseteq T!Permissions /\ shown = T!pushperm(T!Permissions \ before)
  BY DEF T!Init
<1> QED
  BY <1>1, <1>2, <1>3 DEF TreeRead

LEMMA TreeReadMake ==
  ASSUME TreeIInv, TreeRead, NEW n \in Name, NEW type \in {"dir", "pipe", "link"}, NEW perms \in SUBSET (1 .. 12),
         NEW to, type = "link" => to \in Name, T!Make(n, type, perms, to, perms)
  PROVE  TreeRead'
<1>1. PICK i \in Ino : /\ inode' = [inode EXCEPT ![i] = [type |-> type, perms |-> perms, to |-> to]]
                       /\ meant' = [meant EXCEPT ![i] = perms]
  BY DEF T!Make, T!Unused
<1>2. UNCHANGED <<before, shown>>
  BY DEF T!Make
<1>3. meant' \in [Ino -> SUBSET (1 .. 12)]
  BY <1>1 DEF TreeRead
<1> DEFINE made == [type |-> type, perms |-> perms, to |-> to]
<1>4. made.type = type /\ made.perms = perms /\ made.to = to
  OBVIOUS
<1> HIDE DEF made
<1>5. \A j \in Ino : /\ inode'[j] = IF j = i THEN made ELSE inode[j]
                     /\ meant'[j] = IF j = i THEN perms ELSE meant[j]
  BY <1>1 DEF TreeRead, TreeIInv, TreeTypes, made
<1> QED
  BY <1>2, <1>3, <1>4, <1>5 DEF TreeRead

LEMMA TreeReadChmod ==
  ASSUME TreeIInv, TreeRead, NEW n \in Name, NEW def \in SUBSET (1 .. 12), T!Chmod(n, def) PROVE TreeRead'
<1> PICK ask \in T!Requests(def) : /\ inode' = [inode EXCEPT ![T!Resolved(n)].perms = T!checkmode(ask.txt, def)]
                                   /\ meant' = [meant EXCEPT ![T!Resolved(n)] = ask.mode]
  BY DEF T!Chmod
<1> DEFINE found == T!Resolved(n)
           perms == ask.mode
<1>1. T!checkmode(ask.txt, def) = perms /\ perms \in SUBSET (1 .. 12)
  BY TreeAsked
<1>2. UNCHANGED <<before, shown>>
  BY DEF T!Chmod
<1>3. inode' = [inode EXCEPT ![found].perms = perms] /\ meant' = [meant EXCEPT ![found] = perms]
  BY <1>1
<1> HIDE DEF found, perms
<1>4. ASSUME NEW i \in Ino PROVE /\ inode'[i].perms = IF i = found THEN perms ELSE inode[i].perms
                                 /\ inode'[i].type = inode[i].type /\ inode'[i].to = inode[i].to
                                 /\ meant'[i] = IF i = found THEN perms ELSE meant[i]
  BY <1>3 DEF TreeIInv, TreeTypes, TreeInode, TreeRead
<1>5. meant' \in [Ino -> SUBSET (1 .. 12)]
  BY <1>1, <1>3 DEF TreeRead
<1> QED
  BY <1>2, <1>4, <1>5 DEF TreeRead

LEMMA TreeReadKept == ASSUME TreeIInv, TreeRead, [T!Next]_(T!vars) PROVE TreeRead'
<1>1. ASSUME NEW n \in Name, T!Mkdir(n) PROVE TreeRead'
  <2> PICK ask \in T!Requests(T!Open0777) :
        T!Make(n, "dir", T!Kept("dir", T!checkmode(ask.txt, T!Open0777)) \ umask, "nowhere",
               T!Kept("dir", ask.mode) \ umask)
    BY <1>1 DEF T!Mkdir
  <2> DEFINE perms == T!Kept("dir", ask.mode) \ umask
  <2>1. T!Open0777 \in SUBSET (1 .. 12)
    BY TreeAssumed DEF T!Open0777
  <2>2. T!checkmode(ask.txt, T!Open0777) = ask.mode /\ ask.mode \subseteq 1 .. 12
    BY <2>1, TreeAsked
  <2>3. perms \in SUBSET (1 .. 12)
    BY <2>2 DEF T!Kept
  <2>4. T!Make(n, "dir", perms, "nowhere", perms)
    BY <2>2
  <2> HIDE DEF perms
  <2> QED
    BY <2>3, <2>4, TreeReadMake
<1>2. ASSUME NEW n \in Name, T!Mkfifo(n) PROVE TreeRead'
  <2> PICK ask \in T!Requests(T!Open0666) :
        T!Make(n, "pipe", T!checkmode(ask.txt, T!Open0666) \ umask, "nowhere", ask.mode \ umask)
    BY <1>2 DEF T!Mkfifo
  <2> DEFINE perms == ask.mode \ umask
  <2>1. T!Open0666 \in SUBSET (1 .. 12)
    BY DEF T!Open0666
  <2>2. T!checkmode(ask.txt, T!Open0666) = ask.mode /\ ask.mode \subseteq 1 .. 12
    BY <2>1, TreeAsked
  <2>3. perms \in SUBSET (1 .. 12)
    BY <2>2
  <2>4. T!Make(n, "pipe", perms, "nowhere", perms)
    BY <2>2
  <2> HIDE DEF perms
  <2> QED
    BY <2>3, <2>4, TreeReadMake
<1>3. ASSUME NEW old \in Name, NEW new \in Name, T!Symlink(old, new) PROVE TreeRead'
  BY <1>3, TreeReadMake, TreeAssumed DEF T!Symlink
<1>4. ASSUME NEW old \in Name, NEW new \in Name, T!Link(old, new) PROVE TreeRead'
  BY <1>4 DEF T!Link, TreeRead
<1>5. ASSUME NEW n \in Name, T!Rmdir(n) PROVE TreeRead'
  <2>1. T!Free.perms = {} /\ T!Free.type = "free"
    BY DEF T!Free
  <2>2. /\ inode' = [inode EXCEPT ![names[n]] = T!Free] /\ meant' = [meant EXCEPT ![names[n]] = {}]
        /\ UNCHANGED <<before, shown>>
    BY <1>5 DEF T!Rmdir
  <2>3. \A j \in Ino : /\ inode'[j] = IF j = names[n] THEN T!Free ELSE inode[j]
                       /\ meant'[j] = IF j = names[n] THEN {} ELSE meant[j]
    BY <2>2 DEF TreeRead, TreeIInv, TreeTypes
  <2>4. meant' \in [Ino -> SUBSET (1 .. 12)]
    BY <2>2 DEF TreeRead
  <2>5. \A j \in Ino : /\ inode'[j].perms = meant'[j]
                       /\ inode'[j].type = "link" => inode'[j].to \in Name
    BY <2>1, <2>3 DEF TreeRead
  <2> QED
    BY <2>2, <2>4, <2>5 DEF TreeRead
<1>6. ASSUME NEW ask \in T!Requests(T!Open0777), T!Umask(ask) PROVE TreeRead'
  BY <1>6 DEF T!Umask, TreeRead, TreeIInv, TreeTypes
<1>7. CASE UNCHANGED T!vars
  BY <1>7 DEF T!vars, TreeRead
<1>8. T!Open0666 \in SUBSET (1 .. 12) /\ T!Open0664 \in SUBSET (1 .. 12)
  BY DEF T!Open0666, T!Open0664
<1> QED
  BY <1>1, <1>2, <1>3, <1>4, <1>5, <1>6, <1>7, <1>8, TreeReadChmod DEF T!Next
-----------------------------------------------------------------------------
(* What is behind a link.                                                   *)

\* A recursive function is what its definition says when there is such a
\* function: for as many links as the kernel follows, one after the other.
TreeOf(m, next) == IF names[m] = 0 THEN 0 ELSE IF inode[names[m]].type # "link" THEN names[m] ELSE next

TreeFollows(f, most) ==
  f = [links \in 0 .. most |->
         [m \in Name |-> IF names[m] = 0 THEN 0
                         ELSE IF inode[names[m]].type # "link" THEN names[m]
                         ELSE IF links = 0 THEN 0
                         ELSE f[links - 1][inode[names[m]].to]]]

LEMMA TreeFollowed == ASSUME NEW most \in Nat PROVE \E f : TreeFollows(f, most)
<1> DEFINE none == {k \in Nat : ~ \E f : TreeFollows(f, k)}
<1>1. SUFFICES ASSUME none # {} PROVE FALSE
  OBVIOUS
<1>2. PICK n \in none : \A k \in none : n <= k
  BY <1>1, LowestOf
<1>3. n \in Nat /\ ~ \E f : TreeFollows(f, n)
  OBVIOUS
<1>4. CASE n = 0
  <2> DEFINE f == [links \in 0 .. 0 |-> [m \in Name |-> TreeOf(m, 0)]]
  <2>1. TreeFollows(f, 0)
    BY DEF TreeFollows, TreeOf
  <2> QED
    BY <1>3, <1>4, <2>1
<1>5. CASE n # 0
  <2>1. n - 1 \in Nat /\ n - 1 \notin none
    BY <1>2, <1>3, <1>5
  <2>2. PICK f : TreeFollows(f, n - 1)
    BY <2>1
  <2> DEFINE g == [links \in 0 .. n |-> IF links = n THEN [m \in Name |-> TreeOf(m, f[n - 1][inode[names[m]].to])] ELSE f[links]]
  <2>3. \A links \in 0 .. n - 1 : g[links] = f[links]
    BY <1>3
  <2>4. g[n] = [m \in Name |-> TreeOf(m, f[n - 1][inode[names[m]].to])]
    BY <1>3
  <2>5. DOMAIN g = 0 .. n /\ g = [links \in DOMAIN g |-> g[links]]
    OBVIOUS
  <2> HIDE DEF g
  <2>6. ASSUME NEW links \in 0 .. n
        PROVE  g[links] = [m \in Name |-> IF names[m] = 0 THEN 0
                                          ELSE IF inode[names[m]].type # "link" THEN names[m]
                                          ELSE IF links = 0 THEN 0
                                          ELSE g[links - 1][inode[names[m]].to]]
    <3>1. CASE links = n
      <4>1. g[n - 1] = f[n - 1]
        BY <1>3, <1>5, <2>3
      <4> QED
        BY <1>5, <2>4, <3>1, <4>1 DEF TreeOf
    <3>2. CASE links # n
      <4>1. links \in 0 .. n - 1
        BY <1>3, <3>2
      <4>2. g[links] = f[links] /\ (links # 0 => g[links - 1] = f[links - 1])
        BY <2>3, <4>1
      <4>3. f[links] = [m \in Name |-> IF names[m] = 0 THEN 0
                                       ELSE IF inode[names[m]].type # "link" THEN names[m]
                                       ELSE IF links = 0 THEN 0
                                       ELSE f[links - 1][inode[names[m]].to]]
        BY <2>2, <4>1, ZenonT(60) DEF TreeFollows
      <4> QED
        BY <4>2, <4>3
    <3> QED
      BY <3>1, <3>2
  <2>7. TreeFollows(g, n)
    BY <2>5, <2>6 DEF TreeFollows
  <2> QED
    BY <1>3, <2>7
<1> QED
  BY <1>4, <1>5

LEMMA TreeBehind ==
  ASSUME NEW links \in 0 .. MaxLinks, NEW m \in Name
  PROVE  T!Behind[links][m] = IF names[m] = 0 THEN 0
                              ELSE IF inode[names[m]].type # "link" THEN names[m]
                              ELSE IF links = 0 THEN 0
                              ELSE T!Behind[links - 1][inode[names[m]].to]
<1>1. \E f : TreeFollows(f, MaxLinks)
  BY TreeFollowed, TreeLinksMeant
<1>2. T!Behind = CHOOSE f : TreeFollows(f, MaxLinks)
  BY DEF T!Behind, TreeFollows
<1>3. TreeFollows(T!Behind, MaxLinks)
  BY <1>1, <1>2
<1> DEFINE f == T!Behind
<1> HIDE DEF f
<1>4. f = [j \in 0 .. MaxLinks |->
             [n \in Name |-> IF names[n] = 0 THEN 0
                             ELSE IF inode[names[n]].type # "link" THEN names[n]
                             ELSE IF j = 0 THEN 0
                             ELSE f[j - 1][inode[names[n]].to]]]
  BY <1>3, ZenonT(60) DEF TreeFollows, f
<1>5. f[links] = [n \in Name |-> IF names[n] = 0 THEN 0
                                 ELSE IF inode[names[n]].type # "link" THEN names[n]
                                 ELSE IF links = 0 THEN 0
                                 ELSE f[links - 1][inode[names[n]].to]]
  BY <1>4, ZenonT(60)
<1>6. f[links][m] = IF names[m] = 0 THEN 0
                    ELSE IF inode[names[m]].type # "link" THEN names[m]
                    ELSE IF links = 0 THEN 0
                    ELSE f[links - 1][inode[names[m]].to]
  BY <1>5
<1> QED
  BY <1>6 DEF f

\* It is no link, and is found with more links if it is found with as many.
TreeSteady(k) == \A m \in Name :
  LET found == T!Behind[k][m]
  IN /\ found \in Ino \cup {0}
     /\ found # 0 => /\ inode[found].type # "link"
                     /\ k < MaxLinks => T!Behind[k + 1][m] = found

LEMMA TreeAllSteady == ASSUME TreeIInv, TreeRead PROVE \A k \in 0 .. MaxLinks : TreeSteady(k)
<1> DEFINE none == {k \in 0 .. MaxLinks : ~ TreeSteady(k)}
<1>1. SUFFICES ASSUME none # {} PROVE FALSE
  OBVIOUS
<1>2. MaxLinks \in Nat /\ none \in SUBSET Nat
  BY TreeLinksMeant
<1>3. PICK n \in none : \A k \in none : n <= k
  BY <1>1, <1>2, LowestOf
<1>4. n \in 0 .. MaxLinks /\ ~ TreeSteady(n)
  OBVIOUS
<1> HIDE DEF none
<1>5. SUFFICES ASSUME NEW m \in Name
               PROVE  /\ T!Behind[n][m] \in Ino \cup {0}
                      /\ T!Behind[n][m] # 0 => /\ inode[T!Behind[n][m]].type # "link"
                                               /\ n < MaxLinks => T!Behind[n + 1][m] = T!Behind[n][m]
  BY <1>4 DEF TreeSteady
<1>6. names[m] \in Ino \cup {0}
  BY DEF TreeIInv, TreeTypes
<1>7. n < MaxLinks => n + 1 \in 0 .. MaxLinks /\ n + 1 # 0 /\ (n + 1) - 1 = n
  BY <1>2, <1>4
<1>8. T!Behind[n][m] = IF names[m] = 0 THEN 0
                       ELSE IF inode[names[m]].type # "link" THEN names[m]
                       ELSE IF n = 0 THEN 0
                       ELSE T!Behind[n - 1][inode[names[m]].to]
  BY <1>4, TreeBehind
<1>9. n < MaxLinks => T!Behind[n + 1][m] = IF names[m] = 0 THEN 0
                                           ELSE IF inode[names[m]].type # "link" THEN names[m]
                                           ELSE T!Behind[n][inode[names[m]].to]
  BY <1>7, TreeBehind
<1>10. CASE names[m] = 0 \/ inode[names[m]].type # "link"
  BY <1>6, <1>8, <1>9, <1>10
<1>11. CASE names[m] # 0 /\ inode[names[m]].type = "link"
  <2>1. inode[names[m]].to \in Name
    BY <1>6, <1>11 DEF TreeRead
  <2>2. CASE n = 0
    BY <1>8, <1>11, <2>2
  <2>3. CASE n # 0
    <3>1. n - 1 \in 0 .. MaxLinks /\ n - 1 < n /\ n - 1 < MaxLinks /\ (n - 1) + 1 = n
      BY <1>2, <1>4, <2>3
    <3>2. n - 1 \notin none
      <4> SUFFICES ASSUME n - 1 \in none PROVE FALSE
        OBVIOUS
      <4>1. n <= n - 1
        BY <1>3
      <4> QED
        BY <1>2, <1>4, <4>1
    <3>3. TreeSteady(n - 1)
      BY <3>1, <3>2 DEF none
    <3>4. /\ T!Behind[n - 1][inode[names[m]].to] \in Ino \cup {0}
          /\ T!Behind[n - 1][inode[names[m]].to] # 0 =>
               /\ inode[T!Behind[n - 1][inode[names[m]].to]].type # "link"
               /\ T!Behind[n][inode[names[m]].to] = T!Behind[n - 1][inode[names[m]].to]
      BY <2>1, <3>1, <3>3 DEF TreeSteady
    <3> QED
      BY <1>8, <1>9, <1>11, <2>3, <3>4
  <2> QED
    BY <2>2, <2>3
<1> QED
  BY <1>10, <1>11

LEMMA TreeReads == TreeIInv /\ TreeRead => T!ModesAsMeant /\ T!LinksShown
<1> SUFFICES ASSUME TreeIInv, TreeRead PROVE T!ModesAsMeant /\ T!LinksShown
  OBVIOUS
<1>1. MaxLinks \in Nat /\ MaxLinks \in 0 .. MaxLinks /\ "nil" \notin Name
  BY TreeLinksMeant
<1>2. \A n \in Name : T!Resolved(n) \in Ino \cup {0} /\ (T!Resolved(n) # 0 => inode[T!Resolved(n)].type # "link")
  <2>1. TreeSteady(MaxLinks)
    BY <1>1, TreeAllSteady
  <2> QED
    BY <2>1 DEF TreeSteady, T!Resolved
<1>3. ASSUME NEW i \in Ino PROVE T!checkmode(T!pushstat(i).perms, {}) = meant[i]
  <2>1. i # 0
    BY TreeAssumed
  <2>2. T!pushstat(i).perms = T!pushperm(inode[i].perms)
    BY <2>1 DEF T!pushstat
  <2>3. inode[i].perms = meant[i] /\ meant[i] \in SUBSET (1 .. 12)
    BY DEF TreeRead
  <2> QED
    BY <2>2, <2>3, TreeReadsBack
<1>4. \A n \in Name : names[n] \in Ino \cup {0}
  BY DEF TreeIInv, TreeTypes
<1>5. T!Permissions \ T!checkmode(shown, {}) = before
  <2>1. (T!Permissions \ before) \in SUBSET (1 .. 12)
    BY TreeAssumed
  <2>2. T!checkmode(shown, {}) = T!Permissions \ before
    BY <2>1, TreeReadsBack DEF TreeRead
  <2> QED
    BY <2>2 DEF TreeRead
<1>6. T!ModesAsMeant
  BY <1>2, <1>3, <1>4, <1>5 DEF T!ModesAsMeant, T!Exists, T!Lstat, T!Stat
<1>7. \A i \in Ino \cup {0} : /\ T!pushstat(i).type = IF i = 0 THEN "nil" ELSE inode[i].type
                              /\ i = 0 => T!pushstat(i) = T!Absent
  BY DEF T!pushstat, T!Absent
<1>8. ASSUME NEW n \in Name
      PROVE  /\ T!Stat(n).type # "link"
             /\ T!Readlink(n) = "nil" => T!Stat(n) = T!Lstat(n)
             /\ T!Readlink(n) # "nil" => T!Stat(n) = T!Stat(T!Readlink(n)) \/ T!Stat(n) = T!Absent
  <2>1. T!Stat(n).type # "link"
    BY <1>2, <1>7 DEF T!Stat
  <2>2. T!Resolved(n) = IF names[n] = 0 THEN 0
                        ELSE IF inode[names[n]].type # "link" THEN names[n]
                        ELSE IF MaxLinks = 0 THEN 0
                        ELSE T!Behind[MaxLinks - 1][inode[names[n]].to]
    BY <1>1, TreeBehind DEF T!Resolved
  <2>3. CASE names[n] = 0 \/ inode[names[n]].type # "link"
    <3>1. T!Stat(n) = T!Lstat(n)
      BY <2>2, <2>3 DEF T!Stat, T!Lstat
    <3>2. T!Lstat(n).type # "link"
      BY <1>4, <1>7, <2>3 DEF T!Lstat
    <3> QED
      BY <2>1, <3>1, <3>2 DEF T!Readlink
  <2>4. CASE names[n] # 0 /\ inode[names[n]].type = "link"
    <3>1. inode[names[n]].to \in Name
      BY <1>4, <2>4 DEF TreeRead
    <3>2. T!Lstat(n).type = "link"
      BY <1>4, <1>7, <2>4 DEF T!Lstat
    <3>3. T!Readlink(n) = inode[names[n]].to /\ T!Readlink(n) # "nil"
      BY <1>1, <3>1, <3>2 DEF T!Readlink
    <3>4. CASE T!Resolved(n) = 0
      BY <1>7, <2>1, <3>3, <3>4 DEF T!Stat
    <3>5. CASE T!Resolved(n) # 0
      <4>1. MaxLinks # 0 /\ T!Resolved(n) = T!Behind[MaxLinks - 1][inode[names[n]].to]
        BY <2>2, <2>4, <3>5
      <4>2. MaxLinks - 1 \in 0 .. MaxLinks /\ MaxLinks - 1 < MaxLinks /\ (MaxLinks - 1) + 1 = MaxLinks
        BY <1>1, <4>1
      <4>3. TreeSteady(MaxLinks - 1)
        BY <4>2, TreeAllSteady
      <4>4. T!Behind[MaxLinks][inode[names[n]].to] = T!Resolved(n)
        BY <3>1, <3>5, <4>1, <4>2, <4>3 DEF TreeSteady
      <4> QED
        BY <2>1, <3>3, <4>4 DEF T!Stat, T!Resolved
    <3> QED
      BY <3>4, <3>5
  <2> QED
    BY <2>3, <2>4
<1>9. T!LinksShown
  BY <1>8 DEF T!LinksShown
<1> QED
  BY <1>6, <1>9
-----------------------------------------------------------------------------
(* The parts of a path are paths.                                           *)

LEMMA PathFound == ASSUME NEW name \in Seq(P!Char), NEW c, NEW k, k = P!strrchr(name, c)
                   PROVE  /\ k \in 0 .. Len(name) /\ Len(name) \in Nat
                          /\ k # 0 => name[k] = c
                          /\ \A j \in 1 .. Len(name) : name[j] = c => j <= k
<1> DEFINE hits == {j \in DOMAIN name : name[j] = c}
           back == {Len(name) - j : j \in hits}
<1>1. hits \subseteq 1 .. Len(name) /\ Len(name) \in Nat /\ DOMAIN name = 1 .. Len(name)
  OBVIOUS
<1>2. \E m \in hits \cup {0} : \A j \in hits : j <= m
  <2> HIDE DEF hits
  <2>1. CASE hits = {}
    BY <2>1
  <2>2. CASE hits # {}
    <3>1. back \in SUBSET Nat /\ back # {}
      <4>1. \A j \in hits : j \in 1 .. Len(name) /\ Len(name) - j \in Nat
        BY <1>1
      <4> QED
        BY <2>2, <4>1
    <3> HIDE DEF back
    <3>2. PICK low \in back : \A m \in back : low <= m
      BY <3>1, LowestOf
    <3>3. PICK m \in hits : low = Len(name) - m
      BY <3>2 DEF back
    <3>4. ASSUME NEW j \in hits PROVE j <= m
      <4>1. Len(name) - j \in back
        BY DEF back
      <4> QED
        BY <1>1, <3>2, <3>3, <4>1
    <3> QED
      BY <3>3, <3>4
  <2> QED
    BY <2>1, <2>2
<1>3. k \in hits \cup {0} /\ \A j \in hits : j <= k
  BY <1>2 DEF P!strrchr
<1> QED
  BY <1>1, <1>3

PathTypes == path \in Seq(P!Char) /\ whole \in Seq(P!Char)

LEMMA PathInitHolds == P!Init => PathTypes
<1>1. P!PathsAssumption
  BY Assumptions, Zenon
<1> QED
  BY <1>1 DEF P!Init, P!PathsAssumption, PathTypes

LEMMA PathNextKeeps == ASSUME PathTypes, [P!Next]_(P!vars) PROVE PathTypes'
<1> DEFINE slash == P!strrchr(path, "/")
           dot == P!strrchr(path, ".")
<1>1. slash \in 0 .. Len(path) /\ dot \in 0 .. Len(path) /\ Len(path) \in Nat /\ path \in Seq(P!Char)
  BY PathFound DEF PathTypes
<1> HIDE DEF slash, dot
<1>2. /\ SubSeq(path, slash + 1, Len(path)) \in Seq(P!Char) /\ SubSeq(path, 1, slash - 1) \in Seq(P!Char)
      /\ SubSeq(path, dot + 1, Len(path)) \in Seq(P!Char) /\ SubSeq(path, 1, dot - 1) \in Seq(P!Char)
      /\ << >> \in Seq(P!Char)
  BY <1>1
<1>3. <<".">> \in Seq(P!Char)
  BY DEF P!Char
<1>4. CASE P!Next
  BY <1>1, <1>2, <1>3, <1>4 DEF P!Next, PathTypes, P!basename, P!dirname, P!extension, P!filename, P!From, slash, dot
<1>5. CASE UNCHANGED P!vars
  BY <1>5 DEF P!vars, PathTypes
<1> QED
  BY <1>4, <1>5
-----------------------------------------------------------------------------
(* The parts of a path make it again.                                       *)

LEMMA PathOnly == ASSUME NEW name \in Seq(P!Char), NEW c, NEW k \in 0 .. Len(name), k # 0 => name[k] = c,
                         \A j \in 1 .. Len(name) : name[j] = c => j <= k
                  PROVE  P!strrchr(name, c) = k
<1> DEFINE found == P!strrchr(name, c)
<1>1. /\ found \in 0 .. Len(name) /\ Len(name) \in Nat
      /\ found # 0 => name[found] = c
      /\ \A j \in 1 .. Len(name) : name[j] = c => j <= found
  BY PathFound
<1> HIDE DEF found
<1>2. found <= k
  BY <1>1
<1>3. k <= found
  BY <1>1
<1> QED
  BY <1>1, <1>2, <1>3 DEF found

LEMMA PathCut == ASSUME NEW name \in Seq(P!Char), NEW m \in Nat, NEW n \in Nat, m >= 1, n <= Len(name)
                 PROVE  /\ SubSeq(name, m, n) \in Seq(P!Char)
                        /\ Len(SubSeq(name, m, n)) = IF m <= n THEN n - m + 1 ELSE 0
                        /\ \A j \in 1 .. n - m + 1 : SubSeq(name, m, n)[j] = name[m + j - 1]
<1>1. ASSUME NEW j \in m .. n PROVE name[j] \in P!Char
  <2>1. j \in 1 .. Len(name)
    OBVIOUS
  <2> QED
    BY <2>1, ElementOfSeq
<1> QED
  BY <1>1, SubSeqProperties

\* A path is what is before a character, the character and what is behind it.
LEMMA PathJoin == ASSUME NEW name \in Seq(P!Char), NEW k \in 1 .. Len(name)
                  PROVE  SubSeq(name, 1, k - 1) \o <<name[k]>> \o SubSeq(name, k + 1, Len(name)) = name
<1> DEFINE n == Len(name)
<1>1. n \in Nat /\ k \in Nat /\ 1 <= k /\ k <= n
  OBVIOUS
<1>2. SubSeq(name, k, k) = <<name[k]>>
  <2>1. /\ SubSeq(name, k, k) \in Seq(P!Char) /\ Len(SubSeq(name, k, k)) = 1
        /\ SubSeq(name, k, k)[1] = name[k]
    BY <1>1, PathCut
  <2>2. name[k] \in P!Char
    BY ElementOfSeq
  <2>3. <<name[k]>> \in Seq(P!Char) /\ Len(<<name[k]>>) = 1 /\ <<name[k]>>[1] = name[k]
    BY <2>2
  <2>4. \A j \in 1 .. Len(SubSeq(name, k, k)) : SubSeq(name, k, k)[j] = <<name[k]>>[j]
    BY <2>1, <2>3
  <2> QED
    BY <2>1, <2>3, <2>4, SeqEqual
<1>3. SubSeq(name, 1, k - 1) \o SubSeq(name, (k - 1) + 1, k) = SubSeq(name, 1, k)
  <2>1. 1 \in 1 .. Len(name) + 1 /\ k - 1 \in 1 - 1 .. Len(name) /\ k \in k - 1 .. Len(name)
    BY <1>1
  <2> QED
    BY <2>1, ConcatAdjacentSubSeq
<1>4. SubSeq(name, 1, k) \o SubSeq(name, k + 1, n) = SubSeq(name, 1, n)
  <2>1. 1 \in 1 .. Len(name) + 1 /\ k \in 1 - 1 .. Len(name) /\ n \in k .. Len(name)
    BY <1>1
  <2> QED
    BY <2>1, ConcatAdjacentSubSeq
<1>5. SubSeq(name, 1, n) = name
  BY SubSeqFull
<1>6. (k - 1) + 1 = k
  BY <1>1
<1> QED
  BY <1>2, <1>3, <1>4, <1>5, <1>6, Zenon

LEMMA PathDirJoins == ASSUME NEW name \in Seq(P!Char), P!strrchr(name, "/") # 0
                      PROVE  P!dirname(name) \o <<"/">> \o P!basename(name) = name
<1> DEFINE k == P!strrchr(name, "/")
<1>1. k \in 1 .. Len(name) /\ name[k] = "/"
  BY PathFound
<1>2. P!dirname(name) = SubSeq(name, 1, k - 1) /\ P!basename(name) = SubSeq(name, k + 1, Len(name))
  BY DEF P!dirname, P!basename, P!From
<1> HIDE DEF k
<1> QED
  BY <1>1, <1>2, PathJoin

LEMMA PathDots == ASSUME NEW name \in Seq(P!Char), P!HasDot(name)
                  PROVE  LET dot == P!strrchr(name, ".")
                             slash == P!strrchr(name, "/")
                         IN /\ dot \in 1 .. Len(name) /\ name[dot] = "."
                            /\ slash \in 0 .. Len(name) /\ slash < dot /\ Len(name) \in Nat
                            /\ slash # 0 => name[slash] = "/"
                            /\ \A j \in 1 .. Len(name) : name[j] = "/" => j <= slash
                            /\ P!filename(name) = SubSeq(name, 1, dot - 1)
                            /\ P!extension(name) = SubSeq(name, dot + 1, Len(name))
                            /\ P!basename(name) = SubSeq(name, slash + 1, Len(name))
<1> DEFINE dot == P!strrchr(name, ".")
           slash == P!strrchr(name, "/")
<1>1. /\ dot \in 0 .. Len(name) /\ (dot # 0 => name[dot] = ".") /\ Len(name) \in Nat
      /\ slash \in 0 .. Len(name) /\ (slash # 0 => name[slash] = "/")
      /\ \A j \in 1 .. Len(name) : name[j] = "/" => j <= slash
  BY PathFound
<1>2. dot > slash
  BY DEF P!HasDot
<1>3. /\ P!filename(name) = SubSeq(name, 1, dot - 1)
      /\ P!extension(name) = SubSeq(name, dot + 1, Len(name))
      /\ P!basename(name) = SubSeq(name, slash + 1, Len(name))
  BY DEF P!filename, P!extension, P!basename, P!From
<1> HIDE DEF dot, slash
<1>4. dot # 0 /\ slash < dot
  BY <1>1, <1>2
<1> QED
  BY <1>1, <1>3, <1>4 DEF dot, slash

LEMMA PathExtJoins == ASSUME NEW name \in Seq(P!Char), P!HasDot(name)
                      PROVE  P!filename(name) \o <<".">> \o P!extension(name) = name
<1> DEFINE dot == P!strrchr(name, ".")
<1>1. /\ dot \in 1 .. Len(name) /\ name[dot] = "."
      /\ P!filename(name) = SubSeq(name, 1, dot - 1) /\ P!extension(name) = SubSeq(name, dot + 1, Len(name))
  BY PathDots
<1> HIDE DEF dot
<1> QED
  BY <1>1, PathJoin

\* The last segment is that of the name without its extension, and the extension.
LEMMA PathBase == ASSUME NEW name \in Seq(P!Char)
                  PROVE  P!basename(name) = P!basename(P!filename(name)) \o P!From(name, Len(P!filename(name)) + 1)
<1>1. CASE ~ P!HasDot(name)
  <2>1. P!filename(name) = name
    BY <1>1 DEF P!filename
  <2>2. P!strrchr(name, "/") \in 0 .. Len(name) /\ Len(name) \in Nat
    BY PathFound
  <2>3. P!basename(name) \in Seq(P!Char)
    BY <2>2, PathCut DEF P!basename, P!From
  <2>4. P!From(name, Len(name) + 1) = << >>
    BY <2>2, SubSeqEmpty DEF P!From
  <2>5. P!basename(name) \o << >> = P!basename(name)
    BY <2>3
  <2> QED
    BY <2>1, <2>4, <2>5
<1>2. CASE P!HasDot(name)
  <2> DEFINE dot == P!strrchr(name, ".")
             slash == P!strrchr(name, "/")
             n == Len(name)
             before2 == P!filename(name)
  <2>1. /\ dot \in 1 .. n /\ slash \in 0 .. n /\ slash < dot /\ n \in Nat
        /\ slash # 0 => name[slash] = "/"
        /\ \A j \in 1 .. Len(name) : name[j] = "/" => j <= slash
        /\ before2 = SubSeq(name, 1, dot - 1)
        /\ P!basename(name) = SubSeq(name, slash + 1, n)
    BY <1>2, PathDots
  <2> HIDE DEF dot, slash, n, before2
  <2>2. 1 \in Nat /\ dot - 1 \in Nat /\ dot - 1 <= Len(name) /\ slash \in Nat /\ slash + 1 \in Nat /\ slash <= dot - 1
    BY <2>1 DEF n
  <2>3. /\ before2 \in Seq(P!Char) /\ Len(before2) = dot - 1
        /\ \A j \in 1 .. dot - 1 : before2[j] = name[j]
    <3>1. /\ before2 \in Seq(P!Char) /\ Len(before2) = IF 1 <= dot - 1 THEN dot - 1 - 1 + 1 ELSE 0
          /\ \A j \in 1 .. dot - 1 - 1 + 1 : before2[j] = name[1 + j - 1]
      BY <2>1, <2>2, PathCut
    <3> QED
      BY <2>2, <3>1
  <2>4. P!strrchr(before2, "/") = slash
    <3>1. slash \in 0 .. Len(before2)
      BY <2>2, <2>3
    <3>2. slash # 0 => before2[slash] = "/"
      BY <2>1, <2>2, <2>3
    <3>3. \A j \in 1 .. Len(before2) : before2[j] = "/" => j <= slash
      BY <2>1, <2>2, <2>3 DEF n
    <3> QED
      BY <2>3, <3>1, <3>2, <3>3, PathOnly
  <2>5. P!basename(before2) = SubSeq(before2, slash + 1, dot - 1)
    BY <2>3, <2>4 DEF P!basename, P!From
  <2>6. SubSeq(before2, slash + 1, dot - 1) = SubSeq(name, slash + 1, dot - 1)
    <3> DEFINE s == SubSeq(before2, slash + 1, dot - 1)
               t == SubSeq(name, slash + 1, dot - 1)
               size == dot - 1 - (slash + 1) + 1
    <3>1. /\ s \in Seq(P!Char) /\ Len(s) = IF slash + 1 <= dot - 1 THEN size ELSE 0
          /\ \A j \in 1 .. size : s[j] = before2[slash + 1 + j - 1]
      BY <2>2, <2>3, PathCut
    <3>2. /\ t \in Seq(P!Char) /\ Len(t) = IF slash + 1 <= dot - 1 THEN size ELSE 0
          /\ \A j \in 1 .. size : t[j] = name[slash + 1 + j - 1]
      BY <2>2, PathCut
    <3> HIDE DEF s, t
    <3>3. ASSUME NEW j \in 1 .. Len(s) PROVE s[j] = t[j]
      <4>1. j \in 1 .. size
        BY <2>2, <3>1
      <4>2. slash + 1 + j - 1 \in 1 .. dot - 1
        BY <2>2, <4>1
      <4> QED
        BY <2>3, <3>1, <3>2, <4>1, <4>2
    <3>4. s = t
      BY <3>1, <3>2, <3>3, SeqEqual
    <3> QED
      BY <3>4 DEF s, t
  <2>7. SubSeq(name, slash + 1, dot - 1) \o SubSeq(name, (dot - 1) + 1, n) = SubSeq(name, slash + 1, n)
    <3> DEFINE a == slash + 1
               b == dot - 1
    <3>1. a \in 1 .. Len(name) + 1 /\ b \in a - 1 .. Len(name) /\ n \in b .. Len(name)
      BY <2>1, <2>2 DEF n
    <3> HIDE DEF a, b
    <3>2. SubSeq(name, a, b) \o SubSeq(name, b + 1, n) = SubSeq(name, a, n)
      BY <3>1, ConcatAdjacentSubSeq
    <3> QED
      BY <3>2 DEF a, b
  <2>8. P!From(name, Len(before2) + 1) = SubSeq(name, (dot - 1) + 1, n)
    BY <2>3 DEF P!From, n
  <2> QED
    BY <2>1, <2>5, <2>6, <2>7, <2>8 DEF before2
<1> QED
  BY <1>1, <1>2

PathShorter == Len(path) <= Len(whole) \/ path = <<".">>

LEMMA PathShorterInit == P!Init => PathShorter
<1> SUFFICES ASSUME P!Init PROVE PathShorter
  OBVIOUS
<1>1. path \in Seq(P!Char) /\ whole = path
  BY PathInitHolds DEF P!Init, PathTypes
<1> QED
  BY <1>1 DEF PathShorter

LEMMA PathShorterKept == ASSUME PathTypes, PathShorter, [P!Next]_(P!vars) PROVE PathShorter'
<1> DEFINE slash == P!strrchr(path, "/")
           dot == P!strrchr(path, ".")
<1>1. slash \in 0 .. Len(path) /\ dot \in 0 .. Len(path) /\ Len(path) \in Nat /\ path \in Seq(P!Char)
  BY PathFound DEF PathTypes
<1> HIDE DEF slash, dot
<1>2. ASSUME NEW m \in Nat, m >= 1 PROVE Len(SubSeq(path, m, Len(path))) <= Len(path)
  BY <1>1, <1>2, PathCut
<1>3. ASSUME NEW n \in Nat, n <= Len(path) PROVE Len(SubSeq(path, 1, n)) <= Len(path)
  BY <1>1, <1>3, PathCut
<1>4. Len(P!basename(path)) <= Len(path)
  BY <1>1, <1>2 DEF P!basename, P!From, slash
<1>5. Len(P!dirname(path)) <= Len(path) \/ P!dirname(path) = <<".">>
  <2>1. slash # 0 => slash - 1 \in Nat /\ slash - 1 <= Len(path)
    BY <1>1
  <2> QED
    BY <1>3, <2>1 DEF P!dirname, slash
<1>6. Len(P!extension(path)) <= Len(path)
  <2>1. Len(<< >>) <= Len(path)
    BY <1>1
  <2> QED
    BY <1>1, <1>2, <2>1 DEF P!extension, P!From, dot
<1>7. Len(P!filename(path)) <= Len(path)
  <2>1. CASE P!HasDot(path)
    <3>1. dot \in 1 .. Len(path) /\ P!filename(path) = SubSeq(path, 1, dot - 1)
      BY <1>1, <2>1, PathDots DEF dot
    <3>2. dot - 1 \in Nat /\ dot - 1 <= Len(path)
      BY <1>1, <3>1
    <3> QED
      BY <1>3, <3>1, <3>2
  <2>2. CASE ~ P!HasDot(path)
    BY <1>1, <2>2 DEF P!filename
  <2> QED
    BY <2>1, <2>2
<1>8. CASE P!Next
  BY <1>4, <1>5, <1>6, <1>7, <1>8 DEF P!Next, PathShorter
<1>9. CASE UNCHANGED P!vars
  BY <1>9 DEF P!vars, PathShorter
<1> QED
  BY <1>8, <1>9

\* What is safe is read in one way: the function that makes it, character by
\* character.
PathSafe == P!Char \ {"/"}

LEMMA PathEscape ==
  ASSUME NEW c \in P!Char
  PROVE  /\ P!Escape(c) \in Seq(PathSafe) /\ Len(P!Escape(c)) \in Nat /\ Len(P!Escape(c)) >= 1
         /\ P!Escape(c)[1] = IF c \in {"/", "%"} THEN "%" ELSE c
         /\ c \in {"/", "%"} => Len(P!Escape(c)) = 3 /\ P!Escape(c)[3] = IF c = "/" THEN "F" ELSE "5"
<1>1. CASE c = "/"
  <2>1. P!Escape(c) = <<"%", "2", "F">>
    BY <1>1 DEF P!Escape
  <2>2. <<"%", "2", "F">> \in Seq(PathSafe)
    BY DEF PathSafe, P!Char
  <2>3. Len(P!Escape(c)) = 3 /\ P!Escape(c)[1] = "%" /\ P!Escape(c)[3] = "F"
    BY <2>1
  <2>4. P!Escape(c) \in Seq(PathSafe)
    BY <2>1, <2>2
  <2> QED
    BY <1>1, <2>3, <2>4
<1>2. CASE c = "%"
  <2>1. P!Escape(c) = <<"%", "2", "5">>
    BY <1>2 DEF P!Escape
  <2>2. <<"%", "2", "5">> \in Seq(PathSafe)
    BY DEF PathSafe, P!Char
  <2>3. Len(P!Escape(c)) = 3 /\ P!Escape(c)[1] = "%" /\ P!Escape(c)[3] = "5"
    BY <2>1
  <2>4. P!Escape(c) \in Seq(PathSafe)
    BY <2>1, <2>2
  <2> QED
    BY <1>2, <2>3, <2>4
<1>3. CASE c # "/" /\ c # "%"
  <2>1. P!Escape(c) = <<c>>
    BY <1>3 DEF P!Escape
  <2>2. <<c>> \in Seq(PathSafe)
    BY <1>3 DEF PathSafe
  <2> QED
    BY <1>3, <2>1, <2>2
<1> QED
  BY <1>1, <1>2, <1>3

PathMade(f, name) == /\ f[0] = << >>
                     /\ \A k \in 1 .. Len(name) : f[k] = f[k - 1] \o P!Escape(name[k])

PathBuilt(f, name, most) == f = [k \in 0 .. most |-> IF k = 0 THEN << >> ELSE f[k - 1] \o P!Escape(name[k])]

\* There is one however much of the name has been gone over.
LEMMA PathBuiltThere == ASSUME NEW name, NEW most \in Nat PROVE \E f : PathBuilt(f, name, most)
<1> DEFINE none == {k \in Nat : ~ \E f : PathBuilt(f, name, k)}
<1>1. SUFFICES ASSUME none # {} PROVE FALSE
  OBVIOUS
<1>2. PICK n \in none : \A k \in none : n <= k
  BY <1>1, LowestOf
<1>3. n \in Nat /\ ~ \E f : PathBuilt(f, name, n)
  OBVIOUS
<1>4. CASE n = 0
  <2> DEFINE f == [i \in 0 .. 0 |-> << >>]
  <2>1. f = [i \in 0 .. 0 |-> IF i = 0 THEN << >> ELSE f[i - 1] \o P!Escape(name[i])]
    OBVIOUS
  <2>2. PathBuilt(f, name, 0)
    BY <2>1 DEF PathBuilt
  <2> QED
    BY <1>3, <1>4, <2>2
<1>5. CASE n # 0
  <2>1. n - 1 \in Nat /\ n - 1 \notin none
    BY <1>2, <1>3, <1>5
  <2>2. PICK f : PathBuilt(f, name, n - 1)
    BY <2>1
  <2> DEFINE more == f[n - 1] \o P!Escape(name[n])
  <2> HIDE DEF more
  <2> DEFINE g == [i \in 0 .. n |-> IF i # n THEN f[i] ELSE more]
  <2>3. \A i \in 0 .. n - 1 : g[i] = f[i]
    BY <1>3
  <2>4. g[n] = more
    BY <1>3
  <2>5. DOMAIN g = 0 .. n /\ g = [i \in DOMAIN g |-> g[i]]
    OBVIOUS
  <2> HIDE DEF g
  <2>6. ASSUME NEW i \in 0 .. n PROVE g[i] = IF i = 0 THEN << >> ELSE g[i - 1] \o P!Escape(name[i])
    <3>1. CASE i = n
      <4>1. g[n - 1] = f[n - 1]
        BY <1>3, <1>5, <2>3
      <4> QED
        BY <1>5, <2>4, <3>1, <4>1 DEF more
    <3>2. CASE i # n
      <4>1. i \in 0 .. n - 1 /\ (i # 0 => i - 1 \in 0 .. n - 1)
        BY <1>3, <3>2
      <4>2. g[i] = f[i] /\ (i # 0 => g[i - 1] = f[i - 1])
        BY <2>3, <4>1
      <4>3. f[i] = IF i = 0 THEN << >> ELSE f[i - 1] \o P!Escape(name[i])
        BY <2>2, <4>1 DEF PathBuilt
      <4> QED
        BY <4>2, <4>3
    <3> QED
      BY <3>1, <3>2
  <2>7. PathBuilt(g, name, n)
    BY <2>5, <2>6 DEF PathBuilt
  <2> QED
    BY <1>3, <2>7
<1> QED
  BY <1>4, <1>5

LEMMA PathSafely == ASSUME NEW name \in Seq(P!Char)
                    PROVE  \E f : PathMade(f, name) /\ P!_safename(name) = f[Len(name)]
<1> DEFINE safe == CHOOSE f : PathBuilt(f, name, Len(name))
<1>1. Len(name) \in Nat
  OBVIOUS
<1>2. PathBuilt(safe, name, Len(name))
  BY <1>1, PathBuiltThere
<1>3. P!_safename(name) = safe[Len(name)]
  BY Zenon DEF P!_safename, PathBuilt
<1> HIDE DEF safe
<1>4. \A k \in 0 .. Len(name) : safe[k] = IF k = 0 THEN << >> ELSE safe[k - 1] \o P!Escape(name[k])
  BY <1>2 DEF PathBuilt
<1>5. safe[0] = << >>
  BY <1>1, <1>4
<1>6. ASSUME NEW k \in 1 .. Len(name) PROVE safe[k] = safe[k - 1] \o P!Escape(name[k])
  <2>1. k \in 0 .. Len(name) /\ k # 0
    BY <1>1
  <2> QED
    BY <1>4, <2>1
<1>7. PathMade(safe, name)
  BY <1>5, <1>6, Zenon DEF PathMade
<1> QED
  BY <1>3, <1>7

LEMMA PathMadeTyped == ASSUME NEW name \in Seq(P!Char), NEW f, PathMade(f, name)
                       PROVE  \A k \in 0 .. Len(name) : f[k] \in Seq(PathSafe)
<1> DEFINE none == {k \in 0 .. Len(name) : f[k] \notin Seq(PathSafe)}
<1>1. SUFFICES ASSUME none # {} PROVE FALSE
  OBVIOUS
<1>2. Len(name) \in Nat /\ none \in SUBSET Nat
  OBVIOUS
<1>3. PICK n \in none : \A k \in none : n <= k
  BY <1>1, <1>2, LowestOf
<1>4. n \in 0 .. Len(name) /\ f[n] \notin Seq(PathSafe)
  OBVIOUS
<1>5. CASE n = 0
  BY <1>4, <1>5, EmptySeq DEF PathMade
<1>6. CASE n # 0
  <2>1. n \in 1 .. Len(name) /\ n - 1 \in 0 .. Len(name) /\ ~ (n <= n - 1)
    BY <1>2, <1>4, <1>6
  <2>2. f[n - 1] \in Seq(PathSafe)
    BY <1>3, <2>1
  <2>3. name[n] \in P!Char
    BY <2>1, ElementOfSeq
  <2>4. P!Escape(name[n]) \in Seq(PathSafe)
    BY <2>3, PathEscape
  <2>5. f[n] = f[n - 1] \o P!Escape(name[n])
    BY <2>1 DEF PathMade
  <2>6. f[n - 1] \o P!Escape(name[n]) \in Seq(PathSafe)
    BY <2>2, <2>4, ConcatProperties
  <2> QED
    BY <1>4, <2>5, <2>6
<1> QED
  BY <1>5, <1>6

\* What is made first stays in front.
PathFront(f, j, k) == Len(f[j]) <= Len(f[k]) /\ \A x \in 1 .. Len(f[j]) : f[k][x] = f[j][x]

LEMMA PathGrows == ASSUME NEW name \in Seq(P!Char), NEW f, PathMade(f, name), NEW j \in 0 .. Len(name)
                   PROVE  \A k \in j .. Len(name) : PathFront(f, j, k)
<1> DEFINE none == {k \in j .. Len(name) : ~ PathFront(f, j, k)}
<1>1. SUFFICES ASSUME none # {} PROVE FALSE
  OBVIOUS
<1>2. Len(name) \in Nat /\ none \in SUBSET Nat /\ j \in Nat
  OBVIOUS
<1>3. PICK n \in none : \A k \in none : n <= k
  BY <1>1, <1>2, LowestOf
<1>4. n \in j .. Len(name) /\ ~ PathFront(f, j, n)
  OBVIOUS
<1> HIDE DEF none
<1>5. \A k \in 0 .. Len(name) : f[k] \in Seq(PathSafe)
  BY PathMadeTyped
<1>6. CASE n = j
  BY <1>2, <1>4, <1>5, <1>6 DEF PathFront
<1>7. CASE n # j
  <2>1. n \in 1 .. Len(name) /\ n - 1 \in 0 .. Len(name) /\ n - 1 \in j .. Len(name) /\ ~ (n <= n - 1)
    BY <1>2, <1>4, <1>7
  <2>2. PathFront(f, j, n - 1)
    BY <1>3, <2>1 DEF none
  <2>3. name[n] \in P!Char
    BY <2>1, ElementOfSeq
  <2>4. P!Escape(name[n]) \in Seq(PathSafe)
    BY <2>3, PathEscape
  <2>5. f[n] = f[n - 1] \o P!Escape(name[n])
    BY <2>1 DEF PathMade
  <2>6. /\ f[n - 1] \in Seq(PathSafe) /\ f[j] \in Seq(PathSafe)
        /\ Len(f[n]) = Len(f[n - 1]) + Len(P!Escape(name[n]))
        /\ \A x \in 1 .. Len(f[n - 1]) : f[n][x] = f[n - 1][x]
    <3> DEFINE s == f[n - 1]
               e == P!Escape(name[n])
    <3>1. s \in Seq(PathSafe) /\ f[j] \in Seq(PathSafe) /\ e \in Seq(PathSafe) /\ f[n] = s \o e
      BY <1>5, <2>1, <2>4, <2>5
    <3> HIDE DEF s, e
    <3>2. /\ Len(s \o e) = Len(s) + Len(e)
          /\ \A x \in 1 .. Len(s) + Len(e) : (s \o e)[x] = IF x <= Len(s) THEN s[x] ELSE e[x - Len(s)]
      BY <3>1, ConcatProperties
    <3>3. Len(s) \in Nat /\ Len(e) \in Nat
      BY <3>1, LenProperties
    <3>4. \A x \in 1 .. Len(s) : (s \o e)[x] = s[x]
      BY <3>2, <3>3
    <3> QED
      BY <3>1, <3>2, <3>4 DEF s, e
  <2>7. Len(f[n - 1]) \in Nat /\ Len(f[j]) \in Nat /\ Len(P!Escape(name[n])) \in Nat
    BY <2>4, <2>6, LenProperties
  <2>8. Len(f[j]) <= Len(f[n])
    <3>1. Len(f[j]) <= Len(f[n - 1])
      BY <2>2 DEF PathFront
    <3> DEFINE least == Len(f[j])
               less == Len(f[n - 1])
               more == Len(P!Escape(name[n]))
               all == Len(f[n])
    <3>2. least <= less /\ all = less + more /\ least \in Nat /\ less \in Nat /\ more \in Nat
      BY <2>6, <2>7, <3>1
    <3> HIDE DEF least, less, more, all
    <3>3. least <= all
      BY <3>2
    <3> QED
      BY <3>3 DEF least, all
  <2>9. \A x \in 1 .. Len(f[j]) : f[n][x] = f[j][x]
    BY <2>2, <2>6, <2>7 DEF PathFront
  <2> QED
    BY <1>4, <2>8, <2>9 DEF PathFront
<1> QED
  BY <1>6, <1>7

\* Names are the same as far as what is made of them is: where both go on, the
\* next character is told by what comes next, and an end by there being nothing.
PathTold(c, p, all) == /\ c \in P!Char /\ p \in Nat /\ Len(all) \in Nat /\ Len(all) > p
                       /\ all[p + 1] = IF c \in {"/", "%"} THEN "%" ELSE c
                       /\ c \in {"/", "%"} => all[p + 3] = IF c = "/" THEN "F" ELSE "5"

LEMMA PathNextTold ==
  ASSUME NEW name \in Seq(P!Char), NEW f, PathMade(f, name), NEW j \in 1 .. Len(name)
  PROVE  PathTold(name[j], Len(f[j - 1]), f[Len(name)])
<1> DEFINE c == name[j]
           p == Len(f[j - 1])
           all == f[Len(name)]
           most == f[j]
           n == Len(name)
           s == f[j - 1]
           e == P!Escape(c)
<1>1. n \in Nat /\ j - 1 \in 0 .. n /\ j \in 0 .. n /\ n \in j .. n /\ n \in 0 .. n
  OBVIOUS
<1>2. c \in P!Char
  BY ElementOfSeq
<1> HIDE DEF c
<1>3. /\ e \in Seq(PathSafe) /\ Len(e) \in Nat /\ Len(e) >= 1
      /\ e[1] = IF c \in {"/", "%"} THEN "%" ELSE c
      /\ c \in {"/", "%"} => Len(e) = 3 /\ e[3] = IF c = "/" THEN "F" ELSE "5"
  BY <1>2, PathEscape
<1>4. s \in Seq(PathSafe) /\ most \in Seq(PathSafe) /\ all \in Seq(PathSafe)
  BY <1>1, PathMadeTyped
<1>5. most = s \o e
  BY DEF PathMade, c
<1>6. PathFront(f, j, n)
  BY <1>1, PathGrows
<1> HIDE DEF n, s, e, p, all, most
<1>7. Len(s) = p /\ p \in Nat /\ Len(all) \in Nat /\ Len(most) \in Nat
  BY <1>4, LenProperties DEF s, p
<1>8. /\ Len(most) = p + Len(e)
      /\ \A x \in 1 .. p + Len(e) : most[x] = IF x <= p THEN s[x] ELSE e[x - p]
  <2>1. /\ Len(s \o e) = Len(s) + Len(e)
        /\ \A x \in 1 .. Len(s) + Len(e) : (s \o e)[x] = IF x <= Len(s) THEN s[x] ELSE e[x - Len(s)]
    BY <1>3, <1>4, ConcatProperties
  <2> QED
    BY <1>5, <1>7, <2>1
<1>9. p + Len(e) <= Len(all) /\ \A x \in 1 .. p + Len(e) : all[x] = most[x]
  BY <1>6, <1>8 DEF PathFront, n, all, most
<1>10. ASSUME NEW y \in 1 .. Len(e) PROVE all[p + y] = e[y]
  <2> DEFINE x == p + y
  <2>1. x \in 1 .. p + Len(e) /\ ~ (x <= p) /\ x - p = y
    BY <1>3, <1>7
  <2> HIDE DEF x
  <2>2. all[x] = most[x] /\ most[x] = e[x - p]
    BY <1>8, <1>9, <2>1
  <2> QED
    BY <2>1, <2>2 DEF x
<1>11. all[p + 1] = e[1]
  <2>1. 1 \in 1 .. Len(e)
    BY <1>3
  <2> QED
    BY <1>10, <2>1
<1>12. c \in {"/", "%"} => all[p + 3] = e[3]
  <2>1. c \in {"/", "%"} => 3 \in 1 .. Len(e)
    BY <1>3
  <2> QED
    BY <1>10, <2>1
<1>13. Len(all) > p
  BY <1>3, <1>7, <1>9
<1> QED
  BY <1>2, <1>3, <1>7, <1>11, <1>12, <1>13 DEF PathTold, c, p, all

LEMMA PathSameMade ==
  ASSUME NEW a \in Seq(P!Char), NEW b \in Seq(P!Char), NEW f, NEW g, PathMade(f, a), PathMade(g, b),
         NEW n \in Nat, n <= Len(a), n <= Len(b), \A k \in 1 .. n : a[k] = b[k]
  PROVE  f[n] = g[n]
<1> DEFINE none == {k \in 0 .. n : f[k] # g[k]}
<1>1. SUFFICES ASSUME none # {} PROVE FALSE
  BY n \in 0 .. n
<1>2. none \in SUBSET Nat /\ Len(a) \in Nat /\ Len(b) \in Nat
  OBVIOUS
<1>3. PICK m \in none : \A k \in none : m <= k
  BY <1>1, <1>2, LowestOf
<1>4. m \in 0 .. n /\ f[m] # g[m]
  OBVIOUS
<1>5. CASE m = 0
  BY <1>4, <1>5 DEF PathMade
<1>6. CASE m # 0
  <2>1. m \in 1 .. Len(a) /\ m \in 1 .. Len(b) /\ m \in 1 .. n /\ m - 1 \in 0 .. n /\ ~ (m <= m - 1)
    BY <1>2, <1>4, <1>6
  <2>2. f[m - 1] = g[m - 1]
    BY <1>3, <2>1
  <2>3. f[m] = f[m - 1] \o P!Escape(a[m]) /\ g[m] = g[m - 1] \o P!Escape(b[m])
    BY <2>1 DEF PathMade
  <2> QED
    BY <1>4, <2>1, <2>2, <2>3
<1> QED
  BY <1>5, <1>6

LEMMA PathSafelyOne == ASSUME NEW a \in Seq(P!Char), NEW b \in Seq(P!Char), P!_safename(a) = P!_safename(b)
                       PROVE  a = b
<1> PICK f : PathMade(f, a) /\ P!_safename(a) = f[Len(a)]
  BY PathSafely
<1> PICK g : PathMade(g, b) /\ P!_safename(b) = g[Len(b)]
  BY PathSafely
<1> DEFINE all == f[Len(a)]
           differ == {k \in Nat \ {0} : ~ (k <= Len(a) /\ k <= Len(b) /\ a[k] = b[k])}
<1>1. all = g[Len(b)] /\ Len(a) \in Nat /\ Len(b) \in Nat
  <2>1. Len(a) \in Nat /\ Len(b) \in Nat
    BY LenProperties
  <2>2. f[Len(a)] = g[Len(b)]
    BY Zenon
  <2> QED
    BY <2>1, <2>2
<1> HIDE DEF all
<1>2. differ \in SUBSET Nat /\ differ # {}
  <2>1. Len(a) + 1 \in differ
    BY <1>1
  <2> QED
    BY <2>1
<1>3. PICK j \in differ : \A k \in differ : j <= k
  BY <1>2, LowestOf
<1>4. j \in Nat \ {0} /\ ~ (j <= Len(a) /\ j <= Len(b) /\ a[j] = b[j])
  OBVIOUS
<1>5. ASSUME NEW k \in 1 .. j - 1 PROVE k <= Len(a) /\ k <= Len(b) /\ a[k] = b[k]
  <2>1. k \in Nat \ {0} /\ ~ (j <= k)
    BY <1>4
  <2>2. k \notin differ
    BY <1>3, <2>1
  <2> QED
    BY <2>1, <2>2
<1> HIDE DEF differ
<1>6. j - 1 \in Nat /\ j - 1 <= Len(a) /\ j - 1 <= Len(b)
  <2>1. CASE j = 1
    BY <1>1, <2>1
  <2>2. CASE j # 1
    <3>1. j - 1 \in 1 .. j - 1
      BY <1>4, <2>2
    <3> QED
      BY <1>4, <1>5, <3>1
  <2> QED
    BY <2>1, <2>2
<1>7. f[j - 1] = g[j - 1]
  BY <1>5, <1>6, PathSameMade
<1> DEFINE p == Len(f[j - 1])
<1>8. p = Len(g[j - 1]) /\ p = Len(f[j - 1])
  BY <1>7
<1> HIDE DEF p
<1>9. j <= Len(a) => PathTold(a[j], p, all)
  <2> SUFFICES ASSUME j \in 1 .. Len(a) PROVE PathTold(a[j], p, all)
    BY <1>1, <1>4
  <2> QED
    BY <1>8, PathNextTold DEF all
<1>10. j <= Len(b) => PathTold(b[j], p, all)
  <2> SUFFICES ASSUME j \in 1 .. Len(b) PROVE PathTold(b[j], p, all)
    BY <1>1, <1>4
  <2> QED
    BY <1>1, <1>8, PathNextTold
<1>11. Len(a) = j - 1 => Len(all) = p
  BY <1>8 DEF all
<1>12. Len(b) = j - 1 => Len(all) = p
  BY <1>1, <1>8
<1>13. CASE j <= Len(a) /\ j <= Len(b)
  <2>1. a[j] = b[j]
    BY <1>9, <1>10, <1>13 DEF PathTold
  <2> QED
    BY <1>4, <1>13, <2>1
<1>14. CASE j <= Len(a) /\ ~ (j <= Len(b))
  <2>1. Len(b) = j - 1
    BY <1>1, <1>4, <1>6, <1>14
  <2>2. Len(all) = p /\ Len(all) > p /\ p \in Nat
    BY <1>9, <1>12, <1>14, <2>1 DEF PathTold
  <2> QED
    BY <2>2
<1>15. CASE ~ (j <= Len(a)) /\ j <= Len(b)
  <2>1. Len(a) = j - 1
    BY <1>1, <1>4, <1>6, <1>15
  <2>2. Len(all) = p /\ Len(all) > p /\ p \in Nat
    BY <1>10, <1>11, <1>15, <2>1 DEF PathTold
  <2> QED
    BY <2>2
<1>16. CASE ~ (j <= Len(a)) /\ ~ (j <= Len(b))
  <2>1. Len(a) = j - 1 /\ Len(b) = j - 1
    BY <1>1, <1>4, <1>6, <1>16
  <2>2. \A k \in 1 .. Len(a) : a[k] = b[k]
    BY <1>5, <2>1
  <2> QED
    BY <2>1, <2>2, SeqEqual
<1> QED
  BY <1>13, <1>14, <1>15, <1>16

LEMMA PathReads == PathTypes /\ PathShorter => P!PartsJoin
<1> SUFFICES ASSUME PathTypes, PathShorter PROVE P!PartsJoin
  OBVIOUS
<1>1. path \in Seq(P!Char)
  BY DEF PathTypes
<1>2. P!strrchr(path, "/") # 0 => P!dirname(path) \o <<"/">> \o P!basename(path) = path
  BY <1>1, PathDirJoins
<1>3. IF P!HasDot(path) THEN P!filename(path) \o <<".">> \o P!extension(path) = path
      ELSE P!filename(path) = path
  <2>1. CASE P!HasDot(path)
    BY <1>1, <2>1, PathExtJoins
  <2>2. CASE ~ P!HasDot(path)
    BY <2>2 DEF P!filename
  <2> QED
    BY <2>1, <2>2
<1>4. P!basename(path) = P!basename(P!filename(path)) \o P!From(path, Len(P!filename(path)) + 1)
  BY <1>1, PathBase
<1>5. \A k \in DOMAIN P!_safename(path) : P!_safename(path)[k] # "/"
  <2> PICK f : PathMade(f, path) /\ P!_safename(path) = f[Len(path)]
    BY <1>1, PathSafely
  <2>1. Len(path) \in 0 .. Len(path)
    BY <1>1
  <2>2. P!_safename(path) \in Seq(PathSafe)
    BY <1>1, <2>1, PathMadeTyped
  <2> DEFINE s == P!_safename(path)
  <2> HIDE DEF s
  <2>3. \A k \in DOMAIN s : s[k] \in PathSafe
    BY <2>2, LenProperties, ElementOfSeq DEF s
  <2>4. "/" \notin PathSafe
    BY DEF PathSafe
  <2> QED
    BY <2>3, <2>4 DEF s
<1>6. ASSUME NEW name \in PathNames, P!_safename(name) = P!_safename(path) PROVE name = path
  <2>1. P!PathsAssumption
    BY Assumptions, Zenon
  <2>2. name \in Seq(P!Char)
    BY <2>1 DEF P!PathsAssumption
  <2> QED
    BY <1>1, <1>6, <2>2, PathSafelyOne
<1> QED
  BY <1>2, <1>3, <1>4, <1>5, <1>6 DEF P!PartsJoin, PathShorter
=============================================================================
