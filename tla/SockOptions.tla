----------------------------- MODULE SockOptions -----------------------------
(***************************************************************************)
(* The options of a socket of src/net.c, which the program reads and sets  *)
(* as fields.  The name is looked for in a table by bsearch(); a name that *)
(* is not found is taken for a method, or, when it is assigned to, passed  *)
(* over in silence, as are all errors of the kernel.                       *)
(***************************************************************************)
EXTENDS Integers, Sequences, FiniteSets

CONSTANTS Nothing,     \* Lua's nil
          Integer,     \* values assigned to options with numbers
          LeastBuffer, \* what the kernel gives a socket at least, and at most,
          MostBuffer,  \* for the bytes that are on their way
          MaxAssigned  \* bound: options that are assigned to

SockOptionsAssumption == /\ Integer \subseteq Nat \ {0} /\ MaxAssigned \in Nat
                         /\ LeastBuffer \in Nat /\ MostBuffer \in Nat /\ LeastBuffer <= MostBuffer
                         /\ Nothing \notin BOOLEAN

VARIABLES file,    \* what the descriptor is: "tcp", "udp" or "pipe"
          val,     \* what the kernel keeps
          wanted   \* what the program assigned last

vars == <<file, val, wanted>>

Row(place, name, level, type, set) ==
  [place |-> place, name |-> name, level |-> level, type |-> type, set |-> set]

\* The table of Linux, with the place of each name in the order of strcmp().
m_sockoptions ==
  << Row(1,  "broadcast",  "SOCKET", "FLAG",   TRUE),  Row(2,  "closeexec",   "FD",     "FCNTL", TRUE),
     Row(3,  "debug",      "SOCKET", "FLAG",   TRUE),  Row(4,  "dontroute",   "SOCKET", "FLAG",  TRUE),
     Row(5,  "error",      "SOCKET", "INT",    FALSE), Row(6,  "keepalive",   "SOCKET", "FLAG",  TRUE),
     Row(7,  "linger",     "SOCKET", "LINGER", TRUE),  Row(8,  "maxsegment",  "TCP",    "INT",   TRUE),
     Row(9,  "nodelay",    "TCP",    "FLAG",   TRUE),  Row(12, "quickack",    "TCP",    "FLAG",  TRUE),
     Row(10, "nonblock",   "FL",     "FCNTL",  TRUE),  Row(11, "oobinline",   "SOCKET", "FLAG",  TRUE),
     Row(13, "recvbuffer", "SOCKET", "INT",    TRUE),  Row(14, "recvlow",     "SOCKET", "INT",   TRUE),
     Row(15, "recvqueue",  "SOCKET", "IOCTL",  FALSE), Row(16, "recvtimeout", "SOCKET", "INT",   TRUE),
     Row(17, "reuseaddr",  "SOCKET", "FLAG",   TRUE),  Row(18, "reuseport",   "SOCKET", "FLAG",  TRUE),
     Row(19, "sendbuffer", "SOCKET", "INT",    TRUE),  Row(20, "sendlow",     "SOCKET", "INT",   TRUE),
     Row(21, "sendqueue",  "SOCKET", "IOCTL",  FALSE), Row(22, "sendtimeout", "SOCKET", "INT",   TRUE),
     Row(23, "type",       "SOCKET", "INT",    FALSE) >>

Rows == LET table == m_sockoptions IN {table[k] : k \in DOMAIN table}
Names == {row.name : row \in Rows}

sopt_compare(key, row) == key.place - row.place

\* What is left of the rows behind within[1], up to within[2], when the one in the
\* middle has been compared.
Middle(within) == (within[1] + within[2]) \div 2
Remaining(within, comparison) ==
  IF within[1] >= within[2] \/ comparison = 0 THEN within
  ELSE IF comparison < 0 THEN <<within[1], Middle(within)>>
  ELSE <<Middle(within) + 1, within[2]>>
Halved(key, table, within) ==
  LET comparison == sopt_compare(key, table[Middle(within) + 1])
  IN Remaining(within, comparison)

\* bsearch() of the C library: where it stops if it finds the name, or 0.  After
\* five comparisons nothing is left of 23 rows.
bsearch(key) ==
  LET table  == m_sockoptions
      first  == Halved(key, table, <<0, Len(table)>>)
      second == Halved(key, table, first)
      third  == Halved(key, table, second)
      fourth == Halved(key, table, third)
      fifth  == Halved(key, table, fourth)
  IN IF fifth[1] < fifth[2] THEN Middle(fifth) + 1 ELSE 0
-----------------------------------------------------------------------------
(* The kernel, which is that of Linux.                                     *)

\* The descriptor has options of that level.
Has(level) == CASE level = "SOCKET" -> file # "pipe"
                [] level = "TCP"    -> file = "tcp"
                [] OTHER            -> TRUE

Values(row) == CASE row.type = "LINGER" -> [on : BOOLEAN, linger : {0} \cup Integer]
                 [] row.type \in {"FLAG", "FCNTL"} -> BOOLEAN
                 [] OTHER -> {0} \cup Integer

\* There is twice the room that was asked for, half of it for the kernel's own use.
Buffer(size) == IF 2 * size < LeastBuffer THEN LeastBuffer
                ELSE IF 2 * size > MostBuffer THEN MostBuffer ELSE 2 * size

\* What setsockopt() may leave behind.  It refuses sendlow, wants a whole timeval
\* for the timeouts, and gets an int; only root may switch debug on; the size of
\* a segment is between the kernel and the peer; recvlow is at least 1, and with
\* tcp at most half of the buffer; the time to linger stays as it was when the
\* flag is off.
KeptAs(row, to) ==
  CASE ~ Has(row.level) -> {val[row.name]}
    [] row.name \in {"recvtimeout", "sendtimeout", "sendlow"} -> {val[row.name]}
    [] row.name = "debug" -> IF to THEN {val[row.name], TRUE} ELSE {FALSE}
    [] row.name = "maxsegment" -> {0} \cup Integer
    [] row.name \in {"recvbuffer", "sendbuffer"} -> {Buffer(to)}
    [] row.name = "recvlow" -> 1 .. (IF to = 0 THEN 1 ELSE to)
    [] row.name = "linger" -> {[on |-> to.on, linger |-> IF to.on THEN to.linger ELSE val[row.name].linger]}
    [] OTHER -> {to}

\* The bits that fcntl() gives: a socket is open for reading and writing, which
\* is a bit, and this end of a pipe for reading, which is none.
Word(row) == (IF row.level = "FL" /\ file # "pipe" THEN {"O_RDWR"} ELSE {})
               \cup (IF val[row.name] THEN {row.name} ELSE {})
-----------------------------------------------------------------------------
Unset(row) == CASE row.type = "LINGER" -> [on |-> FALSE, linger |-> 0]
                [] row.type \in {"FLAG", "FCNTL"} -> FALSE
                [] row.name \in {"recvlow", "sendlow"} -> 1
                [] row.name \in {"recvbuffer", "sendbuffer"} -> LeastBuffer
                [] OTHER -> 0

\* A descriptor that somebody else made may be marked to be closed by exec().
Init == /\ file \in {"tcp", "udp", "pipe"}
        /\ \E marked \in BOOLEAN, rows \in {Rows} :
              val = [n \in Names |-> IF n = "closeexec" THEN marked
                                     ELSE Unset(CHOOSE row \in rows : row.name = n)]
        /\ wanted = [n \in Names |-> Nothing]

\* socklua___index(): what the program reads.
Shown(row) == IF bsearch(row) = 0 THEN Nothing
              ELSE IF Has(row.level) THEN val[row.name]
              ELSE CASE row.type = "FLAG" -> FALSE
                     [] row.type = "INT"  -> -1
                     [] OTHER -> Nothing

\* Reading the pending error takes it.
Index == /\ Has("SOCKET") /\ val["error"] # 0
         /\ val' = [val EXCEPT !["error"] = 0]
         /\ UNCHANGED <<file, wanted>>

\* A flag is changed in the word that is there, which has to be positive.
SetFcntl(row, to) ==
  LET word == IF to THEN Word(row) \cup {row.name} ELSE Word(row) \ {row.name}
  IN val' = IF Word(row) # {} THEN [val EXCEPT ![row.name] = row.name \in word] ELSE val

SetSockopt(row, to) == \E kept \in KeptAs(row, to) : val' = [val EXCEPT ![row.name] = kept]

\* socklua___newindex().
NewIndex(row, to) ==
  /\ Cardinality({n \in DOMAIN wanted : wanted[n] # Nothing} \cup {row.name}) <= MaxAssigned
  /\ wanted' = [wanted EXCEPT ![row.name] = to]
  /\ IF bsearch(row) = 0 \/ ~ row.set THEN UNCHANGED val
     ELSE IF row.type = "FCNTL" THEN SetFcntl(row, to)
     ELSE SetSockopt(row, to)
  /\ UNCHANGED file

\* Something goes wrong, or bytes come in.
Happens(name) == /\ Has("SOCKET")
                 /\ \E v \in Integer : val' = [val EXCEPT ![name] = v]
                 /\ UNCHANGED <<file, wanted>>

Next == \/ Index
        \/ \E row \in Rows : \E to \in Values(row) : NewIndex(row, to)
        \/ \E n \in {"error", "recvqueue"} : Happens(n)

Spec == Init /\ [][Next]_vars
-----------------------------------------------------------------------------
Readings(row) == IF row.type \in {"INT", "IOCTL"} THEN Nat ELSE Values(row)

TypeOK == /\ file \in {"tcp", "udp", "pipe"}
          /\ \A row \in Rows : /\ val[row.name] \in Readings(row)
                               /\ wanted[row.name] \in Values(row) \cup {Nothing}

\* What the program cannot set: what is only to be read, what the search does
\* not find, what is no int, what the kernel refuses or settles with the peer,
\* what this descriptor has not, and the two flags of a word without any bit in
\* it: closeexec can at most be switched off.
Heeded(row) == /\ row.name \notin {"error", "type", "recvqueue", "sendqueue", "quickack", "sendlow",
                                   "maxsegment", "recvtimeout", "sendtimeout", "closeexec"}
               /\ Has(row.level)
               /\ row.name = "nonblock" => file # "pipe"

\* What the program should read after it has assigned: the room that was asked
\* for twice, within the kernel's limits; recvlow 1 for 0, and no more than was
\* asked for, which in a tcp socket the buffer limits; of linger no more than
\* the flag if it is off; debug no longer than it was asked for; else the same.
ReadsAs(row, to, read) ==
  CASE row.name \in {"recvbuffer", "sendbuffer"} -> read = Buffer(to)
    [] row.name = "recvlow" -> read \in 1 .. (IF to = 0 THEN 1 ELSE to)
    [] row.name = "linger" -> read.on = to.on /\ (to.on => read.linger = to.linger)
    [] row.name = "debug" -> read => to
    [] OTHER -> read = to

\* All other options read back as they were assigned last, in the way in which
\* the kernel takes them, whatever else was assigned in between; and every option
\* is found but one, whose row in the table (src/net.c:793) is not where
\* bsearch() looks for it.
OptionsReadBack ==
  \A row \in Rows :
     /\ Heeded(row) /\ wanted[row.name] # Nothing => ReadsAs(row, wanted[row.name], Shown(row))
     /\ bsearch(row) = 0 <=> row.name = "quickack"
     /\ row.name = "closeexec" /\ wanted["closeexec"] = FALSE => ~ Shown(row)
=============================================================================
