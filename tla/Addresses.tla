------------------------------ MODULE Addresses -------------------------------
(***************************************************************************)
(* The addresses of src/net.c: how they are made, compared and shown.  An  *)
(* address is a family, bytes and a port.  The bytes are those in memory:  *)
(* a path ends at its first 0 and is followed by what was there before.    *)
(* inet_pton() and the tables of protocols and services are external.      *)
(***************************************************************************)
EXTENDS Integers, Sequences, FiniteSets

CONSTANTS Hosts,     \* what net.address() is given: texts that stand for bytes
          Protos,    \* protocols, as numbers
          Ports,     \* ports that are given, some beyond what a port can be
          PathSize,  \* of sun_path, 108 in the code
          MaxPort,   \* 65535 in the code
          Junk,      \* what memory may hold
          MaxKnown,  \* bound: addresses the program has
          Nothing    \* Lua's nil

AddressesAssumption ==
  /\ MaxPort \in Nat /\ Protos \subseteq Int /\ Ports \subseteq Int
  /\ PathSize \in Nat \ {0} /\ MaxKnown \in Nat /\ Nothing \notin Int
  /\ \A junk \in Junk : junk \in Seq(0 .. 255) /\ Len(junk) = PathSize
  /\ \A host \in Hosts : /\ host.reads \in {"ip", "ip6", "path"}
                         /\ host.bytes \in Seq(0 .. 255)
                         /\ host.reads = "ip" => Len(host.bytes) = 4
                         /\ host.reads = "ip6" => Len(host.bytes) = 16

TCP == 6
UDP == 17
SCTP == 132

VARIABLES known,   \* the addresses the program has
          madeOf,   \* what the last was made of
          outcome   \* and what came of it

vars == <<known, madeOf, outcome>>

AF_UNIX == 1
AF_INET == 2
AF_INET6 == 10

\* strlen() of a path.
strlen(bytes) == CHOOSE n \in 0 .. Len(bytes) :
                   /\ n = Len(bytes) \/ bytes[n + 1] = 0
                   /\ \A k \in 1 .. n : bytes[k] # 0

Inet_addrlen(a) == IF a.family = AF_UNIX THEN strlen(a.bytes) ELSE Len(a.bytes)

Inet_port(a) == IF a.family = AF_UNIX THEN 0 ELSE a.port

\* memcmp(): the difference at the first place where there is one.
memcmp(s, t, len) ==
  LET differ == {k \in 1 .. len : s[k] # t[k]}
  IN IF differ = {} THEN 0
     ELSE LET k == CHOOSE k \in differ : \A j \in differ : k <= j
          IN s[k] - t[k]

Shorter(m, n) == IF m < n THEN m ELSE n

\* A slip that ReadsBack is to catch: the memory behind a path is compared.
Inet_compAll(a, b) ==
  LET la == Len(a.bytes)
      lb == Len(b.bytes)
      bytes == memcmp(a.bytes, b.bytes, Shorter(la, lb))
  IN IF a.family # b.family THEN a.family - b.family
     ELSE IF bytes # 0 THEN bytes
     ELSE Inet_port(a) - Inet_port(b)

Inet_comp(a, b) ==
  LET la == Inet_addrlen(a)
      lb == Inet_addrlen(b)
      bytes == memcmp(a.bytes, b.bytes, Shorter(la, lb))
  IN IF a.family # b.family THEN a.family - b.family
     ELSE IF bytes # 0 THEN bytes
     ELSE IF la < lb THEN -1
     ELSE IF la > lb THEN 1
     ELSE Inet_port(a) - Inet_port(b)

\* __eq, __lt, __le and __len of the metatable.
Equal(a, b) == Inet_comp(a, b) = 0
Before(a, b) == Inet_comp(a, b) < 0
NotAfter(a, b) == Inet_comp(a, b) <= 0
Size(a) == Inet_addrlen(a)
-----------------------------------------------------------------------------
\* Inet_setport() asserts that the port is one; a protocol without ports is its
\* own port.
PortOf(proto, port) == IF proto \in {TCP, UDP, SCTP} THEN port ELSE proto

Made(a) == [address |-> a, err |-> 0]
Refused == [address |-> Nothing, err |-> 22]
Abort == -1
Aborts == [address |-> Nothing, err |-> Abort]

WithPort(family, bytes, proto, port) ==
  IF PortOf(proto, port) \in 0 .. MaxPort
  THEN Made([family |-> family, bytes |-> bytes, port |-> PortOf(proto, port)])
  ELSE Aborts

\* A path is copied with the 0 at its end, into memory that was not cleared.
UnixPath(text, junk) ==
  Made([family |-> AF_UNIX, port |-> 0,
        bytes |-> text \o <<0>> \o SubSeq(junk, Len(text) + 2, PathSize)])

\* net.address(): IPv4 if it reads as that, then IPv6, else a path, which has no
\* protocol.
Address(host, proto, port, junk) ==
  IF host.reads = "ip" THEN WithPort(AF_INET, host.bytes, proto, port)
  ELSE IF host.reads = "ip6" THEN WithPort(AF_INET6, host.bytes, proto, port)
  ELSE IF Len(host.bytes) > PathSize - 1 THEN Refused
  ELSE UnixPath(host.bytes, junk)

\* net.addressraw(): the number of bytes tells.
AddressRaw(bytes, proto, port) ==
  CASE Len(bytes) = 4  -> WithPort(AF_INET, bytes, proto, port)
    [] Len(bytes) = 16 -> WithPort(AF_INET6, bytes, proto, port)
    [] OTHER -> Refused

\* addr.addrbits: all of a path and what is behind it.
AddrBits(a) == a.bytes

\* tostring() and addr.display(): the port is shown unless it is the one that is
\* understood, with brackets around what has colons in it.
Display(a, default) ==
  [text     |-> SubSeq(a.bytes, 1, Inet_addrlen(a)),
   brackets |-> a.family = AF_INET6,
   port     |-> IF a.family = AF_UNIX \/ Inet_port(a) = default THEN Nothing ELSE Inet_port(a)]
-----------------------------------------------------------------------------
Init == known = {} /\ madeOf = Nothing /\ outcome = Refused

Keeps(result) == /\ outcome' = result
                 /\ known' = IF result.err = 0 THEN known \cup {result.address} ELSE known

Room == Cardinality(known) < MaxKnown

MakeAddress == Room /\ \E host \in Hosts, proto \in Protos, port \in Ports, junk \in Junk :
  /\ Keeps(Address(host, proto, port, junk))
  /\ madeOf' = [proto |-> proto, port |-> port, bytes |-> host.bytes]

MakeRaw == Room /\ \E a \in known, proto \in Protos, port \in Ports :
  /\ Keeps(AddressRaw(AddrBits(a), proto, port))
  /\ madeOf' = [proto |-> proto, port |-> port, bytes |-> AddrBits(a)]

\* net.address2(): what getaddrinfo() finds for a name, of the family that was
\* asked for.
MakeAddress2 == Room /\ \E host \in Hosts, port \in Ports, family \in {"any", "ip", "ip6", "other"} :
  LET found == family \in {"any", host.reads} /\ port \in 0 .. MaxPort
  IN /\ host.reads # "path"
     /\ Keeps(IF found THEN Address(host, TCP, port, << >>) ELSE Refused)
     /\ madeOf' = [proto |-> TCP, port |-> port, bytes |-> host.bytes]

Next == MakeAddress \/ MakeRaw \/ MakeAddress2

Spec == Init /\ [][Next]_vars
-----------------------------------------------------------------------------
TypeOK == \A a \in known : /\ a.family \in {AF_UNIX, AF_INET, AF_INET6}
                          /\ a.port \in 0 .. MaxPort
                          /\ Len(a.bytes) = CASE a.family = AF_UNIX -> PathSize
                                               [] a.family = AF_INET -> 4
                                               [] OTHER -> 16

Shows(a) == [family |-> a.family, display |-> Display(a, Nothing)]

\* __lt, __le and __eq are one order, in which every two addresses have their
\* places, and two are equal when they are shown as the same, whatever the
\* memory behind a path holds.
Ordered == \A a, b \in known :
  /\ Equal(a, b) <=> Shows(a) = Shows(b)
  /\ Before(a, b) <=> ~ NotAfter(b, a)
  /\ NotAfter(a, b) <=> Before(a, b) \/ Equal(a, b)
  /\ \A c \in known : NotAfter(a, b) /\ NotAfter(b, c) => NotAfter(a, c)

\* An address has the bytes and the port it was made with.  A port that is none
\* ends the process.
MadeAsAsked ==
  /\ outcome.err = 0 => LET a == outcome.address
                       IN /\ SubSeq(a.bytes, 1, Len(madeOf.bytes)) = madeOf.bytes
                          /\ a.family # AF_UNIX => Inet_port(a) = PortOf(madeOf.proto, madeOf.port)
  /\ outcome.err = Abort => PortOf(madeOf.proto, madeOf.port) \notin 0 .. MaxPort
=============================================================================
