------------------------------- MODULE Limits --------------------------------
(***************************************************************************)
(* What the process is allowed, in src/process.c: its user (its group is   *)
(* the same with other calls), a resource limit and the processors.        *)
(***************************************************************************)
EXTENDS Integers, FiniteSets

CONSTANTS Id,      \* users; 0 may do anything
          Amount,  \* what limits are set to
          Width,   \* rlim_t has so many bits
          Cpus     \* sets of processors there may be

Keep == -1

LimitsAssumption == /\ Id \subseteq Nat /\ 0 \in Id
                           /\ Width \in Nat /\ 2^Width \in Nat \ {0}
                           /\ Amount \subseteq 0 .. 2^Width - 1
                           /\ \A set \in Cpus : set \subseteq Nat

VARIABLES system,   \* "linux" or "other"
          ids,      \* real, effective and saved
          limit,    \* the soft and the hard one
          online,   \* the processors there are
          allowed,  \* those the process may use
          request,  \* what the last call wanted, and what was before
          reply     \* what it answered

thingVars == <<ids, limit, allowed>>
vars == <<system, online, thingVars, request, reply>>

Ids == [uid : Id, euid : Id \cup {Keep}, suid : Id \cup {Keep}]
Nobody == [call |-> "none"]

Init == /\ system \in {"linux", "other"}
        /\ \E u \in Id : ids = [uid |-> u, euid |-> u, suid |-> u]
        /\ \E most \in Amount : limit = [cur |-> most, max |-> most]
        /\ online \in Cpus
        /\ allowed = online
        /\ request = Nobody /\ reply = 0

Privileged(i) == i.euid = 0
Among(i) == {i.uid, i.euid, i.suid, Keep}
-----------------------------------------------------------------------------
(* setuid() and setgid().                                                  *)

Chosen(to, was) == IF to = Keep THEN was ELSE to

\* setresuid() does all of it or nothing.
Setresuid(want) ==
  IF Privileged(ids) \/ {want.uid, want.euid, want.suid} \subseteq Among(ids)
  THEN /\ reply' = 0
       /\ ids' = [uid |-> Chosen(want.uid, ids.uid), euid |-> Chosen(want.euid, ids.euid),
                  suid |-> Chosen(want.suid, ids.suid)]
  ELSE reply' = 1 /\ UNCHANGED ids

\* Elsewhere it is setuid(), and then seteuid() with what was asked for or -1,
\* which is no user that anybody but root can become.
Become(id) == IF Privileged(ids) THEN [uid |-> id, euid |-> id, suid |-> id]
              ELSE [ids EXCEPT !.euid = id]

SetuidSeteuid(want) ==
  IF ~ (Privileged(ids) \/ want.uid \in {ids.uid, ids.suid})
  THEN reply' = 1 /\ UNCHANGED ids
  ELSE LET now == Become(want.uid)
       IN IF Privileged(now) \/ want.euid \in {now.uid, now.suid}
          THEN reply' = 0 /\ ids' = [now EXCEPT !.euid = want.euid]
          ELSE reply' = 1 /\ ids' = now

Setuid(want) ==
  /\ request' = [call |-> "setuid", want |-> want, before |-> ids]
  /\ IF system = "linux" THEN Setresuid(want) ELSE SetuidSeteuid(want)
  /\ UNCHANGED <<limit, allowed, system, online>>
-----------------------------------------------------------------------------
(* limits.hard and limits.soft.                                            *)

\* limit_valid_suffix() multiplies in the width of the type.
Value(amount, unit) == (amount * unit) % 2^Width

\* setrlimit(), whose answer nobody looks at.
Setrlimit(to) ==
  limit' = IF to.cur <= to.max /\ (to.max <= limit.max \/ Privileged(ids)) THEN to ELSE limit

SetLimit(which, amount, unit) ==
  /\ request' = [call |-> which, want |-> amount * unit, before |-> limit]
  /\ reply' = 0
  /\ IF which = "hard"
     THEN Setrlimit([cur |-> Value(amount, unit), max |-> Value(amount, unit)])
     ELSE Setrlimit([limit EXCEPT !.cur = Value(amount, unit)])
  /\ UNCHANGED <<ids, allowed, system, online>>
-----------------------------------------------------------------------------
(* getaffinity() and setaffinity() number the processors from 1 to as many *)
(* as there are, whatever their numbers.                                   *)

Numbers == 1 .. Cardinality(online)
Getaffinity == {i \in Numbers : i - 1 \in allowed}

Setaffinity(want) ==
  LET set == {i - 1 : i \in want} \cap online
  IN /\ request' = [call |-> "affinity", want |-> want, before |-> allowed]
     /\ reply' = IF set = {} THEN 1 ELSE 0
     /\ allowed' = IF set = {} THEN allowed ELSE set
     /\ UNCHANGED <<ids, limit, system, online>>

Next == \/ \E want \in Ids : Setuid(want)
        \/ \E which \in {"hard", "soft"}, amount \in Amount, unit \in {1, 2} : SetLimit(which, amount, unit)
        \/ \E want \in SUBSET Numbers : Setaffinity(want)

Spec == Init /\ [][Next]_vars
-----------------------------------------------------------------------------
TypeOK == /\ {ids.uid, ids.euid, ids.suid} \subseteq Id \cup {Keep}
          /\ limit.cur \in 0 .. limit.max /\ limit.max < 2^Width
          /\ allowed \subseteq online

\* Without setresuid() the first of two steps stays done when the second fails:
\* the effective user is the one that was asked for as the real one, and nothing
\* else has changed unless root called.
HalfDone(was, want) == /\ system = "other"
                       /\ ids.euid = want.uid
                       /\ ids.uid # was.uid \/ ids.suid # was.suid => Privileged(was)

\* The user is who it was to become when the answer is 0, and who it was, or is
\* to become by halves, when it is not.
IdsAsAsked ==
  request.call = "setuid" =>
    IF reply = 0 THEN /\ system = "linux" => ids.uid = request.want.uid
                      /\ request.want.euid # Keep => ids.euid = request.want.euid
    ELSE ids = request.before \/ HalfDone(request.before, request.want)

\* A limit is what was asked for or what it was, unless the product was too
\* large for it; and the soft one never takes the hard one with it.
LimitAsAsked ==
  /\ request.call \in {"hard", "soft"} /\ limit # request.before => limit.cur = request.want % 2^Width
  /\ request.call = "soft" => limit.max = request.before.max
  /\ request.call = "hard" /\ limit # request.before => limit.cur = limit.max

\* The processors that were chosen are those that are shown, if their numbers
\* have no gap.
AffinityAsAsked ==
  request.call = "affinity" /\ reply = 0 /\ online = {i - 1 : i \in Numbers} => Getaffinity = request.want

Granted == IdsAsAsked /\ LimitAsAsked /\ AffinityAsAsked
=============================================================================
