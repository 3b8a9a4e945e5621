----------------------------- MODULE TlsObjects ------------------------------
(***************************************************************************)
(* The objects of src/tls.c: contexts and configurations of libtls in      *)
(* userdata that the collector frees, and the registry, where the callbacks *)
(* of libtls find the Lua functions by the address of struct tls.  An       *)
(* address that was freed may come back with the next allocation.           *)
(* What libtls does is external; it counts who uses a configuration.        *)
(***************************************************************************)
EXTENDS Integers, FiniteSets

CONSTANTS Ctx, Conf,   \* userdata of contexts and of configurations
          Ptr, Cptr,   \* bound: addresses of struct tls and struct tls_config
          Calls,       \* readf, writef and the userdata they get
          Nothing      \* Lua's nil

NULL == 0
Absent == -1      \* there is no userdata

TlsObjectsAssumption == /\ Ptr \subseteq Nat \ {0} /\ Cptr \subseteq Nat \ {0}
                        /\ Nothing \notin Ctx /\ Nothing \notin Calls
                        /\ IsFiniteSet(Conf) /\ IsFiniteSet(Ptr)

VARIABLES ctx,        \* the struct tls of a userdata
          uservalue,  \* its table: _ctx and the functions
          registry,   \* by address: the userdata whose table it is
          reach,      \* the userdata that the program has
          tls,        \* by address: [live, back, conf] of libtls
          conf,       \* the struct tls_config of a userdata
          refs,       \* by address: how many use it
          stray       \* a call with NULL for a pointer was made

ctxVars == <<ctx, uservalue, registry, reach, tls>>
vars == <<ctxVars, conf, refs, stray>>

Table(c, calls) == [_ctx |-> c, calls |-> calls]
NoTable == Table(Nothing, Nothing)
Dead == [live |-> FALSE, back |-> NoTable, conf |-> NULL]

Init == /\ ctx = [c \in Ctx |-> Absent]
        /\ uservalue = [c \in Ctx |-> NoTable]
        /\ registry = [p \in Ptr |-> Nothing]
        /\ reach = {}
        /\ tls = [p \in Ptr |-> Dead]
        /\ conf = [k \in Conf |-> Absent]
        /\ refs = [q \in Cptr |-> 0]
        /\ stray = FALSE

Live(c) == ctx[c] \in Ptr

\* A table in the registry names its userdata, which is not collected then.  The
\* callbacks are given that userdata, whether the program has it or not.
Pinned(c) == \E p \in Ptr : registry[p] # Nothing /\ uservalue[registry[p]]._ctx = c
Usable(c) == Live(c) /\ (c \in reach \/ Pinned(c))
-----------------------------------------------------------------------------
(* libtls.                                                                 *)

Unused == {p \in Ptr : ~ tls[p].live}
UnusedConf == {q \in Cptr : refs[q] = 0}

\* One user more of configuration `to', one less of `from'; a configuration
\* without users is freed.
Recount(from, to) ==
  refs' = [q \in Cptr |-> refs[q] + (IF q = to THEN 1 ELSE 0) - (IF q = from THEN 1 ELSE 0)]

NewStruct(c, p, k) == /\ tls' = [tls EXCEPT ![p] = [live |-> TRUE, back |-> NoTable, conf |-> k]]
                      /\ ctx' = [ctx EXCEPT ![c] = p]
                      /\ reach' = reach \cup {c}
                      /\ Recount(NULL, k)
-----------------------------------------------------------------------------
(* Contexts.                                                               *)

\* client() and server(); without memory there is no object.
Client(c) == /\ ctx[c] = Absent
             /\ \E p \in Unused : NewStruct(c, p, NULL)
             /\ uservalue' = [uservalue EXCEPT ![c] = NoTable]
             /\ UNCHANGED <<registry, conf, stray>>

\* accept_fds() and accept_socket().
AcceptFds(server, c) ==
  /\ Usable(server) /\ ctx[c] = Absent
  /\ \E p \in Unused : NewStruct(c, p, tls[ctx[server]].conf)
  /\ uservalue' = [uservalue EXCEPT ![c] = NoTable]
  /\ UNCHANGED <<registry, conf, stray>>

\* The new table is the value in the registry and that of the userdata.
AcceptCbs(server, c, calls) ==
  /\ Usable(server) /\ ctx[c] = Absent
  /\ \E p \in Unused :
        /\ tls' = [tls EXCEPT ![p] = [live |-> TRUE, back |-> Table(c, calls), conf |-> tls[ctx[server]].conf]]
        /\ ctx' = [ctx EXCEPT ![c] = p]
        /\ registry' = [registry EXCEPT ![p] = c]
  /\ Recount(NULL, tls[ctx[server]].conf)
  /\ uservalue' = [uservalue EXCEPT ![c] = Table(c, calls)]
  /\ reach' = reach \cup {c}
  /\ UNCHANGED <<conf, stray>>

\* When libtls refuses nothing is changed.
ConnectCbs(c, calls) ==
  /\ Usable(c) /\ tls[ctx[c]].back = NoTable
  /\ tls' = [tls EXCEPT ![ctx[c]].back = Table(c, calls)]
  /\ uservalue' = [uservalue EXCEPT ![c] = Table(c, calls)]
  /\ registry' = [registry EXCEPT ![ctx[c]] = c]
  /\ UNCHANGED <<ctx, reach, conf, refs, stray>>

\* configure(): a configuration that was freed is NULL, for which libtls takes
\* its own.
Configure(c, k) ==
  /\ Usable(c) /\ conf[k] # Absent
  /\ Recount(tls[ctx[c]].conf, conf[k])
  /\ tls' = [tls EXCEPT ![ctx[c]].conf = conf[k]]
  /\ UNCHANGED <<ctx, uservalue, registry, reach, conf, stray>>

\* What Ltls___gc() does to a context that is not freed.
Release(c, after) ==
  /\ IF Live(c)
     THEN /\ registry' = [registry EXCEPT ![ctx[c]] = Nothing]
          /\ Recount(tls[ctx[c]].conf, NULL)
          /\ tls' = [tls EXCEPT ![ctx[c]] = Dead]
     ELSE UNCHANGED <<registry, refs, tls>>
  /\ ctx' = [ctx EXCEPT ![c] = after]

\* close(): while libtls wants to read or write the context stays.
Close(c) == /\ ctx[c] # Absent /\ (c \in reach \/ Pinned(c))
            /\ Release(c, NULL)
            /\ UNCHANGED <<uservalue, reach, conf, stray>>

\* reset() of libtls forgets the callbacks and the configuration.
Reset(c) ==
  /\ Usable(c)
  /\ tls' = [tls EXCEPT ![ctx[c]] = [live |-> TRUE, back |-> NoTable, conf |-> NULL]]
  /\ Recount(tls[ctx[c]].conf, NULL)
  /\ registry' = [registry EXCEPT ![ctx[c]] = Nothing]
  /\ uservalue' = [uservalue EXCEPT ![c] = NoTable]
  /\ UNCHANGED <<ctx, reach, conf, stray>>

Drop(c) == /\ reach' = reach \ {c}
           /\ c \in reach
           /\ UNCHANGED <<ctx, uservalue, registry, tls, conf, refs, stray>>

Collect(c) == /\ ctx[c] # Absent /\ c \notin reach /\ ~ Pinned(c)
              /\ Release(c, Absent)
              /\ uservalue' = [uservalue EXCEPT ![c] = NoTable]
              /\ UNCHANGED <<reach, conf, stray>>

\* Every other method of a context that was closed: read(), write(), error(),
\* reset(), conn_...(), peer_...().
StrayCtx(c) == /\ ctx[c] = NULL /\ c \in reach
               /\ stray' = TRUE
               /\ UNCHANGED <<ctxVars, conf, refs>>
-----------------------------------------------------------------------------
(* Configurations.                                                         *)

Config(k) == /\ conf[k] = Absent
             /\ \E q \in UnusedConf : conf' = [conf EXCEPT ![k] = q] /\ Recount(NULL, q)
             /\ UNCHANGED <<ctxVars, stray>>

\* free(), and the collector.
ConfFree(k, after) == /\ conf[k] # Absent
                      /\ Recount(conf[k], NULL)
                      /\ conf' = [conf EXCEPT ![k] = after]
                      /\ UNCHANGED <<ctxVars, stray>>

\* The methods of a configuration that was freed.
StrayConf(k) == /\ conf[k] = NULL
                /\ stray' = TRUE
                /\ UNCHANGED <<ctxVars, conf, refs>>

Next == /\ ~ stray
        /\ \/ \E c \in Ctx : \/ Client(c) \/ Close(c) \/ Reset(c) \/ Drop(c) \/ Collect(c) \/ StrayCtx(c)
                             \/ \E k \in Conf : Configure(c, k)
                             \/ \E calls \in Calls : ConnectCbs(c, calls)
                             \/ \E s \in Ctx : \/ AcceptFds(s, c)
                                               \/ \E calls \in Calls : AcceptCbs(s, c, calls)
           \/ \E k \in Conf : Config(k) \/ ConfFree(k, NULL) \/ ConfFree(k, Absent) \/ StrayConf(k)

Spec == Init /\ [][Next]_vars
-----------------------------------------------------------------------------
TypeOK == /\ ctx \in [Ctx -> Ptr \cup {NULL, Absent}]
          /\ \A c \in Ctx : uservalue[c]._ctx \in {c, Nothing} /\ uservalue[c].calls \in Calls \cup {Nothing}
          /\ registry \in [Ptr -> Ctx \cup {Nothing}]
          /\ conf \in [Conf -> Cptr \cup {NULL, Absent}]

\* libtls finds the functions of the connection it works on by the address, as
\* long as it may call them, and never those of a connection that had the same
\* address before.
RightCallback == \A p \in Ptr :
  IF registry[p] = Nothing THEN tls[p].back = NoTable
  ELSE /\ tls[p].live /\ ctx[registry[p]] = p
       /\ uservalue[registry[p]] = tls[p].back

\* Every struct tls has one userdata that frees it.  A context with callbacks
\* keeps itself: unless it is closed or reset it stays although nobody has it.
StructsOwned ==
  /\ \A p \in Ptr : tls[p].live <=> \E c \in Ctx : ctx[c] = p
  /\ \A c, d \in Ctx : Live(c) /\ ctx[c] = ctx[d] => c = d
  /\ \A c \in Ctx : Pinned(c) => Live(c) /\ tls[ctx[c]].back # NoTable

\* A configuration is freed when nobody uses it, and not before.
ConfsCounted ==
  \A q \in Cptr : refs[q] = Cardinality({k \in Conf : conf[k] = q})
                              + Cardinality({p \in Ptr : tls[p].conf = q})

\* None is freed twice or while it is used, none is left over.
Owned == StructsOwned /\ ConfsCounted
=============================================================================
