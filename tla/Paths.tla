-------------------------------- MODULE Paths --------------------------------
(***************************************************************************)
(* The functions of src/fsys.c that take a path apart, and the one that    *)
(* makes a name of anything.  A path is a sequence of characters.          *)
(***************************************************************************)
EXTENDS Integers, Sequences

CONSTANT Names   \* paths to begin with

Char == {".", "/", "%", "2", "F", "5"}

PathsAssumption == Names \subseteq Seq(Char)

VARIABLES path,    \* what the program has
          whole    \* what it took it from

vars == <<path, whole>>

\* strrchr(), or 0.
strrchr(name, c) == LET at == {k \in DOMAIN name : name[k] = c}
                    IN CHOOSE k \in at \cup {0} : \A j \in at : j <= k

From(name, k) == SubSeq(name, k, Len(name))

basename(name) == From(name, strrchr(name, "/") + 1)

dirname(name) == IF strrchr(name, "/") = 0 THEN <<".">>
                 ELSE SubSeq(name, 1, strrchr(name, "/") - 1)

\* A dot in the last segment; a NULL is before all pointers.
HasDot(name) == strrchr(name, ".") > strrchr(name, "/")

extension(name) == IF HasDot(name) THEN From(name, strrchr(name, ".") + 1) ELSE << >>

filename(name) == IF HasDot(name) THEN SubSeq(name, 1, strrchr(name, ".") - 1) ELSE name

\* What is in two sets of characters is replaced by its number.
Escape(c) == CASE c = "/" -> <<"%", "2", "F">>
               [] c = "%" -> <<"%", "2", "5">>
               [] OTHER -> <<c>>

_safename(name) ==
  LET safe[k \in 0 .. Len(name)] == IF k = 0 THEN << >> ELSE safe[k - 1] \o Escape(name[k])
  IN safe[Len(name)]
-----------------------------------------------------------------------------
Init == path \in Names /\ whole = path

\* The program goes on with a part of what it has.
Next == /\ whole' = path
        /\ path' \in {basename(path), dirname(path), extension(path), filename(path)}
        /\ path' # path

Spec == Init /\ [][Next]_vars
-----------------------------------------------------------------------------
TypeOK == path \in Seq(Char) /\ whole \in Seq(Char)

\* A path with a slash in it can be put together again from its parts, as
\* src/fsys.c:666-673 says, and so can a name with a dot in its last segment,
\* whatever dots and slashes are elsewhere; a part of a part is no longer than
\* what it came from.  What is safe is one segment, and no two names are the
\* same when they are safe.
PartsJoin ==
  /\ strrchr(path, "/") # 0 => dirname(path) \o <<"/">> \o basename(path) = path
  /\ IF HasDot(path) THEN filename(path) \o <<".">> \o extension(path) = path
     ELSE filename(path) = path
  /\ basename(path) = basename(filename(path)) \o From(path, Len(filename(path)) + 1)
  /\ Len(path) <= Len(whole) \/ path = <<".">>
  /\ \A k \in DOMAIN _safename(path) : _safename(path)[k] # "/"
  /\ \A name \in Names : _safename(name) = _safename(path) => name = path
=============================================================================
