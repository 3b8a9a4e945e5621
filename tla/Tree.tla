-------------------------------- MODULE Tree ---------------------------------
(***************************************************************************)
(* Names and permissions: the functions of src/fsys.c that make, change    *)
(* and look at what is in the file system, and umask().  The program writes *)
(* permissions as text, in one of three forms; here a mode is the set of   *)
(* the places its letters have in the longest, "ugsrwxrwxrwx".  What the   *)
(* kernel does with names, inodes and modes is external.                   *)
(***************************************************************************)
EXTENDS Integers, Sequences, FiniteSets

CONSTANTS Name,     \* names, all in one directory
          Ino,      \* bound: inodes
          Modes,    \* modes the program uses
          MaxLinks  \* links the kernel follows, 40

TreeAssumption == /\ "nil" \notin Name /\ MaxLinks \in Nat
                  /\ Ino \subseteq Nat \ {0}
                  /\ \A mode \in Modes : mode \subseteq 1 .. 12

VARIABLES names,   \* the inode of a name, or 0
          inode,   \* [type, perms, to]
          meant,   \* the permissions the program meant the inode to have
          mask,    \* the umask, as the permissions that it takes away
          before,  \* the mask before the last umask()
          shown    \* and what that returned

vars == <<names, inode, meant, mask, before, shown>>

Free == [type |-> "free", perms |-> {}, to |-> "nowhere"]

Letters == <<"u", "g", "s", "r", "w", "x", "r", "w", "x", "r", "w", "x">>
Permissions == 4 .. 12
Open0666 == {4, 5, 7, 8, 10, 11}
Open0664 == Open0666 \ {11}
Open0777 == Permissions

pushperm(mode) == [k \in 1 .. 12 |-> IF k \in mode THEN Letters[k] ELSE "-"]

Nine(rest) == {k \in Permissions : rest[k - 3] = Letters[k]}

\* Three letters are for everybody, and nine or twelve for each; of other numbers
\* from nine on the first nine count, of smaller ones none.
checkmode(txt, def) ==
  CASE txt = << >> -> def
    [] Len(txt) = 3  -> {k \in Permissions : txt[((k - 4) % 3) + 1] = Letters[k]}
    [] Len(txt) = 12 -> {k \in 1 .. 3 : txt[k] = Letters[k]} \cup Nine(SubSeq(txt, 4, 12))
    [] Len(txt) \in {9, 10, 11} \/ Len(txt) > 12 -> Nine(txt)
    [] OTHER -> {}

\* How a program may write a mode: in the shortest form there is for it, or with
\* the letters that lstat() would show.
Uniform == UNION {{{k \in Permissions : (k - 4) % 3 \in some}} : some \in SUBSET (0 .. 2)}
Texts(mode) ==
  {pushperm(mode)}
    \cup (IF mode \subseteq Permissions THEN {SubSeq(pushperm(mode), 4, 12)} ELSE {})
    \cup (IF mode \in Uniform THEN {SubSeq(pushperm(mode), 4, 6)} ELSE {})

\* What the program passes, and what it means by it.
Requests(def) == {[txt |-> << >>, mode |-> def]}
                   \cup UNION {{[txt |-> txt, mode |-> mode] : txt \in Texts(mode)} : mode \in Modes}
-----------------------------------------------------------------------------
Unused == {i \in Ino : inode[i].type = "free"}
Exists(n) == names[n] # 0
NamesOf(i) == {n \in Name : names[n] = i}

\* The inode behind as many links, or 0: the kernel gives up when there are more.
Behind[links \in 0 .. MaxLinks] ==
  [m \in Name |-> IF names[m] = 0 THEN 0
                  ELSE IF inode[names[m]].type # "link" THEN names[m]
                  ELSE IF links = 0 THEN 0
                  ELSE Behind[links - 1][inode[names[m]].to]]

Resolved(n) == Behind[MaxLinks][n]

\* mkdir() knows of the sticky bit only.
Kept(type, mode) == IF type = "dir" THEN mode \ {1, 2} ELSE mode

Make(n, type, perms, to, wish) ==
  /\ ~ Exists(n)
  /\ \E i \in Unused :
        /\ \A j \in Unused : i <= j
        /\ names' = [names EXCEPT ![n] = i]
        /\ inode' = [inode EXCEPT ![i] = [type |-> type, perms |-> perms, to |-> to]]
        /\ meant' = [meant EXCEPT ![i] = wish]
  /\ UNCHANGED <<mask, before, shown>>
-----------------------------------------------------------------------------
Init == /\ names = [n \in Name |-> 0]
        /\ inode = [i \in Ino |-> Free]
        /\ meant = [i \in Ino |-> {}]
        /\ mask \in {Permissions \ mode : mode \in Modes}
        /\ before = mask /\ shown = pushperm(Permissions \ mask)

\* A failing call changes nothing and is told by errno; see Files.
Mkdir(n) == \E ask \in Requests(Open0777) :
  Make(n, "dir", Kept("dir", checkmode(ask.txt, Open0777)) \ mask, "nowhere", Kept("dir", ask.mode) \ mask)

Mkfifo(n) == \E ask \in Requests(Open0666) :
  Make(n, "pipe", checkmode(ask.txt, Open0666) \ mask, "nowhere", ask.mode \ mask)

Symlink(old, new) == Make(new, "link", Permissions, old, Permissions)

Link(old, new) == /\ Exists(old) /\ ~ Exists(new)
                  /\ inode[names[old]].type # "dir"
                  /\ names' = [names EXCEPT ![new] = names[old]]
                  /\ UNCHANGED <<inode, meant, mask, before, shown>>

Rmdir(n) == /\ Exists(n) /\ inode[names[n]].type = "dir"
            /\ inode' = [inode EXCEPT ![names[n]] = Free]
            /\ meant' = [meant EXCEPT ![names[n]] = {}]
            /\ names' = [names EXCEPT ![n] = 0]
            /\ UNCHANGED <<mask, before, shown>>

\* chmod() of a name and of an open file, which have other defaults.
Chmod(n, def) == /\ Resolved(n) # 0
                 /\ \E ask \in Requests(def) :
                       /\ inode' = [inode EXCEPT ![Resolved(n)].perms = checkmode(ask.txt, def)]
                       /\ meant' = [meant EXCEPT ![Resolved(n)] = ask.mode]
                 /\ UNCHANGED <<names, mask, before, shown>>

\* The program speaks of what is allowed and the kernel of what is not.  Without
\* an argument everything is allowed from then on.
Umask(ask) == /\ mask' = Permissions \ checkmode(ask.txt, Open0777)
              /\ shown' = pushperm(Permissions \ mask)
              /\ before' = mask
              /\ UNCHANGED <<names, inode, meant>>

Next == \/ \E n \in Name : Mkdir(n) \/ Mkfifo(n) \/ Rmdir(n)
                             \/ Chmod(n, Open0666) \/ Chmod(n, Open0664)
        \/ \E old, new \in Name : Symlink(old, new) \/ Link(old, new)
        \/ \E ask \in Requests(Open0777) : Umask(ask)

Spec == Init /\ [][Next]_vars
-----------------------------------------------------------------------------
\* What the program sees: [perms, type, ...] or nil.
Absent == [perms |-> << >>, type |-> "nil", nlink |-> 0]
pushstat(i) == IF i = 0 THEN Absent
               ELSE [perms |-> pushperm(inode[i].perms), type |-> inode[i].type,
                     nlink |-> Cardinality(NamesOf(i))]

Stat(n) == pushstat(Resolved(n))
Lstat(n) == pushstat(names[n])
Readlink(n) == IF Lstat(n).type = "link" THEN inode[names[n]].to ELSE "nil"

TypeOK == /\ names \in [Name -> Ino \cup {0}]
          /\ \A i \in Ino : inode[i].type = "free" <=> NamesOf(i) = {}
          /\ mask \subseteq Permissions

\* Whatever form the program writes a mode in, what stat() and lstat() show is
\* what it meant: as text, that text can be given back; and what umask() returned
\* puts the mask back that was there before it.
ModesAsMeant ==
  /\ \A n \in Name : Exists(n) => checkmode(Lstat(n).perms, {}) = meant[names[n]]
  /\ \A n \in Name : Resolved(n) # 0 => checkmode(Stat(n).perms, {}) = meant[Resolved(n)]
  /\ Permissions \ checkmode(shown, {}) = before

\* stat() looks behind the link that lstat() and readlink() show.
LinksShown == \A n \in Name :
  /\ Stat(n).type # "link"
  /\ Readlink(n) = "nil" => Stat(n) = Lstat(n)
  /\ Readlink(n) # "nil" => Stat(n) = Stat(Readlink(n)) \/ Stat(n) = Absent
=============================================================================
