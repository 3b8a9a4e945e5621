-------------------------------- MODULE Ios ---------------------------------
(***************************************************************************)
(* The buffers of lua/net/ios.lua.  A stream is a sequence of bytes, each  *)
(* of which is known by its position: readbuf holds positions of the bytes *)
(* that came in and are not read yet.  What a byte is, a CR, an LF or any  *)
(* other, is given by a function of the positions.                         *)
(*                                                                         *)
(* A reader of a format looks at the buffer and either has its data, or    *)
(* asks for more and starts again: Try() is one such look.                 *)
(***************************************************************************)
EXTENDS Naturals, Sequences, FiniteSetsExt

CONSTANTS Is,     \* what each byte of the stream that is read is: "cr", "lf" or "x"
          IsOut,  \* the same for the stream that is written
          Nil

Take(s, n) == SubSeq(s, 1, n)
Drop(s, n) == SubSeq(s, n + 1, Len(s))

\* string.find() of a byte in `kinds', and of "\r?\n", from rpos on; 0 for none.
FirstOf(S) == IF S = {} THEN 0 ELSE Min(S)
FindByte(buf, kinds, rpos) ==
  FirstOf({k \in DOMAIN buf : k >= rpos /\ Is[buf[k]] \in kinds})
EndOfLine(buf, k) ==
  IF Is[buf[k]] = "lf" THEN k
  ELSE IF Is[buf[k]] = "cr" /\ k < Len(buf) /\ Is[buf[k + 1]] = "lf" THEN k + 1 ELSE 0
FindLine(buf, from) == FirstOf({k \in DOMAIN buf : k >= from /\ EndOfLine(buf, k) # 0})

\* What a look at the buffer comes to: `data' is returned to the caller, the
\* bytes of `used' have left the buffer.
Found(data, used, buf, rpos) ==
  [more |-> FALSE, data |-> data, used |-> used, buf |-> buf, rpos |-> rpos]
More(buf, rpos) == [more |-> TRUE, data |-> Nil, used |-> << >>, buf |-> buf, rpos |-> rpos]

Bytes(buf) == IF buf = Nil THEN << >> ELSE buf

\* At the end of the stream the readers return what there is, then nil.
TakeAll(buf, rpos) == Found(buf, Bytes(buf), Nil, rpos)

FarBehind(buf) == Len(buf) + 2

JustBehind(buf) == Len(buf) + 1

\* '*l': a line without its end.
TryLine(buf, rpos) ==
  LET s == FindByte(buf, {"cr", "lf"}, rpos)
      s2 == FindLine(buf, s)
      e2 == EndOfLine(buf, s2)
  IN CASE s = 0 -> More(buf, JustBehind(buf))
       [] s # 0 /\ s2 = 0 -> More(buf, rpos)
       [] OTHER -> Found(Take(buf, s2 - 1), Take(buf, e2), Drop(buf, e2), 1)

\* A number of bytes; fewer at the end of the stream.
TryBytes(n, buf, rpos, eof) ==
  IF eof /\ Bytes(buf) = << >> THEN Found(Nil, << >>, Nil, rpos)
  ELSE IF Len(buf) >= n THEN Found(Take(buf, n), Take(buf, n), Drop(buf, n), rpos)
  ELSE IF eof THEN Found(buf, buf, << >>, rpos)
  ELSE More(buf, rpos)

KeepBlock(buf) == Found(buf, buf, buf, 1)

TakeBlock(buf) == Found(buf, buf, << >>, 1)

\* '*b': whatever there is, once it was tried to have something.
TryBlock(buf, rpos, tried) ==
  IF buf = << >> /\ ~ tried THEN More(buf, rpos) ELSE TakeBlock(buf)

\* `tried' says whether this call has been given something already.  '*a' then
\* goes on until it is given nil, which its callers see to themselves.
Try(format, buf, rpos, eof, tried) ==
  CASE format.kind = "bytes" -> TryBytes(format.n, buf, rpos, eof)
    [] format.kind = "line"  -> IF eof THEN TakeAll(buf, rpos) ELSE TryLine(buf, rpos)
    [] format.kind = "block" -> IF eof /\ ~ tried THEN TakeAll(buf, rpos)
                                ELSE TryBlock(buf, rpos, tried)
    [] format.kind = "all"   -> IF eof /\ ~ tried THEN TakeAll(buf, rpos) ELSE More(buf, rpos)
-----------------------------------------------------------------------------
\* The pieces in which write() and flush() hand the buffer to _drain(): up to a
\* newline, the size of the buffer, or all of it; Nil if there is no need to.
NewLine(buf) == FirstOf({k \in DOMAIN buf : IsOut[buf[k]] = "lf"})

Piece(mode, wsize, buf) ==
  CASE mode = "no" -> buf
    [] mode = "line" /\ NewLine(buf) # 0 -> Take(buf, NewLine(buf))
    [] mode = "full" \/ (mode = "line" /\ NewLine(buf) = 0) ->
         IF Len(buf) >= wsize THEN Take(buf, wsize) ELSE Nil
=============================================================================
