-------------------------------- MODULE Wrap ---------------------------------
(***************************************************************************)
(* strcore_wrapt() of src/strcore.c: a text is broken into lines of at     *)
(* most `margin' glyphs.  A character is known by its place in the text    *)
(* and its class; how many bytes it takes is left to charsmatch().  A line *)
(* is the set of the places it has, which it has in the order of the text. *)
(***************************************************************************)
EXTENDS Naturals, Sequences, FiniteSets

CONSTANTS Texts,   \* the texts to wrap, as the classes of their characters
          Margins,
          NoMark   \* dobreak is false

Classes == {"BAD", "SPACE", "COMBINING", "SHY", "HYPHEN", "RESET", "CHAR"}

\* With a margin of 0 the first glyph is put off to the next line for ever.
ASSUME WrapAssumption == /\ Texts \subseteq Seq(Classes) /\ Margins \subseteq Nat \ {0}
                         /\ NoMark \notin [at : Nat, resume : Nat]

VARIABLES text, margin,
          i,       \* the place looked at
          front,   \* where the line begins
          cnt,     \* glyphs in it
          mark,    \* where it may be broken, and where the next one begins then
          lines,
          wrapped  \* "no", "yes", or "error"

wrapVars == <<text, margin, i, front, cnt, mark, lines, wrapped>>

Mark(breakhere, resume) == [at |-> breakhere, resume |-> resume]

WrapTypeOK ==
  /\ text \in Texts /\ margin \in Margins
  /\ {i, front} \subseteq 1 .. Len(text) + 1
  /\ cnt \in 0 .. margin
  /\ mark = NoMark \/ mark \in [at : 1 .. Len(text) + 1, resume : 2 .. Len(text) + 1]
  /\ lines \in Seq(SUBSET DOMAIN text)
  /\ wrapped \in {"no", "yes", "error"}

WrapInit == /\ text \in Texts /\ margin \in Margins
            /\ i = 1 /\ front = 1 /\ cnt = 0 /\ mark = NoMark
            /\ lines = << >> /\ wrapped = "no"
-----------------------------------------------------------------------------
Glyph(k) == text[k] \in {"SPACE", "HYPHEN", "CHAR"}

\* remshy(): soft hyphens are left out, but for one at the end.
RemShy(from, to) == {k \in from .. to - 1 : text[k] # "SHY" \/ k = to - 1}

\* As Here, with the character that does not fit taken for a space.
PastHere == Mark(i, i + 1)

\* Where a line is broken if there was no place for it.
Here == Mark(i, i)

\* As BreakLine, with the old place still marked.
BreakLineAgain(m) ==
  LET break == IF m = NoMark THEN Here ELSE m
  IN /\ lines' = Append(lines, RemShy(front, break.at))
     /\ front' = break.resume /\ i' = break.resume
     /\ cnt' = 0 /\ mark' = m

\* What is past the margin goes to the next line, from the last place at which
\* there may be a break.
BreakLine(m) ==
  LET break == IF m = NoMark THEN Here ELSE m
  IN /\ lines' = Append(lines, RemShy(front, break.at))
     /\ front' = break.resume /\ i' = break.resume
     /\ cnt' = 0 /\ mark' = NoMark

GoOn(m, glyphs) == /\ i' = i + 1
                   /\ cnt' = glyphs /\ mark' = m
                   /\ UNCHANGED <<front, lines>>

\* As Advance, with one glyph too many.
AdvanceLate(m, glyphs) == IF glyphs > margin + 1 THEN BreakLine(m) ELSE GoOn(m, glyphs)

Advance(m, glyphs) == IF glyphs > margin THEN BreakLine(m) ELSE GoOn(m, glyphs)

Looking(class) == /\ wrapped = "no" /\ i <= Len(text) /\ text[i] = class
                  /\ UNCHANGED <<text, margin, wrapped>>

Before == Mark(i, i + 1)
After  == Mark(i + 1, i + 1)

AtSpace == Looking("SPACE") /\ Advance(Before, cnt + 1)

AtCombining == Looking("COMBINING") /\ Advance(mark, cnt)

AtShy == Looking("SHY") /\ Advance(IF cnt < margin THEN After ELSE mark, cnt)

\* As AtHyphen, with a break behind a hyphen that does not fit.
AtAnyHyphen == Looking("HYPHEN") /\ Advance(After, cnt + 1)

AtHyphen == Looking("HYPHEN") /\ Advance(IF cnt < margin THEN After ELSE Before, cnt + 1)

AtReset == Looking("RESET") /\ Advance(Before, margin + 1)

AtChar == Looking("CHAR") /\ Advance(mark, cnt + 1)

AtBad == /\ wrapped = "no" /\ i <= Len(text) /\ text[i] = "BAD"
         /\ wrapped' = "error"
         /\ UNCHANGED <<text, margin, i, front, cnt, mark, lines>>

LastLine == /\ wrapped = "no" /\ i > Len(text)
            /\ lines' = Append(lines, RemShy(front, i))
            /\ wrapped' = "yes"
            /\ UNCHANGED <<text, margin, i, front, cnt, mark>>

WrapNext == \/ AtSpace \/ AtCombining \/ AtShy \/ AtHyphen \/ AtReset \/ AtChar
            \/ AtBad \/ LastLine

WrapSpec == WrapInit /\ [][WrapNext]_wrapVars
-----------------------------------------------------------------------------
\* No line has more glyphs than the margin allows: no break is put off until it
\* is too late, whatever was counted of it before.
LinesFit == \A n \in DOMAIN lines : Cardinality({k \in lines[n] : Glyph(k)}) <= margin

\* What is in a line is before what is in a later one.
LinesInOrder == \A m, n \in DOMAIN lines : m < n => \A j \in lines[m], k \in lines[n] : j < k

Missing == {k \in DOMAIN text : text[k] # "SHY" /\ \A n \in DOMAIN lines : k \notin lines[n]}

\* A new-line character always ends a line and is in none.  Whatever else can be
\* seen of the text is in the lines, once and in order, but for a space or a
\* hyphen for each break.
NothingDropped ==
  wrapped = "yes" =>
     /\ LinesInOrder
     /\ \A k \in Missing : text[k] \in {"SPACE", "HYPHEN", "RESET"}
     /\ Cardinality(Missing) < Len(lines)
     /\ \A k \in DOMAIN text : text[k] = "RESET" =>
           \A n \in DOMAIN lines : \A j, l \in lines[n] : j # k /\ (j < k <=> l < k)

\* The loop goes back in the text, to where a line was broken, but never to one
\* that was begun before: it ends.
ProgressStep == wrapped' = "no" => front' > front \/ (front' = front /\ i' > i)

Progress == [][ProgressStep]_wrapVars
-----------------------------------------------------------------------------
(* What is inductive.                                                       *)

\* What there is of the line: no glyph too many, no new-line character.
LineSoFar == /\ front <= i
             /\ cnt = Cardinality({k \in front .. i - 1 : Glyph(k)})
             /\ \A k \in front .. i - 1 : text[k] # "RESET"

\* A place in it behind which the text may go on, without what is there or not.
Breakable(m) == /\ m.resume \in front + 1 .. i
                /\ m.at = m.resume \/ (m.at + 1 = m.resume /\ text[m.at] = "SPACE")

MarkInLine == mark # NoMark => Breakable(mark)

\* The lines there are have what is before it, ...
LinesBefore == \A n \in DOMAIN lines : lines[n] \subseteq 1 .. front - 1

\* ... but for what each of them was broken at, ...
Gone == {k \in 1 .. front - 1 : text[k] # "SHY" /\ \A n \in DOMAIN lines : k \notin lines[n]}

FewGone == /\ \A k \in Gone : text[k] \in {"SPACE", "HYPHEN", "RESET"}
           /\ Cardinality(Gone) <= Len(lines)

\* ... and none has what is before and what is behind a new-line character.
ResetsBreak == \A k \in 1 .. front - 1 : text[k] = "RESET" =>
                  \A n \in DOMAIN lines : \A j, l \in lines[n] : j # k /\ (j < k <=> l < k)

Partial == LineSoFar /\ MarkInLine /\ LinesBefore /\ LinesInOrder /\ FewGone /\ ResetsBreak

WrapIInv == /\ WrapTypeOK /\ LinesFit /\ NothingDropped
            /\ wrapped # "yes" => Partial
=============================================================================
