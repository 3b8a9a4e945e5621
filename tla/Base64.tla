------------------------------- MODULE Base64 --------------------------------
(***************************************************************************)
(* src/base64.c: an object with its options encodes messages, and decodes  *)
(* what it or somebody else encoded.  A symbol of a text is the number it  *)
(* stands for, or one of four others; a text is over where it ends, as it *)
(* is for strings in C.                                                    *)
(***************************************************************************)
EXTENDS Naturals, Sequences, FiniteSets

CONSTANTS Options,   \* [pad, ignore, strict : BOOLEAN, len], see b64lua()
          NoLimit,   \* len = SIZE_MAX: no line ends
          Messages,  \* what is encoded, and then decoded
          Foreign,   \* what others have encoded
          Behind     \* how far behind the start of the table strchr() finds Stray

Digit == 0 .. 63
PadSymbol == 64
LineEnd == 65
Other == 66
Stray == 67  \* found, if at all, in the memory after the table, which has no end mark
Symbol == 0 .. 67
Byte == 0 .. 255

ASSUME Base64Assumption ==
  /\ \A o \in Options : /\ {o.pad, o.ignore, o.strict} \subseteq BOOLEAN
                        /\ o.len \in Nat
  /\ Messages \subseteq Seq(Byte) /\ Foreign \subseteq Seq(Symbol)
  /\ Behind \in 64 .. 255

VARIABLES options, message, coded,
          given,   \* whether the text comes from others
          size,    \* how much of the message is to be encoded
          len,     \* digits in the line
          pos,     \* data
          quad,    \* buf, as far as it is read
          skip,
          out,
          ended    \* "no", "ok", "error", "refused" in strict mode, or "abort"

base64Vars == <<options, message, coded, given, size, len, pos, quad, skip, out, ended>>

Base64TypeOK ==
  /\ options \in Options /\ message \in Seq(Byte) /\ coded \in Seq(Symbol)
  /\ given \in BOOLEAN
  /\ size \in 0 .. Len(message) /\ len \in Nat
  /\ pos \in 1 .. Len(coded) + 1
  /\ quad \in Seq(Byte) /\ Len(quad) <= 4
  /\ skip \in 0 .. 6
  /\ out \in Seq(Byte)
  /\ ended \in {"no", "ok", "error", "refused", "abort"}

Base64Init == /\ options \in Options
              /\ \/ given = FALSE /\ message \in Messages /\ coded = << >>
                 \/ given = TRUE  /\ message = << >> /\ coded \in Foreign
              /\ size = Len(message) /\ len = 0
              /\ pos = 1 /\ quad = << >> /\ skip = 0 /\ out = << >>
              /\ ended = "no"
-----------------------------------------------------------------------------
(* encode().                                                                *)

Digits(a, b, c) == << a \div 4, (a % 4) * 16 + b \div 16, (b % 16) * 4 + c \div 64, c % 64 >>

\* data[k]
Data(k) == message[Len(message) - size + k + 1]

Encoding == UNCHANGED <<options, message, given, pos, quad, skip, out, ended>>

EncodeGroup == /\ size > 2
               /\ LET digits == Digits(Data(0), Data(1), Data(2))
                      full   == options.len # NoLimit /\ len + 4 >= options.len
                  IN /\ coded' = coded \o IF full THEN Append(digits, LineEnd) ELSE digits
                     /\ len' = IF full THEN 0 ELSE len + 4
               /\ size' = size - 3
               /\ Encoding

Pads(n) == IF options.pad THEN [k \in 1 .. n |-> PadSymbol] ELSE << >>

EncodeRest ==
  /\ \/ /\ size = 1
        /\ coded' = coded \o SubSeq(Digits(Data(0), 0, 0), 1, 2) \o Pads(2)
     \/ /\ size = 2
        /\ coded' = coded \o SubSeq(Digits(Data(0), Data(1), 0), 1, 3) \o Pads(1)
  /\ size' = 0
  /\ UNCHANGED len /\ Encoding
-----------------------------------------------------------------------------
(* decode().                                                                *)

IsPad(k) == options.pad /\ coded[k] = PadSymbol

InTable(k) == coded[k] \in Digit \cup {Stray}

Skipped(k) == /\ ~ InTable(k) /\ ~ IsPad(k)
              /\ options.ignore \/ (options.len # NoLimit /\ coded[k] = LineEnd)

\* Where Ib64_readout() finds something, or that there is nothing more.
Found == CHOOSE k \in pos .. Len(coded) + 1 :
           /\ \A j \in pos .. k - 1 : Skipped(j)
           /\ k <= Len(coded) => ~ Skipped(k)

Readout == /\ size = 0 /\ ended = "no" /\ Len(quad) < 4
           /\ quad = << >> => pos <= Len(coded)
           /\ UNCHANGED <<options, message, coded, given, size, len, out>>

ReadDigit == /\ Readout /\ Found <= Len(coded) /\ InTable(Found)
             /\ quad' = Append(quad, IF coded[Found] = Stray THEN Behind ELSE coded[Found])
             /\ pos' = Found + 1
             /\ UNCHANGED <<skip, ended>>

ReadPad == /\ Readout /\ Found <= Len(coded) /\ IsPad(Found)
           /\ quad' = Append(quad, 0)
           /\ skip' = skip + 1
           /\ pos' = Found + 1
           /\ UNCHANGED ended

\* What is missing at the end is padded; pos stays before what was passed over.
ReadEnd == /\ Readout /\ Found > Len(coded)
           /\ quad' = Append(quad, 0)
           /\ skip' = skip + 1
           /\ UNCHANGED <<pos, ended>>

BadCharacter == /\ Readout /\ Found <= Len(coded) /\ ~ InTable(Found) /\ ~ IsPad(Found)
                /\ ended' = "error"
                /\ UNCHANGED <<pos, quad, skip>>

\* The operator | on bytes.
BitOr(m, n) == LET bit(p) == IF (m \div p) % 2 = 1 \/ (n \div p) % 2 = 1 THEN p ELSE 0
               IN bit(1) + bit(2) + bit(4) + bit(8) + bit(16) + bit(32) + bit(64) + bit(128)

ac == BitOr((quad[1] * 4) % 256, quad[2] \div 16)
bc == BitOr((quad[2] * 16) % 256, quad[3] \div 4)
cc == BitOr((quad[3] * 64) % 256, quad[4])

\* As Extraneous, with the last byte looked at only.
ExtraneousLast == options.strict /\ skip > 0 /\ cc # 0

Extraneous == options.strict /\ \/ skip = 2 /\ (bc # 0 \/ cc # 0)
                                \/ skip = 1 /\ cc # 0

KeepAll == <<ac, bc, cc>>

Kept == SubSeq(<<ac, bc, cc>>, 1, 3 - skip)

Decode == /\ ended = "no" /\ Len(quad) = 4
          /\ CASE skip > 2 -> ended' = "abort" /\ UNCHANGED <<quad, out>>
               [] skip <= 2 /\ Extraneous -> ended' = "refused" /\ UNCHANGED <<quad, out>>
               [] OTHER -> out' = out \o Kept /\ quad' = << >> /\ UNCHANGED ended
          /\ UNCHANGED <<options, message, coded, given, size, len, pos, skip>>

EndOfText == /\ size = 0 /\ ended = "no" /\ quad = << >> /\ pos > Len(coded)
             /\ ended' = "ok"
             /\ UNCHANGED <<options, message, coded, given, size, len, pos, quad, skip, out>>

Base64Next == \/ EncodeGroup \/ EncodeRest
              \/ ReadDigit \/ ReadPad \/ ReadEnd \/ BadCharacter \/ Decode \/ EndOfText

Base64Spec == Base64Init /\ [][Base64Next]_base64Vars
-----------------------------------------------------------------------------
\* The example at the head of src/base64.c: what was encoded is decoded to the
\* same, whatever the options, unless the text ends with a line end.
EndsLine == coded # << >> /\ coded[Len(coded)] = LineEnd

RoundTrip == ~ given /\ ended # "no" => (ended = "ok" /\ out = message) \/ EndsLine

\* What some bytes are encoded to, in one line and with padding.
DigitCount(bytes) == (4 * Len(bytes) + 2) \div 3

DigitOf(bytes, k) ==
  LET at(n) == IF n <= Len(bytes) THEN bytes[n] ELSE 0
      g     == (k - 1) \div 4
  IN Digits(at(3 * g + 1), at(3 * g + 2), at(3 * g + 3))[((k - 1) % 4) + 1]

SymbolOf(bytes, k) == IF k <= DigitCount(bytes) THEN DigitOf(bytes, k) ELSE PadSymbol

PaddedLength(bytes) == 4 * ((Len(bytes) + 2) \div 3)

Canonical(bytes) == [k \in 1 .. PaddedLength(bytes) |-> SymbolOf(bytes, k)]

\* The strict mode refuses what is the encoding of nothing: of the texts that
\* are padded at their end only, one decodes to a message.
Padded == /\ Len(coded) % 4 = 0
          /\ \A k \in DOMAIN coded : coded[k] \in Digit \/ (coded[k] = PadSymbol /\ k > Len(coded) - 2)
          /\ (Len(coded) > 1 /\ coded[Len(coded) - 1] = PadSymbol) => coded[Len(coded)] = PadSymbol

StrictIsCanonical ==
  given /\ options.strict /\ options.pad /\ Padded /\ ended = "ok" => coded = Canonical(out)

\* assert(skip <= 2) in decode().
NeverAborts == ended # "abort"

OwnTextNeverAborts == ~ given => NeverAborts
-----------------------------------------------------------------------------
(* What is inductive.                                                       *)

\* The symbols of a text up to a place, which its line ends are not.
SymbolsIn(s, k) == Cardinality({j \in 1 .. k : s[j] # LineEnd})

\* Its symbols are the first ones of what bytes are encoded to.
Spells(s, bytes) == \A k \in DOMAIN s : s[k] # LineEnd => s[k] = SymbolOf(bytes, SymbolsIn(s, k))

EncodedSoFar ==
  /\ Spells(coded, message)
  /\ (\E k \in DOMAIN coded : coded[k] = LineEnd) => options.len # NoLimit
  /\ size > 0 => (Len(message) - size) % 3 = 0
  /\ SymbolsIn(coded, Len(coded)) =
       IF size > 0 THEN 4 * ((Len(message) - size) \div 3)
       ELSE IF options.pad THEN PaddedLength(message) ELSE DigitCount(message)

\* The bytes decoded are those of the message; a group of digits that is read is the
\* next one, and what is skipped comes behind the last digit.
DecodedPart ==
  LET g == Len(out) \div 3
      n == Len(quad) - skip
  IN /\ Len(out) % 3 = 0 /\ Len(out) <= Len(message)
     /\ \A k \in DOMAIN out : out[k] = message[k]
     /\ skip <= Len(quad)
     /\ 4 * g + n <= DigitCount(message)
     /\ skip > 0 => n > 0 /\ 4 * g + n = DigitCount(message)
     /\ SymbolsIn(coded, pos - 1) = IF options.pad THEN 4 * g + Len(quad) ELSE 4 * g + n
     /\ \A j \in DOMAIN quad : quad[j] = IF j <= n THEN DigitOf(message, 4 * g + j) ELSE 0

DecodedAll == quad = << >> /\ out = message /\ pos = Len(coded) + 1

OwnText == /\ EncodedSoFar
           /\ size > 0 => pos = 1 /\ quad = << >> /\ skip = 0 /\ out = << >> /\ ended = "no"
           /\ size = 0 /\ ~ EndsLine => \/ (ended = "no" /\ (DecodedPart \/ DecodedAll))
                                       \/ (ended = "ok" /\ out = message)

\* Of a padded text, what is decoded is encoded to what was read of it; only in
\* the last group something is skipped.
PadsRead(b, n) == Cardinality({j \in 1 .. n : coded[b + j] = PadSymbol})

StrictPart ==
  LET b == pos - 1 - Len(quad)
  IN /\ pos > Len(quad) /\ b % 4 = 0
     /\ 4 * Len(out) = 3 * b
     /\ \A k \in 1 .. b : coded[k] = DigitOf(out, k)
     /\ skip = PadsRead(b, Len(quad))
     /\ \A j \in DOMAIN quad : quad[j] = IF coded[b + j] = PadSymbol THEN 0 ELSE coded[b + j]

StrictAll == quad = << >> /\ pos = Len(coded) + 1 /\ coded = Canonical(out)

StrictText == options.strict /\ options.pad /\ Padded =>
                /\ ended = "no" => StrictPart \/ StrictAll
                /\ ended = "ok" => coded = Canonical(out)

Base64IInv == /\ Base64TypeOK
              /\ skip <= Len(quad) + 2
              /\ ~ given => OwnText
              /\ given => size = 0 /\ StrictText
=============================================================================
