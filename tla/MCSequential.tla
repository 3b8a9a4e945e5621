---------------------------- MODULE MCSequential -----------------------------
(* The parts that nothing interrupts, on small instances of which the       *)
(* initial state chooses one: the queue of timers, wrapping of text, base64 *)
(* and the shift register.                                                  *)
EXTENDS TimeoutQueue, Wrap, Base64, TLC

CONSTANTS Part,       \* which parts there are
          Registers

VARIABLES part, bits, seed, lfsr, steps

Strings(S, lengths) == UNION {[1 .. n -> S] : n \in lengths}

\* Four characters leave a line of two, a break in the next and a rest.
ShortTexts == Strings({"SPACE", "COMBINING", "SHY", "HYPHEN", "RESET", "CHAR"}, {0, 1, 4})
                \cup {<<"CHAR", "BAD">>}

\* The bytes have ones and zeros at either end; six of them fill a line.  68 is
\* behind the table by four of the five bytes that the compiler adds to it.
ManyOptions   == [pad : BOOLEAN, ignore : BOOLEAN, strict : BOOLEAN, len : {8, NoLimit}]
ShortMessages == Strings({106, 255}, {0, 1, 2, 6, 7})
ShortForeign  == Strings({1, 16, 64, 67}, {2, 4})

SmallRegisters ==
  {[bits |-> 8, seed |-> 1], [bits |-> 8, seed |-> 512], [bits |-> 16, seed |-> 1]}

Shift == INSTANCE Lfsr

ASSUME Assumptions == Shift!LfsrAssumption

lfsrVars   == <<bits, seed, lfsr, steps>>
allVars    == <<vars, part, wrapVars, base64Vars, lfsrVars>>

NoText == /\ text = << >> /\ margin = 1 /\ i = 1 /\ front = 1 /\ cnt = 0
          /\ mark = NoMark /\ lines = <<{}>> /\ wrapped = "yes"
NoMessage == /\ options = [pad |-> TRUE, ignore |-> TRUE, strict |-> TRUE, len |-> 8]
             /\ message = << >> /\ coded = << >> /\ given = FALSE
             /\ size = 0 /\ len = 0
             /\ pos = 1 /\ quad = << >> /\ skip = 0 /\ out = << >> /\ ended = "ok"
NoRegister == bits = 8 /\ seed = 1 /\ lfsr = 1 /\ steps = 0

MCInit == /\ part \in Part
          /\ Init
          /\ IF part = "wrap"   THEN WrapInit ELSE NoText
          /\ IF part = "base64" THEN Base64Init ELSE NoMessage
          /\ IF part = "lfsr"   THEN Shift!Init ELSE NoRegister

Queue    == part = "queue"  /\ Next   /\ UNCHANGED <<part, wrapVars, base64Vars, lfsrVars>>
Wrapping == part = "wrap"   /\ WrapNext /\ UNCHANGED <<part, vars, base64Vars, lfsrVars>>
Decoding == part = "base64" /\ Base64Next /\ UNCHANGED <<part, vars, wrapVars, lfsrVars>>
Shifting == part = "lfsr"   /\ Shift!Next /\ UNCHANGED <<part, vars, wrapVars, base64Vars>>

MCNext == Queue \/ Wrapping \/ Decoding \/ Shifting

MCSpec == MCInit /\ [][MCNext]_allVars

\* The identities of the entries are interchangeable.
InfoSymmetry == Permutations(Info)
-----------------------------------------------------------------------------
\* See the modules for what these say.  The types of the part there is.
TypesOK == /\ part = "wrap"   => WrapTypeOK
           /\ part = "base64" => Base64TypeOK
           /\ part = "lfsr"   => Shift!TypeOK

\* The register goes through all sequences of bits.
Period == Shift!Period
=============================================================================
