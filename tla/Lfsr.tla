-------------------------------- MODULE Lfsr ---------------------------------
(***************************************************************************)
(* src/lfsr.c: a register that shifts its bits out at the right and turns  *)
(* the bits of `taps' over whenever a 1 leaves.                            *)
(***************************************************************************)
EXTENDS Naturals

CONSTANT Registers  \* of width 8 or 16 (the next, 32, is beyond enumeration) and a
                    \* seed other than 0, instead of which a random one is taken

\* A seed may have more bits than the register.
LfsrAssumption == Registers \subseteq [bits : {8, 16}, seed : Nat \ {0}]

VARIABLES bits, seed, lfsr,
          steps    \* how often it was called since it was seeded

vars == <<bits, seed, lfsr, steps>>

\* The mask.
Bits(width) == IF width = 8 THEN 255 ELSE 65535

TypeOK == /\ [bits |-> bits, seed |-> seed] \in Registers
          /\ lfsr \in 0 .. Bits(bits) \cup {seed}
          /\ steps \in 0 .. Bits(bits) - 1

\* The taps of the wider register for both.
OneTaps(width) == <<32768, 8192, 4096, 1024>>

\* The bits of 0xB4 and 0xB400.
Taps(width) == IF width = 8 THEN <<128, 32, 16, 4>> ELSE <<32768, 8192, 4096, 1024>>

Init == /\ \E r \in Registers : bits = r.bits /\ seed = r.seed
        /\ lfsr = seed /\ steps = 0

\* n ^ bit.
Turned(n, bit) == IF (n \div bit) % 2 = 1 THEN n - bit ELSE n + bit

Shifted == LET taps == Taps(bits)
           IN IF lfsr % 2 = 0 THEN lfsr \div 2
              ELSE Turned(Turned(Turned(Turned(lfsr \div 2, taps[1]), taps[2]), taps[3]), taps[4])

\* `steps' starts again with the period that is to be.
Next == /\ lfsr' = Shifted % (Bits(bits) + 1)
        /\ steps' = (steps + 1) % Bits(bits)
        /\ UNCHANGED <<bits, seed>>

Spec == Init /\ [][Next]_vars
-----------------------------------------------------------------------------
\* The head of src/lfsr.c: "All sequence of bits between 1 and 2^bits are
\* generated".  From a seed that fits, the register comes back to where it
\* started after as many steps as there are sequences other than 0, and not
\* before.  (From one that does not it may go to 0 and stay there.)
Period == seed <= Bits(bits) => (lfsr = seed <=> steps = 0)
=============================================================================
