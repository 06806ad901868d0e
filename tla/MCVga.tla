-------------------------------- MODULE MCVga -------------------------------
(* Four bits of everything: indexes and values of two bits, range ends of  *)
(* four.  The ports are those at which a wide access meets an index and a  *)
(* data port, the attribute port, or the flip-flop's reset.                *)
EXTENDS Vga

SomeLastIndex == [g \in Groups |-> IF g = "crtc" THEN 2 ELSE 1]
SomeOperands  == {0, 1, 2, 15}
SomePorts     == {960, 962, 964, 980, 986}

=============================================================================
