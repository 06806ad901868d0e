----------------------------- MODULE MCCommands -----------------------------
(* Numbers to type at the commands: below zero, on and beside the limits   *)
(* of the apertures, unaligned ones, and one that strtol clamps.           *)
EXTENDS Commands

SomeTyped == {-3, 0, 3, 15, 16, 30, 200}

=============================================================================
