-------------------------------- MODULE Hal ---------------------------------
(***************************************************************************)
(* The hardware abstraction table of nv_generic_hal.c: which functions     *)
(* each GPU family provides.  Dump functions are left to the dump modules. *)
(***************************************************************************)

Hals == {"nv1", "nv3", "nv4", "celsius", "virge", "alpine"}

HasShutdown   == {"nv4", "celsius", "virge", "alpine"}
HasFifoInit   == {"nv4"}
HasGraphInit  == {"nv4"}
HasGraphReset == {"nv4"}

(* What the init and shutdown functions do to PRAMDAC_(PLL_)COEFF_SELECT,  *)
(* the register that says whether the clocks are the ones the BIOS         *)
(* programmed: three families switch it over, two of them save it first    *)
(* and write the saved value back when they shut down.                     *)
SwitchesClocks == {"nv3", "nv4", "celsius"}
SavesClocks    == {"nv4", "celsius"}
=============================================================================
