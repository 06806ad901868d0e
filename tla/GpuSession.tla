----------------------------- MODULE GpuSession -----------------------------
(***************************************************************************)
(* What NVPlay promises the owner of the graphics card: it either refuses  *)
(* to run and has not touched the clocks, or it finds the card, uses it,   *)
(* and gives the clocks back as they were at boot, on the families for     *)
(* which it knows how.  A session that is killed gives nothing back.       *)
(***************************************************************************)
CONSTANTS
  Clocks,   (* what the clock selection register may hold *)
  Boot      (* what it holds at boot                      *)

VARIABLES
  phase,    (* "out" before a card is found, "in", or how the session ended *)
  returns,  (* the family found has its clocks given back                   *)
  clock

vars == <<phase, returns, clock>>

Init == phase = "out" /\ returns = FALSE /\ clock = Boot

Find ==
  /\ phase = "out"
  /\ phase' = "in"
  /\ returns' \in BOOLEAN
  /\ UNCHANGED clock

Use ==
  /\ phase = "in"
  /\ clock' \in Clocks
  /\ UNCHANGED <<phase, returns>>

Refuse ==
  /\ phase = "out"
  /\ phase' = "refused"
  /\ UNCHANGED <<returns, clock>>

Finish ==
  /\ phase = "in"
  /\ phase' = "finished"
  /\ clock' = IF returns THEN Boot ELSE clock
  /\ UNCHANGED returns

(* The end comes at any point, also just after the clocks were given back. *)
Die ==
  /\ phase \in {"out", "in"}
  /\ phase' = "killed"
  /\ clock' \in {clock} \cup (IF returns THEN {Boot} ELSE {})
  /\ UNCHANGED returns

Next == Find \/ Use \/ Refuse \/ Finish \/ Die

Spec == Init /\ [][Next]_vars
=============================================================================
