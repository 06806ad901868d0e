---------------------------- MODULE RegisterFile ----------------------------
(***************************************************************************)
(* What the card's VGA registers promise to whoever uses a register        *)
(* command: named groups of byte registers, read and written one at a      *)
(* time.  A write sets the register it names and no other; a read answers  *)
(* with the register it names and changes none.  Between the two nothing   *)
(* changes, unless somebody works on the registers directly.               *)
(***************************************************************************)
EXTENDS Integers

CONSTANTS Groups, Indexes, Bytes

VARIABLES
  file,   (* the registers                                                  *)
  done    (* the operation that has just been completed                     *)

Quiet  == [kind |-> "quiet"]    (* none: one may be on its way              *)
Direct == [kind |-> "direct"]   (* none that anything is promised about     *)

Operations ==
  [kind : {"write", "read"}, group : Groups, index : Indexes, value : Bytes]

Init ==
  /\ file \in [Groups -> [Indexes -> Bytes]]
  /\ done = Quiet

Write(o) ==
  /\ o.kind = "write" /\ done' = o
  /\ file' = [file EXCEPT ![o.group][o.index] = o.value]

Read(o) ==
  /\ o.kind = "read" /\ done' = o
  /\ o.value = file[o.group][o.index]
  /\ UNCHANGED file

Rest == done' = Quiet /\ UNCHANGED file

(* Two groups are never disturbed at once.                                 *)
DirectAccess ==
  /\ done' = Direct
  /\ \E g \in Groups, i \in Indexes, b \in Bytes :
       file' = [file EXCEPT ![g][i] = b]

Next ==
  \/ \E o \in Operations : Write(o) \/ Read(o)
  \/ Rest
  \/ DirectAccess

Spec == Init /\ [][Next]_<<file, done>>

=============================================================================
