------------------------------ MODULE Settings ------------------------------
(***************************************************************************)
(* What the users of an ini file expect of it: a map from keys, a section  *)
(* and a name, to texts.  As long as no section and no name stands twice,  *)
(* which only a file or a renaming can bring about, setting, deleting and  *)
(* renaming do to the map what their names say and tidying a section does  *)
(* nothing at all.  Where a name does stand twice, deleting or tidying may *)
(* uncover another text, but never disturbs another section.               *)
(***************************************************************************)

CONSTANTS Sections, Names, Texts, NoText, Strip(_)

VARIABLES
  up,       (* a configuration is loaded                                    *)
  conf,     (* its map                                                      *)
  apart,    (* no section stands twice                                      *)
  once      (* no name stands twice in a section                            *)

vars == <<up, conf, apart, once>>
Keys == Sections \X Names
Empty == [k \in Keys |-> NoText]

Init == up = FALSE /\ conf = Empty /\ apart = TRUE /\ once = TRUE

Load ==
  /\ ~up /\ up' = TRUE
  /\ conf' \in [Keys -> Texts \union {NoText}]
  /\ apart' \in BOOLEAN /\ once' \in BOOLEAN

Close == up /\ up' = FALSE /\ conf' = Empty /\ apart' /\ once'

(* Key k, and no other, may have another text or none.                     *)
Only(k) == conf' = [conf EXCEPT ![k] = conf'[k]]

Set(k) == conf'[k] \in Texts /\ Only(k) /\ UNCHANGED <<up, apart, once>>

Elsewhere(S) == \A k \in Keys : k[1] \notin S => conf'[k] = conf[k]

Delete(k) ==
  /\ Only(k)
  /\ once => conf'[k] = NoText /\ once'
  /\ UNCHANGED <<up, apart>>

Moved(s, t) ==
  [k \in Keys |-> CASE k[1] = t -> conf[<<s, k[2]>>]
                    [] k[1] = s /\ s # t -> NoText
                    [] OTHER -> conf[k]]

Rename(s, t) ==
  /\ Elsewhere({s, t})
  /\ apart /\ apart' => conf' \in {conf, Moved(s, t)}
  /\ UNCHANGED <<up, once>>

Tidy(s) ==
  /\ Elsewhere({s})
  /\ apart => apart'
  /\ once => once'
  /\ apart /\ once => conf' = conf
  /\ UNCHANGED up

StripAll ==
  /\ conf' = [k \in Keys |-> IF conf[k] = NoText THEN NoText ELSE Strip(conf[k])]
  /\ UNCHANGED <<up, apart, once>>

Next ==
  \/ Load
  \/ Close
  \/ \E k \in Keys : Set(k) \/ Delete(k)
  \/ \E s, t \in Sections : Rename(s, t)
  \/ \E s \in Sections : Tidy(s)
  \/ StripAll

Spec == Init /\ [][Next]_vars

=============================================================================
