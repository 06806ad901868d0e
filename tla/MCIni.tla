------------------------------- MODULE MCIni -------------------------------
(* Values for model checking Ini: two hexadecimal digits in a hex16, four  *)
(* in a word, and every file of up to four lines out of seven.              *)
EXTENDS Ini

MCDigits == [hex16 |-> 2, hex20 |-> 3, hex32 |-> 4]

(* Two digits, and a power, of three: 5 is one of them, 14 is not.         *)
MCDoubles == {m * 3 ^ k : m \in 0..8, k \in 0..2}

MCLines ==
  {Line("section", 1, Blank), Line("open", 1, Blank), Line("incomplete", 1, Blank)}
    \union {Line("entry", n, Printed("string", "quoted")) : n \in Names}
    \union {Line("entry", 1, Printed("string", ",5"))}

MCFiles ==
  [lines : UNION {[1..n -> MCLines] : n \in 1..4}, ended : BOOLEAN]

=============================================================================
