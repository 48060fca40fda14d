------------------------------ MODULE MCCapture ------------------------------
(* Model-checking instance of Capture: two adapters and all lists of them; *)
(* up to four arguments out of the three options, an address text, a       *)
(* number beyond the ports, the default keyword, and the empty argument,   *)
(* which occurs in every description.                                      *)
EXTENDS Capture

Word(option, accepted, number, within) ==
  [option |-> option, accepted |-> accepted, number |-> number, within |-> within]

MCDefault == Word("none", FALSE, 0, {"tap"})

MCWords ==
  {Word(o, FALSE, 0, {}) : o \in Options} \cup
  {MCDefault, Word("none", TRUE, 10, {}), Word("none", FALSE, 70000, {}),
   Word("none", FALSE, 0, {"tap", "lan"})}
=============================================================================
