-------------------------- MODULE MCStatProcessors --------------------------
(* Model-checking instance of StatProcessors: each switch of a namespace is *)
(* on in one configuration and off in another, not all of them in step.     *)
EXTENDS StatProcessors

CONSTANT h1

MCConfig ==
  {[sc |-> FALSE, flash |-> FALSE, hists |-> {}],
   [sc |-> TRUE, flash |-> FALSE, hists |-> {h1}],
   [sc |-> FALSE, flash |-> TRUE, hists |-> {h1}]}
=============================================================================
