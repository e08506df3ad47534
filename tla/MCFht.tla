------------------------------- MODULE MCFht -------------------------------
(* Values for model checking Fht: messages of one and of two items, and    *)
(* one whose two items have the same command.                              *)
EXTENDS Fht

CONSTANTS desired, mode

MCCommand == {desired, mode}
MCMessage == {<<[cmd |-> desired, arg |-> 1]>>,
              <<[cmd |-> desired, arg |-> 1], [cmd |-> mode, arg |-> 2]>>,
              <<[cmd |-> mode, arg |-> 1], [cmd |-> mode, arg |-> 2]>>}
=============================================================================
