----------------------------- MODULE MCGrooveQueue -----------------------------
(***************************************************************************)
(* A small instance of GrooveQueue: two objects, a queue that holds more    *)
(* objects than there are threads, and two uses.                           *)
(***************************************************************************)
EXTENDS GrooveQueue

CONSTANTS g1, g2, g3

\* One more blocked thread than put and abort ever wake.
ThreeGetters == [getters |-> {g1, g2, g3}, peekers |-> {}, aborts |-> FALSE]

\* One thread that gets and peeks.
Sole == [getters |-> {g1}, peekers |-> {g1}, aborts |-> TRUE]

BothRoles == {ThreeGetters, Sole}
================================================================================
