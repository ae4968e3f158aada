-------------------------- MODULE MCListenerEvents --------------------------
(* ListenerEvents on small instances: three updates, the second of a type  *)
(* the subscription does not take.                                         *)
EXTENDS ListenerEvents

SecondIrrelevant == {2}
=============================================================================
