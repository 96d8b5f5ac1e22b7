----------------------------- MODULE MCReconcile -----------------------------
(* Instances of Reconcile for TLC.  Each run gives the loop one apply-now    *)
(* request to race with, or none when the question is about the loop alone.  *)
EXTENDS Reconcile

CONSTANT c1

OneCaller == {c1}
NoCaller == {}

LastInMemory == {NDrivers}
NoneInMemory == {}
==============================================================================
