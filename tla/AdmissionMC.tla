------------------------------ MODULE AdmissionMC ------------------------------
(***************************************************************************)
(* An instance of Admission: the second connection comes with an adapter   *)
(* of its own, the third with that of the second.                          *)
(***************************************************************************)
EXTENDS Admission

CONSTANTS a1, a2

NewThenSame == [i \in Generations |-> IF i = 1 THEN a1 ELSE a2]

=============================================================================
