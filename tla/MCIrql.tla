------------------------------- MODULE MCIrql -------------------------------
(* The instances of Irql that TLC checks. *)
EXTENDS Irql, TLC

FewMasks == {{}} \cup {{p} : p \in Cpus}
Symmetry == Permutations(Cpus)
=============================================================================
