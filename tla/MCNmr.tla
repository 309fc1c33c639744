------------------------------- MODULE MCNmr -------------------------------
(* Small instances of Nmr for TLC.                                         *)
EXTENDS NmrInvariant

\* All modules register for the same interface.
OneNpi == [m \in Modules |-> "npi"]
=============================================================================
