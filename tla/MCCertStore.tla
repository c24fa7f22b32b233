----------------------------- MODULE MCCertStore -----------------------------
(* TLC instance of CertStore.  Processes and thumbprints are interchangeable *)
(* and no liveness is checked, so both sets may be permuted.                 *)
EXTENDS CertStore, TLC

Symmetry == Permutations(Process) \union Permutations(Thumb)
=============================================================================
