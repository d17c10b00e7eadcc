------------------------ MODULE MCResumePeripheral ------------------------
(* Small instances of ResumePeripheral for TLC. *)
EXTENDS ResumePeripheral, TLC

(* Peers, session ids and nonces are interchangeable. *)
Symmetry == Permutations(Peers) \cup Permutations(Sids) \cup Permutations(Nonces)
=============================================================================
