------------------------------ MODULE MCOutbox ------------------------------
(* Outbox on a small instance: workers, requests and leases are            *)
(* interchangeable, so the safety runs use their symmetry.                 *)
EXTENDS Outbox, TLC

Symmetry == Permutations(Workers) \cup Permutations(Admins) \cup Permutations(Leases)

=============================================================================
