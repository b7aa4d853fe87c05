----------------------------- MODULE MCIccpCsm -----------------------------
(* Instances of IccpCsm for TLC. *)
EXTENDS IccpCsmProps, TLC

\* Both peers in one MLAG domain.
SameRg == [n \in Node |-> 1]

\* The peers are configured with different MLAG domain ids.
OtherRg == [n \in Node |-> IF n = Active THEN 1 ELSE 2]

ConnSymmetry == Permutations(Conn)
=============================================================================
