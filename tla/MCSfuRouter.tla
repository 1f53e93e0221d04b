----------------------------- MODULE MCSfuRouter -----------------------------
(* Instances of SfuRouter for TLC. *)
EXTENDS SfuRouter, TLC

CONSTANTS u1, u2, a1, a2

\* u1 roams to an address that u2 has (a NAT port used again).
Shared == [u \in User |-> IF u = u1 THEN {a1, a2} ELSE {a2}]

\* Every user keeps its own address.
Private == [u \in User |-> IF u = u1 THEN {a1} ELSE {a2}]

\* Session identifiers and channels are interchangeable.
Symmetry == Permutations(SessionId) \cup Permutations(Channel)

=============================================================================
