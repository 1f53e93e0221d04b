-------------------------------- MODULE MCHub --------------------------------
(* Instances of Hub for TLC. *)
EXTENDS Hub, TLC

CONSTANTS u1, u2, u3, m, c, d

\* Every account has one connection at a time, or u2 has two.
OneEach == [x \in Conn |-> IF x = m THEN u1 ELSE IF x = c THEN u2 ELSE u3]
TwoDevices == [x \in Conn |-> IF x = m THEN u1 ELSE u2]

Symmetry == Permutations(Channel)

=============================================================================
