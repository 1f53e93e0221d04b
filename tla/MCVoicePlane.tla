---------------------------- MODULE MCVoicePlane ----------------------------
(* Instances of VoicePlane for TLC. *)
EXTENDS VoicePlane, TLC

CONSTANTS u1, u2, m, c, a2

\* A moderator who is not in voice and a member.
Accounts == [x \in Conn |-> IF x = m THEN u1 ELSE u2]
OneAddress == [u \in User |-> IF u = u2 THEN {a2} ELSE {}]

=============================================================================
