---------------------------- MODULE MCVoiceEngine ----------------------------
(* The voice engine with interchangeable remote speakers.                  *)
EXTENDS VoiceEngine, TLC

Symmetry == Permutations(User)
=============================================================================
