------------------------------ MODULE MCVoice ------------------------------
(***************************************************************************)
(* An instance of VoiceSession for TLC.                                    *)
(***************************************************************************)
EXTENDS VoiceSession, TLC

Symmetry == Permutations(Conns)

=============================================================================
