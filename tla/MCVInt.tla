------------------------------- MODULE MCVInt -------------------------------
(* The instance of VInt that MCVInt.cfg checks: the last of three groups of  *)
(* two bits reaches one bit beyond a word of five, as the last of five       *)
(* groups of seven reaches three bits beyond a word of 32.                   *)
EXTENDS VInt

=============================================================================
