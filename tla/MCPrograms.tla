----------------------------- MODULE MCPrograms -----------------------------
(* Programs, with the two workers of each kind they have, for TLC.         *)
EXTENDS Programs

=============================================================================
