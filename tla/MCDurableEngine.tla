--------------------------- MODULE MCDurableEngine ---------------------------
(***************************************************************************)
(* Small instances of DurableEngine for TLC.                               *)
(***************************************************************************)
EXTENDS DurableEngine

CONSTANTS r1, r2    \* request ids

=============================================================================
