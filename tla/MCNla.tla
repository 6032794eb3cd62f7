-------------------------------- MODULE MCNla --------------------------------
(* NlaService for TLC. *)
EXTENDS NlaService

OneSession  == <<"u1">>

=============================================================================
