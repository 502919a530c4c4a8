--------------------------- MODULE MCProfileCache ---------------------------
(***************************************************************************)
(* A small instance of ProfileCache for TLC.                               *)
(***************************************************************************)
EXTENDS ProfileCache
=============================================================================
