--------------------------- MODULE MCMediaStudio ---------------------------
(***************************************************************************)
(* A small instance of MediaStudio for TLC.                                *)
(***************************************************************************)
EXTENDS MediaStudio

OneSegment == {1}
=============================================================================
