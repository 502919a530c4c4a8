---------------------------- MODULE MCDetections ----------------------------
(***************************************************************************)
(* A small instance of Detections for TLC.                                 *)
(***************************************************************************)
EXTENDS Detections

Symmetry == Permutations(Detectors) \cup Permutations(Enrichers) \cup Permutations(Urls)
=============================================================================
