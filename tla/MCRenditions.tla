---------------------------- MODULE MCRenditions ----------------------------
(* The renditions of one file on a small instance: see renditions.cfg. *)
EXTENDS Renditions
=============================================================================
