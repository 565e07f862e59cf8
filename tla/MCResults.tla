----------------------------- MODULE MCResults -----------------------------
(* The results of one file on a small instance: see results.cfg. *)
EXTENDS Results
=============================================================================
