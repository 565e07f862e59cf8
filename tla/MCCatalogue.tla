----------------------------- MODULE MCCatalogue ----------------------------
(* The catalogue's copy on a small instance: see catalogue.cfg. *)
EXTENDS Catalogue
=============================================================================
