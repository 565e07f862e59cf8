-------------------------- MODULE MCProcessingChain --------------------------
(* Small instances of ProcessingChain: see chain.cfg, chain_liveness.cfg and
   erase_crossing.cfg. *)
EXTENDS ProcessingChain
=============================================================================
