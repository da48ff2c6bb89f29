---------------------------- MODULE MCLifespan ----------------------------
(***************************************************************************)
(* Up to four handlers, so that lifespan() may take effect twice, and two  *)
(* pools: two lives of the application, or one in which it did.            *)
(***************************************************************************)
EXTENDS Lifespan
=============================================================================
