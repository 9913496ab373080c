--------------------------- MODULE MCModelCatalog ---------------------------
(* A small instance of the catalog cache for TLC.                           *)
EXTENDS ModelCatalog
=============================================================================
