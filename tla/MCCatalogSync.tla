---------------------------- MODULE MCCatalogSync ----------------------------
(* Values for the model checking of CatalogSync. *)
EXTENDS CatalogSync, TLC

CONSTANTS w1, w2
MCWorkers  == {w1}
MCWorkers2 == {w1, w2}
MCMalformed == {2}
NoneMalformed == {}
=============================================================================
