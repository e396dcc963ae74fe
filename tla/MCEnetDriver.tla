---------------------------- MODULE MCEnetDriver ----------------------------
(***************************************************************************)
(* Model-checking instance of EnetDriver, with the history variables of    *)
(* EnetRxFifo (HistSpec). The .cfg files bind the ring sizes and bounds.   *)
(***************************************************************************)
EXTENDS EnetRxFifo

=============================================================================
