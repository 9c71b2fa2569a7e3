-------------------------- MODULE MCVoyageMission ---------------------------
(* VoyageMission with lots of one ton in a hold of two, one mission, and one *)
(* each of the losses and changes that bound it.                             *)
EXTENDS VoyageMission
=============================================================================
