---------------------------- MODULE MCProcesses ----------------------------
(***************************************************************************)
(* The small instance of Processes for TLC.  No symmetry: one property is  *)
(* a liveness property.                                                    *)
(***************************************************************************)
EXTENDS Processes
=============================================================================
