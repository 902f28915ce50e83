---------------------------- MODULE MCIndexOrder ----------------------------
(***************************************************************************)
(* The small instance of IndexOrder for TLC.  No symmetry: the property is *)
(* a liveness property.                                                    *)
(***************************************************************************)
EXTENDS IndexOrder
=============================================================================
