-------------------------- MODULE TransactionMapMC --------------------------
(***************************************************************************)
(* Three cores of two slices, two hosts, at most two slices that do not    *)
(* stay with their core, and at most one write lost.                       *)
(***************************************************************************)
EXTENDS TransactionMap

MCHostSeq == <<"north", "west">>
MCSliceSeq == <<1, 2>>
MCOptionSets == {{}, {"mc_off", "host_master_off"}, {"chip_ext_off"}}
=============================================================================
