------------------------------- MODULE MCNovaZk -------------------------------
(***************************************************************************)
(* Instances of NovaZk for TLC.                                            *)
(***************************************************************************)
EXTENDS NovaZk, MCNovaIVC

MCZ0One   == {<<3>>}
MCOneDraw == {d \in MCHidingDraws : d["cfW.rW"] = 11}
MCSamples == {[k \in Slot |-> (k * k * 7 + c * k + c) % P] : c \in {4, 6}}
MCSampleBlinders == {<<21, 34>>}
=============================================================================
