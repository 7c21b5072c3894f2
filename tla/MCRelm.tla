-------------------------------- MODULE MCRelm --------------------------------
(***************************************************************************)
(* Flows for the runs of Relm.                                             *)
(***************************************************************************)
EXTENDS Relm

UpFlow     == {<<3, 0>>}
DownFlow   == {<<0, 3>>}
AcrossFlow == {<<3, 4>>}

==============================================================================
