------------------------------ MODULE MCRmlMatch ------------------------------
(* Senders are interchangeable: no action or property names one. *)
EXTENDS RmlMatch
PeerSymmetry == Permutations(Peers)
==============================================================================
