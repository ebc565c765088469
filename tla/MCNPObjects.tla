---------------------------- MODULE MCNPObjects -----------------------------
(* NPObjects for TLC.  The objects of an end are interchangeable. *)
EXTENDS NPObjects

Symmetry == Permutations(BrowserObjects) \cup Permutations(PluginObjects)
=============================================================================
