--------------------------- MODULE MCNerveContent ---------------------------
(* The extension on two sites: values for TLC. *)
EXTENDS NerveContent

Symmetric == Permutations(Hosts) \cup Permutations(Tabs)
=============================================================================
