--------------------------- MODULE MCPrivateVault ---------------------------
(* Two tabs of one browser, each with two calls at once, and two secrets.  *)
(* Tabs are alike, and so are secrets.                                     *)
EXTENDS PrivateVault, TLC

Alike == Permutations(Tabs) \cup Permutations(Passwords)
=============================================================================
