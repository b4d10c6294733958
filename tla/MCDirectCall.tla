---------------------------- MODULE MCDirectCall ----------------------------
(* A call of two users with at most three clients.                         *)
EXTENDS DirectCall
=============================================================================
