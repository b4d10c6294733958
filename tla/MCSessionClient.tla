-------------------------- MODULE MCSessionClient ---------------------------
(***************************************************************************)
(* Five calls: two batches of stream s1, two of s2, and ephemeral items.   *)
(***************************************************************************)
EXTENDS SessionClient

CONSTANTS s1, s2

MCStreamOf == <<s1, s1, s2, s2, NoStream>>
MCCountOf == <<1, 2, 1, 1, 1>>
MCWindows == {<<1, 2>>, <<3, 3>>}
MCDefaultWindow == <<2, 2>>
=============================================================================
