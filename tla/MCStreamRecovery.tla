-------------------------- MODULE MCStreamRecovery --------------------------
(***************************************************************************)
(* Small instances of a stream and its receiver.                           *)
(***************************************************************************)
EXTENDS StreamRecovery

CONSTANTS m1, m2, h1, h2

MCObjects == {m1, m2}
MCHandlers == {h1, h2}
MCOneHandler == {h1}
=============================================================================
