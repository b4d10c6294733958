-------------------------- MODULE MCOutboxDelivery --------------------------
(***************************************************************************)
(* Small instances of the outbox.  The first row is for both domains, the  *)
(* second, of an extension type, for one of them.                          *)
(***************************************************************************)
EXTENDS OutboxDelivery

CONSTANTS d1, d2, w1, w2

MCRows == {1, 2}
MCOneRow == {1}
MCDomains == {d1, d2}
MCTargets == [r \in MCRows |-> IF r = 1 THEN {d1, d2} ELSE {d2}]
MCOneTargets == [r \in MCOneRow |-> {d1, d2}]
MCExtensionRows == {2}
MCNoExtension == {}
MCWorkers == {w1, w2}
=============================================================================
