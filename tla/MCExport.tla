------------------------------ MODULE MCExport ------------------------------
(* A small instance of Export: d1 and d2 delegate to v1, d2 to v2 as well. *)
EXTENDS Export

CONSTANTS v1, v2, d1, d2

MCDelegations == {<<d1, v1>>, <<d2, v1>>, <<d2, v2>>}
=============================================================================
