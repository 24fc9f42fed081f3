--------------------------- MODULE MCIdempotencia ---------------------------
(* A small instance of Idempotencia for TLC: one key sent twice with the   *)
(* same body, once with another body, and once by another user.            *)
EXTENDS Idempotencia

CONSTANTS p1, p2, p3, p4

MCChaveDe == [p \in Pedidos |-> "k"]
MCDonoDe  == [p \in Pedidos |-> IF p = p4 THEN "corretor" ELSE "gestor"]
MCCorpoDe == [p \in Pedidos |-> IF p = p3 THEN "outro" ELSE "mesmo"]
=============================================================================
