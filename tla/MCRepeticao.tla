----------------------------- MODULE MCRepeticao -----------------------------
(***************************************************************************)
(* What reaches the server twice: the refresh token and the e-mailed link  *)
(* of the panel, sent again by a second tab, a thief or a client that      *)
(* heard nothing, and the pre-booking of the site, sent again by a         *)
(* visitor.  The two share no row, so a behaviour is of one or of the      *)
(* other, and the one `parte' does not name stands still.                  *)
(*                                                                         *)
(* Bounds: one account, two logins, three tokens, two links and three      *)
(* requests at a time; or three visitors of one phone, with room for one   *)
(* pre-booking: s1 is sent twice (s2), and s3 asks for other dates with a  *)
(* key of its own.                                                         *)
(***************************************************************************)
EXTENDS Sessoes, PreReserva, TLC

CONSTANTS s1, s2, s3

MCChaveDe    == [p \in Pedidos |-> IF p = s3 THEN "k3" ELSE "k1"]
MCDonoDe     == [p \in Pedidos |-> "site"]
MCCorpoDe    == [p \in Pedidos |-> IF p = s3 THEN "c3" ELSE "c1"]
MCTelefoneDe == [p \in Pedidos |-> "f"]

VARIABLE parte

MCInit == parte \in {"sessoes", "site"} /\ Init /\ InitSite

MCNext ==
    \/ parte = "sessoes" /\ Next /\ UNCHANGED <<parte, varsSite>>
    \/ parte = "site" /\ NextSite /\ UNCHANGED <<parte, vars>>

MCSpec == MCInit /\ [][MCNext]_<<parte, vars, varsSite>>

Simetria == Permutations(Tokens) \cup Permutations(Chamadas)
            \cup Permutations(Familias) \cup Permutations(Resets)
=============================================================================
