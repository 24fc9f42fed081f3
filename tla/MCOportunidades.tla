---------------------------- MODULE MCOportunidades ----------------------------
(* Small instance of the sales funnel.                                     *)
EXTENDS Oportunidades, TLC

CONSTANTS l1, c1, c2, q1, q2, k1, k2, p1, p2

\* The lead is gone, or the quotes are spent: the two halves of the funnel one after
\* the other, each with two cards.
MCInit == Init /\ ((\A l \in Leads : lead[l] = "apagado")
                      # (\A q \in Orcamentos : orcamento[q] = OrcamentoGasto))
MCSpec == MCInit /\ [][Next]_vars

Simetria == Permutations({c1, c2}) \cup Permutations({q1, q2}) \cup Permutations({k1, k2})
            \cup Permutations({p1, p2})
=============================================================================
