----------------------------- MODULE MCReservas -----------------------------
(* Small instances of Reservas for TLC. *)
EXTENDS RefinaExclusividade, TLC

CONSTANTS r1, r2, r3, ap1, ap2

\* Two units: each sold alone as an apartment, both together as the house.
MCProdutos == {"apto", "completa"}
MCMembros  == [p \in MCProdutos |-> {ap1, ap2}]
MCConsome  == [p \in MCProdutos |-> IF p = "apto" THEN "one_member" ELSE "all_members"]

\* One unit, one product: the runs about money.
SoApto       == {"apto"}
UmaUnidade   == [p \in SoApto |-> {ap1}]
SoUmMembro   == [p \in SoApto |-> "one_member"]

\* All, half, nothing, by days before the stay.
TresFaixas ==
    <<[min |-> 2,  max |-> -1, pct |-> 100],
      [min |-> 1,  max |-> 1,  pct |-> 50],
      [min |-> -1, max |-> 0,  pct |-> 0]>>

UmaFaixa == <<[min |-> -1, max |-> -1, pct |-> 100]>>

\* Bound of the run about money: a first sale costs two cents, one that replaces another
\* one or two, so that what was paid may exceed the new total.
SpecDoDinheiro ==
    Init /\ [][Next /\ \A r \in Ids : remarcadaDe'[r] = Nenhuma => conta'[r].total # 1]_vars

Simetria == Permutations(Ids) \cup Permutations({ap1, ap2})
SimetriaDasReservas == Permutations(Ids)
=============================================================================
