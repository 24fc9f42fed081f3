------------------------- MODULE MCVendaConcorrente -------------------------
(***************************************************************************)
(* Small instance of VendaConcorrente for TLC.  A behaviour is one of two  *)
(* scenes, and a transaction that is not in it has already been refused:   *)
(*                                                                         *)
(*   - two sales and a reclassification, of the house sold whole or of the *)
(*     product sold by the apartment, both made of the same two;           *)
(*   - one sale, a block, a replacement of the composition and a           *)
(*     reclassification, all of the product sold by the apartment.         *)
(***************************************************************************)
EXTENDS VendaConcorrente, TLC

CONSTANTS v1, v2, b1, c1, t1, ap1, ap2, ap3

CasaEApto   == {"completa", "apto"}
MesmasDuas  == [p \in CasaEApto |-> {ap1, ap2}]
CasaInteira == [p \in CasaEApto |-> IF p = "apto" THEN "one_member" ELSE "all_members"]

\* One apartment out, another in; or both out.
OutrosAptos == {{ap2, ap3}, {ap3}}

Cena(fora) ==
    /\ membros    = ComposicaoInicial
    /\ consome    = ConsomeInicial
    /\ passo      = [x \in Transacoes |-> IF x \in fora THEN "recusada" ELSE "inicio"]
    /\ produto    \in [DeProduto -> Produtos]
    /\ lido       = [x \in DeProduto |-> "one_member"]
    /\ lista      = [v \in Vendas |-> {}]
    /\ unidades   = [v \in Ocupantes |-> {}]
    /\ recusadas  = [v \in Vendas |-> {}]
    /\ pedido     \in [Trocas -> Pedidas]
    /\ antes      = [c \in Trocas |-> {}]
    /\ alvo       = [c \in Trocas |-> {}]
    /\ apagadas   = [c \in Trocas |-> {}]
    /\ tentativas = [x \in Transacoes |-> 1]

MCInit ==
    \/ Cena({b1, c1}) /\ produto[c1] = "apto" /\ pedido[c1] = {ap3}
    \/ Cena({v2}) /\ \A x \in DeProduto : produto[x] = "apto"

MCSpec == MCInit /\ [][Next]_vars /\ \A x \in Transacoes : WF_vars(Andar(x))

=============================================================================
