------------------------ MODULE RefinaExclusividade ------------------------
(***************************************************************************)
(* Reservas implements Exclusividade: read through the rows of stay_blocks *)
(* that are active, every transaction of the engine takes, releases or     *)
(* exchanges whole stays.                                                  *)
(***************************************************************************)
EXTENDS Reservas

\* The unit-nights a set of blocks holds.
NoitesDe(bs) == UNION {{b.unidade} \X {d \in Dias : DaNoite(b, d)} : b \in bs}

Vendaveis ==
    UNION {IF Consome[p] = "all_members" THEN {Membros[p]} ELSE {{u} : u \in Membros[p]}
              : p \in Produtos}

Ocupacoes ==
    {[titular |-> r, noites |-> NoitesDe(VivosDe(blocos, r))]
        : r \in {q \in Ids : VivosDe(blocos, q) # {}}}
    \cup
    {[titular |-> Nenhuma, noites |-> NoitesDe({b})] : b \in VivosDe(blocos, Nenhuma)}

Calendario == INSTANCE Exclusividade
    WITH Titulares <- Ids, Casa <- Nenhuma, ocupacoes <- Ocupacoes

\* A sale never takes part of a house, a batch of expirations never releases
\* half a stay, and a rebooking or a unit swap is one indivisible exchange:
\* the handlers' many UPDATEs and INSERTs amount to the abstract calendar.
ImplementaExclusividade == Calendario!Spec
=============================================================================
