--------------------------- MODULE Exclusividade ---------------------------
(***************************************************************************)
(* What the calendar of the house promises, without prices, deadlines,     *)
(* states or tables.                                                       *)
(*                                                                         *)
(* An occupation is a holder and the set of unit-nights it holds.  A stay  *)
(* is taken whole (every night of every unit of something that is sold as  *)
(* one) or not at all, on unit-nights nobody holds; it is released whole;  *)
(* and it is exchanged for another in one indivisible step, so a failed    *)
(* exchange leaves the guest with what they had.                           *)
(***************************************************************************)
EXTENDS Integers

CONSTANTS
    Titulares,  \* who may hold a stay
    Casa,       \* the holder of maintenance and owner blocks
    Unidades,
    Vendaveis,  \* sets of units that are sold as one
    Dias

VARIABLE ocupacoes

Noites(de, ate) == {d \in Dias : de <= d /\ d < ate}

Periodos == {p \in Dias \X Dias : p[1] < p[2]}

Estadias ==
    {[titular |-> r, noites |-> us \X Noites(p[1], p[2])] :
        r \in Titulares, us \in Vendaveis, p \in Periodos}

Cabe(o, ocupadas) == \A p \in ocupadas : o.noites \cap p.noites = {}

SemVenda(r, ocupadas) == \A p \in ocupadas : p.titular # r

Init == ocupacoes = {}

\* A sale takes a stay.
Vender(o) ==
    /\ o.noites # {}
    /\ Cabe(o, ocupacoes)
    /\ SemVenda(o.titular, ocupacoes)
    /\ ocupacoes' = ocupacoes \cup {o}

\* The house blocks units of its own for one period, all of them or none.
Bloquear(us, p) ==
    LET os == {[titular |-> Casa, noites |-> {u} \X Noites(p[1], p[2])] : u \in us}
    IN  /\ \A o \in os : Cabe(o, ocupacoes)
        /\ ocupacoes' = ocupacoes \cup os

\* A departure, a cancellation, an expiration of several holds, a lifted block.
Soltar(os) == ocupacoes' = ocupacoes \ os

\* A rebooking or a change of unit.
Trocar(velha, nova) ==
    /\ nova.noites # {}
    /\ Cabe(nova, ocupacoes \ {velha})
    /\ SemVenda(nova.titular, ocupacoes \ {velha})
    /\ ocupacoes' = (ocupacoes \ {velha}) \cup {nova}

Next ==
    \/ \E os \in SUBSET ocupacoes : Soltar(os)
    \/ \E o \in Estadias : Vender(o)
    \/ \E us \in SUBSET Unidades, p \in Periodos : Bloquear(us, p)
    \/ \E velha \in ocupacoes, nova \in Estadias : Trocar(velha, nova)

Spec == Init /\ [][Next]_ocupacoes

\* The promise: no unit-night has two holders.
Exclusiva ==
    \A o, p \in ocupacoes : o.noites \cap p.noites # {} => o = p
=============================================================================
