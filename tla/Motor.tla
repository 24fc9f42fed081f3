--------------------------------- MODULE Motor ---------------------------------
(***************************************************************************)
(* Prices and availability: the commercial calendar and the pricing engine *)
(* (domain/calendar, domain/booking), read over the configuration of the   *)
(* house by three questions of modules/disponibilidade: which days of a    *)
(* product can be sold (PorProduto), who is in each unit (PorUnidade) and  *)
(* what a stay costs (Orcar).  The configuration is edited row by row      *)
(* (modules/tarifario, modules/inventario).                                *)
(*                                                                         *)
(* A question is asked here of one state of the configuration; the code    *)
(* reads it in several statements.                                         *)
(***************************************************************************)
EXTENDS Integers, FiniteSets, Sequences, FiniteSetsExt

CONSTANTS UltimaNoite, \* bound: nights are 0..UltimaNoite - 1
          FimDeSemana, \* nights of the weekend (date_type_rules.weekday_mask)
          Catalogo,    \* product -> [consome, membros, limpeza]
          Lotacao,     \* guests any product takes
          Precos,      \* amounts of a rate
          ComMinimo,   \* kinds whose minimum stay is edited ...
          Noites,      \* ... and its lengths
          Especiais,   \* periods that may be registered: [nome, tipo, de, ate]
          Feriados,    \* days that may be a holiday
          Regras,      \* rules of one product (seed): [minimos, pacotes]
          Editadas,    \* pairs <<product, kind>> whose rate is edited
          Mapas,       \* sets of blocks: [unidade, de, ate, status]
          Politica,    \* the policy in force: [sinal, auto, aprovacao, caucao]
          Descontos,   \* percentages asked
          SemValor

\* Kinds with a rate, in date_type_rules.
Tipos == {"normal", "fds", "feriado", "alta", "reveillon", "carnaval"}
Vendidos == DOMAIN Catalogo
Membros(p) == Catalogo[p].membros
Unidades == UNION {Membros(p) : p \in Vendidos}

Pacote == [noites : Nat, tipos : SUBSET Tipos, total : Nat]

\* What the columns and the forms admit.
ASSUME MotorAssumption ==
    /\ UltimaNoite \in Nat /\ Lotacao \in Nat \ {0}
    /\ \A p \in Vendidos : /\ Catalogo[p].consome \in {"one_member", "all_members"}
                           /\ IsFiniteSet(Membros(p))
                           /\ Catalogo[p].limpeza \in Nat
    /\ Precos \subseteq Nat /\ Noites \subseteq Nat /\ SemValor \notin Precos \cup Noites
    /\ \A e \in Especiais : e.de \in Int /\ e.ate \in Int
    /\ ComMinimo \subseteq Tipos /\ Editadas \subseteq Vendidos \X Tipos
    /\ \A r \in Regras : /\ r.minimos \in [Tipos -> Noites \cup {SemValor}]
                         /\ r.pacotes \in Seq(Pacote)
    /\ Politica.sinal \in 0..100 /\ Politica.auto \in Nat /\ Politica.caucao \in Nat
    /\ Descontos \subseteq 0..100

VARIABLES feriados,   \* active holidays
          periodos,   \* active special periods
          tarifas,    \* rates: product -> kind of date -> amount or SemValor
          minimos,    \* min_nights_rules: kind of date -> nights or SemValor
          regras,     \* unit_type_min_nights and rate_packages, by product
          ativas,     \* active units
          blocos      \* stay_blocks

varsMotor == <<feriados, periodos, tarifas, minimos, regras, ativas, blocos>>

\* The seed leaves the new year without a price: it is sold on request.
InitMotor ==
    /\ feriados = {} /\ periodos = {}
    /\ \E v \in Precos :
          tarifas = [p \in Vendidos |->
                        [t \in Tipos |-> IF t = "reveillon" THEN SemValor ELSE v]]
    /\ minimos = [t \in Tipos |-> SemValor]
    /\ \E r \in Regras : regras = [p \in Vendidos |-> r]
    /\ ativas = Unidades
    /\ blocos \in Mapas

----------------------------------------------------------------------------
(* The kind of a night (domain/calendar).                                  *)

\* Precedence; a kind the map does not know weighs nothing.
Peso(t) == CASE t \in {"reveillon", "carnaval"} -> 100
             [] t = "feriado" -> 80
             [] t = "alta"    -> 60
             [] t = "fds"     -> 40
             [] OTHER         -> 0

\* What a query loads for a window [de, ate): the holidays in it and the periods that
\* touch it.
Calendario(de, ate) ==
    [feriados |-> {d \in feriados : de <= d /\ d < ate},
     periodos |-> {e \in periodos : e.de < ate /\ e.ate >= de}]

\* The period a day is of: the heaviest, of those the first by beginning and name.
Primeiro(es) ==
    CHOOSE e \in es : \A f \in es :
        \/ Peso(e.tipo) > Peso(f.tipo)
        \/ /\ Peso(e.tipo) = Peso(f.tipo)
           /\ e.de < f.de \/ (e.de = f.de /\ e.nome <= f.nome)

\* A period is considered before the holiday and the weekend, and gives way to the heavier.
Classify(cal, d) ==
    LET contem == {e \in cal.periodos : e.de <= d /\ d <= e.ate}
        comum == IF d \in cal.feriados THEN "feriado"
                 ELSE IF d \in FimDeSemana THEN "fds" ELSE "normal"
    IN  IF contem = {} \/ Peso(Primeiro(contem).tipo) < Peso(comum) THEN comum
        ELSE Primeiro(contem).tipo

\* The rate of a product for a kind; a kind outside date_type_rules never has one.
Tarifa(p, t) == IF t \in Tipos THEN tarifas[p][t] ELSE SemValor

\* The product's own minimum replaces the general one.
MinimoDoProduto(p, t) ==
    IF t \notin Tipos THEN SemValor
    ELSE IF regras[p].minimos[t] # SemValor THEN regras[p].minimos[t] ELSE minimos[t]

----------------------------------------------------------------------------
(* The engine (domain/booking).                                            *)

\* A sequence given by its elements; joined to the empty one, it is computed once.
Lista(n, Elemento(_)) == <<>> \o [i \in 1..n |-> Elemento(i)]

Soma(f) == MapThenSumSet(LAMBDA i : f[i], DOMAIN f)

\* What the nights of a set of places cost.
Preco(noites, lugares) == Soma([i \in lugares |-> noites[i].preco])

\* Half up, of an amount that is not negative.
Pct(v, pct) == (2 * v * pct + 100) \div 200

\* The nights from i on that a package would take.
Janela(i, pk) == i..(i + pk.noites - 1)

\* A package takes the nights from i: all of kinds it covers, and for less.
Serve(noites, i, pk) ==
    /\ pk.noites >= 2 /\ pk.total > 0
    /\ i + pk.noites - 1 <= Len(noites)
    /\ \A k \in Janela(i, pk) : noites[k].tipo \in pk.tipos
    /\ pk.total < Preco(noites, Janela(i, pk))

Servem(noites, i, pacotes) == {k \in DOMAIN pacotes : Serve(noites, i, pacotes[k])}

\* The one the loop takes: the longest, of those the first loaded.
Escolhido(noites, i, pacotes) ==
    pacotes[CHOOSE k \in Servem(noites, i, pacotes) : \A m \in Servem(noites, i, pacotes) :
                \/ pacotes[k].noites > pacotes[m].noites
                \/ pacotes[k].noites = pacotes[m].noites /\ k <= m]

\* Nights that the turn of the loop that begins at i disposes of.
Passada(noites, i, pacotes) ==
    IF Servem(noites, i, pacotes) = {} THEN 1 ELSE Escolhido(noites, i, pacotes).noites

\* From left to right: the place where the turn that disposed of each night began.
Inicios(noites, pacotes) ==
    LET inicio[j \in DOMAIN noites] ==
            IF j = 1 THEN 1
            ELSE LET i == inicio[j - 1]
                 IN  IF j < i + Passada(noites, i, pacotes) THEN i ELSE j
    IN  inicio

\* Mutant: the rest of the division is lost.
RepartirSemResto(noite, k, pk) ==
    [noite EXCEPT !.pacote = pk.noites, !.preco = pk.total \div pk.noites]

\* The k-th night of a package: its price in whole cents, the rest to the first nights.
Repartir(noite, k, pk) ==
    [noite EXCEPT
        !.pacote = pk.noites,
        !.preco = (pk.total \div pk.noites) + (IF k <= pk.total % pk.noites THEN 1 ELSE 0)]

ApplyPackages(noites, pacotes) ==
    LET inicio == Inicios(noites, pacotes)
    IN  [j \in DOMAIN noites |->
            IF Servem(noites, inicio[j], pacotes) = {} THEN noites[j]
            ELSE Repartir(noites[j], j - inicio[j] + 1, Escolhido(noites, inicio[j], pacotes))]

\* The lines of a quote: the nights of one kind, or of packages of one length.
LinhaDe(n) == IF n.pacote > 0 THEN <<"pacote", n.pacote>> ELSE <<n.tipo, 0>>
Linhas(noites) ==
    LET da(l) == {i \in DOMAIN noites : LinhaDe(noites[i]) = l}
    IN  {[linha |-> l, noites |-> Cardinality(da(l)), subtotal |-> Preco(noites, da(l))]
            : l \in {LinhaDe(noites[i]) : i \in DOMAIN noites}}

Authority(pct) == CASE pct <= Politica.auto      -> "gestao"
                    [] Politica.auto < pct /\ pct <= Politica.aprovacao -> "proprietario"
                    [] OTHER                     -> "negado"

\* The nights of a stay at their own rates.
Avulsas(p, cal, de, ate) ==
    LET noite(i) == LET t == Classify(cal, de + i - 1)
                    IN  [dia |-> de + i - 1, tipo |-> t, preco |-> Tarifa(p, t), pacote |-> 0]
    IN  Lista(ate - de, noite)

\* The most restrictive night decides.
MinimoDaEstadia(p, avulsas) ==
    Max({1} \cup ({MinimoDoProduto(p, avulsas[i].tipo) : i \in DOMAIN avulsas} \ {SemValor}))

\* The discount is of the nights only.
Totais(p, avulsas, noites, desconto, evento) ==
    LET subtotal == Preco(noites, DOMAIN noites)
        abate == Pct(subtotal, desconto)
        caucao == IF evento THEN Politica.caucao ELSE 0
        total == subtotal - abate + Catalogo[p].limpeza + caucao
        sinal == Pct(total, Politica.sinal)
    IN  [codigo |-> "OK", avulsas |-> avulsas, noites |-> noites, linhas |-> Linhas(noites),
         subtotal |-> subtotal, desconto |-> abate, total |-> total, sinal |-> sinal,
         saldo |-> total - sinal, alcada |-> Authority(desconto)]

Quote(p, avulsas, desconto, evento) ==
    Totais(p, avulsas, <<>> \o ApplyPackages(avulsas, regras[p].pacotes), desconto, evento)

\* What depends on the result refuses last.
Conferir(q, noites, minimo) ==
    IF noites < minimo THEN [q EXCEPT !.codigo = "MIN_STAY_NOT_MET"]
    ELSE IF q.alcada = "negado" THEN [q EXCEPT !.codigo = "DISCOUNT_ABOVE_LIMIT"]
    ELSE q

\* Rules that refuse a quote come in order: dates, guests, rates, and these.
Build(p, cal, de, ate, hospedes, desconto, evento) ==
    LET avulsas == Avulsas(p, cal, de, ate)
    IN  IF de >= ate \/ hospedes < 1 THEN [codigo |-> "VALIDATION_ERROR"]
        ELSE IF hospedes > Lotacao THEN [codigo |-> "CAPACITY_EXCEEDED"]
        ELSE IF \E i \in DOMAIN avulsas : avulsas[i].preco = SemValor THEN [codigo |-> "RATE_NOT_FOUND"]
        ELSE Conferir(Quote(p, avulsas, desconto, evento), ate - de, MinimoDaEstadia(p, avulsas))

----------------------------------------------------------------------------
(* The questions (modules/disponibilidade).                                *)

Composicao(p) == [declaradas |-> Cardinality(Membros(p)),
                  ativas |-> Cardinality(Membros(p) \cap ativas)]

ConferirComposicao(p) ==
    LET c == Composicao(p)
    IN  IF Catalogo[p].consome = "all_members"
        THEN c.declaradas > 0 /\ c.ativas = c.declaradas
        ELSE c.ativas > 0

Orcar(p, de, ate, hospedes, desconto, evento) ==
    IF ~ConferirComposicao(p) THEN [codigo |-> "COMPOSITION_INCOMPLETE"]
    ELSE Build(p, Calendario(de, ate), de, ate, hospedes, desconto, evento)

\* Blocks that hold the inventory, and those the map shows besides.
Bloqueiam == {"hold", "confirmed"}
Visiveis == Bloqueiam \cup {"completed"}

BlocosDe(u, d, quais) == {b \in blocos : b.unidade = u /\ b.status \in quais /\ b.de <= d /\ d < b.ate}

Ocupacao(p, d) ==
    [declaradas |-> Cardinality(Membros(p)),
     ativas |-> Cardinality(Membros(p) \cap ativas),
     ocupadas |-> Cardinality({u \in Membros(p) \cap ativas : BlocosDe(u, d, Bloqueiam) # {}})]

\* Mutant: the units counted as declared are the active ones.
VendaveisDasAtivas(p, c, temTarifa) ==
    IF ~temTarifa THEN [livres |-> 0, motivo |-> "SEM_TARIFA"]
    ELSE IF c.ativas = 0 THEN [livres |-> 0, motivo |-> "UNIDADE_INATIVA"]
    ELSE LET livres == IF Catalogo[p].consome = "all_members"
                       THEN (IF c.ocupadas = 0 THEN 1 ELSE 0) ELSE c.ativas - c.ocupadas
         IN  [livres |-> livres, motivo |-> IF livres <= 0 THEN "OCUPADO" ELSE "NENHUM"]

\* How many can be sold on a day, and why none.
Vendaveis(p, c, temTarifa) ==
    IF Catalogo[p].consome = "all_members" /\ c.ativas < c.declaradas
    THEN [livres |-> 0, motivo |-> "COMPOSICAO"]
    ELSE IF ~temTarifa THEN [livres |-> 0, motivo |-> "SEM_TARIFA"]
    ELSE IF c.ativas = 0 THEN [livres |-> 0, motivo |-> "UNIDADE_INATIVA"]
    ELSE LET livres == IF Catalogo[p].consome = "all_members"
                       THEN (IF c.ocupadas = 0 THEN 1 ELSE 0) ELSE c.ativas - c.ocupadas
         IN  [livres |-> livres, motivo |-> IF livres <= 0 THEN "OCUPADO" ELSE "NENHUM"]

\* One day of a product, asked for the whole season.
DiaDoProduto(p, d) ==
    LET t == Classify(Calendario(0, UltimaNoite), d)
        v == Vendaveis(p, Ocupacao(p, d), Tarifa(p, t) # SemValor)
    IN  [livres |-> v.livres, motivo |-> v.motivo, preco |-> Tarifa(p, t),
         minimo |-> MinimoDoProduto(p, t)]

\* One cell of the map: of an active and a finished stay on it, the active one.
StatusDaCelula(u, d) ==
    LET bs == BlocosDe(u, d, Visiveis)
        ativos == {b \in bs : b.status # "completed"}
    IN  IF bs = {} THEN "livre"
        ELSE (CHOOSE b \in (IF ativos # {} THEN ativos ELSE bs) : TRUE).status

----------------------------------------------------------------------------
(* The configuration, one row at a time.                                   *)

SalvarFeriado(d) ==
    /\ feriados' \in {feriados \cup {d}, feriados \ {d}}
    /\ UNCHANGED <<periodos, tarifas, minimos, regras, ativas, blocos>>

\* Periods may overlap: the weights decide.
SalvarPeriodo(e) ==
    /\ periodos' \in {periodos \cup {e}, periodos \ {e}}
    /\ UNCHANGED <<feriados, tarifas, minimos, regras, ativas, blocos>>

\* A rate is created, edited, or excluded.
SalvarTarifa(c, v) ==
    /\ tarifas' = [tarifas EXCEPT ![c[1]][c[2]] = v]
    /\ UNCHANGED <<feriados, periodos, minimos, regras, ativas, blocos>>

SalvarMinimo(t, n) ==
    /\ minimos' = [minimos EXCEPT ![t] = n]
    /\ UNCHANGED <<feriados, periodos, tarifas, regras, ativas, blocos>>

AtivarUnidade(u) ==
    /\ ativas' \in {ativas \cup {u}, ativas \ {u}}
    /\ UNCHANGED <<feriados, periodos, tarifas, minimos, regras, blocos>>

\* Sales, maintenance and check-outs.
MudarMapa ==
    /\ blocos' \in Mapas
    /\ UNCHANGED <<feriados, periodos, tarifas, minimos, regras, ativas>>

NextMotor ==
    \/ \E d \in Feriados : SalvarFeriado(d)
    \/ \E e \in Especiais : SalvarPeriodo(e)
    \/ \E c \in Editadas, v \in Precos \cup {SemValor} : SalvarTarifa(c, v)
    \/ \E t \in ComMinimo, n \in Noites \cup {SemValor} : SalvarMinimo(t, n)
    \/ \E u \in Unidades : AtivarUnidade(u)
    \/ MudarMapa

SpecMotor == InitMotor /\ [][NextMotor]_varsMotor

----------------------------------------------------------------------------
(* Properties.                                                             *)

Estadias == {e \in (0..UltimaNoite) \X (0..UltimaNoite) : e[1] < e[2]}

\* The nights priced by packages are whole packages: each begins somewhere, runs its length
\* over nights of kinds it is sold for, and costs its total, which is less than they did.
PacotesInteiros(n, avulsas, pacotes) ==
    \E comecos \in SUBSET DOMAIN n :
        /\ \A i \in comecos : \E k \in DOMAIN pacotes :
              LET pk == pacotes[k] IN
              /\ Janela(i, pk) \subseteq DOMAIN n
              /\ \A j \in Janela(i, pk) : n[j].pacote = pk.noites /\ n[j].tipo \in pk.tipos
              /\ Preco(n, Janela(i, pk)) = pk.total
              /\ pk.total < Preco(avulsas, Janela(i, pk))
        /\ \A j \in DOMAIN n :
              n[j].pacote > 0 <=> \E i \in comecos : i <= j /\ j < i + n[i].pacote
        /\ \A i, j \in comecos : i < j => i + n[i].pacote <= j

\* A quote adds up: the nights, the lines and the totals are of the same money, and a
\* package never makes a stay dearer.
Fecha(p, q, evento) ==
    LET n == q.noites IN
    /\ Len(n) = Len(q.avulsas)
    /\ \A i \in DOMAIN n : n[i].dia = q.avulsas[i].dia /\ n[i].tipo = q.avulsas[i].tipo
    /\ PacotesInteiros(n, q.avulsas, regras[p].pacotes)
    /\ q.subtotal <= Preco(q.avulsas, DOMAIN q.avulsas)
    /\ q.subtotal = Preco(q.avulsas, DOMAIN q.avulsas) <=> \A i \in DOMAIN n : n[i].pacote = 0
    /\ Len(n) = Soma([l \in q.linhas |-> l.noites])
    /\ q.sinal + q.saldo + q.desconto
          = Soma([l \in q.linhas |-> l.subtotal]) + Catalogo[p].limpeza
                + (IF evento THEN Politica.caucao ELSE 0)
    /\ q.desconto \in 0..q.subtotal /\ q.sinal \in 0..q.total

\* Whatever the configuration, a quote that is given adds up to the cent
\* (domain/booking/booking.go Build, applyPackages).
OrcamentoFecha ==
    \A p \in Vendidos : ConferirComposicao(p) =>
        \A e \in Estadias, desconto \in Descontos, evento \in BOOLEAN :
        \A q \in {Orcar(p, e[1], e[2], 1, desconto, evento)} :
            q.codigo = "OK" => Fecha(p, q, evento)

\* The calendar of a product promises what a quote honours: a stay whose days all show
\* a price and units is refused for nothing but its length, by the minimum the days
\* show; and a day shown without rate or composition is refused to any stay on it
\* (disponibilidade/service.go PorProduto, vendaveis, Orcar).
OfertaConcorda ==
    \A p \in Vendidos :
    \A dias \in {Lista(UltimaNoite, LAMBDA i : DiaDoProduto(p, i - 1))} :
    \A e \in Estadias : \A q \in {Orcar(p, e[1], e[2], 1, 0, FALSE)} :
        LET estes == (e[1] + 1)..e[2]
        IN  /\ q.codigo = "COMPOSITION_INCOMPLETE" =>
                   \A i \in estes : dias[i].motivo \in {"COMPOSICAO", "UNIDADE_INATIVA", "SEM_TARIFA"}
            /\ q.codigo = "RATE_NOT_FOUND" <=>
                   ConferirComposicao(p) /\ \E i \in estes : dias[i].motivo = "SEM_TARIFA"
            /\ q.codigo = "MIN_STAY_NOT_MET" <=>
                   /\ q.codigo \in {"OK", "MIN_STAY_NOT_MET"}
                   /\ \E i \in estes : dias[i].minimo # SemValor /\ dias[i].minimo > e[2] - e[1]
            /\ q.codigo = "OK" =>
                   /\ \A i \in estes : dias[i].preco # SemValor
                   /\ (\A i \in DOMAIN q.noites : q.noites[i].pacote = 0) =>
                          \A i \in DOMAIN q.noites : q.noites[i].preco = dias[q.noites[i].dia + 1].preco

\* The map and the counts agree: an active unit shows an empty or finished cell exactly
\* when the day counts it as free (repository.go Ocupacao, Mapa).
MapaConcorda ==
    \A p \in Vendidos, d \in 0..(UltimaNoite - 1) :
        LET livres == {u \in Membros(p) \cap ativas :
                          StatusDaCelula(u, d) \in {"livre", "completed"}}
            c == Ocupacao(p, d)
        IN  c.ativas - c.ocupadas = Cardinality(livres)

ConsultasConcordam == OfertaConcorda /\ MapaConcorda
===============================================================================
