SPECIFICATION MCSpec
CHECK_DEADLOCK FALSE
CONSTANTS
    v1 = v1
    v2 = v2
    b1 = b1
    c1 = c1
    t1 = t1
    ap1 = ap1
    ap2 = ap2
    ap3 = ap3
    Vendas = {v1, v2}
    Bloqueios = {b1}
    Trocas = {c1}
    Reclassificacoes = {t1}
    Produtos <- CasaEApto
    Unidades = {ap1, ap2, ap3}
    ComposicaoInicial <- MesmasDuas
    ConsomeInicial <- CasaInteira
    Pedidas <- OutrosAptos
    MaxTentativas = 2
INVARIANTS
    VendaInteiraESo
    VendasNaoSeTravam
PROPERTY TodasTerminam
