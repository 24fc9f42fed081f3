SPECIFICATION Spec
CONSTANTS
    r1 = r1
    r2 = r2
    r3 = r3
    ap1 = ap1
    ap2 = ap2
    Nenhuma = Nenhuma
    Ids = {r1, r2}
    Unidades = {ap1, ap2}
    Produtos <- MCProdutos
    Membros <- MCMembros
    Consome <- MCConsome
    HoldHoras = 1
    HorasExtra = {}
    MaxExtensoes = 0
    Faixas <- UmaFaixa
    Totais = {1}
    EsperaMax = 0
    Horizonte = 2
    MaxBloqueios = 1
SYMMETRY Simetria
INVARIANTS
    SemSobreposicao
    CasaInteira
PROPERTIES
    ImplementaExclusividade
CHECK_DEADLOCK FALSE
