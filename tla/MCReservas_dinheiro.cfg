SPECIFICATION SpecDoDinheiro
CONSTANTS
    r1 = r1
    r2 = r2
    r3 = r3
    ap1 = ap1
    ap2 = ap2
    Nenhuma = Nenhuma
    Ids = {r1, r2, r3}
    Unidades = {ap1}
    Produtos <- SoApto
    Membros <- UmaUnidade
    Consome <- SoUmMembro
    HoldHoras = 1
    HorasExtra = {}
    MaxExtensoes = 0
    Faixas <- TresFaixas
    Totais = {1, 2}
    EsperaMax = 0
    Horizonte = 2
    MaxBloqueios = 0
SYMMETRY SimetriaDasReservas
INVARIANT CaixaConfere
CHECK_DEADLOCK FALSE
