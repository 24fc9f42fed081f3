SPECIFICATION Spec
CONSTANTS
    r1 = r1
    r2 = r2
    r3 = r3
    ap1 = ap1
    ap2 = ap2
    Nenhuma = Nenhuma
    Ids = {r1, r2}
    Unidades = {ap1}
    Produtos <- SoApto
    Membros <- UmaUnidade
    Consome <- SoUmMembro
    HoldHoras = 1
    HorasExtra = {1, 2}
    MaxExtensoes = 2
    Faixas <- UmaFaixa
    Totais = {1}
    EsperaMax = 1
    Horizonte = 3
    MaxBloqueios = 0
INVARIANTS
    CalendarioSegueReserva
    EstadiaDeixaRastro
PROPERTY HoldAcaba
CHECK_DEADLOCK FALSE
