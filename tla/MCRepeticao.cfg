SPECIFICATION MCSpec
CHECK_DEADLOCK FALSE
CONSTANTS
    Ninguem = Ninguem
    Usuarios = {ana}
    Familias = {f1, f2}
    Tokens = {t1, t2, t3}
    Resets = {r1, r2}
    Chamadas = {p1, p2, p3}
    Nenhum = Nenhum
    Pedidos = {s1, s2, s3}
    Chaves = {"k1", "k3"}
    Donos = {"site"}
    Corpos = {"c1", "c3"}
    ChaveDe <- MCChaveDe
    DonoDe <- MCDonoDe
    CorpoDe <- MCCorpoDe
    Telefones = {"f"}
    TelefoneDe <- MCTelefoneDe
    Teto = 1
    MaxTentativas = 1
    s1 = s1
    s2 = s2
    s3 = s3
SYMMETRY Simetria
INVARIANTS UmElo ReusoSoComSucessor LinkGastoUmaVez RepeticaoReconhecida
PROPERTIES SaidaSoPerdeParaRotacao
