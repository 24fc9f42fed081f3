SPECIFICATION SpecIdem
CHECK_DEADLOCK FALSE
CONSTANTS
    p1 = p1
    p2 = p2
    p3 = p3
    p4 = p4
    Nenhum = Nenhum
    Pedidos = {p1, p2, p3, p4}
    Chaves = {"k"}
    Donos = {"gestor", "corretor"}
    Corpos = {"mesmo", "outro"}
    ChaveDe <- MCChaveDe
    DonoDe <- MCDonoDe
    CorpoDe <- MCCorpoDe
    MaxTentativas = 2
INVARIANTS
    UmEfeitoPorChave
    RespostaVerdadeira
    ChaveSoComEfeito
PROPERTY TodoPedidoTermina
