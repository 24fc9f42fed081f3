SPECIFICATION MCSpec
CONSTANTS
    l1 = l1
    c1 = c1
    c2 = c2
    q1 = q1
    q2 = q2
    k1 = k1
    k2 = k2
    p1 = p1
    p2 = p2
    Nada = Nada
    Leads = {l1}
    Cards = {c1, c2}
    Orcamentos = {q1, q2}
    Contatos = {k1, k2}
    Etapas = {"novo", "proposta"}
    ComTarefa = {"novo"}
    Pedidos = {p1, p2}
    MaxTabela = 2
SYMMETRY Simetria
INVARIANTS
    VendaDoCard
    OrigemSoSePerdeAssim
    CardContaAHistoria
