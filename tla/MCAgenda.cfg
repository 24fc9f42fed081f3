SPECIFICATION Spec
CHECK_DEADLOCK FALSE
CONSTANTS
    r1 = r1
    r2 = r2
    m1 = m1
    m2 = m2
    u1 = u1
    u2 = u2
    h1 = h1
    h2 = h2
    p1 = p1
    p2 = p2
    Nenhum = Nenhum
    Estadias = {r1}
    Manuais = {m1, m2}
    Unidades = {u1, u2}
    Pedidos = {p1, p2}
    Periodo <- UmaNoite
    Tipos = {"checkout", "limpeza"}
    Horarios = {h1, h2}
    DiasMarcados = {0}
    UltimoDia = 1
SYMMETRY Simetria
INVARIANTS
    EventoSegueReserva
    AutomaticoNoHorario
    MarcacoesNaoSeCruzam
