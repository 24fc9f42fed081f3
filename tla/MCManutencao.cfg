SPECIFICATION MCSpec
CHECK_DEADLOCK FALSE
CONSTANTS
    Nenhum = Nenhum
    Ordens = {o1, o2}
    Avarias = {a1}
    Blocos = {b1, b2}
    Pedidos = {p1, p2}
    UltimoDia = 1
    Janelas <- DoisPeriodos
SYMMETRY Simetria
INVARIANTS EncerradaNaoBloqueia SoApagarSeCruza
PROPERTY PassadoIntocado
