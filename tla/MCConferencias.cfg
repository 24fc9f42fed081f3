SPECIFICATION MCSpec
CHECK_DEADLOCK FALSE
CONSTANTS
    Nenhum = Nenhum
    Bens = {g1, g2}
    Conferencias = {c1}
    Avarias = {a1, a2}
    Pedidos = {p1, p2}
    Quantidades <- ZeroOuDois
    Custos <- SemCotacaoOuUm
SYMMETRY Simetria
INVARIANTS FaltaViraUmaAvaria ContagemVeACopia
PROPERTY ApuracaoCongelada
