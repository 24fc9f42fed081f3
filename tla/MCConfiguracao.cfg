SPECIFICATION MCSpec
CHECK_DEADLOCK FALSE
CONSTANTS
    p1 = p1
    p2 = p2
    i1 = i1
    i2 = i2
    i3 = i3
    t1 = t1
    t2 = t2
    secretaria = secretaria
    Usuarios = {i1, i2, i3}
    Papeis = {"raiz", secretaria, suporte}
    Raiz = "raiz"
    Mudancas = {p1, p2}
    Ninguem = Nada
    Quadros = {t1, t2}
    Requisicoes = {p1, p2}
    UltimaData = 1
    Vazio = Nada
    Edicoes = {p1, p2}
    Produtos = {"A", "B"}
    Chaves <- MCChaves
    Valores = {1, 2}
    IdsDaGrade = {i1, i2, i3}
    Ausente = Nada
    suporte = suporte
    Nada = Nada
    Pedidos = {p1, p2}
    UltimoDia = 1
    Validades = {7, 15}
    Padrao = 7
    Faixas <- MCFaixas
    MaxVersoes = 3
    u1 = u1
    u2 = u2
    UltimaNoite = 4
    FimDeSemana = {2}
    Catalogo <- MCCatalogo
    Lotacao = 2
    Precos = {5, 7}
    ComMinimo = {"normal"}
    Noites = {2, 3}
    Especiais <- MCEspeciais
    Feriados = {1}
    Regras <- MCRegras
    Editadas <- MCEditadas
    Mapas <- MCMapas
    Politica <- MCPolitica
    Descontos = {10, 30}
    SemValor = Nada
SYMMETRY Simetria
INVARIANTS
    VersoesContamAHistoria
    FaixaUnica
    OrcamentoFecha
    ConsultasConcordam
PROPERTIES
    GradeDeclarada
    SoCorridaFuraAsTabelas
    SoMudancaSemTravaDesfazAContagem
