SPECIFICATION SpecTempoReal
CONSTANTS
  corretor = corretor
  bloco = bloco
  Clientes = {corretor}
  Linhas = {bloco}
  TopicoDe <- TopicoDasLinhas
  Topicos <- OsDois
  Restritos = {corretor}
  Ninguem = Ninguem
  DonoNoInicio <- DoCorretor
  EventosNoBuffer = 1
  CapacidadePorAssinante = 1
  MaximoPorChave = 1
  MaxMudancas = 2
  MaxFaltas = 2
INVARIANTS FioHonesto
PROPERTY TelaAlcanca
CHECK_DEADLOCK FALSE
