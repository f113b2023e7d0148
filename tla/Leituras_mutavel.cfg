CONSTANTS
    u1 = u1
    u2 = u2
    u3 = u3
    Encomenda = {e1, e2}
    Pessoa = {p1, p2}
    Unidade = {u1, u2, u3}
    CondominioDa <- DoisPredios
    Nulo = Nulo
    Mudancas = 3
    Validade = 1
    CondominioPortaria = "norte"
    Tamanho = 1
    Filtros <- FiltrosTentados
    Minuto = 2
    UltimoInstante = 6
    MaxEventos = 4
    SemData = SemData
    UltimoDia = 800
    admin = admin
    porteiro = porteiro
    morador = morador
    Conta = {admin, porteiro, morador}
    PerfilDe <- UmDeCada
    UltimaData = 1
SPECIFICATION Spec
CHECK_DEADLOCK FALSE
SYMMETRY Simetria
INVARIANTS RegrasConcordam PercursoCompleto HistoriaContaOStatus PainelCerto
