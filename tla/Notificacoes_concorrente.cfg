CONSTANTS
    s1 = s1  a1 = a1  m1 = m1  n1 = n1  e1 = e1  e2 = e2
    Notificacao = {n1, n2, n3}
    Usuario = {s1, a1, m1}
    PerfilDe <- PerfilDosUsuarios
    Encomenda = {e1, e2}
    TitularDe <- TitularDasEncomendas
    Requisicao = {r1, r2, r3}
    Nulo = Nulo
    Semente <- UmAviso
    Simultaneas = 3
SPECIFICATION Spec
SYMMETRY Simetria
INVARIANTS LembreteEncontrado
PROPERTIES RespostaVerdadeira SoQuemPode
