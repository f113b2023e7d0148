CONSTANTS
    m1 = m1  m2 = m2  m3 = m3  m4 = m4  p1 = p1  p2 = p2  a1 = a1  s1 = s1
    c1 = c1  c2 = c2  u1 = u1  u2 = u2  u3 = u3
    Nulo = Nulo
    Encomenda = {e1}
    Requisicao = {r1, r2, r3}
    Usuario = {m1, a1, s1}
    Ativo = {m1, a1, s1}
    PerfilDe <- PopulacaoPerfil
    CondominioDe <- PopulacaoCondominio
    UnidadeDe <- PopulacaoUnidade
    TemPromessa = TRUE
    Operacoes = {"create", "update", "recebida", "retirada", "outroStatus", "baixa", "restore", "remove", "hardRemove"}
    Simultaneas = 3
SPECIFICATION FairSpec
PROPERTIES TodaRequisicaoTermina
