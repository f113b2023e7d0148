CONSTANTS
    s1 = s1  a1 = a1  m1 = m1  n1 = n1  n2 = n2
    k1 = k1  k2 = k2  q1 = q1  q2 = q2  q3 = q3
    d1 = d1  d2 = d2  d3 = d3  d4 = d4  x1 = x1  x2 = x2  x3 = x3  x4 = x4
    Nulo = Nulo
    Usuario = {s1, m1, n1}
    Requisicao = {r1, r2, r3}
    Condominio = {k1, k2}
    Unidade = {q1, q2}
    CondominioDa <- CondominioDasUnidades
    Documento = {d1, d4}
    Email = {x1, x3, x4}
    Semente <- Populacao
    Operacoes = {"signUp", "create", "update", "aprovar", "revogar", "updateRole", "updateUnidade", "remove", "restore", "hardRemove", "unidade"}
    Simultaneas = 3
SPECIFICATION Spec
SYMMETRY Simetria
INVARIANTS TypeOK VinculoCoerente
PROPERTIES RemovidoNaoMuda
