CONSTANTS
    Requisicao = {r1, r2, r3}
    Maximo = 3
    Transportadora = {t1}
    Condominio = {c1, c2}
    Chave = {x, y}
    Nulo = Nulo
    Simultaneas = 3
SPECIFICATION Spec
SYMMETRY Simetria
INVARIANTS TravaSoNoLimite
PROPERTIES RemovidaFica EfeitoAuditado
