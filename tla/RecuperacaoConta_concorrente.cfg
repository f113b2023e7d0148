CONSTANTS
    Usuario = {u1, u2}
    Requisicao = {r1, r2, r3, r4}
    Codigo = {c1, c2}
    Nulo = Nulo
    Simultaneas = 2
SPECIFICATION Spec
SYMMETRY Simetria
INVARIANTS TypeOK SenhaPorQuemPodia TokenGastoNaoVolta AtivadaPorCodigo
PROPERTIES JustificadaSeIsolada
