CONSTANTS
    Usuario = {u1, u2}
    Token = {t1}
    Requisicao = {r1, r2, r3, r4}
    Nulo = Nulo
    Simultaneas = 3
SPECIFICATION Spec
SYMMETRY Simetria
INVARIANTS TypeOK
PROPERTIES DonoSoPorRegistro IsoladaCumpre
