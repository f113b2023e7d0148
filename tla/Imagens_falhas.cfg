CONSTANTS
    Requisicao = {r1, r2, r3}
    Nulo = Nulo
    LadoMaximo = 3
    Limite <- LimitePorTipo
    Gravacoes = 2
    Simultaneas = 3
SPECIFICATION Spec
SYMMETRY Simetria
INVARIANTS LinhaTemArquivo SobraSoDeFalha TudoOuNada
