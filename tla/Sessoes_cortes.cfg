CONSTANTS
    Usuario = {u1}
    Requisicao = {r1, r2}
    Perfil = {"portaria", "admin", "morador"}
    Nulo = Nulo
    Dia = 3
    Horario = {0, 2}
    Validade = 2
    Renovacao = 3
    Demora = 1
    Atraso = 1
    Fim = 5
SPECIFICATION SessoesSpec
SYMMETRY Simetria
INVARIANTS SessoesTypeOK PrazoExato SenhaDesdeOCorte PerfilRetiradoTemPrazo
