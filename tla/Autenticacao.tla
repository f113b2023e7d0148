----------------------------- MODULE Autenticacao -----------------------------
(***************************************************************************)
(* What the two halves of auth.service.ts share: the accounts and the      *)
(* requests. Sessoes has sign-in and renewal, RecuperacaoConta activation  *)
(* and passwords; each has the columns of the account that it needs.       *)
(***************************************************************************)

CONSTANTS
    Usuario,       \* accounts
    Requisicao,    \* the requests of the workload, each handled once
    Nulo           \* no value: SQL NULL, nothing read, the password of the registration

=============================================================================
