------------------------------- MODULE Painel -------------------------------
(***************************************************************************)
(* The periods of the dashboard (dashboard.service.ts): the day, the week, *)
(* which runs from Monday to Sunday, and the month of a date. The process  *)
(* runs in UTC (main.ts), so a date is a whole day whatever its hour. Days *)
(* are counted from Monday the 1st of January of a leap year, like 2024,   *)
(* and every fourth year after it is one, as until 2100.                   *)
(***************************************************************************)
EXTENDS Integers

CONSTANTS
    UltimoDia      \* the last day looked at (a bound)

ASSUME UltimoDiaNatural == UltimoDia \in Nat

VARIABLE hoje      \* the date of reference

PainelInit == hoje = 0
PainelTypeOK == hoje \in 0..UltimoDia

VirarDia == hoje < UltimoDia /\ hoje' = hoje + 1

\* Months are counted from that January: month 12 is January of the next year.
DiasDoMes(m) ==
    CASE m % 12 = 1 -> IF (m \div 12) % 4 = 0 THEN 29 ELSE 28
      [] m % 12 \in {3, 5, 8, 10} -> 30
      [] OTHER -> 31

\* The day on which a month begins: the days of the years before it, the leap days
\* among them, and of the months before it in its year.
InicioDoMes(m) ==
    LET ano == m \div 12  mes == m % 12
    IN  365 * ano + (ano + 3) \div 4 + (IF mes > 1 /\ ano % 4 = 0 THEN 1 ELSE 0)
        + CASE mes = 0 -> 0    [] mes = 1 -> 31   [] mes = 2 -> 59   [] mes = 3 -> 90
            [] mes = 4 -> 120  [] mes = 5 -> 151  [] mes = 6 -> 181  [] mes = 7 -> 212
            [] mes = 8 -> 243  [] mes = 9 -> 273  [] mes = 10 -> 304 [] OTHER -> 334

\* Date.getDay (0 is Sunday), Date.getMonth over the years, and new Date(ano, mes, dia).
DiaDaSemana(d) == (d + 1) % 7
Mes(d) == CHOOSE m \in 0..d : InicioDoMes(m) <= d /\ d < InicioDoMes(m + 1)
Data(mes, dia) == InicioDoMes(mes) + dia - 1

ResolverDiario(d) == [inicio |-> d, fim |-> d]

\* Mutant of ResolverSemanal: a Sunday begins the week of the Monday after it.
ResolverSemanal_DomingoAdiante(d) ==
    LET inicio == d + 1 - DiaDaSemana(d)
    IN  [inicio |-> inicio, fim |-> inicio + 6]

ResolverSemanal(d) ==
    LET inicio == d + (IF DiaDaSemana(d) = 0 THEN -6 ELSE 1 - DiaDaSemana(d))
    IN  [inicio |-> inicio, fim |-> inicio + 6]

\* From the first of the month to the day before the first of the next.
ResolverMensal(d) == [inicio |-> Data(Mes(d), 1), fim |-> Data(Mes(d) + 1, 0)]

=============================================================================
