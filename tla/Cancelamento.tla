----------------------------- MODULE Cancelamento -----------------------------
(***************************************************************************)
(* The tiers of a cancellation policy: which sets of tiers the panel may   *)
(* publish (tarifario/dto.go) and which tier a cancellation falls in       *)
(* (domain/booking/cancellation.go).  A tier is [min, max, pct], in days   *)
(* before check-in; SemLimite is a bound left open.                        *)
(***************************************************************************)
EXTENDS Integers, Sequences, Functions

SemLimite == -1
SemTeto   == 1073741824        \* semTeto, 1 << 30

\* The days before check-in a tier covers, as a closed interval.
Intervalo(f) == [lo |-> IF f.min = SemLimite THEN 0 ELSE f.min,
                 hi |-> IF f.max = SemLimite THEN SemTeto ELSE f.max]

\* The places of the tiers in order of their floors, those of one floor as they were sent.
EmOrdem(fs, p) ==
    \A i, j \in DOMAIN fs : i < j =>
        LET a == Intervalo(fs[p[i]]).lo
            b == Intervalo(fs[p[j]]).lo
        IN  a < b \/ (a = b /\ p[i] < p[j])

\* Mutant: a tier may begin on the very day another ends.
CoberturaComSobra(fs) ==
    \E p \in Bijection(DOMAIN fs, DOMAIN fs) :
        LET o == [i \in DOMAIN fs |-> Intervalo(fs[p[i]])]
        IN  /\ EmOrdem(fs, p)
            /\ o[1].lo = 0 /\ o[Len(fs)].hi = SemTeto
            /\ \A i \in 2..Len(fs) : o[i].lo >= o[i - 1].hi /\ o[i].lo <= o[i - 1].hi + 1

\* Put in order of their floors, the tiers begin at zero, follow each other with
\* neither gap nor overlap, and the last is open.
CoberturaCompleta(fs) ==
    \E p \in Bijection(DOMAIN fs, DOMAIN fs) :
        LET o == [i \in DOMAIN fs |-> Intervalo(fs[p[i]])]
        IN  /\ EmOrdem(fs, p)
            /\ o[1].lo = 0 /\ o[Len(fs)].hi = SemTeto
            /\ \A i \in 2..Len(fs) : o[i].lo > o[i - 1].hi /\ o[i].lo <= o[i - 1].hi + 1

\* Each tier on its own, then all of them together.
Validar(fs) ==
    /\ fs # <<>>
    /\ \A i \in DOMAIN fs :
          fs[i].min # SemLimite /\ fs[i].max # SemLimite => fs[i].max >= fs[i].min
    /\ CoberturaCompleta(fs)

Aplica(f, dias) ==
    /\ f.min >= 0 => dias >= f.min
    /\ f.max >= 0 => dias <= f.max

\* What a cancellation gives back of `pago': the first tier that applies, rounded
\* half up; with none, nothing, and a person decides.
Simulate(fs, pago, dias) ==
    LET cabem == {i \in DOMAIN fs : Aplica(fs[i], dias)}
    IN  IF cabem = {} THEN 0
        ELSE LET i == CHOOSE i \in cabem : \A j \in cabem : i <= j
             IN  (2 * pago * fs[i].pct + 100) \div 200
===============================================================================
