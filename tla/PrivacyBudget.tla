--------------------------- MODULE PrivacyBudget ----------------------------
(* xazz-exec/src/dp.rs: the privacy budget of one engine run.  A budget is   *)
(* the record of mechanisms composed so far together with the linear sums;   *)
(* spending is refused, and changes nothing, when the composition under the  *)
(* session's mode would pass a total.  Amounts are integers; delta is in     *)
(* units of its own.                                                         *)
EXTENDS Integers, Sequences

CONSTANTS TotalEps, TotalDelta, Mode, LogInvDelta

(* XAZZ_DP_BUDGET, XAZZ_DP_DELTA_BUDGET and XAZZ_DP_COMPOSITION; LogInvDelta *)
(* is ln(1/TotalDelta), which the concentrated modes convert with.           *)
ASSUME BudgetAssumption ==
    /\ TotalEps \in Nat \ {0} /\ TotalDelta \in Nat
    /\ Mode \in {"basic", "rdp", "zcdp"} /\ LogInvDelta \in Nat \ {0}

Fresh == [eps |-> 0, delta |-> 0, queries |-> <<>>]
Mechanism(m, eps, delta) == [mechanism |-> m, eps |-> eps, delta |-> delta]

(* gaussian_rho = eps^2 / (4 ln(1.25/delta)), rounded up, with 4 ln(1.25 /   *)
(* delta) taken for 4 * LogInvDelta; zcdp_to_dp = rho + 2 sqrt(rho ln(1/d)). *)
GaussianRho(eps) == (eps * eps + 4 * LogInvDelta - 1) \div (4 * LogInvDelta)
CeilSqrt(n) == CHOOSE r \in 0..n : r * r >= n /\ (r = 0 \/ (r - 1) * (r - 1) < n)
ZcdpToDp(rho) == rho + 2 * CeilSqrt(rho * LogInvDelta)

Total(f(_), queries) ==
    LET upTo[n \in 0..Len(queries)] == IF n = 0 THEN 0 ELSE upTo[n - 1] + f(queries[n])
    IN  upTo[Len(queries)]
Gaussian(q) == q.mechanism = "gaussian"
LaplaceEps(q) == IF Gaussian(q) THEN 0 ELSE q.eps
RhoOf(q) == IF Gaussian(q) THEN GaussianRho(q.eps) ELSE 0
ComposedEps(b) ==
    IF Mode = "basic" THEN b.eps
    ELSE Total(LaplaceEps, b.queries)
         + (IF \E i \in DOMAIN b.queries : Gaussian(b.queries[i])
            THEN ZcdpToDp(Total(RhoOf, b.queries))
            ELSE 0)
ComposedDelta(b) ==
    IF Mode = "basic" THEN b.delta
    ELSE IF \E i \in DOMAIN b.queries : Gaussian(b.queries[i]) THEN TotalDelta ELSE 0

(* The budget after composing count mechanisms q with it.                    *)
Compose(b, q, count) ==
    [eps |-> b.eps + count * q.eps, delta |-> b.delta + count * q.delta,
     queries |-> b.queries \o [i \in 1..count |-> q]]
RefusedBySums(b) == b.eps > TotalEps \/ b.delta > TotalDelta  \* mutant
Within(b) == ComposedEps(b) =< TotalEps /\ ComposedDelta(b) =< TotalDelta
Refused(b) ==
    \/ ~Within(b)
    \/ Mode # "basic" /\ TotalDelta = 0 /\ \E i \in DOMAIN b.queries : Gaussian(b.queries[i])

Positive(amount) == amount \in Nat \ {0}

(* spend_n: the outcome is [ok, budget].  Laplace charges no delta.          *)
SpendN(b, m, eps, delta, count) ==
    LET d == IF m = "laplace" THEN 0 ELSE delta
        c == Compose(b, Mechanism(m, eps, d), count)
    IN  IF count = 0 THEN [ok |-> TRUE, budget |-> b]
        ELSE IF ~Positive(eps) \/ (m = "gaussian" /\ ~Positive(d)) \/ Refused(c) THEN [ok |-> FALSE, budget |-> b]
        ELSE [ok |-> TRUE, budget |-> c]
=============================================================================
