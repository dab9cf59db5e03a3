------------------------- MODULE EfficiencyReports -------------------------
(***************************************************************************)
(* The efficiency reports (observability/reports.py), as operators on a    *)
(* table of rollup rows: a function whose values are records with the      *)
(* dimensions and the sums of a row.  A quotient is a pair of numerator    *)
(* and denominator; names are numbers where their order matters.           *)
(***************************************************************************)
EXTENDS Integers, Sequences, FiniteSets, Functions, SequencesExt

CONSTANTS
    Threshold,  \* regression_threshold_pct
    RetryRate,  \* high_retry_rate
    Verbose,    \* verbose_multiplier
    InputRatio  \* high_input_ratio

ASSUME ThresholdAssumption == {Threshold, RetryRate, Verbose, InputRatio} \subseteq Nat

Total(T, field) == SumFunction([k \in DOMAIN T |-> T[k][field]])
Tokens(T) == Total(T, "tokens_in") + Total(T, "tokens_out")

Slice(T, dimension, value) ==
    LET K == {k \in DOMAIN T : T[k][dimension] = value} IN [k \in K |-> T[k]]

Values(T, dimension) == {T[k][dimension] : k \in DOMAIN T}

_token_breakdown(T) ==
    LET By(dimension) == [v \in Values(T, dimension) |-> Tokens(Slice(T, dimension, v))]
    IN  [by_issue |-> By("issue"), by_role |-> By("role"), by_skill |-> By("skill"),
         by_wave |-> By("wave"), total_in |-> Total(T, "tokens_in"),
         total_out |-> Total(T, "tokens_out")]

\* The skills with more than RetryRate retries a session.
Looping(T) ==
    {k \in Values(T, "skill") :
        LET S == Slice(T, "skill", k)
        IN  Total(S, "retry_count") > RetryRate * Total(S, "session_count")}

_retry_rate(T) == <<Total(T, "retry_count"), Total(T, "session_count")>>

_retry_stats(T) ==
    [total_retries |-> Total(T, "retry_count"), avg_per_session |-> _retry_rate(T),
     high_retry_skills |-> Looping(T)]

_model_outcomes(T) ==
    [m \in Values(T, "model") |->
        LET M == Slice(T, "model", m)
        IN  [session_count |-> Total(M, "session_count"),
             completed_count |-> Total(M, "completed_count"),
             blocked_count |-> Total(M, "blocked_count"),
             error_count |-> Total(M, "error_count"),
             total_tokens |-> Tokens(M), cost |-> Total(M, "cost")]]

\* Mutant: the rows are counted instead of the issues.
TokensPerRow(T) == <<Tokens(T), Cardinality(DOMAIN T)>>

_tokens_per_issue(T) == <<Tokens(T), Cardinality(Values(T, "issue"))>>

Increased(e, l) ==
    /\ e[1] > 0
    /\ (l[1] * e[2] - e[1] * l[2]) * 100 > Threshold * e[1] * l[2]

\* Each month with rows is compared with the next one that has any.
_detect_regressions(T) ==
    LET months == Values(T, "month")
        Grown(Rate(_), a, b) == Increased(Rate(Slice(T, "month", a)), Rate(Slice(T, "month", b)))
    IN  {p \in {"tokens_per_issue", "retry_rate"} \X months \X months :
            /\ p[2] < p[3]
            /\ \A m \in months : ~(p[2] < m /\ m < p[3])
            /\ IF p[1] = "retry_rate" THEN Grown(_retry_rate, p[2], p[3])
               ELSE Grown(_tokens_per_issue, p[2], p[3])}

\* statistics.median of the quotients of a set of skills.
Median(S, quotient) ==
    LET q == SetToSortSeq(S, LAMBDA a, b : quotient[a][1] * quotient[b][2]
                                         < quotient[b][1] * quotient[a][2])
        n == Len(q)
        low == quotient[q[(n + 1) \div 2]]
        high == quotient[q[n \div 2 + 1]]
    IN  <<low[1] * high[2] + high[1] * low[2], 2 * low[2] * high[2]>>

avg_in_per_session(T) ==
    [k \in Values(T, "skill") |->
        LET S == Slice(T, "skill", k) IN <<Total(S, "tokens_in"), Total(S, "session_count")>>]

MedianInput(T) == Median(Values(T, "skill"), avg_in_per_session(T))

\* The skills whose prompts are long against the median.
TooVerbose(T) ==
    LET skills == Values(T, "skill")
        avg == avg_in_per_session(T)
        med == MedianInput(T)
    IN  IF Cardinality(skills) < 2 THEN {}
        ELSE {k \in skills : avg[k][1] * med[2] > Verbose * med[1] * avg[k][2]}

\* The suggestion names the quotient of the skill's average and the median:
\* there is no report when half of the skills have read nothing.
DividesByZero(T) == TooVerbose(T) # {} /\ MedianInput(T)[1] = 0

\* A model is compared with those after it in the order of the names.
_model_cost_suggestions(outcomes) ==
    {p \in (DOMAIN outcomes) \X (DOMAIN outcomes) :
        LET a == outcomes[p[1]]
            b == outcomes[p[2]]
        IN  /\ p[1] < p[2]
            /\ a.cost * b.session_count > b.cost * a.session_count
            /\ a.completed_count * b.session_count <= b.completed_count * a.session_count}

_suggestions(T) ==
    [verbose_skill |-> TooVerbose(T),
     looping_step |-> Looping(T),
     high_input_ratio |-> /\ Total(T, "tokens_out") > 0
                          /\ Total(T, "tokens_in") > InputRatio * Total(T, "tokens_out"),
     high_cost_model |-> _model_cost_suggestions(_model_outcomes(T))]

\* The report, if there is one.
_build_report(T) == IF DividesByZero(T) THEN {} ELSE {
    [total_sessions |-> Total(T, "session_count"), total_cost_usd |-> Total(T, "cost"),
     tokens |-> _token_breakdown(T), retries |-> _retry_stats(T),
     model_outcomes |-> _model_outcomes(T), regressions |-> _detect_regressions(T),
     suggestions |-> _suggestions(T)]}

generate_on_demand(T) == _build_report(T)
generate_for_wave(T, wave) == _build_report(Slice(T, "wave", wave))
generate_for_month(T, month) == _build_report(Slice(T, "month", month))
=============================================================================
