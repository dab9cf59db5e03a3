-------------------------- MODULE MCObservability --------------------------
(* A small instance of Observability: captures that agree in some of their *)
(* dimensions and differ in others.                                        *)
EXTENDS Observability

First == [wave |-> "w1", issue |-> 1, role |-> "implementer", skill |-> "s1", model |-> 1,
          tokens_in |-> 1, tokens_out |-> 1, cost |-> 3, retry_count |-> 0,
          outcome |-> "blocked"]
SameKey == [First EXCEPT !.tokens_in = 2, !.retry_count = 3, !.outcome = "error"]
Cheaper == [First EXCEPT !.role = "reviewer", !.skill = "s2", !.model = 2, !.tokens_in = 3,
                         !.cost = 1, !.outcome = "completed"]
Longer == [First EXCEPT !.wave = "w2", !.issue = 2, !.skill = "s3", !.tokens_in = 9]

Silent(c) == [c EXCEPT !.tokens_in = 0]

MCCaptures ==
    {<<First, SameKey, Cheaper>>, <<Silent(First), Silent(Cheaper), Longer>>}

\* What goes wrong goes wrong with one capture, on the first day.
MCMishaps == {<<First, 0>>}
=============================================================================
