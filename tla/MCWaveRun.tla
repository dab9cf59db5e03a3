----------------------------- MODULE MCWaveRun -----------------------------
(* A small instance of WaveRun: two issues in the first repository, and    *)
(* one in the second whose number may be that of another.                  *)
EXTENDS WaveRun

MCNumbers == 1..3

\* An issue depends on at most two, maybe on the same one twice, maybe on
\* one that is not in the wave.
MCDeps == {<<>>} \cup {<<d>> : d \in MCNumbers \cup {4}} \cup {<<d, e>> : d, e \in MCNumbers}

MCCheckouts == {{1}, {1, 2}}

MCIssue(n) == {[number |-> n, deps |-> deps] : deps \in MCDeps}

MCListings ==
    {<<<<a, b>>, <<c>>>> : a \in MCIssue(1), b \in MCIssue(2), c \in MCIssue(3)}
    \cup {<<<<a, b>>, <<c>>>> : a \in MCIssue(1), b \in MCIssue(2), c \in MCIssue(2)}
    \cup {<<<<>>, <<>>>>, <<<<>>, <<[number |-> 1, deps |-> <<>>]>>>>}
=============================================================================
