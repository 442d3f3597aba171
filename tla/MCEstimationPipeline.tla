----------------------- MODULE MCEstimationPipeline -----------------------
(* Small instances of EstimationPipeline for TLC.                          *)
EXTENDS EstimationPipeline, TLC

CONSTANTS f1, f2, near1, near2, far, pii, domain, leak, thin

MCFields == {f1, f2}
MCTexts == {near1, near2, far}
MCBlocking == {pii}
MCFilter == {domain}
MCOutput == {leak, thin}

\* near1 and near2 say the same in other words.
MCSimilarity == [t \in MCTexts |-> [u \in MCTexts |->
    IF t = u THEN 10 ELSE IF far \in {t, u} THEN 3 ELSE 9]]

Plain(f, t) == [fields |-> f, text |-> t, failing |-> {}, twoPhase |-> FALSE, acb |-> FALSE]

\* Requests that may share an entry, and one of each kind that may not.
MCRequests == {
    Plain(f1, near1),
    [Plain(f1, near2) EXCEPT !.twoPhase = TRUE],
    Plain(f1, far),
    Plain(f2, near1),
    [Plain(f1, near1) EXCEPT !.failing = {pii, domain}],
    [Plain(f1, near1) EXCEPT !.failing = {domain}],
    [Plain(f1, near1) EXCEPT !.acb = TRUE]}

MCDeployments == {
    [mode |-> "off", enforced |-> {leak}],
    [mode |-> "barred", enforced |-> {leak}],
    [mode |-> "log_only", enforced |-> {leak}],
    [mode |-> "serve", enforced |-> {leak}],
    [mode |-> "serve", enforced |-> {leak, thin, domain, pii}]}

CallSymmetry == Permutations(Calls)
=============================================================================
