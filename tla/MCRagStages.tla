---------------------------- MODULE MCRagStages ----------------------------
(***************************************************************************)
(* Three chunks, every order and failure of the two branches with scores   *)
(* that differ, tie and leave the range, and estimates of up to two lines. *)
(***************************************************************************)
EXTENDS RagStages

MCChunks == 1 .. 3

Ranked(ids, values) == [ok |-> TRUE, rows |-> [i \in 1 .. Len(ids) |->
                                                  [id |-> ids[i], value |-> values[i]]]]
Orders(n) == {s \in [1 .. n -> MCChunks] : \A i, j \in 1 .. n : i # j => s[i] # s[j]}

\* Every embedded chunk has a distance; an empty corpus has none.
MCVector == {Failed, Ranked(<<>>, <<>>)}
            \cup {Ranked(s, d) : s \in Orders(3), d \in {<<1, 5, 20>>, <<4, 4, 8>>}}
MCLexical == {Failed} \cup {Ranked(s, r) : s \in UNION {Orders(n) : n \in 0 .. 2},
                                          r \in {<<9, 9, 9>>, <<9, 4, 1>>}}
MCSearches == {[vector |-> v, lexical |-> l] : v \in MCVector, l \in MCLexical}

MCWindows == {<<3, 3>>, <<3, 2>>, <<2, 1>>, <<1, 2>>}
MCLogits == {<<0, 0, 0>>, <<-4, 7, 1>>, <<2, -1, 2>>}
MCConfigs == {[search |-> "hybrid", rerank |-> FALSE, fusion |-> f, routing |-> TRUE] :
                 f \in {"rrf", "round_robin"}}
             \cup {[search |-> "vector", rerank |-> TRUE, fusion |-> "round_robin",
                    routing |-> FALSE]}
MCBudgets == {1, 3, 4, 9}

MCLine == [component : {"a", "b"}, grounded : {TRUE}, cites : {{1}, {2, 3}}, hours : {0, 5, 11}]
        \cup [component : {"a"}, grounded : {FALSE}, cites : {{}, {1}}, hours : {0, 2}]
MCDrafts == {[lines |-> s, total |-> 11, insufficient |-> i] :
                s \in {<<>>} \cup {<<l>> : l \in MCLine}
                      \cup {<<[component |-> "b", grounded |-> TRUE, cites |-> {1}, hours |-> 5], l>> :
                            l \in MCLine},
                i \in BOOLEAN}

MCCollectionOf == <<"budgets", "transcripts", "budgets">>
MCSize == <<2, 3, 4>>
MCShortSize == <<1, 2, 3>>
\* The key points of a chunk may lose hours the whole text names, and name
\* others.
MCHours == <<{4}, {9}, {}>>
MCShortHours == <<{4}, {}, {7}>>
=============================================================================
