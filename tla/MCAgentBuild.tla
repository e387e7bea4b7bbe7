---------------------------- MODULE MCAgentBuild ----------------------------
EXTENDS AgentBuild
MCPlaces == 1..9
MCAt == [i \in MCPlaces |-> <<10, 12, 15, 19, 22, 30, 33, 41, 25>>[i]]
MCLandmarks == 1..8
MCClash == {{3, 4}}
\* nothing, too few landmarks, a small one, a full one
MCPools == {{}, {2, 7, 9}, 1..5, 1..9}
Draft(a, b, c, ring) ==
    <<DraftCase("A", a, ring), DraftCase("B", b, ring), DraftCase("C", c, ring)>>
\* none; a good one; three times the same ring; clashing, repeated and invented places
MCDrafts == {<<>>,
             Draft(<<1, 2, 3, 5>>, <<4, 5, 6, 7, 1>>, <<1, 3, 6, 8, 2>>, FALSE),
             Draft(<<5, 2, 6, 1>>, <<5, 2, 6, 1>>, <<5, 2, 6, 1>>, TRUE),
             Draft(<<3, 4, 10, 10>>, <<1, 1, 8, 8>>, <<10>>, FALSE)}
MCTastes == {NoTaste, [banned |-> {2}, liked |-> <<8>>], [banned |-> {1, 5, 6}, liked |-> <<3>>],
             [banned |-> {}, liked |-> <<4, 7>>]}
=============================================================================
