---------------------------- MODULE MCJetDropsAPI ----------------------------
EXTENDS JetDropsAPI

\* Two splits, and a merge before a split.
MCLedgers ==
  {<<{<<>>}, {<<0>>, <<1>>}, {<<0>>, <<1, 0>>, <<1, 1>>}>>,
   <<{<<0>>, <<1>>}, {<<>>}, {<<0>>, <<1>>}>>}

MCPathRequests == {[jetID |-> Star, pulseNumber |-> 2], [jetID |-> <<1>>, pulseNumber |-> 1],
                   [jetID |-> <<1>>, pulseNumber |-> 2],
                   [jetID |-> <<>>, pulseNumber |-> 2]}

MCListRequests ==
  {NoParams, [NoParams EXCEPT !.jetID = <<1>>, !.gt = {1}],
   [NoParams EXCEPT !.gte = {2}, !.lte = {3}, !.limit = {2}, !.sortBy = {"asc"}],
   [NoParams EXCEPT !.jetID = <<>>], [NoParams EXCEPT !.lt = {0}]}

MCPulseRequests ==
  {[NoParams EXCEPT !.pulseNumber = p, !.limit = l] : p \in {2, 3}, l \in {{}, {1}}} \cup
  {[NoParams EXCEPT !.pulseNumber = 0], [NoParams EXCEPT !.pulseNumber = 2, !.offset = {-1}]}
==============================================================================
