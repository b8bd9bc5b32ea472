----------------------------- MODULE MCPulsesAPI -----------------------------
EXTENDS PulsesAPI

MCFilters ==
  {NoParams,
   [NoParams EXCEPT !.gt = {1}], [NoParams EXCEPT !.gte = {2}, !.lt = {4}],
   [NoParams EXCEPT !.lte = {3}], [NoParams EXCEPT !.fromPulse = {3}],
   [NoParams EXCEPT !.timestampGte = {2}], [NoParams EXCEPT !.timestampLte = {3}],
   [NoParams EXCEPT !.lt = {0}], [NoParams EXCEPT !.sortBy = {"index"}]}

MCRequests ==
  {[f EXCEPT !.sortBy = IF f.sortBy = {} THEN s ELSE @, !.limit = l] :
     f \in MCFilters, s \in {{}, {"asc"}}, l \in {{}, {1}, {4}}}
=============================================================================
