---------------------------- MODULE MCRecordsAPI ----------------------------
EXTENDS RecordsAPI

MCRecord(reference, type, object, jet, pulse, change) ==
  [reference |-> reference, type |-> type, objectReference |-> object,
   jetID |-> jet, pulseNumber |-> pulse, change |-> change]

MCLedger ==
  {MCRecord("a1", "state", "a", <<0>>, 1, 1), MCRecord("a2", "state", "a", <<0>>, 1, 2),
   MCRecord("b1", "state", "b", <<0>>, 1, 1), MCRecord("q1", "request", "a", <<1>>, 1, 0),
   MCRecord("a3", "state", "a", <<>>, 2, 3)}

MCLifelineRequests ==
  {[NoParams EXCEPT !.objectReference = "a", !.sortBy = s, !.limit = l] :
     s \in {{}, {"asc"}}, l \in {{}, {1}}} \cup
  {[NoParams EXCEPT !.objectReference = "a", !.gt = {1}],
   [NoParams EXCEPT !.objectReference = "a", !.lt = {2}, !.sortBy = {"asc"}],
   [NoParams EXCEPT !.objectReference = "a", !.timestampLte = {1}, !.timestampGte = {1}],
   [NoParams EXCEPT !.objectReference = "", !.sortBy = {"name"}]}

MCRecordsRequests ==
  {[NoParams EXCEPT !.jetDropID = [jetID |-> <<0>>, pulseNumber |-> 1], !.type = t, !.limit = l] :
     t \in {{}, {"state"}, {"other"}}, l \in {{}, {1}}} \cup
  {[NoParams EXCEPT !.jetDropID = [jetID |-> Star, pulseNumber |-> 2]],
   [NoParams EXCEPT !.jetDropID = [jetID |-> <<7>>, pulseNumber |-> 2]],
   [NoParams EXCEPT !.fromIndex = {<<1>>}]}

MCSearchRequests ==
  {[kind |-> "number", number |-> n, reference |-> ""] : n \in {0, 1}} \cup
  {[kind |-> k, number |-> 0, reference |-> ""] : k \in {"jet-drop", "object", "other"}} \cup
  {[kind |-> "record", number |-> 0, reference |-> r] : r \in {"a2", "b1", "q1"}}
=============================================================================
