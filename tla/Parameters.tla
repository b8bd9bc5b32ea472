----------------------------- MODULE Parameters -----------------------------
(***************************************************************************)
(* The parameters of the API's requests: the checks of api/handlers.go and *)
(* the written form of jet drop ids of etl/models/models.go.  A check      *)
(* gives the set of the properties it reports as failures.                 *)
(*                                                                         *)
(* The text of a jet id is a sequence too; "*" stands for the root jet,    *)
(* whose id is empty.  An index is <<pulse number, order>>.                *)
(***************************************************************************)
EXTENDS Integers, Sequences

CONSTANTS
  DefaultLimit,    \* 20 in the source
  MaxLimit,        \* 1000 in the source
  MinPulseNumber   \* the smallest pulse number the platform calls valid

ASSUME ParametersAssumption ==
  /\ DefaultLimit \in 1..MaxLimit
  /\ MaxLimit \in Nat /\ MinPulseNumber \in Nat

\* An optional parameter or its default.
Or(param, default) == IF param = {} THEN default ELSE CHOOSE v \in param : TRUE

Limit(limit) == Or(limit, DefaultLimit)
Offset(offset) == Or(offset, 0)

checkLimitOffset(limit, offset) ==
  (IF Limit(limit) <= 0 \/ Limit(limit) > MaxLimit THEN {"limit"} ELSE {}) \cup
  (IF Offset(offset) < 0 THEN {"offset"} ELSE {})

IsValidAsPulseNumber(n) == n >= MinPulseNumber

getPulseNumberValue(param, name) == IF \A n \in param : IsValidAsPulseNumber(n) THEN {} ELSE {name}

checkSortBy(sortBy) == IF sortBy \subseteq {"asc", "desc"} THEN {} ELSE {"sort_by"}
SortAsc(sortBy) == sortBy = {"asc"}

\* CheckIndex: two numbers.
CheckIndex(index, name) == IF \A i \in index : Len(i) = 2 THEN {} ELSE {name}
-----------------------------------------------------------------------------
Star == <<-1>>

\* jetIDRegexp.
IsJetID(text) == text = Star \/ (text # <<>> /\ \A i \in DOMAIN text : text[i] \in {0, 1})

JetIDToString(jetID) == IF jetID = <<>> THEN Star ELSE jetID

IDToString(id) == [jetID |-> JetIDToString(id.jetID), pulseNumber |-> id.pulseNumber]

\* The star is taken for an id.
NewJetDropIDLiteral(jetID, pulseNumber) == [jetID |-> jetID, pulseNumber |-> pulseNumber]

NewJetDropID(jetID, pulseNumber) ==
  [jetID |-> IF jetID = Star THEN <<>> ELSE jetID, pulseNumber |-> pulseNumber]

\* NewJetDropIDFromString and its error.
NewJetDropIDFromString(text) == NewJetDropID(text.jetID, text.pulseNumber)
checkJetDropID(text, name) == IF IsJetID(text.jetID) THEN {} ELSE {name}

checkJetID(text) == IF IsJetID(text) THEN {} ELSE {"jet-id path parameter"}
JetIDOfPath(text) == IF text = Star THEN <<>> ELSE text
=============================================================================
