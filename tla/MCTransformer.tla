---------------------------- MODULE MCTransformer ----------------------------
(***************************************************************************)
(* An instance of Transformer: many small sets of records in one jet, and  *)
(* pulses with several jets and every kind of record.                      *)
(***************************************************************************)
EXTENDS Transformer

CONSTANTS j0, j1, A, B

Raw(id, kind, object, prev, jet) ==
  [id |-> id, kind |-> kind, object |-> object, owner |-> A, prev |-> prev, jet |-> jet]

LastOne == [pulse |-> 2, genesis |-> FALSE, jets |-> <<j0>>, records |-> <<>>]

\* States of A that make chains, forks, cycles, repetitions and a chain with its start outside the
\* pulse, and now and then a state of B and a request.
Links == {<<1, 4>>, <<2, 1>>, <<3, 2>>, <<3, 1>>, <<1, 3>>}

ShapePool ==
  {Raw(link[1], "amend", A, link[2], j0) : link \in Links}
    \cup {Raw(1, "activate", A, NoRef, j0), Raw(6, "deactivate", B, 5, j0), Raw(7, "incoming", A, NoRef, j0)}

\* The id of a record is a hash of its content.
Identified(s) == \A r, t \in ToSet(s) : r.id = t.id => r = t

Shapes ==
  {[pulse |-> 1, genesis |-> FALSE, jets |-> <<j0>>, records |-> s] :
     s \in {x \in BoundedSeq(ShapePool, 3) : Identified(x)}}

\* The kinds of records, in the first pulse of the network and in another.
KindPool ==
  {Raw(1, "activate", NoRef, NoRef, j0), Raw(2, "amend", NoRef, 1, j0), Raw(3, "deactivate", B, 4, j1),
   Raw(5, "result", NoRef, NoRef, j0), Raw(6, "code", NoRef, NoRef, j1),
   Raw(7, "broken", NoRef, NoRef, j1)}

Kinds ==
  {[pulse |-> 1, genesis |-> g, jets |-> <<j0, j1>>, records |-> s] :
     g \in BOOLEAN, s \in BoundedSeq(KindPool, 2)}

ShapesAndKinds == Shapes \cup Kinds
=============================================================================
