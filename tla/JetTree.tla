------------------------------ MODULE JetTree ------------------------------
(***************************************************************************)
(* The completeness test of etl/controller/pulsemaintainer.go.             *)
(*                                                                         *)
(* A jet is an address in a binary tree, the sequence of 0s and 1s the     *)
(* source writes as a string; the jets of one pulse are the leaves of such *)
(* a tree.  pulseIsComplete is handed the jets whose drops have arrived    *)
(* and no tree, and decides from the addresses alone whether none is       *)
(* missing.                                                                *)
(***************************************************************************)
EXTENDS Integers, Sequences, FiniteSetsExt

Root == << >>

\* invertLastSymbol: the address of the sibling; the source panics on the root.
InvertLastSymbol(s) == [s EXCEPT ![Len(s)] = 1 - @]

Prefix(s, i) == SubSeq(s, 1, i)

\* Some arrived jet is the jet s or lies below it: strings.Index(jet, s) = 0.
Reaches(d, s) == \E jet \in d : Len(s) <= Len(jet) /\ Prefix(jet, Len(s)) = s

\* Only the siblings of the ancestors are looked for, not those of the arrived jets.
PulseIsCompleteAbove(d) ==
  \/ d = {Root}
  \/ /\ d # {}
     /\ \A jet \in d : \A i \in 1 .. Len(jet) - 1 :
          Reaches(d, InvertLastSymbol(Prefix(jet, i)))

(***************************************************************************)
(* pulseIsComplete.  The first loop of the source asks for the sibling of  *)
(* every jet (or something below it), the second for the sibling of every  *)
(* proper, non-root ancestor; together, for the sibling of every non-empty *)
(* prefix.  checkedJetIDs only remembers answers.                          *)
(***************************************************************************)
PulseIsComplete(d) ==
  \/ d = {Root}
  \/ /\ d # {}
     /\ \A jet \in d : Reaches(d, InvertLastSymbol(jet))
     /\ \A jet \in d : \A i \in 1 .. Len(jet) - 1 :
          Reaches(d, InvertLastSymbol(Prefix(jet, i)))
-----------------------------------------------------------------------------
(***************************************************************************)
(* The leaves of a binary tree: a node above a leaf has both children, and *)
(* no leaf is above another.                                               *)
(***************************************************************************)
IsJetTree(leaves) ==
  /\ leaves # {}
  /\ leaves \subseteq Seq({0, 1})
  /\ \A jet \in leaves : \A i \in 0 .. Len(jet) - 1 : \A b \in {0, 1} :
       Reaches(leaves, Append(Prefix(jet, i), b))
  /\ \A jet \in leaves : ~Reaches(leaves \ {jet}, jet)
=============================================================================
