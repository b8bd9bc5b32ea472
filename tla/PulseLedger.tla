---------------------------- MODULE PulseLedger ----------------------------
(***************************************************************************)
(* What the block explorer promises to the readers of its database: jet    *)
(* drops are only added; a pulse is marked complete when all its jet drops *)
(* are there, and sequential when it is complete and its predecessor is    *)
(* sequential; no mark is taken back.                                      *)
(***************************************************************************)
EXTENDS PulseChain

VARIABLES saved, complete, sequential

ledger == <<saved, complete, sequential>>

Init ==
  /\ saved = {}
  /\ complete = {}
  /\ sequential = {}

Save(d) ==
  /\ saved' = saved \cup {d}
  /\ UNCHANGED <<complete, sequential>>

Complete(p) ==
  /\ {p} \X JetsOf[p] \subseteq saved
  /\ complete' = complete \cup {p}
  /\ UNCHANGED <<saved, sequential>>

Sequence(p) ==
  /\ p \in complete
  /\ prev[p] \in sequential \cup {NoPulse}
  /\ sequential' = sequential \cup {p}
  /\ UNCHANGED <<saved, complete>>

Next ==
  \/ \E d \in JetDrop : Save(d)
  \/ \E p \in PulseNumber : Complete(p) \/ Sequence(p)

Spec == Init /\ [][Next]_ledger
=============================================================================
