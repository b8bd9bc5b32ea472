----------------------------- MODULE PulseChain -----------------------------
(***************************************************************************)
(* The data the platform produces, as constants: the pulse numbers, the    *)
(* predecessor each pulse names and the jets each pulse has.               *)
(***************************************************************************)
EXTENDS JetTree

CONSTANTS
  PulseNumber,    \* the pulse numbers the platform uses, in this instance
  MinTimePulse,   \* pulse.MinTimePulse, the first of them
  prev,           \* prev[p]: the PrevPulseNumber of pulse p, NoPulse for the first
  JetsOf          \* JetsOf[p]: the jets of pulse p

NoPulse == 0

Jet == UNION {JetsOf[p] : p \in PulseNumber}

\* A jet drop is identified by its pulse and its jet.
JetDrop == {d \in PulseNumber \X Jet : d[2] \in JetsOf[d[1]]}

(***************************************************************************)
(* The pulses form one chain: prev skips no pulse, only the first pulse    *)
(* has none, and, a pulse number having 32 bits, there is a last one.      *)
(***************************************************************************)
ASSUME ChainAssumption ==
  /\ PulseNumber \subseteq Nat \ {NoPulse}
  /\ MinTimePulse \in PulseNumber
  /\ prev \in [PulseNumber -> PulseNumber \cup {NoPulse}]
  /\ \A p \in PulseNumber :
       /\ MinTimePulse <= p
       /\ prev[p] < p
       /\ \A q \in PulseNumber : q < p => q <= prev[p]
  /\ \E last \in PulseNumber : \A p \in PulseNumber : p <= last

\* The jets of a pulse are the leaves of a jet tree.
ASSUME JetsAssumption ==
  /\ DOMAIN JetsOf = PulseNumber
  /\ \A p \in PulseNumber : IsFiniteSet(JetsOf[p]) /\ IsJetTree(JetsOf[p])
=============================================================================
