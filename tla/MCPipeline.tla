----------------------------- MODULE MCPipeline -----------------------------
(***************************************************************************)
(* Instances of Pipeline for TLC.                                          *)
(***************************************************************************)
EXTENDS Pipeline, TLC

OnePulse == {10}
TwoPulses == {10, 20}

\* The predecessors in a chain 10, 20, ...
MCPrev == [p \in PulseNumber |-> p - 10]

\* Two jets in every pulse.
TwoJets == [p \in PulseNumber |-> {<<0>>, <<1>>}]

\* The root jet in every pulse.
RootOnly == [p \in PulseNumber |-> {<< >>}]

WorkerSymmetry == Permutations(Worker)
=============================================================================
