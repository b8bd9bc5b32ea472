--------------------------- MODULE JetDropSource ---------------------------
(***************************************************************************)
(* Where jet drops come from: the platform, the extractor that follows it  *)
(* and reloads ranges of pulses on request, and the transformer that cuts  *)
(* a pulse into jet drops, seen from the processor and the controller.     *)
(*                                                                         *)
(* The goroutines that retrieve records, and the channels behind them,     *)
(* deliver in no particular order, so what is under way is a set.          *)
(***************************************************************************)
EXTENDS PulseChain

CONSTANT MaxLosses    \* bound: deliveries that lose jet drops

VARIABLES
  head,         \* the latest finalized pulse of the platform
  mainPulse,    \* the pulse the extractor's main thread retrieved last
  loaders,      \* one record per running retrievePulses of a reload
  underWay,     \* jet drops extracted and not yet taken by the processor
  losses        \* how many deliveries lost something

sourceVars == <<head, mainPulse, loaders, underWay, losses>>

Loader == [before : Nat, until : Nat]

SourceTypeOK ==
  /\ head \in PulseNumber
  /\ mainPulse \in PulseNumber \cup {NoPulse}
  /\ loaders \subseteq Loader
  /\ underWay \subseteq JetDrop
  /\ losses \in Nat

SourceInit ==
  /\ head \in PulseNumber
  /\ mainPulse = NoPulse
  /\ loaders = {}
  /\ underWay = {}
  /\ losses = 0
-----------------------------------------------------------------------------
\* The platform finalizes its next pulse.
FinalizePulse ==
  /\ \E p \in PulseNumber : prev[p] = head /\ head' = p
  /\ UNCHANGED <<mainPulse, loaders, underWay, losses>>

\* The platform's answer: the successor of a pulse, the latest pulse for zero.
GetNextFinalizedPulse(before) ==
  IF before = NoPulse
  THEN {head}
  ELSE {p \in PulseNumber : before < p /\ p <= head /\ prev[p] <= before}

(***************************************************************************)
(* retrieveRecords and the transformer hand on the jet drops of a pulse:   *)
(* all of them, or some when the stream breaks off (then the pulse is      *)
(* given up) or the records of a jet do not sort.                          *)
(***************************************************************************)
Deliver(p) ==
  \E jets \in SUBSET JetsOf[p] :
    /\ jets # JetsOf[p] => losses < MaxLosses
    /\ losses' = IF jets = JetsOf[p] THEN losses ELSE losses + 1
    /\ underWay' = underWay \cup ({p} \X jets)

\* One turn of retrievePulses(0, 0): never ends.
MainThread ==
  \E p \in GetNextFinalizedPulse(mainPulse) :
    /\ mainPulse' = p
    /\ Deliver(p)
    /\ UNCHANGED <<head, loaders>>

\* LoadJetDrops starts a retrievePulses(from, to) and returns.
LoadJetDrops(from, to) ==
  loaders' = loaders \cup {[before |-> from, until |-> to]}

(***************************************************************************)
(* One turn of such a retrievePulses.  It ends behind the first pulse that *)
(* reaches until, unless until is zero: then mainThread holds and it never *)
(* ends.                                                                   *)
(***************************************************************************)
LoaderThread(l) ==
  \E p \in GetNextFinalizedPulse(l.before) :
    /\ loaders' = (loaders \ {l}) \cup
                  (IF l.until > 0 /\ p >= l.until THEN {} ELSE {[l EXCEPT !.before = p]})
    /\ Deliver(p)
    /\ UNCHANGED <<head, mainPulse>>
=============================================================================
