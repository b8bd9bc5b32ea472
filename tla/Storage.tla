------------------------------ MODULE Storage ------------------------------
(***************************************************************************)
(* The PostgreSQL tables of the block explorer and the operations of       *)
(* etl/storage/storage.go that change them or that the controller reads.   *)
(*                                                                         *)
(* A table is the set of its primary keys, a Boolean column the set of the *)
(* keys for which it is true.  The records of a jet drop are written in    *)
(* the transaction that writes the jet drop, so a jet drop row stands for  *)
(* its record rows too.                                                    *)
(***************************************************************************)
EXTENDS PulseChain

VARIABLES
  pulses,          \* table pulses
  isComplete,      \* column pulses.is_complete
  isSequential,    \* column pulses.is_sequential
  jetDrops,        \* table jet_drops, with the records of each drop
  jetDropAmount    \* column pulses.jet_drop_amount

storageVars == <<pulses, isComplete, isSequential, jetDrops, jetDropAmount>>

StorageTypeOK ==
  /\ pulses \subseteq PulseNumber
  /\ isComplete \subseteq PulseNumber
  /\ isSequential \subseteq PulseNumber
  /\ jetDrops \subseteq JetDrop
  /\ jetDropAmount \in [PulseNumber -> Nat]

StorageInit ==
  /\ pulses = {}
  /\ isComplete = {}
  /\ isSequential = {}
  /\ jetDrops = {}
  /\ jetDropAmount = [p \in PulseNumber |-> 0]
-----------------------------------------------------------------------------
\* The conflict clause overwrites the whole row with the one being inserted.
SavePulseOverwrites(p) ==
  /\ pulses' = pulses \cup {p}
  /\ isComplete' = isComplete \ {p}
  /\ isSequential' = isSequential \ {p}
  /\ UNCHANGED <<jetDrops, jetDropAmount>>

\* Inserts an incomplete pulse, or updates the row but none of the columns below.
SavePulse(p) ==
  /\ pulses' = pulses \cup {p}
  /\ UNCHANGED <<isComplete, isSequential, jetDrops, jetDropAmount>>

\* The transaction does not increment the amount.
InitJDNoIncrement(d) ==
  /\ d \notin jetDrops
  /\ jetDrops' = jetDrops \cup {d}
  /\ UNCHANGED <<pulses, isComplete, isSequential, jetDropAmount>>

\* The transaction of initJD, which fails on a jet drop that is already there.
InitJD(d) ==
  /\ d \notin jetDrops
  /\ jetDrops' = jetDrops \cup {d}
  /\ jetDropAmount' = [jetDropAmount EXCEPT ![d[1]] = @ + 1]
  /\ UNCHANGED <<pulses, isComplete, isSequential>>

\* Counts the jet drop a second time.
UpdateJDIncrements(d) ==
  /\ jetDrops' = jetDrops \cup {d}
  /\ jetDropAmount' = [jetDropAmount EXCEPT ![d[1]] = @ + 1]
  /\ UNCHANGED <<pulses, isComplete, isSequential>>

\* The transaction of updateJD: Save writes the row whether or not it exists.
UpdateJD(d) ==
  /\ jetDrops' = jetDrops \cup {d}
  /\ UNCHANGED <<pulses, isComplete, isSequential, jetDropAmount>>

\* An error, and no change, when no row has the number.
CompletePulse(p) ==
  /\ p \in pulses
  /\ isComplete' = isComplete \cup {p}
  /\ UNCHANGED <<pulses, isSequential, jetDrops, jetDropAmount>>

SequencePulse(p) ==
  /\ p \in pulses
  /\ isSequential' = isSequential \cup {p}
  /\ UNCHANGED <<pulses, isComplete, jetDrops, jetDropAmount>>
-----------------------------------------------------------------------------
\* The queries answer the empty model, here NoPulse, when there is no row.
Least(S) == IF S = {} THEN NoPulse ELSE Min(S)

\* The next saved pulse, whether or not one is missing between the two.
GetPulseByPrevSkipsGap(p) == Least({q \in pulses : q > p})

GetPulseByPrev(p) == Least({q \in pulses : prev[q] = p})

GetNextSavedPulse(p, completedOnly) ==
  Least({q \in pulses : q > p /\ (completedOnly => q \in isComplete)})

GetSequentialPulse == IF isSequential = {} THEN NoPulse ELSE Max(isSequential)

GetIncompletePulses == pulses \ isComplete

GetJetDrops(p) == {jet \in JetsOf[p] : <<p, jet>> \in jetDrops}
=============================================================================
