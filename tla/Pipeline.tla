------------------------------ MODULE Pipeline ------------------------------
(***************************************************************************)
(* The block explorer from the extractor to the database: the workers of   *)
(* etl/processor carry jet drops into storage and into the controller's    *)
(* register, next to the goroutines of the controller and the extractor;   *)
(* the process may die at any point and start again on the same database.  *)
(***************************************************************************)
EXTENDS Controller

CONSTANTS
  Worker,              \* the processor's worker goroutines
  TransientCreate,     \* may the insert of a new jet drop fail, too?
  MaxRestarts          \* bound: crashes of the process

ASSUME PipelineAssumption ==
  /\ TransientCreate \in BOOLEAN
  /\ Worker # {}

VARIABLES
  worker,      \* where each worker stands in process
  task,        \* the jet drop it works on
  restarts     \* how often the process was started again

workerVars == <<worker, task>>
vars == <<storageVars, sourceVars, controllerVars, workerVars, restarts>>

NoTask == <<NoPulse, Root>>

WorkerState ==
  {"idle", "savePulse", "initJD", "updateJD", "setJetDropData", "requeue"}

TypeOK ==
  /\ StorageTypeOK
  /\ SourceTypeOK
  /\ ControllerTypeOK
  /\ worker \in [Worker -> WorkerState]
  /\ task \in [Worker -> JetDrop \cup {NoTask}]
  /\ \A w \in Worker : task[w] = NoTask <=> worker[w] = "idle"
  /\ restarts \in Nat

Init ==
  /\ StorageInit
  /\ SourceInit
  /\ ControllerInit
  /\ worker = [w \in Worker |-> "idle"]
  /\ task = [w \in Worker |-> NoTask]
  /\ restarts = 0
-----------------------------------------------------------------------------
Goes(w, from, to) ==
  /\ worker[w] = from
  /\ worker' = [worker EXCEPT ![w] = to]

\* The dispatcher hands a jet drop to a worker that waits on taskC.
Dispatch(w, d) ==
  /\ d \in underWay
  /\ Goes(w, "idle", "savePulse")
  /\ task' = [task EXCEPT ![w] = d]
  /\ underWay' = underWay \ {d}
  /\ UNCHANGED <<head, mainPulse, loaders, losses, storageVars, controllerVars, restarts>>

\* The jet drop is registered before it is saved.
WorkerRegistersFirst(w) ==
  /\ Goes(w, "savePulse", "initJD")
  /\ SavePulse(task[w][1])
  /\ SetJetDropData(FromPlatform(task[w][1]), task[w][2])
  /\ UNCHANGED <<task, incompletePulseCounter, maintainer, registerCopy, erasing>>
  /\ UNCHANGED <<sourceVars, sequenceVars, missedDataPool, faults, restarts>>

\* process, its first statement.
WorkerSavePulse(w) ==
  /\ \/ /\ Goes(w, "savePulse", "initJD")
        /\ SavePulse(task[w][1])
        /\ UNCHANGED faults
     \/ /\ Goes(w, "savePulse", "requeue")
        /\ Fault
        /\ UNCHANGED storageVars
  /\ UNCHANGED <<task, sourceVars, registerVars, sequenceVars, missedDataPool, restarts>>

(***************************************************************************)
(* SaveJetDropData: the transaction of initJD commits, or its insert of    *)
(* the jet drop fails, because the row is there or for a passing reason,   *)
(* or another of its statements fails and all of it is rolled back.        *)
(***************************************************************************)
WorkerInitJD(w) ==
  /\ \/ /\ Goes(w, "initJD", "setJetDropData")
        /\ InitJD(task[w])
        /\ UNCHANGED faults
     \/ /\ Goes(w, "initJD", "updateJD")
        /\ task[w] \in jetDrops
        /\ UNCHANGED <<faults, storageVars>>
     \/ /\ Goes(w, "initJD", "updateJD")
        /\ TransientCreate
        /\ task[w] \notin jetDrops
        /\ Fault
        /\ UNCHANGED storageVars
     \/ /\ Goes(w, "initJD", "requeue")
        /\ task[w] \notin jetDrops
        /\ Fault
        /\ UNCHANGED storageVars
  /\ UNCHANGED <<task, sourceVars, registerVars, sequenceVars, missedDataPool, restarts>>

WorkerUpdateJD(w) ==
  /\ \/ /\ Goes(w, "updateJD", "setJetDropData")
        /\ UpdateJD(task[w])
        /\ UNCHANGED faults
     \/ /\ Goes(w, "updateJD", "requeue")
        /\ Fault
        /\ UNCHANGED storageVars
  /\ UNCHANGED <<task, sourceVars, registerVars, sequenceVars, missedDataPool, restarts>>

WorkerSetJetDropData(w) ==
  /\ Goes(w, "setJetDropData", "idle")
  /\ SetJetDropData(FromPlatform(task[w][1]), task[w][2])
  /\ task' = [task EXCEPT ![w] = NoTask]
  /\ UNCHANGED <<incompletePulseCounter, maintainer, registerCopy, erasing>>
  /\ UNCHANGED <<storageVars, sourceVars, sequenceVars, missedDataPool, faults, restarts>>

\* After an error the worker sends its task on taskC, to a worker that waits there.
Requeue(w) ==
  /\ worker[w] = "requeue"
  /\ \E v \in Worker :
       /\ worker[v] = "idle"
       /\ worker' = [worker EXCEPT ![w] = "idle", ![v] = "savePulse"]
       /\ task' = [task EXCEPT ![w] = NoTask, ![v] = task[w]]
  /\ UNCHANGED <<storageVars, sourceVars, controllerVars, restarts>>

\* The process dies and starts again: the database and the platform stay.
Restart ==
  /\ restarts < MaxRestarts
  /\ restarts' = restarts + 1
  /\ Start
  /\ mainPulse' = NoPulse
  /\ loaders' = {}
  /\ underWay' = {}
  /\ worker' = [w \in Worker |-> "idle"]
  /\ task' = [w \in Worker |-> NoTask]
  /\ UNCHANGED <<storageVars, head, losses>>
-----------------------------------------------------------------------------
\* A step of the source, of the controller.
BySource == UNCHANGED <<storageVars, controllerVars, workerVars, restarts>>
ByController == UNCHANGED <<workerVars, restarts>>

Source ==
  /\ \/ FinalizePulse
     \/ MainThread
     \/ \E l \in loaders : LoaderThread(l)
  /\ BySource

Process(w) ==
  \/ WorkerSavePulse(w)
  \/ WorkerInitJD(w)
  \/ WorkerUpdateJD(w)
  \/ WorkerSetJetDropData(w)

Processor ==
  \E w \in Worker :
    \/ \E d \in underWay : Dispatch(w, d)
    \/ Process(w)
    \/ Requeue(w)

PulseMaintainer ==
  /\ \/ CopyRegister
     \/ \E k \in DOMAIN registerCopy : CompleteKey(k) \/ ReloadKey(k) \/ CleanKey(k)
     \/ \E k \in erasing : EraseKey(k)
     \/ EndPass
     \/ EndClean
  /\ ByController

PulseSequence ==
  /\ LookUpNext \/ SequenceNext \/ Advance \/ ReloadGap
  /\ ByController

Expiry ==
  /\ \E r \in missedDataPool : DeleteExpired(r)
  /\ ByController

Next == Source \/ Processor \/ PulseMaintainer \/ PulseSequence \/ Expiry \/ Restart

Spec == Init /\ [][Next]_vars
-----------------------------------------------------------------------------
(***************************************************************************)
(* Fairness: a goroutine that can take a step takes one; an expired range  *)
(* is deleted; the senders that wait on taskC, the dispatcher with its jet *)
(* drops in the order of their arrival and the workers that requeue, are   *)
(* served first come, first served.  Nothing forces faults, losses or      *)
(* crashes.                                                                *)
(***************************************************************************)
LoadedFrom == PulseNumber \cup {MinTimePulse - 1}
LoadedTo == PulseNumber \cup {NoPulse}

Fairness ==
  /\ WF_vars(MainThread /\ BySource)
  /\ \A l \in [before : LoadedFrom, until : LoadedTo] :
       WF_vars(l \in loaders /\ LoaderThread(l) /\ BySource)
  /\ \A d \in JetDrop : SF_vars(\E w \in Worker : Dispatch(w, d))
  /\ \A w \in Worker : WF_vars(Process(w)) /\ SF_vars(Requeue(w))
  /\ WF_vars(PulseMaintainer)
  /\ WF_vars(PulseSequence)
  /\ \A r \in LoadedFrom \X LoadedTo :
       WF_vars(r \in missedDataPool /\ DeleteExpired(r) /\ ByController)

FairSpec == Spec /\ Fairness
-----------------------------------------------------------------------------
(***************************************************************************)
(* A pulse is marked complete only when every jet drop of it is stored,    *)
(* although the maintainer decides on a copy of the register that is out   *)
(* of date, drops arrive twice, and the register is rebuilt at a start.    *)
(***************************************************************************)
CompleteHasAllJetDrops == \A p \in isComplete : GetJetDrops(p) = JetsOf[p]

(***************************************************************************)
(* pulseIsComplete, which sees the addresses registered for a pulse and no *)
(* tree, answers yes exactly when every jet of the pulse is registered: it *)
(* neither completes a pulse with a jet missing nor leaves one open with   *)
(* none missing, whatever was registered twice or read from the database.  *)
(***************************************************************************)
CompleteWhenAllArrived ==
  \A k \in DOMAIN jetDropRegister :
    PulseIsComplete(jetDropRegister[k]) <=> jetDropRegister[k] = JetsOf[k[1]]

(***************************************************************************)
(* The sequential pulses are complete and have no gap: the predecessor of  *)
(* one is one, back to the first pulse, across crashes between             *)
(* SequencePulse and the assignment to sequentialPulse.                    *)
(***************************************************************************)
SequentialHasNoGap ==
  \A p \in isSequential :
    /\ p \in isComplete
    /\ prev[p] \in isSequential \cup {NoPulse}

(***************************************************************************)
(* No pulse is forgotten: a saved pulse that is not complete is in the     *)
(* register, where the maintainer finds it, or in the hands of a worker    *)
(* that will put it there.  cleanJetDropRegister, which drops entries      *)
(* without asking whether they are complete, never drops one that is not.  *)
(***************************************************************************)
IncompleteIsRegistered ==
  \A p \in GetIncompletePulses :
    \/ \E k \in DOMAIN jetDropRegister : k[1] = p
    \/ \E w \in Worker : task[w][1] = p

(***************************************************************************)
(* jet_drop_amount counts the stored jet drops of the pulse, however often *)
(* each was delivered and whichever workers saved it.                      *)
(***************************************************************************)
AmountIsExact ==
  \A p \in PulseNumber : jetDropAmount[p] = Cardinality(GetJetDrops(p))

\* Whatever fails, jet_drop_amount never counts more jet drops than are stored.
AmountIsBounded ==
  \A p \in PulseNumber : jetDropAmount[p] <= Cardinality(GetJetDrops(p))

\* The whole pipeline keeps the promise of the database to its readers.
Ledger == INSTANCE PulseLedger
            WITH saved <- jetDrops, complete <- isComplete, sequential <- isSequential

KeepsLedger == Ledger!Spec
-----------------------------------------------------------------------------
(***************************************************************************)
(* What the safety properties above rest on: a conjunction that every step *)
(* preserves.                                                              *)
(***************************************************************************)
\* A worker in the middle of process has saved what came before.
WorkersHaveSaved ==
  \A w \in Worker :
    /\ worker[w] \in {"initJD", "updateJD", "setJetDropData"} => task[w][1] \in pulses
    /\ worker[w] = "setJetDropData" => task[w] \in jetDrops

\* A register, or a copy of one that is out of date, holds only what is stored.
HoldsStored(register) ==
  \A k \in DOMAIN register :
    /\ k[1] \in pulses
    /\ register[k] \subseteq GetJetDrops(k[1])

\* The sequencer's memory is in the database, and what it looked up is still true.
SequencerIsCurrent ==
  /\ sequentialPulse \in isSequential \cup {NoPulse}
  /\ sequencer \in {"sequence", "advance"} =>
       /\ nextSequential \in isComplete
       /\ prev[nextSequential] = sequentialPulse
  /\ sequencer = "advance" => nextSequential \in isSequential

\* The sequential pulses are complete and are all the pulses up to the last of them.
SequentialIsPrefix ==
  \A p \in isSequential :
    /\ p \in isComplete
    /\ \A q \in PulseNumber : q < p => q \in isSequential

IInv ==
  /\ TypeOK
  /\ WorkersHaveSaved
  /\ HoldsStored(jetDropRegister)
  /\ HoldsStored(registerCopy)
  /\ \A k \in erasing : k[1] \in isComplete
  /\ SequencerIsCurrent
  /\ SequentialIsPrefix
  /\ CompleteHasAllJetDrops
  /\ IncompleteIsRegistered
-----------------------------------------------------------------------------
(***************************************************************************)
(* A gap before a complete pulse is filled: whatever was lost on the way,  *)
(* pulseSequence has it reloaded, and the pulse becomes sequential.        *)
(***************************************************************************)
CompleteBecomesSequential ==
  \A p \in PulseNumber : p \in isComplete ~> p \in isSequential

\* With platform 2, a pulse of which anything was saved becomes complete.
SavedBecomesComplete ==
  \A p \in PulseNumber : p \in pulses ~> p \in isComplete

\* The register forgets a complete pulse: it is for pulses that are not complete.
RegisterForgets ==
  \A p \in PulseNumber :
    p \in isComplete ~> \A k \in DOMAIN jetDropRegister : k[1] # p

\* A reload ends: LoadJetDrops is for the pulses up to toPulseNumber.
LoadersFinish ==
  \A l \in [before : LoadedFrom, until : LoadedTo] : l \in loaders ~> l \notin loaders
=============================================================================
