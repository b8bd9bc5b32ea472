----------------------------- MODULE Controller -----------------------------
(***************************************************************************)
(* etl/controller: the register of jet drops that were processed, the pool *)
(* of ranges that were reloaded, and the two goroutines that work on them: *)
(* pulseMaintainer, which completes pulses, and pulseSequence, which       *)
(* extends the gapless prefix of complete pulses and reloads gaps.         *)
(*                                                                         *)
(* A step is what happens between two points where other goroutines can    *)
(* interfere: one critical section of jetDropRegisterLock or one statement *)
(* of the database.  An operation that fails in the database and is only   *)
(* logged leaves everything as it was.                                     *)
(***************************************************************************)
EXTENDS Storage, JetDropSource

CONSTANTS
  PlatformVersion,   \* 1 or 2
  CleanPeriod,       \* passes between two cleanings of the register, 1000
  MaxFaults,         \* bound: statements of the database that fail
  MaxLoaders         \* bound: reloads under way while a range expires

ASSUME ControllerAssumption ==
  /\ PlatformVersion \in {1, 2}
  /\ CleanPeriod \in Nat \ {0}

VARIABLES
  jetDropRegister,          \* the jets registered under each key
  missedDataPool,           \* the ranges reloaded and not yet expired
  sequentialPulse,          \* the number of Controller.sequentialPulse
  incompletePulseCounter,
  maintainer,               \* where eraseJetDropRegister stands
  registerCopy,             \* jetDropRegisterCopy, without the keys it is done with
  erasing,                  \* the key that CompletePulse is done with, if any
  sequencer,                \* where pulseSequence stands
  nextSequential,           \* its local nextSequential
  faults                    \* how many statements failed

registerVars == <<jetDropRegister, incompletePulseCounter, maintainer, registerCopy, erasing>>
sequenceVars == <<sequentialPulse, sequencer, nextSequential>>
controllerVars == <<registerVars, sequenceVars, missedDataPool, faults>>

(***************************************************************************)
(* A types.Pulse as a map key.  The transformer fills in the timestamp and *)
(* the epoch of the pulse, setIncompletePulses leaves them zero, so that   *)
(* the two keys of one pulse differ.                                       *)
(***************************************************************************)
FromPlatform(p) == <<p, "platform">>
FromDatabase(p) == <<p, "database">>
Key == PulseNumber \X {"platform", "database"}

\* A Go map: a function whose domain is the set of keys present.
EmptyMap == [k \in {} |-> {}]
Without(map, k) == [x \in DOMAIN map \ {k} |-> map[x]]

IsRegister(map) ==
  /\ DOMAIN map \subseteq Key
  /\ map = [k \in DOMAIN map |-> map[k]]
  /\ \A k \in DOMAIN map : map[k] \subseteq JetsOf[k[1]]

ControllerTypeOK ==
  /\ IsRegister(jetDropRegister)
  /\ IsRegister(registerCopy)
  /\ erasing \subseteq Key
  /\ missedDataPool \subseteq Nat \X Nat
  /\ sequentialPulse \in PulseNumber \cup {NoPulse}
  /\ nextSequential \in PulseNumber \cup {NoPulse}
  /\ incompletePulseCounter \in 0 .. CleanPeriod
  /\ maintainer \in {"wait", "pass", "clean"}
  /\ sequencer \in {"wait", "sequence", "advance", "gap"}
  /\ faults \in Nat

\* setIncompletePulses: the register of a controller that starts.
SetIncompletePulses ==
  [k \in {FromDatabase(p) : p \in GetIncompletePulses} |-> GetJetDrops(k[1])]

ControllerInit ==
  /\ jetDropRegister = EmptyMap
  /\ missedDataPool = {}
  /\ sequentialPulse = NoPulse
  /\ incompletePulseCounter = 0
  /\ maintainer = "wait"
  /\ registerCopy = EmptyMap
  /\ erasing = {}
  /\ sequencer = "wait"
  /\ nextSequential = NoPulse
  /\ faults = 0

\* NewController and Start: setIncompletePulses, setSeqPulse, and the two goroutines.
Start ==
  /\ jetDropRegister' = SetIncompletePulses
  /\ missedDataPool' = {}
  /\ sequentialPulse' = GetSequentialPulse
  /\ incompletePulseCounter' = 0
  /\ maintainer' = "wait"
  /\ registerCopy' = EmptyMap
  /\ erasing' = {}
  /\ sequencer' = "wait"
  /\ nextSequential' = NoPulse
  /\ UNCHANGED faults
-----------------------------------------------------------------------------
\* Every call makes a new set of jets for its pulse.
SetJetDropDataForgets(k, jet) ==
  jetDropRegister' =
    [x \in DOMAIN jetDropRegister \cup {k} |->
       IF x = k THEN {jet} ELSE jetDropRegister[x]]

\* SetJetDropData, called by the processor under the register's lock.
SetJetDropData(k, jet) ==
  jetDropRegister' =
    [x \in DOMAIN jetDropRegister \cup {k} |->
       (IF x \in DOMAIN jetDropRegister THEN jetDropRegister[x] ELSE {})
       \cup (IF x = k THEN {jet} ELSE {})]

\* Zero reaches the extractor, which takes it for the latest pulse.
ReloadDataUnconverted(from, to) ==
  IF \E r \in missedDataPool : r[1] <= from /\ r[2] >= to
  THEN UNCHANGED <<missedDataPool, loaders>>
  ELSE /\ missedDataPool' = missedDataPool \cup {<<from, to>>}
       /\ LoadJetDrops(from, to)

\* reloadData, MissedDataManager.Add included.
ReloadData(from, to) ==
  LET first == IF from = NoPulse THEN MinTimePulse - 1 ELSE from
  IN IF \E r \in missedDataPool : r[1] <= first /\ r[2] >= to
     THEN UNCHANGED <<missedDataPool, loaders>>
     ELSE /\ missedDataPool' = missedDataPool \cup {<<first, to>>}
          /\ LoadJetDrops(first, to)

\* The ttl of a range is over and deleteExpired drops it.
DeleteExpired(r) ==
  /\ Cardinality(loaders) < MaxLoaders
  /\ missedDataPool' = missedDataPool \ {r}
  /\ UNCHANGED <<registerVars, sequenceVars, faults, storageVars, sourceVars>>

\* A statement of the database fails; the caller says what becomes of it.
Fault ==
  /\ faults < MaxFaults
  /\ faults' = faults + 1
-----------------------------------------------------------------------------
(***************************************************************************)
(* pulseMaintainer: eraseJetDropRegister copies the register and works on  *)
(* the copy, key by key in the order of a Go map, while the processor      *)
(* registers more.                                                         *)
(***************************************************************************)
CopyRegister ==
  /\ maintainer = "wait"
  /\ maintainer' = "pass"
  /\ registerCopy' = jetDropRegister
  /\ UNCHANGED <<jetDropRegister, incompletePulseCounter, erasing>>
  /\ UNCHANGED <<missedDataPool, sequenceVars, faults, storageVars, sourceVars>>

\* The maintainer is at key k of the copy.
At(k) ==
  /\ maintainer = "pass"
  /\ erasing = {}
  /\ k \in DOMAIN registerCopy

CompleteKey(k) ==
  /\ At(k)
  /\ PulseIsComplete(registerCopy[k])
  /\ registerCopy' = Without(registerCopy, k)
  /\ \/ /\ CompletePulse(k[1])
        /\ erasing' = {k}
        /\ UNCHANGED faults
     \/ /\ Fault
        /\ UNCHANGED <<erasing, storageVars>>
  /\ UNCHANGED <<jetDropRegister, incompletePulseCounter, maintainer>>
  /\ UNCHANGED <<missedDataPool, sequenceVars, sourceVars>>

\* The pulse is completed and stays in the register.
EraseKeyKeeps(k) ==
  /\ erasing = {k}
  /\ erasing' = {}
  /\ UNCHANGED <<jetDropRegister, incompletePulseCounter, maintainer, registerCopy>>
  /\ UNCHANGED <<missedDataPool, sequenceVars, faults, storageVars, sourceVars>>

\* delete(c.jetDropRegister, p), in a critical section of its own.
EraseKey(k) ==
  /\ erasing = {k}
  /\ erasing' = {}
  /\ jetDropRegister' = Without(jetDropRegister, k)
  /\ UNCHANGED <<incompletePulseCounter, maintainer, registerCopy>>
  /\ UNCHANGED <<missedDataPool, sequenceVars, faults, storageVars, sourceVars>>

ReloadKey(k) ==
  /\ At(k)
  /\ ~PulseIsComplete(registerCopy[k])
  /\ registerCopy' = Without(registerCopy, k)
  /\ IF PlatformVersion # 1
     THEN ReloadData(prev[k[1]], k[1])
     ELSE UNCHANGED <<missedDataPool, loaders>>
  /\ UNCHANGED <<jetDropRegister, incompletePulseCounter, maintainer, erasing>>
  /\ UNCHANGED <<head, mainPulse, underWay, losses, sequenceVars, faults, storageVars>>

\* The pass is over; with platform 1, cleanJetDropRegister copies the register now and then.
EndPass ==
  /\ maintainer = "pass"
  /\ erasing = {}
  /\ DOMAIN registerCopy = {}
  /\ IF PlatformVersion = 1 /\ incompletePulseCounter = CleanPeriod
     THEN /\ maintainer' = "clean"
          /\ registerCopy' = jetDropRegister
          /\ UNCHANGED incompletePulseCounter
     ELSE /\ maintainer' = "wait"
          /\ incompletePulseCounter' = incompletePulseCounter + (IF PlatformVersion = 1 THEN 1 ELSE 0)
          /\ UNCHANGED registerCopy
  /\ UNCHANGED <<jetDropRegister, erasing>>
  /\ UNCHANGED <<missedDataPool, sequenceVars, faults, storageVars, sourceVars>>

\* The register is cleaned of every pulse up to the next one that can become sequential.
CleanKeyAhead(k) ==
  /\ maintainer = "clean"
  /\ k \in DOMAIN registerCopy
  /\ registerCopy' = Without(registerCopy, k)
  /\ jetDropRegister' = IF sequentialPulse >= prev[k[1]]
                        THEN Without(jetDropRegister, k) ELSE jetDropRegister
  /\ UNCHANGED <<incompletePulseCounter, maintainer, erasing>>
  /\ UNCHANGED <<missedDataPool, sequenceVars, faults, storageVars, sourceVars>>

\* One turn of cleanJetDropRegister, which reads sequentialPulse without its lock.
CleanKey(k) ==
  /\ maintainer = "clean"
  /\ k \in DOMAIN registerCopy
  /\ registerCopy' = Without(registerCopy, k)
  /\ jetDropRegister' = IF sequentialPulse > k[1]
                        THEN Without(jetDropRegister, k) ELSE jetDropRegister
  /\ UNCHANGED <<incompletePulseCounter, maintainer, erasing>>
  /\ UNCHANGED <<missedDataPool, sequenceVars, faults, storageVars, sourceVars>>

\* The counter is not set to zero.
EndCleanNoReset ==
  /\ maintainer = "clean"
  /\ DOMAIN registerCopy = {}
  /\ maintainer' = "wait"
  /\ incompletePulseCounter' = incompletePulseCounter + 1
  /\ UNCHANGED <<jetDropRegister, registerCopy, erasing>>
  /\ UNCHANGED <<missedDataPool, sequenceVars, faults, storageVars, sourceVars>>

\* The counter is set to zero and incremented.
EndClean ==
  /\ maintainer = "clean"
  /\ DOMAIN registerCopy = {}
  /\ maintainer' = "wait"
  /\ incompletePulseCounter' = 1
  /\ UNCHANGED <<jetDropRegister, registerCopy, erasing>>
  /\ UNCHANGED <<missedDataPool, sequenceVars, faults, storageVars, sourceVars>>
-----------------------------------------------------------------------------
(***************************************************************************)
(* pulseSequence: looks the successor of sequentialPulse up, marks it when *)
(* it is complete and reloads up to the next saved pulse when it is not.   *)
(* The lock of sequentialPulse is held throughout; only CleanKey looks in. *)
(***************************************************************************)
LookUpNext ==
  /\ sequencer = "wait"
  /\ nextSequential' = GetPulseByPrev(sequentialPulse)
  /\ sequencer' = IF nextSequential' \in isComplete THEN "sequence" ELSE "gap"
  /\ UNCHANGED sequentialPulse
  /\ UNCHANGED <<registerVars, missedDataPool, faults, storageVars, sourceVars>>

SequenceNext ==
  /\ sequencer = "sequence"
  /\ \/ /\ SequencePulse(nextSequential)
        /\ sequencer' = "advance"
        /\ UNCHANGED <<faults, nextSequential>>
     \/ /\ Fault
        /\ sequencer' = "wait"
        /\ nextSequential' = NoPulse
        /\ UNCHANGED storageVars
  /\ UNCHANGED sequentialPulse
  /\ UNCHANGED <<registerVars, missedDataPool, sourceVars>>

Advance ==
  /\ sequencer = "advance"
  /\ sequencer' = "wait"
  /\ sequentialPulse' = nextSequential
  /\ nextSequential' = NoPulse
  /\ UNCHANGED <<registerVars, missedDataPool, faults, storageVars, sourceVars>>

\* The next saved pulse is looked up and what lies before it is reloaded.
ReloadGap ==
  /\ sequencer = "gap"
  /\ LET toPulse == GetNextSavedPulse(sequentialPulse, PlatformVersion = 1)
     IN IF toPulse = NoPulse
        THEN UNCHANGED <<missedDataPool, loaders>>
        ELSE ReloadData(sequentialPulse, prev[toPulse])
  /\ sequencer' = "wait"
  /\ nextSequential' = NoPulse
  /\ UNCHANGED sequentialPulse
  /\ UNCHANGED <<registerVars, faults, storageVars, head, mainPulse, underWay, losses>>
=============================================================================
