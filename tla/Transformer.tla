----------------------------- MODULE Transformer -----------------------------
(***************************************************************************)
(* etl/transformer: one goroutine takes a pulse with its records from the  *)
(* extractor's channel, cuts it into jet drops and sends them on the       *)
(* buffered channel to the processor, until Stop leaves a message in       *)
(* stopSignal.                                                             *)
(***************************************************************************)
EXTENDS SortRecords

CONSTANTS
  PlatformPulseData,   \* what the extractor may send first
  LastPulse,           \* the pulse it sends after that
  QueueLen,            \* the capacity of transformerChan
  NoDrop

ASSUME TransformerAssumption == QueueLen \in Nat \ {0}

VARIABLES
  extractorChan,
  transformerChan,
  stopSignal,       \* how many messages are in it, at most one
  pending,          \* the jet drops the goroutine has still to send
  transformer,      \* where the goroutine stands
  stopCall,         \* the caller of Stop
  received,         \* the pulses taken so far
  delivered         \* the jet drops the processor took so far

vars == <<extractorChan, transformerChan, stopSignal, pending, transformer, stopCall, received, delivered>>

Init ==
  /\ \E pd \in PlatformPulseData : extractorChan = <<pd, LastPulse>>
  /\ transformerChan = <<>>
  /\ stopSignal = 0
  /\ pending = <<>>
  /\ transformer = "run"
  /\ stopCall = "idle"
  /\ received = <<>>
  /\ delivered = <<>>
-----------------------------------------------------------------------------
\* getRecords, for one jet: canonical records, the unsupported ones skipped.
RecordsOf(pd, jet) ==
  LET ofJet == SelectSeq(pd.records, LAMBDA r : r.jet = jet)
      canonical == [i \in DOMAIN ofJet |-> TransferToCanonicalRecord(ofJet[i], pd.genesis)]
  IN  SelectSeq(canonical, LAMBDA r : r.type # "unsupported")

GetJetDrop(pd, jet) ==
  {IF records = SortError THEN NoDrop ELSE [pulse |-> pd.pulse, jet |-> jet, records |-> records] :
     records \in SortRecords(RecordsOf(pd, jet))}

\* A record that cannot be marshalled fails the whole pulse.
Broken(pd) == \E r \in ToSet(pd.records) : r.kind = "broken"

\* One jet drop per jet of the pulse, with or without records; one that does not sort is left out.
Transform(pd) ==
  LET drops == [i \in DOMAIN pd.jets |-> GetJetDrop(pd, pd.jets[i])]
  IN  IF Broken(pd) THEN {<<>>}
      ELSE {SelectSeq(s, LAMBDA d : d # NoDrop) :
              s \in {f \in [DOMAIN pd.jets -> UNION Range(drops)] : \A i \in DOMAIN pd.jets : f[i] \in drops[i]}}

\* run: the case of extractorChan.
Run ==
  /\ transformer = "run"
  /\ extractorChan # <<>>
  /\ extractorChan' = Tail(extractorChan)
  /\ received' = Append(received, Head(extractorChan))
  /\ pending' \in Transform(Head(extractorChan))
  /\ transformer' = IF pending' = <<>> THEN "needStop" ELSE "send"
  /\ UNCHANGED <<transformerChan, stopSignal, stopCall, delivered>>

\* A full queue does not hold the goroutine back.
SendAlways ==
  /\ transformer = "send"
  /\ transformerChan' = IF Len(transformerChan) < QueueLen
                        THEN Append(transformerChan, Head(pending)) ELSE transformerChan
  /\ pending' = Tail(pending)
  /\ transformer' = IF Len(pending) = 1 THEN "needStop" ELSE "send"
  /\ UNCHANGED <<extractorChan, stopSignal, stopCall, received, delivered>>

Send ==
  /\ transformer = "send"
  /\ Len(transformerChan) < QueueLen
  /\ transformerChan' = Append(transformerChan, Head(pending))
  /\ pending' = Tail(pending)
  /\ transformer' = IF Len(pending) = 1 THEN "needStop" ELSE "send"
  /\ UNCHANGED <<extractorChan, stopSignal, stopCall, received, delivered>>

\* run takes the message and returns to the loop.
RunStopsTaken ==
  /\ transformer = "run"
  /\ stopSignal = 1
  /\ stopSignal' = 0
  /\ transformer' = "needStop"
  /\ UNCHANGED <<extractorChan, transformerChan, pending, stopCall, received, delivered>>

\* run: the case of stopSignal puts the message back for needStop.
RunStops ==
  /\ transformer = "run"
  /\ stopSignal = 1
  /\ transformer' = "needStop"
  /\ UNCHANGED <<extractorChan, transformerChan, stopSignal, pending, stopCall, received, delivered>>

NeedStop ==
  /\ transformer = "needStop"
  /\ transformer' = IF stopSignal = 1 THEN "returned" ELSE "run"
  /\ stopSignal' = 0
  /\ UNCHANGED <<extractorChan, transformerChan, pending, stopCall, received, delivered>>

Stop ==
  /\ stopCall = "idle"
  /\ stopSignal = 0
  /\ stopSignal' = 1
  /\ stopCall' = "returned"
  /\ UNCHANGED <<extractorChan, transformerChan, pending, transformer, received, delivered>>

\* The processor's dispatcher.
Take ==
  /\ transformerChan # <<>>
  /\ transformerChan' = Tail(transformerChan)
  /\ delivered' = Append(delivered, Head(transformerChan))
  /\ UNCHANGED <<extractorChan, stopSignal, pending, transformer, stopCall, received>>

Goroutine == Run \/ Send \/ RunStops \/ NeedStop

Next == Goroutine \/ Stop \/ Take

\* The goroutine runs on, and the processor, stopped or not, goes on receiving.
Spec == Init /\ [][Next]_vars /\ WF_vars(Goroutine) /\ WF_vars(Take)
-----------------------------------------------------------------------------
\* A jet whose objects each have one line of changes in the pulse.
Sortable(pd, jet) ==
  \A o \in Objects(RecordsOf(pd, jet)) : HasLifeline(StatesOf(RecordsOf(pd, jet), o))

JetsToSend(pd) == SelectSeq(pd.jets, LAMBDA j : Sortable(pd, j) /\ ~Broken(pd))
Emitted == delivered \o transformerChan \o pending

(***************************************************************************)
(* The processor gets one jet drop for every jet of every pulse, also for  *)
(* a jet without records, in the order of the pulses; it misses exactly    *)
(* the jets an object of which has no single line of changes, and a pulse  *)
(* with a record that cannot be marshalled.                                *)
(***************************************************************************)
EveryJetInOrder ==
  [i \in DOMAIN Emitted |-> <<Emitted[i].pulse, Emitted[i].jet>>] =
    FlattenSeq([i \in DOMAIN received |->
      [k \in DOMAIN JetsToSend(received[i]) |-> <<received[i].pulse, JetsToSend(received[i])[k]>>]])

\* A jet drop has all records of its jet, each once, whatever the order Go visits its maps in.
NoRecordLost ==
  \A i \in DOMAIN Emitted, k \in DOMAIN received :
    Emitted[i].pulse = received[k].pulse =>
      SameRecords(Emitted[i].records, RecordsOf(received[k], Emitted[i].jet))

\* The states of an object in a jet drop are in the order of change (the comment of sortRecords).
InOrderOfChange ==
  \A i \in DOMAIN Emitted :
    \A o \in Objects(Emitted[i].records) : IsLifeline(StatesOf(Emitted[i].records, o))

\* Stop ends the goroutine, although run may take the message before needStop looks for it.
StopEnds == stopCall = "returned" ~> transformer = "returned"
=============================================================================
