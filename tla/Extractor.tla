------------------------------ MODULE Extractor ------------------------------
(***************************************************************************)
(* etl/extractor: the threads that follow the platform's pulses (the main  *)
(* thread and one per reload), the goroutines that stream the records of   *)
(* a pulse portion by portion, the counter that limits them, and the       *)
(* channel to the transformer.  Pulses are numbered 1, 2, 3, ...           *)
(***************************************************************************)
EXTENDS Integers, Sequences, FiniteSets

CONSTANTS
  Thread,         \* the calls of retrievePulses
  From, Until,    \* their arguments; Until is 0 for the main thread
  StartPulse,     \* the platform's latest pulse when the program starts
  LastPulse,      \* bound: pulses of the platform
  RecordAmount,   \* the number of records of each pulse
  BatchSize,
  MaxWorkers,
  SerialMax,      \* with at most so many workers pulses are retrieved one by one: 3
  QueueLen,
  MaxErrors,      \* bound: errors of remote calls
  NoPulse

ASSUME ExtractorAssumption ==
  /\ IsFiniteSet(Thread)
  /\ MaxWorkers \in Nat
  /\ LastPulse \in Nat \ {0}
  /\ StartPulse \in 1 .. LastPulse
  /\ From \in [Thread -> Nat]
  /\ Until \in [Thread -> Nat]

\* reloadData asks from MinTimePulse - 1 in place of 0.
ASSUME ReloadAssumption == \A t \in Thread : Until[t] # 0 => From[t] # 0

ASSUME RecordsAssumption ==
  /\ RecordAmount \in [1 .. LastPulse -> Nat]
  /\ BatchSize \in Nat \ {0}
  /\ NoPulse \notin 1 .. LastPulse + 1

VARIABLES
  head,           \* the latest finalized pulse
  workers,        \* the atomic counter
  pc,             \* where each thread stands
  pulse,          \* the pulse each thread retrieved last
  nextNotEmpty,   \* nextNotEmptyPulseNumber of each thread
  retrieval,      \* the call of retrieveRecords of a thread for a pulse
  leaked,         \* threads that returned with a worker taken
  mainPulseDataChan,
  received,       \* what the transformer took
  lost,           \* pulses that were given up
  cancelled,      \* threads whose context is cancelled
  errors

threadVars == <<pc, pulse, nextNotEmpty>>
outVars == <<mainPulseDataChan, received, lost>>
vars == <<head, workers, threadVars, retrieval, leaked, outVars, cancelled, errors>>

Pulse == 1 .. LastPulse
MainThread(t) == Until[t] = 0
Serial(t) == ~MainThread(t) /\ MaxWorkers <= SerialMax

\* The records received, what the open stream still holds, and where the call stands.
Idle == [at |-> "none", skip |-> FALSE, got |-> <<>>, stream |-> <<>>]

Init ==
  /\ head = StartPulse
  /\ workers = 0
  /\ pc = [t \in Thread |-> "loop"]
  /\ pulse = From
  /\ nextNotEmpty = [t \in Thread |-> NoPulse]
  /\ retrieval = [k \in Thread \X Pulse |-> Idle]
  /\ leaked = {}
  /\ mainPulseDataChan = <<>>
  /\ received = {}
  /\ lost = {}
  /\ cancelled = {}
  /\ errors = 0
-----------------------------------------------------------------------------
\* The platform finalizes its next pulse.
FinalizePulse ==
  /\ head < LastPulse
  /\ head' = head + 1
  /\ UNCHANGED <<workers, threadVars, retrieval, leaked, outVars, cancelled, errors>>

\* The pulse after a given one, the latest pulse for zero.
GetNextFinalizedPulse(before) ==
  IF before = 0 THEN {head} ELSE {p \in {before + 1} : p <= head}

\* What the platform says of where to go on: a pulse up to which there are no more records.
ShouldIterateFrom(p) ==
  {q \in p + 1 .. LastPulse + 1 : \A r \in p + 1 .. q - 1 : r \in Pulse => RecordAmount[r] = 0}

(***************************************************************************)
(* Export: the answers to a request for the records of pulse p from number *)
(* n on, at most BatchSize.  Behind the last record comes the mark that    *)
(* the pulse is over: a record of a later pulse, or ShouldIterateFrom.     *)
(***************************************************************************)
Export(p, n) ==
  LET rest == [i \in 1 .. RecordAmount[p] - n |-> [record |-> n + i, iterateFrom |-> NoPulse]]
  IN  IF Len(rest) >= BatchSize THEN {SubSeq(rest, 1, BatchSize)}
      ELSE {Append(rest, [record |-> 0, iterateFrom |-> q]) : q \in ShouldIterateFrom(p)}
-----------------------------------------------------------------------------
\* The context is looked at; a reload then needs a worker.
Loop(t) ==
  /\ pc[t] = "loop"
  /\ pc' = [pc EXCEPT ![t] = IF t \in cancelled THEN "returned" ELSE IF MainThread(t) THEN "next" ELSE "take"]
  /\ UNCHANGED <<head, workers, pulse, nextNotEmpty, retrieval, leaked, outVars, cancelled, errors>>

\* takeWorker adds first and looks then; what was too much is subtracted again.
TakeWorker(t) ==
  /\ pc[t] = "take"
  /\ workers' = workers + 1
  /\ pc' = [pc EXCEPT ![t] = IF workers + 1 > MaxWorkers THEN "giveBack" ELSE "next"]
  /\ UNCHANGED <<head, pulse, nextNotEmpty, retrieval, leaked, outVars, cancelled, errors>>

GiveBack(t) ==
  /\ pc[t] = "giveBack"
  /\ workers' = workers - 1
  /\ pc' = [pc EXCEPT ![t] = "take"]
  /\ UNCHANGED <<head, pulse, nextNotEmpty, retrieval, leaked, outVars, cancelled, errors>>

Freed(t) == IF MainThread(t) THEN workers ELSE workers - 1

\* The worker is freed for one kind of error only.
NextFailsKeepsWorker(t) ==
  /\ pc[t] = "next"
  /\ \/ errors < MaxErrors /\ errors' = errors + 1
     \/ GetNextFinalizedPulse(pulse[t]) = {} /\ UNCHANGED errors
  /\ pc' = [pc EXCEPT ![t] = "loop"]
  /\ UNCHANGED <<head, workers, pulse, nextNotEmpty, retrieval, leaked, outVars, cancelled>>

\* No new pulse, or an error that is not about the version: sleep and try again.
NextFails(t) ==
  /\ pc[t] = "next"
  /\ \/ errors < MaxErrors /\ errors' = errors + 1
     \/ GetNextFinalizedPulse(pulse[t]) = {} /\ UNCHANGED errors
  /\ workers' = Freed(t)
  /\ pc' = [pc EXCEPT ![t] = "loop"]
  /\ UNCHANGED <<head, pulse, nextNotEmpty, retrieval, leaked, outVars, cancelled>>

\* A version error: the thread sends on stopChannel and ends with its worker taken.
NextVersionError(t) ==
  /\ pc[t] = "next"
  /\ errors < MaxErrors
  /\ errors' = errors + 1
  /\ pc' = [pc EXCEPT ![t] = "shutdown"]
  /\ leaked' = IF MainThread(t) THEN leaked ELSE leaked \cup {t}
  /\ UNCHANGED <<head, workers, pulse, nextNotEmpty, retrieval, outVars, cancelled>>

\* main received from stopChannel, which it does once: shutdownBE may also never return.
ShutdownReturns(t) ==
  /\ pc[t] = "shutdown"
  /\ pc' = [pc EXCEPT ![t] = "returned"]
  /\ UNCHANGED <<head, workers, pulse, nextNotEmpty, retrieval, leaked, outVars, cancelled, errors>>

\* The reload ends before the last pulse of its range.
AfterPulseEarly(t, p) == IF ~MainThread(t) /\ p + 1 >= Until[t] THEN "returned" ELSE "loop"

\* Where a reload goes after pulse p, and the main thread after any.
AfterPulse(t, p) == IF ~MainThread(t) /\ p >= Until[t] THEN "returned" ELSE "loop"

\* Pulses before nextNotEmptyPulseNumber are passed on without asking for records.
Skip(t, p) == nextNotEmpty[t] # NoPulse /\ p < nextNotEmpty[t]

\* The records of the next pulse are retrieved in the thread itself or in a goroutine of their own.
NextPulse(t) ==
  /\ pc[t] = "next"
  /\ \E p \in GetNextFinalizedPulse(pulse[t]) :
       LET skip == Serial(t) /\ Skip(t, p)
       IN  /\ pulse' = [pulse EXCEPT ![t] = p]
           /\ retrieval' = [retrieval EXCEPT ![<<t, p>>] =
                              [Idle EXCEPT !.at = IF skip THEN "deliver" ELSE "export", !.skip = skip]]
           /\ pc' = [pc EXCEPT ![t] = IF Serial(t) THEN "records" ELSE AfterPulse(t, p)]
  /\ UNCHANGED <<head, workers, nextNotEmpty, leaked, outVars, cancelled, errors>>
-----------------------------------------------------------------------------
\* retrieveRecords returns iterateFrom: its worker is freed, and a serial thread goes on.
Return(t, p, iterateFrom) ==
  /\ retrieval' = [retrieval EXCEPT ![<<t, p>>] = Idle]
  /\ workers' = Freed(t)
  /\ pc' = IF Serial(t) THEN [pc EXCEPT ![t] = AfterPulse(t, p)] ELSE pc
  /\ nextNotEmpty' = IF Serial(t) /\ ~retrieval[<<t, p>>].skip
                     THEN [nextNotEmpty EXCEPT ![t] = iterateFrom] ELSE nextNotEmpty
  /\ UNCHANGED <<head, pulse, leaked, cancelled>>

Continue(t, p, r) ==
  /\ retrieval' = [retrieval EXCEPT ![<<t, p>>] = r]
  /\ UNCHANGED <<head, workers, threadVars, leaked, outVars, cancelled>>

\* Every portion starts one record too late.
OpenStreamTooLate(t, p) ==
  /\ retrieval[<<t, p>>].at = "export" /\ t \notin cancelled
  /\ \E s \in Export(p, Len(retrieval[<<t, p>>].got) + 1) :
       Continue(t, p, [retrieval[<<t, p>>] EXCEPT !.at = "recv", !.stream = s])
  /\ UNCHANGED errors

\* The next portion is asked for from the record after the last one received.
OpenStream(t, p) ==
  /\ retrieval[<<t, p>>].at = "export" /\ t \notin cancelled
  /\ \E s \in Export(p, Len(retrieval[<<t, p>>].got)) :
       Continue(t, p, [retrieval[<<t, p>>] EXCEPT !.at = "recv", !.stream = s])
  /\ UNCHANGED errors

\* A record of the pulse is kept; the mark of its end completes it.
Recv(t, p) ==
  LET r == retrieval[<<t, p>>]
  IN  /\ r.at = "recv" /\ r.stream # <<>> /\ t \notin cancelled
      /\ Continue(t, p, IF Head(r.stream).iterateFrom = NoPulse
                        THEN [r EXCEPT !.got = Append(@, Head(r.stream).record), !.stream = Tail(@)]
                        ELSE [r EXCEPT !.at = "deliver"])
      /\ UNCHANGED errors

\* The end of the portion.
RecvEOF(t, p) ==
  /\ retrieval[<<t, p>>].at = "recv" /\ retrieval[<<t, p>>].stream = <<>> /\ t \notin cancelled
  /\ Continue(t, p, [retrieval[<<t, p>>] EXCEPT !.at = "export"])
  /\ UNCHANGED errors

\* The rate limit, a pulse that is not final or not found, a failed Export: the stream is opened again.
RecvAgain(t, p) ==
  /\ retrieval[<<t, p>>].at \in {"export", "recv"} /\ t \notin cancelled
  /\ errors < MaxErrors
  /\ errors' = errors + 1
  /\ Continue(t, p, [retrieval[<<t, p>>] EXCEPT !.at = "export", !.stream = <<>>])

\* A version error of Export: the goroutine sends on stopChannel with its worker taken.
ExportVersionError(t, p) ==
  /\ retrieval[<<t, p>>].at = "export" /\ t \notin cancelled
  /\ errors < MaxErrors
  /\ errors' = errors + 1
  /\ Continue(t, p, [retrieval[<<t, p>>] EXCEPT !.at = "shutdown"])

RecordsShutdownReturns(t, p) ==
  /\ retrieval[<<t, p>>].at = "shutdown"
  /\ lost' = lost \cup {<<t, p>>}
  /\ Return(t, p, NoPulse)
  /\ UNCHANGED <<mainPulseDataChan, received, errors>>

\* Another error of the stream or the end of the context: the pulse is given up.
GiveUp(t, p) ==
  /\ retrieval[<<t, p>>].at \in {"export", "recv"}
  /\ \/ t \in cancelled /\ UNCHANGED errors
     \/ retrieval[<<t, p>>].at = "recv" /\ t \notin cancelled /\ errors < MaxErrors /\ errors' = errors + 1
  /\ lost' = lost \cup {<<t, p>>}
  /\ Return(t, p, NoPulse)
  /\ UNCHANGED <<mainPulseDataChan, received>>

\* The pulse goes to the transformer; the queue may be full.
Deliver(t, p) ==
  /\ retrieval[<<t, p>>].at = "deliver"
  /\ Len(mainPulseDataChan) < QueueLen
  /\ mainPulseDataChan' =
       Append(mainPulseDataChan, [thread |-> t, pulse |-> p, records |-> retrieval[<<t, p>>].got])
  /\ Return(t, p, IF retrieval[<<t, p>>].skip THEN NoPulse ELSE Head(retrieval[<<t, p>>].stream).iterateFrom)
  /\ UNCHANGED <<received, lost, errors>>

Take ==
  /\ mainPulseDataChan # <<>>
  /\ mainPulseDataChan' = Tail(mainPulseDataChan)
  /\ received' = received \cup {Head(mainPulseDataChan)}
  /\ UNCHANGED <<head, workers, threadVars, retrieval, leaked, lost, cancelled, errors>>

\* The context of the main thread is the extractor's own, that of a reload the controller's.
Stop ==
  /\ {t \in Thread : MainThread(t)} \ cancelled # {}
  /\ cancelled' = cancelled \cup {t \in Thread : MainThread(t)}
  /\ UNCHANGED <<head, workers, threadVars, retrieval, leaked, outVars, errors>>

StopController ==
  /\ {t \in Thread : ~MainThread(t)} \ cancelled # {}
  /\ cancelled' = cancelled \cup {t \in Thread : ~MainThread(t)}
  /\ UNCHANGED <<head, workers, threadVars, retrieval, leaked, outVars, errors>>

ThreadStep(t) ==
  Loop(t) \/ TakeWorker(t) \/ GiveBack(t) \/ NextFails(t) \/ NextVersionError(t) \/ NextPulse(t)

RecordsStep(t, p) ==
  \/ OpenStream(t, p) \/ Recv(t, p) \/ RecvEOF(t, p) \/ RecvAgain(t, p) \/ ExportVersionError(t, p)
  \/ GiveUp(t, p) \/ Deliver(t, p)

Next ==
  \/ FinalizePulse
  \/ \E t \in Thread : ThreadStep(t)
  \/ \E t \in Thread, p \in Pulse : RecordsStep(t, p)
  \/ \E t \in Thread : ShutdownReturns(t) \/ \E p \in Pulse : RecordsShutdownReturns(t, p)
  \/ Take
  \/ Stop \/ StopController

(***************************************************************************)
(* Goroutines go on and sleeps end.  A thread that waits for a worker asks *)
(* again and again; the platform goes on finalizing pulses.  Nothing is    *)
(* said of a send on stopChannel.                                          *)
(***************************************************************************)
Fairness ==
  /\ WF_vars(FinalizePulse)
  /\ WF_vars(Take)
  /\ \A t \in Thread : WF_vars(ThreadStep(t))
  /\ \A t \in Thread, p \in Pulse : WF_vars(RecordsStep(t, p))

Spec == Init /\ [][Next]_vars /\ Fairness
-----------------------------------------------------------------------------
Held(t) == {p \in Pulse : retrieval[<<t, p>>].at # "none"}

\* Who has a worker, and who has added itself to the counter in vain.
Asking == {t \in Thread : ~MainThread(t) /\ pc[t] = "next"}
Refused == {t \in Thread : ~MainThread(t) /\ pc[t] = "giveBack"}
Retrieving == {k \in Thread \X Pulse : ~MainThread(k[1]) /\ retrieval[k].at # "none"}

(***************************************************************************)
(* The counter says what is true: every way out of the two loops subtracts *)
(* what was added once, except the version error.                          *)
(***************************************************************************)
WorkersCounted ==
  workers = Cardinality(Asking) + Cardinality(Retrieving) + Cardinality(leaked) + Cardinality(Refused)

\* There are never more reloading goroutines at the platform than the configuration allows.
WorkersLimited == Cardinality(Asking) + Cardinality(Retrieving) + Cardinality(leaked) <= MaxWorkers

Delivered == received \cup {mainPulseDataChan[i] : i \in DOMAIN mainPulseDataChan}

(***************************************************************************)
(* A pulse that reaches the transformer has all its records, in order and  *)
(* each once, over any number of portions and broken streams, also when    *)
(* its records were not asked for ("retrieves all records for specified    *)
(* pulse and puts this to channel").                                       *)
(***************************************************************************)
WholePulses == \A d \in Delivered : d.records = [i \in 1 .. RecordAmount[d.pulse] |-> i]

\* The last pulse of a reload, which looks at Until only behind a pulse: pulseSequence also asks for (p, p].
LastOf(t) == IF From[t] < Until[t] THEN Until[t] ELSE From[t] + 1

\* Pulse p is being retrieved by thread t, was given up or has been handed over.
Seen(t, p) == p \in Held(t) \/ <<t, p>> \in lost \/ \E d \in Delivered : d.thread = t /\ d.pulse = p

(***************************************************************************)
(* A reload that has ended has handed over or given up every pulse of its  *)
(* range and none beyond it, in parallel and one by one.  The range is     *)
(* what the code loads: (From, Until], but pulse p + 1 when it is asked    *)
(* for the empty (p, p], of which LoadJetDrops says nothing should come.   *)
(***************************************************************************)
RangeCovered ==
  \A t \in Thread : ~MainThread(t) =>
    /\ \A d \in Delivered : d.thread = t => d.pulse \in From[t] + 1 .. LastOf(t)
    /\ pc[t] = "returned" /\ t \notin cancelled \cup leaked =>
         \A p \in From[t] + 1 .. LastOf(t) : Seen(t, p)

\* The platform has refused this version of the program, which was asked to stop.
Refusal ==
  leaked # {} \/ (\E t \in Thread : pc[t] = "shutdown") \/ (\E k \in DOMAIN retrieval : retrieval[k].at = "shutdown")

\* Two reloads find the counter raised by each other and both take back what they added.
RefuseEachOther == Cardinality(Refused) > 1

(***************************************************************************)
(* A reload ends, whatever errors it meets on the way, but a refusal by    *)
(* the platform.  Reloads may refuse each other the worker that is free    *)
(* for as long as their looks at the counter keep coinciding; in the code  *)
(* a sleep of random length between two looks makes that improbable.       *)
(***************************************************************************)
LoadEnds ==
  \A t \in Thread : ~MainThread(t) =>
    <>(Refusal \/ (pc[t] = "returned" /\ Held(t) = {})) \/ []<>RefuseEachOther

(***************************************************************************)
(* Stop of the extractor ends the main thread, Stop of the controller the  *)
(* reloads, each with its goroutines and whatever the other ones do, as    *)
(* long as the transformer empties the queue; a thread that waits for a    *)
(* worker does not look at its context, and waits for ever if a version    *)
(* error took the worker along, as the one with the error may.             *)
(***************************************************************************)
StopEnds ==
  \A t \in Thread :
    (t \in cancelled ~> (Refusal \/ (pc[t] = "returned" /\ Held(t) = {}))) \/ []<>RefuseEachOther
=============================================================================
