------------------------------ MODULE Shutdown ------------------------------
(***************************************************************************)
(* cmd/block-explorer: how the program stops.  main waits in graceful for  *)
(* a signal or for one message on the unbuffered stopChannel, on which the *)
(* database plugin, the watch of the gRPC connection and the extractor     *)
(* send, and then stops the components in the reverse order of their       *)
(* start.  The processor is there in full, since the plugin runs in its    *)
(* workers and main waits for its lock.                                    *)
(***************************************************************************)
EXTENDS Processor, Sequences

CONSTANT Sender   \* who sends on stopChannel besides the workers: NotifyShutdown, shutdownBE

ASSUME ShutdownAssumption == Sender \cap Worker = {}

VARIABLES
  main,          \* 0 in graceful, then the index in Deferred of the call main is at
  stopChannel,   \* the goroutines blocked in a send on stopChannel
  stop,          \* a signal is in the channel stop
  notified,      \* the senders other than workers that have sent
  dbDown         \* the database cannot be reached

shutdownVars == <<main, stopChannel, stop, notified, dbDown>>
allVars == <<processorVars, shutdownVars>>

\* The deferred calls of main, last one first.
Deferred == <<"processor", "controller", "database", "transformer", "extractor",
              "connection", "router", "profefe", "exited">>

Exited == main = Len(Deferred)
DatabaseClosed == \E i \in 1 .. main - 1 : Deferred[i] = "database"

\* main has started every component.
ShutdownInit ==
  /\ ProcessorInit
  /\ main = 0
  /\ stopChannel = {}
  /\ stop = FALSE
  /\ notified = {}
  /\ dbDown = FALSE
-----------------------------------------------------------------------------
Signal ==
  /\ ~stop
  /\ stop' = TRUE
  /\ UNCHANGED <<processorVars, main, stopChannel, notified, dbDown>>

LoseDatabase ==
  /\ ~dbDown
  /\ dbDown' = TRUE
  /\ UNCHANGED <<processorVars, main, stopChannel, stop, notified>>

\* The gRPC connection does not recover in time, or the platform refuses this version: sent once each.
Notify(sender) ==
  /\ sender \notin notified
  /\ notified' = notified \cup {sender}
  /\ stopChannel' = stopChannel \cup {sender}
  /\ UNCHANGED <<processorVars, main, stop, dbDown>>

\* shutdownCallback: the statement failed, the ping fails too, and the worker sends on stopChannel.
ShutdownCallback(w) ==
  /\ worker[w] = "process"
  /\ dbDown /\ ~DatabaseClosed
  /\ w \notin stopChannel
  /\ stopChannel' = stopChannel \cup {w}
  /\ UNCHANGED <<processorVars, main, stop, notified, dbDown>>

\* main leaves graceful; a worker whose message it took goes on to send its task back.
GracefulByChannel(g) ==
  /\ main = 0
  /\ g \in stopChannel
  /\ main' = 1
  /\ stopChannel' = stopChannel \ {g}
  /\ stopper' = "lock"
  /\ worker' = IF g \in Worker THEN [worker EXCEPT ![g] = "resend"] ELSE worker
  /\ UNCHANGED <<jdC, jdClosed, dispatchVars, task, saved, failures, closeVars, panicked>>
  /\ UNCHANGED <<stop, notified, dbDown>>

GracefulBySignal ==
  /\ main = 0
  /\ stop
  /\ main' = 1
  /\ stop' = FALSE
  /\ stopper' = "lock"
  /\ UNCHANGED <<jdC, jdClosed, dispatchVars, workerVars, closeVars, panicked>>
  /\ UNCHANGED <<stopChannel, notified, dbDown>>

\* main goes on without waiting for the processor.
StopNextAtOnce ==
  /\ main \in 1 .. Len(Deferred) - 1
  /\ main' = main + 1
  /\ UNCHANGED <<processorVars, stopChannel, stop, notified, dbDown>>

\* The deferred call main is at returns; only the first one can keep it waiting.
StopNext ==
  /\ main \in 1 .. Len(Deferred) - 1
  /\ stopper = "returned"
  /\ main' = main + 1
  /\ UNCHANGED <<processorVars, stopChannel, stop, notified, dbDown>>

\* A statement on the closed database fails without a callback.
ProcessOnClosedDatabase(w) ==
  /\ DatabaseClosed
  /\ worker[w] = "process"
  /\ worker' = [worker EXCEPT ![w] = "resend"]
  /\ UNCHANGED <<jdC, jdClosed, dispatchVars, task, saved, failures, closeVars, stopper, panicked>>

\* The steps of a worker that is not held in a send on stopChannel.
WorkerWorks(w) ==
  /\ w \notin stopChannel
  /\ \/ ~dbDown /\ ~DatabaseClosed /\ (Process(w) \/ ProcessFails(w))
     \/ ProcessOnClosedDatabase(w)
     \/ \E v \in Worker : Resend(w, v)
     \/ ResendPanics(w)
     \/ WorkerReturns(w)
  /\ UNCHANGED shutdownVars

Running == ~panicked /\ ~Exited

ShutdownNext ==
  /\ Running
  /\ \/ Signal
     \/ LoseDatabase
     \/ \E sender \in Sender : Notify(sender)
     \/ \E w \in Worker : ShutdownCallback(w) \/ WorkerWorks(w)
     \/ \E g \in stopChannel : GracefulByChannel(g)
     \/ GracefulBySignal
     \/ StopNext
     \/ (DispatcherLoop \/ Stop) /\ UNCHANGED shutdownVars

MainStep == (\E g \in stopChannel : GracefulByChannel(g)) \/ GracefulBySignal \/ StopNext

ShutdownFairness ==
  /\ WF_allVars(Running /\ MainStep)
  /\ WF_allVars(Running /\ DispatcherLoop /\ UNCHANGED shutdownVars)
  /\ WF_allVars(Running /\ Stop /\ UNCHANGED shutdownVars)
  /\ \A w \in Worker : WF_allVars(Running /\ (ShutdownCallback(w) \/ WorkerWorks(w)))

ShutdownSpec == ShutdownInit /\ [][ShutdownNext]_allVars /\ ShutdownFairness
-----------------------------------------------------------------------------
Requested == stop \/ stopChannel # {}

\* Every worker failed and sends its task back: nobody receives from taskC any more.
AllResend == \A w \in Worker : worker[w] = "resend"

\* And the dispatcher, which waits for a receiver too, holds the lock that Stop needs.
Jammed == AllResend /\ dispatcher = "send"

(***************************************************************************)
(* A signal or any message on stopChannel ends the program, be it by the   *)
(* panic of a worker that failed, unless the database is lost or all the   *)
(* workers have failed while the dispatcher was in its send: no other      *)
(* order of failures, sends and messages keeps main waiting for the lock.  *)
(***************************************************************************)
StopsWithDatabase == Requested ~> (Exited \/ panicked \/ dbDown \/ Jammed)

(***************************************************************************)
(* The database is closed only behind a processor that takes no more work: *)
(* whatever is saved from then on is a jet drop a worker already had.      *)
(***************************************************************************)
NothingNewOnClosedDatabase ==
  [][DatabaseClosed => \A w \in Worker : ~SendTask(w) /\ \A v \in Worker : ~Resend(w, v)]_allVars

(***************************************************************************)
(* A worker's failure is made up for by another worker, as long as one is  *)
(* left to receive: every jet drop is saved, unless the processor is       *)
(* stopped, the database lost, or all workers wait in their resends.       *)
(***************************************************************************)
EveryJetDropIsSaved == \A d \in JetDrop : <>(d \in saved \/ ~active \/ dbDown \/ AllResend)
=============================================================================
