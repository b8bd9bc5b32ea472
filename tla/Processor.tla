------------------------------ MODULE Processor ------------------------------
(***************************************************************************)
(* etl/processor: how jet drops get from the transformer's channel to the  *)
(* workers.  A dispatcher sends them on the unbuffered channel taskC, to   *)
(* which a worker that fails sends its task back; Stop closes taskC.  What *)
(* a worker does in the database is the subject of Pipeline.               *)
(***************************************************************************)
EXTENDS Naturals, FiniteSets

CONSTANTS
  Worker,          \* the worker goroutines
  JetDrop,         \* the jet drops that are sent on jdC
  None,
  Stopping,        \* whether Stop is called
  MaxFailures      \* bound: calls of process that return an error

ASSUME ProcessorAssumption ==
  /\ Worker # {}
  /\ None \notin JetDrop
  /\ Stopping \in BOOLEAN
  /\ MaxFailures \in Nat

VARIABLES
  jdC,             \* the jet drops in the transformer's channel
  jdClosed,
  taskC,           \* "open" or "closed"
  active,
  taskCCloseMu,    \* "free", or who holds it while blocked in a send
  dispatcher,      \* where the dispatcher stands
  dispatched,      \* the jet drop it holds
  worker,          \* where each worker stands
  task,            \* the jet drop each worker holds
  stopper,         \* the caller of Stop
  saved,           \* jet drops that were processed without error
  failures,
  panicked         \* the program died of a send on a closed channel

dispatchVars == <<dispatcher, dispatched, taskCCloseMu>>
workerVars == <<worker, task, saved, failures>>
closeVars == <<taskC, active>>
processorVars == <<jdC, jdClosed, dispatchVars, workerVars, closeVars, stopper, panicked>>

TypeOK ==
  /\ jdC \subseteq JetDrop
  /\ jdClosed \in BOOLEAN
  /\ taskC \in {"open", "closed"}
  /\ active \in BOOLEAN
  /\ taskCCloseMu \in {"free", "dispatcher"}
  /\ dispatcher \in {"receive", "lock", "send", "unlock", "close", "returned"}
  /\ dispatched \in JetDrop \cup {None}
  /\ worker \in [Worker -> {"receive", "process", "resend", "returned"}]
  /\ task \in [Worker -> JetDrop \cup {None}]
  /\ stopper \in {"idle", "lock", "returned"}
  /\ saved \subseteq JetDrop
  /\ failures \in Nat
  /\ panicked \in BOOLEAN

\* NewProcessor and Start: active is set and taskC made before any goroutine starts.
ProcessorInit ==
  /\ jdC = JetDrop
  /\ jdClosed = FALSE
  /\ taskC = "open"
  /\ active = TRUE
  /\ taskCCloseMu = "free"
  /\ dispatcher = "receive"
  /\ dispatched = None
  /\ worker = [w \in Worker |-> "receive"]
  /\ task = [w \in Worker |-> None]
  /\ stopper = "idle"
  /\ saved = {}
  /\ failures = 0
  /\ panicked = FALSE
-----------------------------------------------------------------------------
\* The transformer's end of jdC is closed.
CloseJdC ==
  /\ ~jdClosed
  /\ jdClosed' = TRUE
  /\ UNCHANGED <<jdC, dispatchVars, workerVars, closeVars, stopper, panicked>>

ReceiveJetDrop ==
  /\ dispatcher = "receive"
  /\ \E d \in jdC :
       /\ jdC' = jdC \ {d}
       /\ dispatched' = d
  /\ dispatcher' = "lock"
  /\ UNCHANGED <<jdClosed, taskCCloseMu, workerVars, closeVars, stopper, panicked>>

\* jdC is closed and empty: the dispatcher leaves its loop.
ReceiveEnd ==
  /\ dispatcher = "receive"
  /\ jdC = {} /\ jdClosed
  /\ dispatcher' = "close"
  /\ UNCHANGED <<jdC, jdClosed, dispatched, taskCCloseMu, workerVars, closeVars, stopper, panicked>>

\* The dispatcher looks at active before it takes the lock.
LockUnguarded ==
  /\ dispatcher = "lock"
  /\ dispatcher' = IF active THEN "send" ELSE "unlock"
  /\ UNCHANGED <<jdC, jdClosed, taskCCloseMu, dispatched, workerVars, closeVars, stopper, panicked>>

Lock ==
  /\ dispatcher = "lock"
  /\ taskCCloseMu = "free"
  /\ taskCCloseMu' = "dispatcher"
  /\ dispatcher' = IF active THEN "send" ELSE "unlock"
  /\ UNCHANGED <<jdC, jdClosed, dispatched, workerVars, closeVars, stopper, panicked>>

\* A send on taskC meets a worker that receives; the lock is held meanwhile.
SendTask(w) ==
  /\ dispatcher = "send"
  /\ taskC = "open"
  /\ worker[w] = "receive"
  /\ worker' = [worker EXCEPT ![w] = "process"]
  /\ task' = [task EXCEPT ![w] = dispatched]
  /\ dispatched' = None
  /\ dispatcher' = "unlock"
  /\ UNCHANGED <<jdC, jdClosed, taskCCloseMu, saved, failures, closeVars, stopper, panicked>>

\* An early return leaves the lock taken.
UnlockForgotten ==
  /\ dispatcher = "unlock"
  /\ dispatcher' = "receive"
  /\ dispatched' = None
  /\ UNCHANGED <<jdC, jdClosed, taskCCloseMu, workerVars, closeVars, stopper, panicked>>

Unlock ==
  /\ dispatcher = "unlock"
  /\ taskCCloseMu' = "free"
  /\ dispatcher' = "receive"
  /\ dispatched' = None
  /\ UNCHANGED <<jdC, jdClosed, workerVars, closeVars, stopper, panicked>>

\* The critical section of Stop, and of a dispatcher whose jdC is closed.
CloseTaskC ==
  /\ taskCCloseMu = "free"
  /\ active' = FALSE
  /\ taskC' = "closed"

DispatcherCloses ==
  /\ dispatcher = "close"
  /\ CloseTaskC
  /\ dispatcher' = "returned"
  /\ UNCHANGED <<jdC, jdClosed, taskCCloseMu, dispatched, workerVars, stopper, panicked>>

CallStop ==
  /\ Stopping
  /\ stopper = "idle"
  /\ stopper' = "lock"
  /\ UNCHANGED <<jdC, jdClosed, dispatchVars, workerVars, closeVars, panicked>>

Stop ==
  /\ stopper = "lock"
  /\ CloseTaskC
  /\ stopper' = "returned"
  /\ UNCHANGED <<jdC, jdClosed, dispatchVars, workerVars, panicked>>
-----------------------------------------------------------------------------
\* process returns nil.
Process(w) ==
  /\ worker[w] = "process"
  /\ worker' = [worker EXCEPT ![w] = "receive"]
  /\ task' = [task EXCEPT ![w] = None]
  /\ saved' = saved \cup {task[w]}
  /\ UNCHANGED <<jdC, jdClosed, dispatchVars, failures, closeVars, stopper, panicked>>

\* The error is logged and the task forgotten.
ProcessFailsAndForgets(w) ==
  /\ worker[w] = "process"
  /\ failures < MaxFailures
  /\ failures' = failures + 1
  /\ worker' = [worker EXCEPT ![w] = "receive"]
  /\ task' = [task EXCEPT ![w] = None]
  /\ UNCHANGED <<jdC, jdClosed, dispatchVars, saved, closeVars, stopper, panicked>>

\* process returns an error: the worker is going to send its task back.
ProcessFails(w) ==
  /\ worker[w] = "process"
  /\ failures < MaxFailures
  /\ failures' = failures + 1
  /\ worker' = [worker EXCEPT ![w] = "resend"]
  /\ UNCHANGED <<jdC, jdClosed, dispatchVars, task, saved, closeVars, stopper, panicked>>

\* The worker goes on to receive without having its task taken.
ResendWithoutReceiver(w, v) ==
  /\ worker[w] = "resend"
  /\ taskC = "open"
  /\ worker' = [worker EXCEPT ![w] = "receive"]
  /\ task' = [task EXCEPT ![w] = None]
  /\ UNCHANGED <<jdC, jdClosed, dispatchVars, saved, failures, closeVars, stopper, panicked>>

\* The failed task goes to another worker, which has to be receiving.
Resend(w, v) ==
  /\ worker[w] = "resend"
  /\ worker[v] = "receive"
  /\ taskC = "open"
  /\ worker' = [worker EXCEPT ![w] = "receive", ![v] = "process"]
  /\ task' = [task EXCEPT ![w] = None, ![v] = task[w]]
  /\ UNCHANGED <<jdC, jdClosed, dispatchVars, saved, failures, closeVars, stopper, panicked>>

\* A send on a closed channel, begun before or after it was closed, ends the program.
ResendPanics(w) ==
  /\ worker[w] = "resend"
  /\ taskC = "closed"
  /\ panicked' = TRUE
  /\ UNCHANGED <<jdC, jdClosed, dispatchVars, workerVars, closeVars, stopper>>

\* The receive from the closed channel yields ok = false.
WorkerReturns(w) ==
  /\ worker[w] = "receive"
  /\ taskC = "closed"
  /\ worker' = [worker EXCEPT ![w] = "returned"]
  /\ UNCHANGED <<jdC, jdClosed, dispatchVars, task, saved, failures, closeVars, stopper, panicked>>
-----------------------------------------------------------------------------
\* A turn of the dispatcher's loop, and what follows the loop.
DispatcherLoop == ReceiveJetDrop \/ Lock \/ (\E w \in Worker : SendTask(w)) \/ Unlock
DispatcherStep == DispatcherLoop \/ ReceiveEnd \/ DispatcherCloses

WorkerStep(w) ==
  \/ Process(w)
  \/ ProcessFails(w)
  \/ \E v \in Worker : Resend(w, v)
  \/ ResendPanics(w)
  \/ WorkerReturns(w)

ProcessorNext ==
  /\ ~panicked
  /\ \/ CloseJdC
     \/ DispatcherStep
     \/ CallStop
     \/ Stop
     \/ \E w \in Worker : WorkerStep(w)

\* Every goroutine that can go on does; senders on a channel are served in turn.
ProcessorFairness ==
  /\ WF_processorVars(~panicked /\ DispatcherStep)
  /\ WF_processorVars(~panicked /\ Stop)
  /\ \A w \in Worker : WF_processorVars(~panicked /\ WorkerStep(w))

ProcessorSpec == ProcessorInit /\ [][ProcessorNext]_processorVars /\ ProcessorFairness
-----------------------------------------------------------------------------
(***************************************************************************)
(* The dispatcher, which blocks in its send for as long as all workers are *)
(* busy, never meets a closed channel there: Stop waits for taskCCloseMu.  *)
(***************************************************************************)
DispatcherSendsOnOpen == dispatcher = "send" => taskC = "open"

Held == {dispatched} \cup {task[w] : w \in Worker}

\* As long as the processor is active a jet drop waits, is held by a goroutine or is saved,
\* although workers hand failed tasks to each other.
NothingForgotten == active => JetDrop \subseteq jdC \cup Held \cup saved
=============================================================================
