----------------------------- MODULE MissedData -----------------------------
(***************************************************************************)
(* etl/controller/misseddata.go: the ranges of pulses that were reloaded   *)
(* and are not to be reloaded again before ttl has passed.  The pool is a  *)
(* slice that deleteExpired shrinks in place, at every tick of a ticker,   *)
(* until Stop has shaken hands with the goroutine of Start.                *)
(*                                                                         *)
(* Time is kept as ages: a timestamp is the time that has passed since it, *)
(* counted up to the first value that is over ttl.                         *)
(***************************************************************************)
EXTENDS Naturals, Sequences, FiniteSets

CONSTANTS
  PulseRange,      \* the pairs <<fromPulse, toPulse>> that are asked for
  TTL,             \* cfg.ReloadPeriod, in units of the clock
  CleanPeriod      \* cfg.ReloadCleanPeriod

ASSUME MissedDataAssumption ==
  /\ PulseRange \subseteq Nat \X Nat
  /\ TTL \in Nat
  /\ CleanPeriod \in Nat \ {0}

VARIABLES
  missedDataPool,  \* the slice
  sinceTick,       \* time since the ticker fired
  tick,            \* ticker.C holds a tick
  cleaner,         \* the goroutine of Start
  poolStopper,     \* the caller of Stop
  sinceReload      \* time since each range was last let through by Add

poolVars == <<missedDataPool, sinceTick, tick, cleaner, poolStopper, sinceReload>>

Older(age) == IF age <= TTL THEN age + 1 ELSE age

\* A range with the time it was entered.
MissedDataEntry(r) == [range |-> r, age |-> 0]

Covers(r, s) == r[1] <= s[1] /\ r[2] >= s[2]

\* The entry is over its ttl, or has reached it.
IsExpiredEarly(entry) == entry.age >= TTL

IsExpired(entry) == entry.age > TTL

PoolInit ==
  /\ missedDataPool = <<>>
  /\ sinceTick = 0
  /\ tick = FALSE
  /\ cleaner = "select"
  /\ poolStopper = "idle"
  /\ sinceReload = [r \in PulseRange |-> TTL + 1]

\* Add(fromPulse, toPulse): the answer is TRUE, and the range is reloaded, if no entry covers it.
Add(r) ==
  /\ ~ \E i \in DOMAIN missedDataPool : Covers(missedDataPool[i].range, r)
  /\ missedDataPool' = Append(missedDataPool, MissedDataEntry(r))
  /\ sinceReload' = [sinceReload EXCEPT ![r] = 0]
  /\ UNCHANGED <<sinceTick, tick, cleaner, poolStopper>>

(***************************************************************************)
(* The loop of deleteExpired, one turn per index of the slice it started   *)
(* with: the last entry takes the place of an expired one and is not       *)
(* looked at again.                                                        *)
(***************************************************************************)
\* The loop passes over the entry behind each one it deletes.
DeleteExpiredSkips(pool) ==
  LET Turn[i \in 0 .. Len(pool)] ==
        IF i = 0 THEN [left |-> pool, skip |-> FALSE]
        ELSE LET s == Turn[i - 1].left
             IN IF i <= Len(s) /\ ~Turn[i - 1].skip /\ IsExpired(s[i])
                THEN [left |-> [j \in 1 .. Len(s) - 1 |-> IF j = i THEN s[Len(s)] ELSE s[j]], skip |-> TRUE]
                ELSE [left |-> s, skip |-> FALSE]
  IN Turn[Len(pool)].left

\* A turn at index i; behind the shortened slice there is nothing to look at.
DeleteAt(s, i) ==
  IF i <= Len(s) /\ IsExpired(s[i])
  THEN [j \in 1 .. Len(s) - 1 |-> IF j = i THEN s[Len(s)] ELSE s[j]]
  ELSE s

DeleteExpired(pool) ==
  LET Turn[i \in 0 .. Len(pool)] == IF i = 0 THEN pool ELSE DeleteAt(Turn[i - 1], i)
  IN Turn[Len(pool)]

Clean ==
  /\ cleaner = "select"
  /\ tick
  /\ tick' = FALSE
  /\ missedDataPool' = DeleteExpired(missedDataPool)
  /\ UNCHANGED <<sinceTick, cleaner, poolStopper, sinceReload>>

\* Time passes; the ticker fires at every CleanPeriod and drops a tick nobody took.
Clock ==
  /\ missedDataPool' = [i \in DOMAIN missedDataPool |-> [missedDataPool[i] EXCEPT !.age = Older(@)]]
  /\ sinceReload' = [r \in PulseRange |-> Older(sinceReload[r])]
  /\ sinceTick' = (sinceTick + 1) % CleanPeriod
  /\ tick' = (cleaner = "select" /\ (tick \/ sinceTick' = 0))
  /\ UNCHANGED <<cleaner, poolStopper>>

\* Stop is called, and sends on stopped.
CallPoolStop ==
  /\ poolStopper = "idle"
  /\ poolStopper' = "send"
  /\ UNCHANGED <<missedDataPool, sinceTick, tick, cleaner, sinceReload>>

\* The goroutine returns as soon as it is told to stop.
TakeStopReturns ==
  /\ poolStopper = "send"
  /\ cleaner = "select"
  /\ poolStopper' = "receive"
  /\ cleaner' = "returned"
  /\ UNCHANGED <<missedDataPool, sinceTick, tick, sinceReload>>

\* The channel is unbuffered: Stop sends when the goroutine selects, and ticker.Stop() follows.
TakeStop ==
  /\ poolStopper = "send"
  /\ cleaner = "select"
  /\ poolStopper' = "receive"
  /\ cleaner' = "answer"
  /\ UNCHANGED <<missedDataPool, sinceTick, tick, sinceReload>>

\* The goroutine sends on stopped in its turn, and Stop receives.
AnswerStop ==
  /\ poolStopper = "receive"
  /\ cleaner = "answer"
  /\ poolStopper' = "returned"
  /\ cleaner' = "returned"
  /\ UNCHANGED <<missedDataPool, sinceTick, tick, sinceReload>>

PoolNext ==
  \/ \E r \in PulseRange : Add(r)
  \/ Clean
  \/ Clock
  \/ CallPoolStop
  \/ TakeStop
  \/ AnswerStop

\* Time passes and the goroutines run; nobody has to call Add or Stop.
PoolFairness == WF_poolVars(Clock) /\ WF_poolVars(Clean) /\ WF_poolVars(TakeStop) /\ WF_poolVars(AnswerStop)

PoolSpec == PoolInit /\ [][PoolNext]_poolVars /\ PoolFairness
-----------------------------------------------------------------------------
(***************************************************************************)
(* A range is not let through by Add before ttl has passed since a range   *)
(* that covers it was: deleteExpired, which moves entries around while it  *)
(* shrinks the slice, loses none that still counts.                        *)
(***************************************************************************)
NotReloadedWithinTTL ==
  [][\A r \in PulseRange : Add(r) => \A s \in PulseRange : Covers(s, r) => sinceReload[s] > TTL]_poolVars

Expired(pool) == {i \in DOMAIN pool : IsExpired(pool[i])}

\* One pass of deleteExpired leaves at most half of the expired entries it finds.
PassHalvesExpired ==
  [][Clean => 2 * Cardinality(Expired(missedDataPool')) <= Cardinality(Expired(missedDataPool))]_poolVars

\* Controller.Stop, which waits for the cleaning goroutine, returns.
StopReturns == poolStopper = "send" ~> poolStopper = "returned"
=============================================================================
