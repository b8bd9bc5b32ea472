--------------------------- MODULE ExtractorProofs ---------------------------
(***************************************************************************)
(* Proofs about the counter of the extractor's workers, about what a pulse *)
(* is delivered with, and about the range a reload covers, for any number  *)
(* of threads, pulses, records and workers, in both modes of retrieval.    *)
(***************************************************************************)
EXTENDS Extractor, FiniteSetTheorems, TLAPS

Place == {"loop", "take", "giveBack", "next", "records", "shutdown", "returned"}

\* The types the argument needs; of a call only where it stands matters.
Types ==
  /\ head \in Pulse
  /\ workers \in Int
  /\ pc \in [Thread -> Place]
  /\ pulse \in [Thread -> Nat]
  /\ DOMAIN retrieval = Thread \X Pulse
  /\ \A k \in Thread \X Pulse : "at" \in DOMAIN retrieval[k]
  /\ leaked \subseteq Thread

(***************************************************************************)
(* Where a thread stands: only reloads use workers, a pulse not yet        *)
(* reached has no call, the call of a serial thread is the one it waits    *)
(* for, and a thread that took its worker along is about to return.        *)
(***************************************************************************)
Places ==
  /\ \A t \in Thread : pc[t] \in {"take", "giveBack", "records"} => ~MainThread(t)
  /\ \A t \in Thread, p \in Pulse : p > pulse[t] => retrieval[<<t, p>>].at = "none"
  /\ \A t \in Thread, p \in Pulse :
       Serial(t) /\ retrieval[<<t, p>>].at # "none" => pc[t] = "records" /\ p = pulse[t]
  /\ \A t \in leaked : pc[t] \in {"shutdown", "returned"}

\* The inductive invariant.
IInv == Types /\ Places /\ WorkersCounted /\ WorkersLimited

LEMMA FinitePulses == IsFiniteSet(Thread \X Pulse)
<1>1. IsFiniteSet(Pulse)
  BY ExtractorAssumption, FS_Interval DEF Pulse
<1> QED
  BY <1>1, ExtractorAssumption, FS_Product

\* The four sets the counter counts are finite.
LEMMA FiniteHolders ==
  ASSUME leaked \subseteq Thread
  PROVE  IsFiniteSet(Asking) /\ IsFiniteSet(Refused) /\ IsFiniteSet(Retrieving) /\ IsFiniteSet(leaked)
<1>1. Asking \subseteq Thread /\ Refused \subseteq Thread
  BY DEF Asking, Refused
<1>2. Retrieving \subseteq Thread \X Pulse
  BY DEF Retrieving
<1> QED
  BY <1>1, <1>2, FinitePulses, ExtractorAssumption, FS_Subset

LEMMA InitIInv == Init => IInv
<1> SUFFICES ASSUME Init PROVE IInv
  OBVIOUS
<1> USE ExtractorAssumption
<1>1. Types
  BY DEF Init, Types, Pulse, Place, Idle
<1>2. Places
  BY DEF Init, Places, Idle
<1>3. Asking = {} /\ Refused = {} /\ Retrieving = {} /\ leaked = {}
  <2>1. \A k \in Thread \X Pulse : retrieval[k].at = "none"
    BY DEF Init, Idle
  <2> QED
    BY <2>1 DEF Init, Asking, Refused, Retrieving
<1>4. Cardinality({}) = 0
  BY FS_EmptySet
<1> QED
  BY <1>1, <1>2, <1>3, <1>4 DEF IInv, WorkersCounted, WorkersLimited, Init

-----------------------------------------------------------------------------
(***************************************************************************)
(* Arithmetic of the counter: what the four sets may do together in a step *)
(* that keeps the counter right and the limit kept.                        *)
(***************************************************************************)
Counts == WorkersCounted /\ WorkersLimited

LEMMA NothingMoves ==
  ASSUME Counts, workers' = workers,
         Asking' = Asking, Refused' = Refused, Retrieving' = Retrieving, leaked' = leaked
  PROVE  Counts'
  BY DEF Counts, WorkersCounted, WorkersLimited

LEMMA Enters ==
  ASSUME NEW S, NEW x, IsFiniteSet(S), x \notin S
  PROVE  Cardinality(S \cup {x}) = Cardinality(S) + 1 /\ Cardinality(S) \in Nat
  BY FS_AddElement, FS_CardinalityType

LEMMA Leaves ==
  ASSUME NEW S, NEW x, IsFiniteSet(S), x \in S
  PROVE  Cardinality(S \ {x}) = Cardinality(S) - 1 /\ Cardinality(S) \in Nat
  BY FS_RemoveElement, FS_CardinalityType

\* What the counter counts, as numbers.
LEMMA Sizes ==
  ASSUME Types
  PROVE  /\ Cardinality(Asking) \in Nat /\ Cardinality(Refused) \in Nat
         /\ Cardinality(Retrieving) \in Nat /\ Cardinality(leaked) \in Nat
  BY FiniteHolders, FS_CardinalityType DEF Types

LEMMA LoopStep ==
  ASSUME IInv, NEW t \in Thread, Loop(t)
  PROVE  IInv'
<1>1. Types'
  BY DEF IInv, Types, Loop, Place, outVars
<1>2. Places'
  BY DEF IInv, Types, Places, Loop, Place, Serial, MainThread, outVars
<1>3. Asking' = Asking /\ Refused' = Refused
  BY DEF IInv, Types, Loop, Asking, Refused, MainThread
<1>4. Retrieving' = Retrieving /\ leaked' = leaked /\ workers' = workers
  BY DEF Loop, Retrieving
<1> QED
  BY <1>1, <1>2, <1>3, <1>4, NothingMoves DEF IInv, Counts

LEMMA TakeWorkerStep ==
  ASSUME IInv, NEW t \in Thread, TakeWorker(t)
  PROVE  IInv'
<1>1. Types'
  BY DEF IInv, Types, TakeWorker, Place
<1>2. Places'
  BY DEF IInv, Types, Places, TakeWorker, Place, Serial, MainThread
<1>3. ~MainThread(t) /\ t \notin Asking /\ t \notin Refused
  BY DEF IInv, Places, TakeWorker, Asking, Refused
<1>4. Retrieving' = Retrieving /\ leaked' = leaked /\ workers' = workers + 1
  BY DEF TakeWorker, Retrieving
<1>5. CASE workers + 1 > MaxWorkers
  <2>1. Asking' = Asking /\ Refused' = Refused \cup {t}
    BY <1>3, <1>5 DEF IInv, Types, TakeWorker, Asking, Refused, MainThread
  <2>2. Cardinality(Refused') = Cardinality(Refused) + 1
    BY <2>1, <1>3, FiniteHolders, Enters DEF IInv, Types
  <2> QED
    BY <1>1, <1>2, <1>4, <2>1, <2>2, Sizes DEF IInv, WorkersCounted, WorkersLimited
<1>6. CASE workers + 1 <= MaxWorkers
  <2>1. Asking' = Asking \cup {t} /\ Refused' = Refused
    BY <1>3, <1>6, ExtractorAssumption DEF IInv, Types, TakeWorker, Asking, Refused, MainThread
  <2>2. Cardinality(Asking') = Cardinality(Asking) + 1
    BY <2>1, <1>3, FiniteHolders, Enters, ZenonT(30) DEF IInv, Types
  <2> QED
    BY <1>1, <1>2, <1>4, <1>6, <2>1, <2>2, Sizes, ExtractorAssumption
       DEF IInv, Types, WorkersCounted, WorkersLimited
<1> QED
  BY <1>5, <1>6, ExtractorAssumption DEF IInv, Types

LEMMA GiveBackStep ==
  ASSUME IInv, NEW t \in Thread, GiveBack(t)
  PROVE  IInv'
<1>1. Types'
  BY DEF IInv, Types, GiveBack, Place
<1>2. Places'
  BY DEF IInv, Types, Places, GiveBack, Place, Serial, MainThread
<1>3. t \in Refused
  BY DEF IInv, Places, GiveBack, Refused
<1>4. Retrieving' = Retrieving /\ leaked' = leaked /\ workers' = workers - 1
  BY DEF GiveBack, Retrieving
<1>5. Asking' = Asking /\ Refused' = Refused \ {t}
  BY DEF IInv, Types, GiveBack, Asking, Refused, MainThread
<1>6. Cardinality(Refused') = Cardinality(Refused) - 1
  BY <1>3, <1>5, FiniteHolders, Leaves DEF IInv, Types
<1> QED
  BY <1>1, <1>2, <1>4, <1>5, <1>6, Sizes DEF IInv, Types, WorkersCounted, WorkersLimited

\* A reload that was told no pulse frees its worker; the main thread had none.
LEMMA NextFailsStep ==
  ASSUME IInv, NEW t \in Thread, NextFails(t)
  PROVE  IInv'
<1>1. Types'
  BY DEF IInv, Types, NextFails, Place, Freed
<1>2. Places'
  BY DEF IInv, Types, Places, NextFails, Place, Serial, MainThread
<1>3. Retrieving' = Retrieving /\ leaked' = leaked /\ Refused' = Refused
  BY DEF IInv, Types, NextFails, Retrieving, Refused, MainThread
<1>4. CASE MainThread(t)
  <2>1. Asking' = Asking /\ workers' = workers
    BY <1>4 DEF IInv, Types, NextFails, Asking, Freed, MainThread
  <2> QED
    BY <1>1, <1>2, <1>3, <2>1, NothingMoves DEF IInv, Counts
<1>5. CASE ~MainThread(t)
  <2>1. Asking' = Asking \ {t} /\ t \in Asking /\ workers' = workers - 1
    BY <1>5 DEF IInv, Types, NextFails, Asking, Freed, MainThread
  <2>2. Cardinality(Asking') = Cardinality(Asking) - 1
    BY <2>1, FiniteHolders, Leaves DEF IInv, Types
  <2> QED
    BY <1>1, <1>2, <1>3, <2>1, <2>2, Sizes, ExtractorAssumption
       DEF IInv, Types, WorkersCounted, WorkersLimited
<1> QED
  BY <1>4, <1>5

\* A version error moves the thread's worker to the ones that are never freed.
LEMMA NextVersionErrorStep ==
  ASSUME IInv, NEW t \in Thread, NextVersionError(t)
  PROVE  IInv'
<1>1. Types'
  BY DEF IInv, Types, NextVersionError, Place
<1>2. Places'
  BY DEF IInv, Types, Places, NextVersionError, Place, Serial, MainThread
<1>3. Retrieving' = Retrieving /\ Refused' = Refused /\ workers' = workers
  BY DEF IInv, Types, NextVersionError, Retrieving, Refused, MainThread
<1>4. CASE MainThread(t)
  <2>1. Asking' = Asking /\ leaked' = leaked
    BY <1>4, ZenonT(30) DEF IInv, Types, NextVersionError, Asking, MainThread
  <2> QED
    BY <1>1, <1>2, <1>3, <2>1, NothingMoves, ZenonT(30) DEF IInv, Counts
<1>5. CASE ~MainThread(t)
  <2>1. Asking' = Asking \ {t} /\ t \in Asking
    BY <1>5 DEF IInv, Types, NextVersionError, Asking, MainThread
  <2>2. leaked' = leaked \cup {t} /\ t \notin leaked
    BY <1>5 DEF IInv, Places, NextVersionError
  <2>3. Cardinality(Asking') = Cardinality(Asking) - 1
    BY <2>1, FiniteHolders, Leaves DEF IInv, Types
  <2>4. Cardinality(leaked') = Cardinality(leaked) + 1
    BY <2>2, FiniteHolders, Enters, ZenonT(30) DEF IInv, Types
  <2> QED
    BY <1>1, <1>2, <1>3, <2>3, <2>4, Sizes DEF IInv, Types, WorkersCounted, WorkersLimited
<1> QED
  BY <1>4, <1>5

LEMMA ShutdownReturnsStep ==
  ASSUME IInv, NEW t \in Thread, ShutdownReturns(t)
  PROVE  IInv'
<1>1. Types'
  BY DEF IInv, Types, ShutdownReturns, Place
<1>2. Places'
  BY DEF IInv, Types, Places, ShutdownReturns, Place, Serial, MainThread
<1>3. Asking' = Asking /\ Refused' = Refused
  BY DEF IInv, Types, ShutdownReturns, Asking, Refused, MainThread
<1>4. Retrieving' = Retrieving /\ leaked' = leaked /\ workers' = workers
  BY DEF ShutdownReturns, Retrieving
<1> QED
  BY <1>1, <1>2, <1>3, <1>4, NothingMoves DEF IInv, Counts

\* The pulse after the one retrieved last is a pulse of the platform and later than that one.
LEMMA NextIsLater ==
  ASSUME head \in Pulse, NEW before \in Nat, NEW p \in GetNextFinalizedPulse(before)
  PROVE  p \in Pulse /\ p > before
<1> USE ExtractorAssumption DEF Pulse
<1>1. CASE before = 0
  BY <1>1 DEF GetNextFinalizedPulse
<1>2. CASE before # 0
  BY <1>2 DEF GetNextFinalizedPulse
<1> QED
  BY <1>1, <1>2

\* A reload hands its worker to the call of retrieveRecords.
LEMMA NextPulseStep ==
  ASSUME IInv, NEW t \in Thread, NextPulse(t)
  PROVE  IInv'
<1>1. PICK p \in GetNextFinalizedPulse(pulse[t]) :
        LET skip == Serial(t) /\ Skip(t, p)
        IN  /\ pulse' = [pulse EXCEPT ![t] = p]
            /\ retrieval' = [retrieval EXCEPT ![<<t, p>>] =
                               [Idle EXCEPT !.at = IF skip THEN "deliver" ELSE "export", !.skip = skip]]
            /\ pc' = [pc EXCEPT ![t] = IF Serial(t) THEN "records" ELSE AfterPulse(t, p)]
  BY Zenon DEF NextPulse
<1> DEFINE call == [Idle EXCEPT !.at = IF Serial(t) /\ Skip(t, p) THEN "deliver" ELSE "export",
                               !.skip = Serial(t) /\ Skip(t, p)]
<1>2. retrieval' = [retrieval EXCEPT ![<<t, p>>] = call]
  BY <1>1
<1>3. call.at # "none" /\ "at" \in DOMAIN call
  BY DEF Idle
<1> HIDE DEF call
<1>4. p \in Pulse /\ p > pulse[t] /\ p \in Nat
  BY NextIsLater, ExtractorAssumption DEF IInv, Types, Pulse
<1>5. /\ pc[t] = "next" /\ workers' = workers /\ leaked' = leaked /\ head' = head
      /\ pulse' = [pulse EXCEPT ![t] = p]
      /\ pc' = [pc EXCEPT ![t] = IF Serial(t) THEN "records" ELSE AfterPulse(t, p)]
  BY <1>1, Zenon DEF NextPulse
<1>6. AfterPulse(t, p) \in {"returned", "loop"}
  BY DEF AfterPulse
<1>7. Types'
  BY <1>2, <1>3, <1>4, <1>5, <1>6, ZenonT(30) DEF IInv, Types, Place
<1>8. retrieval[<<t, p>>].at = "none"
  BY <1>4 DEF IInv, Places
<1>9. \A s \in Thread, q \in Pulse :
        retrieval'[<<s, q>>] = IF s = t /\ q = p THEN call ELSE retrieval[<<s, q>>]
  BY <1>2, <1>4 DEF IInv, Types
<1>10. Places'
  <2>1. \A s \in Thread : pc'[s] \in {"take", "giveBack", "records"} => ~MainThread(s)
    BY <1>5, <1>6 DEF IInv, Types, Places, Serial
  <2>2. \A s \in Thread, q \in Pulse : q > pulse'[s] => retrieval'[<<s, q>>].at = "none"
    <3> SUFFICES ASSUME NEW s \in Thread, NEW q \in Pulse, q > pulse'[s]
                 PROVE  retrieval'[<<s, q>>].at = "none"
      OBVIOUS
    <3>1. CASE s = t
      <4>1. q \in Int /\ q > p /\ pulse[t] \in Nat
        BY <3>1, <1>5, <1>4, ExtractorAssumption DEF IInv, Types, Pulse
      <4>2. q > pulse[t] /\ q # p
        BY <4>1, <1>4
      <4> QED
        BY <4>2, <3>1, <1>9 DEF IInv, Places
    <3>2. CASE s # t
      BY <3>2, <1>5, <1>9 DEF IInv, Types, Places
    <3> QED
      BY <3>1, <3>2
  <2>3. \A s \in Thread, q \in Pulse :
          Serial(s) /\ retrieval'[<<s, q>>].at # "none" => pc'[s] = "records" /\ q = pulse'[s]
    BY <1>5, <1>9 DEF IInv, Types, Places
  <2>4. \A s \in leaked : pc'[s] \in {"shutdown", "returned"}
    BY <1>5 DEF IInv, Types, Places
  <2> QED
    BY <2>1, <2>2, <2>3, <2>4, <1>5, ZenonT(30) DEF Places, Serial, MainThread
<1>11. Refused' = Refused
  BY <1>5, <1>6 DEF IInv, Types, Refused, MainThread
<1>12. CASE MainThread(t)
  <2>1. Asking' = Asking
    BY <1>12, <1>5 DEF IInv, Types, Asking, MainThread
  <2>2. Retrieving' = Retrieving
    BY <1>12, <1>9 DEF Retrieving, MainThread
  <2> QED
    BY <2>1, <2>2, <1>5, <1>7, <1>10, <1>11, NothingMoves DEF IInv, Counts
<1>13. CASE ~MainThread(t)
  <2>1. Asking' = Asking \ {t} /\ t \in Asking
    BY <1>13, <1>5, <1>6 DEF IInv, Types, Asking, MainThread
  <2>2. Retrieving' = Retrieving \cup {<<t, p>>} /\ <<t, p>> \notin Retrieving
    <3>1. \A k \in Thread \X Pulse : retrieval'[k] = IF k = <<t, p>> THEN call ELSE retrieval[k]
      BY <1>2 DEF IInv, Types
    <3>2. <<t, p>> \in Thread \X Pulse /\ <<t, p>>[1] = t
      BY <1>4
    <3>3. <<t, p>> \notin Retrieving
      BY <1>8 DEF Retrieving
    <3>4. \A k \in Thread \X Pulse : k \in Retrieving' <=> k \in Retrieving \/ k = <<t, p>>
      BY <3>1, <3>2, <1>3, <1>13 DEF Retrieving, MainThread
    <3>5. Retrieving \subseteq Thread \X Pulse /\ Retrieving' \subseteq Thread \X Pulse
      BY DEF Retrieving, Pulse
    <3> QED
      BY <3>2, <3>3, <3>4, <3>5
  <2>3. Cardinality(Asking') = Cardinality(Asking) - 1
    BY <2>1, FiniteHolders, Leaves DEF IInv, Types
  <2>4. Cardinality(Retrieving') = Cardinality(Retrieving) + 1
    BY <2>2, FiniteHolders, Enters DEF IInv, Types
  <2> QED
    BY <1>5, <1>7, <1>10, <1>11, <2>3, <2>4, Sizes DEF IInv, Types, WorkersCounted, WorkersLimited
<1> QED
  BY <1>12, <1>13

\* A call that goes on keeps its worker.
LEMMA ContinueStep ==
  ASSUME IInv, NEW t \in Thread, NEW p \in Pulse, NEW r,
         retrieval[<<t, p>>].at # "none", "at" \in DOMAIN r, r.at # "none",
         Continue(t, p, r)
  PROVE  IInv'
<1>1. /\ retrieval' = [retrieval EXCEPT ![<<t, p>>] = r]
      /\ workers' = workers /\ leaked' = leaked /\ head' = head /\ pc' = pc /\ pulse' = pulse
  BY DEF Continue, threadVars
<1>2. \A k \in Thread \X Pulse : retrieval'[k].at = "none" <=> retrieval[k].at = "none"
  BY <1>1 DEF IInv, Types
<1>3. Types'
  BY <1>1 DEF IInv, Types
<1>4. \A s \in Thread, q \in Pulse : retrieval'[<<s, q>>].at = "none" <=> retrieval[<<s, q>>].at = "none"
  BY <1>2
<1>5. Places'
  BY <1>1, <1>4 DEF IInv, Places, Serial, MainThread
<1>6. Asking' = Asking /\ Refused' = Refused
  BY <1>1 DEF Asking, Refused
<1>7. Retrieving' = Retrieving
  BY <1>2 DEF Retrieving
<1> QED
  BY <1>1, <1>3, <1>5, <1>6, <1>7, NothingMoves DEF IInv, Counts

\* A call that returns frees its worker; it was the only one of a serial thread.
LEMMA ReturnStep ==
  ASSUME IInv, NEW t \in Thread, NEW p \in Pulse, NEW q, retrieval[<<t, p>>].at # "none", Return(t, p, q)
  PROVE  IInv'
<1>1. /\ retrieval' = [retrieval EXCEPT ![<<t, p>>] = Idle]
      /\ workers' = Freed(t) /\ leaked' = leaked /\ head' = head /\ pulse' = pulse
      /\ pc' = IF Serial(t) THEN [pc EXCEPT ![t] = AfterPulse(t, p)] ELSE pc
  BY DEF Return
<1>2. AfterPulse(t, p) \in {"returned", "loop"} /\ Idle.at = "none" /\ "at" \in DOMAIN Idle
  BY DEF AfterPulse, Idle
<1>3. Types'
  BY <1>1, <1>2 DEF IInv, Types, Place, Freed
<1>4. \A k \in Thread \X Pulse : retrieval'[k] = IF k = <<t, p>> THEN Idle ELSE retrieval[k]
  BY <1>1 DEF IInv, Types
<1>5. \A s \in Thread, r \in Pulse :
        retrieval'[<<s, r>>].at # "none" => retrieval[<<s, r>>].at # "none" /\ ~(s = t /\ r = p)
  BY <1>2, <1>4
<1>6. Serial(t) => pc[t] = "records" /\ p = pulse[t]
  BY DEF IInv, Places
<1>7. Places'
  <2>1. \A s \in Thread : pc'[s] \in {"take", "giveBack", "records"} => ~MainThread(s)
    BY <1>1, <1>2 DEF IInv, Types, Places
  <2>2. \A s \in Thread, r \in Pulse : r > pulse'[s] => retrieval'[<<s, r>>].at = "none"
    BY <1>1, <1>5 DEF IInv, Places
  <2>3. \A s \in Thread, r \in Pulse :
          Serial(s) /\ retrieval'[<<s, r>>].at # "none" => pc'[s] = "records" /\ r = pulse'[s]
    <3> SUFFICES ASSUME NEW s \in Thread, NEW r \in Pulse, Serial(s), retrieval'[<<s, r>>].at # "none"
                 PROVE  pc'[s] = "records" /\ r = pulse'[s]
      OBVIOUS
    <3>1. retrieval[<<s, r>>].at # "none" /\ ~(s = t /\ r = p)
      BY <1>5
    <3>2. pc[s] = "records" /\ r = pulse[s]
      BY <3>1 DEF IInv, Places
    <3>3. s # t
      BY <3>1, <3>2, <1>6
    <3> QED
      BY <1>1, <3>2, <3>3 DEF IInv, Types
  <2>4. \A s \in leaked : pc'[s] \in {"shutdown", "returned"}
    BY <1>1, <1>6 DEF IInv, Types, Places
  <2> QED
    BY <2>1, <2>2, <2>3, <2>4, <1>1 DEF Places, Serial, MainThread
<1>8. Asking' = Asking /\ Refused' = Refused
  BY <1>1, <1>2, <1>6 DEF IInv, Types, Asking, Refused, MainThread
<1>9. CASE MainThread(t)
  <2>1. Retrieving' = Retrieving
    <3>1. \A k \in Thread \X Pulse : k \in Retrieving' <=> k \in Retrieving
      BY <1>4, <1>9 DEF Retrieving, MainThread
    <3> QED
      BY <3>1 DEF Retrieving, Pulse
  <2>2. workers' = workers
    BY <1>1, <1>9, ZenonT(30) DEF Freed
  <2> QED
    BY <2>1, <2>2, <1>1, <1>3, <1>7, <1>8, NothingMoves DEF IInv, Counts
<1>10. CASE ~MainThread(t)
  <2>1. Retrieving' = Retrieving \ {<<t, p>>}
    <3>1. \A k \in Thread \X Pulse : k \in Retrieving' <=> k \in Retrieving /\ k # <<t, p>>
      BY <1>2, <1>4 DEF Retrieving, MainThread
    <3>2. Retrieving \subseteq Thread \X Pulse /\ Retrieving' \subseteq Thread \X Pulse
      BY DEF Retrieving, Pulse
    <3> QED
      BY <3>1, <3>2
  <2>2. <<t, p>> \in Retrieving
    BY <1>10 DEF Retrieving, MainThread
  <2>3. Cardinality(Retrieving') = Cardinality(Retrieving) - 1
    BY <2>1, <2>2, FiniteHolders, Leaves DEF IInv, Types
  <2>4. workers' = workers - 1
    BY <1>1, <1>10 DEF Freed
  <2> QED
    BY <1>1, <1>3, <1>7, <1>8, <2>3, <2>4, Sizes, ExtractorAssumption
       DEF IInv, Types, WorkersCounted, WorkersLimited
<1> QED
  BY <1>9, <1>10

LEMMA RecordsStepKeeps ==
  ASSUME IInv, NEW t \in Thread, NEW p \in Pulse, RecordsStep(t, p)
  PROVE  IInv'
<1> DEFINE r == retrieval[<<t, p>>]
<1>0. \A v : [r EXCEPT !.at = v].at = v /\ "at" \in DOMAIN [r EXCEPT !.at = v]
  BY DEF IInv, Types
<1>1. CASE OpenStream(t, p)
  <2>1. PICK s : Continue(t, p, [r EXCEPT !.at = "recv", !.stream = s])
    BY <1>1, Zenon DEF OpenStream
  <2>2. LET n == [r EXCEPT !.at = "recv", !.stream = s] IN "at" \in DOMAIN n /\ n.at = "recv"
    BY DEF IInv, Types
  <2> QED
    BY <1>1, <2>1, <2>2, ContinueStep, Zenon DEF OpenStream
<1>2. CASE Recv(t, p)
  <2>1. PICK n : /\ Continue(t, p, n)
                 /\ \/ n = [r EXCEPT !.got = Append(@, Head(r.stream).record), !.stream = Tail(@)]
                    \/ n = [r EXCEPT !.at = "deliver"]
    BY <1>2 DEF Recv
  <2>2. "at" \in DOMAIN n /\ n.at # "none"
    BY <1>2, <2>1, Zenon DEF Recv, IInv, Types
  <2> QED
    BY <1>2, <2>1, <2>2, ContinueStep DEF Recv
<1>3. CASE RecvEOF(t, p)
  BY <1>0, <1>3, ContinueStep DEF RecvEOF
<1>4. CASE RecvAgain(t, p)
  <2>1. LET n == [r EXCEPT !.at = "export", !.stream = <<>>] IN "at" \in DOMAIN n /\ n.at = "export"
    BY DEF IInv, Types
  <2> QED
    BY <1>4, <2>1, ContinueStep, Zenon DEF RecvAgain
<1>5. CASE ExportVersionError(t, p)
  BY <1>0, <1>5, ContinueStep DEF ExportVersionError
<1>6. CASE GiveUp(t, p)
  BY <1>6, ReturnStep DEF GiveUp
<1>7. CASE Deliver(t, p)
  BY <1>7, ReturnStep DEF Deliver
<1> QED
  BY <1>1, <1>2, <1>3, <1>4, <1>5, <1>6, <1>7 DEF RecordsStep

LEMMA NextIInv == IInv /\ [Next]_vars => IInv'
<1> SUFFICES ASSUME IInv, [Next]_vars
             PROVE  IInv'
  OBVIOUS
<1>1. ASSUME UNCHANGED <<workers, threadVars, retrieval, leaked>>, head' \in Pulse
      PROVE  IInv'
  <2>1. Types' /\ Places'
    BY <1>1 DEF IInv, Types, Places, threadVars, Serial, MainThread
  <2>2. Asking' = Asking /\ Refused' = Refused /\ Retrieving' = Retrieving
    BY <1>1 DEF Asking, Refused, Retrieving, threadVars
  <2> QED
    BY <1>1, <2>1, <2>2, NothingMoves, ZenonT(30) DEF IInv, Counts
<1>2. CASE FinalizePulse
  <2>1. head' \in Pulse
    BY <1>2, ExtractorAssumption DEF FinalizePulse, IInv, Types, Pulse
  <2> QED
    BY <1>1, <1>2, <2>1 DEF FinalizePulse
<1>3. CASE Take \/ Stop \/ StopController \/ UNCHANGED vars
  BY <1>1, <1>3 DEF Take, Stop, StopController, vars, IInv, Types
<1>4. ASSUME NEW t \in Thread, ThreadStep(t)
      PROVE  IInv'
  BY <1>4, LoopStep, TakeWorkerStep, GiveBackStep, NextFailsStep, NextVersionErrorStep, NextPulseStep
     DEF ThreadStep
<1>5. ASSUME NEW t \in Thread, NEW p \in Pulse, RecordsStep(t, p)
      PROVE  IInv'
  BY <1>5, RecordsStepKeeps
<1>6. ASSUME NEW t \in Thread, ShutdownReturns(t) \/ \E p \in Pulse : RecordsShutdownReturns(t, p)
      PROVE  IInv'
  <2>1. CASE ShutdownReturns(t)
    BY <2>1, ShutdownReturnsStep
  <2>2. ASSUME NEW p \in Pulse, RecordsShutdownReturns(t, p)
        PROVE  IInv'
    BY <2>2, ReturnStep DEF RecordsShutdownReturns
  <2> QED
    BY <1>6, <2>1, <2>2
<1> QED
  BY <1>2, <1>3, <1>4, <1>5, <1>6 DEF Next

(***************************************************************************)
(* The atomic counter of workers equals the number of threads and calls    *)
(* that have added themselves to it, in every interleaving.                *)
(***************************************************************************)
THEOREM CounterIsRight == Spec => []WorkersCounted
<1>1. IInv => WorkersCounted
  BY DEF IInv
<1> QED
  BY InitIInv, NextIInv, <1>1, PTL DEF Spec

(***************************************************************************)
(* takeWorker, which adds first and looks then, never lets more than       *)
(* maxWorkers reloading goroutines through.                                *)
(***************************************************************************)
THEOREM LimitIsKept == Spec => []WorkersLimited
<1>1. IInv => WorkersLimited
  BY DEF IInv
<1> QED
  BY InitIInv, NextIInv, <1>1, PTL DEF Spec
-----------------------------------------------------------------------------
(***************************************************************************)
(* What the calls hold.  The rest of the argument is about data: what has  *)
(* come of a pulse, what the open stream still holds of it, and where a    *)
(* serial thread may skip.                                                 *)
(***************************************************************************)
Numbered(n) == [i \in 1 .. n |-> i]

Answer == [record : Nat, iterateFrom : (1 .. LastPulse + 1) \cup {NoPulse}]

Call == [at : {"none", "export", "recv", "deliver", "shutdown"}, skip : BOOLEAN,
         got : Seq(Nat), stream : Seq(Answer)]

\* Answer a is record k of pulse p, or the mark of its end behind the last record.
Fits(p, k, a) ==
  \/ a.iterateFrom = NoPulse /\ a.record = k /\ k <= RecordAmount[p]
  \/ a.iterateFrom \in ShouldIterateFrom(p) /\ k = RecordAmount[p] + 1

\* The open stream s goes on behind record n of pulse p.
GoesOn(p, n, s) == \A i \in 1 .. Len(s) : Fits(p, n + i, s[i])

\* A call has the first records of its pulse, and all of them when it delivers.
CallRight(p, r) ==
  /\ r \in Call
  /\ \E n \in 0 .. RecordAmount[p] :
       /\ r.got = Numbered(n)
       /\ r.at = "recv" => GoesOn(p, n, r.stream)
       /\ r.at = "deliver" => n = RecordAmount[p]
  /\ r.at = "deliver" /\ ~r.skip => r.stream # <<>> /\ Head(r.stream).iterateFrom \in ShouldIterateFrom(p)

\* Behind the pulse a serial thread has reached there is nothing before nextNotEmpty.
SkipsNothing(t) ==
  \/ nextNotEmpty[t] = NoPulse
  \/ /\ nextNotEmpty[t] \in 1 .. LastPulse + 1
     /\ \A p \in Pulse : pulse[t] < p /\ p < nextNotEmpty[t] => RecordAmount[p] = 0

DeliveryRight(d) ==
  /\ d.thread \in Thread /\ d.pulse \in Pulse
  /\ d.records = Numbered(RecordAmount[d.pulse])
  /\ ~MainThread(d.thread) => d.pulse \in From[d.thread] + 1 .. LastOf(d.thread)

\* What the calls have, what a serial thread skips, and what was delivered.
DataInv ==
  /\ DOMAIN nextNotEmpty = Thread
  /\ \A t \in Thread, p \in Pulse : CallRight(p, retrieval[<<t, p>>])
  /\ \A t \in Thread : Serial(t) => SkipsNothing(t)
  /\ mainPulseDataChan \in Seq(Delivered)
  /\ \A d \in Delivered : DeliveryRight(d)

\* How far a reload has come: up to there it has seen every pulse, and it ends at the end of its range.
ReloadInv(t) ==
  /\ pulse[t] \in From[t] .. LastOf(t)
  /\ pc[t] \in {"loop", "take", "giveBack", "next"} => pulse[t] < LastOf(t)
  /\ pc[t] = "shutdown" => t \in leaked
  /\ pc[t] = "returned" => t \in cancelled \cup leaked \/ pulse[t] = LastOf(t)
  /\ \A p \in Held(t) : p > From[t]
  /\ \A p \in From[t] + 1 .. pulse[t] : Seen(t, p)

RangeInv == \A t \in Thread : ~MainThread(t) => ReloadInv(t)

LEMMA NumberedFacts ==
  ASSUME NEW n \in Nat
  PROVE  /\ Numbered(n) \in Seq(Nat) /\ Len(Numbered(n)) = n
         /\ Append(Numbered(n), n + 1) = Numbered(n + 1)
<1>1. Numbered(n) \in Seq(Nat) /\ Len(Numbered(n)) = n
  BY DEF Numbered
<1>2. Append(Numbered(n), n + 1) = Numbered(n + 1)
  BY DEF Numbered
<1> QED
  BY <1>1, <1>2

\* Where to go on is a pulse behind p, with nothing between.
LEMMA IterateFrom ==
  ASSUME NEW p \in Pulse, NEW q \in ShouldIterateFrom(p)
  PROVE  /\ q \in 1 .. LastPulse + 1 /\ q # NoPulse
         /\ \A r \in Pulse : p < r /\ r < q => RecordAmount[r] = 0
BY ExtractorAssumption, RecordsAssumption DEF ShouldIterateFrom, Pulse

\* The answers to a request continue what the call has.
LEMMA ExportGoesOn ==
  ASSUME NEW p \in Pulse, NEW n \in 0 .. RecordAmount[p], NEW s \in Export(p, n)
  PROVE  s \in Seq(Answer) /\ GoesOn(p, n, s)
<1> DEFINE m == RecordAmount[p] - n
           rest == [i \in 1 .. m |-> [record |-> n + i, iterateFrom |-> NoPulse]]
<1>1. RecordAmount[p] \in Nat /\ n \in Nat /\ m \in Nat /\ n + m = RecordAmount[p] /\ BatchSize \in Nat \ {0}
  BY RecordsAssumption DEF Pulse
<1>2. \A i \in 1 .. m : [record |-> n + i, iterateFrom |-> NoPulse] \in Answer
  BY <1>1 DEF Answer
<1> HIDE DEF m
<1>3. rest \in Seq(Answer) /\ Len(rest) = m
  BY <1>1, <1>2
<1>4. \A i \in 1 .. m : Fits(p, n + i, rest[i])
  BY <1>1 DEF Fits
<1>5. CASE m >= BatchSize
  <2>1. s = SubSeq(rest, 1, BatchSize)
    BY <1>3, <1>5, Zenon DEF Export, m
  <2> HIDE DEF rest
  <2>2. s \in Seq(Answer) /\ Len(s) = BatchSize /\ \A i \in 1 .. BatchSize : s[i] = rest[i]
    BY <1>1, <1>3, <1>5, <2>1
  <2> QED
    BY <1>1, <1>4, <1>5, <2>2 DEF GoesOn
<1>6. CASE ~ (m >= BatchSize)
  <2>1. PICK q \in ShouldIterateFrom(p) : s = Append(rest, [record |-> 0, iterateFrom |-> q])
    BY <1>3, <1>6, Zenon DEF Export, m
  <2>2. [record |-> 0, iterateFrom |-> q] \in Answer
    BY <2>1, IterateFrom DEF Answer
  <2> HIDE DEF rest
  <2>3. /\ s \in Seq(Answer) /\ Len(s) = m + 1
        /\ \A i \in 1 .. m : s[i] = rest[i]
        /\ s[m + 1] = [record |-> 0, iterateFrom |-> q]
    BY <1>1, <1>3, <2>1, <2>2
  <2>4. Fits(p, n + (m + 1), s[m + 1])
    <3>1. n + (m + 1) = RecordAmount[p] + 1
      BY <1>1
    <3> QED
      BY <2>3, <3>1 DEF Fits
  <2>5. \A i \in 1 .. m + 1 : i \in 1 .. m \/ i = m + 1
    BY <1>1
  <2> QED
    BY <1>4, <2>3, <2>4, <2>5, ZenonT(30) DEF GoesOn
<1> QED
  BY <1>5, <1>6

\* A record that is received is the next one, and what is left of the stream still goes on.
LEMMA RecvRight ==
  ASSUME NEW p \in Pulse, NEW r, CallRight(p, r), r.at = "recv", r.stream # <<>>
  PROVE  CallRight(p, IF Head(r.stream).iterateFrom = NoPulse
                      THEN [r EXCEPT !.got = Append(@, Head(r.stream).record), !.stream = Tail(@)]
                      ELSE [r EXCEPT !.at = "deliver"])
<1>1. PICK n \in 0 .. RecordAmount[p] : r.got = Numbered(n) /\ GoesOn(p, n, r.stream)
  BY DEF CallRight
<1>2. /\ r \in Call /\ r.stream \in Seq(Answer) /\ Len(r.stream) \in Nat \ {0}
      /\ Head(r.stream) = r.stream[1] /\ RecordAmount[p] \in Nat /\ n \in Nat
      /\ Tail(r.stream) \in Seq(Answer) /\ Len(Tail(r.stream)) = Len(r.stream) - 1
      /\ \A i \in 1 .. Len(r.stream) - 1 : Tail(r.stream)[i] = r.stream[i + 1]
  <2>1. r \in Call /\ r.stream \in Seq(Answer)
    BY ZenonT(30) DEF CallRight, Call
  <2>2. RecordAmount[p] \in Nat /\ n \in Nat
    BY RecordsAssumption DEF Pulse
  <2> QED
    BY <2>1, <2>2
<1>3. 1 \in 1 .. Len(r.stream)
  BY <1>2
<1>4. CASE Head(r.stream).iterateFrom = NoPulse
  <2> DEFINE c == [r EXCEPT !.got = Append(@, Head(r.stream).record), !.stream = Tail(@)]
  <2>1. Head(r.stream).record = n + 1 /\ n + 1 <= RecordAmount[p]
    <3>1. Fits(p, n + 1, Head(r.stream))
      BY <1>1, <1>2, <1>3 DEF GoesOn
    <3> QED
      BY <1>4, <3>1, IterateFrom DEF Fits
  <2>2. Append(r.got, n + 1) = Numbered(n + 1) /\ Numbered(n + 1) \in Seq(Nat)
    <3>1. n \in Nat /\ n + 1 \in Nat
      BY <1>2
    <3>2. Append(Numbered(n), n + 1) = Numbered(n + 1) /\ Numbered(n + 1) \in Seq(Nat)
      BY <3>1, NumberedFacts, Zenon
    <3> QED
      BY <1>1, <3>2
  <2>3. c \in Call /\ c.got = Numbered(n + 1) /\ c.stream = Tail(r.stream) /\ c.at = "recv"
    BY <1>2, <2>1, <2>2, Zenon DEF Call
  <2>4. GoesOn(p, n + 1, Tail(r.stream))
    <3> SUFFICES ASSUME NEW i \in 1 .. Len(Tail(r.stream))
                 PROVE  Fits(p, (n + 1) + i, Tail(r.stream)[i])
      BY DEF GoesOn
    <3>1. i + 1 \in 1 .. Len(r.stream) /\ i \in 1 .. Len(r.stream) - 1
      BY <1>2
    <3>2. Tail(r.stream)[i] = r.stream[i + 1]
      BY <1>2, <3>1
    <3>3. n + (i + 1) = (n + 1) + i
      BY <1>2, <3>1
    <3>4. Fits(p, n + (i + 1), r.stream[i + 1])
      BY <1>1, <3>1 DEF GoesOn
    <3> QED
      BY <3>2, <3>3, <3>4
  <2>5. n + 1 \in 0 .. RecordAmount[p]
    BY <1>2, <2>1
  <2> HIDE DEF c
  <2>6. CallRight(p, c)
    BY <2>3, <2>4, <2>5 DEF CallRight
  <2> QED
    BY <1>4, <2>6 DEF c
<1>5. CASE Head(r.stream).iterateFrom # NoPulse
  <2> DEFINE c == [r EXCEPT !.at = "deliver"]
  <2>1. Head(r.stream).iterateFrom \in ShouldIterateFrom(p) /\ n = RecordAmount[p]
    <3>1. Fits(p, n + 1, Head(r.stream))
      BY <1>1, <1>2, <1>3 DEF GoesOn
    <3> QED
      BY <1>2, <1>5, <3>1 DEF Fits
  <2>2. c \in Call /\ c.got = Numbered(n) /\ c.stream = r.stream /\ c.at = "deliver"
    BY <1>1, <1>2, Zenon DEF Call
  <2> HIDE DEF c
  <2>3. CallRight(p, c)
    BY <2>1, <2>2 DEF CallRight
  <2> QED
    BY <1>5, <2>3 DEF c
<1> QED
  BY <1>4, <1>5, ZenonT(30)

LEMMA DeliveredAppended ==
  ASSUME mainPulseDataChan \in Seq(Delivered), NEW x,
         mainPulseDataChan' = Append(mainPulseDataChan, x), received' = received
  PROVE  Delivered' = Delivered \cup {x} /\ mainPulseDataChan' \in Seq(Delivered')
<1> DEFINE c == mainPulseDataChan
           n == Len(c)
<1>1. /\ n \in Nat /\ DOMAIN c = 1 .. n /\ Len(c') = n + 1 /\ DOMAIN c' = 1 .. n + 1
      /\ c'[n + 1] = x /\ \A i \in 1 .. n : c'[i] = c[i]
  OBVIOUS
<1>2. \A i \in 1 .. n + 1 : i \in 1 .. n \/ i = n + 1
  BY <1>1
<1>3. {c'[i] : i \in 1 .. n + 1} = {c[i] : i \in 1 .. n} \cup {x}
  BY <1>1, <1>2
<1>4. Delivered' = Delivered \cup {x}
  BY <1>1, <1>3 DEF Delivered
<1>5. c \in Seq(Delivered \cup {x})
  OBVIOUS
<1>6. c' \in Seq(Delivered \cup {x})
  BY <1>5
<1> QED
  BY <1>4, <1>6

LEMMA DeliveredTaken ==
  ASSUME mainPulseDataChan \in Seq(Delivered), Take
  PROVE  Delivered' = Delivered /\ mainPulseDataChan' \in Seq(Delivered')
<1> DEFINE c == mainPulseDataChan
           n == Len(c)
<1>1. /\ n \in Nat \ {0} /\ DOMAIN c = 1 .. n /\ Head(c) = c[1] /\ c' = Tail(c)
      /\ Len(c') = n - 1 /\ DOMAIN c' = 1 .. n - 1 /\ \A i \in 1 .. n - 1 : c'[i] = c[i + 1]
      /\ received' = received \cup {c[1]}
  BY DEF Take
<1>2. \A i \in 1 .. n : i = 1 \/ (i - 1 \in 1 .. n - 1 /\ (i - 1) + 1 = i)
  BY <1>1
<1>3. \A i \in 1 .. n - 1 : i + 1 \in 1 .. n
  BY <1>1
<1>4. {c[i] : i \in 1 .. n} = {c'[i] : i \in 1 .. n - 1} \cup {c[1]}
  <2>1. ASSUME NEW i \in 1 .. n PROVE c[i] \in {c'[j] : j \in 1 .. n - 1} \cup {c[1]}
    <3>1. CASE i = 1
      BY <3>1
    <3>2. CASE i # 1
      <4>1. c'[i - 1] = c[(i - 1) + 1] /\ i - 1 \in 1 .. n - 1 /\ (i - 1) + 1 = i
        BY <1>1, <1>2, <3>2
      <4> QED
        BY <4>1
    <3> QED
      BY <3>1, <3>2
  <2>2. ASSUME NEW i \in 1 .. n - 1 PROVE c'[i] \in {c[j] : j \in 1 .. n}
    BY <1>1, <1>3
  <2>3. c[1] \in {c[j] : j \in 1 .. n}
    BY <1>1
  <2> QED
    BY <2>1, <2>2, <2>3, Zenon
<1>5. Delivered' = Delivered
  BY <1>1, <1>4, Zenon DEF Delivered
<1>6. c' \in Seq(Delivered)
  BY <1>1
<1> QED
  BY <1>5, <1>6

LEMMA IdleRight == ASSUME NEW p \in Pulse PROVE CallRight(p, Idle)
<1>1. RecordAmount[p] \in Nat /\ 0 \in 0 .. RecordAmount[p] /\ Numbered(0) = <<>>
  BY RecordsAssumption DEF Pulse, Numbered
<1>2. Idle \in Call
  BY DEF Idle, Call
<1> QED
  BY <1>1, <1>2 DEF CallRight, Idle

\* A step that touches neither calls nor what was delivered.
LEMMA DataFrame ==
  ASSUME DataInv, UNCHANGED <<pulse, nextNotEmpty, retrieval, outVars>>
  PROVE  DataInv'
BY DEF DataInv, SkipsNothing, Delivered, outVars

LEMMA DataTake ==
  ASSUME DataInv, Take
  PROVE  DataInv'
<1>1. Delivered' = Delivered /\ mainPulseDataChan' \in Seq(Delivered')
  BY DeliveredTaken DEF DataInv
<1>2. UNCHANGED <<pulse, nextNotEmpty, retrieval>>
  BY ZenonT(30) DEF Take, threadVars
<1> QED
  BY <1>1, <1>2, ZenonT(30) DEF DataInv, SkipsNothing

LEMMA DataContinue ==
  ASSUME IInv, DataInv, NEW t \in Thread, NEW p \in Pulse, NEW r, CallRight(p, r), Continue(t, p, r)
  PROVE  DataInv'
<1>1. retrieval' = [retrieval EXCEPT ![<<t, p>>] = r] /\ UNCHANGED <<threadVars, outVars>>
  BY DEF Continue
<1>2. \A u \in Thread, q \in Pulse : retrieval'[<<u, q>>] = IF u = t /\ q = p THEN r ELSE retrieval[<<u, q>>]
  BY <1>1 DEF IInv, Types
<1>3. \A u \in Thread, q \in Pulse : CallRight(q, retrieval'[<<u, q>>])
  BY <1>2, Zenon DEF DataInv
<1>4. Delivered' = Delivered
  BY <1>1, SMTT(20) DEF Delivered, outVars
<1> QED
  BY <1>1, <1>3, <1>4 DEF DataInv, SkipsNothing, threadVars, outVars

\* What a call returns to a serial thread is a pulse up to which there is nothing.
LEMMA DataReturn ==
  ASSUME IInv, DataInv, NEW t \in Thread, NEW p \in Pulse, NEW q,
         retrieval[<<t, p>>].at # "none", Return(t, p, q),
         q = NoPulse \/ retrieval[<<t, p>>].skip \/ q \in ShouldIterateFrom(p),
         mainPulseDataChan' \in Seq(Delivered'), \A d \in Delivered' : DeliveryRight(d)
  PROVE  DataInv'
<1>1. /\ retrieval' = [retrieval EXCEPT ![<<t, p>>] = Idle] /\ pulse' = pulse
      /\ nextNotEmpty' = IF Serial(t) /\ ~retrieval[<<t, p>>].skip
                         THEN [nextNotEmpty EXCEPT ![t] = q] ELSE nextNotEmpty
  BY DEF Return
<1>2. \A u \in Thread, v \in Pulse :
        retrieval'[<<u, v>>] = IF u = t /\ v = p THEN Idle ELSE retrieval[<<u, v>>]
  BY <1>1 DEF IInv, Types
<1>3. \A u \in Thread, v \in Pulse : CallRight(v, retrieval'[<<u, v>>])
  BY <1>2, IdleRight, Zenon DEF DataInv
<1>4. DOMAIN nextNotEmpty' = Thread
  BY <1>1, ZenonT(30) DEF DataInv
<1>5. ASSUME NEW u \in Thread, Serial(u) PROVE SkipsNothing(u)'
  <2>1. CASE nextNotEmpty'[u] = nextNotEmpty[u]
    BY <1>1, <1>5, <2>1, ZenonT(30) DEF DataInv, SkipsNothing
  <2>2. CASE nextNotEmpty'[u] # nextNotEmpty[u]
    <3>1. u = t /\ nextNotEmpty'[u] = q /\ ~retrieval[<<t, p>>].skip
      BY <1>1, <2>2 DEF DataInv
    <3>2. p = pulse[u]
      BY <1>5, <3>1, ZenonT(30) DEF IInv, Places
    <3>3. CASE q = NoPulse
      BY <3>1, <3>3 DEF SkipsNothing
    <3>4. CASE q \in ShouldIterateFrom(p)
      BY <1>1, <3>1, <3>2, <3>4, IterateFrom DEF SkipsNothing
    <3> QED
      BY <3>1, <3>3, <3>4
  <2> QED
    BY <2>1, <2>2
<1> QED
  BY <1>3, <1>4, <1>5, Zenon DEF DataInv, Serial, MainThread

\* The call of a pulse that is skipped has nothing to ask for.
LEMMA NewCall ==
  ASSUME NEW b \in BOOLEAN
  PROVE  LET c == [Idle EXCEPT !.at = IF b THEN "deliver" ELSE "export", !.skip = b]
         IN  /\ c \in Call /\ c.got = <<>> /\ c.at \in {"deliver", "export"} /\ (c.at = "deliver" => c.skip)
             /\ (c.skip => b)
<1>1. Idle \in Call /\ Idle.got = <<>>
  <2>1. <<>> \in Seq(Nat) /\ <<>> \in Seq(Answer)
    OBVIOUS
  <2> QED
    BY <2>1, ZenonT(30) DEF Idle, Call
<1>2. CASE b = TRUE
  BY <1>1, <1>2, Zenon DEF Call
<1>3. CASE b = FALSE
  BY <1>1, <1>3, Zenon DEF Call
<1> QED
  BY <1>2, <1>3, Zenon

\* A pulse that is skipped has no records.
LEMMA DataNextPulse ==
  ASSUME IInv, DataInv, NEW t \in Thread, NextPulse(t)
  PROVE  DataInv'
<1>1. PICK p \in GetNextFinalizedPulse(pulse[t]) :
        /\ pulse' = [pulse EXCEPT ![t] = p]
        /\ retrieval' = [retrieval EXCEPT ![<<t, p>>] =
                           [Idle EXCEPT !.at = IF Serial(t) /\ Skip(t, p) THEN "deliver" ELSE "export",
                                        !.skip = Serial(t) /\ Skip(t, p)]]
  BY Zenon DEF NextPulse
<1>2. p \in Pulse /\ p > pulse[t] /\ p \in Nat /\ pulse[t] \in Nat
  BY NextIsLater, ExtractorAssumption DEF IInv, Types, Pulse
<1> DEFINE b == Serial(t) /\ Skip(t, p)
           c == [Idle EXCEPT !.at = IF b THEN "deliver" ELSE "export", !.skip = b]
<1>3. retrieval' = [retrieval EXCEPT ![<<t, p>>] = c] /\ b \in BOOLEAN
  BY <1>1 DEF Skip, Serial
<1>4. /\ c \in Call /\ c.got = <<>> /\ c.at \in {"deliver", "export"} /\ (c.at = "deliver" => c.skip)
      /\ (c.skip => b)
  <2> HIDE DEF b
  <2> QED
    BY <1>3, NewCall, Zenon
<1> HIDE DEF c
<1>5. RecordAmount[p] \in Nat /\ 0 \in 0 .. RecordAmount[p] /\ Numbered(0) = <<>>
  BY <1>2, RecordsAssumption DEF Pulse, Numbered
<1>6. c.skip => RecordAmount[p] = 0
  BY <1>2, <1>4, ZenonT(30) DEF DataInv, SkipsNothing, Skip
<1>7. CallRight(p, c)
  BY <1>4, <1>5, <1>6 DEF CallRight
<1>8. \A u \in Thread, v \in Pulse : retrieval'[<<u, v>>] = IF u = t /\ v = p THEN c ELSE retrieval[<<u, v>>]
  BY <1>2, <1>3 DEF IInv, Types
<1>9. \A u \in Thread, v \in Pulse : CallRight(v, retrieval'[<<u, v>>])
  BY <1>7, <1>8, ZenonT(30) DEF DataInv
<1>10. nextNotEmpty' = nextNotEmpty /\ UNCHANGED outVars
  BY ZenonT(30) DEF NextPulse
<1>11. ASSUME NEW u \in Thread, Serial(u) PROVE SkipsNothing(u)'
  <2>1. pulse[u] \in Nat /\ pulse'[u] \in Nat /\ pulse'[u] >= pulse[u]
    BY <1>1, <1>2 DEF IInv, Types
  <2>2. \A v \in Pulse : v \in Int /\ (pulse'[u] < v => pulse[u] < v)
    BY <2>1, ExtractorAssumption DEF Pulse
  <2> QED
    BY <1>10, <1>11, <2>2, ZenonT(30) DEF DataInv, SkipsNothing
<1> QED
  BY <1>9, <1>10, <1>11, ZenonT(30) DEF DataInv, Serial, MainThread, Delivered, outVars
-----------------------------------------------------------------------------
\* A reload goes on exactly when it is not at the end of its range.
LEMMA AfterPulseEnds ==
  ASSUME NEW t \in Thread, ~MainThread(t), NEW p \in From[t] + 1 .. LastOf(t)
  PROVE  /\ AfterPulse(t, p) \in {"returned", "loop"}
         /\ AfterPulse(t, p) = "returned" => p = LastOf(t)
         /\ AfterPulse(t, p) = "loop" => p < LastOf(t)
BY ExtractorAssumption DEF AfterPulse, LastOf

\* Where thread t may stand when it has come to its pulse.
StandsRight(t) ==
  /\ pc[t] \in {"loop", "take", "giveBack", "next"} => pulse[t] < LastOf(t)
  /\ pc[t] = "shutdown" => t \in leaked
  /\ pc[t] = "returned" => t \in cancelled \cup leaked \/ pulse[t] = LastOf(t)

\* A step of thread t that reaches no new pulse and forgets none.
LEMMA RangeKept ==
  ASSUME RangeInv, NEW t \in Thread, pulse' = pulse, leaked \subseteq leaked', cancelled \subseteq cancelled',
         \A u \in Thread : Held(u)' \subseteq Held(u) /\ \A p \in Int : Seen(u, p) => Seen(u, p)',
         \A u \in Thread : u # t => pc'[u] = pc[u],
         ~MainThread(t) => StandsRight(t)'
  PROVE  RangeInv'
<1> SUFFICES ASSUME NEW u \in Thread, ~MainThread(u)
             PROVE  ReloadInv(u)'
  BY DEF RangeInv, MainThread
<1>1. ReloadInv(u)
  BY DEF RangeInv
<1>2. StandsRight(u)'
  BY <1>1, ZenonT(30) DEF StandsRight, ReloadInv, LastOf
<1>3. \A p \in From[u] + 1 .. pulse[u] : Seen(u, p)'
  BY <1>1 DEF ReloadInv
<1>4. pulse'[u] \in From[u] .. LastOf(u) /\ \A p \in Held(u)' : p > From[u]
  BY <1>1, ZenonT(30) DEF ReloadInv
<1> QED
  BY <1>2, <1>3, <1>4, ZenonT(30) DEF ReloadInv, StandsRight, LastOf

\* The step of a thread that asks for a pulse or ends.
LEMMA RangeThread ==
  ASSUME IInv, RangeInv, NEW t \in Thread,
         \/ Loop(t) \/ TakeWorker(t) \/ GiveBack(t) \/ NextFails(t) \/ NextVersionError(t) \/ ShutdownReturns(t)
  PROVE  RangeInv'
<1>1. /\ UNCHANGED <<pulse, retrieval, outVars, cancelled>> /\ leaked \subseteq leaked'
      /\ \A u \in Thread : u # t => pc'[u] = pc[u]
  BY DEF Loop, TakeWorker, GiveBack, NextFails, NextVersionError, ShutdownReturns, IInv, Types
<1>2. \A u \in Thread : Held(u)' \subseteq Held(u) /\ \A p \in Int : Seen(u, p) => Seen(u, p)'
  BY <1>1, Zenon DEF Held, Seen, Delivered, outVars
<1>3. ASSUME ~MainThread(t) PROVE StandsRight(t)'
  <2>1. ReloadInv(t)
    BY <1>3 DEF RangeInv
  <2>2. pc \in [Thread -> Place]
    BY ZenonT(30) DEF IInv, Types
  <2>3. CASE Loop(t)
    BY <1>3, <2>1, <2>2, <2>3, ZenonT(30) DEF Loop, StandsRight, ReloadInv, LastOf
  <2>4. CASE TakeWorker(t) \/ GiveBack(t) \/ NextFails(t)
    BY <1>3, <2>1, <2>2, <2>4, Zenon DEF TakeWorker, GiveBack, NextFails, StandsRight, ReloadInv, LastOf
  <2>5. CASE NextVersionError(t) \/ ShutdownReturns(t)
    BY <1>3, <2>1, <2>2, <2>5, Zenon DEF NextVersionError, ShutdownReturns, StandsRight, ReloadInv, LastOf
  <2> QED
    BY <2>3, <2>4, <2>5
<1> QED
  BY <1>1, <1>2, <1>3, RangeKept, ZenonT(30)

\* What a range holds is an integer, whatever its ends.
LEMMA RangeIsInt == \A a, b : \A q \in a .. b : q \in Int
OBVIOUS

\* A reload that does not move keeps its range, whoever else moves.
LEMMA ReloadStays ==
  ASSUME NEW t \in Thread, ReloadInv(t), pulse'[t] = pulse[t], pc'[t] = pc[t],
         leaked' = leaked, cancelled \subseteq cancelled', Held(t)' = Held(t),
         \A q \in Int : Seen(t, q) => Seen(t, q)'
  PROVE  ReloadInv(t)'
<1>1. LastOf(t)' = LastOf(t)
  BY ZenonT(30) DEF LastOf
<1>2. ASSUME NEW q \in From[t] + 1 .. pulse'[t] PROVE Seen(t, q)'
  <2>1. q \in From[t] + 1 .. pulse[t] /\ q \in Int
    BY RangeIsInt, ZenonT(30)
  <2>2. Seen(t, q)
    BY <2>1, Zenon DEF ReloadInv
  <2> QED
    BY <2>1, <2>2, Zenon
<1>3. /\ pulse'[t] \in From[t] .. LastOf(t)
      /\ pc'[t] \in {"loop", "take", "giveBack", "next"} => pulse'[t] < LastOf(t)
      /\ \A q \in Held(t)' : q > From[t]
  BY Zenon DEF ReloadInv
<1>4. /\ pc'[t] = "shutdown" => t \in leaked'
      /\ pc'[t] = "returned" => t \in cancelled' \cup leaked' \/ pulse'[t] = LastOf(t)
  BY Zenon DEF ReloadInv
<1> QED
  BY <1>1, <1>2, <1>3, <1>4, Zenon DEF ReloadInv

\* The number behind one that is not the last of a range is in the range.
LEMMA NextInRange ==
  \A f, l \in Nat : \A n \in f .. l : n < l => n + 1 \in f + 1 .. l /\ n + 1 \in f .. l /\ n + 1 > f
OBVIOUS

\* The next pulse of a reload is the one behind the last, and is now held.
LEMMA RangeNextPulse ==
  ASSUME IInv, RangeInv, NEW t \in Thread, NextPulse(t)
  PROVE  RangeInv'
<1>1. PICK p \in GetNextFinalizedPulse(pulse[t]) :
        /\ pulse' = [pulse EXCEPT ![t] = p]
        /\ retrieval' = [retrieval EXCEPT ![<<t, p>>] =
                           [Idle EXCEPT !.at = IF Serial(t) /\ Skip(t, p) THEN "deliver" ELSE "export",
                                        !.skip = Serial(t) /\ Skip(t, p)]]
        /\ pc' = [pc EXCEPT ![t] = IF Serial(t) THEN "records" ELSE AfterPulse(t, p)]
  BY Zenon DEF NextPulse
<1>2. p \in Pulse /\ p > pulse[t] /\ p \in Nat /\ pulse[t] \in Nat
  BY NextIsLater, ExtractorAssumption DEF IInv, Types, Pulse
<1> DEFINE c == [Idle EXCEPT !.at = IF Serial(t) /\ Skip(t, p) THEN "deliver" ELSE "export",
                             !.skip = Serial(t) /\ Skip(t, p)]
<1>3. c.at # "none" /\ retrieval' = [retrieval EXCEPT ![<<t, p>>] = c]
  BY <1>1 DEF Idle
<1> HIDE DEF c
<1>4. /\ pc[t] = "next" /\ UNCHANGED <<leaked, outVars, cancelled>>
      /\ pulse'[t] = p /\ pc'[t] = IF Serial(t) THEN "records" ELSE AfterPulse(t, p)
      /\ \A u \in Thread : u # t => pulse'[u] = pulse[u] /\ pc'[u] = pc[u]
  BY <1>1 DEF NextPulse, IInv, Types
<1>5. \A u \in Thread, q \in Pulse : retrieval'[<<u, q>>] = IF u = t /\ q = p THEN c ELSE retrieval[<<u, q>>]
  BY <1>2, <1>3 DEF IInv, Types
<1>6. \A u \in Thread : /\ u # t => Held(u)' = Held(u)
                        /\ Held(t)' = Held(t) \cup {p}
  BY <1>2, <1>3, <1>5, ZenonT(30) DEF Held, Pulse
<1>7. \A u \in Thread, q \in Int : Seen(u, q) => Seen(u, q)'
  BY <1>4, <1>6, ZenonT(30) DEF Seen, Delivered, outVars
<1> SUFFICES ASSUME NEW u \in Thread, ~MainThread(u)
             PROVE  ReloadInv(u)'
  BY DEF RangeInv, MainThread
<1>8. ReloadInv(u)
  BY DEF RangeInv
<1>9. CASE u # t
  <2>1. /\ pulse'[u] = pulse[u] /\ pc'[u] = pc[u] /\ leaked' = leaked /\ cancelled' = cancelled
        /\ Held(u)' = Held(u) /\ \A q \in Int : Seen(u, q) => Seen(u, q)'
    BY <1>4, <1>6, <1>7, <1>9, ZenonT(30)
  <2> QED
    BY <1>8, <2>1, ReloadStays, Zenon
<1>10. CASE u = t
  <2>1. /\ From[t] \in Nat \ {0} /\ LastOf(t) \in Nat
        /\ pulse[t] \in From[t] .. LastOf(t) /\ pulse[t] < LastOf(t)
    <3>1. From[t] \in Nat /\ Until[t] \in Nat /\ Until[t] # 0
      BY <1>10, ExtractorAssumption, ZenonT(30) DEF MainThread
    <3>2. From[t] # 0
      BY <3>1, ReloadAssumption
    <3>3. LastOf(t) \in Nat
      BY <3>1 DEF LastOf
    <3>4. pulse[t] \in From[t] .. LastOf(t) /\ pulse[t] < LastOf(t)
      BY <1>4, <1>8, <1>10, ZenonT(30) DEF ReloadInv
    <3> QED
      BY <3>1, <3>2, <3>3, <3>4
  <2>2. p = pulse[t] + 1
    BY <1>2, <2>1 DEF GetNextFinalizedPulse
  <2>3. p \in From[t] + 1 .. LastOf(t) /\ p \in From[t] .. LastOf(t) /\ p > From[t]
    BY <2>1, <2>2, NextInRange, ZenonT(30)
  <2>4. StandsRight(t)'
    <3>1. /\ AfterPulse(t, p) \in {"returned", "loop"}
          /\ AfterPulse(t, p) = "returned" => p = LastOf(t)
          /\ AfterPulse(t, p) = "loop" => p < LastOf(t)
      BY <1>10, <2>3, AfterPulseEnds, ZenonT(30)
    <3> QED
      BY <1>4, <3>1, ZenonT(30) DEF StandsRight, LastOf
  <2>5. \A q \in From[t] + 1 .. p : Seen(t, q)'
    <3> SUFFICES ASSUME NEW q \in From[t] + 1 .. p PROVE Seen(t, q)'
      BY ZenonT(30)
    <3>1. q \in Int /\ (q = p \/ q \in From[t] + 1 .. pulse[t])
      BY <2>1, <2>2
    <3>2. CASE q = p
      BY <1>6, <3>2, ZenonT(30) DEF Seen
    <3>3. CASE q \in From[t] + 1 .. pulse[t]
      BY <1>7, <1>8, <1>10, <3>1, <3>3, ZenonT(30) DEF ReloadInv
    <3> QED
      BY <3>1, <3>2, <3>3
  <2>6. \A q \in Held(t)' : q > From[t]
    BY <1>6, <1>8, <1>10, <2>3, ZenonT(30) DEF ReloadInv
  <2> QED
    BY <1>4, <1>10, <2>3, <2>4, <2>5, <2>6, ZenonT(30) DEF ReloadInv, StandsRight, LastOf
<1> QED
  BY <1>9, <1>10

\* The pulse of a call is within the range of its reload.
LEMMA CallInRange ==
  ASSUME IInv, RangeInv, NEW t \in Thread, NEW p \in Pulse, ~MainThread(t), retrieval[<<t, p>>].at # "none"
  PROVE  p \in From[t] + 1 .. LastOf(t) /\ p <= pulse[t]
<1>1. ReloadInv(t)
  BY ZenonT(30) DEF RangeInv
<1>2. p \in Held(t) /\ p \in Int /\ ~ (p > pulse[t])
  BY ExtractorAssumption DEF Held, IInv, Places, Pulse
<1>3. From[t] \in Nat /\ LastOf(t) \in Int /\ pulse[t] \in Int
  BY ExtractorAssumption DEF LastOf, IInv, Types
<1> QED
  BY <1>1, <1>2, <1>3 DEF ReloadInv

\* A call that returns has given its pulse up or handed it over.
LEMMA RangeReturn ==
  ASSUME IInv, RangeInv, NEW t \in Thread, NEW p \in Pulse, NEW q,
         retrieval[<<t, p>>].at # "none", Return(t, p, q),
         lost \subseteq lost', Delivered \subseteq Delivered',
         <<t, p>> \in lost' \/ \E d \in Delivered' : d.thread = t /\ d.pulse = p
  PROVE  RangeInv'
<1>1. /\ retrieval' = [retrieval EXCEPT ![<<t, p>>] = Idle]
      /\ UNCHANGED <<pulse, leaked, cancelled>>
      /\ pc' = IF Serial(t) THEN [pc EXCEPT ![t] = AfterPulse(t, p)] ELSE pc
  BY ZenonT(30) DEF Return
<1>2. \A u \in Thread : u # t => pc'[u] = pc[u]
  BY <1>1, ZenonT(30) DEF IInv, Types
<1>3. \A u \in Thread, v \in Pulse :
        retrieval'[<<u, v>>] = IF u = t /\ v = p THEN Idle ELSE retrieval[<<u, v>>]
  BY <1>1, ZenonT(30) DEF IInv, Types
<1>4. Idle.at = "none"
  BY ZenonT(30) DEF Idle
<1>5. \A u \in Thread : Held(u)' = {v \in Held(u) : ~ (u = t /\ v = p)}
  BY <1>3, <1>4, ZenonT(30) DEF Held, Pulse
<1>6. \A u \in Thread, v \in Int : Seen(u, v) => Seen(u, v)'
  <2> SUFFICES ASSUME NEW u \in Thread, NEW v \in Int, Seen(u, v) PROVE Seen(u, v)'
    OBVIOUS
  <2>1. CASE u = t /\ v = p
    BY <2>1, ZenonT(30) DEF Seen
  <2>2. CASE ~ (u = t /\ v = p)
    BY <1>5, <2>2, ZenonT(30) DEF Seen
  <2> QED
    BY <2>1, <2>2, ZenonT(30)
<1>7. ASSUME ~MainThread(t) PROVE StandsRight(t)'
  <2>1. ReloadInv(t)
    BY <1>7, SMTT(20) DEF RangeInv
  <2>2. CASE Serial(t)
    <3>1. p = pulse[t]
      BY <2>2, Zenon DEF IInv, Places
    <3>2. p \in From[t] + 1 .. LastOf(t)
      BY <1>7, CallInRange, ZenonT(30)
    <3>3. pc'[t] = AfterPulse(t, p)
      BY <1>1, <2>2, ZenonT(30) DEF IInv, Types
    <3> QED
      BY <1>1, <1>7, <3>1, <3>2, <3>3, AfterPulseEnds, Zenon DEF StandsRight, LastOf
  <2>3. CASE ~Serial(t)
    BY <1>1, <2>1, <2>3, ZenonT(30) DEF StandsRight, ReloadInv, LastOf
  <2> QED
    BY <2>2, <2>3, ZenonT(30)
<1> QED
  BY <1>1, <1>2, <1>5, <1>6, <1>7, RangeKept, ZenonT(30)

\* A call that goes on holds its pulse.
LEMMA RangeContinue ==
  ASSUME IInv, RangeInv, NEW t \in Thread, NEW p \in Pulse, NEW r,
         retrieval[<<t, p>>].at # "none", r.at # "none", Continue(t, p, r)
  PROVE  RangeInv'
<1>1. /\ retrieval' = [retrieval EXCEPT ![<<t, p>>] = r]
      /\ UNCHANGED <<pulse, pc, leaked, cancelled, outVars>>
  BY DEF Continue, threadVars
<1>2. \A u \in Thread, v \in Pulse : retrieval'[<<u, v>>] = IF u = t /\ v = p THEN r ELSE retrieval[<<u, v>>]
  BY <1>1, ZenonT(30) DEF IInv, Types
<1>3. \A u \in Thread : Held(u)' = Held(u)
  BY <1>2, ZenonT(30) DEF Held, Pulse
<1>4. \A u \in Thread, v \in Int : Seen(u, v) => Seen(u, v)'
  BY <1>1, <1>3, ZenonT(30) DEF Seen, Delivered, outVars
<1>5. ASSUME ~MainThread(t) PROVE StandsRight(t)'
  BY <1>1, <1>5, ZenonT(30) DEF RangeInv, ReloadInv, StandsRight, LastOf
<1> QED
  BY <1>1, <1>3, <1>4, <1>5, RangeKept, ZenonT(30)

\* What is delivered is whole and within the range.
LEMMA DeliverStep ==
  ASSUME IInv, DataInv, RangeInv, NEW t \in Thread, NEW p \in Pulse, Deliver(t, p)
  PROVE  DataInv' /\ RangeInv'
<1> DEFINE r == retrieval[<<t, p>>]
           q == IF r.skip THEN NoPulse ELSE Head(r.stream).iterateFrom
           d == [thread |-> t, pulse |-> p, records |-> r.got]
<1>1. /\ r.at = "deliver" /\ Return(t, p, q) /\ UNCHANGED <<received, lost>>
      /\ mainPulseDataChan' = Append(mainPulseDataChan, d)
  BY ZenonT(30) DEF Deliver
<1>2. CallRight(p, r) /\ r \in Call
  BY ZenonT(30) DEF DataInv, CallRight
<1>3. /\ r.got = Numbered(RecordAmount[p])
      /\ ~r.skip => Head(r.stream).iterateFrom \in ShouldIterateFrom(p)
  BY <1>1, <1>2, Zenon DEF CallRight
<1>4. Delivered' = Delivered \cup {d} /\ mainPulseDataChan' \in Seq(Delivered')
  BY <1>1, DeliveredAppended, Zenon DEF DataInv
<1>5. DeliveryRight(d)
  BY <1>1, <1>3, CallInRange, Zenon DEF DeliveryRight
<1>6. \A e \in Delivered' : DeliveryRight(e)
  BY <1>4, <1>5, Zenon DEF DataInv
<1>7. d \in Delivered' /\ d.thread = t /\ d.pulse = p
  BY <1>4, ZenonT(30)
<1>8. q = NoPulse \/ r.skip \/ q \in ShouldIterateFrom(p)
  BY <1>3, ZenonT(30)
<1> HIDE DEF q, d
<1>9. DataInv'
  BY <1>1, <1>4, <1>6, <1>8, DataReturn, ZenonT(30)
<1>10. RangeInv'
  BY <1>1, <1>4, <1>7, RangeReturn
<1> QED
  BY <1>9, <1>10, ZenonT(30)

LEMMA LostStep ==
  ASSUME IInv, DataInv, RangeInv, NEW t \in Thread, NEW p \in Pulse,
         retrieval[<<t, p>>].at # "none", lost' = lost \cup {<<t, p>>}, Return(t, p, NoPulse),
         UNCHANGED <<mainPulseDataChan, received>>
  PROVE  DataInv' /\ RangeInv'
<1>1. Delivered' = Delivered /\ mainPulseDataChan' \in Seq(Delivered')
  BY SMTT(20) DEF Delivered, DataInv
<1>2. DataInv'
  BY <1>1, DataReturn, ZenonT(30) DEF DataInv
<1>3. RangeInv'
  BY <1>1, RangeReturn
<1> QED
  BY <1>2, <1>3, ZenonT(30)

LEMMA RecordsDataStep ==
  ASSUME IInv, DataInv, RangeInv, NEW t \in Thread, NEW p \in Pulse, RecordsStep(t, p)
  PROVE  DataInv' /\ RangeInv'
<1> DEFINE r == retrieval[<<t, p>>]
<1>1. CallRight(p, r) /\ r \in Call
  BY Zenon DEF DataInv, CallRight
<1>2. PICK n \in 0 .. RecordAmount[p] : r.got = Numbered(n) /\ (r.at = "recv" => GoesOn(p, n, r.stream))
  BY <1>1, ZenonT(30) DEF CallRight
<1>3. ASSUME NEW c, CallRight(p, c), c.at # "none", r.at # "none", Continue(t, p, c)
      PROVE  DataInv' /\ RangeInv'
  BY <1>3, DataContinue, RangeContinue, Zenon
<1>4. CASE OpenStream(t, p)
  <2>1. n \in Nat /\ Len(r.got) = n
    BY <1>2, NumberedFacts, RecordsAssumption DEF Pulse
  <2>2. PICK s \in Export(p, n) : Continue(t, p, [r EXCEPT !.at = "recv", !.stream = s])
    BY <1>4, <2>1, Zenon DEF OpenStream
  <2>3. s \in Seq(Answer) /\ GoesOn(p, n, s)
    BY ExportGoesOn
  <2> DEFINE c == [r EXCEPT !.at = "recv", !.stream = s]
  <2>4. c \in Call /\ c.got = Numbered(n) /\ c.at = "recv" /\ c.stream = s
    BY <1>1, <1>2, <2>3, Zenon DEF Call
  <2> HIDE DEF c
  <2>5. CallRight(p, c)
    BY <2>3, <2>4, ZenonT(30) DEF CallRight
  <2> QED
    BY <1>3, <1>4, <2>2, <2>4, <2>5, Zenon DEF OpenStream, c
<1>5. CASE Recv(t, p)
  <2> DEFINE c == IF Head(r.stream).iterateFrom = NoPulse
                  THEN [r EXCEPT !.got = Append(@, Head(r.stream).record), !.stream = Tail(@)]
                  ELSE [r EXCEPT !.at = "deliver"]
  <2>1. r.at = "recv" /\ r.stream # <<>> /\ Continue(t, p, c)
    BY <1>5 DEF Recv
  <2>2. CallRight(p, c)
    BY <1>1, <2>1, RecvRight, Zenon
  <2>3. c.at # "none"
    <3>1. [r EXCEPT !.got = Append(@, Head(r.stream).record), !.stream = Tail(@)].at = "recv"
      BY <1>1, <2>1 DEF Call
    <3>2. [r EXCEPT !.at = "deliver"].at = "deliver"
      BY <1>1, ZenonT(30) DEF Call
    <3> QED
      BY <3>1, <3>2
  <2> HIDE DEF c
  <2> QED
    BY <1>3, <2>1, <2>2, <2>3, ZenonT(30)
<1>6. ASSUME NEW c \in Call, c.got = r.got, c.at \in {"export", "shutdown"}, r.at # "none", Continue(t, p, c)
      PROVE  DataInv' /\ RangeInv'
  <2>1. CallRight(p, c)
    BY <1>2, <1>6, ZenonT(30) DEF CallRight
  <2> QED
    BY <1>3, <1>6, <2>1, ZenonT(30)
<1>7. CASE RecvEOF(t, p)
  <2> DEFINE c == [r EXCEPT !.at = "export"]
  <2>1. c \in Call /\ c.got = r.got /\ c.at = "export"
    BY <1>1, ZenonT(30) DEF Call
  <2>2. Continue(t, p, c) /\ r.at # "none"
    BY <1>7 DEF RecvEOF
  <2> HIDE DEF c
  <2> QED
    BY <1>6, <2>1, <2>2
<1>8. CASE RecvAgain(t, p)
  <2> DEFINE none == <<>>
             c == [r EXCEPT !.at = "export", !.stream = none]
  <2>1. c \in Call /\ c.got = r.got /\ c.at = "export"
    <3>1. none \in Seq(Answer)
      OBVIOUS
    <3> HIDE DEF none
    <3> QED
      BY <1>1, <3>1, Zenon DEF Call
  <2>2. Continue(t, p, c) /\ r.at # "none"
    BY <1>8, ZenonT(30) DEF RecvAgain
  <2> HIDE DEF c
  <2> QED
    BY <1>6, <2>1, <2>2
<1>9. CASE ExportVersionError(t, p)
  <2> DEFINE c == [r EXCEPT !.at = "shutdown"]
  <2>1. c \in Call /\ c.got = r.got /\ c.at = "shutdown"
    BY <1>1, Zenon DEF Call
  <2>2. Continue(t, p, c) /\ r.at # "none"
    BY <1>9, ZenonT(30) DEF ExportVersionError
  <2> HIDE DEF c
  <2> QED
    BY <1>6, <2>1, <2>2
<1>10. CASE GiveUp(t, p)
  BY <1>10, LostStep DEF GiveUp
<1>11. CASE Deliver(t, p)
  BY <1>11, DeliverStep
<1> QED
  BY <1>4, <1>5, <1>7, <1>8, <1>9, <1>10, <1>11, ZenonT(30) DEF RecordsStep

LEMMA InitData == Init => DataInv /\ RangeInv
<1> SUFFICES ASSUME Init PROVE DataInv /\ RangeInv
  OBVIOUS
<1>1. Delivered = {} /\ mainPulseDataChan \in Seq(Delivered)
  BY DEF Init, Delivered
<1>2. \A t \in Thread, p \in Pulse : retrieval[<<t, p>>] = Idle
  BY DEF Init
<1>3. \A t \in Thread, p \in Pulse : CallRight(p, retrieval[<<t, p>>])
  BY <1>2, IdleRight, Zenon
<1>4. DataInv
  BY <1>1, <1>3, ZenonT(30) DEF Init, DataInv, SkipsNothing
<1>5. ASSUME NEW t \in Thread, ~MainThread(t) PROVE ReloadInv(t)
  <2>1. pulse[t] = From[t] /\ pc[t] = "loop" /\ Held(t) = {}
    BY <1>2, ZenonT(30) DEF Init, Held, Idle
  <2>2. From[t] \in Nat /\ LastOf(t) \in Nat /\ From[t] < LastOf(t)
    BY ExtractorAssumption DEF LastOf
  <2>3. From[t] \in From[t] .. LastOf(t) /\ From[t] + 1 .. From[t] = {}
    BY <2>2
  <2> QED
    BY <2>1, <2>2, <2>3, ZenonT(30) DEF ReloadInv
<1> QED
  BY <1>4, <1>5 DEF RangeInv

LEMMA NextData == IInv /\ DataInv /\ RangeInv /\ [Next]_vars => DataInv' /\ RangeInv'
<1> SUFFICES ASSUME IInv, DataInv, RangeInv, [Next]_vars
             PROVE  DataInv' /\ RangeInv'
  OBVIOUS
<1>1. ASSUME UNCHANGED <<threadVars, retrieval, leaked, outVars>>, cancelled \subseteq cancelled'
      PROVE  DataInv' /\ RangeInv'
  <2>1. DataInv'
    BY <1>1, DataFrame, SMTT(20) DEF threadVars
  <2>2. RangeInv'
    <3> SUFFICES ASSUME NEW t \in Thread, ~MainThread(t) PROVE ReloadInv(t)'
      BY DEF RangeInv, MainThread
    <3>1. ReloadInv(t)
      BY ZenonT(30) DEF RangeInv
    <3>2. /\ pulse' = pulse /\ pc' = pc /\ leaked' = leaked /\ lost' = lost
          /\ Held(t)' = Held(t) /\ Delivered' = Delivered
      BY <1>1 DEF threadVars, outVars, Held, Delivered
    <3>3. \A q \in Int : Seen(t, q) => Seen(t, q)'
      BY <3>2, Zenon DEF Seen
    <3> QED
      BY <1>1, <3>1, <3>2, <3>3, ReloadStays, Zenon
  <2> QED
    BY <2>1, <2>2
<1>2. CASE FinalizePulse \/ Stop \/ StopController \/ UNCHANGED vars
  BY <1>1, <1>2 DEF FinalizePulse, Stop, StopController, vars
<1>3. CASE Take
  <2>1. DataInv' /\ Delivered' = Delivered
    BY <1>3, DataTake, DeliveredTaken, Zenon DEF DataInv
  <2>2. UNCHANGED <<pc, pulse, retrieval, leaked, lost, cancelled>>
    BY <1>3, SMTT(20) DEF Take, threadVars
  <2>3. RangeInv'
    <3> SUFFICES ASSUME NEW t \in Thread, ~MainThread(t) PROVE ReloadInv(t)'
      BY DEF RangeInv, MainThread
    <3>1. ReloadInv(t)
      BY DEF RangeInv
    <3>2. Held(t)' = Held(t)
      BY <2>2 DEF Held
    <3>3. \A q \in Int : Seen(t, q) => Seen(t, q)'
      BY <2>1, <2>2, <3>2, Zenon DEF Seen
    <3> QED
      BY <2>2, <3>1, <3>2, <3>3, ReloadStays, Zenon
  <2> QED
    BY <2>1, <2>3, SMTT(20)
<1>4. ASSUME NEW t \in Thread,
             \/ Loop(t) \/ TakeWorker(t) \/ GiveBack(t) \/ NextFails(t) \/ NextVersionError(t) \/ ShutdownReturns(t)
      PROVE  DataInv' /\ RangeInv'
  <2>1. UNCHANGED <<pulse, nextNotEmpty, retrieval, outVars>>
    BY <1>4, ZenonT(30) DEF Loop, TakeWorker, GiveBack, NextFails, NextVersionError, ShutdownReturns
  <2> QED
    BY <1>4, <2>1, DataFrame, RangeThread, ZenonT(30)
<1>5. ASSUME NEW t \in Thread, ThreadStep(t)
      PROVE  DataInv' /\ RangeInv'
  BY <1>4, <1>5, DataNextPulse, RangeNextPulse DEF ThreadStep
<1>6. ASSUME NEW t \in Thread, NEW p \in Pulse, RecordsStep(t, p)
      PROVE  DataInv' /\ RangeInv'
  BY <1>6, RecordsDataStep, ZenonT(30)
<1>7. ASSUME NEW t \in Thread, NEW p \in Pulse, RecordsShutdownReturns(t, p)
      PROVE  DataInv' /\ RangeInv'
  BY <1>7, LostStep DEF RecordsShutdownReturns
<1> QED
  BY <1>2, <1>3, <1>4, <1>5, <1>6, <1>7, ZenonT(30) DEF Next

LEMMA DataInvariance == Spec => [](IInv /\ DataInv /\ RangeInv)
BY InitIInv, NextIInv, InitData, NextData, PTL DEF Spec

(***************************************************************************)
(* Every pulse that reaches the transformer has all its records in order,  *)
(* however many portions it takes, whatever streams break, and also when a *)
(* serial reload skips it on the platform's word.                          *)
(***************************************************************************)
THEOREM PulsesAreWhole == Spec => []WholePulses
<1>1. DataInv => WholePulses
  BY DEF DataInv, DeliveryRight, WholePulses, Numbered
<1> QED
  BY DataInvariance, <1>1, PTL

(***************************************************************************)
(* A reload that returned, other than by a cancelled context or a version  *)
(* error, has seen every pulse of its range, and delivers none beyond it;  *)
(* the range of a reload that was asked for (p, p] is the one pulse p + 1. *)
(***************************************************************************)
THEOREM ReloadsCoverTheirRange == Spec => []RangeCovered
<1>1. DataInv /\ RangeInv => RangeCovered
  <2> SUFFICES ASSUME DataInv, RangeInv, NEW t \in Thread, ~MainThread(t)
               PROVE  /\ \A d \in Delivered : d.thread = t => d.pulse \in From[t] + 1 .. LastOf(t)
                      /\ pc[t] = "returned" /\ t \notin cancelled \cup leaked =>
                           \A p \in From[t] + 1 .. LastOf(t) : Seen(t, p)
    BY DEF RangeCovered
  <2>1. ReloadInv(t)
    BY ZenonT(30) DEF RangeInv
  <2>2. \A d \in Delivered : d.thread = t => d.pulse \in From[t] + 1 .. LastOf(t)
    BY DEF DataInv, DeliveryRight
  <2> QED
    BY <2>1, <2>2, Zenon DEF ReloadInv
<1> QED
  BY DataInvariance, <1>1, PTL
=============================================================================
