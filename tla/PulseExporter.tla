---------------------------- MODULE PulseExporter ----------------------------
(***************************************************************************)
(* The stream of complete pulses of the exporter API:                      *)
(* etl/exporter/pulse_exporter_server.go over the query                    *)
(* GetNextCompletePulseFilterByPrototypeReference of etl/storage.          *)
(*                                                                         *)
(* The block explorer goes on filling the database while streams read it:  *)
(* jet drops of several pulses are saved in any order, and a pulse is      *)
(* completed when all of its own are there.  The query is two statements,  *)
(* Find and Count.  A client whose stream broke opens another one from the *)
(* last pulse it has received; the server learns of a broken stream only   *)
(* when it sends, so streams of the past go on for a while.                *)
(*                                                                         *)
(* Pulse p is the one after p - 1.  Of a record only matters whether its   *)
(* prototype is one the client asked for.                                  *)
(***************************************************************************)
EXTENDS Integers, Sequences

CONSTANTS
  Stream,          \* the calls of GetNextPulse
  LastPulse,       \* bound of the model: the last pulse there is
  MaxMatching,     \* bound of the model: records of a pulse the client asked for
  MaxFindErrors,   \* bounds of the model: failures of the first statement,
  MaxCountErrors,  \* of the second one,
  MaxBreaks        \* and of connections

ASSUME PulseExporterAssumption ==
  /\ LastPulse \in Nat \ {0}
  /\ MaxMatching \in Nat
  /\ MaxFindErrors \in Nat /\ MaxCountErrors \in Nat /\ MaxBreaks \in Nat

VARIABLES
  matching,  \* of every pulse, how many of its records the client asked for; it has one more
  pulses,    \* the rows: which records are saved, is_complete
  stream,    \* of every call: where it stands, currentPN, the pulse it found
  channel,   \* of every call: the responses on their way to the client
  client,    \* PulseNumberFrom of the first request and the responses the client has received
  errors     \* how much of each bound is used up

vars == <<matching, pulses, stream, channel, client, errors>>

Pulse == 1..LastPulse

\* The zero value of models.Pulse.
NoPulse == [pulseNumber |-> 0, prevPulseNumber |-> 0, recordAmount |-> 0]

Init ==
  /\ matching \in [Pulse -> 0..MaxMatching]
  /\ pulses = [p \in Pulse |-> [matching |-> 0, other |-> 0, isComplete |-> FALSE]]
  /\ stream = [s \in Stream |-> [at |-> "none", currentPN |-> 0, found |-> NoPulse, connected |-> FALSE]]
  /\ channel = [s \in Stream |-> <<>>]
  /\ \E from \in 0..LastPulse : client = [from |-> from, received |-> <<>>]
  /\ errors = [find |-> 0, count |-> 0, break |-> 0]

\* The bounds of the failures.
Errs(kind, bound) == errors[kind] < bound /\ errors' = [errors EXCEPT ![kind] = @ + 1]
-----------------------------------------------------------------------------
\* A jet drop and its records are saved; the pulse's record_amount counts them.
SaveJetDropData(p) ==
  /\ \/ pulses[p].matching < matching[p] /\ pulses' = [pulses EXCEPT ![p].matching = @ + 1]
     \/ pulses[p].other = 0 /\ pulses' = [pulses EXCEPT ![p].other = 1]
  /\ UNCHANGED <<matching, stream, channel, client, errors>>

\* The controller completes a pulse all of whose jet drops are saved.
CompletePulse(p) ==
  /\ pulses[p].matching = matching[p] /\ pulses[p].other = 1 /\ ~pulses[p].isComplete
  /\ pulses' = [pulses EXCEPT ![p].isComplete = TRUE]
  /\ UNCHANGED <<matching, stream, channel, client, errors>>
-----------------------------------------------------------------------------
Last(c) == IF c.received = <<>> THEN c.from ELSE c.received[Len(c.received)].pulseNumber

\* The client asks for the pulses after the last one it has.
GetNextPulse(s) ==
  /\ stream[s].at = "none" /\ \A r \in Stream : ~stream[r].connected
  /\ stream' = [stream EXCEPT ![s] = [at |-> "find", currentPN |-> Last(client),
                                      found |-> NoPulse, connected |-> TRUE]]
  /\ UNCHANGED <<matching, pulses, channel, client, errors>>

\* is_complete is not asked for.
RowsOfAny(prevPulse) == {p \in Pulse : p - 1 = prevPulse /\ pulses[p].matching > 0}

\* The pulses of the joined rows.
Rows(prevPulse) == {p \in Pulse : p - 1 = prevPulse /\ pulses[p].isComplete /\ pulses[p].matching > 0}

\* Find: without a row the pulse stays zero, and the error of the database is dropped.
Find(s) ==
  /\ stream[s].at = "find"
  /\ \/ \E p \in Rows(stream[s].currentPN) :
          /\ stream' = [stream EXCEPT ![s].at = "count",
                          ![s].found = [pulseNumber |-> p, prevPulseNumber |-> p - 1,
                                        recordAmount |-> pulses[p].matching + pulses[p].other]]
          /\ UNCHANGED errors
     \/ /\ \/ Rows(stream[s].currentPN) = {} /\ UNCHANGED errors
           \/ Errs("find", MaxFindErrors)
        /\ stream' = [stream EXCEPT ![s].at = "check", ![s].found = NoPulse]
  /\ UNCHANGED <<matching, pulses, channel, client>>

\* Count: the records of the joined rows; when it fails the pulse is returned as it is, without an error.
Count(s) ==
  /\ stream[s].at = "count"
  /\ \/ /\ \E p \in Rows(stream[s].currentPN) :
             stream' = [stream EXCEPT ![s].at = "check", ![s].found.recordAmount = pulses[p].matching]
        /\ UNCHANGED errors
     \/ /\ Errs("count", MaxCountErrors)
        /\ stream' = [stream EXCEPT ![s].at = "check"]
  /\ UNCHANGED <<matching, pulses, channel, client>>

\* A zero pulse is sent as well.
CheckSendsAll(s) ==
  /\ stream[s].at = "check"
  /\ stream' = [stream EXCEPT ![s].at = "send"]
  /\ UNCHANGED <<matching, pulses, channel, client, errors>>

\* The next pulse does not count as a later one.
CheckOneLater(s) ==
  /\ stream[s].at = "check"
  /\ stream' = [stream EXCEPT ![s].at =
                  IF stream[s].currentPN + 1 >= stream[s].found.pulseNumber THEN "find" ELSE "send"]
  /\ UNCHANGED <<matching, pulses, channel, client, errors>>

\* A pulse that is not a later one: the server sleeps for a pulse period and asks again.
Check(s) ==
  /\ stream[s].at = "check"
  /\ stream' = [stream EXCEPT ![s].at =
                  IF stream[s].currentPN >= stream[s].found.pulseNumber THEN "find" ELSE "send"]
  /\ UNCHANGED <<matching, pulses, channel, client, errors>>

\* Send, and currentPN moves on; when the stream is broken the call returns.
Send(s) ==
  /\ stream[s].at = "send"
  /\ IF stream[s].connected
     THEN /\ channel' = [channel EXCEPT ![s] = Append(@, stream[s].found)]
          /\ stream' = [stream EXCEPT ![s].at = "find", ![s].currentPN = stream[s].found.pulseNumber]
     ELSE stream' = [stream EXCEPT ![s].at = "none"] /\ UNCHANGED channel
  /\ UNCHANGED <<matching, pulses, client, errors>>
-----------------------------------------------------------------------------
Receive(s) ==
  /\ channel[s] # <<>>
  /\ client' = [client EXCEPT !.received = Append(@, Head(channel[s]))]
  /\ channel' = [channel EXCEPT ![s] = Tail(@)]
  /\ UNCHANGED <<matching, pulses, stream, errors>>

\* The connection breaks; what is on its way is lost.
Break(s) ==
  /\ stream[s].connected
  /\ Errs("break", MaxBreaks)
  /\ stream' = [stream EXCEPT ![s].connected = FALSE]
  /\ channel' = [channel EXCEPT ![s] = <<>>]
  /\ UNCHANGED <<matching, pulses, client>>

Serve(s) == Find(s) \/ Count(s) \/ Check(s) \/ Send(s)

Next ==
  \/ \E p \in Pulse : SaveJetDropData(p) \/ CompletePulse(p)
  \/ \E s \in Stream : GetNextPulse(s) \/ Serve(s) \/ Receive(s) \/ Break(s)

(***************************************************************************)
(* The block explorer completes its pulses, the server goes on with every  *)
(* call, and the client receives and reconnects.                           *)
(***************************************************************************)
Fairness ==
  /\ \A p \in Pulse : WF_vars(SaveJetDropData(p)) /\ WF_vars(CompletePulse(p))
  /\ \A s \in Stream : WF_vars(Serve(s)) /\ WF_vars(Receive(s))
  /\ WF_vars(\E s \in Stream : GetNextPulse(s))

Spec == Init /\ [][Next]_vars /\ Fairness
-----------------------------------------------------------------------------
(***************************************************************************)
(* The client receives the pulses after PulseNumberFrom one after the      *)
(* other, none twice and none left out, over all the streams it opens.     *)
(***************************************************************************)
ReceivedInChain ==
  \A i \in DOMAIN client.received :
    /\ client.received[i].pulseNumber = client.from + i
    /\ client.received[i].prevPulseNumber = client.from + i - 1

(***************************************************************************)
(* An amount the client receives is final: it counts the records asked for *)
(* or, when Count failed, all of the pulse, and never a part of them.      *)
(***************************************************************************)
AmountIsFinal ==
  \A i \in DOMAIN client.received :
    LET r == client.received[i]
    IN  r.recordAmount \in {matching[r.pulseNumber], matching[r.pulseNumber] + 1}

\* The pulses after from, as far as none is without a record the client asked for.
Reachable == {p \in Pulse : p > client.from /\ \A q \in (client.from + 1)..p : matching[q] > 0}

(***************************************************************************)
(* Every pulse up to the first one without a record asked for reaches the  *)
(* client, whatever streams break: the query looks at the next pulse only, *)
(* so the stream waits for good at the first pulse that does not match.    *)
(***************************************************************************)
MatchingPulsesArrive ==
  \A p \in Pulse :
    p \in Reachable ~> \E i \in DOMAIN client.received : client.received[i].pulseNumber = p
=============================================================================
