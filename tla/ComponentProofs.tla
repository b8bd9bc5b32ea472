--------------------------- MODULE ComponentProofs ---------------------------
(***************************************************************************)
(* Proofs about three components that stand by themselves: the exporter's  *)
(* stream of complete pulses, for any number of streams, pulses, records,  *)
(* failed statements and broken connections; the ranges that were          *)
(* reloaded, for slices of any length; and the processor's channels, for   *)
(* any number of workers, jet drops and failures, first of the processor   *)
(* by itself, then of the whole program, where its workers are held in     *)
(* sends on stopChannel, the database is lost and main stops the           *)
(* components.                                                             *)
(***************************************************************************)
EXTENDS PulseExporter, MissedData, Shutdown, WellFoundedInduction, FiniteSetTheorems, TLAPS

(***************************************************************************)
(* The stream of complete pulses.                                          *)
(***************************************************************************)
Response == [pulseNumber : Nat, prevPulseNumber : Nat, recordAmount : Nat]

Row == [matching : Nat, other : {0, 1}, isComplete : BOOLEAN]

Call == [at : {"none", "find", "count", "check", "send"}, currentPN : Nat,
         found : Response, connected : BOOLEAN]

Types ==
  /\ matching \in [Pulse -> Nat]
  /\ pulses \in [Pulse -> Row]
  /\ stream \in [Stream -> Call]
  /\ channel \in [Stream -> Seq(Response)]
  /\ client \in [from : Nat, received : Seq(Response)]

\* Response r is right for a stream that stands at pulse n.
IsNext(r, n) ==
  /\ r.pulseNumber = n + 1
  /\ r.prevPulseNumber = n
  /\ r.pulseNumber \in Pulse
  /\ r.recordAmount \in {matching[r.pulseNumber], matching[r.pulseNumber] + 1}

\* All the records of a complete pulse are there.
CompleteIsFinal ==
  \A p \in Pulse : pulses[p].isComplete => pulses[p].matching = matching[p] /\ pulses[p].other = 1

\* What a call has found is the pulse after the one it stands at, or nothing.
FoundIsNext ==
  \A s \in Stream :
    /\ stream[s].at \in {"count", "send"} => IsNext(stream[s].found, stream[s].currentPN)
    /\ stream[s].at = "check" =>
         stream[s].found = NoPulse \/ IsNext(stream[s].found, stream[s].currentPN)

\* One stream at most is connected; what is on its way continues what the client has, and
\* the call stands at its end.
OneStreamContinues ==
  \A s \in Stream :
    IF stream[s].connected
    THEN /\ \A r \in Stream : stream[r].connected => r = s
         /\ stream[s].at # "none"
         /\ stream[s].currentPN = Last(client) + Len(channel[s])
         /\ \A i \in 1 .. Len(channel[s]) : IsNext(channel[s][i], Last(client) + i - 1)
    ELSE channel[s] = <<>>

Received ==
  \A i \in 1 .. Len(client.received) : IsNext(client.received[i], client.from + i - 1)

\* The inductive invariant of the exporter.
IInv == Types /\ CompleteIsFinal /\ FoundIsNext /\ OneStreamContinues /\ Received
-----------------------------------------------------------------------------
\* The client stands where the number of its responses says.
LEMMA LastCounts ==
  ASSUME Types, Received
  PROVE  Last(client) = client.from + Len(client.received) /\ Last(client) \in Nat
<1>1. client.from \in Nat /\ client.received \in Seq(Response) /\ Len(client.received) \in Nat
  BY DEF Types
<1>2. CASE client.received = <<>>
  BY <1>1, <1>2 DEF Last
<1>3. CASE client.received # <<>>
  <2> DEFINE n == Len(client.received)
  <2>1. n \in 1 .. n /\ n \in Nat
    BY <1>1, <1>3
  <2>2. IsNext(client.received[n], client.from + n - 1)
    BY <2>1 DEF Received
  <2>3. Last(client) = (client.from + n - 1) + 1
    BY <1>3, <2>2 DEF Last, IsNext
  <2> QED
    BY <1>1, <2>1, <2>3
<1> QED
  BY <1>2, <1>3

\* A statement finds a row only of the pulse that follows, once that is complete.
LEMMA RowIsNext ==
  ASSUME Types, CompleteIsFinal, NEW n \in Nat, NEW p \in Rows(n)
  PROVE  /\ p \in Pulse /\ p = n + 1 /\ p \in Nat
         /\ pulses[p].matching = matching[p] /\ pulses[p].other = 1
         /\ matching[p] \in Nat
BY PulseExporterAssumption DEF Types, CompleteIsFinal, Rows, Pulse

\* Rows that grow are not those of a complete pulse.
LEMMA DatabaseStep ==
  ASSUME IInv, NEW p \in Pulse, SaveJetDropData(p) \/ CompletePulse(p)
  PROVE  IInv'
<1>1. /\ matching' = matching /\ stream' = stream /\ channel' = channel /\ client' = client
  BY DEF SaveJetDropData, CompletePulse
<1>2. Types'
  <2>1. pulses[p] \in Row
    BY DEF IInv, Types
  <2>2. pulses[p].matching + 1 \in Nat
    BY <2>1 DEF Row
  <2>3. PICK row \in Row : pulses' = [pulses EXCEPT ![p] = row]
    <3>1. CASE pulses' = [pulses EXCEPT ![p].matching = @ + 1]
      BY <2>1, <2>2, <3>1, Zenon DEF Row
    <3>2. CASE pulses' = [pulses EXCEPT ![p].other = 1]
      BY <2>1, <3>2, Zenon DEF Row
    <3>3. CASE pulses' = [pulses EXCEPT ![p].isComplete = TRUE]
      BY <2>1, <3>3, Zenon DEF Row
    <3> QED
      BY <3>1, <3>2, <3>3 DEF SaveJetDropData, CompletePulse
  <2> QED
    BY <1>1, <2>3 DEF IInv, Types
<1>3. CompleteIsFinal'
  <2>1. pulses \in [Pulse -> Row] /\ pulses[p] \in Row /\ matching[p] \in Nat
    BY DEF IInv, Types
  <2>2. CASE pulses[p].matching < matching[p] /\ pulses' = [pulses EXCEPT ![p].matching = @ + 1]
    <3>1. ~pulses[p].isComplete
      BY <2>1, <2>2 DEF IInv, CompleteIsFinal, Row
    <3> QED
      BY <1>1, <2>1, <2>2, <3>1 DEF IInv, CompleteIsFinal, Row
  <2>3. CASE pulses' = [pulses EXCEPT ![p].other = 1]
    BY <1>1, <2>1, <2>3 DEF IInv, CompleteIsFinal, Row
  <2>4. CASE CompletePulse(p)
    BY <1>1, <2>1, <2>4, ZenonT(30) DEF IInv, CompleteIsFinal, Row, CompletePulse
  <2> QED
    BY <2>2, <2>3, <2>4 DEF SaveJetDropData
<1>4. FoundIsNext' /\ OneStreamContinues' /\ Received'
  BY <1>1, ZenonT(30) DEF IInv, FoundIsNext, OneStreamContinues, Received, IsNext, Last
<1> QED
  BY <1>2, <1>3, <1>4 DEF IInv

LEMMA GetNextPulseStep ==
  ASSUME IInv, NEW s \in Stream, GetNextPulse(s)
  PROVE  IInv'
<1>1. /\ matching' = matching /\ pulses' = pulses /\ channel' = channel /\ client' = client
      /\ \A r \in Stream : ~stream[r].connected
      /\ stream' = [stream EXCEPT ![s] = [at |-> "find", currentPN |-> Last(client),
                                          found |-> NoPulse, connected |-> TRUE]]
  BY DEF GetNextPulse
<1>2. Last(client) \in Nat
  BY LastCounts DEF IInv
<1>3. Types'
  BY <1>1, <1>2, ZenonT(30) DEF IInv, Types, Call, NoPulse, Response
<1>4. FoundIsNext' /\ CompleteIsFinal' /\ Received'
  BY <1>1, ZenonT(30) DEF IInv, Types, FoundIsNext, CompleteIsFinal, Received, IsNext
<1>5. OneStreamContinues'
  BY <1>1, <1>2 DEF IInv, Types, OneStreamContinues, IsNext, Last
<1> QED
  BY <1>3, <1>4, <1>5 DEF IInv

\* When one call moves, only what that call has found has to be looked at.
LEMMA FoundKept ==
  ASSUME FoundIsNext, matching' = matching, NEW s \in Stream,
         \A q \in Stream : q # s => stream'[q] = stream[q],
         stream'[s].at \in {"count", "send"} => IsNext(stream'[s].found, stream'[s].currentPN),
         stream'[s].at = "check" =>
           stream'[s].found = NoPulse \/ IsNext(stream'[s].found, stream'[s].currentPN)
  PROVE  FoundIsNext'
BY ZenonT(30) DEF FoundIsNext, IsNext

\* No call connects, moves on or ends: what is on its way is what it was.
LEMMA ContinuesKept ==
  ASSUME OneStreamContinues, matching' = matching, channel' = channel, client' = client,
         \A q \in Stream : /\ stream'[q].connected = stream[q].connected
                           /\ stream'[q].currentPN = stream[q].currentPN
                           /\ stream[q].at # "none" => stream'[q].at # "none"
  PROVE  OneStreamContinues'
BY ZenonT(30) DEF OneStreamContinues, IsNext, Last

LEMMA FindStep ==
  ASSUME IInv, NEW s \in Stream, Find(s)
  PROVE  IInv'
<1>1. /\ matching' = matching /\ pulses' = pulses /\ channel' = channel /\ client' = client
      /\ stream[s].at = "find"
  BY DEF Find
<1>2. PICK place \in {"count", "check"}, r \in Response :
        /\ stream' = [stream EXCEPT ![s].at = place, ![s].found = r]
        /\ place = "count" => IsNext(r, stream[s].currentPN)
        /\ place = "check" => r = NoPulse
  <2>1. ASSUME NEW p \in Rows(stream[s].currentPN),
               stream' = [stream EXCEPT ![s].at = "count",
                            ![s].found = [pulseNumber |-> p, prevPulseNumber |-> p - 1,
                                          recordAmount |-> pulses[p].matching + pulses[p].other]]
        PROVE  \E r \in Response :
                 /\ stream' = [stream EXCEPT ![s].at = "count", ![s].found = r]
                 /\ IsNext(r, stream[s].currentPN)
    <3> DEFINE r == [pulseNumber |-> p, prevPulseNumber |-> p - 1,
                     recordAmount |-> pulses[p].matching + pulses[p].other]
    <3>1. stream[s].currentPN \in Nat
      BY DEF IInv, Types, Call
    <3>2. /\ p \in Pulse /\ p = stream[s].currentPN + 1 /\ p \in Nat
          /\ pulses[p].matching = matching[p] /\ pulses[p].other = 1
          /\ matching[p] \in Nat
      BY <3>1, RowIsNext DEF IInv
    <3>3. r \in Response /\ IsNext(r, stream[s].currentPN)
      BY <3>1, <3>2 DEF Response, IsNext
    <3> QED
      BY <2>1, <3>3, Zenon
  <2>2. NoPulse \in Response
    BY DEF NoPulse, Response
  <2> QED
    BY <2>1, <2>2 DEF Find
<1>3. \A q \in Stream : stream'[q].connected = stream[q].connected
                        /\ stream'[q].currentPN = stream[q].currentPN
                        /\ (q # s => stream'[q] = stream[q])
  BY <1>2 DEF IInv, Types, Call
<1>4. Types'
  BY <1>1, <1>2, ZenonT(30) DEF IInv, Types, Call
<1>5. CompleteIsFinal' /\ Received'
  BY <1>1 DEF IInv, CompleteIsFinal, Received, IsNext
<1>6. FoundIsNext'
  <2>1. stream'[s].at = place /\ stream'[s].found = r
    BY <1>2, ZenonT(30) DEF IInv, Types, Call
  <2> QED
    BY <1>1, <1>2, <1>3, <2>1, FoundKept, ZenonT(30) DEF IInv
<1>7. OneStreamContinues'
  <2>1. stream'[s].at = place
    BY <1>2, ZenonT(30) DEF IInv, Types, Call
  <2> QED
    BY <1>1, <1>3, <2>1, ContinuesKept, ZenonT(30) DEF IInv
<1> QED
  BY <1>4, <1>5, <1>6, <1>7 DEF IInv

\* When the count fails the amount stays what Find had read: all the records of the pulse.
LEMMA CountStep ==
  ASSUME IInv, NEW s \in Stream, Count(s)
  PROVE  IInv'
<1>1. /\ matching' = matching /\ pulses' = pulses /\ channel' = channel /\ client' = client
      /\ stream[s].at = "count"
  BY DEF Count
<1>2. IsNext(stream[s].found, stream[s].currentPN) /\ stream[s].found \in Response
      /\ stream[s].currentPN \in Nat
  BY <1>1 DEF IInv, Types, Call, FoundIsNext
<1>3. PICK r \in Response :
        /\ stream' = [stream EXCEPT ![s].at = "check", ![s].found = r]
        /\ IsNext(r, stream[s].currentPN)
  <2>1. ASSUME NEW p \in Rows(stream[s].currentPN),
               stream' = [stream EXCEPT ![s].at = "check", ![s].found.recordAmount = pulses[p].matching]
        PROVE  \E r \in Response :
                 /\ stream' = [stream EXCEPT ![s].at = "check", ![s].found = r]
                 /\ IsNext(r, stream[s].currentPN)
    <3> DEFINE r == [stream[s].found EXCEPT !.recordAmount = pulses[p].matching]
    <3>1. p = stream[s].currentPN + 1 /\ pulses[p].matching = matching[p] /\ matching[p] \in Nat
      BY <1>2, RowIsNext, ZenonT(30) DEF IInv
    <3>2. r \in Response /\ IsNext(r, stream[s].currentPN)
      BY <1>2, <3>1 DEF Response, IsNext
    <3>3. stream' = [stream EXCEPT ![s].at = "check", ![s].found = r]
      BY <2>1 DEF IInv, Types, Call
    <3> QED
      BY <3>2, <3>3, Zenon
  <2>2. ASSUME stream' = [stream EXCEPT ![s].at = "check"]
        PROVE  stream' = [stream EXCEPT ![s].at = "check", ![s].found = stream[s].found]
    BY <2>2, Zenon DEF IInv, Types, Call
  <2> QED
    BY <1>2, <2>1, <2>2 DEF Count
<1>4. \A q \in Stream : stream'[q].connected = stream[q].connected
                        /\ stream'[q].currentPN = stream[q].currentPN
                        /\ (q # s => stream'[q] = stream[q])
  BY <1>3 DEF IInv, Types, Call
<1>5. Types'
  BY <1>1, <1>3, ZenonT(30) DEF IInv, Types, Call
<1>6. CompleteIsFinal' /\ Received'
  BY <1>1 DEF IInv, CompleteIsFinal, Received, IsNext
<1>7. FoundIsNext'
  <2>1. stream'[s].at = "check" /\ stream'[s].found = r
    BY <1>3, ZenonT(30) DEF IInv, Types, Call
  <2> QED
    BY <1>1, <1>3, <1>4, <2>1, FoundKept, ZenonT(30) DEF IInv
<1>8. OneStreamContinues'
  <2>1. stream'[s].at = "check"
    BY <1>3, ZenonT(30) DEF IInv, Types, Call
  <2> QED
    BY <1>1, <1>4, <2>1, ContinuesKept, ZenonT(30) DEF IInv
<1> QED
  BY <1>5, <1>6, <1>7, <1>8 DEF IInv

\* Nothing found is not later than any pulse, so what is sent is the next pulse.
LEMMA CheckStep ==
  ASSUME IInv, NEW s \in Stream, Check(s)
  PROVE  IInv'
<1>1. /\ matching' = matching /\ pulses' = pulses /\ channel' = channel /\ client' = client
      /\ stream[s].at = "check" /\ stream[s].currentPN \in Nat
  BY DEF Check, IInv, Types, Call
<1>2. PICK place \in {"find", "send"} :
        /\ stream' = [stream EXCEPT ![s].at = place]
        /\ place = "send" => IsNext(stream[s].found, stream[s].currentPN)
  <2>1. stream[s].found = NoPulse => stream[s].currentPN >= stream[s].found.pulseNumber
    BY <1>1 DEF NoPulse
  <2>2. ~ (stream[s].currentPN >= stream[s].found.pulseNumber)
          => IsNext(stream[s].found, stream[s].currentPN)
    BY <1>1, <2>1 DEF IInv, FoundIsNext
  <2> QED
    BY <2>2, Zenon DEF Check
<1>3. \A r \in Stream : stream'[r].connected = stream[r].connected
                        /\ stream'[r].currentPN = stream[r].currentPN
                        /\ stream'[r].found = stream[r].found
                        /\ (r # s => stream'[r] = stream[r])
  BY <1>2 DEF IInv, Types, Call
<1>4. Types'
  BY <1>1, <1>2, Zenon DEF IInv, Types, Call
<1>5. CompleteIsFinal' /\ Received'
  BY <1>1, ZenonT(30) DEF IInv, CompleteIsFinal, Received, IsNext
<1>6. stream'[s].at = place
  BY <1>2, ZenonT(30) DEF IInv, Types, Call
<1>7. FoundIsNext'
  BY <1>1, <1>2, <1>3, <1>6, FoundKept, ZenonT(30) DEF IInv
<1>8. OneStreamContinues'
  BY <1>1, <1>3, <1>6, ContinuesKept, ZenonT(30) DEF IInv
<1> QED
  BY <1>4, <1>5, <1>7, <1>8 DEF IInv

\* A sequence of responses with one more response behind it is a sequence of responses.
LEMMA AppendKeepsType ==
  ASSUME NEW S, NEW q \in Seq(S), NEW e \in S
  PROVE  Append(q, e) \in Seq(S)
OBVIOUS

\* What leaves a channel is counted as received.
LEMMA OneMoreOneLess ==
  \A a, n \in Nat : a + n = (a + 1) + (n - 1)
OBVIOUS

LEMMA SendStep ==
  ASSUME IInv, NEW s \in Stream, Send(s)
  PROVE  IInv'
<1>1. /\ matching' = matching /\ pulses' = pulses /\ client' = client
      /\ stream[s].at = "send"
  BY DEF Send
<1>2. /\ IsNext(stream[s].found, stream[s].currentPN)
      /\ stream[s] \in Call /\ stream[s].found \in Response /\ stream[s].currentPN \in Nat
      /\ stream[s].found.pulseNumber \in Nat /\ channel[s] \in Seq(Response)
  BY <1>1 DEF IInv, Types, Call, Response, FoundIsNext
<1>3. CompleteIsFinal' /\ Received'
  BY <1>1 DEF IInv, CompleteIsFinal, Received, IsNext
<1>4. CASE ~stream[s].connected
  <2>1. stream' = [stream EXCEPT ![s].at = "none"] /\ channel' = channel
    BY <1>4 DEF Send
  <2>2. Types'
    BY <1>1, <2>1, Zenon DEF IInv, Types, Call
  <2>3. FoundIsNext'
    <3>1. stream'[s].at = "none" /\ \A q \in Stream : q # s => stream'[q] = stream[q]
      BY <2>1, ZenonT(30) DEF IInv, Types, Call
    <3> QED
      BY <1>1, <3>1, FoundKept, ZenonT(30) DEF IInv
  <2>4. OneStreamContinues'
    BY <1>1, <1>4, <2>1 DEF IInv, Types, Call, OneStreamContinues, IsNext, Last
  <2> QED
    BY <1>3, <2>2, <2>3, <2>4 DEF IInv
<1>5. CASE stream[s].connected
  <2>1. /\ channel' = [channel EXCEPT ![s] = Append(@, stream[s].found)]
        /\ stream' = [stream EXCEPT ![s].at = "find", ![s].currentPN = stream[s].found.pulseNumber]
    BY <1>5 DEF Send
  <2>2. Types'
    <3>1. Append(channel[s], stream[s].found) \in Seq(Response)
      BY <1>2, AppendKeepsType, ZenonT(30)
    <3> QED
      BY <1>1, <1>2, <2>1, <3>1, Zenon DEF IInv, Types, Call
  <2>3. FoundIsNext'
    <3>1. stream'[s].at = "find" /\ \A q \in Stream : q # s => stream'[q] = stream[q]
      BY <2>1, ZenonT(30) DEF IInv, Types, Call
    <3> QED
      BY <1>1, <3>1, FoundKept, ZenonT(30) DEF IInv
  <2>4. OneStreamContinues'
    <3>1. Last(client) \in Nat /\ Last(client)' = Last(client)
      BY <1>1, LastCounts DEF IInv, Last
    <3>2. /\ stream[s].currentPN = Last(client) + Len(channel[s])
          /\ \A r \in Stream : stream[r].connected => r = s
          /\ \A i \in 1 .. Len(channel[s]) : IsNext(channel[s][i], Last(client) + i - 1)
      BY <1>5 DEF IInv, OneStreamContinues
    <3>3. /\ stream'[s].connected /\ stream'[s].at = "find"
          /\ stream'[s].currentPN = stream[s].currentPN + 1
          /\ \A r \in Stream : r # s => stream'[r] = stream[r] /\ channel'[r] = channel[r]
          /\ channel'[s] = Append(channel[s], stream[s].found)
      BY <1>2, <1>5, <2>1 DEF IInv, Types, Call, IsNext
    <3>4. Len(channel'[s]) = Len(channel[s]) + 1 /\ Len(channel[s]) \in Nat
      BY <1>2, <3>3
    <3>5. ASSUME NEW i \in 1 .. Len(channel'[s])
          PROVE  IsNext(channel'[s][i], Last(client) + i - 1)
      <4>1. CASE i \in 1 .. Len(channel[s])
        <5>1. channel'[s][i] = channel[s][i]
          BY <1>2, <3>3, <4>1
        <5> QED
          BY <3>2, <4>1, <5>1
      <4>2. CASE i = Len(channel[s]) + 1
        <5>1. channel'[s][i] = stream[s].found
          BY <1>2, <3>3, <4>2
        <5>2. Last(client) + i - 1 = stream[s].currentPN
          BY <3>1, <3>2, <3>4, <4>2
        <5> QED
          BY <1>2, <5>1, <5>2, ZenonT(30)
      <4> QED
        BY <3>4, <4>1, <4>2
    <3>6. ASSUME NEW r \in Stream, r # s
          PROVE  ~stream'[r].connected /\ channel'[r] = <<>>
      BY <3>2, <3>3, <3>6 DEF IInv, OneStreamContinues
    <3>7. stream'[s].currentPN = Last(client) + Len(channel'[s])
      BY <3>1, <3>2, <3>3, <3>4
    <3>8. \A i \in 1 .. Len(channel'[s]) : IsNext(channel[s][i], Last(client) + i - 1)'
      BY <1>1, <3>1, <3>5 DEF IsNext
    <3> QED
      BY <3>1, <3>3, <3>6, <3>7, <3>8, Zenon DEF OneStreamContinues
  <2> QED
    BY <1>3, <2>2, <2>3, <2>4 DEF IInv
<1> QED
  BY <1>4, <1>5

\* The client takes the first response that is on its way; the next one is now the first.
LEMMA ReceiveStep ==
  ASSUME IInv, NEW s \in Stream, Receive(s)
  PROVE  IInv'
<1> DEFINE r == Head(channel[s])
           n == Len(client.received)
<1>1. /\ matching' = matching /\ pulses' = pulses /\ stream' = stream
      /\ channel[s] # <<>> /\ channel[s] \in Seq(Response)
      /\ channel' = [channel EXCEPT ![s] = Tail(@)]
      /\ client' = [client EXCEPT !.received = Append(@, r)]
  BY DEF Receive, IInv, Types
<1>2. /\ stream[s].connected
      /\ \A q \in Stream : stream[q].connected => q = s
      /\ stream[s].at # "none"
      /\ stream[s].currentPN = Last(client) + Len(channel[s])
      /\ \A i \in 1 .. Len(channel[s]) : IsNext(channel[s][i], Last(client) + i - 1)
  BY <1>1 DEF IInv, OneStreamContinues
<1>3. /\ r = channel[s][1] /\ r \in Response /\ Tail(channel[s]) \in Seq(Response)
      /\ Len(channel[s]) \in Nat \ {0} /\ Len(Tail(channel[s])) = Len(channel[s]) - 1
      /\ \A i \in 1 .. Len(channel[s]) - 1 : Tail(channel[s])[i] = channel[s][i + 1]
  BY <1>1
<1>4. /\ client.from \in Nat /\ client.received \in Seq(Response) /\ n \in Nat
      /\ Last(client) = client.from + n /\ Last(client) \in Nat
  BY LastCounts DEF IInv, Types
<1>5. IsNext(r, Last(client))
  <2>1. 1 \in 1 .. Len(channel[s]) /\ Last(client) + 1 - 1 = Last(client)
    BY <1>3, <1>4
  <2> QED
    BY <1>2, <1>3, <2>1
<1>6. /\ client'.from = client.from
      /\ client'.received = Append(client.received, r)
      /\ client'.received \in Seq(Response)
      /\ Len(client'.received) = n + 1
      /\ \A i \in 1 .. n : client'.received[i] = client.received[i]
      /\ client'.received[n + 1] = r
  BY <1>1, <1>3, <1>4 DEF IInv, Types
<1> HIDE DEF r
<1>7. Types'
  BY <1>1, <1>3, <1>4, <1>6, Zenon DEF IInv, Types
<1>8. CompleteIsFinal' /\ FoundIsNext'
  BY <1>1, ZenonT(30) DEF IInv, CompleteIsFinal, FoundIsNext, IsNext
<1>9. Received'
  <2>1. ASSUME NEW i \in 1 .. n + 1
        PROVE  IsNext(client'.received[i], client.from + i - 1)
    <3>1. CASE i \in 1 .. n
      BY <1>6, <3>1 DEF IInv, Received
    <3>2. CASE i = n + 1
      <4>1. client.from + i - 1 = Last(client)
        BY <1>4, <3>2
      <4> QED
        BY <1>5, <1>6, <3>2, <4>1
    <3> QED
      BY <1>4, <3>1, <3>2
  <2> QED
    BY <1>1, <1>6, <2>1, ZenonT(30) DEF Received, IsNext
<1>10. Last(client') = Last(client) + 1
  <2>1. client'.received # <<>>
    BY <1>4, <1>6
  <2>2. Last(client') = r.pulseNumber
    BY <1>6, <2>1 DEF Last
  <2> QED
    BY <1>5, <2>2 DEF IsNext
<1>11. OneStreamContinues'
  <2>1. ASSUME NEW q \in Stream, q # s
        PROVE  ~stream'[q].connected /\ channel'[q] = <<>>
    BY <1>1, <1>2, <2>1 DEF IInv, Types, OneStreamContinues
  <2>2. channel'[s] = Tail(channel[s])
    BY <1>1 DEF IInv, Types
  <2>a. Len(channel'[s]) = Len(channel[s]) - 1 /\ Len(channel[s]) \in Nat
    BY <1>3, <2>2
  <2>3. stream'[s].currentPN = Last(client') + Len(channel'[s])
    <3>1. stream'[s].currentPN = Last(client) + Len(channel[s])
      BY <1>1, <1>2
    <3> QED
      BY <3>1, <2>a, <1>4, <1>10, OneMoreOneLess, ZenonT(30)
  <2>4. ASSUME NEW i \in 1 .. Len(channel'[s])
        PROVE  IsNext(channel'[s][i], Last(client') + i - 1)
    <3>1. /\ i \in 1 .. Len(channel[s]) - 1 /\ i + 1 \in 1 .. Len(channel[s])
          /\ Last(client') + i - 1 = Last(client) + (i + 1) - 1
      <4>1. i \in Int /\ 1 <= i /\ i <= Len(channel[s]) - 1
        BY <2>a
      <4>2. Last(client) \in Int
        BY <1>4
      <4> QED
        BY <4>1, <4>2, <1>10, <2>a
    <3> QED
      BY <1>2, <1>3, <2>2, <3>1
  <2>5. \A i \in 1 .. Len(channel'[s]) : IsNext(channel[s][i], Last(client) + i - 1)'
    BY <1>1, <2>4, Zenon DEF IsNext
  <2> QED
    BY <1>1, <1>2, <2>1, <2>3, <2>5, Zenon DEF OneStreamContinues
<1> QED
  BY <1>7, <1>8, <1>9, <1>11 DEF IInv

LEMMA BreakStep ==
  ASSUME IInv, NEW s \in Stream, Break(s)
  PROVE  IInv'
<1>1. /\ matching' = matching /\ pulses' = pulses /\ client' = client
      /\ stream[s].connected
      /\ stream' = [stream EXCEPT ![s].connected = FALSE]
      /\ channel' = [channel EXCEPT ![s] = <<>>]
  BY DEF Break
<1>2. Types'
  <2>1. <<>> \in Seq(Response)
    OBVIOUS
  <2> QED
    BY <1>1, <2>1, ZenonT(30) DEF IInv, Types, Call
<1>3. CompleteIsFinal' /\ Received'
  BY <1>1, ZenonT(30) DEF IInv, CompleteIsFinal, Received, IsNext
<1>4. FoundIsNext'
  BY <1>1, ZenonT(30) DEF IInv, Types, Call, FoundIsNext, IsNext
<1>5. OneStreamContinues'
  BY <1>1 DEF IInv, Types, Call, OneStreamContinues, IsNext, Last
<1> QED
  BY <1>2, <1>3, <1>4, <1>5 DEF IInv

LEMMA InitIInv == Init => IInv
<1> SUFFICES ASSUME Init PROVE IInv
  OBVIOUS
<1> USE PulseExporterAssumption
<1>1. PICK from \in 0 .. LastPulse : client = [from |-> from, received |-> <<>>]
  BY DEF Init
<1>2. Types
  <2>1. <<>> \in Seq(Response) /\ from \in Nat /\ NoPulse \in Response
    BY DEF NoPulse, Response
  <2>2. matching \in [Pulse -> Nat] /\ pulses \in [Pulse -> Row]
    BY DEF Init, Row
  <2>3. stream \in [Stream -> Call]
    BY <2>1, ZenonT(30) DEF Init, Call
  <2> QED
    BY <1>1, <2>1, <2>2, <2>3, Zenon DEF Init, Types
<1>3. CompleteIsFinal /\ FoundIsNext /\ OneStreamContinues
  BY DEF Init, CompleteIsFinal, FoundIsNext, OneStreamContinues
<1>4. Received
  <2>1. Len(client.received) = 0
    BY <1>1
  <2> QED
    BY <2>1 DEF Received
<1> QED
  BY <1>2, <1>3, <1>4 DEF IInv

LEMMA NextStep == IInv /\ [Next]_vars => IInv'
<1> SUFFICES ASSUME IInv, [Next]_vars
             PROVE  IInv'
  BY ZenonT(30)
<1>1. CASE UNCHANGED vars
  BY <1>1, ZenonT(30) DEF vars, IInv, Types, CompleteIsFinal, FoundIsNext, OneStreamContinues, Received, IsNext, Last
<1>2. ASSUME NEW p \in Pulse, SaveJetDropData(p) \/ CompletePulse(p)
      PROVE  IInv'
  BY <1>2, DatabaseStep
<1>3. ASSUME NEW s \in Stream, GetNextPulse(s) \/ Serve(s) \/ Receive(s) \/ Break(s)
      PROVE  IInv'
  BY <1>3, GetNextPulseStep, FindStep, CountStep, CheckStep, SendStep, ReceiveStep, BreakStep DEF Serve
<1> QED
  BY <1>1, <1>2, <1>3 DEF Next
-----------------------------------------------------------------------------
(***************************************************************************)
(* However many streams break and are opened again, and whatever           *)
(* statements fail, the client gets the pulses after PulseNumberFrom in    *)
(* order, none twice and none left out.                                    *)
(***************************************************************************)
THEOREM ChainIsReceived == Spec => []ReceivedInChain
<1>1. IInv => ReceivedInChain
  <2> SUFFICES ASSUME IInv, NEW i \in DOMAIN client.received
               PROVE  /\ client.received[i].pulseNumber = client.from + i
                      /\ client.received[i].prevPulseNumber = client.from + i - 1
    BY DEF ReceivedInChain
  <2>1. i \in 1 .. Len(client.received) /\ client.from \in Nat
    BY DEF IInv, Types
  <2> QED
    BY <2>1 DEF IInv, Received, IsNext
<1> QED
  BY InitIInv, NextStep, <1>1, PTL DEF Spec

(***************************************************************************)
(* An amount the client receives is that of the complete pulse, although   *)
(* Find and Count are two statements and records are saved between them.   *)
(***************************************************************************)
THEOREM FinalAmounts == Spec => []AmountIsFinal
<1>1. IInv => AmountIsFinal
  <2> SUFFICES ASSUME IInv, NEW i \in DOMAIN client.received
               PROVE  client.received[i].recordAmount \in
                        {matching[client.received[i].pulseNumber], matching[client.received[i].pulseNumber] + 1}
    BY DEF AmountIsFinal
  <2>1. i \in 1 .. Len(client.received)
    BY DEF IInv, Types
  <2> QED
    BY <2>1 DEF IInv, Received, IsNext
<1> QED
  BY InitIInv, NextStep, <1>1, PTL DEF Spec
-----------------------------------------------------------------------------
(***************************************************************************)
(* The ranges that were reloaded: deleteExpired, and what Add may rely on. *)
(***************************************************************************)
Entry == [range : PulseRange, age : Nat]

\* A set of numbers has a least member.
LEMMA LeastMember ==
  ASSUME NEW T \in SUBSET Nat, T # {}
  PROVE  \E m \in T : \A n \in T : m <= n
<1>1. \E m \in T : \A n \in T : ~ (<<n, m>> \in OpToRel(<, Nat))
  BY NatLessThanWellFounded, WFMin, Zenon
<1>2. OpToRel(<, Nat) = {ss \in Nat \X Nat : ss[1] < ss[2]}
  BY Zenon DEF OpToRel
<1>3. PICK m \in T : \A n \in T : ~ (<<n, m>> \in {ss \in Nat \X Nat : ss[1] < ss[2]})
  BY <1>1, <1>2, Zenon
<1>4. ASSUME NEW n \in T PROVE m <= n
  <2>1. ~ (<<n, m>> \in {ss \in Nat \X Nat : ss[1] < ss[2]})
    BY <1>3
  <2>2. ~ (n < m)
    BY <2>1
  <2> QED
    BY <2>2
<1> QED
  BY <1>4

\* A set that has 0, and with a number the next one, has all the numbers up to n.
LEMMA UpTo ==
  ASSUME NEW n \in Nat, NEW S, 0 \in S, \A i \in 1 .. n : i - 1 \in S => i \in S
  PROVE  0 .. n \subseteq S
<1> DEFINE T == {i \in 0 .. n : i \notin S}
<1> SUFFICES ASSUME T # {} PROVE FALSE
  OBVIOUS
<1>1. PICK m \in T : \A i \in T : m <= i
  <2>1. T \in SUBSET Nat
    OBVIOUS
  <2> HIDE DEF T
  <2> QED
    BY <2>1, LeastMember
<1>2. m \in 1 .. n /\ m - 1 \in 0 .. n /\ m - 1 < m
  BY <1>1
<1>3. m - 1 \in S
  BY <1>1, <1>2
<1> QED
  BY <1>1, <1>2, <1>3
-----------------------------------------------------------------------------
\* One turn of the loop: the slice stays one of entries, and only an expired entry goes.
LEMMA TurnKeeps ==
  ASSUME NEW s \in Seq(Entry), NEW i \in Nat \ {0}
  PROVE  /\ DeleteAt(s, i) \in Seq(Entry)
         /\ \A k \in DOMAIN s : ~IsExpired(s[k]) => \E j \in DOMAIN DeleteAt(s, i) : DeleteAt(s, i)[j] = s[k]
<1> DEFINE n == Len(s)
           d == [j \in 1 .. n - 1 |-> IF j = i THEN s[n] ELSE s[j]]
<1>1. n \in Nat /\ DOMAIN s = 1 .. n /\ \A k \in 1 .. n : s[k] \in Entry
  OBVIOUS
<1>2. CASE i <= n /\ IsExpired(s[i])
  <2>1. DeleteAt(s, i) = d
    BY <1>2 DEF DeleteAt
  <2>0. n \in Nat /\ i <= n
    BY <1>1, <1>2
  <2>2. n - 1 \in Nat /\ n \in 1 .. n /\ \A j \in 1 .. n - 1 : j \in 1 .. n
    BY <2>0
  <2>3. \A j \in 1 .. n - 1 : (IF j = i THEN s[n] ELSE s[j]) \in Entry
    BY <1>1, <2>2
  <2>4. d \in Seq(Entry) /\ DOMAIN d = 1 .. n - 1
    BY <2>2, <2>3
  <2>5. ASSUME NEW k \in 1 .. n, ~IsExpired(s[k])
        PROVE  \E j \in 1 .. n - 1 : d[j] = s[k]
    <3>1. k # i
      BY <1>2, <2>5
    <3>2. CASE k = n
      <4>1. i \in 1 .. n - 1
        BY <2>0, <3>1, <3>2
      <4> QED
        BY <3>2, <4>1
    <3>3. CASE k # n
      <4>1. k \in 1 .. n - 1
        BY <2>0, <3>3
      <4> QED
        BY <3>1, <4>1
    <3> QED
      BY <3>2, <3>3
  <2> QED
    BY <1>1, <2>1, <2>4, <2>5, Zenon
<1>3. CASE ~ (i <= n /\ IsExpired(s[i]))
  BY <1>3 DEF DeleteAt
<1> QED
  BY <1>2, <1>3

\* The turns of the loop on a slice, as a function of how many there were.
Turns(pool, f) ==
  f = [i \in 0 .. Len(pool) |-> IF i = 0 THEN pool ELSE DeleteAt(f[i - 1], i)]

\* The loop has its turns: the definition of DeleteExpired, which is recursive, means something.
LEMMA TurnsExist ==
  ASSUME NEW pool \in Seq(Entry)
  PROVE  \E f : Turns(pool, f)
<1> DEFINE N == Len(pool)
           Part(n, f) == f[0] = pool /\ \A i \in 1 .. n : f[i] = DeleteAt(f[i - 1], i)
           S == {n \in 0 .. N : \E f \in [0 .. n -> Seq(Entry)] : Part(n, f)}
<1>1. N \in Nat
  OBVIOUS
<1>2. 0 \in S
  <2> DEFINE f == [i \in 0 .. 0 |-> pool]
  <2>1. f \in [0 .. 0 -> Seq(Entry)] /\ f[0] = pool /\ 1 .. 0 = {}
    OBVIOUS
  <2> HIDE DEF f
  <2>2. Part(0, f)
    BY <2>1
  <2> QED
    BY <1>1, <2>1, <2>2
<1>3. ASSUME NEW n \in 1 .. N, n - 1 \in S
      PROVE  n \in S
  <2>1. PICK g \in [0 .. n - 1 -> Seq(Entry)] : Part(n - 1, g)
    BY <1>3, ZenonT(30)
  <2> DEFINE f == [i \in 0 .. n |-> IF i = n THEN DeleteAt(g[n - 1], n) ELSE g[i]]
  <2>2. n \in Nat \ {0} /\ n - 1 \in 0 .. n - 1 /\ \A i \in 0 .. n : i = n \/ i \in 0 .. n - 1
    BY <1>1
  <2>3. DeleteAt(g[n - 1], n) \in Seq(Entry)
    BY <2>1, <2>2, TurnKeeps
  <2>4. f \in [0 .. n -> Seq(Entry)]
    BY <2>1, <2>2, <2>3
  <2>5. \A i \in 0 .. n - 1 : f[i] = g[i]
    BY <2>2
  <2>6. f[n] = DeleteAt(g[n - 1], n)
    BY <2>2
  <2> HIDE DEF f
  <2>7. f[0] = pool
    BY <2>1, <2>2, <2>5
  <2>8. ASSUME NEW i \in 1 .. n PROVE f[i] = DeleteAt(f[i - 1], i)
    <3>1. i - 1 \in 0 .. n - 1
      BY <2>2
    <3>2. CASE i = n
      BY <2>5, <2>6, <3>1, <3>2
    <3>3. CASE i # n
      <4>1. i \in 1 .. n - 1 /\ i \in 0 .. n - 1
        BY <2>2, <3>3
      <4>2. g[i] = DeleteAt(g[i - 1], i)
        BY <2>1, <4>1
      <4> QED
        BY <2>5, <3>1, <4>1, <4>2
    <3> QED
      BY <3>2, <3>3
  <2>9. Part(n, f)
    BY <2>7, <2>8
  <2>10. n \in 0 .. N
    BY <1>1
  <2> HIDE DEF Part
  <2> QED
    BY <2>4, <2>9, <2>10
<1>4. N \in S
  <2> HIDE DEF S
  <2>1. 0 .. N \subseteq S
    BY <1>1, <1>2, <1>3, UpTo, Zenon
  <2> QED
    BY <1>1, <2>1
<1>5. PICK f \in [0 .. N -> Seq(Entry)] : Part(N, f)
  BY <1>4
<1>6. \A i \in 0 .. N : f[i] = IF i = 0 THEN pool ELSE DeleteAt(f[i - 1], i)
  <2>1. \A i \in 0 .. N : i = 0 \/ i \in 1 .. N
    BY <1>1
  <2> QED
    BY <1>5, <2>1
<1>7. f = [i \in 0 .. N |-> IF i = 0 THEN pool ELSE DeleteAt(f[i - 1], i)]
  BY <1>5, <1>6
<1> QED
  BY <1>7 DEF Turns

\* DeleteExpired is where its turns end.
LEMMA DeleteExpiredTurns ==
  ASSUME NEW pool \in Seq(Entry)
  PROVE  \E f : Turns(pool, f) /\ DeleteExpired(pool) = f[Len(pool)]
<1> DEFINE g == CHOOSE f : Turns(pool, f)
<1>1. Turns(pool, g)
  BY TurnsExist
<1>2. DeleteExpired(pool) = g[Len(pool)]
  BY DEF DeleteExpired, Turns
<1> QED
  BY <1>1, <1>2, Zenon
-----------------------------------------------------------------------------
\* What a pass of deleteExpired leaves are entries, and every entry that has not expired is left.
LEMMA PassKeeps ==
  ASSUME NEW pool \in Seq(Entry)
  PROVE  /\ DeleteExpired(pool) \in Seq(Entry)
         /\ \A k \in DOMAIN pool : ~IsExpired(pool[k]) =>
              \E j \in DOMAIN DeleteExpired(pool) : DeleteExpired(pool)[j] = pool[k]
<1>1. PICK f : Turns(pool, f) /\ DeleteExpired(pool) = f[Len(pool)]
  BY DeleteExpiredTurns
<1> DEFINE N == Len(pool)
           Kept(s) == \A k \in DOMAIN pool : ~IsExpired(pool[k]) => \E j \in DOMAIN s : s[j] = pool[k]
           S == {i \in 0 .. N : f[i] \in Seq(Entry) /\ Kept(f[i])}
<1>2. N \in Nat
  OBVIOUS
<1>3. f[0] = pool /\ \A i \in 1 .. N : f[i] = DeleteAt(f[i - 1], i)
  BY <1>1, <1>2 DEF Turns
<1>4. 0 \in S
  BY <1>2, <1>3
<1>5. ASSUME NEW i \in 1 .. N, i - 1 \in S
      PROVE  i \in S
  <2> DEFINE s == f[i - 1]
  <2>1. s \in Seq(Entry) /\ Kept(s)
    BY <1>5
  <2>2. i \in Nat \ {0} /\ i \in 0 .. N
    BY <1>2
  <2>3. f[i] = DeleteAt(s, i)
    BY <1>3, ZenonT(30)
  <2> HIDE DEF s
  <2>4. /\ DeleteAt(s, i) \in Seq(Entry)
        /\ \A k \in DOMAIN s : ~IsExpired(s[k]) => \E j \in DOMAIN DeleteAt(s, i) : DeleteAt(s, i)[j] = s[k]
    BY <2>1, <2>2, TurnKeeps
  <2>5. Kept(DeleteAt(s, i))
    BY <2>1, <2>4, Zenon
  <2> QED
    BY <2>2, <2>3, <2>4, <2>5, ZenonT(30)
<1>6. N \in S
  <2> HIDE DEF S
  <2>1. 0 .. N \subseteq S
    BY <1>2, <1>4, <1>5, UpTo, Zenon
  <2> QED
    BY <1>2, <2>1
<1> QED
  BY <1>1, <1>6

\* A turn that deletes an expired entry leaves one fewer, and puts at most one under its own index.
LEMMA TurnCounts ==
  ASSUME NEW s \in Seq(Entry), NEW i \in Nat \ {0}, i <= Len(s), IsExpired(s[i])
  PROVE  /\ \E x \in Expired(s) : Expired(DeleteAt(s, i)) \subseteq Expired(s) \ {x}
         /\ Expired(DeleteAt(s, i)) \cap (1 .. i) \subseteq (Expired(s) \cap (1 .. i - 1)) \cup {i}
         /\ Len(DeleteAt(s, i)) = Len(s) - 1
<1> DEFINE n == Len(s)
           d == [j \in 1 .. n - 1 |-> IF j = i THEN s[n] ELSE s[j]]
<1>1. n \in Nat /\ i <= n /\ n \in 1 .. n /\ i \in 1 .. n
  OBVIOUS
<1>2. DOMAIN s = 1 .. n
  OBVIOUS
<1>3. DeleteAt(s, i) = d
  BY DEF DeleteAt
<1>4. DOMAIN d = 1 .. n - 1 /\ Len(d) = n - 1
  <2>1. n - 1 \in Nat
    BY <1>1
  <2>2. \A j \in 1 .. n - 1 : j \in 1 .. n
    BY <1>1
  <2>3. \A j \in 1 .. n - 1 : (IF j = i THEN s[n] ELSE s[j]) \in Entry
    BY <1>1, <2>2
  <2>4. d \in Seq(Entry)
    BY <2>1, <2>3
  <2> QED
    BY <2>1, <2>4
<1>5. \A j \in 1 .. n - 1 : j # i => d[j] = s[j]
  OBVIOUS
<1>6. i \in 1 .. n - 1 => d[i] = s[n]
  OBVIOUS
<1> HIDE DEF d, n
<1>7. i \in Expired(s)
  BY <1>1, <1>2 DEF Expired
<1>8. \A j \in Expired(d) : j # i => j \in Expired(s) /\ j # n
  <2> SUFFICES ASSUME NEW j \in Expired(d), j # i PROVE j \in Expired(s) /\ j # n
    OBVIOUS
  <2>1. j \in 1 .. n - 1 /\ IsExpired(d[j])
    BY <1>4 DEF Expired
  <2>2. j \in 1 .. n /\ j # n
    BY <1>1, <2>1
  <2>3. IsExpired(s[j])
    BY <1>5, <2>1
  <2> QED
    BY <1>2, <2>2, <2>3 DEF Expired
<1>9. \E x \in Expired(s) : Expired(d) \subseteq Expired(s) \ {x}
  <2>1. CASE i \in Expired(d)
    <3>1. i \in 1 .. n - 1 /\ IsExpired(d[i])
      BY <1>4, <2>1 DEF Expired
    <3>2. n \in Expired(s)
      BY <1>1, <1>2, <1>6, <3>1 DEF Expired
    <3>3. i # n
      BY <1>1, <3>1
    <3> QED
      BY <1>7, <1>8, <3>2, <3>3, Zenon
  <2>2. CASE i \notin Expired(d)
    BY <1>7, <1>8, <2>2, Zenon
  <2> QED
    BY <2>1, <2>2
<1>10. Expired(d) \cap (1 .. i) \subseteq (Expired(s) \cap (1 .. i - 1)) \cup {i}
  <2> SUFFICES ASSUME NEW j \in Expired(d), j \in 1 .. i, j # i
               PROVE  j \in Expired(s) /\ j \in 1 .. i - 1
    OBVIOUS
  <2> QED
    BY <1>8
<1> QED
  BY <1>3, <1>4, <1>9, <1>10 DEF n

\* The expired entries of a slice can be counted.
LEMMA ExpiredFinite ==
  ASSUME NEW s \in Seq(Entry)
  PROVE  IsFiniteSet(Expired(s)) /\ Cardinality(Expired(s)) \in Nat
<1>1. IsFiniteSet(1 .. Len(s))
  BY FS_Interval
<1>2. Expired(s) \subseteq 1 .. Len(s)
  BY DEF Expired
<1> QED
  BY <1>1, <1>2, FS_Subset, FS_CardinalityType

(***************************************************************************)
(* A pass leaves at most half of the expired entries: behind each turn,    *)
(* those that are left, and once more those of them that the loop has gone *)
(* past, are no more than there were.                                      *)
(***************************************************************************)
LEMMA PassHalves ==
  ASSUME NEW pool \in Seq(Entry)
  PROVE  2 * Cardinality(Expired(DeleteExpired(pool))) <= Cardinality(Expired(pool))
<1>1. PICK f : Turns(pool, f) /\ DeleteExpired(pool) = f[Len(pool)]
  BY DeleteExpiredTurns
<1> DEFINE N == Len(pool)
           E(s) == Expired(s)
           Passed(s, i) == Expired(s) \cap (1 .. i)
           Few(s, i) == Cardinality(E(s)) + Cardinality(Passed(s, i)) <= Cardinality(E(pool))
           S == {i \in 0 .. N : f[i] \in Seq(Entry) /\ Len(f[i]) <= N /\ Few(f[i], i)}
<1>2. N \in Nat
  OBVIOUS
<1>3. f[0] = pool /\ \A i \in 1 .. N : f[i] = DeleteAt(f[i - 1], i)
  BY <1>1, <1>2 DEF Turns
<1>4. ASSUME NEW s \in Seq(Entry), NEW i \in Nat
      PROVE  /\ IsFiniteSet(E(s)) /\ Cardinality(E(s)) \in Nat
             /\ IsFiniteSet(Passed(s, i)) /\ Cardinality(Passed(s, i)) \in Nat
  <2>1. IsFiniteSet(E(s)) /\ Cardinality(E(s)) \in Nat
    BY ExpiredFinite
  <2>2. Passed(s, i) \subseteq E(s)
    OBVIOUS
  <2> QED
    BY <2>1, <2>2, FS_Subset, FS_CardinalityType
<1>5. 0 \in S
  <2>1. Passed(pool, 0) = {}
    OBVIOUS
  <2>2. Cardinality(Passed(pool, 0)) = 0
    BY <2>1, FS_EmptySet
  <2>3. Cardinality(E(pool)) \in Nat
    BY <1>4, Zenon
  <2>4. Few(pool, 0)
    BY <2>2, <2>3
  <2> QED
    BY <1>2, <1>3, <2>4
<1>6. ASSUME NEW i \in 1 .. N, i - 1 \in S
      PROVE  i \in S
  <2> DEFINE s == f[i - 1]
  <2>1. s \in Seq(Entry) /\ Len(s) <= N /\ Few(s, i - 1)
    BY <1>6
  <2>2. i \in Nat \ {0} /\ i \in 0 .. N /\ i - 1 \in Nat
    BY <1>2
  <2>3. f[i] = DeleteAt(s, i)
    BY <1>3
  <2> DEFINE d == DeleteAt(s, i)
  <2> HIDE DEF s
  <2>4. d \in Seq(Entry)
    BY <2>1, <2>2, TurnKeeps
  <2>5. CASE i <= Len(s) /\ IsExpired(s[i])
    <3>1. PICK x \in E(s) : E(d) \subseteq E(s) \ {x}
      BY <2>1, <2>2, <2>5, TurnCounts
    <3>2. Passed(d, i) \subseteq Passed(s, i - 1) \cup {i} /\ Len(d) = Len(s) - 1
      BY <2>1, <2>2, <2>5, TurnCounts, ZenonT(30)
    <3> HIDE DEF d, E, Passed
    <3>3. /\ IsFiniteSet(E(s)) /\ Cardinality(E(s)) \in Nat
          /\ IsFiniteSet(Passed(s, i - 1)) /\ Cardinality(Passed(s, i - 1)) \in Nat
          /\ Cardinality(E(d)) \in Nat /\ Cardinality(Passed(d, i)) \in Nat
      BY <1>4, <2>1, <2>2, <2>4
    <3>4. Cardinality(E(d)) <= Cardinality(E(s)) - 1
      <4>1. IsFiniteSet(E(s) \ {x}) /\ Cardinality(E(s) \ {x}) = Cardinality(E(s)) - 1
        BY <3>1, <3>3, FS_RemoveElement
      <4>2. Cardinality(E(d)) <= Cardinality(E(s) \ {x})
        BY <3>1, <4>1, FS_Subset, ZenonT(30)
      <4> QED
        BY <4>1, <4>2
    <3>5. Cardinality(Passed(d, i)) <= Cardinality(Passed(s, i - 1)) + 1
      <4> DEFINE P == Passed(s, i - 1) \cup {i}
      <4>1. IsFiniteSet(P) /\ (Cardinality(P) = Cardinality(Passed(s, i - 1)) \/ Cardinality(P) = Cardinality(Passed(s, i - 1)) + 1)
        BY <3>3, FS_AddElement, Zenon
      <4>2. Cardinality(Passed(d, i)) <= Cardinality(P)
        BY <3>2, <4>1, FS_Subset
      <4> HIDE DEF P
      <4> QED
        BY <3>3, <4>1, <4>2
    <3>6. Cardinality(E(pool)) \in Nat
      BY <1>4
    <3>7. Few(d, i)
      BY <2>1, <3>3, <3>4, <3>5, <3>6
    <3>8. Len(d) <= N
      BY <1>2, <2>1, <3>2
    <3> HIDE DEF Few
    <3> QED
      BY <2>2, <2>3, <2>4, <3>7, <3>8, ZenonT(30) DEF d
  <2>6. CASE ~ (i <= Len(s) /\ IsExpired(s[i]))
    <3>1. d = s
      BY <2>6 DEF DeleteAt
    <3>2. i \notin Expired(s)
      BY <2>1, <2>6 DEF Expired
    <3>3. Passed(s, i) = Passed(s, i - 1)
      <4>1. \A j \in 1 .. i : j = i \/ j \in 1 .. i - 1
        BY <2>2
      <4>2. \A j \in 1 .. i - 1 : j \in 1 .. i
        BY <2>2
      <4> QED
        BY <3>2, <4>1, <4>2
    <3> QED
      BY <2>1, <2>2, <2>3, <3>1, <3>3, Zenon
  <2> QED
    BY <2>5, <2>6
<1>7. N \in S
  <2> HIDE DEF S
  <2>1. 0 .. N \subseteq S
    BY <1>2, <1>5, <1>6, UpTo, Zenon
  <2> QED
    BY <1>2, <2>1
<1> DEFINE left == f[N]
<1>8. left \in Seq(Entry) /\ Len(left) <= N /\ Few(left, N)
  BY <1>7
<1>9. DeleteExpired(pool) = left
  BY <1>1
<1> HIDE DEF left
<1>10. Passed(left, N) = E(left)
  BY <1>2, <1>8 DEF Expired
<1>11. Cardinality(E(left)) \in Nat /\ Cardinality(E(pool)) \in Nat
  BY <1>2, <1>4, <1>8, Zenon
<1>12. Cardinality(E(left)) + Cardinality(E(left)) <= Cardinality(E(pool))
  BY <1>8, <1>10, Zenon
<1> HIDE DEF N
<1>13. 2 * Cardinality(E(left)) <= Cardinality(E(pool))
  BY <1>11, <1>12
<1> QED
  BY <1>9, <1>13
-----------------------------------------------------------------------------
(***************************************************************************)
(* The pool holds, for every range that Add let through no longer than ttl *)
(* ago, an entry of that age.                                              *)
(***************************************************************************)
PoolInv ==
  /\ missedDataPool \in Seq(Entry)
  /\ sinceReload \in [PulseRange -> Nat]
  /\ \A s \in PulseRange : sinceReload[s] <= TTL =>
       \E i \in DOMAIN missedDataPool : missedDataPool[i] = [range |-> s, age |-> sinceReload[s]]

\* An entry with another age is an entry.
LEMMA EntryAged ==
  ASSUME NEW e \in Entry, NEW a \in Nat
  PROVE  /\ [e EXCEPT !.age = a] = [range |-> e.range, age |-> a]
         /\ [e EXCEPT !.age = a] \in Entry
BY DEF Entry

\* Every step of the program keeps it.
LEMMA PoolStep == PoolInv /\ [PoolNext]_poolVars => PoolInv'
<1> SUFFICES ASSUME PoolInv, [PoolNext]_poolVars PROVE PoolInv'
  BY ZenonT(30)
<1> USE MissedDataAssumption
<1>0. /\ missedDataPool \in Seq(Entry)
      /\ sinceReload \in [PulseRange -> Nat]
      /\ \A s \in PulseRange : sinceReload[s] <= TTL =>
           \E i \in DOMAIN missedDataPool : missedDataPool[i] = [range |-> s, age |-> sinceReload[s]]
  BY ZenonT(30) DEF PoolInv
<1>1. ASSUME NEW r \in PulseRange, Add(r) PROVE PoolInv'
  <2> DEFINE pool == missedDataPool
             e == [range |-> r, age |-> 0]
  <2>1. e \in Entry
    BY DEF Entry
  <2>2. missedDataPool' = Append(pool, e) /\ sinceReload' = [sinceReload EXCEPT ![r] = 0]
    BY <1>1 DEF Add, MissedDataEntry
  <2>3. missedDataPool' \in Seq(Entry)
    BY <1>0, <2>1, <2>2
  <2>4. sinceReload' \in [PulseRange -> Nat]
    BY <1>0, <2>2, ZenonT(30)
  <2>5. ASSUME NEW s \in PulseRange, sinceReload'[s] <= TTL
        PROVE  \E i \in DOMAIN missedDataPool' : missedDataPool'[i] = [range |-> s, age |-> sinceReload'[s]]
    <3>1. CASE s = r
      <4>1. sinceReload'[s] = 0
        BY <1>0, <2>2, <3>1, ZenonT(30)
      <4> HIDE DEF e
      <4>2. Len(pool) + 1 \in DOMAIN Append(pool, e) /\ Append(pool, e)[Len(pool) + 1] = e
        BY <1>0, <2>1
      <4> QED
        BY <2>2, <3>1, <4>1, <4>2, ZenonT(30) DEF e
    <3>2. CASE s # r
      <4>1. sinceReload'[s] = sinceReload[s]
        BY <1>0, <2>2, <3>2
      <4>2. PICK i \in DOMAIN pool : pool[i] = [range |-> s, age |-> sinceReload[s]]
        BY <1>0, <2>5, <4>1, ZenonT(30)
      <4> HIDE DEF e
      <4>3. i \in DOMAIN Append(pool, e) /\ Append(pool, e)[i] = pool[i]
        BY <1>0, <2>1
      <4> QED
        BY <2>2, <4>1, <4>2, <4>3, ZenonT(30)
    <3> QED
      BY <3>1, <3>2
  <2> QED
    BY <2>3, <2>4, <2>5 DEF PoolInv
<1>2. CASE Clean
  <2>1. missedDataPool' = DeleteExpired(missedDataPool) /\ sinceReload' = sinceReload
    BY <1>2, ZenonT(30) DEF Clean
  <2>2. missedDataPool' \in Seq(Entry)
    BY <1>0, <2>1, PassKeeps, ZenonT(30)
  <2>3. ASSUME NEW s \in PulseRange, sinceReload'[s] <= TTL
        PROVE  \E i \in DOMAIN missedDataPool' : missedDataPool'[i] = [range |-> s, age |-> sinceReload'[s]]
    <3>1. PICK k \in DOMAIN missedDataPool : missedDataPool[k] = [range |-> s, age |-> sinceReload[s]]
      BY <1>0, <2>1, <2>3, ZenonT(30)
    <3>2. ~IsExpired(missedDataPool[k])
      BY <1>0, <2>1, <2>3, <3>1 DEF IsExpired
    <3>3. \E j \in DOMAIN DeleteExpired(missedDataPool) : DeleteExpired(missedDataPool)[j] = missedDataPool[k]
      BY <1>0, <3>2, PassKeeps, Zenon
    <3> QED
      BY <2>1, <3>1, <3>3
  <2> QED
    BY <1>0, <2>1, <2>2, <2>3 DEF PoolInv
<1>3. CASE Clock
  <2> DEFINE pool == missedDataPool
  <2>1. /\ missedDataPool' = [i \in DOMAIN pool |-> [pool[i] EXCEPT !.age = Older(@)]]
        /\ sinceReload' = [r \in PulseRange |-> Older(sinceReload[r])]
    BY <1>3 DEF Clock
  <2>2. \A a \in Nat : Older(a) \in Nat /\ (Older(a) <= TTL => a <= TTL)
    BY DEF Older
  <2>3. ASSUME NEW i \in DOMAIN pool
        PROVE  /\ [pool[i] EXCEPT !.age = Older(@)] = [range |-> pool[i].range, age |-> Older(pool[i].age)]
               /\ [pool[i] EXCEPT !.age = Older(@)] \in Entry
    <3>1. pool[i] \in Entry
      BY <1>0
    <3>2. Older(pool[i].age) \in Nat
      BY <2>2, <3>1 DEF Entry
    <3> QED
      BY <3>1, <3>2, EntryAged, ZenonT(30)
  <2>4. \A i \in DOMAIN pool : [pool[i] EXCEPT !.age = Older(@)] \in Entry
    BY <2>3, Zenon
  <2>5. missedDataPool' \in Seq(Entry) /\ DOMAIN missedDataPool' = DOMAIN pool
    <3>1. DOMAIN pool = 1 .. Len(pool) /\ Len(pool) \in Nat
      BY <1>0
    <3> QED
      BY <2>1, <2>4, <3>1
  <2>6. sinceReload' \in [PulseRange -> Nat]
    BY <1>0, <2>1, <2>2, ZenonT(30)
  <2>7. ASSUME NEW s \in PulseRange, sinceReload'[s] <= TTL
        PROVE  \E i \in DOMAIN missedDataPool' : missedDataPool'[i] = [range |-> s, age |-> sinceReload'[s]]
    <3>1. sinceReload'[s] = Older(sinceReload[s]) /\ sinceReload[s] <= TTL
      BY <1>0, <2>1, <2>2, <2>7, ZenonT(30)
    <3>2. PICK i \in DOMAIN pool : pool[i] = [range |-> s, age |-> sinceReload[s]]
      BY <1>0, <3>1, ZenonT(30)
    <3>3. pool[i].range = s /\ pool[i].age = sinceReload[s]
      BY <3>2
    <3>4. missedDataPool'[i] = [range |-> s, age |-> sinceReload'[s]]
      BY <2>1, <2>3, <3>1, <3>3, ZenonT(30)
    <3> QED
      BY <2>5, <3>4
  <2> QED
    BY <2>5, <2>6, <2>7 DEF PoolInv
<1>4. CASE UNCHANGED <<missedDataPool, sinceReload>>
  BY <1>0, <1>4 DEF PoolInv
<1> QED
  BY <1>1, <1>2, <1>3, <1>4 DEF PoolNext, CallPoolStop, TakeStop, AnswerStop, poolVars

\* The invariant holds of every state the program can be in.
LEMMA PoolInvariance == PoolSpec => []PoolInv
<1>1. PoolInit => PoolInv
  <2> SUFFICES ASSUME PoolInit PROVE PoolInv
    OBVIOUS
  <2>1. missedDataPool \in Seq(Entry)
    BY DEF PoolInit
  <2>2. sinceReload \in [PulseRange -> Nat] /\ \A s \in PulseRange : ~ (sinceReload[s] <= TTL)
    BY MissedDataAssumption DEF PoolInit
  <2> QED
    BY <2>1, <2>2 DEF PoolInv
<1> QED
  BY <1>1, PoolStep, PTL DEF PoolSpec
-----------------------------------------------------------------------------
(***************************************************************************)
(* For any ranges, ttl and period of the cleaning, Add lets no range       *)
(* through before ttl has passed since it let through one that covers it.  *)
(***************************************************************************)
THEOREM NoEarlyReload == PoolSpec => NotReloadedWithinTTL
<1>1. ASSUME PoolInv, NEW r \in PulseRange, Add(r), NEW s \in PulseRange, Covers(s, r)
      PROVE  sinceReload[s] > TTL
  <2>1. sinceReload[s] \in Nat /\ TTL \in Nat
    BY <1>1, MissedDataAssumption DEF PoolInv
  <2>2. ASSUME sinceReload[s] <= TTL PROVE FALSE
    <3>1. PICK i \in DOMAIN missedDataPool : missedDataPool[i] = [range |-> s, age |-> sinceReload[s]]
      BY <1>1, <2>2, ZenonT(30) DEF PoolInv
    <3>2. missedDataPool[i].range = s
      BY <3>1
    <3>3. Covers(missedDataPool[i].range, r)
      BY <1>1, <3>2
    <3> QED
      BY <1>1, <3>3, ZenonT(30) DEF Add
  <2> QED
    BY <2>1, <2>2
<1>2. PoolInv => [\A r \in PulseRange : Add(r) => \A s \in PulseRange : Covers(s, r) => sinceReload[s] > TTL]_poolVars
  BY <1>1
<1> QED
  BY <1>2, PoolInvariance, PTL DEF NotReloadedWithinTTL

(***************************************************************************)
(* On a slice of any length, one pass of deleteExpired, which does not     *)
(* look at what it moved, leaves at most half of the expired entries.      *)
(***************************************************************************)
THEOREM EveryPassHalves == PoolSpec => PassHalvesExpired
<1>1. ASSUME PoolInv, Clean
      PROVE  2 * Cardinality(Expired(missedDataPool')) <= Cardinality(Expired(missedDataPool))
  <2>1. missedDataPool \in Seq(Entry) /\ missedDataPool' = DeleteExpired(missedDataPool)
    BY <1>1 DEF PoolInv, Clean
  <2> QED
    BY <2>1, PassHalves, ZenonT(30)
<1>2. PoolInv => [Clean => 2 * Cardinality(Expired(missedDataPool')) <= Cardinality(Expired(missedDataPool))]_poolVars
  BY <1>1, ZenonT(30)
<1> QED
  BY <1>2, PoolInvariance, PTL DEF PassHalvesExpired
-----------------------------------------------------------------------------
(***************************************************************************)
(* The processor and the program that stops.                               *)
(***************************************************************************)
(***************************************************************************)
(* Who holds taskCCloseMu: the dispatcher, exactly from before its send    *)
(* until after it; whoever closes taskC does so with the lock free.        *)
(***************************************************************************)
LockInv ==
  /\ taskC = "open" <=> active
  /\ dispatcher = "send" => active
  /\ taskCCloseMu = "dispatcher" <=> dispatcher \in {"send", "unlock"}

\* Who holds a jet drop: nobody receives one while holding another.
HoldInv ==
  /\ dispatcher \in {"lock", "send"} => dispatched \in JetDrop
  /\ dispatcher = "receive" => dispatched = None
  /\ dispatcher = "unlock" /\ active => dispatched = None
  /\ \A w \in Worker : worker[w] \in {"process", "resend"} => task[w] \in JetDrop
  /\ \A w \in Worker : worker[w] = "receive" => task[w] = None

\* The inductive invariant of the processor.
ProcessorInv == TypeOK /\ LockInv /\ HoldInv /\ NothingForgotten

LEMMA TypeStep == TypeOK /\ HoldInv /\ [ProcessorNext]_processorVars => TypeOK'
<1> USE ProcessorAssumption
<1> SUFFICES ASSUME TypeOK /\ HoldInv, [ProcessorNext]_processorVars
             PROVE  TypeOK'
  BY ZenonT(30)
<1>1. CASE CloseJdC
  BY <1>1, ZenonT(30) DEF TypeOK, HoldInv, CloseJdC, dispatchVars, workerVars, closeVars
<1>2. CASE ReceiveJetDrop \/ ReceiveEnd
  BY <1>2 DEF TypeOK, HoldInv, ReceiveJetDrop, ReceiveEnd, workerVars, closeVars
<1>3. CASE Lock
  BY <1>3, ZenonT(30) DEF TypeOK, HoldInv, Lock, workerVars, closeVars
<1>4. ASSUME NEW w \in Worker, SendTask(w)
      PROVE  TypeOK'
  BY <1>4, ZenonT(30) DEF TypeOK, HoldInv, SendTask, closeVars
<1>5. CASE Unlock
  BY <1>5 DEF TypeOK, HoldInv, Unlock, workerVars, closeVars
<1>6. CASE DispatcherCloses
  BY <1>6, Zenon DEF TypeOK, HoldInv, DispatcherCloses, CloseTaskC, workerVars
<1>7. CASE CallStop
  BY <1>7 DEF TypeOK, HoldInv, CallStop, dispatchVars, workerVars, closeVars
<1>8. CASE Stop
  BY <1>8, Zenon DEF TypeOK, HoldInv, Stop, CloseTaskC, dispatchVars, workerVars
<1>9. ASSUME NEW w \in Worker, Process(w)
      PROVE  TypeOK'
  BY <1>9, ZenonT(30) DEF TypeOK, HoldInv, Process, dispatchVars, closeVars
<1>10. ASSUME NEW w \in Worker, ProcessFails(w)
      PROVE  TypeOK'
  BY <1>10 DEF TypeOK, HoldInv, ProcessFails, dispatchVars, closeVars
<1>11. ASSUME NEW w \in Worker, NEW v \in Worker, Resend(w, v)
      PROVE  TypeOK'
  BY <1>11 DEF TypeOK, HoldInv, Resend, dispatchVars, closeVars
<1>12. ASSUME NEW w \in Worker, ResendPanics(w)
      PROVE  TypeOK'
  BY <1>12, ZenonT(30) DEF TypeOK, HoldInv, ResendPanics, dispatchVars, workerVars, closeVars
<1>13. ASSUME NEW w \in Worker, WorkerReturns(w)
      PROVE  TypeOK'
  BY <1>13, ZenonT(30) DEF TypeOK, HoldInv, WorkerReturns, dispatchVars, closeVars
<1>14. CASE UNCHANGED processorVars
  BY <1>14, ZenonT(30) DEF TypeOK, HoldInv, processorVars, dispatchVars, workerVars, closeVars
<1> QED
  BY <1>1, <1>2, <1>3, <1>4, <1>5, <1>6, <1>7, <1>8, <1>9, <1>10, <1>11, <1>12, <1>13, <1>14, ZenonT(30)
     DEF ProcessorNext, DispatcherStep, DispatcherLoop, WorkerStep

LEMMA LockStep == TypeOK /\ LockInv /\ [ProcessorNext]_processorVars => LockInv'
<1> USE ProcessorAssumption
<1> SUFFICES ASSUME TypeOK /\ LockInv, [ProcessorNext]_processorVars
             PROVE  LockInv'
  OBVIOUS
<1>1. CASE CloseJdC
  BY <1>1, ZenonT(30) DEF TypeOK, LockInv, CloseJdC, dispatchVars, workerVars, closeVars
<1>2. CASE ReceiveJetDrop \/ ReceiveEnd
  BY <1>2 DEF TypeOK, LockInv, ReceiveJetDrop, ReceiveEnd, workerVars, closeVars
<1>3. CASE Lock
  BY <1>3, ZenonT(30) DEF TypeOK, LockInv, Lock, workerVars, closeVars
<1>4. ASSUME NEW w \in Worker, SendTask(w)
      PROVE  LockInv'
  BY <1>4 DEF TypeOK, LockInv, SendTask, closeVars
<1>5. CASE Unlock
  BY <1>5 DEF TypeOK, LockInv, Unlock, workerVars, closeVars
<1>6. CASE DispatcherCloses
  BY <1>6, ZenonT(30) DEF TypeOK, LockInv, DispatcherCloses, CloseTaskC, workerVars
<1>7. CASE CallStop
  BY <1>7, ZenonT(30) DEF TypeOK, LockInv, CallStop, dispatchVars, workerVars, closeVars
<1>8. CASE Stop
  BY <1>8, ZenonT(30) DEF TypeOK, LockInv, Stop, CloseTaskC, dispatchVars, workerVars
<1>9. ASSUME NEW w \in Worker, Process(w)
      PROVE  LockInv'
  BY <1>9 DEF TypeOK, LockInv, Process, dispatchVars, closeVars
<1>10. ASSUME NEW w \in Worker, ProcessFails(w)
      PROVE  LockInv'
  BY <1>10, ZenonT(30) DEF TypeOK, LockInv, ProcessFails, dispatchVars, closeVars
<1>11. ASSUME NEW w \in Worker, NEW v \in Worker, Resend(w, v)
      PROVE  LockInv'
  BY <1>11 DEF TypeOK, LockInv, Resend, dispatchVars, closeVars
<1>12. ASSUME NEW w \in Worker, ResendPanics(w)
      PROVE  LockInv'
  BY <1>12, ZenonT(30) DEF TypeOK, LockInv, ResendPanics, dispatchVars, workerVars, closeVars
<1>13. ASSUME NEW w \in Worker, WorkerReturns(w)
      PROVE  LockInv'
  BY <1>13 DEF TypeOK, LockInv, WorkerReturns, dispatchVars, closeVars
<1>14. CASE UNCHANGED processorVars
  BY <1>14 DEF TypeOK, LockInv, processorVars, dispatchVars, workerVars, closeVars
<1> QED
  BY <1>1, <1>2, <1>3, <1>4, <1>5, <1>6, <1>7, <1>8, <1>9, <1>10, <1>11, <1>12, <1>13, <1>14, ZenonT(30)
     DEF ProcessorNext, DispatcherStep, DispatcherLoop, WorkerStep

LEMMA HoldStep == TypeOK /\ LockInv /\ HoldInv /\ [ProcessorNext]_processorVars => HoldInv'
<1> USE ProcessorAssumption
<1> SUFFICES ASSUME TypeOK /\ LockInv /\ HoldInv, [ProcessorNext]_processorVars
             PROVE  HoldInv'
  OBVIOUS
<1>1. CASE CloseJdC
  BY <1>1, ZenonT(30) DEF TypeOK, LockInv, HoldInv, CloseJdC, dispatchVars, workerVars, closeVars
<1>2. CASE ReceiveJetDrop \/ ReceiveEnd
  BY <1>2 DEF TypeOK, LockInv, HoldInv, ReceiveJetDrop, ReceiveEnd, workerVars, closeVars
<1>3. CASE Lock
  BY <1>3, ZenonT(30) DEF TypeOK, LockInv, HoldInv, Lock, workerVars, closeVars
<1>4. ASSUME NEW w \in Worker, SendTask(w)
      PROVE  HoldInv'
  BY <1>4 DEF TypeOK, LockInv, HoldInv, SendTask, closeVars
<1>5. CASE Unlock
  BY <1>5, ZenonT(30) DEF TypeOK, LockInv, HoldInv, Unlock, workerVars, closeVars
<1>6. CASE DispatcherCloses
  BY <1>6, ZenonT(30) DEF TypeOK, LockInv, HoldInv, DispatcherCloses, CloseTaskC, workerVars
<1>7. CASE CallStop
  BY <1>7, ZenonT(30) DEF TypeOK, LockInv, HoldInv, CallStop, dispatchVars, workerVars, closeVars
<1>8. CASE Stop
  BY <1>8, ZenonT(30) DEF TypeOK, LockInv, HoldInv, Stop, CloseTaskC, dispatchVars, workerVars
<1>9. ASSUME NEW w \in Worker, Process(w)
      PROVE  HoldInv'
  BY <1>9, ZenonT(30) DEF TypeOK, LockInv, HoldInv, Process, dispatchVars, closeVars
<1>10. ASSUME NEW w \in Worker, ProcessFails(w)
      PROVE  HoldInv'
  BY <1>10, ZenonT(30) DEF TypeOK, LockInv, HoldInv, ProcessFails, dispatchVars, closeVars
<1>11. ASSUME NEW w \in Worker, NEW v \in Worker, Resend(w, v)
      PROVE  HoldInv'
  BY <1>11, ZenonT(30) DEF TypeOK, LockInv, HoldInv, Resend, dispatchVars, closeVars
<1>12. ASSUME NEW w \in Worker, ResendPanics(w)
      PROVE  HoldInv'
  BY <1>12, ZenonT(30) DEF TypeOK, LockInv, HoldInv, ResendPanics, dispatchVars, workerVars, closeVars
<1>13. ASSUME NEW w \in Worker, WorkerReturns(w)
      PROVE  HoldInv'
  BY <1>13, ZenonT(30) DEF TypeOK, LockInv, HoldInv, WorkerReturns, dispatchVars, closeVars
<1>14. CASE UNCHANGED processorVars
  BY <1>14, ZenonT(30) DEF TypeOK, LockInv, HoldInv, processorVars, dispatchVars, workerVars, closeVars
<1> QED
  BY <1>1, <1>2, <1>3, <1>4, <1>5, <1>6, <1>7, <1>8, <1>9, <1>10, <1>11, <1>12, <1>13, <1>14, ZenonT(30)
     DEF ProcessorNext, DispatcherStep, DispatcherLoop, WorkerStep

LEMMA ForgetStep ==
  TypeOK /\ LockInv /\ HoldInv /\ NothingForgotten /\ [ProcessorNext]_processorVars => NothingForgotten'
<1> USE ProcessorAssumption
<1> SUFFICES ASSUME TypeOK /\ LockInv /\ HoldInv /\ NothingForgotten, [ProcessorNext]_processorVars
             PROVE  NothingForgotten'
  BY ZenonT(30)
<1>1. CASE CloseJdC
  BY <1>1 DEF TypeOK, LockInv, HoldInv, NothingForgotten, Held, CloseJdC, dispatchVars, workerVars, closeVars
<1>2. CASE ReceiveJetDrop \/ ReceiveEnd
  BY <1>2, Zenon DEF TypeOK, LockInv, HoldInv, NothingForgotten, Held,
                     ReceiveJetDrop, ReceiveEnd, workerVars, closeVars
<1>3. CASE Lock
  BY <1>3, ZenonT(30) DEF TypeOK, LockInv, HoldInv, NothingForgotten, Held, Lock, workerVars, closeVars
<1>4. ASSUME NEW w \in Worker, SendTask(w)
      PROVE  NothingForgotten'
  BY <1>4, ZenonT(30) DEF TypeOK, LockInv, HoldInv, NothingForgotten, Held, SendTask, closeVars
<1>5. CASE Unlock
  BY <1>5, ZenonT(30) DEF TypeOK, LockInv, HoldInv, NothingForgotten, Held, Unlock, workerVars, closeVars
<1>6. CASE DispatcherCloses
  BY <1>6, ZenonT(30) DEF TypeOK, LockInv, HoldInv, NothingForgotten, Held, DispatcherCloses, CloseTaskC, workerVars
<1>7. CASE CallStop
  BY <1>7, ZenonT(30) DEF TypeOK, LockInv, HoldInv, NothingForgotten, Held, CallStop, dispatchVars, workerVars, closeVars
<1>8. CASE Stop
  BY <1>8, ZenonT(30) DEF TypeOK, LockInv, HoldInv, NothingForgotten, Held, Stop, CloseTaskC, dispatchVars, workerVars
<1>9. ASSUME NEW w \in Worker, Process(w)
      PROVE  NothingForgotten'
  BY <1>9, ZenonT(30) DEF TypeOK, LockInv, HoldInv, NothingForgotten, Held, Process, dispatchVars, closeVars
<1>10. ASSUME NEW w \in Worker, ProcessFails(w)
      PROVE  NothingForgotten'
  BY <1>10, ZenonT(30) DEF TypeOK, LockInv, HoldInv, NothingForgotten, Held, ProcessFails, dispatchVars, closeVars
<1>11. ASSUME NEW w \in Worker, NEW v \in Worker, Resend(w, v)
      PROVE  NothingForgotten'
  BY <1>11, ZenonT(30) DEF TypeOK, LockInv, HoldInv, NothingForgotten, Held, Resend, dispatchVars, closeVars
<1>12. ASSUME NEW w \in Worker, ResendPanics(w)
      PROVE  NothingForgotten'
  BY <1>12, ZenonT(30) DEF TypeOK, LockInv, HoldInv, NothingForgotten, Held,
               ResendPanics, dispatchVars, workerVars, closeVars
<1>13. ASSUME NEW w \in Worker, WorkerReturns(w)
      PROVE  NothingForgotten'
  BY <1>13, ZenonT(30) DEF TypeOK, LockInv, HoldInv, NothingForgotten, Held, WorkerReturns, dispatchVars, closeVars
<1>14. CASE UNCHANGED processorVars
  BY <1>14 DEF TypeOK, LockInv, HoldInv, NothingForgotten, Held,
               processorVars, dispatchVars, workerVars, closeVars
<1> QED
  BY <1>1, <1>2, <1>3, <1>4, <1>5, <1>6, <1>7, <1>8, <1>9, <1>10, <1>11, <1>12, <1>13, <1>14, ZenonT(30)
     DEF ProcessorNext, DispatcherStep, DispatcherLoop, WorkerStep

LEMMA InitProcessorInv == ProcessorInit => ProcessorInv
<1> SUFFICES ASSUME ProcessorInit PROVE ProcessorInv
  OBVIOUS
<1> USE ProcessorAssumption
<1>1. TypeOK
  BY Zenon DEF ProcessorInit, TypeOK
<1>2. LockInv /\ HoldInv
  BY DEF ProcessorInit, LockInv, HoldInv
<1>3. NothingForgotten
  BY DEF ProcessorInit, NothingForgotten
<1> QED
  BY <1>1, <1>2, <1>3 DEF ProcessorInv

(***************************************************************************)
(* However many workers there are and however long they keep the           *)
(* dispatcher waiting in its send, that send is on an open channel.        *)
(***************************************************************************)
THEOREM DispatcherSafety == ProcessorSpec => []DispatcherSendsOnOpen
<1>1. ProcessorInv /\ [ProcessorNext]_processorVars => ProcessorInv'
  BY TypeStep, LockStep, HoldStep, ForgetStep DEF ProcessorInv
<1>2. ProcessorInv => DispatcherSendsOnOpen
  BY DEF ProcessorInv, LockInv, DispatcherSendsOnOpen
<1> QED
  BY InitProcessorInv, <1>1, <1>2, PTL DEF ProcessorSpec

(***************************************************************************)
(* While the processor is active every jet drop waits in the channel, is   *)
(* held by a goroutine or is saved, whatever workers fail and resend.      *)
(***************************************************************************)
THEOREM ForgetsNothing == ProcessorSpec => []NothingForgotten
<1>1. ProcessorInv /\ [ProcessorNext]_processorVars => ProcessorInv'
  BY TypeStep, LockStep, HoldStep, ForgetStep DEF ProcessorInv
<1>2. ProcessorInv => NothingForgotten
  BY ZenonT(30) DEF ProcessorInv
<1> QED
  BY InitProcessorInv, <1>1, <1>2, PTL DEF ProcessorSpec
-----------------------------------------------------------------------------
(***************************************************************************)
(* The program that stops.                                                 *)
(***************************************************************************)
\* main calls the processor's Stop once, goes on when that has returned, and that closes taskC.
MainInv ==
  /\ main \in Nat
  /\ main > 1 => stopper = "returned"
  /\ stopper = "returned" => ~active

\* A worker that is held in a send on stopChannel has its task.
SendersInv == \A w \in Worker \cap stopChannel : worker[w] = "process"

\* The inductive invariant of the program that stops.
ProgramInv == ProcessorInv /\ MainInv /\ SendersInv

LEMMA ProcessorStep == ProcessorInv /\ [ProcessorNext]_processorVars => ProcessorInv'
BY TypeStep, LockStep, HoldStep, ForgetStep DEF ProcessorInv

\* The steps of the program are steps of the processor, with three exceptions.
LEMMA StepOfProcessor ==
  ASSUME [ShutdownNext]_allVars
  PROVE  \/ [ProcessorNext]_processorVars
         \/ \E g \in stopChannel : GracefulByChannel(g)
         \/ GracefulBySignal
         \/ \E w \in Worker : WorkerWorks(w) /\ ProcessOnClosedDatabase(w)
<1>1. CASE UNCHANGED allVars
  BY <1>1 DEF allVars
<1>2. CASE Signal \/ LoseDatabase \/ StopNext
  BY <1>2 DEF Signal, LoseDatabase, StopNext
<1>3. ASSUME NEW sender \in Sender, Notify(sender)
      PROVE  UNCHANGED processorVars
  BY <1>3 DEF Notify
<1>4. ASSUME NEW w \in Worker, ShutdownCallback(w)
      PROVE  UNCHANGED processorVars
  BY <1>4 DEF ShutdownCallback
<1>5. ASSUME NEW w \in Worker, WorkerWorks(w), ~panicked
      PROVE  ProcessorNext \/ ProcessOnClosedDatabase(w)
  BY <1>5 DEF WorkerWorks, ProcessorNext, WorkerStep
<1>6. ASSUME DispatcherLoop \/ Stop, ~panicked
      PROVE  ProcessorNext
  BY <1>6 DEF ProcessorNext, DispatcherStep
<1> QED
  BY <1>1, <1>2, <1>3, <1>4, <1>5, <1>6 DEF ShutdownNext, Running

\* A worker whose message main takes, or whose statement fails for good, keeps its task.
LEMMA HeldBackStep ==
  ASSUME ProcessorInv, NEW w \in Worker, worker[w] = "process",
         worker' = [worker EXCEPT ![w] = "resend"],
         UNCHANGED <<jdC, jdClosed, dispatchVars, task, saved, failures, closeVars, panicked>>,
         stopper' \in {"idle", "lock", "returned"}
  PROVE  ProcessorInv'
<1>1. TypeOK'
  BY ZenonT(30) DEF ProcessorInv, TypeOK, dispatchVars, closeVars
<1>2. LockInv' /\ HoldInv'
  BY ZenonT(30) DEF ProcessorInv, TypeOK, LockInv, HoldInv, dispatchVars, closeVars
<1>3. NothingForgotten'
  BY DEF ProcessorInv, TypeOK, NothingForgotten, Held, dispatchVars, closeVars
<1> QED
  BY <1>1, <1>2, <1>3, ZenonT(30) DEF ProcessorInv

LEMMA CallOfStop ==
  ASSUME ProcessorInv, stopper' = "lock",
         UNCHANGED <<jdC, jdClosed, dispatchVars, workerVars, closeVars, panicked>>
  PROVE  ProcessorInv'
<1>1. TypeOK'
  BY ZenonT(30) DEF ProcessorInv, TypeOK, dispatchVars, workerVars, closeVars
<1>2. LockInv' /\ HoldInv'
  BY ZenonT(30) DEF ProcessorInv, LockInv, HoldInv, dispatchVars, workerVars, closeVars
<1>3. NothingForgotten'
  BY ZenonT(30) DEF ProcessorInv, NothingForgotten, Held, dispatchVars, workerVars, closeVars
<1> QED
  BY <1>1, <1>2, <1>3, ZenonT(30) DEF ProcessorInv

LEMMA ProcessorInProgram == ProgramInv /\ [ShutdownNext]_allVars => ProcessorInv'
<1> SUFFICES ASSUME ProgramInv, [ShutdownNext]_allVars
             PROVE  ProcessorInv'
  OBVIOUS
<1>1. CASE [ProcessorNext]_processorVars
  BY <1>1, ProcessorStep DEF ProgramInv
<1>2. ASSUME NEW g \in stopChannel, GracefulByChannel(g)
      PROVE  ProcessorInv'
  <2>1. CASE g \in Worker
    BY <1>2, <2>1, HeldBackStep, Zenon DEF GracefulByChannel, ProgramInv, SendersInv
  <2>2. CASE g \notin Worker
    BY <1>2, <2>2, CallOfStop DEF GracefulByChannel, ProgramInv, workerVars
  <2> QED
    BY <2>1, <2>2
<1>3. CASE GracefulBySignal
  BY <1>3, CallOfStop DEF GracefulBySignal, ProgramInv
<1>4. ASSUME NEW w \in Worker, ProcessOnClosedDatabase(w)
      PROVE  ProcessorInv'
  BY <1>4, HeldBackStep, Zenon DEF ProcessOnClosedDatabase, ProgramInv, ProcessorInv, TypeOK
<1> QED
  BY <1>1, <1>2, <1>3, <1>4, StepOfProcessor

LEMMA MainStepInv == ProgramInv /\ [ShutdownNext]_allVars => MainInv'
<1> SUFFICES ASSUME ProgramInv, [ShutdownNext]_allVars
             PROVE  MainInv'
  OBVIOUS
<1> USE DEF ProgramInv, MainInv
<1>1. CASE UNCHANGED allVars
  BY <1>1, ZenonT(30) DEF allVars, processorVars, shutdownVars, closeVars
<1>2. CASE Signal \/ LoseDatabase \/ StopNext
  BY <1>2 DEF Signal, LoseDatabase, StopNext, processorVars, closeVars
<1>3. ASSUME NEW sender \in Sender, Notify(sender)
      PROVE  MainInv'
  BY <1>3, ZenonT(30) DEF Notify, processorVars, closeVars
<1>4. ASSUME NEW w \in Worker, ShutdownCallback(w)
      PROVE  MainInv'
  BY <1>4, ZenonT(30) DEF ShutdownCallback, processorVars, closeVars
<1>5. ASSUME NEW w \in Worker, WorkerWorks(w)
      PROVE  MainInv'
  BY <1>5 DEF WorkerWorks, shutdownVars, closeVars, Process, ProcessFails, ProcessOnClosedDatabase,
              Resend, ResendPanics, WorkerReturns
<1>6. CASE (\E g \in stopChannel : GracefulByChannel(g)) \/ GracefulBySignal
  BY <1>6 DEF GracefulByChannel, GracefulBySignal, closeVars
<1>7. CASE DispatcherLoop /\ UNCHANGED shutdownVars
  BY <1>7 DEF DispatcherLoop, ReceiveJetDrop, Lock, SendTask, Unlock, closeVars, shutdownVars
<1>8. CASE Stop /\ UNCHANGED shutdownVars
  BY <1>8, ZenonT(30) DEF Stop, CloseTaskC, shutdownVars
<1> QED
  BY <1>1, <1>2, <1>3, <1>4, <1>5, <1>6, <1>7, <1>8, ZenonT(30) DEF ShutdownNext

LEMMA SendersStep == ProgramInv /\ [ShutdownNext]_allVars => SendersInv'
<1> SUFFICES ASSUME ProgramInv, [ShutdownNext]_allVars
             PROVE  SendersInv'
  OBVIOUS
<1> USE DEF ProgramInv, SendersInv, ProcessorInv, TypeOK
<1>1. CASE UNCHANGED allVars
  BY <1>1, ZenonT(30) DEF allVars, processorVars, shutdownVars, workerVars
<1>2. CASE Signal \/ LoseDatabase \/ StopNext
  BY <1>2, ZenonT(30) DEF Signal, LoseDatabase, StopNext, processorVars, workerVars
<1>3. ASSUME NEW sender \in Sender, Notify(sender)
      PROVE  SendersInv'
  BY <1>3, ShutdownAssumption, ZenonT(30) DEF Notify, processorVars, workerVars
<1>4. ASSUME NEW w \in Worker, ShutdownCallback(w)
      PROVE  SendersInv'
  BY <1>4, ZenonT(30) DEF ShutdownCallback, processorVars, workerVars
<1>5. ASSUME NEW w \in Worker, WorkerWorks(w)
      PROVE  SendersInv'
  BY <1>5, ZenonT(30) DEF WorkerWorks, shutdownVars, workerVars, Process, ProcessFails, ProcessOnClosedDatabase,
              Resend, ResendPanics, WorkerReturns
<1>6. CASE (\E g \in stopChannel : GracefulByChannel(g)) \/ GracefulBySignal
  BY <1>6, ZenonT(30) DEF GracefulByChannel, GracefulBySignal, workerVars
<1>7. CASE DispatcherLoop /\ UNCHANGED shutdownVars
  BY <1>7, ZenonT(30) DEF DispatcherLoop, ReceiveJetDrop, Lock, SendTask, Unlock, workerVars, shutdownVars
<1>8. CASE Stop /\ UNCHANGED shutdownVars
  BY <1>8 DEF Stop, workerVars, shutdownVars
<1> QED
  BY <1>1, <1>2, <1>3, <1>4, <1>5, <1>6, <1>7, <1>8, ZenonT(30) DEF ShutdownNext

LEMMA ProgramInvariance == ShutdownSpec => []ProgramInv
<1>1. ShutdownInit => ProgramInv
  BY InitProcessorInv DEF ShutdownInit, ProgramInv, MainInv, SendersInv, ProcessorInit
<1> QED
  BY <1>1, ProcessorInProgram, MainStepInv, SendersStep, PTL DEF ShutdownSpec, ProgramInv
-----------------------------------------------------------------------------
(***************************************************************************)
(* While the program stops, for whatever reason, the dispatcher's send is  *)
(* on an open channel: main waits for the lock behind it.                  *)
(***************************************************************************)
THEOREM ShutdownDispatcherSafety == ShutdownSpec => []DispatcherSendsOnOpen
<1>1. ProgramInv => DispatcherSendsOnOpen
  BY DEF ProgramInv, ProcessorInv, LockInv, DispatcherSendsOnOpen
<1> QED
  BY <1>1, ProgramInvariance, PTL

(***************************************************************************)
(* Until main has stopped the processor, a lost database or a worker held  *)
(* in a send on stopChannel makes no jet drop disappear.                   *)
(***************************************************************************)
THEOREM ShutdownForgetsNothing == ShutdownSpec => []NothingForgotten
<1>1. ProgramInv => NothingForgotten
  BY DEF ProgramInv, ProcessorInv
<1> QED
  BY <1>1, ProgramInvariance, PTL

(***************************************************************************)
(* No worker is handed a jet drop, by the dispatcher or by another worker, *)
(* once main has closed the database.                                      *)
(***************************************************************************)
THEOREM ClosedDatabaseTakesNothing == ShutdownSpec => NothingNewOnClosedDatabase
<1>1. ProgramInv /\ DatabaseClosed => taskC # "open"
  BY DEF ProgramInv, MainInv, ProcessorInv, LockInv, DatabaseClosed, Deferred
<1>2. ProgramInv /\ [ShutdownNext]_allVars =>
        [DatabaseClosed => \A w \in Worker : ~SendTask(w) /\ \A v \in Worker : ~Resend(w, v)]_allVars
  BY <1>1 DEF SendTask, Resend
<1> QED
  BY <1>2, ProgramInvariance, PTL DEF ShutdownSpec, NothingNewOnClosedDatabase
=============================================================================
