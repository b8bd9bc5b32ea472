-------------------------- MODULE JetDropsAPIProofs --------------------------
(***************************************************************************)
(* Proofs about the answers with jet drops, for ledgers of any length with *)
(* splits and merges at any depth, any requests and any order of saving.   *)
(***************************************************************************)
EXTENDS JetDropsAPIInvariant

(***************************************************************************)
(* Statements.                                                             *)
(***************************************************************************)
LEMMA Working ==
  ASSUME Inv, handler.at # "idle"
  PROVE  response = Answer("none") /\ response.status = "none" /\ response.drops = <<>>
<1>1. response = Answer("none")
  BY DEF Inv, Stage
<1> QED
  BY <1>1, ZenonT(30) DEF Answer

LEMMA StatementFailsStep ==
  ASSUME Inv, StatementFails
  PROVE  Inv'
<1> DEFINE D == jetDrops
           h == [handler EXCEPT !.at = "idle"]
           listing == handler.kind = "list" /\ handler.at \in {"find", "count"}
<1>1. /\ handler \in HandlerOf(D) /\ client \in ClientOf(D) /\ Stage(D, handler, response)
  BY DEF Inv, Types
<1>2. /\ Attempt(FALSE) /\ UNCHANGED <<ledger, pulses, jetDrops>>
      /\ response' = IF listing THEN Answer("200") ELSE Answer("500")
      /\ handler' = IF response'.status = "200" THEN h ELSE Idle
  BY Zenon DEF StatementFails
<1>3. client' \in ClientOf(D) /\ client'.failed
  <2> DEFINE ok == FALSE
  <2>1. Attempt(ok) /\ ok \in BOOLEAN /\ ~ok
    BY <1>2, Zenon
  <2> HIDE DEF ok
  <2>2. client' \in ClientOf(D) /\ (~client'.failed => ok)
    BY <1>1, <2>1, AttemptIs, ZenonT(30)
  <2> QED
    BY <2>1, <2>2, Zenon
<1>4. Answer("200").status = "200" /\ Answer("500").status = "500"
  BY DEF Answer
<1>5. ASSUME NEW g, NEW r PROVE Back(g, r, client')
  BY <1>3 DEF Back
<1>6. CASE listing
  <2>1. h \in HandlerOf(D) /\ h.at = "idle" /\ h.kind = "list" /\ h.params = handler.params
    BY <1>1, <1>6 DEF HandlerOf, Place
  <2>2. response' = Answer("200") /\ handler' = h
    BY <1>2, <1>4, <1>6
  <2>3. Limit(h.params.limit) \in Nat \ {0} /\ JetIDOfPath(h.params.jetID) \in Bits
    BY <1>1, <1>6, <2>1, ZenonT(30) DEF Stage
  <2> HIDE DEF h
  <2>4. /\ Types(D, h, Answer("200"), client') /\ Stage(D, h, Answer("200")) /\ TrueAnswer(Answer("200"))
        /\ ByID(D, h, Answer("200"), client') /\ Listing(D, h, client') /\ ListAnswer(D, h, Answer("200"), client')
    BY <1>3, <2>1, <2>3, EmptyAnswer, ZenonT(30) DEF Status
  <2> QED
    BY <1>2, <1>5, <2>2, <2>4, ReadStep, ZenonT(30)
<1>7. CASE ~listing
  <2>1. Idle \in HandlerOf(D) /\ Idle.at = "idle" /\ Idle.kind = "none"
    BY IdleTyped, Zenon DEF Idle
  <2>2. response' = Answer("500") /\ handler' = Idle
    BY <1>2, <1>4, <1>7, ZenonT(30)
  <2>3. /\ Types(D, Idle, Answer("500"), client') /\ Stage(D, Idle, Answer("500")) /\ TrueAnswer(Answer("500"))
        /\ ByID(D, Idle, Answer("500"), client') /\ Listing(D, Idle, client')
        /\ ListAnswer(D, Idle, Answer("500"), client')
    BY <1>3, <2>1, EmptyAnswer, ZenonT(30) DEF Status
  <2> QED
    BY <1>2, <1>5, <2>2, <2>3, ReadStep, ZenonT(30)
<1> QED
  BY <1>6, <1>7

\* A statement that goes on to the next one.
LEMMA GoToStep ==
  ASSUME Inv, handler.at # "idle", UNCHANGED <<ledger, pulses, jetDrops, response>>,
         handler' \in HandlerOf(jetDrops), client' \in ClientOf(jetDrops), handler'.at # "idle",
         Stage(jetDrops, handler', response),
         handler'.at = "prev" /\ ~client'.failed =>
           GetSiblings(client'.atFirst, handler'.page[1].pulseNumber + 1, handler'.page[1].jetID) \subseteq handler'.enriched,
         Back(handler', response, client'), Listing(jetDrops, handler', client')
  PROVE  Inv'
<1>1. response \in Response /\ LinksAreTrue
  BY DEF Inv, Types
<1>2. response.status = "none"
  BY Working
<1>3. Types(jetDrops, handler', response', client')
  BY <1>1 DEF Types
<1>4. ByID(jetDrops, handler', response', client')
  BY <1>2 DEF ByID
<1>5. ListAnswer(jetDrops, handler', response', client')
  BY <1>2, ZenonT(30) DEF ListAnswer
<1>6. TrueAnswer(response')
  BY <1>1 DEF TrueAnswer, LinksAreTrue
<1>7. response' = response /\ UNCHANGED <<ledger, pulses, jetDrops>>
  OBVIOUS
<1>8. Stage(jetDrops, handler', response') /\ Back(handler', response', client')
  BY <1>7, ZenonT(30)
<1> QED
  BY <1>3, <1>4, <1>5, <1>6, <1>7, <1>8, ReadStep, ZenonT(30)

\* A handler of JetDropByID that has found its jet drop.
LEMMA PageOfOne ==
  ASSUME Inv, handler.at \in {"nextPulse", "next", "prev"}
  PROVE  /\ handler.page[1] \in jetDrops /\ Len(handler.page) = 1 /\ handler.kind = "id"
         /\ handler.page[1].pulseNumber \in Nat \ {0}
<1>1. handler.page \in Seq(jetDrops) /\ Len(handler.page) = 1 /\ handler.kind = "id" /\ RowsInv
  BY DEF Inv, Types, HandlerOf, Stage
<1>2. handler.page[1] \in jetDrops
  BY <1>1
<1> QED
  BY <1>1, <1>2, RowFacts, ZenonT(30)

LEMMA FindDropStep ==
  ASSUME Inv, FindDrop
  PROVE  Inv'
<1> DEFINE D == jetDrops
           text == [jetID |-> handler.params.jetID, pulseNumber |-> handler.params.pulseNumber]
           id == NewJetDropIDFromString(text)
           found == {d \in jetDrops : d.jetID = id.jetID /\ d.pulseNumber = id.pulseNumber}
<1>1. /\ handler \in HandlerOf(D) /\ client \in ClientOf(D) /\ Stage(D, handler, response)
      /\ Back(handler, response, client) /\ RowsInv /\ client.atFirst \subseteq D
  BY DEF Inv, Types, ClientOf
<1>2. /\ handler.at = "drop" /\ UNCHANGED <<ledger, pulses, jetDrops, client>>
      /\ IF found = {} THEN response' = Answer("404") /\ handler' = Idle
         ELSE GoTo([handler EXCEPT !.at = "nextPulse", !.page = <<CHOOSE e \in found : TRUE>>])
  BY DEF FindDrop
<1>3. handler.kind = "id" /\ handler.enriched = {}
  BY <1>1, <1>2 DEF Stage
<1>4. \A e \in D : text.jetID = Link(e).jetID /\ text.pulseNumber = Link(e).pulseNumber => e \in found
  <2> SUFFICES ASSUME NEW e \in D, text.jetID = Link(e).jetID, text.pulseNumber = Link(e).pulseNumber
               PROVE  e \in found
    OBVIOUS
  <2>1. id = NewJetDropIDFromString(Link(e))
    BY DEF NewJetDropIDFromString
  <2>2. id = [jetID |-> e.jetID, pulseNumber |-> e.pulseNumber]
    BY <1>1, <2>1, RowFacts, LinkIs, ZenonT(30)
  <2> QED
    BY <2>2
<1>5. client.cameFrom # {} /\ ~client.failed =>
        \E d, e \in client.atFirst :
          /\ client.cameFrom = {Link(d)} /\ e \in found
          /\ d \in GetSiblings(client.atFirst, IF client.forward THEN e.pulseNumber - 1 ELSE e.pulseNumber + 1, e.jetID)
  BY <1>1, <1>2, <1>4 DEF Back
<1>6. CASE found = {}
  <2>1. Idle \in HandlerOf(D) /\ Idle.at = "idle" /\ Idle.kind = "none"
    BY IdleTyped, Zenon DEF Idle
  <2>2. response' = Answer("404") /\ handler' = Idle
    BY <1>2, <1>6, ZenonT(30)
  <2>3. Back(Idle, Answer("404"), client)
    BY <1>5, <1>6 DEF Back
  <2>4. /\ Types(D, Idle, Answer("404"), client) /\ Stage(D, Idle, Answer("404")) /\ TrueAnswer(Answer("404"))
        /\ ByID(D, Idle, Answer("404"), client) /\ Listing(D, Idle, client)
        /\ ListAnswer(D, Idle, Answer("404"), client)
    BY <1>1, <2>1, EmptyAnswer, Zenon DEF Status
  <2> QED
    BY <1>2, <2>2, <2>3, <2>4, ReadStep, ZenonT(30)
<1>7. CASE found # {}
  <2>1. PICK d \in D : d \in found
    BY <1>7
  <2>2. \A e \in found : e = d
    BY <1>1, <2>1, SameRow, ZenonT(30)
  <2>3. found = {d}
    BY <2>1, <2>2
  <2> DEFINE page == <<CHOOSE e \in found : TRUE>>
  <2>4. page \in Seq(D) /\ Len(page) = 1 /\ page[1] = d
    <3>1. (CHOOSE e \in found : TRUE) = d
      BY <2>1, <2>2, Zenon
    <3> QED
      BY <2>1, <3>1
  <2>5. handler' = [handler EXCEPT !.at = "nextPulse", !.page = page] /\ response' = response
    BY <1>2, <1>7 DEF GoTo
  <2> HIDE DEF found, page
  <2>6. /\ handler' \in HandlerOf(D) /\ handler'.at = "nextPulse" /\ handler'.kind = "id"
        /\ handler'.params = handler.params /\ handler'.page = page /\ handler'.enriched = {}
    BY <1>1, <1>3, <2>4, <2>5, Zenon DEF HandlerOf, Place
  <2>7. Stage(D, handler', response)
    BY <1>1, <1>2, <2>4, <2>6, ZenonT(30) DEF Stage
  <2>8. Back(handler', response, client')
    BY <1>2, <1>5, <2>2, <2>4, <2>6, ZenonT(30) DEF Back
  <2>9. Listing(D, handler', client')
    BY <2>6 DEF Listing, Listed
  <2> QED
    BY <1>1, <1>2, <2>5, <2>6, <2>7, <2>8, <2>9, GoToStep, ZenonT(30)
<1> QED
  BY <1>6, <1>7, ZenonT(30)

LEMMA FindNextPulseStep ==
  ASSUME Inv, FindNextPulse
  PROVE  Inv'
<1> DEFINE D == jetDrops
           p == handler.page[1].pulseNumber
<1>1. /\ handler \in HandlerOf(D) /\ client \in ClientOf(D) /\ Stage(D, handler, response)
      /\ Back(handler, response, client) /\ RowsInv /\ client.atFirst \subseteq D
  BY DEF Inv, Types, ClientOf
<1>2. PICK ok \in BOOLEAN :
        LET next == updateNextPulse(IF ok THEN PulseRows ELSE {}, PulseRow(p)).nextPulseNumber
        IN  Attempt(ok) /\ GoTo([handler EXCEPT !.at = IF next = Unknown THEN "prev" ELSE "next", !.number = next])
  BY Zenon DEF FindNextPulse
<1> DEFINE next == updateNextPulse(IF ok THEN PulseRows ELSE {}, PulseRow(p)).nextPulseNumber
           a == IF next = Unknown THEN "prev" ELSE "next"
           P == IF ok THEN pulses ELSE {}
<1>3. handler.at = "nextPulse" /\ UNCHANGED <<ledger, pulses, jetDrops>>
  BY DEF FindNextPulse
<1>4. handler.page[1] \in D /\ Len(handler.page) = 1 /\ handler.kind = "id" /\ p \in Nat \ {0}
  BY <1>3, PageOfOne, ZenonT(30)
<1>5. handler.enriched = {}
  BY <1>1, <1>3, ZenonT(30) DEF Stage
<1>6. next = IF p + 1 \in P THEN p + 1 ELSE Unknown
  <2>1. P \subseteq Nat
    BY <1>1, LedgerFacts DEF RowsInv
  <2>2. (IF ok THEN PulseRows ELSE {}) = {PulseRow(q) : q \in P}
    BY DEF PulseRows
  <2> HIDE DEF P
  <2> QED
    BY <1>4, <2>1, <2>2, NextPulseIs
<1>7. Attempt(ok) /\ handler' = [handler EXCEPT !.at = a, !.number = next] /\ response' = response
  BY <1>2 DEF GoTo
<1> HIDE DEF next
<1>8. next \in Int /\ (next # Unknown => next = p + 1) /\ (next = Unknown => p + 1 \notin P)
  BY <1>4, <1>6 DEF Unknown
<1>9. a \in Place /\ a \in {"prev", "next"} /\ (a = "next" => next = p + 1) /\ (a = "prev" => p + 1 \notin P)
  BY <1>8 DEF Place
<1> HIDE DEF a
<1>10. /\ handler' \in HandlerOf(D) /\ handler'.at = a /\ handler'.kind = "id" /\ handler'.params = handler.params
       /\ handler'.page = handler.page /\ handler'.number = next /\ handler'.enriched = {}
  BY <1>1, <1>4, <1>5, <1>7, <1>8, <1>9, Zenon DEF HandlerOf
<1>11. /\ client' \in ClientOf(D) /\ client'.atFirst = client.atFirst /\ client'.cameFrom = client.cameFrom
       /\ client'.forward = client.forward /\ (~client'.failed => ok /\ ~client.failed)
  BY <1>1, <1>7, AttemptIs, ZenonT(30)
<1>12. Stage(D, handler', response)
  BY <1>1, <1>3, <1>4, <1>9, <1>10, ZenonT(30) DEF Stage
<1>13. ASSUME a = "prev", ~client'.failed
       PROVE  GetSiblings(client'.atFirst, p + 1, handler.page[1].jetID) = {}
  <2>1. p + 1 \notin pulses
    BY <1>9, <1>11, <1>13, ZenonT(30)
  <2>2. \A e \in client'.atFirst : e.pulseNumber # p + 1
    BY <1>1, <1>11, <2>1, ZenonT(30) DEF RowsInv
  <2> QED
    BY <2>2 DEF GetSiblings, GetJetDrops
<1>14. Back(handler', response, client')
  BY <1>1, <1>3, <1>9, <1>10, <1>11, Zenon DEF Back
<1>15. Listing(D, handler', client')
  BY <1>9, <1>10 DEF Listing, Listed
<1> QED
  BY <1>3, <1>7, <1>9, <1>10, <1>11, <1>12, <1>13, <1>14, <1>15, GoToStep, ZenonT(30)

LEMMA FindNextSiblingsStep ==
  ASSUME Inv, FindNextSiblings
  PROVE  Inv'
<1> DEFINE D == jetDrops
           d == handler.page[1]
           siblings == GetSiblings(D, handler.number, d.jetID)
<1>1. /\ handler \in HandlerOf(D) /\ client \in ClientOf(D) /\ Stage(D, handler, response)
      /\ Back(handler, response, client) /\ client.atFirst \subseteq D
  BY DEF Inv, Types, ClientOf
<1>2. /\ handler.at = "next" /\ UNCHANGED <<ledger, pulses, jetDrops, client, response>>
      /\ handler' = [handler EXCEPT !.at = "prev", !.enriched = siblings]
  BY DEF FindNextSiblings, GoTo
<1>3. handler.number = d.pulseNumber + 1 /\ Len(handler.page) = 1 /\ handler.kind = "id"
  BY <1>1, <1>2 DEF Stage
<1>4. siblings \in SUBSET D /\ GetSiblings(client.atFirst, handler.number, d.jetID) \subseteq siblings
  BY <1>1, Zenon DEF GetSiblings, GetJetDrops
<1>5. siblings \subseteq GetSiblings(D, d.pulseNumber + 1, d.jetID)
  BY <1>3
<1> HIDE DEF siblings
<1>6. /\ handler' \in HandlerOf(D) /\ handler'.at = "prev" /\ handler'.kind = "id" /\ handler'.params = handler.params
      /\ handler'.page = handler.page /\ handler'.enriched = siblings
  BY <1>1, <1>2, <1>3, <1>4, Zenon DEF HandlerOf, Place
<1>7. Stage(D, handler', response)
  BY <1>1, <1>2, <1>3, <1>5, <1>6, ZenonT(30) DEF Stage
<1>8. Back(handler', response, client')
  BY <1>1, <1>2, <1>6, ZenonT(30) DEF Back
<1>9. Listing(D, handler', client')
  BY <1>6 DEF Listing, Listed
<1>10. GetSiblings(client'.atFirst, handler'.page[1].pulseNumber + 1, handler'.page[1].jetID) \subseteq handler'.enriched
  BY <1>2, <1>3, <1>4, <1>6, ZenonT(30)
<1> QED
  BY <1>1, <1>2, <1>6, <1>7, <1>8, <1>9, <1>10, GoToStep, ZenonT(30)

LEMMA RespondIs ==
  ASSUME NEW D, handler \in HandlerOf(D), NEW drops \in Seq(Shown), NEW total \in Nat, RespondWith(drops, total)
  PROVE  /\ response' \in Response /\ response'.status = "200" /\ response'.drops = drops
         /\ handler' \in HandlerOf(D) /\ handler'.at = "idle" /\ handler'.kind = handler.kind
         /\ handler'.params = handler.params
<1>1. /\ response' = [status |-> "200", drops |-> drops, total |-> total]
      /\ handler' = [handler EXCEPT !.at = "idle"]
  BY DEF RespondWith
<1>2. response' \in Response /\ response'.status = "200" /\ response'.drops = drops
  BY <1>1, ZenonT(30) DEF Response, Status
<1> QED
  BY <1>1, <1>2, Zenon DEF HandlerOf, Place

\* The shown neighbours are siblings, so they are neighbours.
Beside(d, prev, next) ==
  /\ prev \subseteq GetSiblings(jetDrops, d.pulseNumber - 1, d.jetID)
  /\ next \subseteq GetSiblings(jetDrops, d.pulseNumber + 1, d.jetID)

LEMMA ShownTrue ==
  ASSUME RowsInv, NEW d \in jetDrops, NEW prev, NEW next, Beside(d, prev, next),
         NEW x, x = JetDropToAPI(d, prev, next)
  PROVE  /\ x \in Shown /\ x.jetDropID = Link(d) /\ x.prev = Links(prev) /\ x.next = Links(next)
         /\ x.prev \subseteq Predecessors(jetDrops, x.jetDropID) /\ x.next \subseteq Successors(jetDrops, x.jetDropID)
<1>1. prev \in SUBSET jetDrops /\ next \in SUBSET jetDrops
  BY DEF Beside, GetSiblings, GetJetDrops
<1>2. x \in Shown /\ x.jetDropID = Link(d) /\ x.prev = Links(prev) /\ x.next = Links(next)
  BY <1>1, ShownTyped, ZenonT(30)
<1>3. /\ Predecessors(jetDrops, Link(d)) = Links(GetSiblings(jetDrops, d.pulseNumber - 1, d.jetID))
      /\ Successors(jetDrops, Link(d)) = Links(GetSiblings(jetDrops, d.pulseNumber + 1, d.jetID))
  BY NeighboursAreSiblings
<1>4. /\ Links(prev) \subseteq Links(GetSiblings(jetDrops, d.pulseNumber - 1, d.jetID))
      /\ Links(next) \subseteq Links(GetSiblings(jetDrops, d.pulseNumber + 1, d.jetID))
  BY DEF Beside, Links
<1> QED
  BY <1>2, <1>3, <1>4, ZenonT(30)

LEMMA FindPrevSiblingsStep ==
  ASSUME Inv, FindPrevSiblings
  PROVE  Inv'
<1> DEFINE D == jetDrops
           d == handler.page[1]
           prev == GetSiblings(D, d.pulseNumber - 1, d.jetID)
           next == handler.enriched
           x == JetDropToAPI(d, prev, next)
           drops == <<x>>
<1>1. /\ handler \in HandlerOf(D) /\ client \in ClientOf(D) /\ Stage(D, handler, response)
      /\ ByID(D, handler, response, client)
      /\ Back(handler, response, client) /\ RowsInv /\ client.atFirst \subseteq D
  BY DEF Inv, Types, ClientOf
<1>2. /\ handler.at = "prev" /\ RespondWith(drops, 1)
      /\ UNCHANGED <<ledger, pulses, jetDrops, client>>
  BY DEF FindPrevSiblings
<1>3. d \in D /\ handler.kind = "id"
  BY <1>2, PageOfOne, ZenonT(30)
<1>4. next \subseteq GetSiblings(D, d.pulseNumber + 1, d.jetID)
  BY <1>1, <1>2 DEF Stage
<1>5. ~client.failed => GetSiblings(client.atFirst, d.pulseNumber + 1, d.jetID) \subseteq next
  BY <1>1, <1>2, Zenon DEF ByID
<1>6. GetSiblings(client.atFirst, d.pulseNumber - 1, d.jetID) \subseteq prev
  BY <1>1 DEF GetSiblings, GetJetDrops
<1>7. prev \subseteq GetSiblings(D, d.pulseNumber - 1, d.jetID)
  OBVIOUS
<1>8. client.cameFrom # {} /\ ~client.failed =>
        \E y \in client.atFirst :
          /\ client.cameFrom = {Link(y)}
          /\ y \in GetSiblings(client.atFirst, IF client.forward THEN d.pulseNumber - 1 ELSE d.pulseNumber + 1, d.jetID)
          /\ d \in client.atFirst
  BY <1>1, <1>2, Zenon DEF Back
<1> HIDE DEF prev, next, d
<1>9. /\ x \in Shown /\ x.jetDropID = Link(d) /\ x.prev = Links(prev) /\ x.next = Links(next)
      /\ x.prev \subseteq Predecessors(D, x.jetDropID) /\ x.next \subseteq Successors(D, x.jetDropID)
  <2>1. Beside(d, prev, next)
    BY <1>4, <1>7, ZenonT(30) DEF Beside
  <2> QED
    BY <1>1, <1>3, <2>1, ShownTrue, Zenon
<1> HIDE DEF x
<1>10. drops \in Seq(Shown) /\ Len(drops) = 1 /\ DOMAIN drops = {1} /\ drops[1] = x /\ drops # <<>>
  BY <1>9
<1> HIDE DEF drops
<1>11. /\ response' \in Response /\ response'.status = "200" /\ response'.drops = drops
       /\ handler' \in HandlerOf(D) /\ handler'.at = "idle" /\ handler'.kind = "id" /\ handler'.params = handler.params
  BY <1>1, <1>2, <1>3, <1>10, RespondIs, ZenonT(30)
<1>12. Types(D, handler', response', client')
  BY <1>1, <1>2, <1>11, ZenonT(30) DEF Types
<1>13. Stage(D, handler', response')
  BY <1>11, ZenonT(30) DEF Stage
<1>14. TrueAnswer(response')
  BY <1>9, <1>10, <1>11, ZenonT(30) DEF TrueAnswer
<1>15. ByID(D, handler', response', client')
  <2>1. ~client.failed => /\ Links(GetSiblings(client.atFirst, d.pulseNumber - 1, d.jetID)) \subseteq x.prev
                          /\ Links(GetSiblings(client.atFirst, d.pulseNumber + 1, d.jetID)) \subseteq x.next
    BY <1>5, <1>6, <1>9, ZenonT(30) DEF Links
  <2> QED
    BY <1>2, <1>3, <1>9, <1>10, <1>11, <2>1, ZenonT(30) DEF ByID
<1>16. Back(handler', response', client')
  BY <1>2, <1>8, <1>9, <1>10, <1>11, ZenonT(30) DEF Back
<1>17. Listing(D, handler', client') /\ ListAnswer(D, handler', response', client')
  BY <1>11 DEF Listing, Listed, ListAnswer
<1> QED
  BY <1>2, <1>12, <1>13, <1>14, <1>15, <1>16, <1>17, ReadStep, ZenonT(30)
-----------------------------------------------------------------------------
(***************************************************************************)
(* Listings.                                                               *)
(***************************************************************************)
LEMMA SmallLimit ==
  ASSUME NEW q \in Params, Limit(q.limit) \in Nat \ {0}
  PROVE  ListLimit(q) \in Nat \ {0}
BY ParametersAssumption DEF Limit, ListLimit, Or

LEMMA FindStep ==
  ASSUME Inv, Find
  PROVE  Inv'
<1> DEFINE D == jetDrops
           q == handler.params
           rows == Matching(D, handler)
           page == IF handler.kind = "list"
                   THEN Page(SortJetDrops(rows, SortAsc(q.sortBy)), ListLimit(q), 0)
                   ELSE Page(SortJetDropsOfPulse(rows), Limit(q.limit), Offset(q.offset))
<1>1. /\ handler \in HandlerOf(D) /\ client \in ClientOf(D) /\ Stage(D, handler, response)
      /\ Back(handler, response, client) /\ RowsInv /\ client.atFirst \subseteq D
  BY DEF Inv, Types, ClientOf
<1>2. /\ handler.at = "find" /\ UNCHANGED <<ledger, pulses, jetDrops, client, response>>
      /\ handler' = [handler EXCEPT !.at = "count", !.page = page]
  BY DEF Find, GoTo
<1>3. /\ handler.kind \in {"list", "pulse"} /\ Limit(q.limit) \in Nat \ {0} /\ q \in Params
      /\ handler.kind = "pulse" => Offset(q.offset) \in Nat
  BY <1>1, <1>2 DEF Stage, HandlerOf
<1>4. ListLimit(q) \in Nat \ {0} /\ SortAsc(q.sortBy) \in BOOLEAN
  BY <1>3, SmallLimit DEF SortAsc
<1>5. rows \in SUBSET D
  BY MatchingRows
<1>6. handler.kind = "pulse" => \A d, e \in rows : d.pulseNumber = e.pulseNumber
  BY DEF Matching, GetJetDropsWithParams, GetJetDrops
<1>7. Matching(client.atFirst, handler) \subseteq rows
  BY <1>1, MatchingRows
<1> HIDE DEF rows
<1>8. page \in Seq(D)
  <2>1. CASE handler.kind = "list"
    BY <1>1, <1>4, <1>5, <2>1, ListPage, Zenon
  <2>2. CASE handler.kind = "pulse"
    BY <1>1, <1>3, <1>5, <1>6, <2>2, PulsePage, ZenonT(30)
  <2> QED
    BY <1>3, <2>1, <2>2, ZenonT(30)
<1>9. handler.kind = "list" =>
        /\ \A i \in DOMAIN page : page[i] \in rows
        /\ \A i \in DOMAIN page : findEdgePNInJetDrops(page, SortAsc(q.sortBy)).oldest <= page[i].pulseNumber
        /\ Len(page) < ListLimit(q) => rows \subseteq Range(page)
  <2> SUFFICES ASSUME handler.kind = "list"
               PROVE  /\ \A i \in DOMAIN page : page[i] \in rows
                      /\ \A i \in DOMAIN page :
                           findEdgePNInJetDrops(page, SortAsc(q.sortBy)).oldest <= page[i].pulseNumber
                      /\ Len(page) < ListLimit(q) => rows \subseteq Range(page)
    BY Zenon
  <2> DEFINE asc == SortAsc(q.sortBy)
             limit == ListLimit(q)
  <2>1. page = Page(SortJetDrops(rows, asc), limit, 0)
    OBVIOUS
  <2>2. asc \in BOOLEAN /\ limit \in Nat \ {0}
    BY <1>4, ZenonT(30)
  <2> HIDE DEF page, asc, limit
  <2>3. /\ \A i \in DOMAIN page : page[i] \in rows
        /\ \A i \in DOMAIN page : findEdgePNInJetDrops(page, asc).oldest <= page[i].pulseNumber
        /\ Len(page) < limit => rows \subseteq Range(page)
    BY <1>1, <1>5, <2>1, <2>2, ListPage, Zenon
  <2> QED
    BY <2>3 DEF asc, limit
<1> HIDE DEF page
<1>10. /\ handler' \in HandlerOf(D) /\ handler'.at = "count" /\ handler'.kind = handler.kind
       /\ handler'.params = q /\ handler'.page = page
  BY <1>1, <1>2, <1>8, Zenon DEF HandlerOf, Place
<1>11. Stage(D, handler', response)
  BY <1>1, <1>2, <1>3, <1>10, ZenonT(30) DEF Stage
<1>12. Back(handler', response, client')
  BY <1>1, <1>2, ZenonT(30) DEF Back
<1>13. Listing(D, handler', client')
  <2>1. \A S : Matching(S, handler') = Matching(S, handler)
    BY <1>10, Zenon DEF Matching
  <2>2. Oldest(handler') = findEdgePNInJetDrops(page, SortAsc(q.sortBy)).oldest
    BY <1>10, ZenonT(30) DEF Oldest
  <2> QED
    BY <1>2, <1>7, <1>9, <1>10, <2>1, <2>2, ZenonT(30) DEF Listing, rows
<1> QED
  BY <1>1, <1>2, <1>10, <1>11, <1>12, <1>13, GoToStep, ZenonT(30)

\* A request that followed no link stays one.
LEMMA NotFollowed ==
  ASSUME Inv, handler.at \in {"find", "count", "oldest", "newest", "enrichPrev", "enrichNext", "respond"}
  PROVE  client.cameFrom = {} \/ client.failed
BY DEF Inv, Back

LEMMA CountStep ==
  ASSUME Inv, Count
  PROVE  Inv'
<1> DEFINE D == jetDrops
           page == handler.page
           total == Cardinality(Matching(D, handler))
<1>1. /\ handler \in HandlerOf(D) /\ client \in ClientOf(D) /\ Stage(D, handler, response)
      /\ RowsInv /\ client.atFirst \subseteq D /\ Listing(D, handler, client)
  BY DEF Inv, Types, ClientOf
<1>2. handler.at = "count" /\ UNCHANGED <<ledger, pulses, jetDrops>>
  BY DEF Count
<1>3. handler.kind \in {"list", "pulse"} /\ page \in Seq(D)
  BY <1>1, <1>2 DEF Stage, HandlerOf
<1>4. total \in Nat
  <2>1. Matching(D, handler) \subseteq D
    BY MatchingRows
  <2> QED
    BY <1>1, <2>1, FS_Subset, FS_CardinalityType, ZenonT(30) DEF RowsInv
<1>5. client.cameFrom = {} \/ client.failed
  BY <1>2, NotFollowed
<1>6. CASE handler.kind = "pulse"
  <2> DEFINE drops == [i \in DOMAIN page |-> JetDropToAPI(page[i], {}, {})]
             seen == client.seen \cup {Link(d) : d \in Range(page)}
  <2>1. RespondWith(drops, total) /\ client' = [client EXCEPT !.seen = seen]
    BY <1>6 DEF Count
  <2>2. ASSUME NEW i \in DOMAIN page
        PROVE  /\ drops[i] \in Shown
               /\ drops[i].prev \subseteq Predecessors(D, drops[i].jetDropID)
               /\ drops[i].next \subseteq Successors(D, drops[i].jetDropID)
    <3>1. page[i] \in D
      BY <1>3
    <3> DEFINE none == {}
               d == page[i]
               y == drops[i]
    <3>2. y = JetDropToAPI(d, none, none)
      OBVIOUS
    <3>3. Beside(d, none, none)
      BY DEF Beside
    <3> HIDE DEF none, d, y
    <3>4. /\ y \in Shown /\ y.prev \subseteq Predecessors(D, y.jetDropID)
          /\ y.next \subseteq Successors(D, y.jetDropID)
      BY <1>1, <3>1, <3>2, <3>3, ShownTrue, ZenonT(30) DEF d
    <3> QED
      BY <3>4, Zenon DEF y
  <2>3. DOMAIN drops = DOMAIN page /\ drops \in Seq(Shown)
    <3>1. Len(page) \in Nat /\ DOMAIN page = 1 .. Len(page) /\ DOMAIN drops = DOMAIN page
      BY <1>3
    <3>2. drops = [i \in 1 .. Len(page) |-> drops[i]]
      BY <3>1
    <3> HIDE DEF drops
    <3> QED
      BY <2>2, <3>1, <3>2
  <2>4. seen \in SUBSET Text
    <3>1. client.seen \subseteq Text
      BY <1>1 DEF ClientOf
    <3>2. \A d \in Range(page) : d \in D
      BY <1>3 DEF Range
    <3> QED
      BY <1>1, <3>1, <3>2, LinkTyped, ZenonT(30)
  <2> HIDE DEF drops, seen, total
  <2>5. client' \in ClientOf(D) /\ client'.cameFrom = client.cameFrom /\ client'.failed = client.failed
    BY <1>1, <2>1, <2>4, ZenonT(30) DEF ClientOf
  <2>6. /\ response' \in Response /\ response'.status = "200" /\ response'.drops = drops
        /\ handler' \in HandlerOf(D) /\ handler'.at = "idle" /\ handler'.kind = "pulse" /\ handler'.params = handler.params
    BY <1>1, <1>4, <1>6, <2>1, <2>3, RespondIs, ZenonT(30)
  <2>7. Types(D, handler', response', client') /\ Stage(D, handler', response')
    BY <1>1, <1>6, <2>5, <2>6, ZenonT(30) DEF Types, Stage
  <2>8. TrueAnswer(response')
    BY <2>2, <2>3, <2>6, ZenonT(30) DEF TrueAnswer
  <2>9. ByID(D, handler', response', client') /\ ListAnswer(D, handler', response', client')
    BY <2>6 DEF ByID, ListAnswer
  <2>10. Back(handler', response', client') /\ Listing(D, handler', client')
    BY <1>5, <2>5, <2>6, ZenonT(30) DEF Back, Listing, Listed
  <2> QED
    BY <1>2, <2>7, <2>8, <2>9, <2>10, ReadStep, ZenonT(30)
<1>7. CASE handler.kind = "list" /\ page = <<>>
  <2> DEFINE drops == <<>>
  <2>1. RespondWith(drops, 0) /\ client' = client
    BY <1>7 DEF Count
  <2>2. drops \in Seq(Shown) /\ DOMAIN drops = {}
    OBVIOUS
  <2> HIDE DEF drops
  <2>3. /\ response' \in Response /\ response'.status = "200" /\ response'.drops = drops
        /\ handler' \in HandlerOf(D) /\ handler'.at = "idle" /\ handler'.kind = "list" /\ handler'.params = handler.params
    BY <1>1, <1>7, <2>1, <2>2, RespondIs, ZenonT(30)
  <2>4. Types(D, handler', response', client') /\ Stage(D, handler', response')
    BY <1>1, <1>7, <2>1, <2>3, ZenonT(30) DEF Types, Stage
  <2>5. TrueAnswer(response') /\ ListAnswer(D, handler', response', client')
    BY <2>2, <2>3, ZenonT(30) DEF TrueAnswer, ListAnswer
  <2>6. ByID(D, handler', response', client')
    BY <2>3, ZenonT(30) DEF ByID
  <2>7. Back(handler', response', client') /\ Listing(D, handler', client')
    BY <1>5, <2>1, <2>3, ZenonT(30) DEF Back, Listing, Listed
  <2> QED
    BY <1>2, <2>4, <2>5, <2>6, <2>7, ReadStep, ZenonT(30)
<1>8. CASE handler.kind = "list" /\ page # <<>>
  <2>1. /\ handler' = [handler EXCEPT !.at = "oldest", !.total = total]
        /\ UNCHANGED <<response, client>>
    BY <1>8 DEF Count, GoTo
  <2> HIDE DEF total
  <2>2. /\ handler' \in HandlerOf(D) /\ handler'.at = "oldest" /\ handler'.kind = "list"
        /\ handler'.params = handler.params /\ handler'.page = page
    BY <1>1, <1>4, <1>8, <2>1, Zenon DEF HandlerOf, Place
  <2>3. Stage(D, handler', response)
    BY <1>1, <1>2, <1>8, <2>2, Zenon DEF Stage
  <2>4. Back(handler', response, client')
    BY <1>5, <2>1, ZenonT(30) DEF Back
  <2>5. Listing(D, handler', client')
    <3>1. \A S : Matching(S, handler') = Matching(S, handler)
      BY <1>8, <2>2, Zenon DEF Matching
    <3>2. Oldest(handler') = Oldest(handler)
      BY <2>2, ZenonT(30) DEF Oldest
    <3> QED
      BY <1>1, <1>2, <1>8, <2>1, <2>2, <3>1, <3>2, ZenonT(30) DEF Listing, Listed
  <2> QED
    BY <1>1, <1>2, <2>1, <2>2, <2>3, <2>4, <2>5, GoToStep, ZenonT(30)
<1> QED
  BY <1>3, <1>6, <1>7, <1>8, ZenonT(30)

\* The edges of a page are rows of it.
LEMMA EdgesAre ==
  ASSUME Inv, handler.at \in {"oldest", "newest", "enrichPrev", "enrichNext", "respond"}
  PROVE  /\ handler.kind = "list" /\ handler.page \in Seq(jetDrops) /\ handler.page # <<>>
         /\ Edge.oldest = Oldest(handler) /\ Edge.newest \in Nat \ {0}
         /\ \E i \in DOMAIN handler.page : Oldest(handler) = handler.page[i].pulseNumber
         /\ Oldest(handler) \in Nat \ {0}
<1> DEFINE page == handler.page
<1>1. handler.kind = "list" /\ page \in Seq(jetDrops) /\ page # <<>> /\ RowsInv
  BY Zenon DEF Inv, Types, HandlerOf, Stage
<1> HIDE DEF page
<1>2. /\ Len(page) \in Nat \ {0} /\ 1 \in DOMAIN page /\ Len(page) \in DOMAIN page
      /\ Head(page) = page[1]
  BY <1>1
<1>3. page[1].pulseNumber \in Nat \ {0} /\ page[Len(page)].pulseNumber \in Nat \ {0}
  BY <1>1, <1>2, RowFacts
<1>4. Edge.oldest = Oldest(handler)
  BY DEF Edge, Oldest
<1>5. /\ Edge.oldest = IF SortAsc(handler.params.sortBy) THEN page[1].pulseNumber ELSE page[Len(page)].pulseNumber
      /\ Edge.newest = IF SortAsc(handler.params.sortBy) THEN page[Len(page)].pulseNumber ELSE page[1].pulseNumber
  BY <1>2, ZenonT(30) DEF Edge, findEdgePNInJetDrops, page
<1> QED
  BY <1>1, <1>2, <1>3, <1>4, <1>5, ZenonT(30) DEF page

\* A listing that goes on with the same page.
LEMMA ListingStep ==
  ASSUME Inv, handler.at \in {"oldest", "newest", "enrichPrev", "enrichNext"},
         UNCHANGED <<ledger, pulses, jetDrops, response>>,
         handler' \in HandlerOf(jetDrops), handler'.at \in {"newest", "enrichPrev", "enrichNext", "respond"},
         handler'.kind = handler.kind, handler'.params = handler.params, handler'.page = handler.page,
         client' \in ClientOf(jetDrops), client'.atFirst = client.atFirst, client'.cameFrom = client.cameFrom,
         ~client'.failed => ~client.failed,
         handler'.at = "enrichPrev" => handler'.number = Oldest(handler) - 1,
         handler'.at \in {"newest", "enrichNext", "respond"} /\ ~client'.failed =>
           GetJetDrops(client.atFirst, Oldest(handler) - 1) \subseteq handler'.enriched
  PROVE  Inv'
<1>1. Stage(jetDrops, handler, response) /\ Listing(jetDrops, handler, client)
  BY Zenon DEF Inv
<1>2. handler.kind = "list" /\ handler.page # <<>>
  BY EdgesAre, ZenonT(30)
<1>3. client.cameFrom = {} \/ client.failed
  BY NotFollowed
<1>4. Stage(jetDrops, handler', response)
  BY <1>1, <1>2, ZenonT(30) DEF Stage
<1>5. Back(handler', response, client')
  BY <1>3, ZenonT(30) DEF Back
<1>6. \A S : Matching(S, handler') = Matching(S, handler)
  BY DEF Matching
<1>7. Oldest(handler') = Oldest(handler)
  BY Zenon DEF Oldest
<1>8. Listing(jetDrops, handler', client')
  BY <1>1, <1>2, <1>6, <1>7, Zenon DEF Listing, Listed
<1>9. handler.at # "idle" /\ handler'.at # "idle" /\ handler'.at # "prev"
  OBVIOUS
<1> QED
  BY <1>4, <1>5, <1>8, <1>9, GoToStep, ZenonT(30)

LEMMA EnrichOldestStep ==
  ASSUME Inv, EnrichOldest
  PROVE  Inv'
<1> DEFINE D == jetDrops
           p == Oldest(handler)
<1>1. /\ handler \in HandlerOf(D) /\ client \in ClientOf(D) /\ RowsInv /\ client.atFirst \subseteq D
  BY DEF Inv, Types, ClientOf
<1>2. handler.at = "oldest" /\ UNCHANGED <<ledger, pulses, jetDrops>>
  BY DEF EnrichOldest
<1>3. Edge.oldest = p /\ p \in Nat \ {0}
  BY <1>2, EdgesAre, ZenonT(30)
<1>4. PICK ok \in BOOLEAN :
        LET prev == IF ok THEN updatePrevPulse(PulseRows, PulseRow(Edge.oldest)).prevPulseNumber ELSE Unknown
        IN  Attempt(ok) /\ GoTo([handler EXCEPT !.at = IF prev > 0 THEN "enrichPrev" ELSE "newest", !.number = prev])
  BY Zenon DEF EnrichOldest
<1> DEFINE prev == IF ok THEN updatePrevPulse(PulseRows, PulseRow(Edge.oldest)).prevPulseNumber ELSE Unknown
           a == IF prev > 0 THEN "enrichPrev" ELSE "newest"
<1>5. Attempt(ok) /\ handler' = [handler EXCEPT !.at = a, !.number = prev] /\ response' = response
  BY <1>4 DEF GoTo
<1>6. pulses \subseteq Nat \ {0}
  BY <1>1, LedgerFacts, ZenonT(30) DEF RowsInv
<1> HIDE DEF p
<1>7. prev = IF ok /\ p - 1 \in pulses THEN p - 1 ELSE Unknown
  <2>1. updatePrevPulse(PulseRows, PulseRow(p)).prevPulseNumber = IF p - 1 \in pulses THEN p - 1 ELSE Unknown
    BY <1>3, <1>6, PrevPulseIs, ZenonT(30) DEF PulseRows
  <2> QED
    BY <1>3, <2>1, ZenonT(30)
<1> HIDE DEF prev
<1>8. prev \in Int /\ (prev > 0 => prev = p - 1) /\ (ok /\ ~ (prev > 0) => p - 1 \notin pulses)
  BY <1>3, <1>6, <1>7 DEF Unknown
<1>9. /\ a \in {"enrichPrev", "newest"} /\ a \in Place /\ (a = "enrichPrev" => prev = p - 1)
      /\ (ok /\ a = "newest" => p - 1 \notin pulses)
  BY <1>8 DEF Place
<1> HIDE DEF a
<1>10. /\ handler' \in HandlerOf(D) /\ handler'.at = a /\ handler'.kind = handler.kind /\ handler'.params = handler.params
       /\ handler'.page = handler.page /\ handler'.number = prev
  BY <1>1, <1>5, <1>8, <1>9, Zenon DEF HandlerOf
<1>11. /\ client' \in ClientOf(D) /\ client'.atFirst = client.atFirst /\ client'.cameFrom = client.cameFrom
       /\ (~client'.failed => ok) /\ (~client'.failed => ~client.failed)
  BY <1>1, <1>5, AttemptIs, ZenonT(30)
<1>12. ASSUME a = "newest", ~client'.failed PROVE GetJetDrops(client.atFirst, p - 1) = {}
  <2>1. p - 1 \notin pulses
    BY <1>9, <1>11, <1>12, ZenonT(30)
  <2> QED
    BY <1>1, <2>1, ZenonT(30) DEF RowsInv, GetJetDrops
<1>13. a = "newest" /\ ~client'.failed => GetJetDrops(client.atFirst, Oldest(handler) - 1) \subseteq handler'.enriched
  BY <1>12 DEF p
<1>14. a = "enrichPrev" => handler'.number = Oldest(handler) - 1
  BY <1>9, <1>10 DEF p
<1> QED
  BY <1>2, <1>5, <1>9, <1>10, <1>11, <1>13, <1>14, ListingStep, ZenonT(30)

LEMMA EnrichNewestStep ==
  ASSUME Inv, EnrichNewest
  PROVE  Inv'
<1> DEFINE D == jetDrops
<1>1. /\ handler \in HandlerOf(D) /\ client \in ClientOf(D) /\ RowsInv /\ Listing(D, handler, client)
  BY DEF Inv, Types, ClientOf
<1>2. handler.at = "newest" /\ UNCHANGED <<ledger, pulses, jetDrops>>
  BY DEF EnrichNewest
<1>3. Edge.newest \in Nat
  BY <1>2, EdgesAre, ZenonT(30)
<1>4. PICK ok \in BOOLEAN :
        LET next == IF ok THEN GetNextSavedPulse(PulseRows, Edge.newest) ELSE Absent
        IN  Attempt(ok) /\ GoTo([handler EXCEPT !.at = IF next # Absent THEN "enrichNext" ELSE "respond",
                                                !.number = Or(next, Unknown)])
  BY Zenon DEF EnrichNewest
<1> DEFINE next == IF ok THEN GetNextSavedPulse(PulseRows, Edge.newest) ELSE Absent
           a == IF next # Absent THEN "enrichNext" ELSE "respond"
           number == Or(next, Unknown)
<1>5. Attempt(ok) /\ handler' = [handler EXCEPT !.at = a, !.number = number] /\ response' = response
  BY <1>4 DEF GoTo
<1>6. pulses \subseteq Nat
  BY <1>1, LedgerFacts, ZenonT(30) DEF RowsInv
<1>7. number \in Int
  <2>1. GetNextSavedPulse(PulseRows, Edge.newest) # Absent => Or(GetNextSavedPulse(PulseRows, Edge.newest), Unknown) \in Nat
    BY <1>3, <1>6, NextSavedIs, ZenonT(30) DEF PulseRows
  <2>2. Or(Absent, Unknown) = Unknown /\ Unknown \in Int
    BY DEF Or, Absent, Unknown
  <2> QED
    BY <2>1, <2>2
<1>8. a \in {"enrichNext", "respond"} /\ a \in Place
  BY DEF Place
<1> HIDE DEF a, number, next
<1>9. /\ handler' \in HandlerOf(D) /\ handler'.at = a /\ handler'.kind = handler.kind /\ handler'.params = handler.params
      /\ handler'.page = handler.page /\ handler'.enriched = handler.enriched
  BY <1>1, <1>5, <1>7, <1>8, Zenon DEF HandlerOf
<1>10. /\ client' \in ClientOf(D) /\ client'.atFirst = client.atFirst /\ client'.cameFrom = client.cameFrom
       /\ (~client'.failed => ~client.failed)
  BY <1>1, <1>5, AttemptIs, ZenonT(30)
<1>11. ~client'.failed => GetJetDrops(client.atFirst, Oldest(handler) - 1) \subseteq handler'.enriched
  BY <1>1, <1>2, <1>9, <1>10, ZenonT(30) DEF Listing
<1> QED
  BY <1>2, <1>5, <1>8, <1>9, <1>10, <1>11, ListingStep, ZenonT(30)

LEMMA EnrichDropsStep ==
  ASSUME Inv, EnrichDrops
  PROVE  Inv'
<1> DEFINE D == jetDrops
           a == IF handler.at = "enrichPrev" THEN "newest" ELSE "respond"
           more == handler.enriched \cup GetJetDrops(D, handler.number)
<1>1. /\ handler \in HandlerOf(D) /\ client \in ClientOf(D) /\ Listing(D, handler, client) /\ client.atFirst \subseteq D
  BY DEF Inv, Types, ClientOf
<1>2. /\ handler.at \in {"enrichPrev", "enrichNext"} /\ UNCHANGED <<ledger, pulses, jetDrops, client, response>>
      /\ handler' = [handler EXCEPT !.at = a, !.enriched = more]
  BY <1>1 DEF EnrichDrops, GoTo, HandlerOf
<1>3. more \in SUBSET D
  BY <1>1 DEF HandlerOf, GetJetDrops
<1>4. ~client.failed => GetJetDrops(client.atFirst, Oldest(handler) - 1) \subseteq more
  <2>1. CASE handler.at = "enrichPrev"
    BY <1>1, <2>1, ZenonT(30) DEF Listing, GetJetDrops
  <2>2. CASE handler.at = "enrichNext"
    BY <1>1, <2>2, ZenonT(30) DEF Listing
  <2> QED
    BY <1>2, <2>1, <2>2, ZenonT(30)
<1>5. a \in {"newest", "respond"} /\ a \in Place
  BY DEF Place
<1> HIDE DEF a, more
<1>6. /\ handler' \in HandlerOf(D) /\ handler'.at = a /\ handler'.kind = handler.kind /\ handler'.params = handler.params
      /\ handler'.page = handler.page /\ handler'.enriched = more
  BY <1>1, <1>2, <1>3, <1>5, Zenon DEF HandlerOf
<1> QED
  BY <1>1, <1>2, <1>4, <1>5, <1>6, ListingStep, ZenonT(30)

LEMMA SuccessorIs ==
  ASSUME RowsInv, NEW d \in jetDrops, NEW e \in jetDrops, d.hash \in PrevHashes(e)
  PROVE  e.pulseNumber = d.pulseNumber + 1 /\ e.jetID \in Siblings(d.jetID)
<1>1. d.pulseNumber = e.pulseNumber - 1 /\ d.jetID \in Siblings(e.jetID)
  BY NeighbourIs
<1>2. e.pulseNumber \in Nat /\ e.jetID \in Bits
  BY RowFacts
<1> QED
  BY <1>1, <1>2, SiblingsRelated

\* GetJetIDParents gives every jet above one.
LEMMA ParentsAre ==
  ASSUME NEW a \in Bits, NEW b \in Bits, IsPrefix(a, b)
  PROVE  a \in GetJetIDParents(b)
<1> DEFINE n == Len(a)
           s == SubSeq(b, 1, n)
<1>1. n \in Nat /\ n <= Len(b) /\ Len(b) \in Nat /\ \A k \in 1 .. n : a[k] = b[k]
  BY PrefixIs DEF Bits
<1> HIDE DEF n
<1>2. s \in Bits /\ Len(s) = n /\ \A k \in 1 .. n : s[k] = b[k]
  BY <1>1 DEF Bits
<1>3. s = a
  BY <1>1, <1>2, SameJet, Zenon DEF n
<1>4. n \in 0 .. Len(b)
  BY <1>1
<1> QED
  BY <1>3, <1>4, ZenonT(30) DEF GetJetIDParents

\* A number from low up to high is within the bounds that both of them are within.
LEMMA BoundsBetween ==
  ASSUME NEW low \in Nat, NEW n \in Nat, NEW high \in Nat, NEW b \in Int, low <= n, n < high
  PROVE  /\ low > b => n > b
         /\ low >= b => n >= b
         /\ high < b => n < b
         /\ high <= b => n <= b
OBVIOUS

\* The number before one that is above low is not below low.
LEMMA OneBelow ==
  \A low, n, high \in Nat : n = high - 1 /\ low <= high /\ high # low => n < high /\ low <= n
OBVIOUS

\* A predecessor in line is in the pulse before the oldest, or between two that are listed.
LEMMA PredecessorKnown ==
  ASSUME Inv, handler.at = "respond", ~client.failed, Len(handler.page) < ListLimit(handler.params),
         NEW i \in DOMAIN handler.page, NEW e \in InLine(client.atFirst, handler),
         e.pulseNumber = handler.page[i].pulseNumber - 1
  PROVE  e \in handler.enriched \cup Range(handler.page)
<1> DEFINE D == jetDrops
           q == handler.params
           d == handler.page[i]
           jet == JetIDOfPath(q.jetID)
<1>1. /\ handler \in HandlerOf(D) /\ client.atFirst \subseteq D /\ RowsInv
      /\ Stage(D, handler, response) /\ Listing(D, handler, client)
  BY DEF Inv, Types, ClientOf
<1>2. /\ handler.kind = "list" /\ handler.page \in Seq(D) /\ Oldest(handler) \in Nat
      /\ \E k \in DOMAIN handler.page : Oldest(handler) = handler.page[k].pulseNumber
  BY EdgesAre, ZenonT(30)
<1>3. PICK k \in DOMAIN handler.page : Oldest(handler) = handler.page[k].pulseNumber
  BY <1>2
<1> DEFINE o == handler.page[k]
<1>4. /\ d \in Matching(D, handler) /\ o \in Matching(D, handler) /\ o.pulseNumber <= d.pulseNumber
      /\ Matching(client.atFirst, handler) \subseteq Range(handler.page)
      /\ GetJetDrops(client.atFirst, o.pulseNumber - 1) \subseteq handler.enriched
  BY <1>1, <1>2, <1>3, ZenonT(30) DEF Listing, Listed
<1>5. d \in D /\ o \in D /\ e \in D /\ e \in client.atFirst /\ Related(e.jetID, jet)
  BY <1>1, <1>2 DEF InLine
<1>6. d.pulseNumber \in Nat /\ o.pulseNumber \in Nat /\ e.pulseNumber \in Nat /\ e.jetID \in Bits
  BY <1>1, <1>5, RowFacts, ZenonT(30)
<1>7. jet \in Bits
  BY <1>1, <1>2, Zenon DEF Stage
<1>8. q.lte \subseteq Int /\ q.lt \subseteq Int /\ q.gte \subseteq Int /\ q.gt \subseteq Int
  BY <1>1 DEF HandlerOf, Params
<1> HIDE DEF d, o
<1>9. CASE d.pulseNumber = o.pulseNumber
  BY <1>4, <1>5, <1>9, ZenonT(30) DEF GetJetDrops, d
<1>10. CASE d.pulseNumber # o.pulseNumber
  <2>1. e.pulseNumber < d.pulseNumber /\ o.pulseNumber <= e.pulseNumber
    BY <1>4, <1>6, <1>10, OneBelow, ZenonT(30) DEF d
  <2>2. /\ \A b \in q.gt : o.pulseNumber > b
        /\ \A b \in q.lt : d.pulseNumber < b
        /\ \A b \in q.lte : d.pulseNumber <= b
        /\ \A b \in q.gte : o.pulseNumber >= b
    BY <1>2, <1>4, ZenonT(30) DEF Matching, GetJetDropsByJetID, filterByPulseNumber, filterByPulse
  <2>3. /\ \A b \in q.gt : e.pulseNumber > b
        /\ \A b \in q.lt : e.pulseNumber < b
        /\ \A b \in q.lte : e.pulseNumber <= b
        /\ \A b \in q.gte : e.pulseNumber >= b
    <3>1. \A b \in q.gt : e.pulseNumber > b
      BY <1>6, <1>8, <2>1, <2>2, BoundsBetween, ZenonT(30)
    <3>2. \A b \in q.lt : e.pulseNumber < b
      BY <1>6, <1>8, <2>1, <2>2, BoundsBetween, ZenonT(30)
    <3>3. \A b \in q.lte : e.pulseNumber <= b
      BY <1>6, <1>8, <2>1, <2>2, BoundsBetween, ZenonT(30)
    <3>4. \A b \in q.gte : e.pulseNumber >= b
      BY <1>6, <1>8, <2>1, <2>2, BoundsBetween, ZenonT(30)
    <3> QED
      BY <3>1, <3>2, <3>3, <3>4, ZenonT(30)
  <2>4. e.jetID \in GetJetIDParents(jet) \/ IsPrefix(jet, e.jetID)
    BY <1>5, <1>6, <1>7, ParentsAre, ZenonT(30) DEF Related
  <2>5. e \in Matching(client.atFirst, handler)
    BY <1>2, <1>5, <2>3, <2>4, ZenonT(30) DEF Matching, GetJetDropsByJetID, filterByPulseNumber, filterByPulse
  <2> QED
    BY <1>4, <2>5, ZenonT(30)
<1> QED
  BY <1>9, <1>10, ZenonT(30)

LEMMA RespondStep ==
  ASSUME Inv, Respond
  PROVE  Inv'
<1> DEFINE D == jetDrops
           page == handler.page
           known == handler.enriched \cup Range(page)
           prev(d) == {e \in known : e.hash \in d.firstPrevHash \cup d.secondPrevHash}
           next(d) == {e \in known : d.hash \in e.firstPrevHash}
           drops == [i \in DOMAIN page |-> JetDropToAPI(page[i], prev(page[i]), next(page[i]))]
<1>1. /\ handler \in HandlerOf(D) /\ client \in ClientOf(D) /\ Stage(D, handler, response)
      /\ RowsInv /\ client.atFirst \subseteq D
  BY DEF Inv, Types, ClientOf
<1>2. /\ handler.at = "respond" /\ RespondWith(drops, handler.total)
      /\ UNCHANGED <<ledger, pulses, jetDrops, client>>
  BY DEF Respond
<1>3. handler.kind = "list" /\ page \in Seq(D) /\ handler.total \in Nat
  BY <1>1, <1>2, EdgesAre, ZenonT(30) DEF HandlerOf
<1>4. known \subseteq D
  BY <1>1, <1>3 DEF HandlerOf, Range
<1>5. client.cameFrom = {} \/ client.failed
  BY <1>2, NotFollowed, ZenonT(30)
<1> HIDE DEF known
<1>6. ASSUME NEW d \in D
      PROVE  /\ prev(d) = GetSiblings(known, d.pulseNumber - 1, d.jetID)
             /\ prev(d) \in SUBSET GetSiblings(D, d.pulseNumber - 1, d.jetID)
             /\ next(d) \in SUBSET GetSiblings(D, d.pulseNumber + 1, d.jetID)
  <2>1. prev(d) = GetSiblings(known, d.pulseNumber - 1, d.jetID)
    <3>1. \A e \in known : e.hash \in d.firstPrevHash \cup d.secondPrevHash <=>
                             e.pulseNumber = d.pulseNumber - 1 /\ e.jetID \in Siblings(d.jetID)
      BY <1>1, <1>4, NeighbourIs, ZenonT(30) DEF PrevHashes
    <3> QED
      BY <3>1, ZenonT(30) DEF GetSiblings, GetJetDrops
  <2>2. prev(d) \in SUBSET GetSiblings(D, d.pulseNumber - 1, d.jetID)
    BY <1>4, <2>1, ZenonT(30) DEF GetSiblings, GetJetDrops
  <2>3. \A e \in next(d) : e \in D /\ d.hash \in PrevHashes(e)
    BY <1>4, ZenonT(30) DEF PrevHashes
  <2>4. \A e \in next(d) : e.pulseNumber = d.pulseNumber + 1 /\ e.jetID \in Siblings(d.jetID)
    BY <1>1, <2>3, SuccessorIs, ZenonT(30)
  <2> QED
    BY <2>1, <2>2, <2>3, <2>4, ZenonT(30) DEF GetSiblings, GetJetDrops
<1> HIDE DEF prev, next
<1>7. ASSUME NEW i \in DOMAIN page
      PROVE  /\ page[i] \in D
             /\ drops[i] \in Shown /\ drops[i].jetDropID = Link(page[i]) /\ drops[i].prev = Links(prev(page[i]))
             /\ drops[i].prev \subseteq Predecessors(D, drops[i].jetDropID)
             /\ drops[i].next \subseteq Successors(D, drops[i].jetDropID)
  <2> DEFINE d == page[i]
             x == drops[i]
             p == prev(d)
             n == next(d)
  <2>1. d \in D
    BY <1>3
  <2>2. x = JetDropToAPI(d, p, n)
    OBVIOUS
  <2>3. Beside(d, p, n)
    BY <1>6, <2>1, ZenonT(30) DEF Beside
  <2> HIDE DEF x, d, p, n
  <2>4. /\ x \in Shown /\ x.jetDropID = Link(d) /\ x.prev = Links(p)
        /\ x.prev \subseteq Predecessors(D, x.jetDropID) /\ x.next \subseteq Successors(D, x.jetDropID)
    BY <1>1, <2>1, <2>2, <2>3, ShownTrue, SMTT(20)
  <2> QED
    BY <2>1, <2>4, Zenon DEF x, d, p
<1>8. DOMAIN drops = DOMAIN page /\ drops \in Seq(Shown) /\ Len(drops) = Len(page)
  <2>1. Len(page) \in Nat /\ DOMAIN page = 1 .. Len(page) /\ DOMAIN drops = DOMAIN page
    BY <1>3
  <2>2. drops = [i \in 1 .. Len(page) |-> drops[i]]
    BY <2>1, ZenonT(30)
  <2> HIDE DEF drops
  <2>3. \A i \in 1 .. Len(page) : drops[i] \in Shown
    BY <1>7, <2>1, ZenonT(30)
  <2>4. drops \in Seq(Shown)
    BY <2>1, <2>2, <2>3
  <2>5. Len(drops) = Len(page)
    BY <2>1, <2>4
  <2> QED
    BY <2>1, <2>4, <2>5, ZenonT(30)
<1> HIDE DEF drops
<1>9. /\ response' \in Response /\ response'.status = "200" /\ response'.drops = drops
      /\ handler' \in HandlerOf(D) /\ handler'.at = "idle" /\ handler'.kind = "list" /\ handler'.params = handler.params
  BY <1>1, <1>2, <1>3, <1>8, RespondIs, ZenonT(30)
<1>10. Types(D, handler', response', client') /\ Stage(D, handler', response')
  BY <1>1, <1>2, <1>3, <1>9, Zenon DEF Types, Stage
<1>11. TrueAnswer(response')
  BY <1>7, <1>8, <1>9, Zenon DEF TrueAnswer
<1>12. ByID(D, handler', response', client')
  BY <1>9, Zenon DEF ByID
<1>13. Back(handler', response', client') /\ Listing(D, handler', client')
  BY <1>2, <1>5, <1>9, ZenonT(30) DEF Back, Listing, Listed
<1>14. ListAnswer(D, handler', response', client')
  <2> SUFFICES ASSUME ~client.failed, Len(page) < ListLimit(handler.params), NEW i \in DOMAIN page
               PROVE  Links(GetSiblings(InLine(client.atFirst, handler), page[i].pulseNumber - 1, page[i].jetID))
                        \subseteq drops[i].prev
    <3>1. InLine(client.atFirst, handler') = InLine(client.atFirst, handler)
      BY <1>9, ZenonT(30) DEF InLine
    <3> QED
      BY <1>2, <1>7, <1>8, <1>9, <3>1, Zenon DEF ListAnswer
  <2>1. \A e \in InLine(client.atFirst, handler) : e.pulseNumber = page[i].pulseNumber - 1 => e \in known
    BY <1>2, PredecessorKnown, ZenonT(30) DEF known
  <2>2. GetSiblings(InLine(client.atFirst, handler), page[i].pulseNumber - 1, page[i].jetID) \subseteq
          GetSiblings(known, page[i].pulseNumber - 1, page[i].jetID)
    BY <2>1, ZenonT(30) DEF GetSiblings, GetJetDrops
  <2>3. drops[i].prev = Links(GetSiblings(known, page[i].pulseNumber - 1, page[i].jetID))
    BY <1>6, <1>7, Zenon
  <2> QED
    BY <2>2, <2>3, ZenonT(30) DEF Links
<1> QED
  BY <1>2, <1>10, <1>11, <1>12, <1>13, <1>14, ReadStep, ZenonT(30)
-----------------------------------------------------------------------------
(***************************************************************************)
(* The theorems.                                                           *)
(***************************************************************************)
LEMMA InvInit == Init => Inv
<1> SUFFICES ASSUME Init PROVE Inv
  OBVIOUS
<1> DEFINE D == jetDrops
<1>1. /\ ledger \in Ledgers /\ pulses = {} /\ jetDrops = {}
      /\ handler = Idle /\ response = Answer("none") /\ client = NoClient
  BY DEF Init
<1>2. RowsInv
  BY <1>1, FS_EmptySet, ZenonT(30) DEF RowsInv
<1>3. Idle \in HandlerOf(D) /\ Idle.at = "idle" /\ Idle.kind = "none"
  BY IdleTyped, Zenon DEF Idle
<1>4. NoClient \in ClientOf(D) /\ NoClient.cameFrom = {}
  BY NoClientTyped, Zenon
<1>5. /\ Types(D, Idle, Answer("none"), NoClient) /\ Stage(D, Idle, Answer("none")) /\ TrueAnswer(Answer("none"))
      /\ ByID(D, Idle, Answer("none"), NoClient) /\ Listing(D, Idle, NoClient)
      /\ ListAnswer(D, Idle, Answer("none"), NoClient)
  BY <1>3, <1>4, EmptyAnswer, Zenon DEF Status
<1>6. Back(handler, response, client)
  BY <1>1, <1>4, Zenon DEF Back
<1>7. LinksAreTrue
  BY <1>1, <1>5, Zenon DEF LinksAreTrue, TrueAnswer
<1> QED
  BY <1>1, <1>2, <1>5, <1>6, <1>7, ZenonT(30) DEF Inv

LEMMA InvNext == Inv /\ [Next]_vars => Inv'
<1> SUFFICES ASSUME Inv, [Next]_vars PROVE Inv'
  OBVIOUS
<1>1. ASSUME NEW p \in DOMAIN ledger, SavePulse(p) PROVE Inv'
  BY <1>1, SavePulseStep, ZenonT(30)
<1>2. ASSUME NEW p \in DOMAIN ledger, NEW j \in ledger[p], SaveJetDropData(j, p) PROVE Inv'
  BY <1>2, SaveJetDropDataStep, ZenonT(30)
<1>3. ASSUME NEW id \in PathRequests, JetDropByID(id) PROVE Inv'
  BY <1>3, JetDropByIDStep, ZenonT(30)
<1>4. ASSUME NEW q \in ListRequests, JetDropsByJetID(q) PROVE Inv'
  BY <1>4, JetDropsByJetIDStep, ZenonT(30)
<1>5. ASSUME NEW q \in PulseRequests, JetDropsByPulseNumber(q) PROVE Inv'
  BY <1>5, JetDropsByPulseNumberStep, ZenonT(30)
<1>6. CASE NextPage
  BY <1>6, NextPageStep, ZenonT(30)
<1>7. CASE FollowLink
  BY <1>7, FollowLinkStep, ZenonT(30)
<1>8. CASE Done
  BY <1>8, DoneStep, ZenonT(30)
<1>9. CASE Handle
  BY <1>9, StatementFailsStep, FindDropStep, FindNextPulseStep, FindNextSiblingsStep, FindPrevSiblingsStep,
     FindStep, CountStep, EnrichOldestStep, EnrichNewestStep, EnrichDropsStep, RespondStep, ZenonT(30) DEF Handle
<1>10. CASE UNCHANGED vars
  <2>1. UNCHANGED <<ledger, pulses, jetDrops>> /\ UNCHANGED <<handler, response, client>>
    BY <1>10 DEF vars
  <2>2. RowsInv'
    BY <2>1, RowStays, Zenon DEF Inv, RowsInv
  <2> QED
    BY <2>1, <2>2, SaveStep, ZenonT(30)
<1> QED
  BY <1>1, <1>2, <1>3, <1>4, <1>5, <1>6, <1>7, <1>8, <1>9, <1>10, ZenonT(30) DEF Next

LEMMA Invariance == Spec => []Inv
BY InvInit, InvNext, PTL DEF Spec

-----------------------------------------------------------------------------
(***************************************************************************)
(* Paging through the jet drops of a pulse.                                *)
(***************************************************************************)
JetsBefore(S, d) == {q \in S : JetBefore(q.jetID, d.jetID)}

\* A page from place n on, or a later one, can show d.
Ahead(D, h, n, d) == d \in Matching(D, h) /\ Cardinality(JetsBefore(Matching(D, h), d)) >= n

(***************************************************************************)
(* Each jet drop of the pulse that was there at the first request has been *)
(* shown, is on the page just read, or is ahead: rows that are saved in    *)
(* between only move it away from the first page.                          *)
(***************************************************************************)
Paging(D, h, r, c) ==
  h.kind = "pulse" =>
    LET limit == Limit(h.params.limit)
        offset == Offset(h.params.offset)
    IN  \A d \in GetJetDrops(c.atFirst, h.params.pulseNumber) :
          \/ Link(d) \in c.seen
          \/ h.at = "find" /\ Ahead(D, h, offset, d)
          \/ h.at = "count" /\ d \in Range(h.page)
          \/ /\ h.at = "count" /\ Len(h.page) = limit /\ Ahead(D, h, offset + limit, d)
             /\ JetBefore(h.page[limit].jetID, d.jetID)
          \/ /\ h.at = "idle" /\ r.status = "200" /\ Len(r.drops) = limit /\ Ahead(D, h, offset + limit, d)
             /\ \E x \in D : r.drops[limit].jetDropID = Link(x) /\ JetBefore(x.jetID, d.jetID)

PagingInv == Paging(jetDrops, handler, response, client)

LEMMA AheadGrows ==
  ASSUME NEW D, IsFiniteSet(D), NEW C \in SUBSET D, NEW h, NEW n \in Nat, NEW d, Ahead(C, h, n, d)
  PROVE  Ahead(D, h, n, d)
<1> DEFINE S == JetsBefore(Matching(C, h), d)
           T == JetsBefore(Matching(D, h), d)
<1>1. Matching(C, h) \subseteq Matching(D, h) /\ Matching(D, h) \subseteq D
  BY MatchingRows
<1>2. T \in SUBSET D /\ S \in SUBSET T
  BY <1>1 DEF JetsBefore
<1>3. d \in Matching(D, h) /\ Cardinality(S) >= n
  BY <1>1, ZenonT(30) DEF Ahead
<1> HIDE DEF S, T
<1>4. IsFiniteSet(T)
  BY <1>2, FS_Subset, ZenonT(30)
<1>5. IsFiniteSet(S) /\ Cardinality(S) <= Cardinality(T)
  BY <1>2, <1>4, FS_Subset, ZenonT(30)
<1>6. Cardinality(S) \in Nat /\ Cardinality(T) \in Nat
  BY <1>4, <1>5, FS_CardinalityType, ZenonT(30)
<1>7. Cardinality(T) >= n
  BY <1>3, <1>5, <1>6
<1> QED
  BY <1>3, <1>7, ZenonT(30) DEF Ahead, T

LEMMA PagingGrows ==
  ASSUME NEW D, IsFiniteSet(D), NEW C \in SUBSET D, NEW h, NEW r, NEW c, Paging(C, h, r, c), Stage(C, h, r)
  PROVE  Paging(D, h, r, c)
<1> SUFFICES ASSUME h.kind = "pulse" PROVE Paging(D, h, r, c)
  BY ZenonT(30) DEF Paging
<1> DEFINE limit == Limit(h.params.limit)
           offset == Offset(h.params.offset)
<1>1. limit \in Nat /\ offset \in Nat
  BY DEF Stage
<1>2. \A d : Ahead(C, h, offset, d) => Ahead(D, h, offset, d)
  BY <1>1, AheadGrows, ZenonT(30)
<1>3. offset + limit \in Nat
  BY <1>1
<1>4. \A d : Ahead(C, h, offset + limit, d) => Ahead(D, h, offset + limit, d)
  BY <1>3, AheadGrows, ZenonT(30)
<1> QED
  BY <1>2, <1>4, ZenonT(30) DEF Paging

LEMMA PageAdvances ==
  ASSUME RowsInv, NEW S \in SUBSET jetDrops, \A d, e \in S : d.pulseNumber = e.pulseNumber,
         NEW limit \in Nat \ {0}, NEW offset \in Nat, NEW page, page = Page(SortJetDropsOfPulse(S), limit, offset),
         NEW d \in S, Cardinality(JetsBefore(S, d)) >= offset
  PROVE  \/ d \in Range(page)
         \/ /\ Len(page) = limit /\ Cardinality(JetsBefore(S, d)) >= offset + limit
            /\ JetBefore(page[limit].jetID, d.jetID)
<1> DEFINE R == JetOrder(jetDrops)
<1>1. IsFiniteSet(S) /\ StrictOrder(R, S)
  BY FS_Subset, JetOrderIsStrict, ZenonT(30) DEF RowsInv
<1>2. page = Page(InOrder(R, S), limit, offset)
  BY SortJetDropsOfPulseIs, ZenonT(30)
<1>3. Lower(R, S, d) = JetsBefore(S, d)
  BY DEF Lower, JetsBefore, JetOrder
<1>4. Rank(R, S, d) = Cardinality(JetsBefore(S, d))
  BY <1>3, ZenonT(30) DEF Rank
<1>5. \A e \in S : <<e, d>> \in R => JetBefore(e.jetID, d.jetID)
  BY ZenonT(30) DEF JetOrder
<1> HIDE DEF R
<1>6. \/ d \in Range(page)
      \/ /\ Len(page) = limit /\ Rank(R, S, d) >= offset + limit
         /\ page[limit] \in S /\ <<page[limit], d>> \in R
  BY <1>1, <1>2, <1>4, OnPageOrAfterIt
<1> QED
  BY <1>4, <1>5, <1>6, ZenonT(30)

\* Saving moves nothing towards the first page.
LEMMA PagingSave ==
  ASSUME Inv, Inv', PagingInv, UNCHANGED <<handler, response, client>>, jetDrops \subseteq jetDrops'
  PROVE  PagingInv'
<1> DEFINE D == jetDrops'
<1>1. Paging(jetDrops, handler, response, client) /\ Stage(jetDrops, handler, response)
  BY ZenonT(30) DEF Inv, PagingInv
<1>2. IsFiniteSet(D) /\ jetDrops \in SUBSET D
  BY DEF Inv, RowsInv
<1> HIDE DEF D
<1>3. Paging(D, handler, response, client)
  BY <1>1, <1>2, PagingGrows, ZenonT(30)
<1> QED
  BY <1>3, ZenonT(30) DEF D, PagingInv

\* A request for the jet drops of a pulse is refused, or begins.
LEMMA PageIsAskedFor ==
  ASSUME NEW q, AskByPulse(q)
  PROVE  \/ handler'.kind = "none"
         \/ /\ handler'.kind = "pulse" /\ handler'.at = "find" /\ handler'.params = q
            /\ checkLimitOffset(q.limit, q.offset) = {}
<1> DEFINE failures ==
             checkLimitOffset(q.limit, q.offset) \cup getPulseNumberValue({q.pulseNumber}, "pulse") \cup
             UNION {checkJetDropID(id, "jet drop id") : id \in q.fromJetDropID}
           i == Idle
           h == [i EXCEPT !.kind = "pulse", !.at = "find", !.params = q]
<1>1. Receive(failures, h)
  BY Zenon DEF AskByPulse
<1>2. DOMAIN i = {"kind", "at", "params", "page", "total", "number", "enriched"} /\ i.kind = "none"
  BY DEF Idle
<1>3. failures = {} => checkLimitOffset(q.limit, q.offset) = {}
  BY Zenon
<1>4. IF failures # {} THEN handler' = i ELSE handler' = h
  BY <1>1, Zenon DEF Receive
<1> HIDE DEF failures, i
<1>5. h.kind = "pulse" /\ h.at = "find" /\ h.params = q
  BY <1>2, ZenonT(30)
<1> QED
  BY <1>2, <1>3, <1>4, <1>5, Zenon

LEMMA PagingFirst ==
  ASSUME Inv, NEW q \in PulseRequests, JetDropsByPulseNumber(q)
  PROVE  PagingInv'
<1>1. AskByPulse(q) /\ UNCHANGED jetDrops /\ client'.atFirst = jetDrops
  <2>1. PICK by \in {"offset", "id"} : FirstRequest(by)
    BY DEF JetDropsByPulseNumber
  <2>2. client'.atFirst = jetDrops
    BY <2>1, FirstRequestIs, ZenonT(30)
  <2> QED
    BY <2>1, <2>2, ZenonT(30) DEF JetDropsByPulseNumber, FirstRequest
<1> SUFFICES ASSUME handler'.kind = "pulse" PROVE PagingInv'
  BY DEF PagingInv, Paging
<1>2. handler'.at = "find" /\ handler'.params = q /\ checkLimitOffset(q.limit, q.offset) = {}
  BY <1>1, PageIsAskedFor, ZenonT(30)
<1>3. q.limit \in SUBSET Int /\ q.offset \in SUBSET Int
  BY RequestsAssumption, ZenonT(30) DEF Params
<1>4. Offset(q.offset) = 0 /\ q.fromJetDropID = {}
  <2>1. Offset(q.offset) \in Nat
    BY <1>2, <1>3, LimitChecked, ZenonT(30)
  <2> QED
    BY <2>1, FirstPageAssumption DEF Absent
<1>5. ASSUME NEW d \in GetJetDrops(jetDrops, q.pulseNumber)
      PROVE  Ahead(jetDrops, handler', 0, d)
  <2> DEFINE S == Matching(jetDrops, handler')
  <2>1. S = GetJetDrops(jetDrops, q.pulseNumber)
    BY <1>2, <1>4, ZenonT(30) DEF Matching, GetJetDropsWithParams
  <2>2. IsFiniteSet(jetDrops) /\ S \in SUBSET jetDrops
    BY <2>1, ZenonT(30) DEF Inv, RowsInv, GetJetDrops
  <2> HIDE DEF S
  <2>3. JetsBefore(S, d) \in SUBSET jetDrops
    BY <2>2 DEF JetsBefore
  <2>4. Cardinality(JetsBefore(S, d)) \in Nat
    BY <2>2, <2>3, FS_Subset, FS_CardinalityType, ZenonT(30)
  <2>5. d \in S /\ Cardinality(JetsBefore(S, d)) >= 0
    BY <2>1, <2>4, SMTT(20)
  <2> QED
    BY <2>5, ZenonT(30) DEF Ahead, S
<1> QED
  BY <1>1, <1>2, <1>4, <1>5, ZenonT(30) DEF PagingInv, Paging

\* The next page begins where the last one ended, by offset or at its last jet drop.
LEMMA PagingNext ==
  ASSUME Inv, PagingInv, NextPage
  PROVE  PagingInv'
<1> DEFINE D == jetDrops
           q == handler.params
           n == Limit(q.limit)
           o == Offset(q.offset)
           last == response.drops[n].jetDropID
           byOffset == [q EXCEPT !.offset = {o + n}]
           byID == [q EXCEPT !.fromJetDropID = {last}, !.offset = Absent]
<1>1. /\ response.status = "200" /\ handler.kind = "pulse" /\ UNCHANGED <<jetDrops, client>>
      /\ AskByPulse(IF client.by = "offset" THEN byOffset ELSE byID)
  BY DEF NextPage
<1>2. /\ Stage(D, handler, response) /\ RowsInv /\ q \in Params /\ client.atFirst \in SUBSET D
      /\ Paging(D, handler, response, client)
  BY DEF Inv, Types, HandlerOf, ClientOf, PagingInv
<1>3. handler.at = "idle"
  BY <1>1, Answered, ZenonT(30)
<1>4. n \in Nat \ {0} /\ o \in Nat
  BY <1>1, <1>2, ZenonT(30) DEF Stage
<1>5. \A d \in GetJetDrops(client.atFirst, q.pulseNumber) :
        \/ Link(d) \in client.seen
        \/ /\ Ahead(D, handler, o + n, d)
           /\ \E x \in D : last = Link(x) /\ JetBefore(x.jetID, d.jetID)
  BY <1>1, <1>2, <1>3, Zenon DEF Paging
<1> HIDE DEF q, n, o, last
<1>6. /\ byOffset.pulseNumber = q.pulseNumber /\ byOffset.fromJetDropID = q.fromJetDropID
      /\ byOffset.offset = {o + n} /\ byOffset.limit = q.limit
      /\ byID.pulseNumber = q.pulseNumber /\ byID.fromJetDropID = {last} /\ byID.offset = Absent
  BY <1>2, ZenonT(30) DEF Params
<1> HIDE DEF byOffset, byID
<1> SUFFICES ASSUME handler'.kind = "pulse" PROVE PagingInv'
  BY Zenon DEF PagingInv, Paging
<1>7. handler'.at = "find" /\ handler'.params = IF client.by = "offset" THEN byOffset ELSE byID
  BY <1>1, PageIsAskedFor, ZenonT(30)
<1>8. ASSUME client.by = "offset", NEW d, Ahead(D, handler, o + n, d)
      PROVE  Ahead(D, handler', Offset(handler'.params.offset), d)
  <2>1. Offset(handler'.params.offset) = o + n
    BY <1>6, <1>7, <1>8, ZenonT(30) DEF Offset, Or
  <2>2. Matching(D, handler') = Matching(D, handler)
    BY <1>1, <1>6, <1>7, <1>8, ZenonT(30) DEF Matching, q
  <2> QED
    BY <1>8, <2>1, <2>2, ZenonT(30) DEF Ahead
<1>9. ASSUME client.by # "offset", NEW d \in GetJetDrops(D, q.pulseNumber),
             NEW x \in D, last = Link(x), JetBefore(x.jetID, d.jetID)
      PROVE  Ahead(D, handler', Offset(handler'.params.offset), d)
  <2> DEFINE S == Matching(D, handler')
  <2>1. Offset(handler'.params.offset) = 0
    BY <1>6, <1>7, <1>9, ZenonT(30) DEF Offset, Or, Absent
  <2>2. x.jetID \in Bits /\ d.jetID \in Bits /\ d \in D
    BY <1>2, <1>9, RowFacts, ZenonT(30) DEF GetJetDrops
  <2>3. NewJetDropIDFromString(last).jetID = x.jetID
    BY <1>9, <2>2, LinkIs, SMTT(20)
  <2>4. S = GetJetDropsWithParams(D, q.pulseNumber, {x.jetID})
    BY <1>6, <1>7, <1>9, <2>3, ZenonT(30) DEF Matching
  <2>5. ~JetBefore(d.jetID, x.jetID)
    BY <1>9, <2>2, JetBeforeOrders, ZenonT(30)
  <2>6. d \in S
    BY <1>9, <2>4, <2>5, ZenonT(30) DEF GetJetDropsWithParams
  <2>7. S \in SUBSET D
    BY MatchingRows
  <2> HIDE DEF S
  <2>8. JetsBefore(S, d) \in SUBSET D
    BY <2>7, ZenonT(30) DEF JetsBefore
  <2>9. Cardinality(JetsBefore(S, d)) \in Nat
    BY <1>2, <2>8, FS_Subset, FS_CardinalityType, ZenonT(30) DEF RowsInv
  <2> QED
    BY <2>1, <2>6, <2>9, SMTT(20) DEF Ahead, S
<1>10. ASSUME NEW d \in GetJetDrops(client.atFirst, q.pulseNumber), Link(d) \notin client.seen
       PROVE  Ahead(D, handler', Offset(handler'.params.offset), d)
  <2>1. d \in GetJetDrops(D, q.pulseNumber)
    BY <1>2, ZenonT(30) DEF GetJetDrops
  <2> QED
    BY <1>5, <1>8, <1>9, <1>10, <2>1, ZenonT(30)
<1>11. handler'.params.pulseNumber = q.pulseNumber
  BY <1>6, <1>7
<1> QED
  BY <1>1, <1>7, <1>10, <1>11, ZenonT(30) DEF PagingInv, Paging

LEMMA PagingFind ==
  ASSUME Inv, PagingInv, Find
  PROVE  PagingInv'
<1> DEFINE D == jetDrops
           q == handler.params
           rows == Matching(D, handler)
           n == Limit(q.limit)
           o == Offset(q.offset)
           page == IF handler.kind = "list"
                   THEN Page(SortJetDrops(rows, SortAsc(q.sortBy)), ListLimit(q), 0)
                   ELSE Page(SortJetDropsOfPulse(rows), n, o)
<1>1. /\ handler.at = "find" /\ UNCHANGED <<jetDrops, client>>
      /\ handler' = [handler EXCEPT !.at = "count", !.page = page]
  BY DEF Find, GoTo
<1>2. /\ Stage(D, handler, response) /\ RowsInv /\ handler \in HandlerOf(D)
      /\ Paging(D, handler, response, client)
  BY DEF Inv, Types, PagingInv
<1>3. /\ handler'.kind = handler.kind /\ handler'.at = "count" /\ handler'.params = q /\ handler'.page = page
  BY <1>1, <1>2, ZenonT(30) DEF HandlerOf
<1> SUFFICES ASSUME handler.kind = "pulse" PROVE PagingInv'
  BY <1>3, ZenonT(30) DEF PagingInv, Paging
<1>4. n \in Nat \ {0} /\ o \in Nat /\ page = Page(SortJetDropsOfPulse(rows), n, o)
  BY <1>2, ZenonT(30) DEF Stage
<1>5. \A d, e \in rows : d.pulseNumber = e.pulseNumber
  BY DEF Matching, GetJetDropsWithParams, GetJetDrops
<1>6. rows \in SUBSET D
  BY MatchingRows
<1>7. \A d \in GetJetDrops(client.atFirst, q.pulseNumber) : Link(d) \in client.seen \/ Ahead(D, handler, o, d)
  BY <1>1, <1>2, Zenon DEF Paging
<1>8. \A d : Ahead(D, handler, o, d) => d \in rows /\ Cardinality(JetsBefore(rows, d)) >= o
  BY ZenonT(30) DEF Ahead
<1>9. Matching(D, handler') = rows
  BY <1>3, ZenonT(30) DEF Matching
<1> HIDE DEF rows, n, o, page
<1>10. ASSUME NEW d \in rows, Cardinality(JetsBefore(rows, d)) >= o
       PROVE  \/ d \in Range(page)
              \/ /\ Len(page) = n /\ Cardinality(JetsBefore(rows, d)) >= o + n
                 /\ JetBefore(page[n].jetID, d.jetID)
  BY <1>2, <1>4, <1>5, <1>6, <1>10, PageAdvances, ZenonT(30)
<1>11. ASSUME NEW d \in GetJetDrops(client.atFirst, q.pulseNumber)
       PROVE  \/ Link(d) \in client.seen
              \/ d \in Range(page)
              \/ Len(page) = n /\ Ahead(D, handler', o + n, d) /\ JetBefore(page[n].jetID, d.jetID)
  <2>1. CASE Link(d) \notin client.seen
    <3>1. d \in rows /\ Cardinality(JetsBefore(rows, d)) >= o
      BY <1>7, <1>8, <2>1, ZenonT(30)
    <3>2. \/ d \in Range(page)
          \/ /\ Len(page) = n /\ Cardinality(JetsBefore(rows, d)) >= o + n
             /\ JetBefore(page[n].jetID, d.jetID)
      BY <1>10, <3>1, ZenonT(30)
    <3> QED
      BY <1>9, <3>1, <3>2, ZenonT(30) DEF Ahead
  <2> QED
    BY <2>1
<1> QED
  BY <1>1, <1>3, <1>11, ZenonT(30) DEF PagingInv, Paging, n, o

LEMMA PagingCount ==
  ASSUME Inv, PagingInv, Count, handler.kind = "pulse"
  PROVE  PagingInv'
<1> DEFINE D == jetDrops
           q == handler.params
           page == handler.page
           n == Limit(q.limit)
           o == Offset(q.offset)
           total == Cardinality(Matching(D, handler))
           drops == [i \in DOMAIN page |-> JetDropToAPI(page[i], {}, {})]
           seen == client.seen \cup {Link(d) : d \in Range(page)}
<1>1. /\ handler.at = "count" /\ UNCHANGED jetDrops
      /\ RespondWith(drops, total) /\ client' = [client EXCEPT !.seen = seen]
  BY ZenonT(30) DEF Count
<1>2. /\ Stage(D, handler, response) /\ handler \in HandlerOf(D) /\ page \in Seq(D)
      /\ client \in ClientOf(D) /\ Paging(D, handler, response, client)
  BY ZenonT(30) DEF Inv, Types, PagingInv, HandlerOf
<1>3. n \in Nat \ {0}
  BY <1>2, ZenonT(30) DEF Stage
<1>4. \A d \in GetJetDrops(client.atFirst, q.pulseNumber) :
        \/ Link(d) \in seen
        \/ Len(page) = n /\ Ahead(D, handler, o + n, d) /\ JetBefore(page[n].jetID, d.jetID)
  BY <1>1, <1>2, Zenon DEF Paging
<1>5. Len(page) = n => /\ Len(drops) = n /\ page[n] \in D
                       /\ drops[n].jetDropID = Link(page[n])
  <2> SUFFICES ASSUME Len(page) = n PROVE Len(drops) = n /\ page[n] \in D /\ drops[n].jetDropID = Link(page[n])
    BY ZenonT(30)
  <2>1. DOMAIN page = 1 .. n /\ n \in DOMAIN page /\ page[n] \in D
    BY <1>2, <1>3, SMTT(20)
  <2>2. drops[n] = JetDropToAPI(page[n], {}, {}) /\ DOMAIN drops = 1 .. n
    BY <2>1, ZenonT(30)
  <2>3. Len(drops) = n
    <3>1. drops = [i \in 1 .. n |-> drops[i]]
      BY <2>1, ZenonT(30)
    <3> HIDE DEF drops
    <3> QED
      BY <1>3, <3>1
  <2> QED
    BY <2>1, <2>2, <2>3, ZenonT(30) DEF JetDropToAPI
<1> HIDE DEF drops, seen, total
<1>6. response'.status = "200" /\ response'.drops = drops /\ handler' = [handler EXCEPT !.at = "idle"]
  BY <1>1, ZenonT(30) DEF RespondWith
<1>7. /\ handler'.at = "idle" /\ handler'.kind = "pulse" /\ handler'.params = q
      /\ client'.seen = seen /\ client'.atFirst = client.atFirst
  BY <1>1, <1>2, <1>6, ZenonT(30) DEF HandlerOf, ClientOf
<1>8. Matching(D, handler') = Matching(D, handler)
  BY <1>7 DEF Matching
<1>9. \A d : Ahead(D, handler, o + n, d) => Ahead(D, handler', o + n, d)
  BY <1>8 DEF Ahead
<1>10. ASSUME NEW d \in GetJetDrops(client.atFirst, q.pulseNumber)
       PROVE  \/ Link(d) \in seen
              \/ /\ Len(drops) = n /\ Ahead(D, handler', o + n, d)
                 /\ \E x \in D : drops[n].jetDropID = Link(x) /\ JetBefore(x.jetID, d.jetID)
  BY <1>4, <1>5, <1>9, Zenon
<1> QED
  BY <1>1, <1>6, <1>7, <1>10, ZenonT(30) DEF PagingInv, Paging

\* The other steps are of requests for something else.
LEMMA OtherRequest ==
  ASSUME Inv,
         \/ \E id \in PathRequests : JetDropByID(id)
         \/ \E q \in ListRequests : JetDropsByJetID(q)
         \/ FollowLink \/ Done
  PROVE  handler'.kind # "pulse"
<1> DEFINE i == Idle
<1>1. DOMAIN i = {"kind", "at", "params", "page", "total", "number", "enriched"} /\ i.kind = "none"
  BY DEF Idle
<1>2. ASSUME NEW failures, NEW kind \in {"id", "list"}, NEW h, h.kind = kind, Receive(failures, h)
      PROVE  handler'.kind # "pulse"
  <2>1. handler' = i \/ handler' = h
    BY <1>2, ZenonT(30) DEF Receive
  <2> HIDE DEF i
  <2> QED
    BY <1>1, <1>2, <2>1, ZenonT(30)
<1>3. ASSUME NEW text, AskByID(text) PROVE handler'.kind # "pulse"
  <2> DEFINE h == [i EXCEPT !.kind = "id", !.at = "drop", !.params.jetID = text.jetID,
                            !.params.pulseNumber = text.pulseNumber]
             failures == checkJetDropID(text, "jet drop id")
  <2>1. Receive(failures, h)
    BY <1>3, Zenon DEF AskByID
  <2> HIDE DEF i
  <2>2. h.kind = "id"
    BY <1>1
  <2> HIDE DEF h, failures
  <2> QED
    BY <1>2, <2>1, <2>2, ZenonT(30)
<1>4. ASSUME NEW q, JetDropsByJetID(q) PROVE handler'.kind # "pulse"
  <2> DEFINE h == [i EXCEPT !.kind = "list", !.at = "find", !.params = q]
  <2>1. PICK failures : Receive(failures, h)
    BY <1>4, Zenon DEF JetDropsByJetID
  <2> HIDE DEF i
  <2>2. h.kind = "list"
    BY <1>1
  <2> HIDE DEF h
  <2> QED
    BY <1>2, <2>1, <2>2, ZenonT(30)
<1>5. CASE FollowLink
  <2>1. \E text : AskByID(text)
    BY <1>5, Zenon DEF FollowLink
  <2> QED
    BY <1>3, <2>1, ZenonT(30)
<1>6. CASE Done
  BY <1>1, <1>6, ZenonT(30) DEF Done
<1> QED
  BY <1>3, <1>4, <1>5, <1>6, ZenonT(30) DEF JetDropByID

LEMMA OtherStatement ==
  ASSUME Inv, \/ StatementFails \/ FindDrop \/ FindNextPulse \/ FindNextSiblings \/ FindPrevSiblings
              \/ EnrichOldest \/ EnrichNewest \/ EnrichDrops \/ Respond \/ (Count /\ handler.kind = "list")
  PROVE  handler'.kind # "pulse"
<1>1. handler \in HandlerOf(jetDrops) /\ Stage(jetDrops, handler, response)
  BY DEF Inv, Types
<1>2. Idle.kind = "none"
  BY ZenonT(30) DEF Idle
<1>3. \/ handler.at \in {"drop", "nextPulse", "next", "prev", "oldest", "newest", "enrichPrev", "enrichNext", "respond"}
      \/ handler.kind = "list" /\ handler.at \in {"find", "count"}
      => handler.kind # "pulse"
  BY <1>1, ZenonT(30) DEF Stage
<1>4. DOMAIN handler = {"kind", "at", "params", "page", "total", "number", "enriched"}
  BY <1>1, ZenonT(30) DEF HandlerOf
<1>5. CASE StatementFails
  <2>1. (handler' = [handler EXCEPT !.at = "idle"] /\ handler.kind # "pulse") \/ handler' = Idle
    <3>1. Answer("500").status = "500"
      BY DEF Answer
    <3> QED
      BY <1>5, <3>1, ZenonT(30) DEF StatementFails
  <2> QED
    BY <1>2, <1>4, <2>1, ZenonT(30)
<1>6. CASE FindDrop
  <2> DEFINE Found(d) == [handler EXCEPT !.at = "nextPulse", !.page = d]
  <2>1. handler' = Idle \/ \E d : handler' = Found(d)
    BY <1>6, Zenon DEF FindDrop, GoTo
  <2>2. \A d : Found(d).kind = handler.kind
    BY <1>4, ZenonT(30)
  <2>3. handler.kind # "pulse"
    BY <1>3, <1>6, ZenonT(30) DEF FindDrop
  <2> HIDE DEF Found
  <2> QED
    BY <1>2, <2>1, <2>2, <2>3, ZenonT(30)
<1>7. CASE FindNextPulse
  <2>1. \E a, n : handler' = [handler EXCEPT !.at = a, !.number = n]
    BY <1>7, ZenonT(30) DEF FindNextPulse, GoTo
  <2> QED
    BY <1>3, <1>4, <1>7, <2>1, Zenon DEF FindNextPulse
<1>8. CASE FindNextSiblings
  <2>1. \E n : handler' = [handler EXCEPT !.at = "prev", !.enriched = n]
    BY <1>8, Zenon DEF FindNextSiblings, GoTo
  <2> QED
    BY <1>3, <1>4, <1>8, <2>1 DEF FindNextSiblings
<1>9. CASE FindPrevSiblings
  BY <1>3, <1>4, <1>9, ZenonT(30) DEF FindPrevSiblings, RespondWith
<1>10. CASE EnrichOldest
  <2>1. \E a, n : handler' = [handler EXCEPT !.at = a, !.number = n]
    BY <1>10, ZenonT(30) DEF EnrichOldest, GoTo
  <2> QED
    BY <1>3, <1>4, <1>10, <2>1, ZenonT(30) DEF EnrichOldest
<1>11. CASE EnrichNewest
  <2>1. \E a, n : handler' = [handler EXCEPT !.at = a, !.number = n]
    BY <1>11, Zenon DEF EnrichNewest, GoTo
  <2> QED
    BY <1>3, <1>4, <1>11, <2>1, ZenonT(30) DEF EnrichNewest
<1>12. CASE EnrichDrops
  <2>1. \E a, n : handler' = [handler EXCEPT !.at = a, !.enriched = n]
    BY <1>12, Zenon DEF EnrichDrops, GoTo
  <2> QED
    BY <1>3, <1>4, <1>12, <2>1, ZenonT(30) DEF EnrichDrops
<1>13. CASE Respond
  BY <1>3, <1>4, <1>13, ZenonT(30) DEF Respond, RespondWith
<1>14. CASE Count /\ handler.kind = "list"
  <2>1. handler' = [handler EXCEPT !.at = "idle"] \/ \E n : handler' = [handler EXCEPT !.at = "oldest", !.total = n]
    BY <1>14, ZenonT(30) DEF Count, GoTo, RespondWith
  <2> QED
    BY <1>4, <1>14, <2>1, ZenonT(30)
<1> QED
  BY <1>5, <1>6, <1>7, <1>8, <1>9, <1>10, <1>11, <1>12, <1>13, <1>14, ZenonT(30)

LEMMA PagingNextStep == Inv /\ Inv' /\ PagingInv /\ [Next]_vars => PagingInv'
<1> SUFFICES ASSUME Inv, Inv', PagingInv, [Next]_vars PROVE PagingInv'
  BY SMTT(20)
<1>1. ASSUME handler'.kind # "pulse" PROVE PagingInv'
  BY <1>1, Zenon DEF PagingInv, Paging
<1>2. ASSUME NEW p \in DOMAIN ledger, SavePulse(p) PROVE PagingInv'
  BY <1>2, PagingSave, ZenonT(30) DEF SavePulse
<1>3. ASSUME NEW p \in DOMAIN ledger, NEW j \in ledger[p], SaveJetDropData(j, p) PROVE PagingInv'
  BY <1>3, PagingSave DEF SaveJetDropData
<1>4. ASSUME NEW q \in PulseRequests, JetDropsByPulseNumber(q) PROVE PagingInv'
  BY <1>4, PagingFirst, ZenonT(30)
<1>5. CASE NextPage
  BY <1>5, PagingNext
<1>6. CASE Handle
  <2>1. handler.at = "count" => handler.kind \in {"list", "pulse"}
    BY Zenon DEF Inv, Stage
  <2>2. CASE Count /\ handler.kind = "pulse"
    BY <2>2, PagingCount, ZenonT(30)
  <2>3. CASE Find
    BY <2>3, PagingFind
  <2>4. Count => handler.kind \in {"list", "pulse"}
    BY <2>1 DEF Count
  <2> QED
    BY <1>1, <1>6, <2>2, <2>3, <2>4, OtherStatement, ZenonT(30) DEF Handle
<1>7. CASE UNCHANGED vars
  BY <1>7, PagingSave DEF vars
<1> QED
  BY <1>1, <1>2, <1>3, <1>4, <1>5, <1>6, <1>7, OtherRequest, ZenonT(30) DEF Next

(***************************************************************************)
(* No answer shows a false neighbour, for any ledger and any requests.     *)
(***************************************************************************)
THEOREM TrueLinks == Spec => []LinksAreTrue
<1>1. Inv => LinksAreTrue
  BY DEF Inv
<1> QED
  BY <1>1, Invariance, PTL

(***************************************************************************)
(* JetDropByID, which guesses by jet ids, misses no neighbour that was     *)
(* saved when the request came.                                            *)
(***************************************************************************)
THEOREM NoNeighbourMissed == Spec => []EveryNeighbourByID
<1>1. ASSUME Inv PROVE EveryNeighbourByID
  <2>1. RowsInv /\ ByID(jetDrops, handler, response, client) /\ client \in ClientOf(jetDrops) /\ response \in Response
    BY <1>1 DEF Inv, Types
  <2>2. client.atFirst \in SUBSET jetDrops /\ response.drops \in Seq(Shown)
    BY <2>1, ZenonT(30) DEF ClientOf, Response
  <2> SUFFICES ASSUME response.status = "200", handler.kind = "id", ~client.failed, NEW i \in DOMAIN response.drops
               PROVE  /\ Predecessors(client.atFirst, response.drops[i].jetDropID) \subseteq response.drops[i].prev
                      /\ Successors(client.atFirst, response.drops[i].jetDropID) \subseteq response.drops[i].next
    BY ZenonT(30) DEF EveryNeighbourByID
  <2>3. Len(response.drops) = 1
    BY <2>1 DEF ByID
  <2>4. i = 1
    BY <2>2, <2>3
  <2>5. PICK d \in jetDrops :
          /\ response.drops[1].jetDropID = Link(d)
          /\ Links(GetSiblings(client.atFirst, d.pulseNumber - 1, d.jetID)) \subseteq response.drops[1].prev
          /\ Links(GetSiblings(client.atFirst, d.pulseNumber + 1, d.jetID)) \subseteq response.drops[1].next
    BY <2>1, Zenon DEF ByID
  <2> QED
    BY <2>1, <2>2, <2>4, <2>5, NeighboursAreSiblings, Zenon
<1> QED
  BY <1>1, Invariance, PTL

(***************************************************************************)
(* A listing of a jet that its limit does not cut shows every predecessor  *)
(* in line with the jet that was saved when the request came.              *)
(***************************************************************************)
THEOREM NoPredecessorMissed == Spec => []EveryPredecessorListed
<1>1. ASSUME Inv PROVE EveryPredecessorListed
  <2>1. RowsInv /\ ListAnswer(jetDrops, handler, response, client) /\ client \in ClientOf(jetDrops)
    BY <1>1 DEF Inv, Types
  <2> SUFFICES ASSUME response.status = "200", handler.kind = "list", ~client.failed,
                      Len(response.drops) < ListLimit(handler.params), NEW i \in DOMAIN response.drops
               PROVE  Predecessors(InLine(client.atFirst, handler), response.drops[i].jetDropID)
                        \subseteq response.drops[i].prev
    BY Zenon DEF EveryPredecessorListed, InLine, Related
  <2>2. InLine(client.atFirst, handler) \in SUBSET jetDrops
    BY <2>1, ZenonT(30) DEF ClientOf, InLine
  <2>3. PICK d \in jetDrops :
          /\ response.drops[i].jetDropID = Link(d)
          /\ Links(GetSiblings(InLine(client.atFirst, handler), d.pulseNumber - 1, d.jetID))
               \subseteq response.drops[i].prev
    BY <2>1, ZenonT(30) DEF ListAnswer
  <2> QED
    BY <2>1, <2>2, <2>3, NeighboursAreSiblings, ZenonT(30)
<1> QED
  BY <1>1, Invariance, PTL

(***************************************************************************)
(* A link that was shown is found when it is followed, unless a statement  *)
(* fails, and the answer shows the way back.                               *)
(***************************************************************************)
THEOREM LinksCanBeFollowed == Spec => []LinksLeadBack
<1>1. ASSUME Inv PROVE LinksLeadBack
  <2> SUFFICES ASSUME response.status # "none", client.cameFrom # {}, ~client.failed
               PROVE  /\ response.status = "200"
                      /\ client.cameFrom \subseteq IF client.forward THEN response.drops[1].prev ELSE response.drops[1].next
    BY ZenonT(30) DEF LinksLeadBack
  <2>1. /\ RowsInv /\ ByID(jetDrops, handler, response, client) /\ Back(handler, response, client)
        /\ client \in ClientOf(jetDrops)
    BY <1>1 DEF Inv, Types
  <2>2. handler.at = "idle"
    BY <1>1, Answered, ZenonT(30)
  <2>3. PICK d \in client.atFirst, e \in client.atFirst :
          /\ client.cameFrom = {Link(d)}
          /\ d \in GetSiblings(client.atFirst, IF client.forward THEN e.pulseNumber - 1 ELSE e.pulseNumber + 1, e.jetID)
          /\ handler.kind = "id" /\ response.status = "200" /\ response.drops[1].jetDropID = Link(e)
    BY <2>1, <2>2, ZenonT(30) DEF Back
  <2>4. PICK x \in jetDrops :
          /\ response.drops[1].jetDropID = Link(x)
          /\ Links(GetSiblings(client.atFirst, x.pulseNumber - 1, x.jetID)) \subseteq response.drops[1].prev
          /\ Links(GetSiblings(client.atFirst, x.pulseNumber + 1, x.jetID)) \subseteq response.drops[1].next
    BY <2>1, <2>3, Zenon DEF ByID
  <2>5. e \in jetDrops
    BY <2>1 DEF ClientOf
  <2>6. x = e
    BY <2>1, <2>3, <2>4, <2>5, LinkIsUnique, ZenonT(30)
  <2>7. CASE client.forward
    <3>1. Link(d) \in response.drops[1].prev
      BY <2>3, <2>4, <2>6, <2>7, ZenonT(30) DEF Links
    <3> QED
      BY <2>3, <2>7, <3>1, ZenonT(30)
  <2>8. CASE ~client.forward
    <3>1. Link(d) \in response.drops[1].next
      BY <2>3, <2>4, <2>6, <2>8, ZenonT(30) DEF Links
    <3> QED
      BY <2>3, <2>8, <3>1, ZenonT(30)
  <2> QED
    BY <2>7, <2>8, ZenonT(30)
<1> QED
  BY <1>1, Invariance, PTL

(***************************************************************************)
(* A client that pages through the jet drops of a pulse until a page is    *)
(* not full has been shown every one saved at its first request, whether   *)
(* it goes on by offset or from the last id, and however many are saved    *)
(* in between.                                                             *)
(***************************************************************************)
THEOREM NoDropSkipped == Spec => []PagesShowEveryDrop
<1>1. Init => PagingInv
  <2>1. Idle.kind = "none"
    BY DEF Idle
  <2> QED
    BY <2>1 DEF Init, PagingInv, Paging
<1>2. Spec => []PagingInv
  BY <1>1, Invariance, PagingNextStep, PTL DEF Spec
<1>3. ASSUME Inv, PagingInv PROVE PagesShowEveryDrop
  <2> SUFFICES ASSUME response.status = "200", handler.kind = "pulse",
                      Len(response.drops) < Limit(handler.params.limit),
                      NEW d \in GetJetDrops(client.atFirst, handler.params.pulseNumber)
               PROVE  Link(d) \in client.seen
    BY DEF PagesShowEveryDrop, Links
  <2>1. handler.at = "idle"
    BY <1>3, Answered, ZenonT(30)
  <2>2. Limit(handler.params.limit) \in Nat /\ response.drops \in Seq(Shown)
    BY <1>3, Zenon DEF Inv, Stage, Types, Response
  <2>3. Len(response.drops) # Limit(handler.params.limit)
    BY <2>2
  <2> QED
    BY <1>3, <2>1, <2>3, ZenonT(30) DEF PagingInv, Paging
<1> QED
  BY <1>2, <1>3, Invariance, PTL
=============================================================================
