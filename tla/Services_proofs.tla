---------------------------- MODULE Services_proofs ----------------------------
(***************************************************************************)
(* Proofs about three components that share nothing: how pages follow a    *)
(* room (RoomSync), the OAuth exchanges and the readiness of external      *)
(* agents (ExternalAgents), and the release of a deployment                *)
(* (ProductionTrial).  The first two give their specification and its      *)
(* parts names of their own (SyncSpec, AgentsSpec), so that one module can *)
(* extend all three.                                                       *)
(***************************************************************************)
EXTENDS ProductionTrial, ExternalAgents, RoomSync, TLAPS

-----------------------------------------------------------------------------
(* RoomSync: no change a page was told of is lost without a word.          *)

On(c) == sock[c] \in {"subscribed", "waiting", "sending"}

\* Where a handler stands tells whether its queue is in the hub and what it holds, and whether
\* its page is there.
Standing(c) ==
  /\ sock[c] = "out" => c \notin hub /\ told[c] = 0
  /\ On(c) => c \in hub /\ page[c] # "away"
  /\ sock[c] = "failed" => page[c] = "left"
  /\ sock[c] = "sending" => hand[c] # 0
  /\ sock[c] \notin {"waiting", "sending"} => hand[c] = 0
  /\ heard[c] = "gone" => page[c] = "left"
  /\ heard[c] = "text" => c \in Talkers
  /\ page[c] = "away" => sock[c] = "out"
  /\ told[c] <= version

\* An event, or the timer it starts, is under way.
Coming(c) == queue[c] # <<>> \/ hand[c] # 0 \/ c \in timer

\* So is what the page was told of: a refresh not answered before it counts, however many
\* others are under way and in whatever order they end.
Refreshing(c) == \E p \in Phases : p >= told[c] /\ flight[c][p] > 0
Soon(c)       == Coming(c) \/ Refreshing(c)

\* A page has not shown what it was told, and has said nothing, only while that is under way.
Followed(c) ==
  c \notin Talkers /\ page[c] = "shown" /\ On(c) /\ c \notin warned /\ newest[c] < told[c]
    => Soon(c)

\* The inductive invariant.
SyncInv == SyncTypeOK /\ \A c \in Clients : Standing(c) /\ Followed(c)

LEMMA SyncConstants ==
  /\ Cap \in Nat \ {0} /\ MaxVersion \in Nat /\ Events \subseteq Versions
  /\ Unanswered \in Nat /\ Nothing = 0 /\ Unanswered \notin Events
  /\ \A v \in Versions : v \in Nat /\ v < Unanswered /\ (v = 0 \/ v \in Events)
  /\ Phases \subseteq Nat /\ Versions \subseteq Phases /\ Unanswered \in Phases
  /\ Applied \in Phases
<1>1. Cap \in Nat \ {0} /\ MaxVersion \in Nat  BY SyncAssumption
<1>2. /\ Events = 1..MaxVersion /\ Versions = 0..MaxVersion /\ Phases = 0..(MaxVersion + 1)
      /\ Unanswered = MaxVersion + 1 /\ Nothing = 0 /\ Applied = 0
  BY DEF Events, Versions, Unanswered, Nothing, Phases, Applied
<1>3. QED  BY <1>1, <1>2

\* What SyncTypeOK says, with the sets that the provers need spelt out.
LEMMA SyncTypes ==
  ASSUME SyncTypeOK, NEW c \in Clients
  PROVE  /\ version \in Nat /\ newest[c] \in Nat /\ told[c] \in Nat /\ hand[c] \in Nat
         /\ told[c] \in Versions /\ version \in Versions
         /\ queue[c] \in Seq(Events)
         /\ \A p \in Phases : flight[c][p] \in Nat
         /\ page[c] \in {"away", "shown", "left"} /\ heard[c] \in {"no", "text", "gone"}
         /\ sock[c] \in {"out", "subscribed", "waiting", "sending", "ended", "failed"}
BY SyncConstants DEF SyncTypeOK

\* The types do not change.
LEMMA SameSets ==
  Events' = Events /\ Versions' = Versions /\ Phases' = Phases /\ Unanswered' = Unanswered
BY DEF Events, Versions, Phases, Unanswered

\* The values a handler is left with.
LEMMA EmptyTypes ==
  0 \in Versions /\ <<>> \in Seq(Events) /\ Len(<<>>) <= Cap
<1>1. Cap \in Nat \ {0} /\ MaxVersion \in Nat  BY SyncConstants
<1>2. QED  BY <1>1 DEF Versions

\* A full queue loses its oldest event, and has the newest.
LEMMA Offered ==
  ASSUME NEW q \in Seq(Events), Len(q) <= Cap, NEW v \in Events
  PROVE  /\ Offer(q, v) \in Seq(Events)
         /\ Len(Offer(q, v)) <= Cap /\ Offer(q, v) # <<>>
<1> DEFINE r == IF Len(q) = Cap THEN Tail(q) ELSE q
<1>1. Cap \in Nat \ {0} /\ Len(q) \in Nat  BY SyncConstants
<1>2. r \in Seq(Events) /\ Len(r) < Cap
  <2>1. CASE Len(q) = Cap
    <3>1. q # <<>>  BY <1>1, <2>1
    <3>2. Tail(q) \in Seq(Events) /\ Len(Tail(q)) = Len(q) - 1  BY <3>1
    <3>3. QED  BY <1>1, <2>1, <3>2
  <2>2. CASE Len(q) # Cap  BY <1>1, <2>2
  <2>3. QED  BY <2>1, <2>2
<1> HIDE DEF r
<1>3. Append(r, v) \in Seq(Events) /\ Len(Append(r, v)) = Len(r) + 1 /\ Len(r) \in Nat
  BY <1>2
<1>4. Append(r, v) # <<>>  BY <1>3
<1>5. QED  BY <1>1, <1>2, <1>3, <1>4 DEF Offer, r
-----------------------------------------------------------------------------
\* A change is published: every page of the hub is told, and its queue holds an event.
LEMMA PublishStep ==
  ASSUME SyncInv, Publish
  PROVE  /\ version' = version + 1 /\ version' \in Events
         /\ queue' \in [Clients -> Seq(Events)]
         /\ \A c \in Clients : Len(queue'[c]) <= Cap
         /\ told' \in [Clients -> Versions]
         /\ \A c \in Clients : told'[c] <= version'
         /\ \A c \in hub : queue'[c] # <<>>
         /\ \A c \in Clients \ hub : queue'[c] = queue[c] /\ told'[c] = told[c]
         /\ UNCHANGED <<hub, sock, hand, heard>> /\ warned' = warned \ hub
<1>1. /\ version' = version + 1 /\ version < MaxVersion /\ UNCHANGED <<hub, sock, hand, heard>>
      /\ warned' = warned \ hub
      /\ queue' = [c \in Clients |-> IF c \in hub THEN Offer(queue[c], version')
                                     ELSE queue[c]]
      /\ told' = [c \in Clients |-> IF c \in hub THEN version' ELSE told[c]]
  BY DEF Publish
<1>2. version' \in Events /\ version' \in Versions /\ version \in Nat
  BY <1>1, SyncConstants DEF SyncInv, SyncTypeOK, Events, Versions
<1>3. ASSUME NEW c \in Clients
      PROVE  /\ queue'[c] \in Seq(Events) /\ Len(queue'[c]) <= Cap
             /\ told'[c] \in Versions /\ told'[c] <= version'
             /\ c \in hub => queue'[c] # <<>>
             /\ c \notin hub => queue'[c] = queue[c] /\ told'[c] = told[c]
  <2>1. queue[c] \in Seq(Events) /\ Len(queue[c]) <= Cap /\ told[c] \in Versions
        /\ told[c] \in Nat /\ told[c] <= version
    BY SyncTypes DEF SyncInv, SyncTypeOK, Standing
  <2>2. CASE c \in hub
    <3>1. queue'[c] = Offer(queue[c], version') /\ told'[c] = version'  BY <1>1, <2>2
    <3>2. /\ Offer(queue[c], version') \in Seq(Events)
          /\ Len(Offer(queue[c], version')) <= Cap
          /\ Offer(queue[c], version') # <<>>
      BY <1>2, <2>1, Offered DEF SyncInv
    <3>3. version' <= version'  BY <1>1, <1>2
    <3>4. QED  BY <1>2, <2>2, <3>1, <3>2, <3>3
  <2>3. CASE c \notin hub
    <3>1. queue'[c] = queue[c] /\ told'[c] = told[c]  BY <1>1, <2>3
    <3>2. QED  BY <1>1, <1>2, <2>1, <2>3, <3>1
  <2>4. QED  BY <2>2, <2>3
<1>4. hub \subseteq Clients  BY DEF SyncInv, SyncTypeOK
<1>5. QED  BY <1>1, <1>2, <1>3, <1>4

LEMMA ChangeStep ==
  ASSUME SyncInv, Publish,
         \/ UNCHANGED <<browser, newest>>
         \/ \E c \in Clients : Load(c)
  PROVE  SyncInv'
<1>1. /\ version' = version + 1 /\ version' \in Events
      /\ queue' \in [Clients -> Seq(Events)] /\ told' \in [Clients -> Versions]
      /\ \A c \in Clients : Len(queue'[c]) <= Cap /\ told'[c] <= version'
      /\ \A c \in hub : queue'[c] # <<>>
      /\ \A c \in Clients \ hub : queue'[c] = queue[c] /\ told'[c] = told[c]
      /\ UNCHANGED <<hub, sock, hand, heard>> /\ warned' = warned \ hub
  BY PublishStep
<1>2. UNCHANGED <<sync, timer, flight>>
      /\ \/ UNCHANGED <<page, view, newest>>
         \/ \E c \in Clients : /\ page[c] = "away"
                               /\ page' = [page EXCEPT ![c] = "shown"]
                               /\ view' = [view EXCEPT ![c] = version']
                               /\ newest' = [newest EXCEPT ![c] = version']
  BY DEF Load, browser
<1>3. SyncTypeOK'
  <2>1. version' \in Versions  BY <1>1, SyncConstants DEF SyncInv
  <2>2. /\ view' \in [Clients -> Versions] /\ page' \in [Clients -> {"away", "shown", "left"}]
        /\ newest' \in [Clients -> Versions]
    <3>1. /\ view \in [Clients -> Versions] /\ page \in [Clients -> {"away", "shown", "left"}]
          /\ newest \in [Clients -> Versions]
      BY DEF SyncInv, SyncTypeOK
    <3>2. QED  BY <1>2, <2>1, <3>1
  <2>3. QED  BY <1>1, <1>2, <2>1, <2>2, SameSets DEF SyncInv, SyncTypeOK
<1>4. ASSUME NEW d \in Clients
      PROVE  Standing(d)' /\ Followed(d)'
  <2>1. Standing(d) /\ Followed(d)  BY DEF SyncInv
  <2>2. CASE page'[d] = page[d] /\ newest'[d] = newest[d]
    <3>1. Standing(d)'
      BY <1>1, <1>2, <2>1, <2>2 DEF Standing, On
    <3>2. Followed(d)'
      <4>1. CASE d \in hub  BY <1>1, <4>1 DEF Followed, Soon, Coming
      <4>2. CASE d \notin hub  BY <1>1, <2>1, <4>2 DEF Followed, Standing, On
      <4>3. QED  BY <4>1, <4>2
    <3>3. QED  BY <3>1, <3>2
  <2>3. CASE page[d] = "away" /\ page'[d] = "shown"
    <3>1. sock[d] = "out"  BY <2>1, <2>3 DEF Standing
    <3>2. QED  BY <1>1, <1>2, <2>1, <2>3, <3>1 DEF Standing, Followed, On
  <2>4. QED
    BY <1>2, <2>2, <2>3 DEF SyncInv, SyncTypeOK
<1>5. QED  BY <1>3, <1>4 DEF SyncInv

\* A step that changes nothing of what concerns d keeps what is said of it.
Same(d) ==
  /\ sock'[d] = sock[d] /\ queue'[d] = queue[d] /\ hand'[d] = hand[d] /\ heard'[d] = heard[d]
  /\ page'[d] = page[d] /\ told'[d] = told[d] /\ newest'[d] = newest[d] /\ flight'[d] = flight[d]
  /\ (d \in hub' <=> d \in hub) /\ (d \in timer' <=> d \in timer)
  /\ (d \in warned' <=> d \in warned)

LEMMA OthersKeep ==
  ASSUME SyncInv, NEW d \in Clients, Same(d), version' = version
  PROVE  Standing(d)' /\ Followed(d)'
<1>1. Standing(d) /\ Followed(d)  BY DEF SyncInv
<1>2. Standing(d)'  BY <1>1 DEF Standing, On, Same
<1>3. Followed(d)'
  <2>1. Refreshing(d)' <=> Refreshing(d)  BY SameSets DEF Refreshing, Same
  <2>2. QED  BY <1>1, <2>1 DEF Followed, Soon, Coming, On, Same
<1>4. QED  BY <1>2, <1>3

\* A step that concerns c alone is to be looked at for c only.
LEMMA OneKept ==
  ASSUME SyncInv, NEW c \in Clients, version' = version, SyncTypeOK',
         \A d \in Clients \ {c} : Same(d),
         Standing(c)', Followed(c)'
  PROVE  SyncInv'
<1>1. ASSUME NEW d \in Clients PROVE Standing(d)' /\ Followed(d)'
  <2>1. CASE d = c  BY <2>1
  <2>2. CASE d # c  BY <2>2, OthersKeep
  <2>3. QED  BY <2>1, <2>2
<1>2. QED  BY <1>1 DEF SyncInv

LEMMA ConnectStep ==
  ASSUME SyncInv, NEW c \in Clients, Subscribe(c)
  PROVE  SyncInv'
<1>1. /\ page[c] = "shown" /\ sock[c] = "out"
      /\ sock' = [sock EXCEPT ![c] = "subscribed"] /\ hub' = hub \cup {c}
      /\ sync' = [sync EXCEPT ![c] = "live"]
      /\ UNCHANGED <<version, queue, hand, heard, page, view, timer, flight, told, newest, warned>>
  BY DEF Subscribe, past
<1>2. SyncTypeOK'
  BY <1>1, SameSets DEF SyncInv, SyncTypeOK
<1>3. \A d \in Clients \ {c} : Same(d)
  BY <1>1 DEF SyncInv, SyncTypeOK, Same
<1>4. sock'[c] = "subscribed" /\ Standing(c) /\ newest[c] \in Nat
  BY <1>1, SyncTypes DEF SyncInv, SyncTypeOK
<1>5. Standing(c)'  BY <1>1, <1>4 DEF Standing, On
<1>6. Followed(c)'
  <2>1. told[c] = 0  BY <1>1, <1>4 DEF Standing
  <2>2. QED  BY <1>1, <1>4, <2>1 DEF Followed
<1>7. QED  BY <1>1, <1>2, <1>3, <1>5, <1>6, OneKept

\* The handler: it drops an event only of a client that has talked, or gone.
LEMMA HandlerSteps ==
  ASSUME SyncInv, NEW c \in Clients, Handle(c) \/ Hear(c)
  PROVE  SyncInv'
<1> DEFINE Kept == /\ \A d \in Clients \ {c} : Same(d)
                   /\ UNCHANGED <<version, page, told, newest, warned, flight>>
<1>1. /\ Standing(c) /\ Followed(c) /\ hand[c] \in Nat
      /\ queue[c] \in Seq(Events) /\ Len(queue[c]) <= Cap
      /\ Nothing = 0
  BY SyncTypes, SyncConstants DEF SyncInv, SyncTypeOK
<1>2. ASSUME Kept, SyncTypeOK', Standing(c)',
             On(c)' => On(c) /\ (c \notin Talkers /\ page[c] = "shown" /\ Coming(c) => Coming(c)')
      PROVE  SyncInv'
  <2>1. Refreshing(c)' <=> Refreshing(c)  BY <1>2, SameSets DEF Refreshing
  <2>2. Followed(c)'  BY <1>1, <1>2, <2>1 DEF Followed, Soon
  <2>3. QED  BY <1>2, <2>2, OneKept
<1>3. CASE Greet(c)
  <2>1. /\ sock[c] = "subscribed"
        /\ \/ sock' = [sock EXCEPT ![c] = "waiting"]
           \/ page[c] = "left" /\ sock' = [sock EXCEPT ![c] = "failed"]
        /\ UNCHANGED <<version, hub, queue, hand, heard, page, sync, view, timer, flight, told, newest, warned>>
    BY <1>3 DEF Greet, browser, past
  <2>2. Kept  BY <2>1 DEF SyncInv, SyncTypeOK, Same
  <2>3. SyncTypeOK'
    BY <2>1, SameSets DEF SyncInv, SyncTypeOK
  <2>4. sock'[c] = "waiting" \/ (sock'[c] = "failed" /\ page[c] = "left")
    BY <2>1 DEF SyncInv, SyncTypeOK
  <2>5. Standing(c)'  BY <1>1, <2>1, <2>4 DEF Standing, On
  <2>6. QED  BY <1>2, <2>1, <2>2, <2>3, <2>4, <2>5 DEF On, Coming
<1>4. CASE TakeEvent(c)
  <2>1. /\ sock[c] = "waiting" /\ hand[c] = 0 /\ queue[c] # <<>>
        /\ hand' = [hand EXCEPT ![c] = Head(queue[c])]
        /\ queue' = [queue EXCEPT ![c] = Tail(@)]
        /\ UNCHANGED <<version, hub, sock, heard, page, sync, view, timer, flight, told, newest, warned>>
    BY <1>1, <1>4 DEF TakeEvent, browser, past
  <2>2. Kept  BY <2>1 DEF SyncInv, SyncTypeOK, Same
  <2>3. /\ Head(queue[c]) \in Events /\ Tail(queue[c]) \in Seq(Events)
        /\ Len(Tail(queue[c])) = Len(queue[c]) - 1 /\ Len(queue[c]) \in Nat
    BY <1>1, <2>1
  <2>4. Head(queue[c]) \in Versions /\ Head(queue[c]) # 0
        /\ Len(Tail(queue[c])) <= Cap
    <3>1. Cap \in Nat /\ Events \subseteq Versions  BY SyncConstants DEF SyncInv
    <3>2. Head(queue[c]) # 0  BY <2>3 DEF Events
    <3>3. QED  BY <1>1, <2>3, <3>1, <3>2
  <2>5. /\ hand' \in [Clients -> Versions] /\ queue' \in [Clients -> Seq(Events)]
        /\ \A d \in Clients : Len(queue'[d]) <= Cap
        /\ hand'[c] = Head(queue[c])
    BY <2>1, <2>3, <2>4 DEF SyncInv, SyncTypeOK
  <2>6. SyncTypeOK'
    BY <2>1, <2>5, SameSets DEF SyncInv, SyncTypeOK
  <2>7. Standing(c)' /\ Coming(c)'  BY <1>1, <2>1, <2>4, <2>5 DEF Standing, On, Coming
  <2>8. QED  BY <1>2, <2>1, <2>2, <2>6, <2>7 DEF On
<1>5. CASE Hear(c)
  <2>1. /\ sock[c] = "waiting" /\ heard[c] = "no"
        /\ \/ c \in Talkers /\ page[c] = "shown" /\ heard' = [heard EXCEPT ![c] = "text"]
           \/ page[c] = "left" /\ heard' = [heard EXCEPT ![c] = "gone"]
        /\ UNCHANGED <<version, hub, queue, sock, hand, page, sync, view, timer, flight, told, newest, warned>>
    BY <1>5 DEF Hear, browser, past
  <2>2. Kept  BY <2>1 DEF SyncInv, SyncTypeOK, Same
  <2>3. SyncTypeOK'
    BY <2>1, SameSets DEF SyncInv, SyncTypeOK
  <2>4. (heard'[c] = "text" /\ c \in Talkers) \/ (heard'[c] = "gone" /\ page[c] = "left")
    BY <2>1 DEF SyncInv, SyncTypeOK
  <2>5. Standing(c)'  BY <1>1, <2>1, <2>4 DEF Standing, On
  <2>6. QED  BY <1>2, <2>1, <2>2, <2>3, <2>5 DEF On, Coming
<1>6. CASE Wake(c)
  <2>1. /\ sock[c] = "waiting" /\ (hand[c] # 0 \/ heard[c] # "no")
        /\ UNCHANGED <<version, page, sync, view, timer, flight, told, newest, warned>>
    BY <1>1, <1>6 DEF Wake, browser, past
  <2>2. CASE /\ heard[c] = "gone" /\ sock' = [sock EXCEPT ![c] = "ended"] /\ hub' = hub \ {c}
             /\ queue' = [queue EXCEPT ![c] = <<>>] /\ hand' = [hand EXCEPT ![c] = 0]
             /\ UNCHANGED heard
    <3>1. Kept  BY <2>1, <2>2 DEF SyncInv, SyncTypeOK, Same
    <3>2. SyncTypeOK'  BY <2>1, <2>2, EmptyTypes, SameSets DEF SyncInv, SyncTypeOK
    <3>3. sock'[c] = "ended" /\ hand'[c] = 0 /\ page[c] = "left"
      BY <1>1, <2>2 DEF SyncInv, SyncTypeOK, Standing
    <3>4. Standing(c)'  BY <1>1, <2>1, <2>2, <3>3 DEF Standing, On
    <3>5. QED  BY <1>2, <3>1, <3>2, <3>3, <3>4 DEF On
  <2>3. CASE /\ heard[c] = "text" /\ UNCHANGED <<hub, queue, sock>>
             /\ hand' = [hand EXCEPT ![c] = 0] /\ heard' = [heard EXCEPT ![c] = "no"]
    <3>1. Kept  BY <2>1, <2>3 DEF SyncInv, SyncTypeOK, Same
    <3>2. SyncTypeOK'  BY <2>1, <2>3, EmptyTypes, SameSets DEF SyncInv, SyncTypeOK
    <3>3. heard'[c] = "no" /\ hand'[c] = 0 /\ c \in Talkers
      BY <1>1, <2>3 DEF SyncInv, SyncTypeOK, Standing
    <3>4. Standing(c)'  BY <1>1, <2>1, <2>3, <3>3 DEF Standing, On
    <3>5. QED  BY <1>2, <2>3, <3>1, <3>2, <3>3, <3>4 DEF On
  <2>4. CASE /\ heard[c] = "no" /\ sock' = [sock EXCEPT ![c] = "sending"]
             /\ UNCHANGED <<hub, queue, hand, heard>>
    <3>1. Kept  BY <2>1, <2>4 DEF SyncInv, SyncTypeOK, Same
    <3>2. SyncTypeOK'  BY <2>1, <2>4, SameSets DEF SyncInv, SyncTypeOK
    <3>3. sock'[c] = "sending" /\ hand[c] # 0  BY <2>1, <2>4 DEF SyncInv, SyncTypeOK
    <3>4. Standing(c)'  BY <1>1, <2>1, <2>4, <3>3 DEF Standing, On
    <3>5. QED  BY <1>2, <2>1, <2>4, <3>1, <3>2, <3>4 DEF On, Coming
  <2>5. QED  BY <1>1, <1>6, <2>2, <2>3, <2>4 DEF Wake, End
<1>7. CASE Send(c)
  <2>1. /\ sock[c] = "sending" /\ hand' = [hand EXCEPT ![c] = 0]
        /\ UNCHANGED <<version, heard, page, sync, view, flight, told, newest, warned>>
    BY <1>1, <1>7 DEF Send, past
  <2>2. CASE /\ page[c] = "shown" /\ timer' = timer \cup {c}
             /\ sock' = [sock EXCEPT ![c] = "waiting"] /\ UNCHANGED <<hub, queue>>
    <3>1. Kept  BY <2>1, <2>2 DEF SyncInv, SyncTypeOK, Same
    <3>2. SyncTypeOK'  BY <2>1, <2>2, EmptyTypes, SameSets DEF SyncInv, SyncTypeOK
    <3>3. sock'[c] = "waiting" /\ hand'[c] = 0 /\ c \in timer'
      BY <2>1, <2>2 DEF SyncInv, SyncTypeOK
    <3>4. Standing(c)'  BY <1>1, <2>1, <2>2, <3>3 DEF Standing, On
    <3>5. QED  BY <1>2, <2>1, <3>1, <3>2, <3>3, <3>4 DEF On, Coming
  <2>3. CASE /\ page[c] = "left" /\ sock' = [sock EXCEPT ![c] = "ended"] /\ hub' = hub \ {c}
             /\ queue' = [queue EXCEPT ![c] = <<>>] /\ UNCHANGED timer
    <3>1. Kept  BY <2>1, <2>3 DEF SyncInv, SyncTypeOK, Same
    <3>2. SyncTypeOK'  BY <2>1, <2>3, EmptyTypes, SameSets DEF SyncInv, SyncTypeOK
    <3>3. sock'[c] = "ended" /\ hand'[c] = 0  BY <2>1, <2>3 DEF SyncInv, SyncTypeOK
    <3>4. Standing(c)'  BY <1>1, <2>1, <2>3, <3>3 DEF Standing, On
    <3>5. QED  BY <1>2, <3>1, <3>2, <3>3, <3>4 DEF On
  <2>4. QED  BY <1>7, <2>2, <2>3 DEF Send, End
<1>8. QED  BY <1>3, <1>4, <1>5, <1>6, <1>7 DEF Handle

LEMMA RestartStep ==
  ASSUME SyncInv, RestartServer
  PROVE  SyncInv'
<1>1. /\ hub' = {} /\ queue' = [c \in Clients |-> <<>>] /\ hand' = [c \in Clients |-> 0]
      /\ heard' = [c \in Clients |-> "no"]
      /\ sock' = [c \in Clients |-> IF sock[c] = "out" THEN "out" ELSE "ended"]
      /\ sync' = [c \in Clients |-> IF sock[c] \in {"subscribed", "waiting", "sending"}
                                    THEN "reconnecting" ELSE sync[c]]
      /\ warned' \subseteq Clients
      /\ UNCHANGED <<version, page, view, timer, flight, told, newest>>
  BY SyncConstants DEF SyncInv, RestartServer
<1>2. SyncTypeOK'
  BY <1>1, EmptyTypes, SameSets DEF SyncInv, SyncTypeOK
<1>3. ASSUME NEW d \in Clients PROVE Standing(d)' /\ Followed(d)'
  <2>1. /\ hand'[d] = 0 /\ heard'[d] = "no" /\ sock'[d] \in {"out", "ended"}
        /\ sock'[d] = "out" => sock[d] = "out"
        /\ sock[d] = "out" => sock'[d] = "out"
    BY <1>1
  <2>2. Standing(d)  BY DEF SyncInv
  <2>3. Standing(d)'  BY <1>1, <2>1, <2>2 DEF Standing, On
  <2>4. Followed(d)'  BY <2>1 DEF Followed, On
  <2>5. QED  BY <2>3, <2>4
<1>4. QED  BY <1>2, <1>3 DEF SyncInv

\* What the counts of a page's refreshes become when one ends: those at other phases stay
\* under way.
LEMMA CountedDown ==
  ASSUME SyncTypeOK, NEW c \in Clients, NEW p \in Phases, flight[c][p] > 0
  PROVE  /\ Finished(c, p) \in [Clients -> [Phases -> Nat]]
         /\ \A t \in Phases \ {p} : Finished(c, p)[c][t] = flight[c][t]
         /\ \A d \in Clients \ {c} : Finished(c, p)[d] = flight[d]
<1>1. flight \in [Clients -> [Phases -> Nat]]  BY DEF SyncTypeOK
<1>2. flight[c][p] - 1 \in Nat
  <2>1. flight[c][p] \in Nat  BY <1>1
  <2>2. QED  BY <2>1
<1>3. QED  BY <1>1, <1>2 DEF Finished

\* So it is when one goes from a phase to another.
LEMMA Counted ==
  ASSUME SyncTypeOK, NEW c \in Clients, NEW p \in Phases, NEW q \in Phases, flight[c][p] > 0
  PROVE  /\ Moved(c, p, q) \in [Clients -> [Phases -> Nat]]
         /\ Moved(c, p, q)[c][q] > 0
         /\ \A t \in Phases \ {p} : flight[c][t] > 0 => Moved(c, p, q)[c][t] > 0
         /\ \A d \in Clients \ {c} : Moved(c, p, q)[d] = flight[d]
<1> DEFINE g == Finished(c, p)
<1>1. /\ g \in [Clients -> [Phases -> Nat]]
      /\ \A t \in Phases \ {p} : g[c][t] = flight[c][t]
      /\ \A d \in Clients \ {c} : g[d] = flight[d]
  BY CountedDown
<1> DEFINE h == [g EXCEPT ![c][q] = @ + 1]
<1>2. Moved(c, p, q) = h  BY DEF Moved
<1> HIDE DEF g
<1>3. g[c][q] \in Nat  BY <1>1
<1>4. /\ h \in [Clients -> [Phases -> Nat]] /\ h[c][q] = g[c][q] + 1
      /\ \A t \in Phases \ {q} : h[c][t] = g[c][t]
      /\ \A d \in Clients \ {c} : h[d] = g[d]
  BY <1>1, <1>3
<1> HIDE DEF h
<1>5. h[c][q] > 0  BY <1>3, <1>4
<1>6. ASSUME NEW t \in Phases \ {p}, flight[c][t] > 0 PROVE h[c][t] > 0
  <2>1. CASE t = q  BY <1>5, <2>1
  <2>2. CASE t # q  BY <1>1, <1>4, <1>6, <2>2
  <2>3. QED  BY <2>1, <2>2
<1>7. QED  BY <1>1, <1>2, <1>4, <1>5, <1>6

\* The page: what a timer or a refresh was to show is shown, asked for, or given up with a
\* warning.
LEMMA RefreshSteps ==
  ASSUME SyncInv, NEW c \in Clients, Refresh(c) \/ Leave(c)
  PROVE  SyncInv'
<1>1. /\ SyncTypeOK /\ Standing(c) /\ Followed(c) /\ Applied \in Phases
      /\ Unanswered \in Phases /\ version \in Phases /\ Events \subseteq Phases
      /\ told[c] \in Nat /\ newest[c] \in Nat /\ told[c] < Unanswered /\ version \in Nat
      /\ Unanswered \in Nat /\ \A p \in Phases : p \in Nat /\ flight[c][p] \in Nat
  BY SyncTypes, SyncConstants DEF SyncInv
<1>2. ASSUME UNCHANGED <<version, hub, queue, sock, hand, heard, page, told>>,
             \A d \in Clients \ {c} : flight'[d] = flight[d] /\ newest'[d] = newest[d],
             \A d \in Clients \ {c} : d \in timer' <=> d \in timer,
             \A d \in Clients \ {c} : d \in warned' <=> d \in warned,
             SyncTypeOK', Followed(c)'
      PROVE  SyncInv'
  <2>1. \A d \in Clients \ {c} : Same(d)  BY <1>2 DEF Same
  <2>2. Standing(c)'  BY <1>1, <1>2 DEF Standing, On
  <2>3. QED  BY <1>2, <2>1, <2>2, OneKept
<1>3. CASE Fire(c)
  <2>1. /\ c \in timer /\ timer' = timer \ {c} /\ flight' = Started(c)
        /\ UNCHANGED <<version, hub, queue, sock, hand, heard, page, sync, view, told, newest, warned>>
    BY <1>3 DEF Fire, handler, past
  <2>2. /\ flight' \in [Clients -> [Phases -> Nat]]
        /\ flight'[c][Unanswered] = flight[c][Unanswered] + 1
        /\ \A d \in Clients \ {c} : flight'[d] = flight[d]
    BY <1>1, <2>1 DEF Started, SyncTypeOK
  <2>3. SyncTypeOK'  BY <1>1, <2>1, <2>2, SameSets DEF SyncTypeOK
  <2>4. Followed(c)'
    <3>1. flight'[c][Unanswered] > 0 /\ Unanswered >= told'[c]  BY <1>1, <2>1, <2>2
    <3>2. Refreshing(c)'  BY <1>1, <3>1, SameSets DEF Refreshing
    <3>3. QED  BY <3>2 DEF Followed, Soon
  <2>5. QED  BY <1>2, <2>1, <2>2, <2>3, <2>4
<1>4. CASE Answer(c)
  <2>1. /\ flight[c][Unanswered] > 0 /\ flight' = Moved(c, Unanswered, version)
        /\ UNCHANGED <<version, hub, queue, sock, hand, heard, page, sync, view, timer, told,
                       newest, warned>>
    BY <1>4 DEF Answer, handler, past
  <2>2. /\ flight' \in [Clients -> [Phases -> Nat]] /\ flight'[c][version] > 0
        /\ \A d \in Clients \ {c} : flight'[d] = flight[d]
    BY <1>1, <2>1, Counted
  <2>3. SyncTypeOK'  BY <1>1, <2>1, <2>2, SameSets DEF SyncTypeOK
  <2>4. Followed(c)'
    <3>1. version >= told'[c]  BY <1>1, <2>1 DEF Standing
    <3>2. Refreshing(c)'  BY <1>1, <2>2, <3>1, SameSets DEF Refreshing
    <3>3. QED  BY <3>2 DEF Followed, Soon
  <2>5. QED  BY <1>2, <2>1, <2>2, <2>3, <2>4
<1>5. ASSUME NEW v \in Events, Apply(c, v) PROVE SyncInv'
  <2>1. /\ flight[c][v] > 0 /\ flight' = Moved(c, v, Applied)
        /\ view' = [view EXCEPT ![c] = v]
        /\ newest' = [newest EXCEPT ![c] = IF v > @ THEN v ELSE @]
        /\ UNCHANGED <<version, hub, queue, sock, hand, heard, page, sync, timer, told, warned>>
    BY <1>5 DEF Apply, handler
  <2>2. /\ flight' \in [Clients -> [Phases -> Nat]]
        /\ \A t \in Phases \ {v} : flight[c][t] > 0 => flight'[c][t] > 0
        /\ \A d \in Clients \ {c} : flight'[d] = flight[d]
    BY <1>1, <2>1, Counted
  <2>3. v \in Versions /\ v \in Nat  BY SyncConstants
  <2>4. /\ view' \in [Clients -> Versions] /\ newest' \in [Clients -> Versions]
        /\ newest'[c] >= v /\ newest'[c] >= newest[c] /\ newest'[c] \in Nat
        /\ \A d \in Clients \ {c} : newest'[d] = newest[d]
    <3>1. view \in [Clients -> Versions] /\ newest \in [Clients -> Versions]  BY <1>1 DEF SyncTypeOK
    <3>2. newest'[c] = IF v > newest[c] THEN v ELSE newest[c]  BY <2>1, <3>1
    <3>3. /\ view' \in [Clients -> Versions] /\ newest' \in [Clients -> Versions]
          /\ \A d \in Clients \ {c} : newest'[d] = newest[d]
      BY <2>1, <2>3, <3>1
    <3>4. QED  BY <1>1, <2>3, <3>2, <3>3
  <2>5. SyncTypeOK'  BY <1>1, <2>1, <2>2, <2>4, SameSets DEF SyncTypeOK
  <2>6. Followed(c)'
    <3>1. SUFFICES ASSUME c \notin Talkers, page'[c] = "shown", On(c)', c \notin warned',
                          newest'[c] < told'[c]
                   PROVE  Soon(c)'
      BY DEF Followed
    <3>2. newest[c] < told[c] /\ v < told[c]  BY <1>1, <2>1, <2>3, <2>4, <3>1
    <3>3. Soon(c)  BY <1>1, <2>1, <3>1, <3>2 DEF Followed, On
    <3>4. CASE Coming(c)  BY <2>1, <3>4 DEF Coming, Soon
    <3>5. ASSUME NEW t \in Phases, t >= told[c], flight[c][t] > 0 PROVE Soon(c)'
      <4>1. t # v  BY <1>1, <2>3, <3>2, <3>5
      <4>2. flight'[c][t] > 0 /\ t >= told'[c]  BY <2>1, <2>2, <3>5, <4>1
      <4>3. QED  BY <3>5, <4>2, SameSets DEF Refreshing, Soon
    <3>6. QED  BY <3>3, <3>4, <3>5 DEF Soon, Refreshing
  <2>7. QED  BY <1>2, <2>1, <2>2, <2>4, <2>5, <2>6
<1>6. CASE Settle(c)
  <2>1. /\ flight[c][Applied] > 0 /\ flight' = Finished(c, Applied)
        /\ \/ sync' = [sync EXCEPT ![c] = "live"] /\ warned' = warned
           \/ sync' = [sync EXCEPT ![c] = "reconnecting"] /\ warned' = warned \cup {c}
        /\ UNCHANGED <<version, hub, queue, sock, hand, heard, page, view, timer, told, newest>>
    BY <1>6 DEF Settle, Warn, handler
  <2>2. /\ flight' \in [Clients -> [Phases -> Nat]]
        /\ \A t \in Phases \ {Applied} : flight'[c][t] = flight[c][t]
        /\ \A d \in Clients \ {c} : flight'[d] = flight[d]
    BY <1>1, <2>1, CountedDown
  <2>3. SyncTypeOK'  BY <1>1, <2>1, <2>2, SameSets DEF SyncTypeOK
  <2>4. Followed(c)'
    <3>1. SUFFICES ASSUME c \notin Talkers, page'[c] = "shown", On(c)', c \notin warned',
                          newest'[c] < told'[c]
                   PROVE  Soon(c)'
      BY DEF Followed
    <3>2. Soon(c) /\ told[c] > 0  BY <1>1, <2>1, <3>1 DEF Followed, On
    <3>3. CASE Coming(c)  BY <2>1, <3>3 DEF Coming, Soon
    <3>4. ASSUME NEW t \in Phases, t >= told[c], flight[c][t] > 0 PROVE Soon(c)'
      <4>1. t # Applied  BY <1>1, <3>2, <3>4 DEF Applied
      <4>2. flight'[c][t] > 0 /\ t >= told'[c]  BY <2>1, <2>2, <3>4, <4>1
      <4>3. QED  BY <3>4, <4>2, SameSets DEF Refreshing, Soon
    <3>5. QED  BY <3>2, <3>3, <3>4 DEF Soon, Refreshing
  <2>5. QED  BY <1>2, <2>1, <2>2, <2>3, <2>4
<1>7. ASSUME NEW p \in Events \cup {Unanswered}, Fail(c, p) PROVE SyncInv'
  <2>1. /\ flight[c][p] > 0 /\ flight' = Finished(c, p)
        /\ sync' = [sync EXCEPT ![c] = "reconnecting"] /\ warned' = warned \cup {c}
        /\ UNCHANGED <<version, hub, queue, sock, hand, heard, page, view, timer, told, newest>>
    BY <1>7 DEF Fail, Warn, handler
  <2>2. /\ flight' \in [Clients -> [Phases -> Nat]]
        /\ \A d \in Clients \ {c} : flight'[d] = flight[d]
    BY <1>1, <2>1, CountedDown
  <2>3. SyncTypeOK'  BY <1>1, <2>1, <2>2, SameSets DEF SyncTypeOK
  <2>4. Followed(c)'  BY <2>1 DEF Followed
  <2>5. QED  BY <1>2, <2>1, <2>2, <2>3, <2>4
<1>8. CASE Leave(c)
  <2>1. /\ page[c] = "shown" /\ page' = [page EXCEPT ![c] = "left"] /\ timer' = timer \ {c}
        /\ flight' = [flight EXCEPT ![c] = NoRefresh]
        /\ UNCHANGED <<version, hub, queue, sock, hand, heard, sync, view, told, newest, warned>>
    BY <1>8 DEF Leave, handler, past
  <2>2. \A d \in Clients \ {c} : Same(d)  BY <1>1, <2>1 DEF SyncTypeOK, Same
  <2>3. NoRefresh \in [Phases -> Nat]  BY DEF NoRefresh
  <2>4. SyncTypeOK'  BY <1>1, <2>1, <2>3, SameSets DEF SyncTypeOK
  <2>5. page'[c] = "left"  BY <1>1, <2>1 DEF SyncTypeOK
  <2>6. Standing(c)' /\ Followed(c)'  BY <1>1, <2>1, <2>5 DEF Standing, Followed, On
  <2>7. QED  BY <2>1, <2>2, <2>4, <2>6, OneKept
<1>9. QED  BY <1>3, <1>4, <1>5, <1>6, <1>7, <1>8 DEF Refresh

LEMMA PagesStart == SyncInit => SyncInv
<1> SUFFICES ASSUME SyncInit PROVE SyncInv
  OBVIOUS
<1>1. SyncTypeOK
  <2>1. NoRefresh \in [Phases -> Nat]  BY DEF NoRefresh
  <2>2. QED  BY <2>1, EmptyTypes, SyncConstants DEF SyncInit, SyncTypeOK
<1>2. \A c \in Clients : Standing(c) /\ Followed(c)
  BY SyncConstants DEF SyncInit, Standing, Followed, On
<1>3. QED  BY <1>1, <1>2 DEF SyncInv

LEMMA PagesGoOn == SyncInv /\ [SyncNext]_syncVars => SyncInv'
<1> SUFFICES ASSUME SyncInv, [SyncNext]_syncVars PROVE SyncInv'
  OBVIOUS
<1>1. CASE UNCHANGED syncVars
  <2>1. version' = version /\ \A d \in Clients : Same(d)
    BY <1>1 DEF syncVars, handler, browser, past, Same
  <2>2. SyncTypeOK'
    BY <1>1, SameSets DEF SyncInv, SyncTypeOK, syncVars, handler, browser, past
  <2>3. QED  BY <2>1, <2>2, OthersKeep DEF SyncInv
<1>2. CASE ChangeRoom  BY <1>2, ChangeStep DEF ChangeRoom
<1>3. CASE RestartServer  BY <1>3, RestartStep
<1>4. ASSUME NEW c \in Clients,
             Load(c) \/ Subscribe(c) \/ Leave(c) \/ Handle(c) \/ Hear(c) \/ Refresh(c)
      PROVE  SyncInv'
  <2>1. CASE Load(c)
    <3>1. Publish  BY <2>1 DEF Load
    <3>2. QED  BY <2>1, <3>1, ChangeStep
  <2>2. QED  BY <1>4, <2>1, RefreshSteps, ConnectStep, HandlerSteps
<1>5. QED  BY <1>1, <1>2, <1>3, <1>4 DEF SyncNext

\* Where handlers stand, and what is under way for a page that has not shown what it was told,
\* hold in every reachable state, for any number of pages and changes, queues of any length,
\* and any number of refreshes of one page that end in any order.
THEOREM PagesInvariant ==
  SyncSpec => []SyncInv
BY PagesStart, PagesGoOn, PTL DEF SyncSpec

\* A change a page was told of was on its screen, or its event, its timer or a refresh that
\* will show it is under way, or the page has said "reconnecting" since it was told.
THEOREM NoNewsIsLost ==
  SyncSpec => []NewsIsOnItsWay
<1>1. SyncInv => NewsIsOnItsWay
  <2> SUFFICES ASSUME SyncInv, NEW c \in Clients \ Talkers,
                      page[c] = "shown", sock[c] # "ended", c \notin warned, newest[c] < told[c]
               PROVE  OnItsWay(c, told[c])
    BY DEF NewsIsOnItsWay
  <2>1. /\ Standing(c) /\ Followed(c) /\ newest[c] \in Nat /\ told[c] \in Nat
        /\ sock[c] \in {"out", "subscribed", "waiting", "sending", "ended", "failed"}
    BY SyncTypes DEF SyncInv
  <2>2. On(c)  BY <2>1 DEF Standing, On
  <2>3. Coming(c) \/ Refreshing(c)  BY <2>1, <2>2 DEF Followed, Soon
  <2>4. QED  BY <2>2, <2>3, SyncConstants DEF SyncInv, OnItsWay, Coming, On, Refreshing
<1>2. QED  BY <1>1, PagesInvariant, PTL

-----------------------------------------------------------------------------
(* ProductionTrial: what the gate, the reports and the files promise.      *)

\* Behind the gate neither the server's accounts nor the file a first request will read hold
\* a demo account, and a missing file will not be seeded with them.
DemoKeptOut ==
  server.up /\ {"production", "gate"} \subseteq server.good =>
    /\ "unseeded" \in server.good
    /\ "demo" \notin server.accounts
    /\ users.text = "whole" => "demo" \notin users.accounts

\* A replaced password is in the file, and in the list a server has read and will write back.
OwnKept ==
  /\ RotationStays
  /\ rotated /\ server.up /\ server.loaded =>
       "own" \in server.accounts /\ "temporary" \notin server.accounts

\* The users a cutover report speaks of are there until a file changes; a server it released
\* has read them, or will.
AdministratorKept ==
  /\ report.cutover => RealUsersReady(users)
  /\ server.up /\ server.cleared =>
       IF server.loaded
       THEN "demo" \notin server.accounts /\ server.accounts \cap {"temporary", "own"} # {}
       ELSE RealUsersReady(users)

\* Which run wrote which file.  A run that has come past a file has written it, unless the
\* server has written the users since; so the files of the run that wrote the manifest are
\* its own, or newer.
WritersKept ==
  /\ \A file \in {"users", "env", "manifest"} : writer[file] <= bundle.count
  /\ bundle.step # "idle" => bundle.count # 0
  /\ bundle.step \in {"evidence", "env", "bootstrap", "manifest"} =>
       writer["users"] \in {0, bundle.count}
  /\ bundle.step \in {"bootstrap", "manifest"} => writer["env"] = bundle.count
  /\ manifest = "whole" =>
       /\ writer["manifest"] # 0
       /\ writer["env"] >= writer["manifest"]
       /\ writer["users"] = 0 \/ writer["users"] >= writer["manifest"]

\* What an acceptance has found of the files stays so until one of them changes.
ReleaseKept ==
  /\ report.accepted =>
       manifest = "whole" /\ bootstrap = "none" /\ StartAllowed(env.good, users)

\* The inductive invariant.
TrialInv ==
  /\ TypeOK /\ DemoKeptOut /\ OwnKept /\ AdministratorKept
  /\ WritersKept /\ ReleaseKept /\ AcceptedIsProven

\* The steps that write the user file.
LEMMA UsersWriters ==
  ASSUME [Next]_vars
  PROVE  \/ UNCHANGED users
         \/ PrepareUsers \/ RotateByFile \/ DeleteUsers
         \/ FirstRequest \/ UpdateProjects
BY DEF Next, vars, files, PrepareStart, PrepareEvidence, PrepareEnv, PrepareBootstrap,
       PrepareManifest, EditEnv, DeleteBootstrap, RecordEvidence, RecordVerification,
       InitEventStore, StartServer, StopServer, OpenEventStore, CheckCutover, RunAcceptance

\* The steps that change the server, beyond what it was cleared for.
LEMMA ServerSteps ==
  ASSUME [Next]_vars
  PROVE  \/ UNCHANGED server \/ Stale
         \/ StartServer \/ StopServer \/ FirstRequest
BY DEF Next, vars, PrepareStart, PrepareUsers, PrepareEvidence, PrepareEnv, PrepareBootstrap,
       PrepareManifest, Change, EditEnv, RotateByFile, DeleteBootstrap, DeleteUsers,
       RecordEvidence, RecordVerification, InitEventStore, UpdateProjects, OpenEventStore,
       CheckCutover, RunAcceptance

\* The steps that leave an acceptance standing leave the files it has judged as they are.
LEMMA AcceptanceSteps ==
  ASSUME TypeOK, [Next]_vars
  PROVE  \/ ~report'.accepted
         \/ /\ report'.accepted = report.accepted /\ report'.harnesses = report.harnesses
            /\ UNCHANGED <<files, state>>
         \/ \E ran, replace, tree \in BOOLEAN, proved \in SUBSET Harnesses :
              RunAcceptance(ran, proved, replace, tree)
<1>1. report \in [accepted : BOOLEAN, harnesses : BOOLEAN, cutover : BOOLEAN]  BY DEF TypeOK
<1>2. Stale => ~report'.accepted  BY DEF Stale, NoReport
<1>3. ASSUME \/ PrepareUsers \/ PrepareEvidence \/ PrepareEnv \/ PrepareBootstrap
             \/ PrepareManifest \/ EditEnv \/ RotateByFile \/ DeleteBootstrap \/ DeleteUsers
             \/ RecordEvidence \/ RecordVerification
             \/ \E replace \in BOOLEAN : InitEventStore(replace)
      PROVE  Stale
  BY <1>3 DEF PrepareUsers, PrepareEvidence, PrepareEnv, PrepareBootstrap, PrepareManifest,
              Change, EditEnv, RotateByFile, DeleteBootstrap, DeleteUsers, RecordEvidence,
              RecordVerification, InitEventStore
<1>4. ASSUME FirstRequest \/ UpdateProjects \/ OpenEventStore PROVE ~report'.accepted
  BY <1>1, <1>4 DEF FirstRequest, UpdateProjects, OpenEventStore
<1>5. ASSUME \/ \E force \in BOOLEAN : PrepareStart(force)
             \/ StartServer \/ StopServer \/ CheckCutover \/ UNCHANGED vars
      PROVE  /\ report'.accepted = report.accepted /\ report'.harnesses = report.harnesses
             /\ UNCHANGED <<files, state>>
  BY <1>1, <1>5 DEF PrepareStart, StartServer, StopServer, CheckCutover, vars, files, state
<1>6. ASSUME \E replace, tree \in BOOLEAN :
                \/ RunAcceptance(FALSE, {}, replace, tree)
                \/ \E proved \in HarnessResults : RunAcceptance(TRUE, proved, replace, tree)
      PROVE  \E ran, replace, tree \in BOOLEAN, proved \in SUBSET Harnesses :
               RunAcceptance(ran, proved, replace, tree)
  BY <1>6, TrialAssumption
<1>7. QED  BY <1>2, <1>3, <1>4, <1>5, <1>6 DEF Next

\* What a bundle run and an operator do to the files is of their types.
LEMMA FileTypes ==
  ASSUME TypeOK,
         \/ \E force \in BOOLEAN : PrepareStart(force)
         \/ PrepareUsers \/ PrepareEvidence \/ PrepareEnv \/ PrepareBootstrap \/ PrepareManifest
         \/ EditEnv \/ RotateByFile \/ DeleteBootstrap \/ DeleteUsers \/ RecordEvidence
         \/ RecordVerification \/ \E replace \in BOOLEAN : InitEventStore(replace)
  PROVE  TypeOK'
<1>1. /\ env \in [text : Texts, private : BOOLEAN, good : SUBSET Requirements]
      /\ users \in [text : Texts, private : BOOLEAN, accounts : SUBSET Accounts]
      /\ bootstrap \in Texts /\ manifest \in Texts
      /\ db \in Databases /\ evidence \in [Gates -> Grades] /\ verification \in Verifications
      /\ bundle \in [step : Steps, force : BOOLEAN, count : 0..MaxBundles]
      /\ server \in [up : BOOLEAN, good : SUBSET Requirements, loaded : BOOLEAN,
                     accounts : SUBSET Accounts, cleared : BOOLEAN]
      /\ report \in [accepted : BOOLEAN, harnesses : BOOLEAN, cutover : BOOLEAN]
      /\ changes \in 0..MaxChanges /\ rotated \in BOOLEAN
      /\ writer \in [{"users", "env", "manifest"} -> 0..MaxBundles]
  BY DEF TypeOK
<1>2. ASSUME Stale
      PROVE  /\ report' \in [accepted : BOOLEAN, harnesses : BOOLEAN, cutover : BOOLEAN]
             /\ server' \in [up : BOOLEAN, good : SUBSET Requirements, loaded : BOOLEAN,
                             accounts : SUBSET Accounts, cleared : BOOLEAN]
  BY <1>1, <1>2 DEF Stale, NoReport
<1>3. ASSUME NEW outcome, NEW text \in Texts PROVE WrittenText(outcome, text) \in Texts
  BY DEF WrittenText, Texts
<1>4. ASSUME NEW outcome, NEW private \in BOOLEAN PROVE WrittenMode(outcome, private) \in BOOLEAN
  BY DEF WrittenMode
<1>5. ASSUME NEW outcome, NEW step \in Steps, BundleNext(outcome, step)
      PROVE  bundle' \in [step : Steps, force : BOOLEAN, count : 0..MaxBundles]
  <2>1. /\ bundle'.step \in {step, "idle"} /\ bundle'.force \in BOOLEAN
        /\ bundle' = [bundle EXCEPT !.step = bundle'.step, !.force = bundle'.force]
    BY <1>1, <1>5 DEF BundleNext, BundleEnds
  <2>2. bundle'.step \in Steps  BY <2>1 DEF Steps
  <2>3. QED  BY <1>1, <2>1, <2>2
<1>6. {"idle", "users", "evidence", "env", "bootstrap", "manifest"} \subseteq Steps  BY DEF Steps
<1>w. ASSUME NEW outcome, NEW file, WriterNext(outcome, file)
      PROVE  writer' \in [{"users", "env", "manifest"} -> 0..MaxBundles]
  BY <1>1, <1>w DEF WriterNext
<1>7. ASSUME NEW force \in BOOLEAN, PrepareStart(force) PROVE TypeOK'
  <2>1. bundle' \in [step : Steps, force : BOOLEAN, count : 0..MaxBundles]
    BY <1>1, <1>6, <1>7, TrialAssumption DEF PrepareStart
  <2>2. QED  BY <1>1, <1>7, <2>1 DEF PrepareStart, files, state, history, TypeOK
<1>8. CASE PrepareUsers
  <2>1. PICK outcome \in Writes(users.text) :
          /\ users' = [text     |-> WrittenText(outcome, users.text),
                       private  |-> WrittenMode(outcome, users.private),
                       accounts |-> CASE outcome = "untouched" -> users.accounts
                                      [] outcome = "torn"      -> {}
                                      [] OTHER                 -> {"temporary"}]
          /\ rotated' \in BOOLEAN
          /\ BundleNext(outcome, "evidence") /\ WriterNext(outcome, "users")
    BY <1>8 DEF PrepareUsers
  <2>2. users' \in [text : Texts, private : BOOLEAN, accounts : SUBSET Accounts]
    BY <1>1, <1>3, <1>4, <2>1 DEF Accounts
  <2>3. bundle' \in [step : Steps, force : BOOLEAN, count : 0..MaxBundles]
    BY <1>5, <1>6, <2>1
  <2>4. writer' \in [{"users", "env", "manifest"} -> 0..MaxBundles]  BY <1>w, <2>1
  <2>5. QED  BY <1>1, <1>2, <1>8, <2>1, <2>2, <2>3, <2>4 DEF PrepareUsers, state, TypeOK
<1>9. CASE PrepareEvidence
  <2>1. evidence' \in [Gates -> Grades]
    BY <1>1, <1>9, TrialAssumption DEF PrepareEvidence, NoEvidence, Grades
  <2>2. bundle' \in [step : Steps, force : BOOLEAN, count : 0..MaxBundles]
    BY <1>5, <1>6, <1>9 DEF PrepareEvidence
  <2>3. QED  BY <1>1, <1>2, <1>9, <2>1, <2>2 DEF PrepareEvidence, files, history, TypeOK
<1>10. CASE PrepareEnv
  <2>1. PICK outcome \in Writes(env.text) :
          /\ env' = [text    |-> WrittenText(outcome, env.text),
                     private |-> WrittenMode(outcome, env.private),
                     good    |-> CASE outcome = "untouched" -> env.good
                                   [] outcome = "torn"      -> DefaultSettings
                                   [] OTHER                 -> GeneratedSettings]
          /\ BundleNext(outcome, "bootstrap") /\ WriterNext(outcome, "env")
    BY <1>10 DEF PrepareEnv
  <2>2. DefaultSettings \subseteq Requirements /\ GeneratedSettings \subseteq Requirements
    BY DEF DefaultSettings, GeneratedSettings, Requirements
  <2>3. env' \in [text : Texts, private : BOOLEAN, good : SUBSET Requirements]
    BY <1>1, <1>3, <1>4, <2>1, <2>2
  <2>4. bundle' \in [step : Steps, force : BOOLEAN, count : 0..MaxBundles]
    BY <1>5, <1>6, <2>1
  <2>5. writer' \in [{"users", "env", "manifest"} -> 0..MaxBundles]  BY <1>w, <2>1
  <2>6. QED  BY <1>1, <1>2, <1>10, <2>3, <2>4, <2>5 DEF PrepareEnv, state, TypeOK
<1>11. CASE PrepareBootstrap
  <2>1. bootstrap' \in Texts /\ bundle' \in [step : Steps, force : BOOLEAN, count : 0..MaxBundles]
    BY <1>1, <1>3, <1>5, <1>6, <1>11 DEF PrepareBootstrap
  <2>2. QED  BY <1>1, <1>2, <1>11, <2>1 DEF PrepareBootstrap, state, history, TypeOK
<1>12. CASE PrepareManifest
  <2>1. manifest' \in Texts /\ writer' \in [{"users", "env", "manifest"} -> 0..MaxBundles]
    BY <1>1, <1>3, <1>w, <1>12 DEF PrepareManifest
  <2>2. bundle' \in [step : Steps, force : BOOLEAN, count : 0..MaxBundles]
    BY <1>1, <1>6, <1>12 DEF PrepareManifest, BundleEnds
  <2>3. QED  BY <1>1, <1>2, <1>12, <2>1, <2>2 DEF PrepareManifest, state, TypeOK
<1>13. ASSUME Change
       PROVE  /\ changes' \in 0..MaxChanges
              /\ report' \in [accepted : BOOLEAN, harnesses : BOOLEAN, cutover : BOOLEAN]
              /\ server' \in [up : BOOLEAN, good : SUBSET Requirements, loaded : BOOLEAN,
                              accounts : SUBSET Accounts, cleared : BOOLEAN]
  BY <1>1, <1>2, <1>13, TrialAssumption DEF Change
<1>14. CASE EditEnv
  <2>1. env' \in [text : Texts, private : BOOLEAN, good : SUBSET Requirements]
    <3>1. PICK met \in SUBSET EditableSettings :
            env' = [env EXCEPT !.text = "whole", !.good = (env.good \ EditableSettings) \cup met]
      BY <1>14 DEF EditEnv
    <3>2. "whole" \in Texts  BY DEF Texts
    <3>3. (env.good \ EditableSettings) \cup met \in SUBSET Requirements
      BY <1>1, <3>1, TrialAssumption
    <3>4. QED  BY <1>1, <3>1, <3>2, <3>3
  <2>2. QED  BY <1>1, <1>13, <1>14, <2>1 DEF EditEnv, state, history, TypeOK
<1>15. CASE RotateByFile
  <2>1. users' \in [text : Texts, private : BOOLEAN, accounts : SUBSET Accounts]
    BY <1>1, <1>15 DEF RotateByFile, Accounts
  <2>2. rotated' \in BOOLEAN  BY <1>15 DEF RotateByFile
  <2>3. QED  BY <1>1, <1>13, <1>15, <2>1, <2>2 DEF RotateByFile, state, TypeOK
<1>16. CASE DeleteBootstrap
  <2>1. "none" \in Texts  BY DEF Texts
  <2>2. QED  BY <1>1, <1>13, <1>16, <2>1 DEF DeleteBootstrap, state, history, TypeOK
<1>17. CASE DeleteUsers
  <2>1. users' \in [text : Texts, private : BOOLEAN, accounts : SUBSET Accounts]
    BY <1>17 DEF DeleteUsers, Texts
  <2>2. writer' \in [{"users", "env", "manifest"} -> 0..MaxBundles]
    BY <1>1, <1>17, TrialAssumption DEF DeleteUsers
  <2>3. QED  BY <1>1, <1>13, <1>17, <2>1, <2>2 DEF DeleteUsers, state, TypeOK
<1>18. CASE RecordEvidence
  <2>1. evidence' \in [Gates -> Grades]
    BY <1>1, <1>18, TrialAssumption DEF RecordEvidence
  <2>2. QED  BY <1>1, <1>13, <1>18, <2>1 DEF RecordEvidence, files, history, TypeOK
<1>19. CASE RecordVerification
  <2>1. verification' \in Verifications
    BY <1>19, TrialAssumption DEF RecordVerification, Verifications
  <2>2. QED  BY <1>1, <1>13, <1>19, <2>1 DEF RecordVerification, files, history, TypeOK
<1>20. ASSUME NEW replace \in BOOLEAN, InitEventStore(replace) PROVE TypeOK'
  <2>1. db' \in Databases  BY <1>20 DEF InitEventStore, Databases
  <2>2. QED  BY <1>1, <1>13, <1>20, <2>1 DEF InitEventStore, files, history, TypeOK
<1>21. QED
  BY <1>7, <1>8, <1>9, <1>10, <1>11, <1>12, <1>14, <1>15, <1>16, <1>17, <1>18, <1>19, <1>20

\* So is what the server and the reports leave.
LEMMA ServerTypes ==
  ASSUME TypeOK,
         \/ StartServer \/ StopServer \/ FirstRequest \/ UpdateProjects \/ OpenEventStore
         \/ CheckCutover
         \/ \E ran, replace, tree \in BOOLEAN, proved \in SUBSET Harnesses :
              RunAcceptance(ran, proved, replace, tree)
  PROVE  TypeOK'
<1>1. /\ env \in [text : Texts, private : BOOLEAN, good : SUBSET Requirements]
      /\ users \in [text : Texts, private : BOOLEAN, accounts : SUBSET Accounts]
      /\ bootstrap \in Texts /\ manifest \in Texts
      /\ db \in Databases /\ evidence \in [Gates -> Grades] /\ verification \in Verifications
      /\ bundle \in [step : Steps, force : BOOLEAN, count : 0..MaxBundles]
      /\ server \in [up : BOOLEAN, good : SUBSET Requirements, loaded : BOOLEAN,
                     accounts : SUBSET Accounts, cleared : BOOLEAN]
      /\ report \in [accepted : BOOLEAN, harnesses : BOOLEAN, cutover : BOOLEAN]
      /\ changes \in 0..MaxChanges /\ rotated \in BOOLEAN
      /\ writer \in [{"users", "env", "manifest"} -> 0..MaxBundles]
  BY DEF TypeOK
<1>2. "ready" \in Databases /\ "whole" \in Texts /\ {"demo"} \subseteq Accounts
  BY DEF Databases, Texts, Accounts
<1>3. CASE StartServer
  <2>1. server' \in [up : BOOLEAN, good : SUBSET Requirements, loaded : BOOLEAN,
                     accounts : SUBSET Accounts, cleared : BOOLEAN]
    BY <1>1, <1>3 DEF StartServer
  <2>2. QED  BY <1>1, <1>3, <2>1 DEF StartServer, files, state, history, TypeOK
<1>4. CASE StopServer
  <2>1. server' \in [up : BOOLEAN, good : SUBSET Requirements, loaded : BOOLEAN,
                     accounts : SUBSET Accounts, cleared : BOOLEAN]
    BY <1>4 DEF StopServer
  <2>2. QED  BY <1>1, <1>4, <2>1 DEF StopServer, files, state, history, TypeOK
<1>5. CASE FirstRequest
  <2>1. FirstAccounts \in SUBSET Accounts  BY <1>1, <1>2 DEF FirstAccounts
  <2>2. /\ server' \in [up : BOOLEAN, good : SUBSET Requirements, loaded : BOOLEAN,
                        accounts : SUBSET Accounts, cleared : BOOLEAN]
        /\ users' \in [text : Texts, private : BOOLEAN, accounts : SUBSET Accounts]
        /\ report' \in [accepted : BOOLEAN, harnesses : BOOLEAN, cutover : BOOLEAN]
    BY <1>1, <1>2, <1>5, <2>1 DEF FirstRequest
  <2>3. writer' \in [{"users", "env", "manifest"} -> 0..MaxBundles]
    BY <1>1, <1>5, TrialAssumption DEF FirstRequest
  <2>4. QED  BY <1>1, <1>5, <2>2, <2>3 DEF FirstRequest, state, TypeOK
<1>6. CASE UpdateProjects
  <2>1. /\ users' \in [text : Texts, private : BOOLEAN, accounts : SUBSET Accounts]
        /\ report' \in [accepted : BOOLEAN, harnesses : BOOLEAN, cutover : BOOLEAN]
    BY <1>1, <1>2, <1>6 DEF UpdateProjects
  <2>2. writer' \in [{"users", "env", "manifest"} -> 0..MaxBundles]
    BY <1>1, <1>6, TrialAssumption DEF UpdateProjects
  <2>3. QED  BY <1>1, <1>6, <2>1, <2>2 DEF UpdateProjects, state, TypeOK
<1>7. CASE OpenEventStore
  <2>1. report' \in [accepted : BOOLEAN, harnesses : BOOLEAN, cutover : BOOLEAN]
    BY <1>1, <1>7 DEF OpenEventStore
  <2>2. QED  BY <1>1, <1>2, <1>7, <2>1 DEF OpenEventStore, files, history, TypeOK
<1>8. CASE CheckCutover
  <2>1. CutoverReady(env, users, bootstrap) \in BOOLEAN
    BY DEF CutoverReady
  <2>2. report' \in [accepted : BOOLEAN, harnesses : BOOLEAN, cutover : BOOLEAN]
    BY <1>1, <1>8, <2>1 DEF CheckCutover
  <2>3. QED  BY <1>1, <1>8, <2>2 DEF CheckCutover, files, state, history, TypeOK
<1>9. ASSUME NEW ran \in BOOLEAN, NEW replace \in BOOLEAN, NEW tree \in BOOLEAN,
             NEW proved \in SUBSET Harnesses, RunAcceptance(ran, proved, replace, tree)
      PROVE  TypeOK'
  <2>1. db' \in Databases  BY <1>1, <1>2, <1>9 DEF RunAcceptance, AcceptanceStore
  <2>2. Accepted(ran, proved, tree) \in BOOLEAN  BY DEF Accepted
  <2>3. report' \in [accepted : BOOLEAN, harnesses : BOOLEAN, cutover : BOOLEAN]
    BY <1>1, <1>9, <2>2 DEF RunAcceptance
  <2>4. QED  BY <1>1, <1>9, <2>1, <2>3 DEF RunAcceptance, files, history, TypeOK
<1>10. QED  BY <1>3, <1>4, <1>5, <1>6, <1>7, <1>8, <1>9

\* Every step is one of the two.
LEMMA TrialTypes ==
  ASSUME TypeOK, [Next]_vars
  PROVE  TypeOK'
<1>1. CASE UNCHANGED vars  BY <1>1 DEF TypeOK, vars, files, state, history
<1>2. CASE Next
  <2>1. ASSUME \E replace, tree \in BOOLEAN :
                  \/ RunAcceptance(FALSE, {}, replace, tree)
                  \/ \E proved \in HarnessResults : RunAcceptance(TRUE, proved, replace, tree)
        PROVE  \E ran, replace, tree \in BOOLEAN, proved \in SUBSET Harnesses :
                 RunAcceptance(ran, proved, replace, tree)
    BY <2>1, TrialAssumption
  <2>2. QED  BY <1>2, <2>1, FileTypes, ServerTypes DEF Next
<1>3. QED  BY <1>1, <1>2

\* A start behind the gate excludes demo accounts, in the file and in the settings.
LEMMA GateExcludesDemo ==
  ASSUME NEW good, NEW u, StartAllowed(good, u), {"production", "gate"} \subseteq good
  PROVE  "unseeded" \in good /\ (u.text = "whole" => "demo" \notin u.accounts)
<1>1. "default_users" \in Severe  BY DEF Severe
<1>2. SecurityChecks(good, u)["default_users"]  BY <1>1 DEF StartAllowed
<1>3. DefaultUsersReady(good, u)  BY <1>2 DEF SecurityChecks
<1>4. QED  BY <1>3 DEF DefaultUsersReady, DefaultUsersPresent, Production

\* The file is written without demo accounts: by the script and the operator, and by a server
\* behind the gate.
LEMMA DemoStep ==
  ASSUME TypeOK, DemoKeptOut, [Next]_vars
  PROVE  DemoKeptOut'
<1>1. CASE StartServer
  <2>1. /\ server'.good = env.good /\ server'.accounts = {} /\ users' = users
        /\ StartAllowed(env.good, users)
    BY <1>1 DEF StartServer, files
  <2>2. QED  BY <2>1, GateExcludesDemo DEF DemoKeptOut
<1>2. CASE StopServer  BY <1>2 DEF StopServer, DemoKeptOut
<1>3. CASE FirstRequest
  <2>1. /\ server'.up = server.up /\ server'.good = server.good
        /\ server'.accounts = FirstAccounts /\ users'.accounts = FirstAccounts /\ server.up
    BY <1>3 DEF FirstRequest, TypeOK
  <2>2. QED  BY <2>1 DEF FirstAccounts, DemoKeptOut
<1>4. CASE UNCHANGED server \/ Stale
  <2>1. /\ server'.up = server.up /\ server'.good = server.good
        /\ server'.accounts = server.accounts
    BY <1>4 DEF Stale, TypeOK
  <2>2. CASE UNCHANGED users  BY <2>1, <2>2 DEF DemoKeptOut
  <2>3. CASE PrepareUsers
    <3>1. PICK outcome \in Writes(users.text) :
            users' = [text     |-> WrittenText(outcome, users.text),
                      private  |-> WrittenMode(outcome, users.private),
                      accounts |-> CASE outcome = "untouched" -> users.accounts
                                     [] outcome = "torn"      -> {}
                                     [] OTHER                 -> {"temporary"}]
      BY <2>3 DEF PrepareUsers
    <3>2. "demo" \in users'.accounts =>
            users'.accounts = users.accounts /\ users'.text = users.text
      BY <3>1 DEF WrittenText
    <3>3. QED  BY <2>1, <3>2 DEF DemoKeptOut
  <2>4. CASE RotateByFile
    BY <2>1, <2>4 DEF RotateByFile, TypeOK, DemoKeptOut
  <2>5. CASE DeleteUsers  BY <2>1, <2>5 DEF DeleteUsers, DemoKeptOut
  <2>6. CASE UpdateProjects  BY <2>1, <2>6 DEF UpdateProjects, DemoKeptOut
  <2>7. QED  BY <1>3, <2>2, <2>3, <2>4, <2>5, <2>6, UsersWriters
<1>5. QED  BY <1>1, <1>2, <1>3, <1>4, ServerSteps

\* A replaced password is written back by the server that has read it, and left alone by a
\* script that was not told to force.
LEMMA OwnStep ==
  ASSUME TypeOK, OwnKept, [Next]_vars
  PROVE  OwnKept'
<1>1. CASE FirstRequest
  <2>1. /\ server'.accounts = FirstAccounts /\ users'.accounts = FirstAccounts
        /\ users'.text = "whole" /\ rotated' = rotated
    BY <1>1 DEF FirstRequest, TypeOK
  <2>2. QED  BY <2>1 DEF FirstAccounts, OwnKept, RotationStays
<1>2. CASE /\ UNCHANGED server \/ Stale
           /\ ~FirstRequest
  <2>1. /\ server'.up = server.up /\ server'.loaded = server.loaded
        /\ server'.accounts = server.accounts
    BY <1>2 DEF Stale, TypeOK
  <2>2. CASE PrepareUsers
    <3>1. PICK outcome \in Writes(users.text) :
            /\ users' = [text     |-> WrittenText(outcome, users.text),
                         private  |-> WrittenMode(outcome, users.private),
                         accounts |-> CASE outcome = "untouched" -> users.accounts
                                        [] outcome = "torn"      -> {}
                                        [] OTHER                 -> {"temporary"}]
            /\ rotated' = (rotated /\ ~(bundle.force /\ outcome # "untouched"))
      BY <2>2 DEF PrepareUsers
    <3>2. rotated' => rotated /\ outcome = "untouched"
      BY <3>1 DEF Writes, OwnKept, RotationStays
    <3>3. rotated' => users'.accounts = users.accounts /\ users'.text = users.text
      BY <3>1, <3>2 DEF WrittenText
    <3>4. QED  BY <2>1, <3>2, <3>3 DEF OwnKept, RotationStays
  <2>3. CASE RotateByFile
    <3>1. /\ users'.text = "whole" /\ users'.accounts = (users.accounts \ {"temporary"}) \cup {"own"}
          /\ rotated' = ~(server.up /\ server.loaded)
      BY <2>3 DEF RotateByFile, TypeOK
    <3>2. QED  BY <2>1, <3>1 DEF OwnKept, RotationStays
  <2>4. CASE DeleteUsers  BY <2>4 DEF DeleteUsers, OwnKept, RotationStays
  <2>5. CASE UpdateProjects
    BY <2>1, <2>5 DEF UpdateProjects, OwnKept, RotationStays
  <2>6. CASE UNCHANGED users /\ UNCHANGED rotated
    BY <2>1, <2>6 DEF OwnKept, RotationStays
  <2>7. UNCHANGED rotated \/ PrepareUsers \/ RotateByFile \/ DeleteUsers
    BY DEF Next, vars, history, PrepareStart, PrepareEvidence, PrepareEnv, PrepareBootstrap,
           PrepareManifest, EditEnv, DeleteBootstrap, RecordEvidence, RecordVerification,
           InitEventStore, StartServer, StopServer, FirstRequest, UpdateProjects,
           OpenEventStore, CheckCutover, RunAcceptance
  <2>8. QED  BY <1>2, <2>2, <2>3, <2>4, <2>5, <2>6, <2>7, UsersWriters
<1>3. CASE StartServer \/ StopServer
  <2>1. ~server'.loaded /\ users' = users /\ rotated' = rotated
    BY <1>3 DEF StartServer, StopServer, files, history
  <2>2. QED  BY <2>1 DEF OwnKept, RotationStays
<1>4. QED  BY <1>1, <1>2, <1>3, ServerSteps

\* What the cutover report found of the users is true until a file changes, and a server that
\* was cleared reads those users and writes them back.
LEMMA AdministratorStep ==
  ASSUME TypeOK, AdministratorKept, [Next]_vars
  PROVE  AdministratorKept'
<1>1. CASE Stale
  <2>1. ~report'.cutover /\ ~server'.cleared  BY <1>1 DEF Stale, NoReport, TypeOK
  <2>2. QED  BY <2>1 DEF AdministratorKept
<1>2. CASE StartServer
  <2>1. /\ server'.cleared = report.cutover /\ ~server'.loaded
        /\ users' = users /\ report' = report
    BY <1>2 DEF StartServer, files
  <2>2. QED  BY <2>1 DEF AdministratorKept, RealUsersReady
<1>3. CASE StopServer
  <2>1. ~server'.up /\ users' = users /\ report' = report  BY <1>3 DEF StopServer, files
  <2>2. QED  BY <2>1 DEF AdministratorKept, RealUsersReady
<1>4. CASE FirstRequest
  <2>1. /\ server'.accounts = FirstAccounts /\ users'.accounts = FirstAccounts
        /\ users'.text = "whole" /\ report'.cutover = report.cutover
        /\ server'.cleared = server.cleared /\ server'.loaded /\ server.up /\ ~server.loaded
    BY <1>4 DEF FirstRequest, TypeOK
  <2>2. RealUsersReady(users) => RealUsersReady(users)' /\ FirstAccounts = users.accounts
    BY <2>1 DEF FirstAccounts, RealUsersReady
  <2>3. QED  BY <2>1, <2>2 DEF AdministratorKept, RealUsersReady
<1>5. CASE UpdateProjects
  <2>1. /\ server' = server /\ server.up /\ server.loaded
        /\ users'.accounts = server.accounts /\ users'.text = "whole"
        /\ report'.cutover = (report.cutover /\ server.cleared)
    BY <1>5 DEF UpdateProjects
  <2>2. QED  BY <2>1 DEF AdministratorKept, RealUsersReady
<1>6. CASE CheckCutover
  <2>1. /\ report'.cutover = CutoverReady(env, users, bootstrap)
        /\ users' = users /\ server' = server
    BY <1>6 DEF CheckCutover, TypeOK, files
  <2>2. QED  BY <2>1 DEF AdministratorKept, CutoverReady, RealUsersReady
<1>7. CASE UNCHANGED <<users, server>> /\ report'.cutover = report.cutover
  BY <1>7 DEF AdministratorKept, RealUsersReady
<1>8. ASSUME OpenEventStore \/ UNCHANGED vars \/ (\E force \in BOOLEAN : PrepareStart(force))
             \/ \E ran, replace, tree \in BOOLEAN, proved \in SUBSET Harnesses :
                  RunAcceptance(ran, proved, replace, tree)
      PROVE  UNCHANGED <<users, server>> /\ report'.cutover = report.cutover
  BY <1>8 DEF OpenEventStore, PrepareStart, RunAcceptance, TypeOK, files, vars
<1>9. ASSUME \E replace, tree \in BOOLEAN :
                \/ RunAcceptance(FALSE, {}, replace, tree)
                \/ \E proved \in HarnessResults : RunAcceptance(TRUE, proved, replace, tree)
      PROVE  \E ran, replace, tree \in BOOLEAN, proved \in SUBSET Harnesses :
               RunAcceptance(ran, proved, replace, tree)
  BY <1>9, TrialAssumption
<1>10. ASSUME \/ PrepareUsers \/ PrepareEvidence \/ PrepareEnv \/ PrepareBootstrap
              \/ PrepareManifest \/ EditEnv \/ RotateByFile \/ DeleteBootstrap \/ DeleteUsers
              \/ RecordEvidence \/ RecordVerification
              \/ \E replace \in BOOLEAN : InitEventStore(replace)
       PROVE  Stale
  BY <1>10 DEF PrepareUsers, PrepareEvidence, PrepareEnv, PrepareBootstrap, PrepareManifest,
               Change, EditEnv, RotateByFile, DeleteBootstrap, DeleteUsers, RecordEvidence,
               RecordVerification, InitEventStore
<1>11. QED
  BY <1>1, <1>2, <1>3, <1>4, <1>5, <1>6, <1>7, <1>8, <1>9, <1>10 DEF Next

\* The steps that leave the bundle's run and its manifest alone can only forget which run
\* wrote the users.
LEMMA WriterSteps ==
  ASSUME TypeOK, [Next]_vars
  PROVE  \/ UNCHANGED <<writer, bundle, manifest>>
         \/ UNCHANGED <<bundle, manifest>> /\ writer' = [writer EXCEPT !["users"] = 0]
         \/ \E force \in BOOLEAN : PrepareStart(force)
         \/ PrepareUsers \/ PrepareEvidence \/ PrepareEnv \/ PrepareBootstrap \/ PrepareManifest
<1>1. ASSUME FirstRequest \/ UpdateProjects \/ DeleteUsers
      PROVE  /\ UNCHANGED <<bundle, manifest>>
             /\ writer' = writer \/ writer' = [writer EXCEPT !["users"] = 0]
  BY <1>1 DEF FirstRequest, UpdateProjects, DeleteUsers
<1>2. ASSUME \/ EditEnv \/ RotateByFile \/ DeleteBootstrap \/ RecordEvidence
             \/ RecordVerification \/ StartServer \/ StopServer \/ OpenEventStore
             \/ CheckCutover \/ UNCHANGED vars
             \/ \E replace \in BOOLEAN : InitEventStore(replace)
      PROVE  UNCHANGED <<writer, bundle, manifest>>
  BY <1>2 DEF EditEnv, RotateByFile, DeleteBootstrap, RecordEvidence, RecordVerification,
              StartServer, StopServer, OpenEventStore, CheckCutover, InitEventStore,
              vars, files, history
<1>3. ASSUME NEW ran, NEW proved, NEW replace, NEW tree, RunAcceptance(ran, proved, replace, tree)
      PROVE  UNCHANGED <<writer, bundle, manifest>>
  BY <1>3 DEF RunAcceptance, files, history
<1>4. QED  BY <1>1, <1>2, <1>3 DEF Next

\* A run writes its files in order and its manifest last, and is alone in it.
LEMMA WriterStep ==
  ASSUME TypeOK, WritersKept, [Next]_vars
  PROVE  WritersKept'
<1>1. /\ bundle \in [step : Steps, force : BOOLEAN, count : 0..MaxBundles]
      /\ writer \in [{"users", "env", "manifest"} -> 0..MaxBundles]
  BY DEF TypeOK
<1>2. MaxBundles \in Nat  BY TrialAssumption
<1>3. ASSUME NEW outcome, NEW step, BundleNext(outcome, step)
      PROVE  /\ bundle'.count = bundle.count
             /\ bundle'.step = IF outcome = "private" THEN step ELSE "idle"
  BY <1>1, <1>3 DEF BundleNext, BundleEnds
<1>4. CASE UNCHANGED <<writer, bundle, manifest>>  BY <1>4 DEF WritersKept
<1>5. CASE UNCHANGED <<bundle, manifest>> /\ writer' = [writer EXCEPT !["users"] = 0]
  BY <1>1, <1>2, <1>5 DEF WritersKept
<1>6. ASSUME NEW force \in BOOLEAN, PrepareStart(force) PROVE WritersKept'
  <2>1. /\ bundle'.count = bundle.count + 1 /\ bundle'.step = "users"
        /\ writer' = writer /\ manifest' = manifest
    BY <1>1, <1>6 DEF PrepareStart, files, history
  <2>2. QED  BY <1>1, <1>2, <2>1 DEF WritersKept
<1>7. CASE PrepareUsers
  <2>1. PICK outcome \in Writes(users.text) :
          BundleNext(outcome, "evidence") /\ WriterNext(outcome, "users")
    BY <1>7 DEF PrepareUsers
  <2>2. bundle.step = "users" /\ manifest' = manifest  BY <1>7 DEF PrepareUsers
  <2>3. writer["manifest"] <= bundle.count /\ bundle.count # 0
    BY <2>2 DEF WritersKept
  <2>4. writer' = IF outcome = "untouched" THEN writer
                  ELSE [writer EXCEPT !["users"] = bundle.count]
    BY <2>1 DEF WriterNext
  <2>5. QED  BY <1>1, <1>2, <1>3, <2>1, <2>2, <2>3, <2>4 DEF WritersKept
<1>8. CASE PrepareEvidence
  <2>1. PICK outcome \in {"private", "torn"} : BundleNext(outcome, "env")
    BY <1>8 DEF PrepareEvidence
  <2>2. bundle.step = "evidence" /\ manifest' = manifest /\ writer' = writer
    BY <1>8 DEF PrepareEvidence, files, history
  <2>3. QED  BY <1>1, <1>2, <1>3, <2>1, <2>2 DEF WritersKept
<1>9. CASE PrepareEnv
  <2>1. PICK outcome \in Writes(env.text) :
          BundleNext(outcome, "bootstrap") /\ WriterNext(outcome, "env")
    BY <1>9 DEF PrepareEnv
  <2>2. bundle.step = "env" /\ manifest' = manifest  BY <1>9 DEF PrepareEnv
  <2>3. writer' = IF outcome = "untouched" THEN writer
                  ELSE [writer EXCEPT !["env"] = bundle.count]
    BY <2>1 DEF WriterNext
  <2>4. QED  BY <1>1, <1>2, <1>3, <2>1, <2>2, <2>3 DEF WritersKept
<1>10. CASE PrepareBootstrap
  <2>1. PICK outcome \in Writes(bootstrap) : BundleNext(outcome, "manifest")
    BY <1>10 DEF PrepareBootstrap
  <2>2. bundle.step = "bootstrap" /\ manifest' = manifest /\ writer' = writer
    BY <1>10 DEF PrepareBootstrap, history
  <2>3. QED  BY <1>1, <1>2, <1>3, <2>1, <2>2 DEF WritersKept
<1>11. CASE PrepareManifest
  <2>1. PICK outcome \in Writes(manifest) :
          manifest' = WrittenText(outcome, manifest) /\ WriterNext(outcome, "manifest")
    BY <1>11 DEF PrepareManifest
  <2>2. /\ bundle.step = "manifest" /\ bundle'.step = "idle" /\ bundle'.count = bundle.count
    BY <1>1, <1>11 DEF PrepareManifest, BundleEnds
  <2>3. outcome = "untouched" => manifest' = manifest  BY <2>1 DEF WrittenText
  <2>4. writer' = IF outcome = "untouched" THEN writer
                  ELSE [writer EXCEPT !["manifest"] = bundle.count]
    BY <2>1 DEF WriterNext
  <2>5. QED  BY <1>1, <1>2, <2>2, <2>3, <2>4 DEF WritersKept
<1>12. QED  BY <1>4, <1>5, <1>6, <1>7, <1>8, <1>9, <1>10, <1>11, WriterSteps

\* An acceptance asks for the manifest, and every change of a file withdraws it.
LEMMA ReleaseStep ==
  ASSUME TypeOK, ReleaseKept, [Next]_vars
  PROVE  ReleaseKept'
<1>1. CASE ~report'.accepted  BY <1>1 DEF ReleaseKept
<1>2. CASE report'.accepted = report.accepted /\ UNCHANGED files
  BY <1>2 DEF ReleaseKept, files
<1>3. ASSUME NEW ran \in BOOLEAN, NEW replace \in BOOLEAN, NEW tree \in BOOLEAN,
             NEW proved \in SUBSET Harnesses, RunAcceptance(ran, proved, replace, tree)
      PROVE  ReleaseKept'
  <2>1. report'.accepted => Accepted(ran, proved, tree)
    BY <1>3 DEF RunAcceptance, TypeOK
  <2>2. Accepted(ran, proved, tree) =>
          manifest = "whole" /\ bootstrap = "none" /\ StartAllowed(env.good, users)
    BY DEF Accepted, ManifestReady, ManifestFilesReady, GateEnforced
  <2>3. UNCHANGED files  BY <1>3 DEF RunAcceptance
  <2>4. QED  BY <2>1, <2>2, <2>3 DEF ReleaseKept, files
<1>4. QED  BY <1>1, <1>2, <1>3, AcceptanceSteps

\* What the acceptance asks for, through the reports it is made of.
LEMMA AcceptedProves ==
  ASSUME NEW ran, NEW proved, NEW tree, Accepted(ran, proved, tree)
  PROVE  /\ ran /\ \A g \in Gates : evidence[g] = "strong"
         /\ verification = "multiple" /\ db' = "ready"
<1> DEFINE target == TargetReadiness(env.good, db', evidence, verification)
<1>1. db' = "ready"  BY DEF Accepted, EventStoreReady, SqliteReady
<1>2. SpeakerIdentityItem(target, evidence, tree) /\ ExternalProviderItem(ran, proved, tree)
  BY DEF Accepted, FinalAccepted
<1>3. ran  BY <1>2 DEF ExternalProviderItem, BridgeItem, Reported
<1>4. evidence["mock_e2e"] = "strong" /\ SpeakersItem(target)
  BY <1>2 DEF SpeakerIdentityItem, TeamUiItem
<1>5. /\ target.real_multi_speaker = MultiSpeakerReady(verification)
      /\ target.real_live_backend = (/\ MultiSpeakerReady(verification)
                                     /\ StrictLiveEvidencePassed(evidence["real_live_backend"]))
      /\ target.real_browser_live = (/\ MultiSpeakerReady(verification)
                                     /\ StrictLiveEvidencePassed(evidence["real_browser_live"]))
  BY DEF TargetReadiness
<1>6. /\ verification = "multiple" /\ evidence["real_live_backend"] = "strong"
      /\ evidence["real_browser_live"] = "strong"
  BY <1>4, <1>5 DEF SpeakersItem, MultiSpeakerReady, StrictLiveEvidencePassed
<1>7. QED  BY <1>1, <1>3, <1>4, <1>6 DEF Gates

\* What was accepted stays proven: every file the reports read makes them stale.
LEMMA ProvenStep ==
  ASSUME TypeOK, AcceptedIsProven, [Next]_vars
  PROVE  AcceptedIsProven'
<1>1. CASE ~report'.accepted  BY <1>1 DEF AcceptedIsProven
<1>2. CASE /\ report'.accepted = report.accepted /\ report'.harnesses = report.harnesses
           /\ UNCHANGED state
  BY <1>2 DEF AcceptedIsProven, state
<1>3. ASSUME NEW ran \in BOOLEAN, NEW replace \in BOOLEAN, NEW tree \in BOOLEAN,
             NEW proved \in SUBSET Harnesses, RunAcceptance(ran, proved, replace, tree)
      PROVE  AcceptedIsProven'
  <2>1. /\ report'.accepted = Accepted(ran, proved, tree) /\ report'.harnesses = ran
        /\ UNCHANGED <<evidence, verification>>
    BY <1>3 DEF RunAcceptance, TypeOK
  <2>2. QED  BY <2>1, AcceptedProves DEF AcceptedIsProven
<1>4. QED  BY <1>1, <1>2, <1>3, AcceptanceSteps

\* Nothing is prepared, nothing was reported.
LEMMA TrialStarts ==
  ASSUME Init
  PROVE  TrialInv
<1>1. TypeOK
  <2>1. DefaultSettings \subseteq Requirements  BY DEF DefaultSettings, Requirements
  <2>2. NoEvidence \in [Gates -> Grades]  BY DEF NoEvidence, Grades
  <2>3. NoReport \in [accepted : BOOLEAN, harnesses : BOOLEAN, cutover : BOOLEAN]
    BY DEF NoReport
  <2>4. "none" \in Texts /\ "none" \in Databases /\ "multiple" \in Verifications /\ "idle" \in Steps
    BY DEF Texts, Databases, Verifications, Steps
  <2>5. 0 \in 0..MaxBundles /\ 0 \in 0..MaxChanges  BY TrialAssumption
  <2>6. QED  BY <2>1, <2>2, <2>3, <2>4, <2>5 DEF Init, TypeOK
<1>2. /\ DemoKeptOut /\ OwnKept /\ AdministratorKept /\ WritersKept /\ ReleaseKept
      /\ AcceptedIsProven
  BY DEF Init, NoReport, DemoKeptOut, OwnKept, RotationStays, AdministratorKept, WritersKept,
         ReleaseKept, AcceptedIsProven
<1>3. QED  BY <1>1, <1>2 DEF TrialInv

\* The invariant of a deployment's release, for any settings an operator may edit, any number
\* of changes and bundle runs, and any evidence and harness results.
THEOREM TrialInvariant ==
  Spec => []TrialInv
<1>1. TrialInv /\ [Next]_vars => TrialInv'
  BY TrialTypes, DemoStep, OwnStep, AdministratorStep, WriterStep, ReleaseStep, ProvenStep
  DEF TrialInv
<1>2. QED  BY <1>1, TrialStarts, PTL DEF Spec

\* Behind the gate no server serves a demo account, although the accounts are read long after
\* the gate has looked at them.
THEOREM DemoIsNeverServed ==
  Spec => []ServesNoDemo
<1>1. TrialInv => ServesNoDemo  BY DEF TrialInv, DemoKeptOut, ServesNoDemo
<1>2. QED  BY <1>1, TrialInvariant, PTL

\* No start, first request, project update or refused bundle brings a replaced password back.
THEOREM RotatedPasswordStays ==
  Spec => []RotationStays
<1>1. TrialInv => RotationStays  BY DEF TrialInv, OwnKept
<1>2. QED  BY <1>1, TrialInvariant, PTL

\* A server started on a cutover report that still held serves an administrator.
THEOREM ClearedServerHasAdmin ==
  Spec => []CutoverServesAdmin
<1>1. TrialInv => CutoverServesAdmin  BY DEF TrialInv, AdministratorKept, CutoverServesAdmin
<1>2. QED  BY <1>1, TrialInvariant, PTL

\* A bundle cut short before its manifest is never accepted, and none of its files is older
\* than the run that wrote the manifest; the users and the environment may be newer.
THEOREM AcceptanceIsComplete ==
  Spec => []AcceptedIsComplete
<1>1. TrialInv => AcceptedIsComplete
  BY DEF TrialInv, WritersKept, ReleaseKept, AcceptedIsComplete
<1>2. QED  BY <1>1, TrialInvariant, PTL

\* What is accepted was proven by harnesses that ran, on evidence of every gate.
THEOREM AcceptanceIsProven ==
  Spec => []AcceptedIsProven
<1>1. TrialInv => AcceptedIsProven  BY DEF TrialInv
<1>2. QED  BY <1>1, TrialInvariant, PTL

-----------------------------------------------------------------------------
(* ExternalAgents: an OAuth state is used once.                            *)

\* A flow that has not come to its end has stored nothing, and none is exchanged too late.
FlowsKept ==
  \A f \in Flows :
    /\ flows[f].stage # "over" => uses[f] = 0
    /\ flows[f].stage = "exchanging" => ~flows[f].old

\* The inductive invariant.
AgentsInv == AgentsTypeOK /\ FlowsKept /\ OAuthOnce

FlowTypes == [stage : Stages, user : Users \cup {None}, provider : Providers,
              mode : {"mock", "configured"}, old : BOOLEAN]

\* What a step may do to the flows: those that are over stay as they are, those that are begun
\* belong to a user and a provider that knows OAuth.
FlowsGoOn ==
  /\ flows' \in [Flows -> FlowTypes]
  /\ \A f \in Flows : flows[f].stage = "over" => flows'[f] = flows[f]
  /\ \A f \in Flows : flows'[f].stage # "unused" =>
       flows'[f].user \in Users /\ "oauth" \in Supported(flows'[f].provider)
  /\ \A f \in Flows : flows'[f].stage = "exchanging" => ~flows'[f].old

\* A credential is connected by one of the methods, or is none.
LEMMA CredTypes ==
  ASSUME NEW c \in Creds
  PROVE  /\ c = NoCred \/ c.auth \in Auths
         /\ c.command \in {"none", "named", "relative"} /\ c.flow \in Flows \cup {None}
         /\ NoCred.auth = "none" /\ NoCred.flow = None /\ NoCred \in Creds
BY DEF Creds, NoCred, Found

\* Replacing the credential of a user and provider leaves the others as they are.
LEMMA OneReplaced ==
  ASSUME AgentsTypeOK, NEW u \in Users, NEW p \in Providers, NEW v \in Creds,
         v = NoCred \/ v.auth \in Supported(p),
         creds' = [creds EXCEPT ![u][p] = v]
  PROVE  /\ creds' \in [Users -> [Providers -> Creds]]
         /\ \A w \in Users, q \in Providers :
              creds'[w][q] = IF w = u /\ q = p THEN v ELSE creds[w][q]
         /\ \A w \in Users, q \in Providers :
              creds'[w][q] # NoCred => creds'[w][q].auth \in Supported(q)
<1>1. creds \in [Users -> [Providers -> Creds]]  BY DEF AgentsTypeOK
<1>2. creds' \in [Users -> [Providers -> Creds]]  BY <1>1
<1>3. \A w \in Users, q \in Providers :
        creds'[w][q] = IF w = u /\ q = p THEN v ELSE creds[w][q]
  BY <1>1
<1>4. \A w \in Users, q \in Providers :
        creds[w][q] # NoCred => creds[w][q].auth \in Supported(q)
  BY DEF AgentsTypeOK
<1>5. QED  BY <1>2, <1>3, <1>4

\* A step that stores nothing and leaves the flows that are over alone keeps the invariant.
LEMMA NothingStored ==
  ASSUME AgentsInv, UNCHANGED <<creds, uses>>, FlowsGoOn,
         settings' \in SettingsSet, secret' \in 1..2, connects' \in 0..MaxConnects
  PROVE  AgentsInv'
<1>1. AgentsTypeOK'  BY DEF AgentsInv, AgentsTypeOK, FlowTypes, FlowsGoOn
<1>2. uses \in [Flows -> Nat]  BY DEF AgentsInv, AgentsTypeOK
<1>3. FlowsKept'
  BY DEF AgentsInv, FlowsKept, OAuthOnce, FlowsGoOn
<1>4. ASSUME NEW f \in Flows
      PROVE  uses'[f] <= 1 /\ (uses'[f] = 1 => ~flows'[f].old /\ flows'[f].stage = "over")
  <2>1. uses[f] = 1 => flows'[f] = flows[f]  BY DEF AgentsInv, OAuthOnce, FlowsGoOn
  <2>2. QED  BY <2>1 DEF AgentsInv, OAuthOnce
<1>5. ASSUME NEW u \in Users, NEW p \in Providers, creds[u][p].flow # None
      PROVE  uses[creds[u][p].flow] = 1 /\ Matches(creds[u][p].flow, u, p)'
  <2> DEFINE f == creds[u][p].flow
  <2>1. f \in Flows  BY <1>5, CredTypes DEF AgentsInv, AgentsTypeOK
  <2>2. uses[f] = 1 /\ Matches(f, u, p)  BY <1>5 DEF AgentsInv, OAuthOnce
  <2>3. flows'[f] = flows[f]  BY <2>1, <2>2 DEF AgentsInv, OAuthOnce, FlowsGoOn
  <2>4. QED  BY <2>2, <2>3 DEF Matches
<1>6. OAuthOnce'  BY <1>4, <1>5 DEF OAuthOnce
<1>7. QED  BY <1>1, <1>3, <1>6 DEF AgentsInv

\* So does one that stores the credential of a flow that was under way, and ends it.
LEMMA OneStored ==
  ASSUME AgentsInv, NEW f \in Flows, flows[f].stage \in {"pending", "exchanging"}, ~flows[f].old,
         Store(f), FlowsGoOn, flows'[f] = [flows[f] EXCEPT !.stage = "over"],
         UNCHANGED <<settings, secret, connects>>
  PROVE  AgentsInv'
<1> DEFINE u == flows[f].user
           p == flows[f].provider
           v == [auth |-> "oauth", command |-> "none", line |-> "none", flow |-> f,
                 sealed |-> secret]
<1>1. u \in Users /\ p \in Providers /\ "oauth" \in Supported(p) /\ f # None /\ flows[f] \in FlowTypes
  BY FlowsAssumption DEF AgentsInv, AgentsTypeOK, FlowTypes
<1>2. v \in Creds /\ v.auth = "oauth" /\ v.flow = f
  BY DEF Creds, Auths, AgentsInv, AgentsTypeOK
<1>3. /\ creds' = [creds EXCEPT ![u][p] = v] /\ uses' = [uses EXCEPT ![f] = uses[f] + 1]
  BY DEF Store
<1>4. /\ creds' \in [Users -> [Providers -> Creds]]
      /\ \A w \in Users, q \in Providers :
           creds'[w][q] = IF w = u /\ q = p THEN v ELSE creds[w][q]
      /\ \A w \in Users, q \in Providers :
           creds'[w][q] # NoCred => creds'[w][q].auth \in Supported(q)
  <2> HIDE DEF u, p, v
  <2>1. QED  BY <1>1, <1>2, <1>3, OneReplaced DEF AgentsInv
<1>5. /\ uses \in [Flows -> Nat] /\ uses[f] = 0 /\ uses' \in [Flows -> Nat] /\ uses'[f] = 1
      /\ \A g \in Flows \ {f} : uses'[g] = uses[g]
  BY <1>3 DEF AgentsInv, AgentsTypeOK, FlowsKept
<1>6. AgentsTypeOK'
  BY <1>4, <1>5 DEF AgentsInv, AgentsTypeOK, FlowTypes, FlowsGoOn
<1>7. flows'[f].stage = "over" /\ ~flows'[f].old /\ flows'[f].user = u /\ flows'[f].provider = p
  BY <1>1 DEF FlowTypes
<1>8. ASSUME NEW g \in Flows \ {f}
      PROVE  /\ flows[g].stage = "over" => flows'[g] = flows[g]
             /\ uses[g] <= 1 /\ (uses[g] = 1 => ~flows[g].old /\ flows[g].stage = "over")
             /\ flows'[g].stage # "over" => uses[g] = 0
  BY DEF FlowsGoOn, AgentsInv, OAuthOnce, FlowsKept
<1>9. ASSUME NEW w \in Users, NEW q \in Providers, creds[w][q].flow # None
      PROVE  /\ creds[w][q].flow \in Flows \ {f}
             /\ flows'[creds[w][q].flow] = flows[creds[w][q].flow]
             /\ uses'[creds[w][q].flow] = 1 /\ Matches(creds[w][q].flow, w, q)
  <2> DEFINE g == creds[w][q].flow
  <2>1. g \in Flows  BY <1>9, CredTypes DEF AgentsInv, AgentsTypeOK
  <2>2. uses[g] = 1 /\ Matches(g, w, q)  BY <1>9 DEF AgentsInv, OAuthOnce
  <2>3. g # f  BY <1>5, <2>2
  <2> HIDE DEF g
  <2>4. flows'[g] = flows[g] /\ uses'[g] = 1  BY <1>5, <1>8, <2>1, <2>2, <2>3
  <2>5. QED  BY <2>1, <2>2, <2>3, <2>4 DEF g
<1>10. FlowsGoOn  OBVIOUS
<1>11. FlowsKept' /\ OAuthOnce'
  <2> HIDE DEF u, p, v
  <2>1. \A g \in Flows : flows'[g].stage # "over" => uses'[g] = 0
    <3>1. ASSUME NEW g \in Flows \ {f}, flows'[g].stage # "over" PROVE uses'[g] = 0
      BY <1>5, <1>8, <3>1
    <3>2. QED  BY <1>7, <3>1
  <2>2. \A g \in Flows :
          uses'[g] <= 1 /\ (uses'[g] = 1 => ~flows'[g].old /\ flows'[g].stage = "over")
    <3>1. uses'[f] <= 1  BY <1>5
    <3>2. \A g \in Flows \ {f} :
            uses'[g] <= 1 /\ (uses'[g] = 1 => ~flows'[g].old /\ flows'[g].stage = "over")
      BY <1>5, <1>8
    <3>3. QED  BY <1>7, <3>1, <3>2
  <2>3. ASSUME NEW w \in Users, NEW q \in Providers, creds'[w][q].flow # None
        PROVE  (uses[creds[w][q].flow] = 1 /\ Matches(creds[w][q].flow, w, q))'
    <3>1. CASE w = u /\ q = p
      <4>1. creds'[w][q].flow = f  BY <1>2, <1>4, <3>1
      <4>2. uses'[f] = 1 /\ Matches(f, w, q)'  BY <1>5, <1>7, <3>1 DEF Matches
      <4>3. QED  BY <4>1, <4>2 DEF Matches
    <3>2. CASE ~(w = u /\ q = p)
      <4>1. creds'[w][q].flow = creds[w][q].flow  BY <1>4, <3>2
      <4>2. QED  BY <1>9, <2>3, <4>1 DEF Matches
    <3>3. QED  BY <3>1, <3>2
  <2>4. FlowsKept'  BY <1>10, <2>1 DEF FlowsKept, FlowsGoOn
  <2>5. OAuthOnce'  BY <2>2, <2>3 DEF OAuthOnce
  <2>6. QED  BY <2>4, <2>5
<1>12. QED  BY <1>6, <1>11 DEF AgentsInv

\* So does connecting and disconnecting by other means.
LEMMA OtherConnected ==
  ASSUME AgentsInv, NEW u \in Users, NEW p \in Providers, NEW v \in Creds,
         v = NoCred \/ v.auth \in Supported(p), v.flow = None,
         creds' = [creds EXCEPT ![u][p] = v], connects' = connects + 1, connects < MaxConnects,
         UNCHANGED <<flows, uses, settings, secret>>
  PROVE  AgentsInv'
<1>1. /\ creds' \in [Users -> [Providers -> Creds]]
      /\ \A w \in Users, q \in Providers :
           creds'[w][q] = IF w = u /\ q = p THEN v ELSE creds[w][q]
      /\ \A w \in Users, q \in Providers :
           creds'[w][q] # NoCred => creds'[w][q].auth \in Supported(q)
  BY OneReplaced DEF AgentsInv
<1>2. connects' \in 0..MaxConnects  BY FlowsAssumption DEF AgentsInv, AgentsTypeOK
<1>3. AgentsTypeOK'  BY <1>1, <1>2 DEF AgentsInv, AgentsTypeOK
<1>4. FlowsKept'  BY DEF AgentsInv, FlowsKept
<1>5. OAuthOnce'
  <2>1. \A f \in Flows : uses[f] <= 1 /\ (uses[f] = 1 => ~flows[f].old /\ flows[f].stage = "over")
    BY DEF AgentsInv, OAuthOnce
  <2>2. ASSUME NEW w \in Users, NEW q \in Providers, creds'[w][q].flow # None
        PROVE  creds'[w][q] = creds[w][q]
    BY <1>1, <2>2
  <2>3. ASSUME NEW w \in Users, NEW q \in Providers, creds'[w][q].flow # None
        PROVE  (uses[creds[w][q].flow] = 1 /\ Matches(creds[w][q].flow, w, q))'
    BY <2>2, <2>3 DEF AgentsInv, OAuthOnce, Matches
  <2>4. QED  BY <2>1, <2>3 DEF OAuthOnce
<1>6. QED  BY <1>3, <1>4, <1>5 DEF AgentsInv

\* Pruning ends flows that are too old, and does nothing else.
LEMMA PruneEnds ==
  ASSUME AgentsInv
  PROVE  /\ Pruned \in [Flows -> FlowTypes]
         /\ \A f \in Flows :
              \/ Pruned[f] = flows[f] /\ (flows[f].stage = "pending" => ~flows[f].old)
              \/ /\ Pruned[f] = [flows[f] EXCEPT !.stage = "over"]
                 /\ flows[f].stage = "pending" /\ flows[f].old
<1>1. flows \in [Flows -> FlowTypes]  BY DEF AgentsInv, AgentsTypeOK, FlowTypes
<1>2. ASSUME NEW f \in Flows
      PROVE  flows[f].old \in BOOLEAN /\ [flows[f] EXCEPT !.stage = "over"] \in FlowTypes
  BY <1>1 DEF FlowTypes, Stages
<1>3. QED  BY <1>1, <1>2 DEF Pruned

\* A step that only ends flows, or takes one to its exchange in time, lets the flows go on.
LEMMA Ended ==
  ASSUME AgentsInv, flows' \in [Flows -> FlowTypes],
         \A f \in Flows :
           \/ flows'[f] = flows[f]
           \/ flows'[f] = [flows[f] EXCEPT !.stage = "over"] /\ flows[f].stage # "unused"
           \/ /\ flows'[f] = [flows[f] EXCEPT !.stage = "exchanging"]
              /\ flows[f].stage = "pending" /\ ~flows[f].old
  PROVE  FlowsGoOn
<1>1. SUFFICES ASSUME NEW f \in Flows
               PROVE  /\ flows[f].stage = "over" => flows'[f] = flows[f]
                      /\ flows'[f].stage # "unused" =>
                           flows'[f].user \in Users /\ "oauth" \in Supported(flows'[f].provider)
                      /\ flows'[f].stage = "exchanging" => ~flows'[f].old
  BY DEF FlowsGoOn
<1>2. /\ flows[f] \in FlowTypes
      /\ flows[f].stage # "unused" =>
           flows[f].user \in Users /\ "oauth" \in Supported(flows[f].provider)
      /\ flows[f].stage = "exchanging" => ~flows[f].old
  BY DEF AgentsInv, AgentsTypeOK, FlowTypes, FlowsKept
<1>3. CASE flows'[f] = flows[f]  BY <1>2, <1>3
<1>4. CASE flows'[f] = [flows[f] EXCEPT !.stage = "over"] /\ flows[f].stage # "unused"
  BY <1>2, <1>4 DEF FlowTypes
<1>5. CASE /\ flows'[f] = [flows[f] EXCEPT !.stage = "exchanging"]
           /\ flows[f].stage = "pending" /\ ~flows[f].old
  BY <1>2, <1>5 DEF FlowTypes
<1>6. QED  BY <1>3, <1>4, <1>5

\* The steps of the OAuth exchange, one by one.
LEMMA OAuthSteps ==
  ASSUME AgentsInv, NEW f \in Flows,
         \/ \E u \in Users, p \in Providers : StartOAuth(u, p, f) \/ Callback(u, p, f)
         \/ \E p \in Providers : CallbackRefused(p, f)
         \/ Expire(f) \/ Exchanged(f)
  PROVE  AgentsInv'
<1>1. /\ flows \in [Flows -> FlowTypes] /\ settings \in SettingsSet /\ secret \in 1..2
      /\ connects \in 0..MaxConnects
  BY DEF AgentsInv, AgentsTypeOK, FlowTypes
<1>2. \A s \in Stages : [flows[f] EXCEPT !.stage = s] \in FlowTypes
  BY <1>1 DEF FlowTypes
<1>3. {"over", "exchanging", "pending"} \subseteq Stages  BY DEF Stages
<1>4. ASSUME NEW u \in Users, NEW p \in Providers, StartOAuth(u, p, f) PROVE AgentsInv'
  <2> DEFINE begun == [stage |-> "pending", user |-> u, provider |-> p, old |-> FALSE,
                       mode |-> IF settings.configured THEN "configured" ELSE "mock"]
  <2>1. /\ "oauth" \in Supported(p) /\ flows[f].stage = "unused"
        /\ flows' = [Pruned EXCEPT ![f] = begun]
        /\ UNCHANGED <<creds, uses, settings, secret, connects>>
    BY <1>4 DEF StartOAuth
  <2>2. begun \in FlowTypes /\ begun.stage = "pending" /\ begun.user = u /\ begun.provider = p
    BY <1>3 DEF FlowTypes
  <2> HIDE DEF begun
  <2>3. flows' \in [Flows -> FlowTypes] /\ flows'[f] = begun
        /\ \A g \in Flows \ {f} : flows'[g] = Pruned[g]
    BY <2>1, <2>2, PruneEnds
  <2>4. ASSUME NEW g \in Flows
        PROVE  /\ flows[g].stage = "over" => flows'[g] = flows[g]
               /\ flows'[g].stage # "unused" =>
                    flows'[g].user \in Users /\ "oauth" \in Supported(flows'[g].provider)
               /\ flows'[g].stage = "exchanging" => ~flows'[g].old
    <3>1. CASE g = f  BY <2>1, <2>2, <2>3, <3>1
    <3>2. CASE g # f
      <4>1. /\ flows[g] \in FlowTypes
            /\ flows[g].stage # "unused" =>
                 flows[g].user \in Users /\ "oauth" \in Supported(flows[g].provider)
            /\ flows[g].stage = "exchanging" => ~flows[g].old
        BY DEF AgentsInv, AgentsTypeOK, FlowTypes, FlowsKept
      <4>2. \/ flows'[g] = flows[g]
            \/ flows'[g] = [flows[g] EXCEPT !.stage = "over"] /\ flows[g].stage = "pending"
        BY <2>3, <3>2, PruneEnds
      <4>3. QED  BY <4>1, <4>2 DEF FlowTypes
    <3>3. QED  BY <3>1, <3>2
  <2>5. FlowsGoOn  BY <2>3, <2>4 DEF FlowsGoOn
  <2>6. QED  BY <1>1, <2>1, <2>5, NothingStored
<1>5. ASSUME NEW p \in Providers, CallbackRefused(p, f) PROVE AgentsInv'
  <2>1. flows' = Pruned /\ UNCHANGED <<creds, uses, settings, secret, connects>>
    BY <1>5 DEF CallbackRefused
  <2>2. FlowsGoOn
    <3>1. flows' \in [Flows -> FlowTypes]  BY <2>1, PruneEnds
    <3>2. \A g \in Flows :
            \/ flows'[g] = flows[g]
            \/ flows'[g] = [flows[g] EXCEPT !.stage = "over"] /\ flows[g].stage # "unused"
      BY <2>1, PruneEnds
    <3>3. QED  BY <3>1, <3>2, Ended
  <2>3. QED  BY <1>1, <2>1, <2>2, NothingStored
<1>6. ASSUME NEW u \in Users, NEW p \in Providers, Callback(u, p, f) PROVE AgentsInv'
  <2>1. Pruned[f] = flows[f] /\ flows[f].stage = "pending" /\ ~flows[f].old
    <3>1. Pruned[f].stage = "pending"  BY <1>6 DEF Callback
    <3>2. flows[f] \in FlowTypes  BY <1>1
    <3>3. QED  BY <3>1, <3>2, PruneEnds DEF FlowTypes
  <2>2. /\ UNCHANGED <<settings, secret, connects>>
        /\ \/ Store(f) /\ flows' = [Pruned EXCEPT ![f].stage = "over"]
           \/ /\ UNCHANGED <<creds, uses>>
              /\ \E s \in {"exchanging", "over"} : flows' = [Pruned EXCEPT ![f].stage = s]
    BY <1>6 DEF Callback
  <2>3. ASSUME NEW s \in {"exchanging", "over"}, flows' = [Pruned EXCEPT ![f].stage = s]
        PROVE  FlowsGoOn /\ flows'[f] = [flows[f] EXCEPT !.stage = s]
    <3>1. /\ flows' \in [Flows -> FlowTypes]
          /\ flows'[f] = [flows[f] EXCEPT !.stage = s]
          /\ \A g \in Flows \ {f} : flows'[g] = Pruned[g]
      BY <1>2, <1>3, <2>1, <2>3, PruneEnds
    <3>2. ASSUME NEW g \in Flows
          PROVE  \/ flows'[g] = flows[g]
                 \/ flows'[g] = [flows[g] EXCEPT !.stage = "over"] /\ flows[g].stage # "unused"
                 \/ /\ flows'[g] = [flows[g] EXCEPT !.stage = "exchanging"]
                    /\ flows[g].stage = "pending" /\ ~flows[g].old
      <4>1. CASE g = f  BY <2>1, <3>1, <4>1
      <4>2. CASE g # f  BY <3>1, <4>2, PruneEnds
      <4>3. QED  BY <4>1, <4>2
    <3>3. FlowsGoOn  BY <3>1, <3>2, Ended
    <3>4. QED  BY <3>1, <3>3
  <2>4. CASE Store(f) /\ flows' = [Pruned EXCEPT ![f].stage = "over"]
    BY <2>1, <2>2, <2>3, <2>4, OneStored
  <2>5. CASE /\ UNCHANGED <<creds, uses>>
             /\ \E s \in {"exchanging", "over"} : flows' = [Pruned EXCEPT ![f].stage = s]
    BY <1>1, <2>2, <2>3, <2>5, NothingStored
  <2>6. QED  BY <2>2, <2>4, <2>5
<1>7. CASE Expire(f)
  <2>1. /\ flows[f].stage = "pending" /\ flows' = [flows EXCEPT ![f].old = TRUE]
        /\ UNCHANGED <<creds, uses, settings, secret, connects>>
    BY <1>7 DEF Expire
  <2>2. FlowsGoOn
    <3>1. flows' \in [Flows -> FlowTypes]  BY <1>1, <2>1 DEF FlowTypes
    <3>2. ASSUME NEW g \in Flows
          PROVE  /\ flows[g].stage = "over" => flows'[g] = flows[g]
                 /\ flows'[g].stage = flows[g].stage /\ flows'[g].user = flows[g].user
                 /\ flows'[g].provider = flows[g].provider
                 /\ flows[g].stage = "exchanging" => flows'[g].old = flows[g].old
      BY <1>1, <2>1 DEF FlowTypes
    <3>3. \A g \in Flows :
            /\ flows[g].stage # "unused" =>
                 flows[g].user \in Users /\ "oauth" \in Supported(flows[g].provider)
            /\ flows[g].stage = "exchanging" => ~flows[g].old
      BY DEF AgentsInv, AgentsTypeOK, FlowsKept
    <3>4. QED  BY <3>1, <3>2, <3>3 DEF FlowsGoOn
  <2>3. QED  BY <1>1, <2>1, <2>2, NothingStored
<1>8. CASE Exchanged(f)
  <2>1. /\ flows[f].stage = "exchanging" /\ flows' = [flows EXCEPT ![f].stage = "over"]
        /\ Store(f) \/ UNCHANGED <<creds, uses>>
        /\ UNCHANGED <<settings, secret, connects>>
    BY <1>8 DEF Exchanged
  <2>2. ~flows[f].old  BY <2>1 DEF AgentsInv, FlowsKept
  <2>3. FlowsGoOn /\ flows'[f] = [flows[f] EXCEPT !.stage = "over"]
    <3>1. /\ flows' \in [Flows -> FlowTypes]
          /\ flows'[f] = [flows[f] EXCEPT !.stage = "over"]
          /\ \A g \in Flows \ {f} : flows'[g] = flows[g]
      BY <1>1, <1>2, <1>3, <2>1
    <3>2. \A g \in Flows :
            \/ flows'[g] = flows[g]
            \/ flows'[g] = [flows[g] EXCEPT !.stage = "over"] /\ flows[g].stage # "unused"
      BY <2>1, <3>1
    <3>3. FlowsGoOn  BY <3>1, <3>2, Ended
    <3>4. QED  BY <3>1, <3>3
  <2>4. CASE Store(f)  BY <2>1, <2>2, <2>3, <2>4, OneStored
  <2>5. CASE UNCHANGED <<creds, uses>>  BY <1>1, <2>1, <2>3, <2>5, NothingStored
  <2>6. QED  BY <2>1, <2>4, <2>5
<1>9. QED  BY <1>4, <1>5, <1>6, <1>7, <1>8

\* A restart loses what was under way.
LEMMA AgentsRestart ==
  ASSUME AgentsInv, Restart
  PROVE  AgentsInv'
<1>1. flows \in [Flows -> FlowTypes] /\ connects \in 0..MaxConnects /\ secret \in 1..2
  BY DEF AgentsInv, AgentsTypeOK, FlowTypes
<1>2. /\ flows' = [f \in Flows |-> IF flows[f].stage = "unused" THEN flows[f]
                                   ELSE [flows[f] EXCEPT !.stage = "over"]]
      /\ settings' \in SettingsSet /\ secret' \in secret..2
      /\ UNCHANGED <<creds, uses, connects>>
  BY DEF Restart
<1>3. \A f \in Flows : [flows[f] EXCEPT !.stage = "over"] \in FlowTypes
  BY <1>1 DEF FlowTypes, Stages
<1>4. flows' \in [Flows -> FlowTypes]  BY <1>1, <1>2, <1>3
<1>5. \A f \in Flows :
        \/ flows'[f] = flows[f]
        \/ flows'[f] = [flows[f] EXCEPT !.stage = "over"] /\ flows[f].stage # "unused"
  BY <1>2
<1>6. FlowsGoOn  BY <1>4, <1>5, Ended
<1>7. secret' \in 1..2  BY <1>1, <1>2
<1>8. QED  BY <1>1, <1>2, <1>6, <1>7, NothingStored

\* What users have connected and what their flows have stored agree in every reachable state,
\* for any number of users and flows and any settings a process may be started with.
THEOREM AgentsInvariant ==
  AgentsSpec => []AgentsInv
<1>1. ASSUME AgentsInit PROVE AgentsInv
  <2>1. /\ NoCred \in Creds /\ NoCred.flow = None /\ NoFlow.stage = "unused"
        /\ NoFlow.old = FALSE
        /\ NoFlow \in FlowTypes
    BY DEF NoCred, Creds, NoFlow, FlowTypes, Stages, Providers
  <2>2. /\ creds \in [Users -> [Providers -> Creds]]
        /\ \A u \in Users, p \in Providers : creds[u][p] = NoCred
    BY <1>1, <2>1 DEF AgentsInit
  <2>3. flows \in [Flows -> FlowTypes] /\ \A f \in Flows : flows[f] = NoFlow
    BY <1>1, <2>1 DEF AgentsInit
  <2>4. uses \in [Flows -> Nat] /\ \A f \in Flows : uses[f] = 0  BY <1>1 DEF AgentsInit
  <2>5. settings \in SettingsSet /\ secret \in 1..2 /\ connects \in 0..MaxConnects
    BY <1>1, FlowsAssumption DEF AgentsInit
  <2>6. AgentsTypeOK  BY <2>1, <2>2, <2>3, <2>4, <2>5 DEF AgentsTypeOK, FlowTypes
  <2>7. FlowsKept /\ OAuthOnce  BY <2>1, <2>2, <2>3, <2>4 DEF FlowsKept, OAuthOnce
  <2>8. QED  BY <2>6, <2>7 DEF AgentsInv
<1>2. ASSUME AgentsInv, [AgentsNext]_agentsVars PROVE AgentsInv'
  <2>1. ASSUME NEW u \in Users, NEW p \in Providers, NEW auth \in {"api_key", "local_cli"},
               NEW command \in Found \cup {"none"}, NEW line \in Lines \cup {"none"},
               Connect(u, p, auth, command, line)
        PROVE  AgentsInv'
    <3> DEFINE v == [auth |-> auth, command |-> command, line |-> line, flow |-> None,
                     sealed |-> secret]
    <3>1. v \in Creds /\ v.auth = auth /\ v.flow = None
      BY <1>2 DEF Creds, Auths, AgentsInv, AgentsTypeOK
    <3>2. /\ auth \in Supported(p) /\ connects < MaxConnects
          /\ creds' = [creds EXCEPT ![u][p] = v] /\ connects' = connects + 1
          /\ UNCHANGED <<flows, uses, settings, secret>>
      BY <2>1 DEF Connect
    <3> HIDE DEF v
    <3>3. QED  BY <1>2, <3>1, <3>2, OtherConnected
  <2>2. ASSUME NEW u \in Users, NEW p \in Providers, Disconnect(u, p) PROVE AgentsInv'
    <3>1. NoCred \in Creds /\ NoCred.flow = None  BY DEF Creds, NoCred
    <3>2. /\ connects < MaxConnects
          /\ creds' = [creds EXCEPT ![u][p] = NoCred] /\ connects' = connects + 1
          /\ UNCHANGED <<flows, uses, settings, secret>>
      BY <2>2 DEF Disconnect
    <3>3. QED  BY <1>2, <3>1, <3>2, OtherConnected
  <2>3. CASE UNCHANGED agentsVars
    BY <1>2, <2>3 DEF agentsVars, AgentsInv, AgentsTypeOK, FlowsKept, OAuthOnce, Matches
  <2>4. ASSUME NEW u \in Users, NEW p \in Providers, NEW c \in Commands,
               Connect(u, p, "local_cli", c[1], c[2])
        PROVE  AgentsInv'
    <3>1. c[1] \in Found /\ c[2] \in Lines  BY CommandsAssumption
    <3>2. QED  BY <2>1, <2>4, <3>1
  <2>5. QED  BY <1>2, <2>1, <2>2, <2>3, <2>4, OAuthSteps, AgentsRestart DEF AgentsNext
<1>3. QED  BY <1>1, <1>2, PTL DEF AgentsSpec

\* An OAuth state stores one credential at most, of the one who began it, in time.
THEOREM OAuthStoresOnce ==
  AgentsSpec => []OAuthOnce
<1>1. AgentsInv => OAuthOnce  BY DEF AgentsInv
<1>2. QED  BY <1>1, AgentsInvariant, PTL

-----------------------------------------------------------------------------
(* ExternalAgents: readiness, computed in five places.                     *)

\* What is ready is answered by the run as the property says, whatever the settings and the
\* credential are.
LEMMA ReadyIsRun ==
  ASSUME NEW s \in Settings, NEW c \in Creds, NEW p \in Providers, NEW m \in Modes,
         Ready(s, c, m), Opens(c)
  PROVE  LET success == IF m = "patch" THEN "pending_approval" ELSE "completed"
         IN  /\ Run(s, p, c, m) \subseteq {success, "failed", "bad gateway", "error"}
             /\ success \in Run(s, p, c, m) <=> ~Overlooked(s, c, m)
<1>1. /\ c = NoCred \/ c.auth \in Auths
      /\ NoCred.auth = "none"
      /\ s.cli \in BOOLEAN /\ s.api \in BOOLEAN /\ s.resolved \in BOOLEAN
      /\ s.workspace \in {"unset", "gone", "bare", "app"}
  BY CredTypes DEF Settings
<1>2. CASE m = "patch"
  <2>1. /\ c.auth = "local_cli" /\ s.workspace \in {"bare", "app"}
        /\ s.cli \/ s.workspace = "app"
    BY <1>2 DEF Ready, PatchReady
  <2>2. c # NoCred  BY <1>1, <2>1
  <2>3. Run(s, p, c, m) = ProposePatch(s, c)  BY <1>2, <2>2 DEF Run
  <2>4. Overlooked(s, c, m) <=> s.cli /\ (~s.resolved \/ c.line = "lost")
    BY <1>2, <2>1 DEF Overlooked
  <2>5. CASE s.cli
    <3>1. ProposePatch(s, c) = CliPatch(s, c)  BY <2>1, <2>5 DEF ProposePatch
    <3>2. /\ CliPatch(s, c) \subseteq {"pending_approval", "failed", "bad gateway", "error"}
          /\ "pending_approval" \in CliPatch(s, c) <=> s.resolved /\ c.line # "lost"
      BY <1>1 DEF CliPatch
    <3>3. QED  BY <1>2, <2>3, <2>4, <2>5, <3>1, <3>2
  <2>6. CASE ~s.cli
    <3>1. ProposePatch(s, c) = {"pending_approval", "error"}  BY <2>1, <2>6 DEF ProposePatch
    <3>2. QED  BY <1>2, <2>3, <2>4, <2>6, <3>1
  <2>7. QED  BY <2>5, <2>6
<1>3. CASE m # "patch"
  <2>1. c # NoCred  BY <1>3 DEF Ready, ReadOnlyReady
  <2>2. Run(s, p, c, m) = RunReadOnly(s, p, c)  BY <1>3, <2>1 DEF Run
  <2>3. ByToken(c) <=> c.auth # "local_cli"  BY <1>1, <2>1 DEF ByToken, Auths
  <2>4. Overlooked(s, c, m)
          <=> c.auth = "local_cli" /\ s.cli /\ (~s.resolved \/ c.line # "listed")
    BY <1>3 DEF Overlooked
  <2>5. CASE ByToken(c) /\ s.api /\ p \in {"claude", "codex"}
    <3>1. RunReadOnly(s, p, c) = CallApi  BY <2>3, <2>5 DEF RunReadOnly
    <3>2. QED  BY <1>3, <2>2, <2>3, <2>4, <2>5, <3>1 DEF CallApi
  <2>6. CASE c.auth = "local_cli" /\ s.cli
    <3>1. RunReadOnly(s, p, c) = RunCommand(s, c)  BY <2>3, <2>6 DEF RunReadOnly
    <3>2. /\ RunCommand(s, c) \subseteq {"completed", "failed", "bad gateway", "error"}
          /\ "completed" \in RunCommand(s, c) <=> s.resolved /\ c.line = "listed"
      BY <1>1 DEF RunCommand
    <3>3. QED  BY <1>1, <1>3, <2>2, <2>4, <2>6, <3>1, <3>2
  <2>7. CASE /\ ~(ByToken(c) /\ s.api /\ p \in {"claude", "codex"})
             /\ ~(c.auth = "local_cli" /\ s.cli)
    <3>1. RunReadOnly(s, p, c) = {"completed"}  BY <2>7 DEF RunReadOnly
    <3>2. ~Overlooked(s, c, m)  BY <2>4, <2>7
    <3>3. QED  BY <1>3, <2>2, <3>1, <3>2
  <2>8. QED  BY <2>5, <2>6, <2>7
<1>4. QED  BY <1>2, <1>3

\* How many steps of the guide are left: one to connect, for what then remains to be set up.
Remaining(s, c) ==
  If(s.workspace \in {"unset", "gone"}, 1)
  + If(~s.installed /\ c.command # "relative", 1) + If(~s.cli, 1)

Left(s, c) ==
  IF c.auth = "local_cli" THEN Remaining(s, c)
  ELSE IF c # NoCred /\ s.workspace = "unset" THEN 0 ELSE 4

LEMMA RemainingBound ==
  ASSUME NEW s, NEW c
  PROVE  Remaining(s, c) \in 0..3 /\ Left(s, c) \in 0..4
<1>1. \A b : If(b, 1) \in 0..1  BY DEF If
<1>2. Remaining(s, c) \in 0..3  BY <1>1 DEF Remaining
<1>3. QED  BY <1>2 DEF Left

\* What the steps of the guide do.
LEMMA StepsDo ==
  ASSUME NEW s \in Settings, NEW c \in Creds
  PROVE  /\ Guide(s, c) \in {"ready", "read_only"} => Follow(<<s, c>>) = <<s, c>>
         /\ Guide(s, c) = "workspace" => Follow(<<s, c>>) = <<[s EXCEPT !.workspace = "bare", !.resolved = TRUE], c>>
         /\ Guide(s, c) = "install" => Follow(<<s, c>>) = <<[s EXCEPT !.installed = TRUE], c>>
         /\ Guide(s, c) = "enable_cli" => Follow(<<s, c>>) = <<[s EXCEPT !.cli = TRUE], c>>
         /\ Guide(s, c) \in {"connect", "connect_cli"} =>
              Follow(<<s, c>>) = <<s, WithCli(c, "connect")>>
<1>1. Follow(<<s, c>>) = <<SetUp(s, Guide(s, c)), WithCli(c, Guide(s, c))>>
  BY DEF Follow
<1>2. ASSUME NEW step, step # "workspace", step # "install", step # "enable_cli"
      PROVE  SetUp(s, step) = s
  BY <1>2 DEF SetUp, Settings
<1>3. ASSUME NEW step, step # "connect", step # "connect_cli" PROVE WithCli(c, step) = c
  BY <1>3 DEF WithCli
<1>4. CASE Guide(s, c) \in {"ready", "read_only"}
  <2>1. SetUp(s, Guide(s, c)) = s /\ WithCli(c, Guide(s, c)) = c  BY <1>2, <1>3, <1>4
  <2>2. QED  BY <1>1, <1>4, <2>1
<1>5. CASE Guide(s, c) = "workspace"
  <2>1. SetUp(s, "workspace") = [s EXCEPT !.workspace = "bare", !.resolved = TRUE]
    BY DEF SetUp, Settings
  <2>2. WithCli(c, "workspace") = c  BY <1>3
  <2>3. QED  BY <1>1, <1>5, <2>1, <2>2
<1>6. CASE Guide(s, c) = "install"
  <2>1. SetUp(s, "install") = [s EXCEPT !.installed = TRUE]  BY DEF SetUp, Settings
  <2>2. WithCli(c, "install") = c  BY <1>3
  <2>3. QED  BY <1>1, <1>6, <2>1, <2>2
<1>7. CASE Guide(s, c) = "enable_cli"
  <2>1. SetUp(s, "enable_cli") = [s EXCEPT !.cli = TRUE]  BY DEF SetUp, Settings
  <2>2. WithCli(c, "enable_cli") = c  BY <1>3
  <2>3. QED  BY <1>1, <1>7, <2>1, <2>2
<1>8. CASE Guide(s, c) \in {"connect", "connect_cli"}
  <2>1. SetUp(s, Guide(s, c)) = s  BY <1>2, <1>8
  <2>2. WithCli(c, Guide(s, c)) = WithCli(c, "connect")  BY <1>8 DEF WithCli
  <2>3. QED  BY <1>1, <1>8, <2>1, <2>2
<1>9. QED  BY SMTT(30), <1>4, <1>5, <1>6, <1>7, <1>8

\* Taking a step leaves one less, until none is left.
LEMMA FollowNears ==
  ASSUME secret \in 1..2, NEW s \in Settings, NEW c \in Creds
  PROVE  /\ Left(s, c) = 0 => Follow(<<s, c>>) = <<s, c>>
         /\ \E t \in Settings, d \in Creds :
              /\ Follow(<<s, c>>) = <<t, d>>
              /\ Left(s, c) > 0 => Left(t, d) < Left(s, c)
<1> DEFINE cli == [auth |-> "local_cli", command |-> "named", line |-> "unlisted", flow |-> None,
                  sealed |-> secret]
<1>1. /\ c = NoCred \/ c.auth \in Auths
      /\ NoCred.auth = "none"
      /\ s.cli \in BOOLEAN /\ s.installed \in BOOLEAN
      /\ s.workspace \in {"unset", "gone", "bare", "app"}
  BY CredTypes DEF Settings
<1>2. /\ [s EXCEPT !.workspace = "bare", !.resolved = TRUE] \in Settings
      /\ [s EXCEPT !.installed = TRUE] \in Settings
      /\ [s EXCEPT !.cli = TRUE] \in Settings
  <2>1. [s EXCEPT !.workspace = "bare", !.resolved = TRUE] \in Settings  BY DEF Settings
  <2>2. [s EXCEPT !.installed = TRUE] \in Settings  BY DEF Settings
  <2>3. [s EXCEPT !.cli = TRUE] \in Settings  BY DEF Settings
  <2>4. QED  BY <2>1, <2>2, <2>3
<1>3. CliMissing(s, c) <=> s.cli /\ ~s.installed /\ c.command # "relative"
  BY DEF CliMissing, CliAvailable
<1>4. Remaining(s, c) \in 0..3 /\ Left(s, c) \in 0..4  BY RemainingBound
<1>5. CASE c = NoCred \/ (ByToken(c) /\ s.workspace # "unset")
  <2>1. Guide(s, c) = "connect" \/ Guide(s, c) = "connect_cli"
    BY <1>1, <1>5 DEF Guide, ByToken
  <2>2. Follow(<<s, c>>) = <<s, cli>>
    <3>1. WithCli(c, "connect") = cli  BY DEF WithCli
    <3> HIDE DEF cli
    <3>2. QED  BY <2>1, <3>1, StepsDo
  <2>3. cli \in Creds /\ cli.auth = "local_cli"
    BY DEF Creds, Auths, Found, Lines
  <2>4. Left(s, cli) \in 0..3  BY <2>3, RemainingBound DEF Left
  <2>5. Left(s, c) = 4  BY <1>1, <1>5 DEF Left, ByToken
  <2> HIDE DEF cli
  <2>6. QED  BY <2>2, <2>3, <2>4, <2>5
<1>6. CASE ByToken(c) /\ s.workspace = "unset"
  <2>1. Guide(s, c) = "read_only"  BY <1>1, <1>6 DEF Guide, ByToken
  <2>2. Follow(<<s, c>>) = <<s, c>>  BY <2>1, StepsDo
  <2>3. Left(s, c) = 0  BY <1>1, <1>6 DEF Left, ByToken
  <2>4. QED  BY <2>2, <2>3
<1>7. CASE c.auth = "local_cli"
  <2>1. ~ByToken(c) /\ c # NoCred  BY <1>1, <1>7 DEF ByToken
  <2>2. Left(s, c) = Remaining(s, c)  BY <1>7 DEF Left
  <2>3. CASE s.workspace = "unset" \/ (s.workspace = "gone" /\ s.cli /\ ~CliMissing(s, c))
    <3> DEFINE t == [s EXCEPT !.workspace = "bare", !.resolved = TRUE]
    <3>1. Guide(s, c) = "workspace"  BY <2>1, <2>3 DEF Guide, CliGuide
    <3>2. Follow(<<s, c>>) = <<t, c>>  BY <3>1, StepsDo
    <3>3. Left(t, c) < Left(s, c) /\ Left(s, c) > 0
      BY <1>1, <1>7, <2>3 DEF Left, Remaining, If, Settings
    <3>4. QED  BY <1>2, <3>2, <3>3
  <2>4. CASE s.workspace # "unset" /\ CliMissing(s, c)
    <3> DEFINE t == [s EXCEPT !.installed = TRUE]
    <3>1. Guide(s, c) = "install"  BY <2>1, <2>4 DEF Guide, CliGuide
    <3>2. Follow(<<s, c>>) = <<t, c>>  BY <3>1, StepsDo
    <3>3. Left(t, c) < Left(s, c) /\ Left(s, c) > 0
      BY <1>1, <1>3, <1>7, <2>4 DEF Left, Remaining, If, Settings
    <3>4. QED  BY <1>2, <3>2, <3>3
  <2>5. CASE s.workspace # "unset" /\ ~s.cli
    <3> DEFINE t == [s EXCEPT !.cli = TRUE]
    <3>1. Guide(s, c) = "enable_cli"  BY <1>3, <2>1, <2>5 DEF Guide, CliGuide
    <3>2. Follow(<<s, c>>) = <<t, c>>  BY <3>1, StepsDo
    <3>3. Left(t, c) < Left(s, c) /\ Left(s, c) > 0
      BY <1>1, <1>7, <2>5 DEF Left, Remaining, If, Settings
    <3>4. QED  BY <1>2, <3>2, <3>3
  <2>6. CASE s.workspace \in {"bare", "app"} /\ s.cli /\ ~CliMissing(s, c)
    <3>1. Guide(s, c) = "ready"  BY <2>1, <2>6 DEF Guide, CliGuide
    <3>2. Follow(<<s, c>>) = <<s, c>>  BY <3>1, StepsDo
    <3>3. Left(s, c) = 0  BY <1>1, <1>3, <1>7, <2>6 DEF Left, Remaining, If
    <3>4. QED  BY <3>2, <3>3
  <2>7. QED  BY <1>1, <1>3, <2>3, <2>4, <2>5, <2>6
<1>8. QED  BY <1>1, <1>5, <1>6, <1>7 DEF ByToken, Auths

\* Where none is left, the guide says so, and what it says is true.
LEMMA GuideEnds ==
  ASSUME NEW s \in Settings, NEW c \in Creds, Left(s, c) = 0
  PROVE  \/ Guide(s, c) = "ready" /\ State(s, c) \in {"ready", "warning"}
         \/ Guide(s, c) = "read_only" /\ State(s, c) = "degraded"
<1>1. /\ c = NoCred \/ c.auth \in Auths
      /\ NoCred.auth = "none"
      /\ s.cli \in BOOLEAN /\ s.installed \in BOOLEAN
      /\ s.workspace \in {"unset", "gone", "bare", "app"}
  BY CredTypes DEF Settings
<1>2. CliMissing(s, c) <=> s.cli /\ ~s.installed /\ c.command # "relative"
  BY DEF CliMissing, CliAvailable
<1>3. CASE c.auth = "local_cli"
  <2>1. ~ByToken(c) /\ c # NoCred  BY <1>1, <1>3 DEF ByToken
  <2>2. s.workspace \in {"bare", "app"} /\ s.cli /\ ~CliMissing(s, c)
    BY <1>1, <1>2, <1>3 DEF Left, Remaining, If
  <2>3. Guide(s, c) = "ready"  BY <2>1, <2>2 DEF Guide, CliGuide
  <2>4. \A m \in Modes : Ready(s, c, m)
    BY <1>3, <2>1, <2>2 DEF Ready, PatchReady, ReadOnlyReady
  <2>5. {m \in Modes : ~Ready(s, c, m)} = {} /\ Modes # {}  BY <2>4 DEF Modes
  <2>6. State(s, c) \in {"ready", "warning"}  BY <2>5 DEF State
  <2>7. QED  BY <2>3, <2>6
<1>4. CASE c.auth # "local_cli"
  <2>1. c # NoCred /\ ByToken(c) /\ s.workspace = "unset"
    BY <1>1, <1>4 DEF Left, ByToken, Auths
  <2>2. Guide(s, c) = "read_only"  BY <2>1 DEF Guide
  <2>3. /\ \A m \in Modes \ {"patch"} : Ready(s, c, m)
        /\ ~Ready(s, c, "patch")
    BY <1>4, <2>1 DEF Ready, PatchReady, ReadOnlyReady
  <2>4. "patch" \in Modes /\ "test" \in Modes \ {"patch"}  BY DEF Modes, ReadOnly
  <2>5. /\ {m \in Modes : ~Ready(s, c, m)} # Modes
        /\ {m \in Modes : ~Ready(s, c, m)} # {}
    BY <2>3, <2>4
  <2>6. State(s, c) = "degraded"  BY <2>5 DEF State
  <2>7. QED  BY <2>2, <2>6
<1>5. QED  BY <1>3, <1>4

\* The guide ends after five steps at most, wherever it begins.
LEMMA GuideTakesFive ==
  ASSUME secret \in 1..2, NEW s0 \in Settings, NEW c0 \in Creds
  PROVE  LET x == Follow(Follow(Follow(Follow(Follow(<<s0, c0>>)))))
         IN  x[1] \in Settings /\ x[2] \in Creds /\ Left(x[1], x[2]) = 0
<1> DEFINE Near(x, n) == \E s \in Settings, c \in Creds : x = <<s, c>> /\ Left(s, c) <= n
<1>1. ASSUME NEW x, NEW n \in 0..4, Near(x, n)
      PROVE  Near(Follow(x), IF n = 0 THEN 0 ELSE n - 1)
  <2>1. PICK s \in Settings, c \in Creds : x = <<s, c>> /\ Left(s, c) <= n  BY <1>1
  <2>2. Left(s, c) \in 0..4  BY RemainingBound
  <2>3. CASE Left(s, c) = 0
    <3>1. Follow(x) = <<s, c>>  BY <2>1, <2>3, FollowNears
    <3>2. QED  BY <2>1, <2>3, <3>1
  <2>4. CASE Left(s, c) > 0
    <3>1. PICK t \in Settings, d \in Creds : Follow(x) = <<t, d>> /\ Left(t, d) < Left(s, c)
      BY <2>1, <2>4, FollowNears
    <3>2. Left(t, d) \in 0..4  BY RemainingBound
    <3>3. QED  BY <2>1, <2>2, <3>1, <3>2
  <2>5. QED  BY <2>2, <2>3, <2>4
<1>2. Near(<<s0, c0>>, 4)
  <2>1. Left(s0, c0) <= 4  BY RemainingBound
  <2>2. QED  BY <2>1
<1> HIDE DEF Near
<1> DEFINE x1 == Follow(<<s0, c0>>)
           x2 == Follow(x1)
           x3 == Follow(x2)
           x4 == Follow(x3)
           x5 == Follow(x4)
<1>3. Near(x1, 3)  BY <1>1, <1>2
<1> HIDE DEF x1
<1>4. Near(x2, 2)  BY <1>1, <1>3
<1> HIDE DEF x2
<1>5. Near(x3, 1)  BY <1>1, <1>4
<1> HIDE DEF x3
<1>6. Near(x4, 0)  BY <1>1, <1>5
<1> HIDE DEF x4
<1>7. Near(x5, 0)  BY <1>1, <1>6
<1> HIDE DEF x5
<1>8. x5[1] \in Settings /\ x5[2] \in Creds /\ Left(x5[1], x5[2]) = 0
  <2>1. PICK s \in Settings, c \in Creds : x5 = <<s, c>> /\ Left(s, c) <= 0
    BY <1>7 DEF Near
  <2>2. Left(s, c) = 0  BY <2>1, RemainingBound
  <2>3. QED  BY <2>1, <2>2
<1>9. QED  BY <1>8 DEF x1, x2, x3, x4, x5

\* The five places that compute readiness agree, for every setting and every credential.
THEOREM ReadinessAlwaysAgrees ==
  AgentsSpec => []ReadinessAgrees
<1>1. AgentsInv => ReadinessAgrees
  <2> SUFFICES ASSUME AgentsInv PROVE ReadinessAgrees
    OBVIOUS
  <2>1. /\ settings \in Settings /\ secret \in 1..2
        /\ \A u \in Users, p \in Providers : creds[u][p] \in Creds
    BY SettingsAssumption DEF AgentsInv, AgentsTypeOK
  <2>2. ReadyRuns  BY <2>1, ReadyIsRun DEF ReadyRuns
  <2>3. ASSUME NEW u \in Users, NEW p \in Providers
        PROVE  LET after5 == Follow(Follow(Follow(Follow(Follow(<<settings, creds[u][p]>>)))))
                   s == after5[1]  c == after5[2]
               IN \/ Guide(s, c) = "ready" /\ State(s, c) \in {"ready", "warning"}
                  \/ Guide(s, c) = "read_only" /\ State(s, c) = "degraded"
    <3> DEFINE x == Follow(Follow(Follow(Follow(Follow(<<settings, creds[u][p]>>)))))
    <3>1. x[1] \in Settings /\ x[2] \in Creds /\ Left(x[1], x[2]) = 0
      BY <2>1, GuideTakesFive
    <3> HIDE DEF x
    <3>2. \/ Guide(x[1], x[2]) = "ready" /\ State(x[1], x[2]) \in {"ready", "warning"}
          \/ Guide(x[1], x[2]) = "read_only" /\ State(x[1], x[2]) = "degraded"
      BY <3>1, GuideEnds
    <3>3. QED  BY <3>2 DEF x
  <2>4. GuideLeads  BY <2>3 DEF GuideLeads
  <2>5. QED  BY <2>2, <2>4 DEF ReadinessAgrees
<1>2. QED  BY <1>1, AgentsInvariant, PTL

\* The points of a candidate, by what is connected and ready; no one prefers "nobody".
LEMMA ScoreBounds ==
  ASSUME NEW s \in Settings, NEW c \in Creds, NEW p \in Providers,
         NEW k \in TaskKinds, NEW m \in Modes
  PROVE  /\ Score(s, p, c, k, m, "nobody") \in Nat
         /\ Ready(s, c, m) => c # NoCred /\ Score(s, p, c, k, m, "nobody") >= 75
         /\ ~Ready(s, c, m) => Score(s, p, c, k, m, "nobody") <= 72
         /\ c # NoCred => Score(s, p, c, k, m, "nobody") >= 40
         /\ c = NoCred => Score(s, p, c, k, m, "nobody") <= 12
<1> DEFINE ready == Ready(s, c, m)
           local == k = "write_patch" /\ c.auth = "local_cli"
           apt   == Aptitude(k, p)
<1>1. apt \in 0..12
  <2>1. CASE k \in {"explain_code", "find_bug", "review_patch"}
    <3>1. apt = CASE p = "claude" -> 12 [] p = "codex" -> 10 [] OTHER -> 0
      BY <2>1 DEF Aptitude
    <3>2. QED  BY <3>1
  <2>2. CASE k \in {"write_patch", "run_tests"}
    <3>1. apt = CASE p = "codex" -> 12 [] p = "local" -> 10 [] p = "cursor" -> 8 [] OTHER -> 0
      BY <2>2 DEF Aptitude
    <3>2. QED  BY <3>1
  <2>3. CASE k \in {"summarize_changes", "git_status"}
    <3>1. apt = CASE p = "codex" -> 8 [] p = "cursor" -> 6 [] OTHER -> 0
      BY <2>3 DEF Aptitude
    <3>2. QED  BY <3>1
  <2>4. QED  BY <2>1, <2>2, <2>3 DEF TaskKinds
<1>2. p # "nobody"  BY DEF Providers
<1>3. Score(s, p, c, k, m, "nobody") =
        (IF c # NoCred THEN 40 ELSE 0) + (IF ready THEN 35 ELSE 0) + 0
        + (IF local THEN 20 ELSE 0) + apt
  BY <1>2 DEF Score, If
<1>4. ready => c # NoCred
  <2>1. NoCred.auth = "none"  BY DEF NoCred
  <2>2. QED  BY <2>1 DEF Ready, PatchReady, ReadOnlyReady
<1>5. local => c # NoCred  BY DEF NoCred
<1> HIDE DEF ready, local, apt
<1>6. /\ Score(s, p, c, k, m, "nobody") \in Nat
      /\ ready => c # NoCred /\ Score(s, p, c, k, m, "nobody") >= 75
      /\ ~ready => Score(s, p, c, k, m, "nobody") <= 72
      /\ c # NoCred => Score(s, p, c, k, m, "nobody") >= 40
      /\ c = NoCred => Score(s, p, c, k, m, "nobody") <= 12
  BY <1>1, <1>3, <1>4, <1>5
<1>7. QED  BY <1>6 DEF ready

\* The best of the candidates is ready if any is, and connected if any is: a ready one has 75
\* points, one that is not at most 72, and one that is not connected at most 12.
THEOREM ReadyIsRecommended ==
  AgentsSpec => []RecommendsReady
<1>1. AgentsInv => RecommendsReady
  <2> SUFFICES ASSUME AgentsInv, NEW u \in Users, NEW ask \in Asked
               PROVE  LET cred == creds[u]
                          best == Best(settings, cred, ask[1], ask[2], "nobody")
                      IN /\ (\E p \in settings.allowed : Ready(settings, cred[p], ask[2]))
                               => \A p \in best : Ready(settings, cred[p], ask[2])
                         /\ (\E p \in settings.allowed : cred[p] # NoCred)
                               => \A p \in best : cred[p] # NoCred
    BY DEF RecommendsReady
  <2> DEFINE k == ask[1]
             m == ask[2]
             cred == creds[u]
             points(p) == Score(settings, p, cred[p], k, m, "nobody")
  <2>1. settings \in Settings /\ settings.allowed \subseteq Providers
    <3>1. settings \in Settings  BY SettingsAssumption DEF AgentsInv, AgentsTypeOK
    <3>2. QED  BY <3>1 DEF Settings
  <2>2. \A p \in Providers : cred[p] \in Creds  BY DEF AgentsInv, AgentsTypeOK
  <2>3. k \in TaskKinds /\ m \in Modes
    <3>1. \A kind \in TaskKinds : ModeFor(kind) \in Modes  BY DEF ModeFor, Modes, ReadOnly
    <3>2. "explain" \in Modes  BY DEF Modes, ReadOnly
    <3>3. QED  BY <3>1, <3>2 DEF Asked
  <2> HIDE DEF k, m
  <2>4. \A p \in settings.allowed :
          /\ points(p) \in Nat
          /\ Ready(settings, cred[p], m) => cred[p] # NoCred /\ points(p) >= 75
          /\ ~Ready(settings, cred[p], m) => points(p) <= 72
          /\ cred[p] # NoCred => points(p) >= 40
          /\ cred[p] = NoCred => points(p) <= 12
    BY <2>1, <2>2, <2>3, ScoreBounds
  <2>5. \A p \in Best(settings, cred, k, m, "nobody"), q \in settings.allowed :
          p \in settings.allowed /\ points(q) <= points(p)
    <3> DEFINE scored == {<<p, points(p)>> : p \in settings.allowed}
    <3>1. Best(settings, cred, k, m, "nobody")
            = {x[1] : x \in {y \in scored : \A z \in scored : z[2] <= y[2]}}
      BY DEF Best
    <3>2. ASSUME NEW p \in Best(settings, cred, k, m, "nobody"), NEW q \in settings.allowed
          PROVE  p \in settings.allowed /\ points(q) <= points(p)
      <4>1. PICK y \in scored : p = y[1] /\ \A z \in scored : z[2] <= y[2]  BY <3>1, <3>2
      <4>2. <<q, points(q)>> \in scored  BY <3>2
      <4>3. PICK r \in settings.allowed : y = <<r, points(r)>>  BY <4>1
      <4> HIDE DEF points
      <4>4. <<q, points(q)>>[2] <= y[2]  BY <4>1, <4>2
      <4>5. QED  BY <4>1, <4>3, <4>4
    <3>3. QED  BY <3>2
  <2> HIDE DEF points, cred
  <2>6. ASSUME NEW q \in settings.allowed, Ready(settings, cred[q], m),
               NEW p \in Best(settings, cred, k, m, "nobody")
        PROVE  Ready(settings, cred[p], m)
    <3>1. p \in settings.allowed /\ points(q) <= points(p) /\ points(q) >= 75
      BY <2>4, <2>5, <2>6
    <3>2. QED  BY <2>4, <3>1
  <2>7. ASSUME NEW q \in settings.allowed, cred[q] # NoCred,
               NEW p \in Best(settings, cred, k, m, "nobody")
        PROVE  cred[p] # NoCred
    <3>1. p \in settings.allowed /\ points(q) <= points(p) /\ points(q) >= 40
      BY <2>4, <2>5, <2>7
    <3>2. QED  BY <2>4, <3>1
  <2>8. QED  BY <2>6, <2>7 DEF k, m, cred
<1>2. QED  BY <1>1, AgentsInvariant, PTL
=============================================================================
