------------------------------ MODULE RoomSync ------------------------------
(***************************************************************************)
(* How the browsers in a room follow it: the event hub of the server       *)
(* (collab/events.py), the handler of a room's event socket                *)
(* (collab/router.py, room_events), and the page that fetches the room     *)
(* again when an event arrives (frontend/src/App.jsx).                     *)
(*                                                                         *)
(* Every change of a room is published to the queues of its subscribers.   *)
(* A queue is bounded and drops its oldest event.  The handler waits for   *)
(* an event and a message of its client at the same time, in two tasks.    *)
(* A page does not read an event's payload: it starts a timer, and when    *)
(* that runs out asks for a snapshot of the whole room.  Nothing keeps one *)
(* such refresh from starting while others are under way, nor orders them. *)
(*                                                                         *)
(* A room's state is the number of changes made to it (`version`), which   *)
(* stands for messages, actions, memory and settings alike; an event is    *)
(* the version it announces.  A route changes the state and publishes      *)
(* without giving the event loop up, so that both are one step.            *)
(***************************************************************************)
EXTENDS Naturals, FiniteSets, Sequences

CONSTANTS Clients,    \* pages, each of which loads once
          Talkers,    \* those that send text on the event socket; the page never does
          Cap,        \* length of a subscriber's queue (25)
          MaxVersion  \* bound: changes of the room

ASSUME SyncAssumption ==
  Talkers \subseteq Clients /\ Cap \in Nat \ {0} /\ MaxVersion \in Nat

Nothing    == 0
Versions   == 0..MaxVersion
Events     == 1..MaxVersion

\* How far a refresh is: its snapshot not yet taken by the server, or taken and on its way
\* (a version in Events), or applied and the requests after it going on.
Unanswered == MaxVersion + 1
Applied    == 0
Phases     == 0..Unanswered

VARIABLES
  version, \* the room's state
  hub,     \* RoomEventHub._rooms: the clients whose queue it holds
  queue,   \* their queues
  sock,    \* the socket's handler: "out", "subscribed", "waiting", "sending", "ended", "failed"
  hand,    \* the result of event_task: an event taken from the queue, or Nothing
  heard,   \* the result of disconnect_task: "no", "text" or "gone"
  page,    \* "away", "shown" or "left"
  sync,    \* roomSyncStatus: "connecting", "live" or "reconnecting"
  view,    \* the version the page shows
  timer,   \* pages whose roomRefreshTimerRef runs
  flight,  \* the refreshes under way: how many of the page's are at each phase
  told,    \* history: the newest version published while the client was subscribed
  newest,    \* history: the newest version the page has shown
  warned   \* history: the pages that said "reconnecting" after they were last told

handler  == <<hub, queue, sock, hand, heard>>
browser  == <<page, sync, view, timer, flight>>
past     == <<told, newest, warned>>
syncVars == <<version, handler, browser, past>>

NoRefresh == [p \in Phases |-> 0]

SyncInit ==
  /\ version = 0 /\ hub = {} /\ timer = {} /\ warned = {}
  /\ queue  = [c \in Clients |-> <<>>]        /\ hand = [c \in Clients |-> Nothing]
  /\ sock   = [c \in Clients |-> "out"]       /\ heard = [c \in Clients |-> "no"]
  /\ page   = [c \in Clients |-> "away"]      /\ view = [c \in Clients |-> 0]
  /\ sync   = [c \in Clients |-> "connecting"] /\ told = [c \in Clients |-> 0]
  /\ flight = [c \in Clients |-> NoRefresh]   /\ newest = [c \in Clients |-> 0]
-----------------------------------------------------------------------------
(* The server: the hub.                                                    *)

\* _offer: a full queue loses its oldest event.
Offer(q, v) == Append(IF Len(q) = Cap THEN Tail(q) ELSE q, v)

\* A request changes the room and publishes: every queue of the hub gets the event.
Publish ==
  /\ version < MaxVersion
  /\ version' = version + 1
  /\ queue' = [c \in Clients |-> IF c \in hub THEN Offer(queue[c], version') ELSE queue[c]]
  /\ told' = [c \in Clients |-> IF c \in hub THEN version' ELSE told[c]]
  /\ warned' = warned \ hub
  /\ UNCHANGED <<hub, sock, hand, heard>>

ChangeRoom == Publish /\ UNCHANGED <<browser, newest>>

\* The page joins the room, is answered with a snapshot, and the others are told.
Load(c) ==
  /\ page[c] = "away" /\ Publish
  /\ page' = [page EXCEPT ![c] = "shown"] /\ view' = [view EXCEPT ![c] = version']
  /\ newest' = [newest EXCEPT ![c] = version']
  /\ UNCHANGED <<sync, timer, flight>>

(* The server: the handler of one event socket.                            *)

\* The handshake: access is checked, the socket accepted (socket.onopen), a queue subscribed.
Subscribe(c) ==
  /\ page[c] = "shown" /\ sock[c] = "out"
  /\ sock' = [sock EXCEPT ![c] = "subscribed"] /\ hub' = hub \cup {c}
  /\ sync' = [sync EXCEPT ![c] = "live"]
  /\ UNCHANGED <<version, queue, hand, heard, page, view, timer, flight, past>>

\* The greeting.  It is sent before the try block: a client that is gone by then ends the
\* handler with its queue still in the hub.
Greet(c) ==
  /\ sock[c] = "subscribed"
  /\ \/ sock' = [sock EXCEPT ![c] = "waiting"]
     \/ page[c] = "left" /\ sock' = [sock EXCEPT ![c] = "failed"]
  /\ UNCHANGED <<version, hub, queue, hand, heard, browser, past>>

\* event_task ends: it has the oldest event of the queue.
TakeEvent(c) ==
  /\ sock[c] = "waiting" /\ hand[c] = Nothing /\ queue[c] # <<>>
  /\ hand' = [hand EXCEPT ![c] = Head(queue[c])]
  /\ queue' = [queue EXCEPT ![c] = Tail(@)]
  /\ UNCHANGED <<version, hub, sock, heard, browser, past>>

\* disconnect_task ends: the client sent a text, or is gone.
Hear(c) ==
  /\ sock[c] = "waiting" /\ heard[c] = "no"
  /\ \/ c \in Talkers /\ page[c] = "shown" /\ heard' = [heard EXCEPT ![c] = "text"]
     \/ page[c] = "left" /\ heard' = [heard EXCEPT ![c] = "gone"]
  /\ UNCHANGED <<version, hub, queue, sock, hand, browser, past>>

\* The handler ends through its finally block, which unsubscribes the queue.
End(c) ==
  /\ sock' = [sock EXCEPT ![c] = "ended"] /\ hub' = hub \ {c}
  /\ queue' = [queue EXCEPT ![c] = <<>>]

\* asyncio.wait returns.  What the client did comes first: with a text in hand the loop
\* starts again, and an event event_task has taken meanwhile is dropped.  The task that is
\* not done is cancelled; a cancelled queue.get() takes nothing.
Wake(c) ==
  /\ sock[c] = "waiting" /\ (hand[c] # Nothing \/ heard[c] # "no")
  /\ \/ /\ heard[c] = "gone" /\ End(c)
        /\ hand' = [hand EXCEPT ![c] = Nothing] /\ UNCHANGED heard
     \/ /\ heard[c] = "text" /\ UNCHANGED <<hub, queue, sock>>
        /\ hand' = [hand EXCEPT ![c] = Nothing] /\ heard' = [heard EXCEPT ![c] = "no"]
     \/ /\ heard[c] = "no" /\ sock' = [sock EXCEPT ![c] = "sending"]
        /\ UNCHANGED <<hub, queue, hand, heard>>
  /\ UNCHANGED <<version, browser, past>>

SendUnlessBusy(c) ==   \* mutant
  /\ sock[c] = "sending"
  /\ \/ /\ page[c] = "shown" /\ sock' = [sock EXCEPT ![c] = "waiting"]
        /\ timer' = IF flight[c] = NoRefresh THEN timer \cup {c} ELSE timer
        /\ UNCHANGED <<hub, queue>>
     \/ /\ page[c] = "left" /\ End(c) /\ UNCHANGED timer
  /\ hand' = [hand EXCEPT ![c] = Nothing]
  /\ UNCHANGED <<version, heard, page, sync, view, flight, past>>

\* send_json reaches the page, whose onmessage (re)starts the timer; or the client is gone.
Send(c) ==
  /\ sock[c] = "sending"
  /\ \/ /\ page[c] = "shown" /\ timer' = timer \cup {c}
        /\ sock' = [sock EXCEPT ![c] = "waiting"] /\ UNCHANGED <<hub, queue>>
     \/ /\ page[c] = "left" /\ End(c) /\ UNCHANGED timer
  /\ hand' = [hand EXCEPT ![c] = Nothing]
  /\ UNCHANGED <<version, heard, page, sync, view, flight, past>>

\* The server stops and starts again: no queue and no handler is left, the room is.  Pages
\* see their socket closed and never open another.
RestartServer ==
  /\ hub # {}
  /\ hub' = {} /\ queue' = [c \in Clients |-> <<>>] /\ hand' = [c \in Clients |-> Nothing]
  /\ heard' = [c \in Clients |-> "no"]
  /\ sock' = [c \in Clients |-> IF sock[c] = "out" THEN "out" ELSE "ended"]
  /\ sync' = [c \in Clients |-> IF sock[c] \in {"subscribed", "waiting", "sending"}
                                THEN "reconnecting" ELSE sync[c]]
  /\ warned' = {c \in Clients : c \in warned \/ sock[c] \in {"subscribed", "waiting", "sending"}}
  /\ UNCHANGED <<version, page, view, timer, flight, told, newest>>
-----------------------------------------------------------------------------
(* The page.                                                               *)

\* The counts when a refresh starts, ends, and goes from one phase to another.
Started(c)     == [flight EXCEPT ![c][Unanswered] = @ + 1]
Finished(c, p) == [flight EXCEPT ![c][p] = @ - 1]
Moved(c, p, q) == [Finished(c, p) EXCEPT ![c][q] = @ + 1]

\* setRoomSyncStatus('reconnecting')
Warn(c) == sync' = [sync EXCEPT ![c] = "reconnecting"] /\ warned' = warned \cup {c}

\* The timer runs out: refreshRoom asks for the room, whatever other refreshes are under way.
Fire(c) ==
  /\ c \in timer
  /\ timer' = timer \ {c} /\ flight' = Started(c)
  /\ UNCHANGED <<version, handler, page, sync, view, past>>

\* The server takes the snapshot that answers a refresh.
Answer(c) ==
  /\ flight[c][Unanswered] > 0
  /\ flight' = Moved(c, Unanswered, version)
  /\ UNCHANGED <<version, handler, page, sync, view, timer, past>>

\* The four requests of a refresh are answered: its snapshot replaces what the page shows,
\* be that newer.
Apply(c, v) ==
  /\ flight[c][v] > 0
  /\ view' = [view EXCEPT ![c] = v]
  /\ newest' = [newest EXCEPT ![c] = IF v > @ THEN v ELSE @]
  /\ flight' = Moved(c, v, Applied)
  /\ UNCHANGED <<version, handler, page, sync, timer, told, warned>>

\* The requests that follow end.  Only that for the agent settings can fail the refresh.
Settle(c) ==
  /\ flight[c][Applied] > 0
  /\ flight' = Finished(c, Applied)
  /\ \/ sync' = [sync EXCEPT ![c] = "live"] /\ UNCHANGED warned
     \/ Warn(c)
  /\ UNCHANGED <<version, handler, page, view, timer, told, newest>>

FailQuietly(c, p) ==   \* mutant
  /\ flight[c][p] > 0 /\ flight' = Finished(c, p)
  /\ UNCHANGED <<version, handler, page, sync, view, timer, past>>

\* One of the four requests fails: nothing is applied, and nothing is tried again.
Fail(c, p) ==
  /\ flight[c][p] > 0 /\ flight' = Finished(c, p)
  /\ Warn(c)
  /\ UNCHANGED <<version, handler, page, view, timer, told, newest>>

\* The user closes the page: its timer and its requests go with it.
Leave(c) ==
  /\ page[c] = "shown"
  /\ page' = [page EXCEPT ![c] = "left"] /\ timer' = timer \ {c}
  /\ flight' = [flight EXCEPT ![c] = NoRefresh]
  /\ UNCHANGED <<version, handler, sync, view, past>>
-----------------------------------------------------------------------------
Handle(c)  == Greet(c) \/ TakeEvent(c) \/ Wake(c) \/ Send(c)
Refresh(c) == \/ Fire(c) \/ Answer(c) \/ Settle(c)
              \/ \E v \in Events : Apply(c, v)
              \/ \E p \in Events \cup {Unanswered} : Fail(c, p)

SyncNext ==
  \/ ChangeRoom \/ RestartServer
  \/ \E c \in Clients : Load(c) \/ Subscribe(c) \/ Leave(c) \/ Handle(c) \/ Hear(c) \/ Refresh(c)

\* The event loop runs every handler that can go on; a browser's timer runs out, and every
\* request it sends is answered or fails (api.js gives it a time limit).  That a client has
\* gone is noticed; that it sends anything is not assumed.
SyncFairness ==
  \A c \in Clients :
    WF_syncVars(Handle(c)) /\ WF_syncVars(page[c] = "left" /\ Hear(c)) /\ WF_syncVars(Refresh(c))

SyncSpec == SyncInit /\ [][SyncNext]_syncVars /\ SyncFairness
-----------------------------------------------------------------------------
SyncTypeOK ==
  /\ version \in Versions /\ hub \subseteq Clients /\ timer \subseteq Clients
  /\ queue \in [Clients -> Seq(Events)] /\ \A c \in Clients : Len(queue[c]) <= Cap
  /\ sock \in [Clients -> {"out", "subscribed", "waiting", "sending", "ended", "failed"}]
  /\ hand \in [Clients -> Versions] /\ heard \in [Clients -> {"no", "text", "gone"}]
  /\ page \in [Clients -> {"away", "shown", "left"}]
  /\ sync \in [Clients -> {"connecting", "live", "reconnecting"}]
  /\ view \in [Clients -> Versions] /\ flight \in [Clients -> [Phases -> Nat]]
  /\ told \in [Clients -> Versions] /\ newest \in [Clients -> Versions] /\ warned \subseteq Clients

\* Something is under way that will bring the page of c to version v: an event in the queue
\* or in the handler's hand, the timer, or a refresh that was not answered before v.
OnItsWay(c, v) ==
  \/ sock[c] \in {"subscribed", "waiting", "sending"} /\ (queue[c] # <<>> \/ hand[c] # Nothing)
  \/ c \in timer
  \/ \E p \in Phases : p >= v /\ flight[c][p] > 0

\* A change published to a page has been on its screen, or what will bring it there is under
\* way, or the page has said "reconnecting" since: events a full queue drops, lost races and
\* failed refreshes never cost a page a change without a word.  (Clients that send nothing,
\* and pages whose socket is there.)  It is not said that the change is still shown: of two
\* refreshes under way the one answered first may be applied last, and the page then says
\* "Room live" over an older state until the next event.
NewsIsOnItsWay ==
  \A c \in Clients \ Talkers :
    page[c] = "shown" /\ sock[c] # "ended" /\ c \notin warned /\ newest[c] < told[c]
      => OnItsWay(c, told[c])

\* A change published while a page is connected comes to its screen in the end, whatever
\* other refreshes are under way, unless the page tells its user after it that it has lost
\* the room, or loses its socket, or is closed.
CatchesUp ==
  \A c \in Clients \ Talkers : \A v \in Events :
    told[c] = v ~> \/ newest[c] >= v \/ c \in warned
                   \/ page[c] = "left" \/ sock[c] = "ended"
=============================================================================
