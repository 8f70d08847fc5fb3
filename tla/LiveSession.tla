----------------------------- MODULE LiveSession -----------------------------
(***************************************************************************)
(* One live meeting session (speakers/router.py, speakers/live.py): audio  *)
(* chunks come in over a websocket and are turned into segments by a       *)
(* provider, one task per chunk.                                           *)
(*                                                                         *)
(* The handler of a socket waits for the task of its chunk; when that is   *)
(* slow a coroutine of its own takes over (`late`) and the handler reads   *)
(* on.  A chunk that comes while a task runs is kept as the one pending    *)
(* chunk, over the one kept before.  Whoever sees a task done takes the    *)
(* pending chunk up.  Every message to the client gives the loop up (the   *)
(* send lock), so that coroutines interleave between any two sends.  A     *)
(* client that reconnects resumes the session on another socket while the  *)
(* coroutines of the old one go on.                                        *)
(*                                                                         *)
(* Left out: audio, transcripts and statistics; a session started anew     *)
(* under the same key, and sessions dropped when idle (another object,     *)
(* another instance of this module).                                       *)
(***************************************************************************)
EXTENDS Naturals, FiniteSets, Sequences

CONSTANTS Sockets,   \* connections to the session, one after the other or at once
          MaxChunk,  \* bound: chunks are numbered 1 .. MaxChunk
          Failures   \* whether the provider may fail

ASSUME LiveAssumption == Sockets # {} /\ MaxChunk \in Nat /\ Failures \in BOOLEAN

Chunks == 1..MaxChunk
None   == 0
InHand == {"received", "popped", "awaited", "reporting", "failing"}
Stages == InHand \cup {"none", "pending", "replaced", "over"}

VARIABLES
  socket,     \* of each socket: "away", "open", or "closed" (runtime.closed)
  stopping,   \* sockets whose handler is in _stop_live_session
  registered, \* the registry still names the session
  latest,     \* latest_accepted_sequence
  stage,      \* where each chunk is
  carrier,    \* the socket whose coroutine has the chunk in hand
  late,       \* chunks carried by a coroutine of their own
  task,       \* the provider's task of each chunk
  processing, \* processing_task, as the number of its chunk
  pending,    \* pending_chunk, as its number
  timeline    \* chunks whose segments were ingested, in that order

connection == <<socket, stopping, registered>>
coroutines == <<stage, carrier, late>>
vars == <<connection, coroutines, latest, task, processing, pending, timeline>>

Init ==
  /\ socket = [k \in Sockets |-> "away"] /\ stopping = {} /\ registered = TRUE
  /\ latest = 0
  /\ stage = [n \in Chunks |-> "none"] /\ task = [n \in Chunks |-> "none"]
  /\ carrier = [n \in Chunks |-> CHOOSE k \in Sockets : TRUE]
  /\ late = {} /\ processing = None /\ pending = None /\ timeline = <<>>
-----------------------------------------------------------------------------
Running(n) == n # None /\ task[n] = "running"

\* The handler of a socket is not reading while it has a chunk in hand.
Idle(k) == ~ \E n \in Chunks \ late : stage[n] \in InHand /\ carrier[n] = k
Reads(k) == socket[k] = "open" /\ k \notin stopping /\ Idle(k)

\* The session starts, or is resumed by a client that says what it sent last.
Start(k) ==
  /\ registered /\ socket[k] = "away"
  /\ socket' = [socket EXCEPT ![k] = "open"]
  /\ latest' \in IF \A j \in Sockets : socket[j] = "away" THEN {latest} ELSE latest..MaxChunk
  /\ UNCHANGED <<stopping, registered, coroutines, task, processing, pending, timeline>>

\* add_chunk accepts a chunk; those not newer than the latest are rejected.
Receive(k, n) ==
  /\ Reads(k) /\ n > latest
  /\ latest' = n
  /\ stage' = [stage EXCEPT ![n] = "received"] /\ carrier' = [carrier EXCEPT ![n] = k]
  /\ UNCHANGED <<connection, late, task, processing, pending, timeline>>

\* _start_live_processing
BeginTask(n) ==
  /\ stage' = [stage EXCEPT ![n] = "awaited"]
  /\ task' = [task EXCEPT ![n] = "running"]
  /\ processing' = n
  /\ UNCHANGED <<connection, carrier, late, latest, pending, timeline>>

Begin(n) == stage[n] = "received" /\ ~ Running(processing) /\ BeginTask(n)

\* Nobody looks again at processing_task after the pending chunk was taken.
BeginPending(n) == stage[n] = "popped" /\ BeginTask(n)

\* queue_pending_chunk
Queue(n) ==
  /\ stage[n] = "received" /\ Running(processing)
  /\ stage' = [m \in Chunks |-> IF m = n THEN "pending"
                               ELSE IF m = pending THEN "replaced" ELSE stage[m]]
  /\ pending' = n
  /\ UNCHANGED <<connection, carrier, late, latest, task, processing, timeline>>

\* service.process_live_chunk ingests the segments itself, if any, then returns.
TaskEnds(n) ==
  /\ Running(n)
  /\ \/ /\ task' = [task EXCEPT ![n] = "done"]
        /\ timeline' \in {timeline, Append(timeline, n)}
     \/ Failures /\ task' = [task EXCEPT ![n] = "failed"] /\ timeline' = timeline
  /\ UNCHANGED <<connection, coroutines, latest, processing, pending>>

\* The processing timeout: _finish_live_chunk takes over.
TurnLate(n) ==
  /\ stage[n] = "awaited" /\ n \notin late /\ Running(n)
  /\ late' = late \cup {n}
  /\ UNCHANGED <<connection, stage, carrier, latest, task, processing, pending, timeline>>

\* Mutant: a failure is not caught.
CollectDone(n) ==
  /\ stage[n] = "awaited" /\ task[n] = "done"
  /\ stage' = [stage EXCEPT ![n] = "reporting"]
  /\ UNCHANGED <<connection, carrier, late, latest, task, processing, pending, timeline>>

Collect(n) ==
  /\ stage[n] = "awaited" /\ task[n] \in {"done", "failed"}
  /\ stage' = [stage EXCEPT ![n] = IF task[n] = "done" THEN "reporting" ELSE "failing"]
  /\ UNCHANGED <<connection, carrier, late, latest, task, processing, pending, timeline>>

\* Mutant: without the test `processing_task is task`.
ReleasedAlways(n) == None

Released(n) == IF processing = n THEN None ELSE processing

\* _process_queued_live_chunk up to its first await: the pending chunk, if there
\* is one and no task runs, passes to the coroutine of socket k; others end here.
TakesUp(k, free) == socket[k] # "closed" /\ ~ Running(free) /\ pending # None

\* Mutant: the pending chunk is looked at, not taken.
PassOnLooking(n, k, isLate) ==
  /\ IF TakesUp(k, processing')
       THEN /\ stage' = [m \in Chunks |-> IF m = pending THEN "popped"
                                         ELSE IF m = n THEN "over" ELSE stage[m]]
            /\ carrier' = [carrier EXCEPT ![pending] = k]
            /\ late' = IF isLate THEN late \cup {pending} ELSE late
       ELSE /\ stage' = [m \in Chunks |-> IF m = n THEN "over" ELSE stage[m]]
            /\ UNCHANGED <<carrier, late>>
  /\ pending' = pending

PassOn(n, k, isLate) ==
  IF TakesUp(k, processing')
    THEN /\ stage' = [m \in Chunks |-> IF m = pending THEN "popped"
                                      ELSE IF m = n THEN "over" ELSE stage[m]]
         /\ carrier' = [carrier EXCEPT ![pending] = k]
         /\ late' = IF isLate THEN late \cup {pending} ELSE late
         /\ pending' = None
    ELSE /\ stage' = [m \in Chunks |-> IF m = n THEN "over" ELSE stage[m]]
         /\ UNCHANGED <<carrier, late, pending>>

\* Mutant: the pending chunk is left to the next chunk or to stop.
FinishQuietly(n) ==
  /\ stage[n] = "reporting"
  /\ processing' = Released(n)
  /\ stage' = [stage EXCEPT ![n] = "over"]
  /\ UNCHANGED <<connection, carrier, late, latest, task, pending, timeline>>

Finish(n) ==
  /\ stage[n] = "reporting"
  /\ processing' = Released(n)
  /\ PassOn(n, carrier[n], n \in late)
  /\ UNCHANGED <<connection, latest, task, timeline>>

\* The provider failed: the pending chunk is left where it is.
GiveUp(n) ==
  /\ stage[n] = "failing"
  /\ processing' = Released(n)
  /\ stage' = [stage EXCEPT ![n] = "over"]
  /\ UNCHANGED <<connection, carrier, late, latest, task, pending, timeline>>

\* _stop_live_session takes the pending chunk up if nothing is running.
Stop(k) ==
  /\ Reads(k) /\ stopping' = stopping \cup {k}
  /\ processing' = processing /\ PassOn(None, k, FALSE)
  /\ UNCHANGED <<socket, registered, latest, task, timeline>>

EndStop(k) ==
  /\ k \in stopping /\ Idle(k)
  /\ socket' = [socket EXCEPT ![k] = "closed"]
  /\ stopping' = stopping \ {k} /\ registered' = FALSE
  /\ UNCHANGED <<coroutines, latest, task, processing, pending, timeline>>

\* The client goes away: a send fails, or the handler reads the disconnect.
Disconnect(k) ==
  /\ socket[k] = "open"
  /\ socket' = [socket EXCEPT ![k] = "closed"]
  /\ UNCHANGED <<stopping, registered, coroutines, latest, task, processing, pending,
                 timeline>>

Carry(n) == \/ Begin(n) \/ BeginPending(n) \/ Queue(n) \/ Collect(n) \/ Finish(n) \/ GiveUp(n)
Next ==
  \/ \E k \in Sockets : \/ Start(k) \/ Stop(k) \/ EndStop(k) \/ Disconnect(k)
                        \/ \E n \in Chunks : Receive(k, n)
  \/ \E n \in Chunks : Carry(n) \/ TaskEnds(n) \/ TurnLate(n)

\* The loop runs ready coroutines, and a provider call ends: workers are
\* killed after whisperx_worker_timeout_seconds (speakers/provider.py).
Fairness == \A n \in Chunks : WF_vars(Carry(n)) /\ WF_vars(TaskEnds(n))
Spec == Init /\ [][Next]_vars /\ Fairness
-----------------------------------------------------------------------------
TypeOK ==
  /\ socket \in [Sockets -> {"away", "open", "closed"}]
  /\ stopping \subseteq Sockets /\ registered \in BOOLEAN
  /\ latest \in 0..MaxChunk
  /\ stage \in [Chunks -> Stages] /\ carrier \in [Chunks -> Sockets] /\ late \subseteq Chunks
  /\ task \in [Chunks -> {"none", "running", "done", "failed"}]
  /\ processing \in 0..MaxChunk /\ pending \in 0..MaxChunk
  /\ timeline \in Seq(Chunks)

\* No chunk is ingested twice, and none that a newer one replaced: a chunk has one
\* task, whoever takes it up (pop_pending_chunk, _start_live_processing).
ProcessedOnce ==
  /\ \A i, j \in DOMAIN timeline : timeline[i] = timeline[j] => i = j
  /\ \A i \in DOMAIN timeline : stage[timeline[i]] # "replaced"

\* While the task the session knows of runs, no coroutine that ends makes the session
\* look idle (the `is task` tests): else the next chunk would not wait for it.
RunningIsNotForgotten == [][Running(processing) => processing' # None]_vars

\* A queued chunk is taken up, or a newer one in its place, while the client is there
\* and the provider answers (after a failure it waits for the next chunk to be over).
QueueDrains ==
  \A n \in Chunks : pending = n ~> \/ pending # n
                                    \/ \E k \in Sockets : socket[k] = "closed"
                                    \/ \E m \in Chunks : task[m] = "failed"

\* No coroutine holds a chunk for ever, so every handler reads again: whatever the
\* provider does, the chunk is over, queued, or replaced.
InHandEnds == \A n \in Chunks : stage[n] \in InHand ~> stage[n] \notin InHand
=============================================================================
