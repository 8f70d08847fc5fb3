------------------------- MODULE LiveSession_proofs -------------------------
(***************************************************************************)
(* Safety of LiveSession for any number of sockets and chunks.             *)
(*                                                                         *)
(* ProcessedOnce is not inductive.  It rests on where a chunk is: it has a *)
(* task from the moment a coroutine starts one, the pending chunk is the   *)
(* one that is staged as pending, and a chunk newer than the latest        *)
(* accepted has not been seen (Placed).  What was ingested has a task that *)
(* is done (Ingested), so that a task, which runs once, ingests once.      *)
(***************************************************************************)
EXTENDS LiveSession, TLAPS

Waiting == {"none", "received", "pending", "replaced", "popped"}

Placed ==
  /\ \A n \in Chunks : task[n] = "none" <=> stage[n] \in Waiting
  /\ \A n \in Chunks : stage[n] = "pending" <=> pending = n
  /\ \A n \in Chunks : stage[n] \in {"reporting", "failing"} => task[n] # "running"
  /\ \A n \in Chunks : stage[n] # "none" => n <= latest

Ingested ==
  /\ \A i \in DOMAIN timeline : task[timeline[i]] = "done"
  /\ \A i, j \in DOMAIN timeline : timeline[i] = timeline[j] => i = j

IInv == TypeOK /\ Placed /\ Ingested

\* What the coroutine and the task of a chunk do.
ChunkStep(n) == Carry(n) \/ TaskEnds(n) \/ TurnLate(n)
-----------------------------------------------------------------------------
\* Chunks are positive numbers, so no chunk is None.
LEMMA ChunksAreNotNone == \A n \in Chunks : n # None /\ n \in 0..MaxChunk /\ n \in Nat
  BY LiveAssumption DEF Chunks, None

\* A session starts with no chunk and no task.
LEMMA InitIInv == Init => IInv
<1> SUFFICES ASSUME Init PROVE IInv
  OBVIOUS
<1>1. (CHOOSE k \in Sockets : TRUE) \in Sockets
  BY LiveAssumption
<1>2. TypeOK
  BY <1>1, LiveAssumption DEF Init, TypeOK, None, Stages, InHand, Chunks
<1>3. Placed
  BY ChunksAreNotNone DEF Init, Placed, Waiting, None
<1>4. Ingested
  BY DEF Init, Ingested
<1> QED
  BY <1>2, <1>3, <1>4 DEF IInv

\* Taking the pending chunk up (or ending with none to take) keeps Placed, when the
\* coroutine that does so has reported its chunk or has none.
LEMMA PassingOn ==
  ASSUME IInv, NEW k \in Sockets, NEW n \in 0..MaxChunk, NEW isLate \in BOOLEAN,
         n # None => stage[n] = "reporting",
         PassOn(n, k, isLate), processing' \in 0..MaxChunk,
         UNCHANGED <<task, latest, timeline>>
  PROVE  /\ Placed'
         /\ stage' \in [Chunks -> Stages] /\ carrier' \in [Chunks -> Sockets]
         /\ late' \subseteq Chunks /\ pending' \in 0..MaxChunk
<1> USE LiveAssumption, ChunksAreNotNone
<1>1. TypeOK /\ Placed
  BY DEF IInv
<1>2. CASE TakesUp(k, processing')
  <2>1. pending \in Chunks /\ stage[pending] = "pending"
    BY <1>1, <1>2 DEF TakesUp, Placed, TypeOK, Chunks, None
  <2>2. /\ stage' = [m \in Chunks |-> IF m = pending THEN "popped"
                                      ELSE IF m = n THEN "over" ELSE stage[m]]
        /\ carrier' = [carrier EXCEPT ![pending] = k]
        /\ late' = IF isLate THEN late \cup {pending} ELSE late
        /\ pending' = None
    BY <1>2 DEF PassOn
  <2>3. Placed'
    BY <1>1, <2>1, <2>2 DEF Placed, Waiting, TypeOK
  <2>4. stage' \in [Chunks -> Stages]
    BY <1>1, <2>2 DEF TypeOK, Stages, InHand
  <2> QED
    BY <1>1, <2>1, <2>2, <2>3, <2>4 DEF TypeOK, None
<1>3. CASE ~ TakesUp(k, processing')
  <2>1. /\ stage' = [m \in Chunks |-> IF m = n THEN "over" ELSE stage[m]]
        /\ UNCHANGED <<carrier, late, pending>>
    BY <1>3 DEF PassOn
  <2>2. Placed'
    BY <1>1, <2>1 DEF Placed, Waiting, TypeOK
  <2>3. stage' \in [Chunks -> Stages]
    BY <1>1, <2>1 DEF TypeOK, Stages, InHand
  <2> QED
    BY <1>1, <2>1, <2>2, <2>3 DEF TypeOK
<1> QED
  BY <1>2, <1>3

\* What connects, stops or goes away keeps the invariant.
LEMMA SocketSteps ==
  ASSUME IInv, NEW k \in Sockets, Start(k) \/ Stop(k) \/ EndStop(k) \/ Disconnect(k)
  PROVE  IInv'
<1> USE LiveAssumption
<1>1. TypeOK /\ Placed /\ Ingested
  BY DEF IInv
<1>2. CASE Start(k)
  <2>1. latest' \in 0..MaxChunk /\ latest <= latest'
    BY <1>1, <1>2 DEF Start, TypeOK
  <2>2. TypeOK'
    BY <1>1, <1>2, <2>1 DEF Start, TypeOK, coroutines
  <2>3. Placed'
    BY <1>1, <1>2, <2>1 DEF Start, Placed, TypeOK, coroutines, Chunks
  <2> QED
    BY <1>1, <1>2, <2>2, <2>3 DEF Start, IInv, Ingested
<1>3. CASE Stop(k)
  <2>1. PassOn(None, k, FALSE) /\ processing' = processing
        /\ UNCHANGED <<socket, registered, latest, task, timeline>>
        /\ stopping' = stopping \cup {k}
    BY <1>3 DEF Stop
  <2>2. Placed' /\ stage' \in [Chunks -> Stages] /\ carrier' \in [Chunks -> Sockets]
        /\ late' \subseteq Chunks /\ pending' \in 0..MaxChunk
    <3>1. None \in 0..MaxChunk /\ processing' \in 0..MaxChunk
      BY <1>1, <2>1 DEF TypeOK, None
    <3> QED
      BY <2>1, <3>1, PassingOn
  <2> QED
    BY <1>1, <2>1, <2>2 DEF IInv, Ingested, TypeOK
<1>4. CASE EndStop(k)
  <2>1. TypeOK'
    BY <1>1, <1>4 DEF EndStop, TypeOK, coroutines
  <2> QED
    BY <1>1, <1>4, <2>1 DEF EndStop, IInv, Placed, Ingested, coroutines
<1>5. CASE Disconnect(k)
  <2>1. TypeOK'
    BY <1>1, <1>5 DEF Disconnect, TypeOK, coroutines
  <2> QED
    BY <1>1, <1>5, <2>1 DEF Disconnect, IInv, Placed, Ingested, coroutines
<1> QED
  BY <1>2, <1>3, <1>4, <1>5

\* A chunk that is accepted is newer than all before it: it had no task.
LEMMA ReceiveStep ==
  ASSUME IInv, NEW k \in Sockets, NEW n \in Chunks, Receive(k, n)
  PROVE  IInv'
<1> USE LiveAssumption, ChunksAreNotNone
<1>1. TypeOK /\ Placed /\ Ingested
  BY DEF IInv
<1>2. stage[n] = "none" /\ task[n] = "none" /\ pending # n
  BY <1>1 DEF Receive, TypeOK, Placed, Waiting, Chunks
<1>3. TypeOK'
  BY <1>1 DEF Receive, TypeOK, Stages, InHand, connection
<1>4. Placed'
  BY <1>1, <1>2 DEF Receive, TypeOK, Placed, Waiting, Chunks
<1>5. Ingested'
  BY <1>1 DEF Receive, Ingested
<1> QED
  BY <1>3, <1>4, <1>5 DEF IInv

\* A task is created for a chunk that had none.
LEMMA BeginStep ==
  ASSUME IInv, NEW n \in Chunks, Begin(n) \/ BeginPending(n)
  PROVE  IInv'
<1> USE LiveAssumption, ChunksAreNotNone
<1>1. TypeOK /\ Placed /\ Ingested
  BY DEF IInv
<1>2. BeginTask(n) /\ task[n] = "none" /\ stage[n] \in {"received", "popped"}
  BY <1>1 DEF Begin, BeginPending, Placed, Waiting
<1>3. TypeOK'
  BY <1>1, <1>2 DEF BeginTask, TypeOK, Stages, InHand, connection
<1>4. Placed'
  BY <1>1, <1>2 DEF BeginTask, TypeOK, Placed, Waiting
<1>5. Ingested'
  BY <1>1, <1>2 DEF BeginTask, TypeOK, Ingested
<1> QED
  BY <1>3, <1>4, <1>5 DEF IInv

\* A chunk is queued over the one pending before it.
LEMMA QueueStep ==
  ASSUME IInv, NEW n \in Chunks, Queue(n)
  PROVE  IInv'
<1> USE LiveAssumption, ChunksAreNotNone
<1>1. TypeOK /\ Placed /\ Ingested
  BY DEF IInv
<1>2. TypeOK'
  BY <1>1 DEF Queue, TypeOK, Stages, InHand, connection
<1>3. Placed'
  BY <1>1 DEF Queue, TypeOK, Placed, Waiting
<1>4. Ingested'
  BY <1>1 DEF Queue, Ingested
<1> QED
  BY <1>2, <1>3, <1>4 DEF IInv

\* A task ends once: what it ingests was not ingested before.
LEMMA TaskStep ==
  ASSUME IInv, NEW n \in Chunks, TaskEnds(n)
  PROVE  IInv'
<1> USE LiveAssumption, ChunksAreNotNone
<1>1. TypeOK /\ Placed /\ Ingested
  BY DEF IInv
<1>2. task[n] = "running" /\ UNCHANGED <<socket, stopping, registered, stage, carrier, late,
                                         latest, processing, pending>>
  BY DEF TaskEnds, Running, connection, coroutines
<1>3. /\ task' = [task EXCEPT ![n] = "done"] \/ task' = [task EXCEPT ![n] = "failed"]
      /\ timeline' # timeline => /\ timeline' = Append(timeline, n)
                                 /\ task' = [task EXCEPT ![n] = "done"]
  BY DEF TaskEnds
<1>4. timeline' \in Seq(Chunks)
  <2>1. Append(timeline, n) \in Seq(Chunks)
    BY <1>1 DEF TypeOK
  <2> QED
    BY <1>1, <1>3, <2>1 DEF TypeOK
<1>5. TypeOK'
  BY <1>1, <1>2, <1>3, <1>4 DEF TypeOK
<1>6. Placed'
  BY <1>1, <1>2, <1>3 DEF TypeOK, Placed, Waiting
<1>7. Ingested'
  <2>1. \A i \in DOMAIN timeline : timeline[i] \in Chunks /\ timeline[i] # n
    BY <1>1, <1>2 DEF TypeOK, Ingested
  <2>2. CASE timeline' = timeline
    BY <1>1, <1>3, <2>1, <2>2 DEF TypeOK, Ingested
  <2>3. CASE timeline' # timeline
    <3>1. timeline \in Seq(Chunks) /\ timeline' = Append(timeline, n)
          /\ task' = [task EXCEPT ![n] = "done"]
      BY <1>1, <1>3, <2>3 DEF TypeOK
    <3>2. DOMAIN timeline' = DOMAIN timeline \cup {Len(timeline) + 1}
      BY <3>1
    <3>3. /\ timeline'[Len(timeline) + 1] = n
          /\ \A i \in DOMAIN timeline : timeline'[i] = timeline[i]
      BY <3>1
    <3>4. \A i \in DOMAIN timeline' : task'[timeline'[i]] = "done"
      BY <1>1, <2>1, <3>1, <3>2, <3>3 DEF TypeOK, Ingested
    <3>5. \A i, j \in DOMAIN timeline' : timeline'[i] = timeline'[j] => i = j
      BY <1>1, <2>1, <3>2, <3>3 DEF Ingested
    <3> QED
      BY <3>4, <3>5 DEF Ingested
  <2> QED
    BY <2>2, <2>3
<1> QED
  BY <1>5, <1>6, <1>7 DEF IInv

\* Turning late, collecting and giving up only move a chunk whose task was begun.
LEMMA WaitingSteps ==
  ASSUME IInv, NEW n \in Chunks, TurnLate(n) \/ Collect(n) \/ GiveUp(n)
  PROVE  IInv'
<1> USE LiveAssumption, ChunksAreNotNone
<1>1. TypeOK /\ Placed /\ Ingested
  BY DEF IInv
<1>2. CASE TurnLate(n)
  BY <1>1, <1>2 DEF TurnLate, IInv, TypeOK, Placed, Ingested, connection
<1>3. CASE Collect(n)
  <2>1. TypeOK'
    BY <1>1, <1>3 DEF Collect, TypeOK, Stages, InHand, connection
  <2>2. Placed'
    BY <1>1, <1>3 DEF Collect, TypeOK, Placed, Waiting
  <2> QED
    BY <1>1, <1>3, <2>1, <2>2 DEF Collect, IInv, Ingested
<1>4. CASE GiveUp(n)
  <2>1. TypeOK'
    BY <1>1, <1>4 DEF GiveUp, Released, TypeOK, Stages, InHand, connection, None
  <2>2. Placed'
    BY <1>1, <1>4 DEF GiveUp, TypeOK, Placed, Waiting
  <2> QED
    BY <1>1, <1>4, <2>1, <2>2 DEF GiveUp, IInv, Ingested
<1> QED
  BY <1>2, <1>3, <1>4

\* A coroutine that ends passes the pending chunk on.
LEMMA FinishStep ==
  ASSUME IInv, NEW n \in Chunks, Finish(n)
  PROVE  IInv'
<1> USE LiveAssumption, ChunksAreNotNone
<1>1. TypeOK /\ Placed /\ Ingested
  BY DEF IInv
<1>2. /\ PassOn(n, carrier[n], n \in late) /\ stage[n] = "reporting"
      /\ processing' = Released(n)
      /\ UNCHANGED <<socket, stopping, registered, latest, task, timeline>>
  BY DEF Finish, connection
<1>3. processing' \in 0..MaxChunk /\ carrier[n] \in Sockets /\ (n \in late) \in BOOLEAN
  BY <1>1, <1>2 DEF Released, TypeOK, None
<1>4. /\ Placed' /\ stage' \in [Chunks -> Stages] /\ carrier' \in [Chunks -> Sockets]
      /\ late' \subseteq Chunks /\ pending' \in 0..MaxChunk
  BY <1>2, <1>3, PassingOn
<1> QED
  BY <1>1, <1>2, <1>3, <1>4 DEF IInv, TypeOK, Ingested

\* The invariant of every run of a session.
THEOREM InductiveInvariant == Spec => []IInv
<1>1. IInv /\ [Next]_vars => IInv'
  <2> SUFFICES ASSUME IInv, [Next]_vars PROVE IInv'
    OBVIOUS
  <2>1. CASE UNCHANGED vars
    BY <2>1 DEF vars, connection, coroutines, IInv, TypeOK, Placed, Ingested
  <2>2. CASE Next
    BY <2>2, SocketSteps, ReceiveStep, BeginStep, QueueStep, TaskStep, WaitingSteps, FinishStep
       DEF Next, Carry
  <2> QED
    BY <2>1, <2>2
<1> QED
  BY <1>1, InitIInv, PTL DEF Spec

\* Every variable of a session keeps its type.
THEOREM TypeCorrect == Spec => []TypeOK
<1>1. IInv => TypeOK
  BY DEF IInv
<1> QED
  BY <1>1, InductiveInvariant, PTL

\* No chunk is ingested twice, nor one that was replaced (pop_pending_chunk).
THEOREM ChunksAreProcessedOnce == Spec => []ProcessedOnce
<1>1. IInv => ProcessedOnce
  BY DEF IInv, TypeOK, Placed, Ingested, Waiting, ProcessedOnce
<1> QED
  BY <1>1, InductiveInvariant, PTL

\* Only the coroutine of a finished task clears processing_task, and only its own.
THEOREM TheRunningTaskIsKnown == Spec => RunningIsNotForgotten
<1>1. IInv /\ [Next]_vars => [Running(processing) => processing' # None]_vars
  <2> SUFFICES ASSUME IInv, Next, Running(processing) PROVE processing' # None
    OBVIOUS
  <2>1. processing # None /\ processing \in Chunks /\ task[processing] = "running"
    BY LiveAssumption DEF IInv, TypeOK, Running, Chunks, None
  <2>2. ASSUME NEW n \in Chunks, stage[n] \in {"reporting", "failing"}
        PROVE  Released(n) # None
    BY <2>1, <2>2 DEF IInv, Placed, Released
  <2>3. ASSUME NEW n \in Chunks, ChunkStep(n) PROVE processing' # None
    BY <2>1, <2>2, <2>3, ChunksAreNotNone
       DEF ChunkStep, Carry, Begin, BeginPending, BeginTask, Queue, Collect, Finish, GiveUp,
           TaskEnds, TurnLate
  <2>4. ASSUME NEW k \in Sockets, \/ Start(k) \/ Stop(k) \/ EndStop(k) \/ Disconnect(k)
                                  \/ \E n \in Chunks : Receive(k, n)
        PROVE  processing' # None
    BY <2>1, <2>4 DEF Start, Stop, EndStop, Disconnect, Receive
  <2> QED
    BY <2>3, <2>4 DEF Next, ChunkStep
<1> QED
  BY <1>1, InductiveInvariant, PTL DEF Spec, RunningIsNotForgotten
=============================================================================
