------------------------ MODULE PersistentWorker_proofs ------------------------
(***************************************************************************)
(* Safety of PersistentWorker for any number of requests and processes.    *)
(***************************************************************************)
EXTENDS PersistentWorker, SequenceTheorems, TLAPS

Stages == {"new", "queued", "entered", "reading", "done", "failed", "cancelled"}
AtWork == {"entered", "reading"}
Over == {"done", "failed", "cancelled"}

Types ==
  /\ stage \in [Requests -> Stages] /\ lock \in Seq(Requests)
  /\ started \in 0..MaxStarts /\ proc \in 0..started /\ alive \subseteq 1..started
  /\ reaped \in BOOLEAN /\ inbox \in Seq(Requests) /\ outbox \in Seq(Requests)
  /\ answer \in [Requests -> Requests \cup {NoOne}]

\* The lock is a queue without repetition of the requests that have begun and not ended, and
\* the one at work is its head.
Queued ==
  /\ \A i, k \in 1..Len(lock) : lock[i] = lock[k] => i = k
  /\ \A i \in 1..Len(lock) : stage[lock[i]] \in {"queued"} \cup AtWork
  /\ \A i \in 1..Len(lock) : stage[lock[i]] \in AtWork => i = 1
  /\ \A r \in Requests : stage[r] \in AtWork =>
       lock # <<>> /\ lock[1] = r /\ proc # NoOne

\* The lines of chunks in one pipe, or in both: one at most, that of the chunk which waits.
Once(pipe) ==
  /\ \A i \in 1..Len(pipe) : pipe[i] \in Chunks => stage[pipe[i]] = "reading"
  /\ \A i, k \in 1..Len(pipe) : pipe[i] \in Chunks /\ pipe[k] \in Chunks => i = k
Lines ==
  /\ Once(inbox) /\ Once(outbox)
  /\ \A i \in 1..Len(inbox), k \in 1..Len(outbox) : inbox[i] \in Chunks => outbox[k] \notin Chunks

\* Only the process that is used runs, and not when it is known to have exited.
Processes == NoneLeftBehind /\ (reaped => proc \notin alive)

\* The inductive invariant.
IInv == Types /\ Queued /\ Lines /\ Processes /\ AnswersMatch
-----------------------------------------------------------------------------
(* Requests at work.                                                       *)

\* The request at work is the only one, and the head of the lock.
LEMMA OneAtWork ==
  ASSUME Types, Queued, NEW r \in Requests, stage[r] \in AtWork
  PROVE  /\ lock # <<>> /\ Len(lock) \in Nat \ {0} /\ lock[1] = r /\ proc # NoOne
         /\ \A q \in Requests : stage[q] \in AtWork => q = r
BY EmptySeq DEF Types, Queued

\* Giving the lock back keeps the queue in order.
LEMMA QueueLeft ==
  ASSUME Types, Queued, NEW r \in Requests, stage[r] \in AtWork,
         NEW end \in Over, Leave(r, end)
  PROVE  Queued' /\ stage' \in [Requests -> Stages] /\ lock' \in Seq(Requests)
<1>1. /\ lock' \in Seq(Requests) /\ Len(lock') = Len(lock) - 1 /\ Len(lock) \in Nat \ {0}
      /\ \A i \in 1..Len(lock') : lock'[i] = lock[i+1]
  BY OneAtWork, HeadTailProperties DEF Types, Leave
<1>2. /\ stage' \in [Requests -> Stages] /\ stage'[r] \notin AtWork
      /\ \A q \in Requests \ {r} : stage'[q] = stage[q] /\ stage[q] \notin AtWork
  BY OneAtWork DEF Types, Leave, Stages, AtWork, Over
<1>3. lock[1] = r  BY OneAtWork
<1>4. ASSUME NEW i \in 1..Len(lock')
      PROVE  i + 1 \in 1..Len(lock) /\ lock'[i] \in Requests \ {r}
  <2>1. i + 1 \in 1..Len(lock) /\ 1 \in 1..Len(lock) /\ i + 1 # 1  BY <1>1
  <2>2. lock[i+1] \in Requests  BY <2>1, ElementOfSeq DEF Types
  <2>3. lock[i+1] # lock[1]  BY <2>1 DEF Queued
  <2>4. QED  BY <1>1, <1>3, <2>1, <2>2, <2>3
<1>5. ASSUME NEW i \in 1..Len(lock') PROVE stage'[lock'[i]] = "queued"
  <2>1. i + 1 \in 1..Len(lock) /\ i + 1 # 1  BY <1>1, <1>4
  <2>2. stage[lock[i+1]] = "queued"  BY <2>1 DEF Queued
  <2>3. QED  BY <1>1, <1>2, <1>4, <2>2
<1>6. \A i, k \in 1..Len(lock') : lock'[i] = lock'[k] => i = k
  BY <1>1, <1>4 DEF Queued
<1>7. QED  BY <1>1, <1>2, <1>5, <1>6 DEF Queued, AtWork

\* When no chunk waits for its answer, no line of a chunk is anywhere.
NoChunk(pipe) == \A i \in 1..Len(pipe) : pipe[i] \notin Chunks

LEMMA NoneWaits ==
  ASSUME Types, Queued, Lines, NEW r \in Requests, lock # <<>>, lock[1] = r,
         r \in Chunks => stage[r] # "reading"
  PROVE  NoChunk(inbox) /\ NoChunk(outbox)
<1>1. \A c \in Chunks : stage[c] # "reading"
  BY DEF Queued, AtWork, Requests
<1>2. QED  BY <1>1 DEF Lines, Once, NoChunk

LEMMA NoChunkLines ==
  ASSUME NoChunk(inbox'), NoChunk(outbox')
  PROVE  Lines'
BY DEF Lines, Once, NoChunk

LEMMA EmptyPipes ==
  ASSUME inbox' = <<>>, outbox' = <<>>
  PROVE  Lines' /\ inbox' \in Seq(Requests) /\ outbox' \in Seq(Requests)
<1>1. Len(inbox') = 0 /\ Len(outbox') = 0  OBVIOUS
<1>2. QED  BY <1>1 DEF Lines, Once

\* Nobody is given the answer of another by a request that ends without one.
LEMMA AnswersKept ==
  ASSUME Types, AnswersMatch, answer' = answer,
         \A c \in Chunks : stage'[c] = "done" => stage[c] = "done"
  PROVE  AnswersMatch'
BY DEF AnswersMatch

\* A request fails or is cancelled: the process is closed, or it was a warm-up's.
LEMMA GivesUp ==
  ASSUME IInv, NEW r \in Requests, stage[r] \in AtWork, NEW end \in {"failed", "cancelled"},
         Leave(r, end), UNCHANGED <<started, answer>>,
         \/ Close
         \/ r \notin Chunks /\ UNCHANGED <<proc, reaped, alive, pipes>>
  PROVE  IInv'
<1> USE DEF IInv
<1>1. Queued' /\ stage' \in [Requests -> Stages] /\ lock' \in Seq(Requests)
  BY QueueLeft DEF Over
<1>2. AnswersMatch'
  <2>1. \A c \in Chunks : stage'[c] = "done" => stage[c] = "done"
    BY DEF Leave, Types, Requests
  <2>2. QED  BY <2>1, AnswersKept
<1>3. CASE Close
  <2>1. /\ inbox' = <<>> /\ outbox' = <<>> /\ proc' = NoOne /\ reaped' = FALSE
        /\ alive' = {} /\ started' = started /\ answer' = answer
    BY <1>3 DEF Close, Processes, NoneLeftBehind
  <2>2. Lines' /\ inbox' \in Seq(Requests) /\ outbox' \in Seq(Requests)
    BY <2>1, EmptyPipes
  <2>3. 0 \in 0..started  BY WorkerAssumption DEF Types
  <2>4. Types'  BY <1>1, <2>1, <2>2, <2>3 DEF Types, NoOne
  <2>5. Processes'  BY <2>1 DEF Processes, NoneLeftBehind
  <2>6. QED  BY <1>1, <1>2, <2>2, <2>4, <2>5
<1>4. CASE r \notin Chunks /\ UNCHANGED <<proc, reaped, alive, pipes>>
  <2>1. Types'  BY <1>1, <1>4 DEF Types, pipes
  <2>2. Processes'  BY <1>4 DEF Processes, NoneLeftBehind
  <2>3. NoChunk(inbox) /\ NoChunk(outbox)  BY <1>4, OneAtWork, NoneWaits
  <2>4. Lines'
    <3>1. NoChunk(inbox') /\ NoChunk(outbox')  BY <1>4, <2>3 DEF pipes, NoChunk
    <3>2. QED  BY <3>1, NoChunkLines
  <2>5. QED  BY <1>1, <1>2, <2>1, <2>2, <2>4
<1>5. QED  BY <1>3, <1>4
-----------------------------------------------------------------------------
(* One lemma for each of the other steps.                                  *)

LEMMA CallStep ==
  ASSUME IInv, NEW r \in Requests, Call(r)
  PROVE  IInv'
<1> USE DEF IInv
<1>1. /\ lock' \in Seq(Requests) /\ Len(lock') = Len(lock) + 1 /\ Len(lock) \in Nat
      /\ \A i \in 1..Len(lock) : lock'[i] = lock[i]
      /\ lock'[Len(lock) + 1] = r
  BY AppendProperties, LenProperties DEF Types, Call
<1>2. /\ stage' \in [Requests -> Stages] /\ stage[r] = "new" /\ stage'[r] = "queued"
      /\ \A q \in Requests \ {r} : stage'[q] = stage[q]
  BY DEF Types, Call, Stages
<1>3. \A i \in 1..Len(lock) : lock[i] \in Requests \ {r}
  BY <1>2, ElementOfSeq DEF Queued, Types, AtWork
<1>4. UNCHANGED <<proc, started, reaped, answer, alive, inbox, outbox>>
  BY DEF Call, pipes
<1>5. Queued'
  <2>1. \A i, k \in 1..Len(lock') : lock'[i] = lock'[k] => i = k
    BY <1>1, <1>3 DEF Queued
  <2>2. \A i \in 1..Len(lock') :
          /\ stage'[lock'[i]] \in {"queued"} \cup AtWork
          /\ stage'[lock'[i]] \in AtWork => i = 1
    BY <1>1, <1>2, <1>3 DEF Queued, AtWork
  <2>3. ASSUME NEW q \in Requests, stage'[q] \in AtWork
        PROVE  lock' # <<>> /\ lock'[1] = q /\ proc' # NoOne
    <3>1. q # r /\ stage[q] \in AtWork  BY <1>2, <2>3 DEF AtWork
    <3>2. Len(lock) # 0 /\ lock[1] = q /\ proc # NoOne  BY <3>1, OneAtWork
    <3>3. Len(lock') # 0  BY <1>1
    <3>4. QED  BY <1>1, <1>4, <3>2, <3>3
  <2>4. QED  BY <2>1, <2>2, <2>3 DEF Queued
<1>6. Types'  BY <1>1, <1>2, <1>4 DEF Types
<1>7. Lines'
  <2>1. \A c \in Chunks : stage[c] = "reading" => stage'[c] = "reading"
    BY <1>2 DEF Requests
  <2>2. QED  BY <1>4, <2>1 DEF Lines, Once
<1>8. Processes' /\ AnswersMatch'
  BY <1>2, <1>4 DEF Processes, NoneLeftBehind, AnswersMatch, Requests
<1>9. QED  BY <1>5, <1>6, <1>7, <1>8

LEMMA EnterStep ==
  ASSUME IInv, NEW r \in Requests, Enter(r)
  PROVE  IInv'
<1> USE DEF IInv
<1>1. lock # <<>> /\ lock[1] = r /\ stage[r] = "queued" /\ Len(lock) \in Nat
  BY LenProperties, HeadTailProperties DEF Enter, Holds, Types
<1>2. /\ stage' \in [Requests -> Stages] /\ stage'[r] = "entered" /\ lock' = lock
      /\ answer' = answer /\ \A q \in Requests \ {r} : stage'[q] = stage[q]
  BY DEF Types, Enter, Stages
<1>3. \A q \in Requests : stage[q] \notin AtWork
  BY <1>1 DEF Queued, AtWork
<1>4. AnswersMatch'  BY <1>2 DEF AnswersMatch, Requests
<1>5. /\ proc' # NoOne /\ proc' \in 0..started' /\ started' \in 0..MaxStarts
      /\ alive' \subseteq 1..started' /\ reaped' \in BOOLEAN /\ Processes'
      /\ UNCHANGED <<inbox, outbox>> \/ (inbox' = <<>> /\ outbox' = <<>>)
  <2>1. CASE proc # NoOne /\ ~reaped /\ UNCHANGED <<proc, started, alive, reaped, pipes>>
    BY <2>1 DEF Types, Processes, NoneLeftBehind, pipes
  <2>2. CASE (proc = NoOne \/ reaped) /\ started < MaxStarts /\ StartProcess
    <3>1. proc \notin alive  BY <2>2 DEF Types, Processes, NoOne
    <3>2. alive = {}  BY <3>1 DEF Processes, NoneLeftBehind
    <3>3. started' = started + 1 /\ proc' = started + 1 /\ alive' = {started + 1}
      BY <2>2, <3>2 DEF StartProcess
    <3>4. reaped' = FALSE /\ inbox' = <<>> /\ outbox' = <<>>  BY <2>2 DEF StartProcess
    <3>5. started \in Nat /\ started + 1 \in 1..MaxStarts
      BY <2>2, WorkerAssumption DEF Types
    <3>6. started + 1 # 0 /\ started + 1 \in 0..started + 1 /\ {started + 1} \subseteq 1..started + 1
          /\ started + 1 \in 0..MaxStarts
      BY <3>5, WorkerAssumption
    <3>7. Processes'  BY <3>3, <3>4 DEF Processes, NoneLeftBehind
    <3>8. QED  BY <3>3, <3>4, <3>6, <3>7 DEF NoOne
  <2>3. QED  BY <2>1, <2>2 DEF Enter
<1>6. Lines' /\ inbox' \in Seq(Requests) /\ outbox' \in Seq(Requests)
  <2>1. CASE inbox' = <<>> /\ outbox' = <<>>  BY <2>1, EmptyPipes
  <2>2. CASE UNCHANGED <<inbox, outbox>>
    <3>1. NoChunk(inbox) /\ NoChunk(outbox)  BY <1>1, NoneWaits
    <3>2. NoChunk(inbox') /\ NoChunk(outbox')  BY <2>2, <3>1 DEF NoChunk
    <3>3. QED  BY <2>2, <3>2, NoChunkLines DEF Types
  <2>3. QED  BY <1>5, <2>1, <2>2
<1>7. Types'  BY <1>2, <1>5, <1>6 DEF Types
<1>8. Queued'  BY <1>1, <1>2, <1>3, <1>5, ElementOfSeq, SMTT(30) DEF Queued, AtWork, Types
<1>9. QED  BY <1>4, <1>5, <1>6, <1>7, <1>8

LEMMA WriteStep ==
  ASSUME IInv, NEW r \in Requests, Write(r)
  PROVE  IInv'
<1> USE DEF IInv
<1>1. lock # <<>> /\ lock[1] = r /\ stage[r] = "entered" /\ proc # NoOne
  BY OneAtWork DEF Write, AtWork
<1>2. /\ stage' \in [Requests -> Stages] /\ stage'[r] = "reading"
      /\ \A q \in Requests \ {r} : stage'[q] = stage[q]
      /\ UNCHANGED <<lock, proc, started, reaped, answer, alive, outbox>>
  BY DEF Types, Write, Stages
<1>3. NoChunk(inbox) /\ NoChunk(outbox)  BY <1>1, NoneWaits
<1>4. /\ inbox' \in Seq(Requests) /\ Len(inbox') = Len(inbox) + 1 /\ Len(inbox) \in Nat
      /\ \A i \in 1..Len(inbox) : inbox'[i] = inbox[i]
      /\ inbox'[Len(inbox) + 1] = r
  BY AppendProperties, LenProperties DEF Types, Write
<1>5. Lines'
  <2>1. \A i \in 1..Len(inbox') : inbox'[i] \in Chunks => i = Len(inbox) + 1 /\ inbox'[i] = r
    BY <1>3, <1>4 DEF NoChunk
  <2>2. NoChunk(outbox')  BY <1>2, <1>3 DEF NoChunk
  <2>3. QED  BY <1>2, <1>4, <2>1, <2>2 DEF Lines, Once, NoChunk
<1>6. Types'  BY <1>2, <1>4 DEF Types
<1>7. Queued'  BY <1>1, <1>2, ElementOfSeq DEF Queued, AtWork, Types
<1>8. Processes' /\ AnswersMatch'
  BY <1>2 DEF Processes, NoneLeftBehind, AnswersMatch, Requests
<1>9. QED  BY <1>5, <1>6, <1>7, <1>8

\* The line at the head of what was written is read.
LEMMA HeadRead ==
  ASSUME Types, Lines, outbox # <<>>, outbox' = Tail(outbox), inbox' = inbox
  PROVE  /\ Head(outbox) \in Requests /\ outbox' \in Seq(Requests)
         /\ Head(outbox) = outbox[1] /\ Len(outbox) \in Nat \ {0}
         /\ Len(outbox') = Len(outbox) - 1
         /\ \A i \in 1..Len(outbox') : outbox'[i] = outbox[i+1]
         /\ Head(outbox) \in Chunks => NoChunk(inbox') /\ NoChunk(outbox')
         /\ NoChunk(outbox) => NoChunk(outbox')
<1>1. /\ Head(outbox) = outbox[1] /\ Head(outbox) \in Requests /\ Len(outbox) \in Nat \ {0}
      /\ outbox' \in Seq(Requests) /\ Len(outbox') = Len(outbox) - 1
      /\ \A i \in 1..Len(outbox') : outbox'[i] = outbox[i+1]
  BY HeadTailProperties, EmptySeq DEF Types
<1>2. \A i \in 1..Len(outbox') : i + 1 \in 1..Len(outbox) /\ i + 1 # 1
  BY <1>1
<1>3. Head(outbox) \in Chunks => NoChunk(inbox') /\ NoChunk(outbox')
  BY <1>1, <1>2 DEF Lines, Once, NoChunk
<1>4. NoChunk(outbox) => NoChunk(outbox')
  BY <1>1, <1>2 DEF NoChunk
<1>5. QED  BY <1>1, <1>3, <1>4

LEMMA ReadStep ==
  ASSUME IInv, NEW r \in Requests, Read(r) \/ ReadFails(r)
  PROVE  IInv'
<1> USE DEF IInv
<1> DEFINE line == Head(outbox)
<1>1. /\ stage[r] = "reading" /\ outbox # <<>> /\ outbox' = Tail(outbox)
      /\ UNCHANGED <<proc, started, reaped, alive, inbox>>
  BY DEF Read, ReadFails
<1>2. stage[r] \in AtWork  BY <1>1 DEF AtWork
<1>3. lock # <<>> /\ lock[1] = r /\ \A q \in Requests : stage[q] \in AtWork => q = r
  BY <1>2, OneAtWork
<1>4. line \in Chunks => line = r
  <2>1. line \in Requests /\ line = outbox[1] /\ 1 \in 1..Len(outbox)  BY <1>1, HeadRead
  <2>2. line \in Chunks => stage[line] = "reading"  BY <2>1 DEF Lines, Once
  <2>3. QED  BY <1>3, <2>1, <2>2 DEF AtWork
<1>5. outbox' \in Seq(Requests)  BY <1>1, HeadRead
<1>6. Processes'  BY <1>1 DEF Processes, NoneLeftBehind
<1>7. r \notin Chunks => NoChunk(inbox') /\ NoChunk(outbox')
  <2>1. r \notin Chunks => NoChunk(inbox) /\ NoChunk(outbox)  BY <1>3, NoneWaits
  <2>2. NoChunk(inbox) => NoChunk(inbox')  BY <1>1 DEF NoChunk
  <2>3. QED  BY <1>1, <2>1, <2>2, HeadRead
<1>8. CASE UNCHANGED <<stage, lock, answer>>
  <2>1. Types' /\ Queued' /\ AnswersMatch'
    BY <1>1, <1>5, <1>8 DEF Types, Queued, AnswersMatch
  <2>2. Lines'
    <3>1. /\ Len(outbox) \in Nat \ {0} /\ Len(outbox') = Len(outbox) - 1
          /\ \A i \in 1..Len(outbox') : outbox'[i] = outbox[i+1]
      BY <1>1, HeadRead
    <3>2. \A i \in 1..Len(outbox') : i + 1 \in 1..Len(outbox)  BY <3>1
    <3>3. Once(outbox)'
      <4>1. \A i \in 1..Len(outbox') : outbox'[i] \in Chunks => stage'[outbox'[i]] = "reading"
        BY <1>8, <3>1, <3>2 DEF Lines, Once
      <4>2. ASSUME NEW i \in 1..Len(outbox'), NEW k \in 1..Len(outbox'),
                   outbox'[i] \in Chunks, outbox'[k] \in Chunks
            PROVE  i = k
        <5>1. i + 1 = k + 1  BY <3>1, <3>2, <4>2 DEF Lines, Once
        <5>2. QED  BY <3>1, <5>1
      <4>3. QED  BY <4>1, <4>2 DEF Once
    <3>4. Once(inbox)'  BY <1>1, <1>8 DEF Lines, Once
    <3>5. \A i \in 1..Len(inbox'), k \in 1..Len(outbox') :
            inbox'[i] \in Chunks => outbox'[k] \notin Chunks
      BY <1>1, <3>1, <3>2 DEF Lines
    <3>6. QED  BY <3>3, <3>4, <3>5 DEF Lines
  <2>3. QED  BY <1>6, <2>1, <2>2
<1>9. ASSUME NEW end \in {"done", "failed"}, Leave(r, end), line \in Chunks \/ r \notin Chunks,
             answer' \in [Requests -> Requests \cup {NoOne}],
             \A q \in Requests \ {r} : answer'[q] = answer[q],
             end = "done" /\ r \in Chunks => answer'[r] = r
      PROVE  IInv'
  <2>1. Queued' /\ stage' \in [Requests -> Stages] /\ lock' \in Seq(Requests)
    BY <1>2, <1>9, QueueLeft DEF Over
  <2>2. Types'  BY <1>1, <1>5, <1>9, <2>1 DEF Types
  <2>3. NoChunk(inbox') /\ NoChunk(outbox')  BY <1>1, <1>7, <1>9, HeadRead
  <2>4. AnswersMatch'
    <3>1. stage'[r] = end /\ \A q \in Requests \ {r} : stage'[q] = stage[q]
      BY <1>9 DEF Leave, Types
    <3>2. QED  BY <1>9, <3>1 DEF AnswersMatch, Requests
  <2>5. QED  BY <1>6, <2>1, <2>2, <2>3, <2>4, NoChunkLines
<1>10. CASE ReadFails(r)
  <2>1. Leave(r, "failed") /\ line \in Chunks /\ answer' = answer  BY <1>10 DEF ReadFails
  <2>2. QED  BY <1>9, <2>1 DEF Types
<1>11. CASE Read(r) /\ ((line \in Chunks) <=> (r \in Chunks))
  <2>1. Leave(r, "done") /\ answer' = [answer EXCEPT ![r] = line]  BY <1>11 DEF Read
  <2>2. line \in Requests  BY <1>1, HeadRead
  <2>3. /\ answer' \in [Requests -> Requests \cup {NoOne}] /\ answer'[r] = line
        /\ \A q \in Requests \ {r} : answer'[q] = answer[q]
    BY <2>1, <2>2 DEF Types
  <2>4. QED  BY <1>4, <1>9, <1>11, <2>1, <2>3
<1>12. CASE Read(r) /\ ~((line \in Chunks) <=> (r \in Chunks))
  BY <1>8, <1>12 DEF Read
<1>13. QED  BY <1>10, <1>11, <1>12

\* The process answers what it has read: the line goes from one pipe to the other.
LEMMA WorkStep ==
  ASSUME IInv, Work
  PROVE  IInv'
<1> USE DEF IInv
<1>1. /\ inbox # <<>> /\ inbox' = Tail(inbox) /\ outbox' = Append(outbox, Head(inbox))
      /\ UNCHANGED <<stage, lock, proc, started, reaped, answer, alive>>
  BY DEF Work, server
<1>2. /\ inbox' \in Seq(Requests) /\ Len(inbox) \in Nat \ {0} /\ Len(inbox') = Len(inbox) - 1
      /\ Head(inbox) = inbox[1] /\ Head(inbox) \in Requests
      /\ \A i \in 1..Len(inbox') : inbox'[i] = inbox[i+1]
  BY <1>1, HeadTailProperties, EmptySeq DEF Types
<1>3. /\ outbox' \in Seq(Requests) /\ Len(outbox) \in Nat /\ Len(outbox') = Len(outbox) + 1
      /\ \A i \in 1..Len(outbox) : outbox'[i] = outbox[i]
      /\ outbox'[Len(outbox) + 1] = inbox[1]
  BY <1>1, <1>2, AppendProperties, LenProperties DEF Types
<1>4. \A i \in 1..Len(inbox') : i + 1 \in 1..Len(inbox) /\ i + 1 # 1  BY <1>2
<1>5. Once(inbox)'
  <2>1. \A i \in 1..Len(inbox') : inbox'[i] \in Chunks => stage'[inbox'[i]] = "reading"
    BY <1>1, <1>2, <1>4 DEF Lines, Once
  <2>2. ASSUME NEW i \in 1..Len(inbox'), NEW k \in 1..Len(inbox'),
               inbox'[i] \in Chunks, inbox'[k] \in Chunks
        PROVE  i = k
    <3>1. i + 1 = k + 1  BY <1>2, <1>4, <2>2 DEF Lines, Once
    <3>2. QED  BY <1>2, <3>1
  <2>3. QED  BY <2>1, <2>2 DEF Once
<1>7. 1 \in 1..Len(inbox)  BY <1>2
<1>6. inbox[1] \in Chunks => NoChunk(outbox) /\ NoChunk(inbox')
  <2>1. inbox[1] \in Chunks => NoChunk(outbox)  BY <1>7 DEF Lines, NoChunk
  <2>2. ASSUME inbox[1] \in Chunks, NEW i \in 1..Len(inbox') PROVE inbox[i+1] \notin Chunks
    BY <1>4, <1>7, <2>2 DEF Lines, Once
  <2>3. QED  BY <1>2, <2>1, <2>2 DEF NoChunk
<1>8. \A k \in 1..Len(outbox') : \/ k \in 1..Len(outbox) /\ outbox'[k] = outbox[k]
                                 \/ k = Len(outbox) + 1 /\ outbox'[k] = inbox[1]
  BY <1>3
<1>9. Once(outbox)'  BY <1>1, <1>6, <1>7, <1>8 DEF Lines, Once, NoChunk
<1>10. \A i \in 1..Len(inbox'), k \in 1..Len(outbox') :
         inbox'[i] \in Chunks => outbox'[k] \notin Chunks
  BY <1>2, <1>4, <1>6, <1>8 DEF Lines, NoChunk
<1>11. Lines'  BY <1>5, <1>9, <1>10 DEF Lines
<1>12. Types' /\ Queued'  BY <1>1, <1>2, <1>3 DEF Types, Queued
<1>13. Processes' /\ AnswersMatch'  BY <1>1 DEF Processes, NoneLeftBehind, AnswersMatch
<1>14. QED  BY <1>11, <1>12, <1>13

LEMMA OtherSteps ==
  ASSUME IInv, Reap \/ Die \/ UNCHANGED vars
  PROVE  IInv'
<1> USE DEF IInv
<1>1. UNCHANGED <<stage, lock, proc, started, answer, inbox, outbox>>
  BY DEF Reap, Die, vars, server, pipes
<1>2. alive' \subseteq alive /\ reaped' \in BOOLEAN /\ (reaped' => proc \notin alive')
  <2>1. CASE Reap  BY <2>1 DEF Reap
  <2>2. CASE Die   BY <2>2 DEF Die, server, Types
  <2>3. CASE UNCHANGED vars  BY <2>3 DEF vars, server, Types, Processes
  <2>4. QED  BY <2>1, <2>2, <2>3
<1>3. Types' /\ Queued' /\ Lines'
  BY <1>1, <1>2 DEF Types, Queued, Lines, Once
<1>4. Processes' /\ AnswersMatch'
  BY <1>1, <1>2 DEF Processes, NoneLeftBehind, AnswersMatch
<1>5. QED  BY <1>3, <1>4
-----------------------------------------------------------------------------
\* IInv holds in every reachable state, of any number of requests and processes.
THEOREM InductiveInvariant == Spec => []IInv
<1>1. Init => IInv
  <2> SUFFICES ASSUME Init PROVE IInv  OBVIOUS
  <2>1. Len(lock) = 0 /\ Len(inbox) = 0 /\ Len(outbox) = 0  BY DEF Init
  <2>2. Types
    <3>1. <<>> \in Seq(Requests) /\ 0 \in 0..MaxStarts /\ 0 \in 0..0
      BY EmptySeq, WorkerAssumption
    <3>2. QED  BY <3>1 DEF Init, Types, Stages, NoOne
  <2>3. Queued /\ Lines  BY <2>1 DEF Init, Queued, AtWork, Lines, Once
  <2>4. Processes /\ AnswersMatch
    BY DEF Init, Processes, NoneLeftBehind, AnswersMatch, Requests
  <2>5. QED  BY <2>2, <2>3, <2>4 DEF IInv
<1>2. IInv /\ [Next]_vars => IInv'
  <2> SUFFICES ASSUME IInv, [Next]_vars PROVE IInv'  OBVIOUS
  <2>1. ASSUME NEW r \in Requests, WriteFails(r) \/ EndOfStream(r) \/ Timeout(r) \/ Cancel(r)
        PROVE  IInv'
    <3>1. /\ stage[r] \in AtWork /\ UNCHANGED <<started, answer>>
          /\ \E end \in {"failed", "cancelled"} : Leave(r, end)
          /\ Close \/ (r \notin Chunks /\ UNCHANGED <<proc, reaped, alive, pipes>>)
      BY <2>1 DEF WriteFails, EndOfStream, Timeout, Cancel, AtWork
    <3>2. QED  BY <3>1, GivesUp
  <2>2. QED  BY <2>1, CallStep, EnterStep, WriteStep, ReadStep, WorkStep, OtherSteps
             DEF Next, Goes
<1>3. QED  BY <1>1, <1>2, PTL DEF Spec

\* Types, and the lock is that of the request at work (ensure_started, _lock).
THEOREM TypeCorrect == Spec => []TypeOK
<1>1. IInv => TypeOK
  <2> SUFFICES ASSUME IInv PROVE TypeOK  OBVIOUS
  <2>1. Types /\ Queued  BY DEF IInv
  <2>2. \A r \in Requests : stage[r] \in {"entered", "reading"} => Holds(r) /\ proc # NoOne
    BY <2>1, HeadTailProperties DEF Types, Queued, Holds, AtWork
  <2>3. \A r \in Requests : stage[r] \in {"done", "failed", "cancelled"} => r \notin Range(lock)
    BY <2>1, LenProperties DEF Types, Queued, Range, AtWork
  <2>4. QED  BY <2>1, <2>2, <2>3 DEF Types, TypeOK, Stages
<1>2. QED  BY InductiveInvariant, <1>1, PTL

\* A chunk is given its own transcript (process_live_chunk, aclose), however many requests
\* wait, time out, are cancelled or fail: no line of another chunk is left in a pipe.
THEOREM AnswersAreOnes == Spec => []AnswersMatch
<1>1. IInv => AnswersMatch  BY DEF IInv
<1>2. QED  BY InductiveInvariant, <1>1, PTL

\* No process but the one in use runs (aclose, ensure_started).
THEOREM OneProcess == Spec => []NoneLeftBehind
<1>1. IInv => NoneLeftBehind  BY DEF IInv, Processes
<1>2. QED  BY InductiveInvariant, <1>1, PTL
=============================================================================
