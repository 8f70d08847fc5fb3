-------------------------- MODULE PersistentWorker --------------------------
(***************************************************************************)
(* The long-lived WhisperX process behind the live speaker provider:       *)
(* PersistentWhisperXWorker and the loop it talks to                       *)
(* (backend/app/speakers/provider.py).                                     *)
(*                                                                         *)
(* Requests take turns under an asyncio lock.  One request is one line on  *)
(* the process's stdin; its answer is a line on its stdout, which carries  *)
(* no name of the request it answers.  What makes an answer the right one  *)
(* is that a process whose answer nobody waited for is never asked again.  *)
(*                                                                         *)
(* A process is known by the number of processes started before it.  Lines *)
(* are requests: what the process wrote for request r is r again, a result *)
(* for a chunk and a ready line for a warm-up.                             *)
(***************************************************************************)
EXTENDS Naturals, Sequences, Functions

CONSTANTS Chunks,   \* requests that transcribe a chunk (process_live_chunk)
          Warmups,  \* requests that load the models (warmup)
          MaxStarts \* bound: processes started

ASSUME WorkerAssumption ==
  Chunks \cap Warmups = {} /\ 0 \notin Chunks \cup Warmups /\ MaxStarts \in Nat

Requests == Chunks \cup Warmups
NoOne    == 0

VARIABLES
  stage,   \* of a request: "new", "queued", "entered", "reading", "done", "failed" or "cancelled"
  lock,    \* the requests that hold or wait for _lock, in turn; the first one holds it
  proc,    \* _process, or NoOne
  started, \* how many processes were started
  alive,   \* the processes that run
  reaped,  \* whether _process.returncode is set
  inbox,   \* lines written to _process that it has not read
  outbox,  \* lines it wrote that nobody has read
  answer   \* the request whose line ended a request, or NoOne

server == <<stage, lock, proc, started, reaped, answer>>
pipes  == <<inbox, outbox>>
vars   == <<server, alive, pipes>>

Init ==
  /\ stage = [r \in Requests |-> "new"] /\ answer = [r \in Requests |-> NoOne]
  /\ lock = <<>> /\ proc = NoOne /\ started = 0 /\ alive = {} /\ reaped = FALSE
  /\ inbox = <<>> /\ outbox = <<>>

Holds(r) == lock # <<>> /\ Head(lock) = r
-----------------------------------------------------------------------------
(* The server.                                                             *)

Forget ==   \* mutant
  /\ proc' = NoOne /\ reaped' = FALSE /\ inbox' = <<>> /\ outbox' = <<>>
  /\ UNCHANGED alive

\* aclose: the process is forgotten with its pipes, and killed if it runs.
Close ==
  /\ proc' = NoOne /\ reaped' = FALSE /\ inbox' = <<>> /\ outbox' = <<>>
  /\ alive' = alive \ {proc}

\* A process with empty pipes takes the place of _process.
StartProcess ==
  /\ started' = started + 1 /\ proc' = started' /\ alive' = alive \cup {started'}
  /\ reaped' = FALSE /\ inbox' = <<>> /\ outbox' = <<>>

\* A request ends and gives the lock back.
Leave(r, end) == stage' = [stage EXCEPT ![r] = end] /\ lock' = Tail(lock)

Call(r) ==
  /\ stage[r] = "new"
  /\ stage' = [stage EXCEPT ![r] = "queued"] /\ lock' = Append(lock, r)
  /\ UNCHANGED <<proc, started, reaped, answer, alive, pipes>>

\* ensure_started: the process is used again unless it is known to have exited.
Enter(r) ==
  /\ stage[r] = "queued" /\ Holds(r)
  /\ \/ proc # NoOne /\ ~reaped /\ UNCHANGED <<proc, started, alive, reaped, pipes>>
     \/ (proc = NoOne \/ reaped) /\ started < MaxStarts /\ StartProcess
  /\ stage' = [stage EXCEPT ![r] = "entered"] /\ UNCHANGED <<lock, answer>>

\* The line is written.  The pipe of a process that is gone may still take it.
Write(r) ==
  /\ stage[r] = "entered"
  /\ stage' = [stage EXCEPT ![r] = "reading"]
  /\ inbox' = Append(inbox, r)
  /\ UNCHANGED <<lock, proc, started, reaped, answer, alive, outbox>>

\* drain reports a broken pipe.  A chunk closes the process; a warm-up leaves it as it is.
WriteFails(r) ==
  /\ stage[r] = "entered" /\ proc \notin alive
  /\ IF r \in Chunks THEN Close ELSE UNCHANGED <<proc, reaped, alive, pipes>>
  /\ Leave(r, "failed") /\ UNCHANGED <<started, answer>>

\* A line is read.  A chunk takes any result and a warm-up any ready line; the others are
\* skipped.
Read(r) ==
  /\ stage[r] = "reading" /\ outbox # <<>>
  /\ LET line == Head(outbox) IN
       IF (line \in Chunks) <=> (r \in Chunks)
       THEN Leave(r, "done") /\ answer' = [answer EXCEPT ![r] = line]
       ELSE UNCHANGED <<stage, lock, answer>>
  /\ outbox' = Tail(outbox)
  /\ UNCHANGED <<proc, started, reaped, alive, inbox>>

\* A result that is too long for a line, or not valid: it is gone, the process stays.
ReadFails(r) ==
  /\ stage[r] = "reading" /\ r \in Chunks
  /\ outbox # <<>> /\ Head(outbox) \in Chunks
  /\ outbox' = Tail(outbox)
  /\ Leave(r, "failed")
  /\ UNCHANGED <<proc, started, reaped, answer, alive, inbox>>

\* The end of the stream: the process has exited, and all it wrote was read.
EndOfStream(r) ==
  /\ stage[r] = "reading" /\ outbox = <<>> /\ proc \notin alive
  /\ Close /\ Leave(r, "failed") /\ UNCHANGED <<started, answer>>

TimeoutAndKeep(r) ==   \* mutant
  /\ stage[r] = "reading" /\ Leave(r, "failed")
  /\ UNCHANGED <<proc, started, reaped, answer, alive, pipes>>

TimeoutOfWarmups(r) ==   \* mutant
  /\ stage[r] = "reading" /\ r \in Warmups
  /\ Close /\ Leave(r, "failed") /\ UNCHANGED <<started, answer>>

\* No answer in time: the process is killed, so that its late answer is not read as the
\* answer to the next request.
Timeout(r) ==
  /\ stage[r] = "reading"
  /\ Close /\ Leave(r, "failed") /\ UNCHANGED <<started, answer>>

\* The caller is cancelled.  Only a chunk closes the process.
Cancel(r) ==
  /\ stage[r] \in {"entered", "reading"}
  /\ IF r \in Chunks THEN Close ELSE UNCHANGED <<proc, reaped, alive, pipes>>
  /\ Leave(r, "cancelled") /\ UNCHANGED <<started, answer>>

\* The child watcher sets the returncode of a process that has exited.
Reap ==
  /\ proc # NoOne /\ proc \notin alive /\ ~reaped /\ reaped' = TRUE
  /\ UNCHANGED <<stage, lock, proc, started, answer, alive, pipes>>
-----------------------------------------------------------------------------
(* The process.                                                            *)

\* It reads a line, does what it says, and writes the answer.
Work ==
  /\ proc \in alive /\ inbox # <<>>
  /\ inbox' = Tail(inbox) /\ outbox' = Append(outbox, Head(inbox))
  /\ UNCHANGED <<server, alive>>

\* Any exception ends it, and so may the system.
Die ==
  /\ proc \in alive /\ alive' = alive \ {proc}
  /\ UNCHANGED <<server, pipes>>
-----------------------------------------------------------------------------
Goes(r) == \/ Enter(r) \/ Write(r) \/ WriteFails(r) \/ Read(r) \/ ReadFails(r)
           \/ EndOfStream(r) \/ Timeout(r)

Next ==
  \/ \E r \in Requests : Call(r) \/ Goes(r) \/ Cancel(r)
  \/ Reap \/ Work \/ Die

\* The event loop goes on and a timer runs out in the end; the process owes nothing.
Fairness == \A r \in Requests : WF_vars(Goes(r))

Spec == Init /\ [][Next]_vars /\ Fairness
-----------------------------------------------------------------------------
\* Types; and the lock is held by the request at work, and given back by one that has ended.
TypeOK ==
  /\ stage \in [Requests ->
       {"new", "queued", "entered", "reading", "done", "failed", "cancelled"}]
  /\ lock \in Seq(Requests) /\ proc \in 0..started /\ started \in 0..MaxStarts
  /\ \A r \in Requests : /\ stage[r] \in {"entered", "reading"} => Holds(r) /\ proc # NoOne
                         /\ stage[r] \in {"done", "failed", "cancelled"} => r \notin Range(lock)
  /\ alive \subseteq 1..started /\ reaped \in BOOLEAN
  /\ inbox \in Seq(Requests) /\ outbox \in Seq(Requests)
  /\ answer \in [Requests -> Requests \cup {NoOne}]

\* A chunk is given its own transcript: a late or an unread answer of another chunk, after a
\* timeout, a cancelled call, a broken result or a restart, is never taken for it.
AnswersMatch == \A c \in Chunks : stage[c] = "done" => answer[c] = c

\* The only process that runs is the one the next request will use: none is left behind
\* with its models in memory.
NoneLeftBehind == alive \subseteq {proc}

\* A request ends, even if the process hangs; unless no process may be started any more
\* (the bound of the model).
RequestsEnd ==
  \A r \in Requests : stage[r] = "queued" ~>
    stage[r] \in {"done", "failed", "cancelled"} \/ started = MaxStarts
=============================================================================
