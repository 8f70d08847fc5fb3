----------------------------- MODULE SystemJobs -----------------------------
(***************************************************************************)
(* The jobs an operator starts from the console: demo gates, the speaker   *)
(* provider's warm-up and its verification (backend/app/system/router.py). *)
(*                                                                         *)
(* The server keeps one job record of each kind in a global, refuses or    *)
(* answers with the running one, and runs the job as a task that waits for *)
(* an operating system process with a time limit.  What a gate or a        *)
(* warm-up printed is then read to its end, with none: a process it left   *)
(* behind holds the output, and with it the job.  An uploaded sample is    *)
(* received between the check and the registration of its verification,    *)
(* so that two of them can be under way.  Gates and verifications write a  *)
(* report file themselves; the server writes one too when they fail.       *)
(***************************************************************************)
EXTENDS Naturals, FiniteSets

CONSTANTS Jobs, None

ASSUME JobsAssumption == None \notin Jobs

Kinds == {"gate", "warmup", "verification"}

VARIABLES
  kind,    \* of a job, or "none"
  stage,   \* "new", "uploading", "begun" (its task exists), "running", "draining" (its
           \* process has exited, its output is read), "overrun" (the same after its time
           \* limit) or "over"
  state,   \* the record's: "none", "running", "succeeded", "failed" or "skipped"
  proc,    \* its process: "none", "runs", "zero" or "nonzero" (it has exited), "killed"; or
           \* "thread", a warm-up in the server's own process, which nothing stops
  left,    \* jobs whose process is gone, but not those it started: they hold its output
  current, \* _demo_gate_run_job, _speaker_warmup_job, _speaker_verification_job
  report,  \* the report file of a kind: the job whose result it holds, and whether it passed
  sample,  \* jobs whose uploaded sample is on disk
  target,  \* gates with a completion target, a room to be told
  told     \* completion_recorded and completion_error of a gate: "no", "told" or "failed"

vars == <<kind, stage, state, proc, left, current, report, sample, target, told>>

Init ==
  /\ kind = [j \in Jobs |-> "none"]  /\ stage = [j \in Jobs |-> "new"]
  /\ state = [j \in Jobs |-> "none"] /\ proc = [j \in Jobs |-> "none"]
  /\ current = [k \in Kinds |-> None] /\ report = [k \in Kinds |-> <<None, FALSE>>]
  /\ left = {} /\ sample = {} /\ target = {} /\ told = [j \in Jobs |-> "no"]

Busy(k) == current[k] # None /\ state[current[k]] = "running"

\* The record becomes the current one of its kind and its task is created.
Register(j, k) ==
  /\ current' = [current EXCEPT ![k] = j]
  /\ stage' = [stage EXCEPT ![j] = "begun"] /\ state' = [state EXCEPT ![j] = "running"]

Ended == {"succeeded", "failed"}

\* _record_demo_gate_completion: the room is told, once, unless that fails.
Tell(j) ==
  \E how \in {"told", "failed"} :
    told' = [told EXCEPT ![j] = IF @ = "told" THEN @ ELSE how]
-----------------------------------------------------------------------------
(* Requests.                                                               *)

\* A gate, a warm-up, or a verification of a generated sample.  With another of its kind
\* running nothing changes.
Start(j, k) ==
  /\ stage[j] = "new" /\ ~Busy(k)
  /\ kind' = [kind EXCEPT ![j] = k] /\ Register(j, k)
  /\ UNCHANGED <<proc, left, report, sample, target, told>>

\* A provider that needs no warm-up, or is not ready for it, ends the job at once.
EndAtOnce(j) ==
  /\ stage[j] = "new" /\ ~Busy("warmup")
  /\ kind' = [kind EXCEPT ![j] = "warmup"] /\ current' = [current EXCEPT !["warmup"] = j]
  /\ stage' = [stage EXCEPT ![j] = "over"]
  /\ \E s \in {"skipped", "failed"} : state' = [state EXCEPT ![j] = s]
  /\ UNCHANGED <<proc, left, report, sample, target, told>>

\* A verification of an upload is checked, and its sample begins to arrive.
Upload(j) ==
  /\ stage[j] = "new" /\ ~Busy("verification")
  /\ kind' = [kind EXCEPT ![j] = "verification"]
  /\ stage' = [stage EXCEPT ![j] = "uploading"] /\ sample' = sample \cup {j}
  /\ UNCHANGED <<state, proc, left, current, report, target, told>>

\* It is there: the job is registered, whatever was registered meanwhile.
Received(j) ==
  /\ stage[j] = "uploading" /\ Register(j, "verification")
  /\ UNCHANGED <<kind, proc, left, report, sample, target, told>>

\* It is empty or too large, or reading it fails.
UploadFails(j) ==
  /\ stage[j] = "uploading"
  /\ stage' = [stage EXCEPT ![j] = "over"] /\ sample' = sample \ {j}
  /\ UNCHANGED <<kind, state, proc, left, current, report, target, told>>

AddTargetLater(j) ==   \* mutant
  /\ kind[j] = "gate" /\ j \notin target /\ target' = target \cup {j}
  /\ UNCHANGED <<kind, stage, state, proc, left, current, report, sample, told>>

\* register_demo_gate_completion: a gate asked for in a meeting reports to its room when it
\* ends, or now if it has.
AddTarget(j) ==
  /\ kind[j] = "gate" /\ j \notin target /\ target' = target \cup {j}
  /\ IF current["gate"] = j /\ state[j] \in Ended THEN Tell(j)
     ELSE UNCHANGED told
  /\ UNCHANGED <<kind, stage, state, proc, left, current, report, sample>>
-----------------------------------------------------------------------------
(* The job's task.                                                         *)

\* The record is completed; the room is told if it asked to be; the finally block removes
\* the sample.
End(j, s) ==
  /\ stage' = [stage EXCEPT ![j] = "over"] /\ state' = [state EXCEPT ![j] = s]
  /\ sample' = sample \ {j}
  /\ IF j \in target THEN Tell(j) ELSE UNCHANGED told

\* The server's own report of a failure; a warm-up has none.
WriteFailure(j) ==
  report' = IF kind[j] = "warmup" THEN report
            ELSE [report EXCEPT ![kind[j]] = <<j, FALSE>>]

\* A task that is not that of the current job does nothing; its record stays "running".
Superseded(j) ==
  /\ stage[j] = "begun" /\ current[kind[j]] # j
  /\ stage' = [stage EXCEPT ![j] = "over"] /\ sample' = sample \ {j}
  /\ UNCHANGED <<kind, state, proc, left, current, report, target, told>>

\* A warm-up has a process of its own or a thread, as the settings say.
Spawn(j) ==
  /\ stage[j] = "begun" /\ current[kind[j]] = j
  /\ stage' = [stage EXCEPT ![j] = "running"]
  /\ \E p \in IF kind[j] = "warmup" THEN {"runs", "thread"} ELSE {"runs"} :
       proc' = [proc EXCEPT ![j] = p]
  /\ UNCHANGED <<kind, state, left, current, report, sample, target, told>>

SpawnFailsQuietly(j) ==   \* mutant
  /\ stage[j] = "begun" /\ current[kind[j]] = j
  /\ stage' = [stage EXCEPT ![j] = "over"] /\ sample' = sample \ {j}
  /\ UNCHANGED <<kind, state, proc, left, current, report, target, told>>

SpawnFails(j) ==
  /\ stage[j] = "begun" /\ current[kind[j]] = j
  /\ WriteFailure(j) /\ End(j, "failed")
  /\ UNCHANGED <<kind, proc, left, current, target>>

\* The process of a gate or a warm-up has exited in time.  That its output ends is awaited
\* without a limit.
Exited(j) ==
  /\ stage[j] = "running" /\ kind[j] # "verification" /\ proc[j] \in {"zero", "nonzero"}
  /\ stage' = [stage EXCEPT ![j] = "draining"]
  /\ UNCHANGED <<kind, state, proc, left, current, report, sample, target, told>>

\* The output has ended, which it does when no process holds it any more; the exit code
\* decides.  A gate that failed has its failure written by the server; a verification, whose
\* exit and output are awaited together, writes its own.
Finish(j) ==
  /\ stage[j] = "draining" \/ (stage[j] = "running" /\ kind[j] = "verification")
  /\ j \notin left
  /\ \/ proc[j] = "zero" /\ End(j, "succeeded") /\ UNCHANGED report
     \/ /\ proc[j] = "nonzero" /\ End(j, "failed")
        /\ IF kind[j] = "gate" THEN WriteFailure(j) ELSE UNCHANGED report
  /\ UNCHANGED <<kind, proc, left, current, target>>

\* The process is killed, but not what it started.
Kill(j) ==
  IF proc[j] = "runs"
  THEN /\ proc' = [proc EXCEPT ![j] = "killed"]
       /\ \E more \in {{}, {j}} : left' = left \cup more
  ELSE UNCHANGED <<proc, left>>

TimeoutAtOnce(j) ==   \* mutant
  /\ stage[j] = "running" /\ Kill(j) /\ WriteFailure(j) /\ End(j, "failed")
  /\ UNCHANGED <<kind, current, target>>

\* The time limit.  A verification, or a warm-up that is a thread, is then over; of others
\* the output is still read to its end.
Timeout(j) ==
  /\ stage[j] = "running" /\ Kill(j)
  /\ IF kind[j] = "verification" \/ proc[j] = "thread"
     THEN End(j, "failed") /\ WriteFailure(j)
     ELSE stage' = [stage EXCEPT ![j] = "overrun"] /\ UNCHANGED <<state, report, sample, told>>
  /\ UNCHANGED <<kind, current, target>>

Drained(j) ==
  /\ stage[j] = "overrun" /\ j \notin left
  /\ WriteFailure(j) /\ End(j, "failed")
  /\ UNCHANGED <<kind, proc, left, current, target>>

(* The job's process.                                                      *)

\* A gate, or what it started (npm runs the harness), and the verification script write
\* their report.
Reports(j, ok) ==
  /\ kind[j] # "warmup" /\ (proc[j] = "runs" \/ (kind[j] = "gate" /\ j \in left))
  /\ report' = [report EXCEPT ![kind[j]] = <<j, ok>>]
  /\ UNCHANGED <<kind, stage, state, proc, left, current, sample, target, told>>

\* It exits, and may leave processes behind; these end, or never do.  The verification script
\* exits with the result it has written.
Exits(j) ==
  /\ \/ /\ proc[j] \in {"runs", "thread"}
        /\ \E code \in {"zero", "nonzero"} :
             /\ kind[j] = "verification" /\ code = "nonzero" => report[kind[j]] # <<j, TRUE>>
             /\ proc' = [proc EXCEPT ![j] = code]
        /\ \E more \in IF proc[j] = "runs" THEN {{}, {j}} ELSE {{}} : left' = left \cup more
     \/ j \in left /\ left' = left \ {j} /\ UNCHANGED proc
  /\ UNCHANGED <<kind, stage, state, current, report, sample, target, told>>
-----------------------------------------------------------------------------
Goes(j) == \/ Superseded(j) \/ Spawn(j) \/ SpawnFails(j)
           \/ Exited(j) \/ Finish(j) \/ Timeout(j) \/ Drained(j)

Next == \E j \in Jobs :
  \/ \E k \in Kinds : Start(j, k)
  \/ EndAtOnce(j) \/ Upload(j) \/ Received(j) \/ UploadFails(j) \/ AddTarget(j)
  \/ Goes(j) \/ Exits(j) \/ \E ok \in BOOLEAN : Reports(j, ok)

\* The event loop goes on and time limits run out; processes owe nothing.
Fairness == \A j \in Jobs : WF_vars(Goes(j))

Spec == Init /\ [][Next]_vars /\ Fairness
-----------------------------------------------------------------------------
\* Types; and a gate or a warm-up at work is the one the server knows of.  (Not so of
\* verifications: two uploads may be received at the same time.)
TypeOK ==
  /\ kind \in [Jobs -> Kinds \cup {"none"}]
  /\ stage \in [Jobs -> {"new", "uploading", "begun", "running", "draining", "overrun", "over"}]
  /\ state \in [Jobs -> {"none", "running", "succeeded", "failed", "skipped"}]
  /\ proc \in [Jobs -> {"none", "runs", "thread", "zero", "nonzero", "killed"}]
  /\ current \in [Kinds -> Jobs \cup {None}]
  /\ report \in [Kinds -> (Jobs \cup {None}) \X BOOLEAN]
  /\ \A j \in Jobs : stage[j] \in {"begun", "running", "draining", "overrun"} /\ kind[j] # "verification"
                    => current[kind[j]] = j
  /\ left \subseteq Jobs /\ sample \subseteq Jobs /\ target \subseteq Jobs
  /\ told \in [Jobs -> {"no", "told", "failed"}]

\* A job that has failed is not reported as passed afterwards by a process it left behind.
FailureStands ==
  \A j \in Jobs : state[j] = "failed" => report[kind[j]] # <<j, TRUE>>

\* A room that asked to be told of a gate's end is told when it has ended, whether it asked
\* before or after (or the telling failed); unless another gate was started before it asked.
RoomIsTold ==
  \A j \in Jobs :
    /\ j \in target /\ state[j] \in Ended /\ current["gate"] = j => told[j] # "no"
    /\ told[j] = "told" => j \in target /\ state[j] \in Ended

\* An uploaded sample, the recording of a meeting, is on disk only while it is received or
\* its verification is going to remove it, even if the job was replaced or its start failed.
SamplesAreRemoved ==
  \A j \in sample : stage[j] \in {"uploading", "begun", "running"}

\* What follows the end of a job is done with it: the room is told, the sample is removed.
EndIsComplete == RoomIsTold /\ SamplesAreRemoved

\* The current job does not stay "running" for ever, or nobody could start another; except a
\* gate or a warm-up one of whose processes holds its output for ever, for which there is no
\* time limit, whether it was killed or has exited by itself.
JobsEnd ==
  \A k \in Kinds, j \in Jobs :
    (current[k] = j /\ state[j] = "running") ~>
      \/ current[k] # j \/ state[j] # "running"
      \/ [](j \in left /\ k # "verification")
=============================================================================
