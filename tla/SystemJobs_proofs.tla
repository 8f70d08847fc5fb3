-------------------------- MODULE SystemJobs_proofs --------------------------
(***************************************************************************)
(* Safety of SystemJobs for any number of jobs.                            *)
(***************************************************************************)
EXTENDS SystemJobs, TLAPS

Procs == {"none", "runs", "thread", "zero", "nonzero", "killed"}

Types ==
  /\ kind \in [Jobs -> Kinds \cup {"none"}]
  /\ stage \in [Jobs -> {"new", "uploading", "begun", "running", "draining", "overrun", "over"}]
  /\ state \in [Jobs -> {"none", "running", "succeeded", "failed", "skipped"}]
  /\ proc \in [Jobs -> Procs]
  /\ current \in [Kinds -> Jobs \cup {None}]
  /\ report \in [Kinds -> (Jobs \cup {None}) \X BOOLEAN]
  /\ left \subseteq Jobs /\ sample \subseteq Jobs /\ target \subseteq Jobs
  /\ told \in [Jobs -> {"no", "told", "failed"}]

AtWork == {"begun", "running", "draining", "overrun"}

\* What the stage of a job says of its kind, its record and its process.
Staged ==
  \A j \in Jobs :
    /\ stage[j] = "new" => kind[j] = "none" /\ state[j] = "none" /\ told[j] = "no"
    /\ stage[j] # "new" => kind[j] \in Kinds
    /\ stage[j] = "uploading" => kind[j] = "verification" /\ state[j] = "none"
    /\ stage[j] \in AtWork => state[j] = "running"
    /\ stage[j] \in {"new", "uploading", "begun"} => proc[j] = "none"
    /\ proc[j] = "thread" => kind[j] = "warmup"
    /\ stage[j] = "running" => proc[j] \in {"runs", "thread", "zero", "nonzero"}
    /\ stage[j] = "draining" => kind[j] # "verification" /\ proc[j] \in {"zero", "nonzero"}
    /\ stage[j] = "overrun" => kind[j] # "verification" /\ proc[j] \in {"zero", "nonzero", "killed"}
    /\ stage[j] = "over" /\ kind[j] # "warmup" => proc[j] # "runs"
    /\ stage[j] = "over" /\ kind[j] = "gate" => j \notin left
    /\ j \in left => stage[j] \notin {"new", "uploading", "begun"}
    /\ j \in target => kind[j] = "gate"
    /\ j \in sample => kind[j] = "verification"

\* A gate or a warm-up at work is the current one.
Current ==
  \A j \in Jobs : stage[j] \in AtWork /\ kind[j] # "verification" => current[kind[j]] = j

\* Warm-ups have no report, and a verification that exits with an error has reported none.
Reported ==
  /\ report["warmup"] = <<None, FALSE>>
  /\ \A j \in Jobs : kind[j] = "verification" /\ proc[j] = "nonzero"
                       => report["verification"] # <<j, TRUE>>

\* The inductive invariant: a job is known as failed only when no process of it that reports
\* is left, and its own failure was written last.
IInv == /\ Types /\ Staged /\ Current /\ Reported
        /\ FailureStands /\ RoomIsTold /\ SamplesAreRemoved
-----------------------------------------------------------------------------
\* The task of a gate or a warm-up goes on to read its output, after an exit in time or a kill.
Reads(j) ==
  /\ stage[j] = "running" /\ kind[j] # "verification" /\ Kill(j)
  /\ \/ proc[j] \in {"zero", "nonzero"} /\ stage' = [stage EXCEPT ![j] = "draining"]
     \/ proc[j] # "thread" /\ stage' = [stage EXCEPT ![j] = "overrun"]
  /\ UNCHANGED <<kind, state, current, report, sample, target, told>>

\* What End does, whether or not the room could be told.
EndsAs(j, s) ==
  /\ stage' = [stage EXCEPT ![j] = "over"] /\ state' = [state EXCEPT ![j] = s]
  /\ sample' = sample \ {j} /\ told' \in [Jobs -> {"no", "told", "failed"}]
  /\ \A i \in Jobs \ {j} : told'[i] = told[i]
  /\ j \in target => told'[j] # "no"
  /\ j \notin target => told'[j] = told[j]

\* A job at work ends, by whichever step: no process of it that reports is left, and if it
\* failed its report does not say that it passed.
Closes(j) ==
  /\ stage[j] \in AtWork /\ UNCHANGED <<kind, current, target>>
  /\ \E s \in {"succeeded", "failed"} :
       EndsAs(j, s) /\ (s = "failed" => report'[kind[j]] # <<j, TRUE>>)
  /\ proc' \in [Jobs -> Procs]
  /\ \A i \in Jobs \ {j} : proc'[i] = proc[i]
  /\ kind[j] # "warmup" => proc'[j] # "runs"
  /\ proc'[j] = "nonzero" => proc[j] = "nonzero"
  /\ proc'[j] = "thread" => proc[j] = "thread"
  /\ left' \subseteq Jobs /\ (\A i \in Jobs \ {j} : i \in left' <=> i \in left)
  /\ kind[j] = "gate" => j \notin left'
  /\ report' \in [Kinds -> (Jobs \cup {None}) \X BOOLEAN]
  /\ \A k \in Kinds : \/ report'[k] = report[k]
                      \/ k = kind[j] /\ k # "warmup" /\ report'[k] = <<j, FALSE>>

LEMMA EndFacts ==
  ASSUME Types, NEW j \in Jobs, NEW s, End(j, s)
  PROVE  EndsAs(j, s)
<1>1. CASE j \in target
  <2>1. PICK how \in {"told", "failed"} :
          told' = [told EXCEPT ![j] = IF told[j] = "told" THEN told[j] ELSE how]
    BY <1>1 DEF End, Tell
  <2>2. QED  BY <1>1, <2>1 DEF End, EndsAs, Types
<1>2. CASE j \notin target
  BY <1>2 DEF End, EndsAs, Types
<1>3. QED  BY <1>1, <1>2

LEMMA FailureFacts ==
  ASSUME Types, NEW j \in Jobs, kind[j] \in Kinds, WriteFailure(j)
  PROVE  /\ report' \in [Kinds -> (Jobs \cup {None}) \X BOOLEAN]
         /\ \A k \in Kinds : report'[k] = IF k = kind[j] /\ k # "warmup" THEN <<j, FALSE>>
                                          ELSE report[k]
BY DEF Types, WriteFailure

\* An end that touches no other process and leaves no report of success after a failure.
LEMMA ClosesWhen ==
  ASSUME Types, NEW j \in Jobs, kind[j] \in Kinds, stage[j] \in AtWork,
         UNCHANGED <<kind, current, target>>, NEW s \in {"succeeded", "failed"}, EndsAs(j, s),
         NEW p \in Procs,
         proc' = [proc EXCEPT ![j] = p], p = "nonzero" => proc[j] = "nonzero",
         p = "thread" => proc[j] = "thread", kind[j] # "warmup" => p # "runs",
         left' \subseteq Jobs, \A i \in Jobs \ {j} : i \in left' <=> i \in left,
         kind[j] = "gate" => j \notin left',
         report["warmup"] # <<j, TRUE>>,
         \/ report' = report /\ (s = "failed" => report[kind[j]] # <<j, TRUE>>)
         \/ WriteFailure(j)
  PROVE  Closes(j)
<1>1. /\ proc' \in [Jobs -> Procs]
      /\ \A i \in Jobs \ {j} : proc'[i] = proc[i]
      /\ kind[j] # "warmup" => proc'[j] # "runs"
      /\ proc'[j] = "nonzero" => proc[j] = "nonzero"
      /\ proc'[j] = "thread" => proc[j] = "thread"
  BY DEF Types
<1>2. /\ report' \in [Kinds -> (Jobs \cup {None}) \X BOOLEAN]
      /\ \A k \in Kinds : \/ report'[k] = report[k]
                          \/ k = kind[j] /\ k # "warmup" /\ report'[k] = <<j, FALSE>>
  <2>1. CASE report' = report  BY <2>1 DEF Types
  <2>2. CASE WriteFailure(j)   BY <2>2, FailureFacts
  <2>3. QED  BY <2>1, <2>2
<1>3. s = "failed" => report'[kind[j]] # <<j, TRUE>>
  <2>1. CASE WriteFailure(j)
    <3>1. report'[kind[j]] = IF kind[j] # "warmup" THEN <<j, FALSE>> ELSE report[kind[j]]
      BY <2>1, FailureFacts
    <3>2. CASE kind[j] = "warmup"  BY <3>1, <3>2
    <3>3. CASE kind[j] # "warmup"
      <4>1. report'[kind[j]] = <<j, FALSE>>  BY <3>1, <3>3
      <4>2. QED  BY <4>1
    <3>4. QED  BY <3>2, <3>3
  <2>2. QED  BY <2>1
<1>4. \E t \in {"succeeded", "failed"} :
        EndsAs(j, t) /\ (t = "failed" => report'[kind[j]] # <<j, TRUE>>)
  BY <1>3
<1>5. QED  BY <1>1, <1>2, <1>4 DEF Closes

\* What a kill does to the process and to what it leaves.
LEMMA KillFacts ==
  ASSUME Types, NEW j \in Jobs, Kill(j)
  PROVE  /\ \E p \in Procs : /\ proc' = [proc EXCEPT ![j] = p]
                             /\ p = IF proc[j] = "runs" THEN "killed" ELSE proc[j]
         /\ left' \subseteq Jobs /\ \A i \in Jobs \ {j} : i \in left' <=> i \in left
<1>1. proc[j] \in Procs /\ left \subseteq Jobs  BY DEF Types
<1>2. CASE proc[j] = "runs"
  <2>1. PICK more \in {{}, {j}} : left' = left \cup more  BY <1>2 DEF Kill
  <2>2. proc' = [proc EXCEPT ![j] = "killed"]  BY <1>2 DEF Kill
  <2>3. QED  BY <1>1, <1>2, <2>1, <2>2 DEF Procs
<1>3. CASE proc[j] # "runs"
  <2>1. proc' = proc /\ left' = left  BY <1>3 DEF Kill
  <2>2. proc' = [proc EXCEPT ![j] = proc[j]]  BY <2>1 DEF Types
  <2>3. QED  BY <1>1, <1>3, <2>1, <2>2
<1>4. QED  BY <1>2, <1>3

\* Every end of a job at work is one of Closes, but one whose output is read goes on.
LEMMA TaskSteps ==
  ASSUME Types, Staged, Reported, NEW j \in Jobs,
         SpawnFails(j) \/ Exited(j) \/ Finish(j) \/ Timeout(j) \/ Drained(j)
  PROVE  Closes(j) \/ Reads(j)
<1>0. stage[j] \in AtWork /\ kind[j] \in Kinds
  BY DEF Staged, AtWork, SpawnFails, Exited, Finish, Timeout, Drained
<1>1. report["warmup"] # <<j, TRUE>>
  BY JobsAssumption DEF Reported
<1>a. proc[j] \in Procs /\ left \subseteq Jobs  BY DEF Types
<1>b. proc' = proc => proc' = [proc EXCEPT ![j] = proc[j]]
  BY DEF Types
<1>2. CASE SpawnFails(j)
  <2>1. EndsAs(j, "failed")  BY <1>2, EndFacts DEF SpawnFails
  <2>2. proc[j] = "none" /\ proc' = proc /\ left' = left /\ j \notin left
    BY <1>2 DEF SpawnFails, Staged
  <2>3. WriteFailure(j) /\ UNCHANGED <<kind, current, target>>  BY <1>2 DEF SpawnFails
  <2>4. QED  BY <1>0, <1>1, <1>a, <1>b, <2>1, <2>2, <2>3, ClosesWhen
<1>c. CASE Exited(j)
  <2>1. Kill(j)  BY <1>c DEF Exited, Kill
  <2>2. QED  BY <1>c, <2>1 DEF Exited, Reads
<1>3. CASE Finish(j) /\ proc[j] = "zero"
  <2>1. EndsAs(j, "succeeded")  BY <1>3, EndFacts DEF Finish
  <2>2. /\ report' = report /\ proc' = proc /\ left' = left /\ j \notin left
        /\ UNCHANGED <<kind, current, target>>
    BY <1>3 DEF Finish
  <2>3. QED  BY <1>0, <1>1, <1>3, <1>a, <1>b, <2>1, <2>2, ClosesWhen
<1>4. CASE Finish(j) /\ proc[j] = "nonzero"
  <2>1. EndsAs(j, "failed")  BY <1>4, EndFacts DEF Finish
  <2>2. /\ proc' = proc /\ left' = left /\ j \notin left
        /\ UNCHANGED <<kind, current, target>>
    BY <1>4 DEF Finish
  <2>3. WriteFailure(j) \/ (report' = report /\ report[kind[j]] # <<j, TRUE>>)
    <3>1. CASE kind[j] = "gate"  BY <1>4, <3>1 DEF Finish
    <3>2. CASE kind[j] = "verification"  BY <1>4, <3>2 DEF Finish, Reported
    <3>3. CASE kind[j] = "warmup"  BY <1>1, <1>4, <3>3 DEF Finish
    <3>4. QED  BY <1>0, <3>1, <3>2, <3>3 DEF Kinds
  <2>4. QED  BY <1>0, <1>1, <1>4, <1>a, <1>b, <2>1, <2>2, <2>3, ClosesWhen
<1>5. CASE Timeout(j) /\ ~(kind[j] = "verification" \/ proc[j] = "thread")
  BY <1>5 DEF Timeout, Reads
<1>6. CASE Timeout(j) /\ (kind[j] = "verification" \/ proc[j] = "thread")
  <2>1. EndsAs(j, "failed")  BY <1>6, EndFacts DEF Timeout
  <2>2. PICK p \in Procs : /\ proc' = [proc EXCEPT ![j] = p]
                           /\ p = IF proc[j] = "runs" THEN "killed" ELSE proc[j]
    BY <1>6, KillFacts DEF Timeout
  <2>3. left' \subseteq Jobs /\ \A i \in Jobs \ {j} : i \in left' <=> i \in left
    BY <1>6, KillFacts DEF Timeout
  <2>4. p # "runs" /\ kind[j] # "gate"  BY <1>6, <2>2 DEF Staged
  <2>5. WriteFailure(j) /\ UNCHANGED <<kind, current, target>>  BY <1>6 DEF Timeout
  <2>6. QED  BY <1>0, <1>1, <2>1, <2>2, <2>3, <2>4, <2>5, ClosesWhen
<1>7. CASE Drained(j)
  <2>1. EndsAs(j, "failed")  BY <1>7, EndFacts DEF Drained
  <2>2. /\ proc' = proc /\ left' = left /\ j \notin left /\ proc[j] # "runs"
        /\ WriteFailure(j) /\ UNCHANGED <<kind, current, target>>
    BY <1>7 DEF Drained, Staged
  <2>3. QED  BY <1>0, <1>1, <1>a, <1>b, <2>1, <2>2, ClosesWhen
<1>8. QED  BY <1>2, <1>c, <1>3, <1>4, <1>5, <1>6, <1>7 DEF Finish

\* A process exits: its error exit means no report of success.  Or what it left ends.
LEMMA ExitFacts ==
  ASSUME Types, NEW j \in Jobs, Exits(j)
  PROVE  /\ left' \subseteq Jobs /\ \A i \in Jobs \ {j} : i \in left' <=> i \in left
         /\ \/ \E p \in {"zero", "nonzero"} :
                 /\ proc' = [proc EXCEPT ![j] = p] /\ proc[j] \in {"runs", "thread"}
                 /\ kind[j] = "verification" /\ p = "nonzero" => report[kind[j]] # <<j, TRUE>>
            \/ proc' = proc /\ j \in left /\ j \notin left'
<1>1. left \subseteq Jobs  BY DEF Types
<1>2. CASE j \in left /\ left' = left \ {j} /\ UNCHANGED proc  BY <1>1, <1>2
<1>3. CASE ~(j \in left /\ left' = left \ {j} /\ UNCHANGED proc)
  <2>1. PICK code \in {"zero", "nonzero"} :
          /\ kind[j] = "verification" /\ code = "nonzero" => report[kind[j]] # <<j, TRUE>>
          /\ proc' = [proc EXCEPT ![j] = code]
    BY <1>3 DEF Exits
  <2>2. proc[j] \in {"runs", "thread"}  BY <1>3 DEF Exits
  <2>3. PICK more \in {{}, {j}} : left' = left \cup more  BY <1>3 DEF Exits
  <2>4. QED  BY <1>1, <2>1, <2>2, <2>3
<1>4. QED  BY <1>2, <1>3
-----------------------------------------------------------------------------
\* Types are kept.
LEMMA TypesStep ==
  ASSUME Types, Staged, Reported, [Next]_vars
  PROVE  Types'
<1>1. ASSUME NEW j \in Jobs, NEW k \in Kinds, Start(j, k) PROVE Types'
  BY <1>1 DEF Types, Kinds, Start, Register, Busy
<1>2. ASSUME NEW j \in Jobs, EndAtOnce(j) PROVE Types'
  BY <1>2 DEF Types, Kinds, EndAtOnce, Busy
<1>3. ASSUME NEW j \in Jobs, Upload(j) PROVE Types'
  BY <1>3 DEF Types, Kinds, Upload
<1>4. ASSUME NEW j \in Jobs, Received(j) PROVE Types'
  BY <1>4 DEF Types, Kinds, Received, Register
<1>5. ASSUME NEW j \in Jobs, UploadFails(j) PROVE Types'
  BY <1>5 DEF Types, Kinds, UploadFails
<1>6. ASSUME NEW j \in Jobs, AddTarget(j) PROVE Types'
  BY <1>6 DEF Types, Kinds, AddTarget, Tell, Ended
<1>7. ASSUME NEW j \in Jobs, Superseded(j) PROVE Types'
  BY <1>7 DEF Types, Kinds, Superseded
<1>8. ASSUME NEW j \in Jobs, Spawn(j) PROVE Types'
  <2>1. PICK p \in {"runs", "thread"} : proc' = [proc EXCEPT ![j] = p]  BY <1>8 DEF Spawn
  <2>2. proc' \in [Jobs -> Procs]  BY <2>1 DEF Types, Procs
  <2>3. QED  BY <1>8, <2>2 DEF Types, Spawn
<1>9. ASSUME NEW j \in Jobs, Closes(j) PROVE Types'
  <2>1. PICK s \in {"succeeded", "failed"} : EndsAs(j, s)  BY <1>9 DEF Closes
  <2>2. UNCHANGED <<kind, current, target>>  BY <1>9 DEF Closes
  <2>3. /\ proc' \in [Jobs -> Procs]
        /\ report' \in [Kinds -> (Jobs \cup {None}) \X BOOLEAN] /\ left' \subseteq Jobs
    BY <1>9 DEF Closes
  <2>4. QED  BY <2>1, <2>2, <2>3 DEF Types, EndsAs
<1>10. ASSUME NEW j \in Jobs, Reads(j) PROVE Types'
  <2>1. PICK p \in Procs : proc' = [proc EXCEPT ![j] = p]  BY <1>10, KillFacts DEF Reads
  <2>2. proc' \in [Jobs -> Procs]  BY <2>1 DEF Types
  <2>3. left' \subseteq Jobs  BY <1>10, KillFacts DEF Reads
  <2>4. QED  BY <1>10, <2>2, <2>3 DEF Types, Reads
<1>11. ASSUME NEW j \in Jobs, Exits(j) PROVE Types'
  <2>1. /\ left' \subseteq Jobs /\ \A i \in Jobs \ {j} : i \in left' <=> i \in left
        /\ \/ \E p \in {"zero", "nonzero"} :
                /\ proc' = [proc EXCEPT ![j] = p] /\ proc[j] \in {"runs", "thread"}
                /\ kind[j] = "verification" /\ p = "nonzero" => report[kind[j]] # <<j, TRUE>>
           \/ proc' = proc /\ j \in left /\ j \notin left'
    BY <1>11, ExitFacts
  <2>2. UNCHANGED <<kind, stage, state, current, report, sample, target, told>>
    BY <1>11 DEF Exits
  <2>3. CASE proc' = proc  BY <2>1, <2>2, <2>3 DEF Types
  <2>4. ASSUME NEW p \in {"zero", "nonzero"}, proc' = [proc EXCEPT ![j] = p] PROVE Types'
    <3>1. proc' \in [Jobs -> Procs]  BY <2>4 DEF Types, Procs
    <3>2. QED  BY <2>1, <2>2, <3>1 DEF Types
  <2>5. QED  BY <2>1, <2>3, <2>4
<1>12. ASSUME NEW j \in Jobs, NEW ok \in BOOLEAN, Reports(j, ok) PROVE Types'
  BY <1>12 DEF Types, Kinds, Reports
<1>13. CASE UNCHANGED vars
  BY <1>13 DEF Types, Kinds, vars
<1>14. QED
  BY <1>1, <1>2, <1>3, <1>4, <1>5, <1>6, <1>7, <1>8, <1>9, <1>10, <1>11, <1>12, <1>13,
     TaskSteps DEF Next, Goes

\* A job's kind, record and process keep agreeing with its stage.
LEMMA StagedStep ==
  ASSUME Types, Staged, Reported, [Next]_vars
  PROVE  Staged'
<1>1. ASSUME NEW j \in Jobs, NEW k \in Kinds, Start(j, k) PROVE Staged'
  BY <1>1 DEF Types, Staged, AtWork, Kinds, Start, Register, Busy
<1>2. ASSUME NEW j \in Jobs, EndAtOnce(j) PROVE Staged'
  BY <1>2 DEF Types, Staged, AtWork, Kinds, EndAtOnce, Busy
<1>3. ASSUME NEW j \in Jobs, Upload(j) PROVE Staged'
  BY <1>3 DEF Types, Staged, AtWork, Kinds, Upload
<1>4. ASSUME NEW j \in Jobs, Received(j) PROVE Staged'
  BY <1>4 DEF Types, Staged, AtWork, Kinds, Received, Register
<1>5. ASSUME NEW j \in Jobs, UploadFails(j) PROVE Staged'
  BY <1>5 DEF Types, Staged, AtWork, Kinds, UploadFails
<1>6. ASSUME NEW j \in Jobs, AddTarget(j) PROVE Staged'
  BY <1>6 DEF Types, Staged, AtWork, Kinds, AddTarget, Tell, Ended
<1>7. ASSUME NEW j \in Jobs, Superseded(j) PROVE Staged'
  BY <1>7 DEF Types, Staged, AtWork, Kinds, Superseded
<1>8. ASSUME NEW j \in Jobs, Spawn(j) PROVE Staged'
  BY <1>8 DEF Types, Staged, AtWork, Kinds, Spawn
<1>9. ASSUME NEW j \in Jobs, Closes(j) PROVE Staged'
  BY <1>9 DEF Types, Staged, AtWork, Kinds, Closes, EndsAs
<1>10. ASSUME NEW j \in Jobs, Reads(j) PROVE Staged'
  BY <1>10 DEF Types, Staged, AtWork, Kinds, Reads, Kill
<1>11. ASSUME NEW j \in Jobs, Exits(j) PROVE Staged'
  <2>1. /\ left' \subseteq Jobs /\ \A i \in Jobs \ {j} : i \in left' <=> i \in left
        /\ \/ \E p \in {"zero", "nonzero"} :
                /\ proc' = [proc EXCEPT ![j] = p] /\ proc[j] \in {"runs", "thread"}
                /\ kind[j] = "verification" /\ p = "nonzero" => report[kind[j]] # <<j, TRUE>>
           \/ proc' = proc /\ j \in left /\ j \notin left'
    BY <1>11, ExitFacts
  <2>2. UNCHANGED <<kind, stage, state, current, report, sample, target, told>>
    BY <1>11 DEF Exits
  <2>3. CASE proc' = proc /\ j \in left /\ j \notin left'
    BY <2>1, <2>2, <2>3 DEF Types, Staged, AtWork, Kinds
  <2>4. ASSUME NEW p \in {"zero", "nonzero"}, proc' = [proc EXCEPT ![j] = p],
               proc[j] \in {"runs", "thread"}
        PROVE  Staged'
    <3>1. proc'[j] = p /\ \A i \in Jobs \ {j} : proc'[i] = proc[i]  BY <2>4 DEF Types
    <3>2. stage[j] \in {"running", "over"} /\ (stage[j] = "over" => kind[j] = "warmup")
      BY <2>4 DEF Types, Staged
    <3>3. QED  BY <2>1, <2>2, <3>1, <3>2 DEF Staged, AtWork, Kinds
  <2>5. QED  BY <2>1, <2>3, <2>4
<1>12. ASSUME NEW j \in Jobs, NEW ok \in BOOLEAN, Reports(j, ok) PROVE Staged'
  BY <1>12 DEF Types, Staged, AtWork, Kinds, Reports
<1>13. CASE UNCHANGED vars
  BY <1>13 DEF Types, Staged, AtWork, Kinds, vars
<1>14. QED
  BY <1>1, <1>2, <1>3, <1>4, <1>5, <1>6, <1>7, <1>8, <1>9, <1>10, <1>11, <1>12, <1>13,
     TaskSteps DEF Next, Goes

\* A job at work is not replaced by one of its kind.
LEMMA CurrentStep ==
  ASSUME Types, Staged, Reported, Current, [Next]_vars
  PROVE  Current'
<1>1. ASSUME NEW j \in Jobs, NEW k \in Kinds, Start(j, k) PROVE Current'
  BY <1>1, JobsAssumption DEF Types, Staged, Current, AtWork, Kinds, Start, Register, Busy
<1>2. ASSUME NEW j \in Jobs, EndAtOnce(j) PROVE Current'
  BY <1>2, JobsAssumption DEF Types, Staged, Current, AtWork, Kinds, EndAtOnce, Busy
<1>3. ASSUME NEW j \in Jobs, Upload(j) PROVE Current'
  BY <1>3, JobsAssumption DEF Types, Staged, Current, AtWork, Kinds, Upload
<1>4. ASSUME NEW j \in Jobs, Received(j) PROVE Current'
  BY <1>4, JobsAssumption DEF Types, Staged, Current, AtWork, Kinds, Received, Register
<1>5. ASSUME NEW j \in Jobs, UploadFails(j) PROVE Current'
  BY <1>5, JobsAssumption DEF Types, Staged, Current, AtWork, Kinds, UploadFails
<1>6. ASSUME NEW j \in Jobs, AddTarget(j) PROVE Current'
  BY <1>6, JobsAssumption DEF Types, Staged, Current, AtWork, Kinds, AddTarget, Tell, Ended
<1>7. ASSUME NEW j \in Jobs, Superseded(j) PROVE Current'
  BY <1>7, JobsAssumption DEF Types, Staged, Current, AtWork, Kinds, Superseded
<1>8. ASSUME NEW j \in Jobs, Spawn(j) PROVE Current'
  BY <1>8, JobsAssumption DEF Types, Staged, Current, AtWork, Kinds, Spawn
<1>9. ASSUME NEW j \in Jobs, Closes(j) PROVE Current'
  BY <1>9, JobsAssumption DEF Types, Staged, Current, AtWork, Kinds, Closes, EndsAs
<1>10. ASSUME NEW j \in Jobs, Reads(j) PROVE Current'
  BY <1>10, JobsAssumption DEF Types, Staged, Current, AtWork, Kinds, Reads, Kill
<1>11. ASSUME NEW j \in Jobs, Exits(j) PROVE Current'
  BY <1>11, JobsAssumption DEF Types, Staged, Current, AtWork, Kinds, Exits
<1>12. ASSUME NEW j \in Jobs, NEW ok \in BOOLEAN, Reports(j, ok) PROVE Current'
  BY <1>12, JobsAssumption DEF Types, Staged, Current, AtWork, Kinds, Reports
<1>13. CASE UNCHANGED vars
  BY <1>13, JobsAssumption DEF Types, Staged, Current, AtWork, Kinds, vars
<1>14. QED
  BY <1>1, <1>2, <1>3, <1>4, <1>5, <1>6, <1>7, <1>8, <1>9, <1>10, <1>11, <1>12, <1>13,
     TaskSteps DEF Next, Goes

\* A step that writes no report and makes no job a verification that has failed.
LEMMA ReportedKept ==
  ASSUME Reported, report' = report,
         \A i \in Jobs : kind'[i] = "verification" /\ proc'[i] = "nonzero"
                        => kind[i] = "verification" /\ proc[i] = "nonzero"
  PROVE  Reported'
BY DEF Reported

\* Only a process that has not exited reports success.
LEMMA ReportedStep ==
  ASSUME Types, Staged, Reported, [Next]_vars
  PROVE  Reported'
<1>1. ASSUME NEW j \in Jobs, NEW k \in Kinds, Start(j, k) PROVE Reported'
  <2>1. /\ report' = report /\ proc' = proc /\ proc[j] = "none"
        /\ \A i \in Jobs \ {j} : kind'[i] = kind[i]
    BY <1>1 DEF Types, Staged, Start
  <2>2. QED  BY <2>1, ReportedKept
<1>2. ASSUME NEW j \in Jobs, EndAtOnce(j) PROVE Reported'
  <2>1. /\ report' = report /\ proc' = proc /\ kind'[j] = "warmup"
        /\ \A i \in Jobs \ {j} : kind'[i] = kind[i]
    BY <1>2 DEF EndAtOnce, Types
  <2>2. QED  BY <2>1 DEF Reported
<1>3. ASSUME NEW j \in Jobs, Upload(j) PROVE Reported'
  <2>1. /\ report' = report /\ proc' = proc /\ proc[j] = "none"
        /\ \A i \in Jobs \ {j} : kind'[i] = kind[i]
    BY <1>3 DEF Types, Staged, Upload
  <2>2. QED  BY <2>1, ReportedKept
<1>4. ASSUME NEW j \in Jobs, Received(j) PROVE Reported'
  BY <1>4 DEF Reported, Received
<1>5. ASSUME NEW j \in Jobs, UploadFails(j) PROVE Reported'
  BY <1>5 DEF Reported, UploadFails
<1>6. ASSUME NEW j \in Jobs, AddTarget(j) PROVE Reported'
  BY <1>6 DEF Reported, AddTarget
<1>7. ASSUME NEW j \in Jobs, Superseded(j) PROVE Reported'
  BY <1>7 DEF Reported, Superseded
<1>8. ASSUME NEW j \in Jobs, Spawn(j) PROVE Reported'
  BY <1>8 DEF Types, Reported, Spawn
<1>9. ASSUME NEW j \in Jobs, Closes(j) PROVE Reported'
  <2>1. /\ kind' = kind /\ (proc'[j] = "nonzero" => proc[j] = "nonzero")
        /\ \A i \in Jobs \ {j} : proc'[i] = proc[i]
        /\ \A k \in Kinds : \/ report'[k] = report[k]
                            \/ k # "warmup" /\ report'[k] = <<j, FALSE>>
    BY <1>9 DEF Closes
  <2>2. report'["warmup"] = <<None, FALSE>>  BY <2>1 DEF Reported, Kinds
  <2>3. ASSUME NEW i \in Jobs, kind'[i] = "verification", proc'[i] = "nonzero"
        PROVE  report'["verification"] # <<i, TRUE>>
    <3>1. report["verification"] # <<i, TRUE>>  BY <2>1, <2>3 DEF Reported
    <3>2. CASE report'["verification"] = report["verification"]  BY <3>1, <3>2
    <3>3. CASE report'["verification"] = <<j, FALSE>>  BY <3>3
    <3>4. QED  BY <2>1, <3>2, <3>3 DEF Kinds
  <2>4. QED  BY <2>2, <2>3 DEF Reported
<1>10. ASSUME NEW j \in Jobs, Reads(j) PROVE Reported'
  <2>1. PICK p \in Procs : /\ proc' = [proc EXCEPT ![j] = p]
                           /\ p = IF proc[j] = "runs" THEN "killed" ELSE proc[j]
    BY <1>10, KillFacts DEF Reads
  <2>2. /\ report' = report /\ kind' = kind /\ kind[j] # "verification"
        /\ \A i \in Jobs \ {j} : proc'[i] = proc[i]
    BY <1>10, <2>1 DEF Reads, Types
  <2>3. QED  BY <2>2 DEF Reported
<1>11. ASSUME NEW j \in Jobs, Exits(j) PROVE Reported'
  <2>1. /\ left' \subseteq Jobs /\ \A i \in Jobs \ {j} : i \in left' <=> i \in left
        /\ \/ \E p \in {"zero", "nonzero"} :
                /\ proc' = [proc EXCEPT ![j] = p] /\ proc[j] \in {"runs", "thread"}
                /\ kind[j] = "verification" /\ p = "nonzero" => report[kind[j]] # <<j, TRUE>>
           \/ proc' = proc /\ j \in left /\ j \notin left'
    BY <1>11, ExitFacts
  <2>2. UNCHANGED <<kind, stage, state, current, report, sample, target, told>>
    BY <1>11 DEF Exits
  <2>3. QED  BY <2>1, <2>2 DEF Types, Reported, AtWork, Kinds
<1>12. ASSUME NEW j \in Jobs, NEW ok \in BOOLEAN, Reports(j, ok) PROVE Reported'
  BY <1>12, JobsAssumption DEF Types, Staged, Reported, AtWork, Kinds, Reports
<1>13. CASE UNCHANGED vars
  BY <1>13 DEF Reported, vars
<1>14. QED
  BY <1>1, <1>2, <1>3, <1>4, <1>5, <1>6, <1>7, <1>8, <1>9, <1>10, <1>11, <1>12, <1>13,
     TaskSteps DEF Next, Goes

\* A step that writes no report fails no job.
LEMMA FailureKept ==
  ASSUME FailureStands, report' = report,
         \A i \in Jobs : state'[i] = "failed" => state[i] = "failed" /\ kind'[i] = kind[i]
  PROVE  FailureStands'
BY DEF FailureStands

\* Once failed, a job has no process that could report it as passed.
LEMMA FailureStep ==
  ASSUME Types, Staged, Reported, FailureStands, [Next]_vars
  PROVE  FailureStands'
<1>1. ASSUME NEW j \in Jobs, NEW k \in Kinds, Start(j, k) PROVE FailureStands'
  <2>1. /\ report' = report
        /\ \A i \in Jobs : state'[i] = "failed" => state[i] = "failed" /\ kind'[i] = kind[i]
    BY <1>1 DEF Types, Start, Register
  <2>2. QED  BY <2>1, FailureKept
<1>2. ASSUME NEW j \in Jobs, EndAtOnce(j) PROVE FailureStands'
  <2>1. /\ report' = report /\ kind'[j] = "warmup"
        /\ \A i \in Jobs \ {j} : kind'[i] = kind[i] /\ state'[i] = state[i]
    <3>1. PICK s \in {"skipped", "failed"} : state' = [state EXCEPT ![j] = s]
      BY <1>2 DEF EndAtOnce
    <3>2. QED  BY <1>2, <3>1 DEF EndAtOnce, Types
  <2>2. report["warmup"] # <<j, TRUE>>  BY JobsAssumption DEF Reported
  <2>3. QED  BY <2>1, <2>2 DEF FailureStands
<1>3. ASSUME NEW j \in Jobs, Upload(j) PROVE FailureStands'
  <2>1. /\ report' = report /\ state[j] = "none" /\ state' = state
        /\ \A i \in Jobs \ {j} : kind'[i] = kind[i]
    BY <1>3 DEF Types, Staged, Upload
  <2>2. QED  BY <2>1, FailureKept
<1>4. ASSUME NEW j \in Jobs, Received(j) PROVE FailureStands'
  <2>1. /\ report' = report
        /\ \A i \in Jobs : state'[i] = "failed" => state[i] = "failed" /\ kind'[i] = kind[i]
    BY <1>4 DEF Types, Received, Register
  <2>2. QED  BY <2>1, FailureKept
<1>5. ASSUME NEW j \in Jobs, UploadFails(j) PROVE FailureStands'
  BY <1>5 DEF FailureStands, UploadFails
<1>6. ASSUME NEW j \in Jobs, AddTarget(j) PROVE FailureStands'
  BY <1>6 DEF FailureStands, AddTarget
<1>7. ASSUME NEW j \in Jobs, Superseded(j) PROVE FailureStands'
  BY <1>7 DEF FailureStands, Superseded
<1>8. ASSUME NEW j \in Jobs, Spawn(j) PROVE FailureStands'
  BY <1>8 DEF FailureStands, Spawn
<1>9. ASSUME NEW j \in Jobs, Closes(j) PROVE FailureStands'
  <2>1. PICK s \in {"succeeded", "failed"} :
          EndsAs(j, s) /\ (s = "failed" => report'[kind[j]] # <<j, TRUE>>)
    BY <1>9 DEF Closes
  <2>2. /\ kind' = kind /\ stage[j] \in AtWork
        /\ \A k \in Kinds : report'[k] = report[k] \/ report'[k] = <<j, FALSE>>
    BY <1>9 DEF Closes
  <2>3. state'[j] = s /\ \A i \in Jobs \ {j} : state'[i] = state[i]
    BY <2>1 DEF EndsAs, Types
  <2>4. ASSUME NEW i \in Jobs \ {j}, state'[i] = "failed"
        PROVE  report'[kind'[i]] # <<i, TRUE>>
    <3>1. state[i] = "failed" /\ report[kind[i]] # <<i, TRUE>>
      BY <2>3, <2>4 DEF FailureStands
    <3>2. kind[i] \in Kinds  BY <3>1 DEF Staged
    <3>3. CASE report'[kind[i]] = report[kind[i]]  BY <2>2, <3>1, <3>3
    <3>4. CASE report'[kind[i]] = <<j, FALSE>>  BY <2>2, <3>4
    <3>5. QED  BY <2>2, <3>2, <3>3, <3>4
  <2>5. QED  BY <2>1, <2>2, <2>3, <2>4 DEF FailureStands
<1>10. ASSUME NEW j \in Jobs, Reads(j) PROVE FailureStands'
  BY <1>10 DEF FailureStands, Reads
<1>11. ASSUME NEW j \in Jobs, Exits(j) PROVE FailureStands'
  BY <1>11 DEF FailureStands, Exits
<1>12. ASSUME NEW j \in Jobs, NEW ok \in BOOLEAN, Reports(j, ok) PROVE FailureStands'
  BY <1>12, JobsAssumption DEF Types, Staged, Reported, FailureStands, AtWork, Kinds, Reports
<1>13. CASE UNCHANGED vars
  BY <1>13 DEF FailureStands, vars
<1>14. QED
  BY <1>1, <1>2, <1>3, <1>4, <1>5, <1>6, <1>7, <1>8, <1>9, <1>10, <1>11, <1>12, <1>13,
     TaskSteps DEF Next, Goes

\* Whichever comes second, the end of a gate or its target, tells the room.
LEMMA ToldStep ==
  ASSUME Types, Staged, Reported, RoomIsTold, [Next]_vars
  PROVE  RoomIsTold'
<1>1. ASSUME NEW j \in Jobs, NEW k \in Kinds, Start(j, k) PROVE RoomIsTold'
  BY <1>1, JobsAssumption
     DEF Types, Staged, RoomIsTold, AtWork, Kinds, Ended, Start, Register, Busy
<1>2. ASSUME NEW j \in Jobs, EndAtOnce(j) PROVE RoomIsTold'
  BY <1>2, JobsAssumption DEF Types, Staged, RoomIsTold, AtWork, Kinds, Ended, EndAtOnce, Busy
<1>3. ASSUME NEW j \in Jobs, Upload(j) PROVE RoomIsTold'
  BY <1>3, JobsAssumption DEF Types, Staged, RoomIsTold, AtWork, Kinds, Ended, Upload
<1>4. ASSUME NEW j \in Jobs, Received(j) PROVE RoomIsTold'
  BY <1>4, JobsAssumption
     DEF Types, Staged, RoomIsTold, AtWork, Kinds, Ended, Received, Register
<1>5. ASSUME NEW j \in Jobs, UploadFails(j) PROVE RoomIsTold'
  BY <1>5, JobsAssumption DEF Types, Staged, RoomIsTold, AtWork, Kinds, Ended, UploadFails
<1>6. ASSUME NEW j \in Jobs, AddTarget(j) PROVE RoomIsTold'
  BY <1>6, JobsAssumption DEF Types, Staged, RoomIsTold, AtWork, Kinds, Ended, AddTarget, Tell
<1>7. ASSUME NEW j \in Jobs, Superseded(j) PROVE RoomIsTold'
  BY <1>7, JobsAssumption DEF Types, Staged, RoomIsTold, AtWork, Kinds, Ended, Superseded
<1>8. ASSUME NEW j \in Jobs, Spawn(j) PROVE RoomIsTold'
  BY <1>8, JobsAssumption DEF Types, Staged, RoomIsTold, AtWork, Kinds, Ended, Spawn
<1>9. ASSUME NEW j \in Jobs, Closes(j) PROVE RoomIsTold'
  BY <1>9, JobsAssumption DEF Types, Staged, RoomIsTold, AtWork, Kinds, Ended, Closes, EndsAs
<1>10. ASSUME NEW j \in Jobs, Reads(j) PROVE RoomIsTold'
  BY <1>10, JobsAssumption DEF Types, Staged, RoomIsTold, AtWork, Kinds, Ended, Reads, Kill
<1>11. ASSUME NEW j \in Jobs, Exits(j) PROVE RoomIsTold'
  BY <1>11, JobsAssumption DEF Types, Staged, RoomIsTold, AtWork, Kinds, Ended, Exits
<1>12. ASSUME NEW j \in Jobs, NEW ok \in BOOLEAN, Reports(j, ok) PROVE RoomIsTold'
  BY <1>12, JobsAssumption DEF Types, Staged, RoomIsTold, AtWork, Kinds, Ended, Reports
<1>13. CASE UNCHANGED vars
  BY <1>13, JobsAssumption DEF Types, Staged, RoomIsTold, AtWork, Kinds, Ended, vars
<1>14. QED
  BY <1>1, <1>2, <1>3, <1>4, <1>5, <1>6, <1>7, <1>8, <1>9, <1>10, <1>11, <1>12, <1>13,
     TaskSteps DEF Next, Goes

\* Every way out of a job that had a sample removes it.
LEMMA SampleStep ==
  ASSUME Types, Staged, Reported, SamplesAreRemoved, [Next]_vars
  PROVE  SamplesAreRemoved'
<1>1. ASSUME NEW j \in Jobs, NEW k \in Kinds, Start(j, k) PROVE SamplesAreRemoved'
  BY <1>1 DEF Types, Staged, SamplesAreRemoved, AtWork, Kinds, Start, Register, Busy
<1>2. ASSUME NEW j \in Jobs, EndAtOnce(j) PROVE SamplesAreRemoved'
  BY <1>2 DEF Types, Staged, SamplesAreRemoved, AtWork, Kinds, EndAtOnce, Busy
<1>3. ASSUME NEW j \in Jobs, Upload(j) PROVE SamplesAreRemoved'
  BY <1>3 DEF Types, Staged, SamplesAreRemoved, AtWork, Kinds, Upload
<1>4. ASSUME NEW j \in Jobs, Received(j) PROVE SamplesAreRemoved'
  BY <1>4 DEF Types, Staged, SamplesAreRemoved, AtWork, Kinds, Received, Register
<1>5. ASSUME NEW j \in Jobs, UploadFails(j) PROVE SamplesAreRemoved'
  BY <1>5 DEF Types, Staged, SamplesAreRemoved, AtWork, Kinds, UploadFails
<1>6. ASSUME NEW j \in Jobs, AddTarget(j) PROVE SamplesAreRemoved'
  BY <1>6 DEF Types, Staged, SamplesAreRemoved, AtWork, Kinds, AddTarget, Tell, Ended
<1>7. ASSUME NEW j \in Jobs, Superseded(j) PROVE SamplesAreRemoved'
  BY <1>7 DEF Types, Staged, SamplesAreRemoved, AtWork, Kinds, Superseded
<1>8. ASSUME NEW j \in Jobs, Spawn(j) PROVE SamplesAreRemoved'
  BY <1>8 DEF Types, Staged, SamplesAreRemoved, AtWork, Kinds, Spawn
<1>9. ASSUME NEW j \in Jobs, Closes(j) PROVE SamplesAreRemoved'
  BY <1>9 DEF Types, Staged, SamplesAreRemoved, AtWork, Kinds, Closes, EndsAs
<1>10. ASSUME NEW j \in Jobs, Reads(j) PROVE SamplesAreRemoved'
  BY <1>10 DEF Types, Staged, SamplesAreRemoved, AtWork, Kinds, Reads, Kill
<1>11. ASSUME NEW j \in Jobs, Exits(j) PROVE SamplesAreRemoved'
  BY <1>11 DEF Types, Staged, SamplesAreRemoved, AtWork, Kinds, Exits
<1>12. ASSUME NEW j \in Jobs, NEW ok \in BOOLEAN, Reports(j, ok) PROVE SamplesAreRemoved'
  BY <1>12 DEF Types, Staged, SamplesAreRemoved, AtWork, Kinds, Reports
<1>13. CASE UNCHANGED vars
  BY <1>13 DEF Types, Staged, SamplesAreRemoved, AtWork, Kinds, vars
<1>14. QED
  BY <1>1, <1>2, <1>3, <1>4, <1>5, <1>6, <1>7, <1>8, <1>9, <1>10, <1>11, <1>12, <1>13,
     TaskSteps DEF Next, Goes
-----------------------------------------------------------------------------
LEMMA InitIInv == Init => IInv
<1> SUFFICES ASSUME Init PROVE IInv  OBVIOUS
<1>1. Types /\ Staged /\ Current
  BY DEF Init, Types, Procs, Staged, Current, AtWork, Kinds
<1>2. Reported /\ FailureStands /\ RoomIsTold /\ SamplesAreRemoved
  BY JobsAssumption
     DEF Init, Reported, FailureStands, RoomIsTold, SamplesAreRemoved, Kinds, Ended
<1>3. QED  BY <1>1, <1>2 DEF IInv

\* IInv holds in every reachable state of any number of jobs.
THEOREM InductiveInvariant == Spec => []IInv
<1>1. IInv /\ [Next]_vars => IInv'
  BY TypesStep, StagedStep, CurrentStep, ReportedStep, FailureStep, ToldStep, SampleStep
     DEF IInv
<1>2. QED  BY InitIInv, <1>1, PTL DEF Spec

\* Types, and the server knows the gate and the warm-up that are at work (Start, EndAtOnce).
THEOREM TypeCorrect == Spec => []TypeOK
<1>1. IInv => TypeOK  BY DEF IInv, Types, Procs, Current, AtWork, TypeOK
<1>2. QED  BY InductiveInvariant, <1>1, PTL

\* A failed job is not reported as passed afterwards (Timeout, Drained, WriteFailure): a gate's
\* failure is written when nothing of it is left to write.
THEOREM FailuresStand == Spec => []FailureStands
<1>1. IInv => FailureStands  BY DEF IInv
<1>2. QED  BY InductiveInvariant, <1>1, PTL

\* The room is told and the sample removed, in whatever order requests and ends come
\* (AddTarget, End, Superseded, UploadFails).
THEOREM EndsAreComplete == Spec => []EndIsComplete
<1>1. IInv => EndIsComplete  BY DEF IInv, EndIsComplete
<1>2. QED  BY InductiveInvariant, <1>1, PTL
=============================================================================
