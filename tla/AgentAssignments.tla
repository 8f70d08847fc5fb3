-------------------------- MODULE AgentAssignments --------------------------
(***************************************************************************)
(* Tasks assigned to an agent from the dashboard (agents/service.py): they *)
(* are queued, dispatched to a run or to an external provider, cancelled,  *)
(* retried, marked by hand and cleared, while runs go on as in AgentRuns.  *)
(*                                                                         *)
(* Dispatching to a run waits for it inside the request: the assignment is *)
(* rewritten, from the copy taken before, when the run has ended.  An      *)
(* external provider is called synchronously and holds the event loop.     *)
(***************************************************************************)
EXTENDS AgentRuns, FiniteSets

CONSTANTS Assignments, \* the assignments that may be created
          None,        \* no run, no assignment
          ByHand       \* whether teammates mark assignments by hand

ASSUME AssignmentsAssumption ==
  None \notin Assignments \cup Runs /\ ByHand \in BOOLEAN

Terminal == {"completed", "failed", "cancelled"}
Marks    == {"queued", "running"} \cup Terminal   \* AgentAssignmentStatus
Kinds    == {"internal", "external"}

VARIABLES
  asg,      \* status of each assignment in the store
  kind,     \* agent_kind
  runId,    \* run_id: the run whose end was recorded
  serves,   \* serves[r]: the assignment whose request waits for run r
  calling,  \* the assignment whose external provider is being called
  marked,   \* history: assignments marked by hand
  outcome   \* history: the status of its run when an assignment was rewritten

asgVars == <<asg, kind, runId, serves, calling, marked, outcome>>
vars    == <<runVars, asgVars>>

Init ==
  /\ RunsInit
  /\ asg = [i \in Assignments |-> "absent"]
  /\ kind = [i \in Assignments |-> "internal"]
  /\ runId = [i \in Assignments |-> None]
  /\ serves = [r \in Runs |-> None]
  /\ calling = None /\ marked = {}
  /\ outcome = [i \in Assignments |-> "none"]

\* The run has ended and its request goes on without giving up the loop.
Reporting(r) == serves[r] # None /\ pc[r] = "none"
Busy == calling # None \/ \E r \in Runs : Reporting(r)
Free == ~ Busy /\ ~ Held
Mark(i, s) == asg' = [asg EXCEPT ![i] = s]
-----------------------------------------------------------------------------
\* create_assignment, and retry_assignment, which leaves the old one alone.
Create(i) ==
  /\ Free /\ asg[i] = "absent"
  /\ Mark(i, "queued")
  /\ \E k \in Kinds : kind' = [kind EXCEPT ![i] = k]
  /\ UNCHANGED <<runVars, runId, serves, calling, marked, outcome>>

Retry(i, j) ==
  /\ Free /\ asg[i] \in Terminal /\ asg[j] = "absent"
  /\ Mark(j, "queued") /\ kind' = [kind EXCEPT ![j] = kind[i]]
  /\ UNCHANGED <<runVars, runId, serves, calling, marked, outcome>>

\* Mutant: an assignment that is running can be dispatched again.
DispatchAgain(i, r) ==
  /\ Free /\ asg[i] \in {"queued", "running"} /\ kind[i] = "internal"
  /\ Mark(i, "running")
  /\ StartRun(r) /\ r \notin background'
  /\ serves' = [serves EXCEPT ![r] = i]
  /\ UNCHANGED <<kind, runId, calling, marked, outcome>>

\* dispatch_assignment to a run that the request starts and waits for.
Dispatch(i, r) ==
  /\ Free /\ asg[i] = "queued" /\ kind[i] = "internal"
  /\ Mark(i, "running")
  /\ StartRun(r) /\ r \notin background'
  /\ serves' = [serves EXCEPT ![r] = i]
  /\ UNCHANGED <<kind, runId, calling, marked, outcome>>

\* Mutant: only a failed run fails its assignment.
ReportUnlessFailed(r) ==
  /\ Reporting(r) /\ calling = None
  /\ LET i == serves[r] IN
       /\ Mark(i, IF status[r] = "failed" THEN "failed" ELSE "completed")
       /\ runId' = [runId EXCEPT ![i] = r]
       /\ outcome' = [outcome EXCEPT ![i] = status[r]]
  /\ serves' = [serves EXCEPT ![r] = None]
  /\ UNCHANGED <<runVars, kind, calling, marked>>

\* dispatch_assignment when the run has ended: the copy taken before the wait
\* is written back, over a cancellation and after a clearing too.
Report(r) ==
  /\ Reporting(r) /\ calling = None
  /\ LET i == serves[r] IN
       /\ Mark(i, IF status[r] \in {"completed", "recovered"} THEN "completed" ELSE "failed")
       /\ runId' = [runId EXCEPT ![i] = r]
       /\ outcome' = [outcome EXCEPT ![i] = status[r]]
  /\ serves' = [serves EXCEPT ![r] = None]
  /\ UNCHANGED <<runVars, kind, calling, marked>>

\* _dispatch_external_assignment: no provider, no preflight or an exception
\* fail it, anything else completes it.
CallProvider(i) ==
  /\ Free /\ asg[i] = "queued" /\ kind[i] = "external"
  /\ Mark(i, "running")
  /\ calling' = i
  /\ UNCHANGED <<runVars, kind, runId, serves, marked, outcome>>

FinishCall(i) ==
  /\ calling = i
  /\ Mark(i, "completed") \/ Mark(i, "failed")
  /\ calling' = None
  /\ UNCHANGED <<runVars, kind, runId, serves, marked, outcome>>

\* cancel_assignment.  It would cancel the run as well, but run_id is only
\* stored when the run has ended, and cancel_run leaves such a run alone.
Cancel(i) ==
  /\ Free /\ asg[i] \in {"queued", "running"}
  /\ Mark(i, "cancelled")
  /\ UNCHANGED <<runVars, kind, runId, serves, calling, marked, outcome>>

\* update_assignment_status: any status, from any other.
SetByHand(i) ==
  /\ ByHand /\ Free /\ asg[i] \in Marks
  /\ \E s \in Marks : Mark(i, s)
  /\ marked' = marked \cup {i}
  /\ UNCHANGED <<runVars, kind, runId, serves, calling, outcome>>

\* clear_completed_assignments
Clear ==
  /\ Free /\ \E i \in Assignments : asg[i] \in Terminal
  /\ asg' = [i \in Assignments |-> IF asg[i] \in Terminal THEN "cleared" ELSE asg[i]]
  /\ UNCHANGED <<runVars, kind, runId, serves, calling, marked, outcome>>

RunStep ==
  /\ ~ Busy
  /\ \E r \in Runs : StartRun(r) \/ CancelRun(r) \/ Advance(r)
  /\ UNCHANGED asgVars

\* Assignments are read back as they were left; runs are recovered.
Restart ==
  /\ Crash \/ (~ Busy /\ Shutdown)
  /\ serves' = [r \in Runs |-> None] /\ calling' = None
  /\ UNCHANGED <<asg, kind, runId, marked, outcome>>

Next ==
  \/ \E i \in Assignments :
       \/ Create(i) \/ CallProvider(i) \/ FinishCall(i) \/ Cancel(i) \/ SetByHand(i)
       \/ \E j \in Assignments : Retry(i, j)
       \/ \E r \in Runs : Dispatch(i, r)
  \/ \E r \in Runs : Report(r)
  \/ Clear \/ RunStep \/ Restart

\* The loop's queue of ready coroutines is first in, first out: requests that
\* hold the loop again and again do not keep a run from its turn.
Fairness ==
  /\ \A r \in Runs : /\ SF_vars(~ Busy /\ Advance(r) /\ UNCHANGED asgVars)
                     /\ WF_vars(Report(r))
  /\ \A i \in Assignments : WF_vars(FinishCall(i))
Spec == Init /\ [][Next]_vars /\ Fairness
-----------------------------------------------------------------------------
\* Every variable of this module ranges over what the code can store in it.
AssignmentsTypeOK ==
  /\ asg \in [Assignments -> Marks \cup {"absent", "cleared"}]
  /\ kind \in [Assignments -> Kinds] /\ runId \in [Assignments -> Runs \cup {None}]
  /\ serves \in [Runs -> Assignments \cup {None}]
  /\ calling \in Assignments \cup {None} /\ marked \subseteq Assignments
  /\ outcome \in [Assignments -> {"none"} \cup (Statuses \ {"absent", "running", "recovered"})]

\* One run at a time works for an assignment that nobody put back in the
\* queue by hand, however it is cancelled, cleared and retried meanwhile.
OneRunEach ==
  \A i \in Assignments \ marked :
    /\ Cardinality({r \in Runs : serves[r] = i}) <= 1
    /\ runId[i] # None => \A r \in Runs : serves[r] # i

\* The run an assignment names has ended, as the assignment's status says:
\* completed only if the run completed.
AgreesWithItsRun ==
  \A i \in Assignments :
    /\ runId[i] # None => pc[runId[i]] = "none" /\ status[runId[i]] = outcome[i]
    /\ runId[i] # None /\ i \notin marked =>
         \/ asg[i] = "cleared"
         \/ asg[i] = IF outcome[i] = "completed" THEN "completed" ELSE "failed"
=============================================================================
