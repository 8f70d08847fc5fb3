------------------------------ MODULE AgentRuns ------------------------------
(***************************************************************************)
(* The life of a multi-agent run (agents/service.py, agents/store.py):     *)
(* started in the background or by a request that waits for it, cancelled, *)
(* timed out, out of budget, recovered after a restart.                    *)
(*                                                                         *)
(* A run is a coroutine on the one event loop.  It gives the loop up at    *)
(* three awaits - the debug delay, the planner, the specialist - and is    *)
(* atomic between two of them; `pc` is the await it stands at.  Between    *)
(* add_action and the write of the run record it does not give the loop up *)
(* ("proposed"), but the process may die there.                            *)
(***************************************************************************)
EXTENDS Naturals

CONSTANTS Runs,      \* the runs that may be started
          Routes,    \* the routes the words of a prompt may choose
          Budgets,   \* the step budgets a request may ask for
          Crashes    \* whether the process may die or be stopped

ASSUME RunsAssumption ==
  /\ Routes \subseteq {"meeting_memory", "read_only_code", "meeting_patch_closure", "general"}
  /\ Budgets \subseteq Nat \ {0}
  /\ Crashes \in BOOLEAN

Endings  == {"completed", "failed", "timed_out", "budget_exhausted", "recovered"}
Statuses == {"absent", "running", "cancelled"} \cup Endings
Awaits   == {"starting", "planning", "working"}
Live     == Awaits \cup {"proposed"}

VARIABLES
  status,     \* status of each run in the store
  route,      \* chosen by _route_prompt from the words of the prompt
  maxSteps,   \* control.max_steps
  background, \* runs started as a task of their own
  pc,         \* where the coroutine of the run stands
  steps,      \* how many steps the coroutine has completed
  flagged,    \* keys of _cancelled
  killed,     \* tasks that were cancelled and have not yet noticed
  actions,    \* runs whose patch is a pending action in the room
  linked      \* runs whose record names that action

request == <<route, maxSteps, background>>
runVars == <<status, request, pc, steps, flagged, killed, actions, linked>>

RunsInit ==
  /\ status = [r \in Runs |-> "absent"] /\ pc = [r \in Runs |-> "none"]
  /\ route = [r \in Runs |-> "general"] /\ maxSteps = [r \in Runs |-> 1]
  /\ steps = [r \in Runs |-> 0]
  /\ background = {} /\ flagged = {} /\ killed = {} /\ actions = {} /\ linked = {}
-----------------------------------------------------------------------------
(* _check_control                                                          *)
\* Mutant: one step more than the budget.
ExhaustedLate(r, n) == n > maxSteps[r]

Exhausted(r, n) == n >= maxSteps[r]

\* Mutant: a check looks at the budget only.
PassesBudget(r, n) == ~ Exhausted(r, n)

\* The checks made after lo, lo + 1, ..., n steps let the run go on.
Passes(r, n) == r \notin flagged /\ ~ Exhausted(r, n)

\* What a check after n steps may raise: time may have run out at any of them.
Raises(r, n) ==
  IF r \in flagged THEN {"cancelled"}
  ELSE {"timed_out"} \cup (IF Exhausted(r, n) THEN {"budget_exhausted"} ELSE {})

\* _run_and_finalize stores the run under its last status.
End(r, s, n) ==
  /\ status' = [status EXCEPT ![r] = s]
  /\ pc' = [pc EXCEPT ![r] = "none"]
  /\ steps' = [steps EXCEPT ![r] = n]
  /\ UNCHANGED <<request, flagged, killed>>

\* One of the checks after lo .. hi steps stops the run.
Stop(r, lo, hi) ==
  \E n \in lo..hi :
    /\ n = lo \/ Passes(r, n - 1)
    /\ \E s \in Raises(r, n) : End(r, s, n)

Await(r, label, n) ==
  /\ pc' = [pc EXCEPT ![r] = label]
  /\ steps' = [steps EXCEPT ![r] = n]
  /\ UNCHANGED <<status, request, flagged, killed>>
-----------------------------------------------------------------------------
\* A coroutine that holds the loop lets nothing else run.
Held == \E r \in Runs : pc[r] = "proposed"
Turn(r, label) == ~ Held /\ pc[r] = label /\ r \notin killed

StartRun(r) ==
  /\ ~ Held
  /\ status[r] = "absent"
  /\ status' = [status EXCEPT ![r] = "running"]
  /\ pc' = [pc EXCEPT ![r] = "starting"]
  /\ \E w \in Routes : route' = [route EXCEPT ![r] = w]
  /\ \E m \in Budgets : maxSteps' = [maxSteps EXCEPT ![r] = m]
  /\ background' \in {background, background \cup {r}}
  /\ UNCHANGED <<steps, flagged, killed, actions, linked>>

\* _execute, up to the call of the planner.
BeginPlanning(r) ==
  /\ Turn(r, "starting")
  /\ Stop(r, 0, 0) \/ (Passes(r, 0) /\ Await(r, "planning", 0))
  /\ UNCHANGED <<actions, linked>>

\* The plan has come: one step, and two more on the patch route.
StepsBeforeWork(r) == IF route[r] = "meeting_patch_closure" THEN 3 ELSE 1
BeginWork(r) ==
  /\ Turn(r, "planning") /\ route[r] # "general"
  /\ LET n == StepsBeforeWork(r) IN
       Stop(r, 1, n) \/ (Passes(r, n) /\ Await(r, "working", n))
  /\ UNCHANGED <<actions, linked>>

\* The general route has no specialist and no check after its second step.
EndGeneral(r) ==
  /\ Turn(r, "planning") /\ route[r] = "general"
  /\ Stop(r, 1, 1) \/ (Passes(r, 1) /\ End(r, "completed", 2))
  /\ UNCHANGED <<actions, linked>>

\* The memory route checks before its last step, the read-only one does not.
EndAnswer(r) ==
  /\ Turn(r, "working")
  /\ \/ /\ route[r] = "meeting_memory"
        /\ Stop(r, 1, 2) \/ (Passes(r, 2) /\ End(r, "completed", 2))
     \/ /\ route[r] = "read_only_code"
        /\ Stop(r, 2, 3) \/ (Passes(r, 3) /\ End(r, "completed", 3))
  /\ UNCHANGED <<actions, linked>>
-----------------------------------------------------------------------------
(* _patch_closure_run after the orchestrator answered: code is step 4,     *)
(* review 5, a revision adds two, then test and git.                       *)
PatchStopped(r) ==
  /\ Turn(r, "working") /\ route[r] = "meeting_patch_closure"
  /\ \/ Stop(r, 4, 6)
     \/ Stop(r, 4, 8)                               \* revised
     \/ End(r, "failed", 4)                         \* no workspace, no check
     \/ Passes(r, 5) /\ End(r, "failed", 5)         \* review blocked it
     \/ \E n \in {6, 8} : Passes(r, n) /\ End(r, "failed", n)  \* tests failed
  /\ UNCHANGED <<actions, linked>>

ProposePatch(r) ==
  /\ Turn(r, "working") /\ route[r] = "meeting_patch_closure"
  /\ \E n \in {6, 8} : Passes(r, n) /\ Await(r, "proposed", n + 1)
  /\ actions' = actions \cup {r}
  /\ UNCHANGED linked

\* Mutant: the record of the run does not take the action's id.
EndPatchUnlinked(r) ==
  /\ pc[r] = "proposed"
  /\ LET n == steps[r] IN Stop(r, n, n) \/ (Passes(r, n) /\ End(r, "completed", n))
  /\ UNCHANGED <<actions, linked>>

EndPatch(r) ==
  /\ pc[r] = "proposed"
  /\ LET n == steps[r] IN Stop(r, n, n) \/ (Passes(r, n) /\ End(r, "completed", n))
  /\ linked' = linked \cup {r}
  /\ UNCHANGED actions

\* Mutant: the exception leaves the coroutine and nothing is stored.
RunFailsSilently(r) ==
  /\ \E label \in Awaits : Turn(r, label)
  /\ pc' = [pc EXCEPT ![r] = "none"]
  /\ UNCHANGED <<status, request, steps, flagged, killed, actions, linked>>

\* Any exception but a control error: the record keeps no step.
RunFails(r) ==
  /\ \E label \in Awaits : Turn(r, label)
  /\ End(r, "failed", 0)
  /\ UNCHANGED <<actions, linked>>
-----------------------------------------------------------------------------
(* cancel_run                                                              *)
\* Mutant: a run that has ended can be cancelled.
CancelEnded(r) ==
  /\ ~ Held
  /\ status[r] # "absent"
  /\ flagged' = flagged \cup {r}
  /\ killed' = IF r \in background THEN killed \cup {r} ELSE killed
  /\ status' = [status EXCEPT ![r] = "cancelled"]
  /\ UNCHANGED <<request, pc, steps, actions, linked>>

CancelRun(r) ==
  /\ ~ Held
  /\ status[r] = "running"
  /\ flagged' = flagged \cup {r}
  /\ killed' = IF r \in background THEN killed \cup {r} ELSE killed
  /\ status' = [status EXCEPT ![r] = "cancelled"]
  /\ UNCHANGED <<request, pc, steps, actions, linked>>

\* The CancelledError reaches the coroutine at its await.
Unwind(r) ==
  /\ ~ Held /\ r \in killed /\ pc[r] \in Awaits
  /\ End(r, IF status[r] = "running" THEN "cancelled" ELSE status[r], steps[r])
  /\ UNCHANGED <<actions, linked>>

\* Mutant: the store is read as it was left.
RecoverNothing(st) == st
Recover(st) == [r \in Runs |-> IF st[r] = "running" THEN "recovered" ELSE st[r]]
Forget ==
  /\ pc' = [r \in Runs |-> "none"] /\ flagged' = {} /\ killed' = {}
  /\ UNCHANGED <<request, steps, actions, linked>>

\* The process dies; the next one finds its runs still marked running.
Crash == Crashes /\ status' = Recover(status) /\ Forget

\* The server is stopped: asyncio cancels the tasks that are left, and those
\* that had begun to run store the cancellation.
Shutdown ==
  /\ Crashes /\ ~ Held
  /\ \E begun \in SUBSET {r \in Runs : pc[r] \in Awaits} :
       /\ \A r \in Runs : pc[r] \in {"planning", "working"} => r \in begun
       /\ status' = Recover([r \in Runs |-> IF r \in begun /\ status[r] = "running"
                                            THEN "cancelled" ELSE status[r]])
  /\ Forget

Advance(r) == \/ BeginPlanning(r) \/ BeginWork(r) \/ EndGeneral(r) \/ EndAnswer(r)
              \/ PatchStopped(r) \/ ProposePatch(r) \/ EndPatch(r) \/ RunFails(r)
              \/ Unwind(r)
RunsNext == (\E r \in Runs : StartRun(r) \/ CancelRun(r) \/ Advance(r)) \/ Crash \/ Shutdown

\* The event loop runs what is ready, and every provider call ends: the
\* clients give up after their timeouts (llm/providers.py).
RunsFairness == \A r \in Runs : WF_runVars(Advance(r))
RunsSafety == RunsInit /\ [][RunsNext]_runVars
RunsSpec == RunsSafety /\ RunsFairness
-----------------------------------------------------------------------------
\* Every variable ranges over what the code can store in it.
TypeOK ==
  /\ status \in [Runs -> Statuses] /\ pc \in [Runs -> Live \cup {"none"}]
  /\ route \in [Runs -> Routes \cup {"general"}] /\ maxSteps \in [Runs -> Budgets \cup {1}]
  /\ steps \in [Runs -> 0..9]
  /\ background \subseteq Runs /\ flagged \subseteq Runs /\ killed \subseteq background
  /\ actions \subseteq Runs /\ linked \subseteq Runs

\* A run ends once.  Only a cancelled one may still turn to failed, when the
\* coroutine of a waiting request fails before it sees the flag.
EndingsAreFinal ==
  [][\A r \in Runs :
       /\ status[r] \in Endings => status'[r] = status[r]
       /\ status[r] = "cancelled" => status'[r] \in {"cancelled", "failed"}]_runVars

\* No orphan: a run marked running has a coroutine that will end it, also
\* after a restart, and one that ended on its own has none.
RunningIsLive ==
  \A r \in Runs : /\ status[r] = "running" => pc[r] \in Live
                  /\ status[r] \in Endings => pc[r] = "none"

\* A cancelled run proposes no patch, whatever it was awaiting when the
\* cancellation came.
CancelledProposesNothing ==
  [][\A r \in Runs : status[r] = "cancelled" /\ r \in actions' => r \in actions]_runVars

\* A pending action is named by the record of its run, unless the process
\* died between the two stores; a failed or cancelled run leaves none.
ProposalsAreAudited ==
  \A r \in actions :
    /\ status[r] \in {"running", "completed", "timed_out", "budget_exhausted", "recovered"}
    /\ status[r] \in {"completed", "timed_out", "budget_exhausted"} <=> r \in linked

\* A run never takes more steps than its budget (the checks of _execute).
WithinBudget == \A r \in Runs : steps[r] <= maxSteps[r]

\* Every run that is started ends.
RunsEnd == \A r \in Runs : status[r] = "running" ~> status[r] # "running"
=============================================================================
