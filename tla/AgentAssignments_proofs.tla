----------------------- MODULE AgentAssignments_proofs -----------------------
(***************************************************************************)
(* Proofs about AgentRuns and AgentAssignments, for any runs, routes,      *)
(* budgets and assignments, with or without crashes.                       *)
(*                                                                         *)
(* First the runs alone, of which AgentAssignments is an extension: every  *)
(* step of a run's coroutine either goes on to its next await or ends the  *)
(* run (GoesOn, Ends); LEMMA AdvanceCases sorts the actions, and the other *)
(* lemmas only meet the kinds it names.  Then the assignments: runs behave *)
(* as before whatever is done to assignments, so that every theorem about  *)
(* RunsSafety holds there too, and an assignment agrees with the run it    *)
(* names.                                                                  *)
(***************************************************************************)
EXTENDS AgentAssignments, TLAPS, FiniteSetTheorems
-----------------------------------------------------------------------------
(* The runs.                                                               *)

\* A coroutine belongs to a run that is running, or cancelled and flagged.
Flagged ==
  \A r \in Runs :
    /\ pc[r] \in Live => status[r] \in {"running", "cancelled"}
    /\ pc[r] \in Live /\ status[r] = "cancelled" => r \in flagged
    /\ r \in flagged => status[r] \notin {"absent", "running"}

\* What a coroutine has left of its budget at each of its awaits.
Budgeted ==
  /\ WithinBudget
  /\ \A r \in Runs :
       /\ status[r] = "absent" => steps[r] = 0
       /\ pc[r] = "planning" => 1 <= maxSteps[r]
       /\ pc[r] = "working" => StepsBeforeWork(r) + 1 <= maxSteps[r]

\* Only a coroutine that holds the loop has proposed and not yet ended.
Proposed ==
  \A r \in Runs :
    /\ pc[r] = "proposed" => status[r] = "running" /\ r \in actions
    /\ r \in actions /\ pc[r] \in Live => pc[r] = "proposed"
    /\ r \in linked => r \in actions

IInv == TypeOK /\ RunningIsLive /\ Flagged /\ Budgeted /\ Proposed /\ ProposalsAreAudited
-----------------------------------------------------------------------------
(* The kinds of steps.                                                     *)

\* The coroutine of r ends, the run is stored under status s after n steps.
Ends(r, s, n) ==
  /\ pc[r] \in Live /\ End(r, s, n)
  /\ s \in {"completed", "failed", "timed_out", "budget_exhausted", "cancelled"}
  /\ n \in 0..9 /\ n <= maxSteps[r]
  /\ status[r] = "cancelled" => s \in {"cancelled", "failed"}
  /\ \/ pc[r] \in Awaits /\ UNCHANGED <<actions, linked>>
     \/ /\ pc[r] = "proposed" /\ s \in {"completed", "timed_out", "budget_exhausted"}
        /\ actions' = actions /\ linked' = linked \cup {r}

\* The coroutine of r passes its checks and stands at another await.
GoesOn(r, label, n) ==
  /\ pc[r] \in Awaits /\ Await(r, label, n) /\ r \notin flagged
  /\ n \in 0..9 /\ n <= maxSteps[r]
  /\ linked' = linked
  /\ \/ label = "planning" /\ 1 <= maxSteps[r] /\ actions' = actions
     \/ label = "working" /\ StepsBeforeWork(r) + 1 <= maxSteps[r] /\ actions' = actions
     \/ label = "proposed" /\ actions' = actions \cup {r}

\* The next process reads the runs back: those that were marked running are
\* cancelled if the server could stop them, recovered otherwise.
Restarts ==
  /\ Forget
  /\ \E begun \in SUBSET {r \in Runs : pc[r] \in Awaits} :
       status' = [r \in Runs |-> IF status[r] # "running" THEN status[r]
                                 ELSE IF r \in begun THEN "cancelled" ELSE "recovered"]

\* Budgets are positive integers (AgentRunRequest in agents/models.py).
LEMMA BudgetsAreCounts ==
  ASSUME TypeOK
  PROVE  \A r \in Runs : maxSteps[r] \in Nat /\ 1 <= maxSteps[r]
<1>1. Budgets \subseteq Nat \ {0}
  BY RunsAssumption DEF RunsAssumption
<1>2. ASSUME NEW r \in Runs PROVE maxSteps[r] \in Budgets \cup {1}
  BY TypeOK DEF TypeOK
<1>3. ASSUME NEW m \in Budgets \cup {1} PROVE m \in Nat /\ 1 <= m
  BY <1>1
<1>4. QED  BY <1>2, <1>3

\* A check that stops a run does it within the budget, and says why.
LEMMA StopReason ==
  ASSUME TypeOK, NEW r \in Runs, NEW lo \in 0..9, NEW hi \in 0..9,
         lo <= maxSteps[r], Stop(r, lo, hi)
  PROVE  \E n \in 0..9 :
           /\ n <= maxSteps[r]
           /\ \/ r \in flagged /\ End(r, "cancelled", n)
              \/ r \notin flagged /\ End(r, "timed_out", n)
              \/ r \notin flagged /\ End(r, "budget_exhausted", n)
<1>1. maxSteps[r] \in Nat
  BY BudgetsAreCounts
<1>2. PICK n \in lo..hi : /\ n = lo \/ Passes(r, n - 1)
                          /\ \E s \in Raises(r, n) : End(r, s, n)
  BY DEF Stop
<1>3. n \in 0..9 /\ n <= maxSteps[r]
  BY <1>1, <1>2 DEF Passes, Exhausted
<1>4. PICK s \in Raises(r, n) : End(r, s, n)
  BY <1>2
<1>5. \/ r \in flagged /\ s = "cancelled"
      \/ r \notin flagged /\ s \in {"timed_out", "budget_exhausted"}
  BY <1>4 DEF Raises
<1>6. QED  BY <1>3, <1>4, <1>5

\* So a coroutine stopped at an await by a check has ended its run.
LEMMA StopEnds ==
  ASSUME TypeOK, Flagged, NEW r \in Runs, NEW lo \in 0..9, NEW hi \in 0..9,
         lo <= maxSteps[r], Stop(r, lo, hi), pc[r] \in Awaits, UNCHANGED <<actions, linked>>
  PROVE  \E s, n : Ends(r, s, n)
<1>1. PICK n \in 0..9 :
        /\ n <= maxSteps[r]
        /\ \/ r \in flagged /\ End(r, "cancelled", n)
           \/ r \notin flagged /\ End(r, "timed_out", n)
           \/ r \notin flagged /\ End(r, "budget_exhausted", n)
  BY StopReason
<1>2. pc[r] \in Live /\ (status[r] = "cancelled" => r \in flagged)
  BY DEF Live, Flagged
<1>3. CASE r \in flagged /\ End(r, "cancelled", n)
  <2>1. Ends(r, "cancelled", n)  BY <1>1, <1>2, <1>3 DEF Ends
  <2>2. QED  BY <2>1
<1>4. CASE r \notin flagged /\ End(r, "timed_out", n)
  <2>1. Ends(r, "timed_out", n)  BY <1>1, <1>2, <1>4 DEF Ends
  <2>2. QED  BY <2>1
<1>5. CASE r \notin flagged /\ End(r, "budget_exhausted", n)
  <2>1. Ends(r, "budget_exhausted", n)  BY <1>1, <1>2, <1>5 DEF Ends
  <2>2. QED  BY <2>1
<1>6. QED  BY <1>1, <1>3, <1>4, <1>5

\* A check that lets the run go on leaves it a step.
LEMMA PassesLeavesAStep ==
  ASSUME TypeOK, NEW r \in Runs, NEW n \in 0..9, Passes(r, n)
  PROVE  r \notin flagged /\ n + 1 <= maxSteps[r]
BY BudgetsAreCounts DEF Passes, Exhausted

\* The same for a run that ends with its route.
LEMMA PassesEnds ==
  ASSUME TypeOK, Flagged, NEW r \in Runs, NEW n \in 0..8, NEW m \in {n, n + 1},
         NEW s \in {"completed", "failed"}, Passes(r, n), End(r, s, m), pc[r] \in Awaits,
         UNCHANGED <<actions, linked>>
  PROVE  \E t, k : Ends(r, t, k)
<1>1. r \notin flagged /\ n + 1 <= maxSteps[r] /\ maxSteps[r] \in Nat
  BY PassesLeavesAStep, BudgetsAreCounts
<1>2. m \in 0..9 /\ m <= maxSteps[r]
  BY <1>1
<1>3. pc[r] \in Live /\ status[r] # "cancelled"
  BY <1>1 DEF Live, Flagged
<1>4. Ends(r, s, m)
  BY <1>2, <1>3 DEF Ends
<1>5. QED  BY <1>4

\* Every step of a coroutine ends its run or goes on within its budget.
LEMMA AdvanceCases ==
  ASSUME TypeOK, Flagged, Budgeted, Proposed, NEW r \in Runs, Advance(r)
  PROVE  (\E s, n : Ends(r, s, n)) \/ (\E label, n : GoesOn(r, label, n))
<1>1. CASE BeginPlanning(r)
  <2>1. pc[r] \in Awaits /\ UNCHANGED <<actions, linked>> /\ 0 <= maxSteps[r]
    BY <1>1, BudgetsAreCounts DEF BeginPlanning, Turn, Awaits
  <2>2. CASE Stop(r, 0, 0)
    BY <2>1, <2>2, StopEnds
  <2>3. CASE Passes(r, 0) /\ Await(r, "planning", 0)
    <3>1. GoesOn(r, "planning", 0)
      BY <2>1, <2>3, BudgetsAreCounts, PassesLeavesAStep DEF GoesOn
    <3>2. QED  BY <3>1
  <2>4. QED  BY <1>1, <2>2, <2>3 DEF BeginPlanning
<1>2. CASE BeginWork(r)
  <2>1. pc[r] \in Awaits /\ UNCHANGED <<actions, linked>> /\ 1 <= maxSteps[r]
    BY <1>2, BudgetsAreCounts DEF BeginWork, Turn, Awaits
  <2>2. StepsBeforeWork(r) \in 0..8
    BY DEF StepsBeforeWork
  <2>3. CASE Stop(r, 1, StepsBeforeWork(r))
    BY <2>1, <2>2, <2>3, StopEnds
  <2>4. CASE Passes(r, StepsBeforeWork(r)) /\ Await(r, "working", StepsBeforeWork(r))
    <3>1. r \notin flagged /\ StepsBeforeWork(r) + 1 <= maxSteps[r]
      BY <2>2, <2>4, PassesLeavesAStep
    <3>2. maxSteps[r] \in Nat
      BY BudgetsAreCounts
    <3>3. StepsBeforeWork(r) \in 0..9 /\ StepsBeforeWork(r) <= maxSteps[r]
      BY <2>2, <3>1, <3>2
    <3>4. GoesOn(r, "working", StepsBeforeWork(r))
      BY <2>1, <2>4, <3>1, <3>3 DEF GoesOn
    <3>5. QED  BY <3>4
  <2>5. QED  BY <1>2, <2>3, <2>4 DEF BeginWork
<1>3. CASE EndGeneral(r)
  <2>1. pc[r] \in Awaits /\ UNCHANGED <<actions, linked>> /\ 1 <= maxSteps[r]
    BY <1>3, BudgetsAreCounts DEF EndGeneral, Turn, Awaits
  <2>2. CASE Stop(r, 1, 1)
    BY <2>1, <2>2, StopEnds
  <2>3. CASE Passes(r, 1) /\ End(r, "completed", 2)
    BY <2>1, <2>3, PassesEnds
  <2>4. QED  BY <1>3, <2>2, <2>3 DEF EndGeneral
<1>4. CASE EndAnswer(r)
  <2>1. pc[r] \in Awaits /\ UNCHANGED <<actions, linked>> /\ 2 <= maxSteps[r]
    BY <1>4 DEF EndAnswer, Turn, Awaits, Budgeted, StepsBeforeWork
  <2>2. maxSteps[r] \in Nat
    BY BudgetsAreCounts
  <2>3. CASE Stop(r, 1, 2)
    BY <2>1, <2>2, <2>3, StopEnds
  <2>4. CASE Passes(r, 2) /\ End(r, "completed", 2)
    BY <2>1, <2>4, PassesEnds
  <2>5. CASE Stop(r, 2, 3)
    BY <2>1, <2>2, <2>5, StopEnds
  <2>6. CASE Passes(r, 3) /\ End(r, "completed", 3)
    BY <2>1, <2>6, PassesEnds
  <2>7. QED  BY <1>4, <2>3, <2>4, <2>5, <2>6 DEF EndAnswer
<1>5. CASE PatchStopped(r)
  <2>1. pc[r] \in Awaits /\ UNCHANGED <<actions, linked>> /\ 4 <= maxSteps[r]
    BY <1>5 DEF PatchStopped, Turn, Awaits, Budgeted, StepsBeforeWork
  <2>2. maxSteps[r] \in Nat
    BY BudgetsAreCounts
  <2>3. CASE Stop(r, 4, 6)
    BY <2>1, <2>2, <2>3, StopEnds
  <2>4. CASE Stop(r, 4, 8)
    BY <2>1, <2>2, <2>4, StopEnds
  <2>5. CASE End(r, "failed", 4)
    <3>1. Ends(r, "failed", 4)
      BY <2>1, <2>5 DEF Ends, Live
    <3>2. QED  BY <3>1
  <2>6. CASE Passes(r, 5) /\ End(r, "failed", 5)
    BY <2>1, <2>6, PassesEnds
  <2>7. CASE \E n \in {6, 8} : Passes(r, n) /\ End(r, "failed", n)
    BY <2>1, <2>7, PassesEnds
  <2>8. QED  BY <1>5, <2>3, <2>4, <2>5, <2>6, <2>7 DEF PatchStopped
<1>6. CASE ProposePatch(r)
  <2>1. pc[r] \in Awaits /\ actions' = actions \cup {r} /\ linked' = linked
    BY <1>6 DEF ProposePatch, Turn, Awaits
  <2>2. PICK n \in {6, 8} : Passes(r, n) /\ Await(r, "proposed", n + 1)
    BY <1>6 DEF ProposePatch
  <2>3. r \notin flagged /\ n + 1 <= maxSteps[r]
    BY <2>2, PassesLeavesAStep
  <2>4. GoesOn(r, "proposed", n + 1)
    BY <2>1, <2>2, <2>3 DEF GoesOn
  <2>5. QED  BY <2>4
<1>7. CASE EndPatch(r)
  <2>1. /\ pc[r] = "proposed" /\ steps[r] \in 0..9 /\ steps[r] <= maxSteps[r]
        /\ r \notin flagged /\ status[r] = "running"
    BY <1>7 DEF EndPatch, TypeOK, Budgeted, WithinBudget, Proposed, Flagged
  <2>2. \E s \in {"completed", "timed_out", "budget_exhausted"}, n \in 0..9 :
          End(r, s, n) /\ n <= maxSteps[r]
    <3>1. CASE Stop(r, steps[r], steps[r])
      BY <2>1, <3>1, StopReason
    <3>2. CASE End(r, "completed", steps[r])
      BY <2>1, <3>2
    <3>3. QED  BY <1>7, <3>1, <3>2 DEF EndPatch
  <2>3. PICK s \in {"completed", "timed_out", "budget_exhausted"}, n \in 0..9 :
          End(r, s, n) /\ n <= maxSteps[r]
    BY <2>2
  <2>4. Ends(r, s, n)
    BY <1>7, <2>1, <2>3 DEF EndPatch, Ends, Live
  <2>5. QED  BY <2>4
<1>8. CASE RunFails(r)
  <2>1. pc[r] \in Awaits /\ UNCHANGED <<actions, linked>> /\ 0 <= maxSteps[r]
    BY <1>8, BudgetsAreCounts DEF RunFails, Turn, Awaits
  <2>2. Ends(r, "failed", 0)
    BY <1>8, <2>1 DEF RunFails, Ends, Live
  <2>3. QED  BY <2>2
<1>9. CASE Unwind(r)
  <2>1. /\ pc[r] \in Awaits /\ UNCHANGED <<actions, linked>>
        /\ steps[r] \in 0..9 /\ steps[r] <= maxSteps[r]
        /\ pc[r] \in Live /\ status[r] \in {"running", "cancelled"}
    BY <1>9 DEF Unwind, Live, TypeOK, Budgeted, WithinBudget, Flagged
  <2>2. End(r, "cancelled", steps[r])
    BY <1>9, <2>1 DEF Unwind
  <2>3. Ends(r, "cancelled", steps[r])
    BY <2>1, <2>2 DEF Ends
  <2>4. QED  BY <2>3
<1>10. QED
  BY <1>1, <1>2, <1>3, <1>4, <1>5, <1>6, <1>7, <1>8, <1>9 DEF Advance

\* A crash or a stop of the server, seen from the next process.
LEMMA RestartCases ==
  ASSUME TypeOK, Crash \/ Shutdown
  PROVE  Restarts
<1>1. CASE Crash
  <2>1. status' = [r \in Runs |-> IF status[r] # "running" THEN status[r]
                                  ELSE IF r \in {} THEN "cancelled" ELSE "recovered"]
    BY <1>1 DEF Crash, Recover
  <2>2. {} \in SUBSET {r \in Runs : pc[r] \in Awaits}
    OBVIOUS
  <2>3. \E begun \in SUBSET {r \in Runs : pc[r] \in Awaits} :
          status' = [r \in Runs |-> IF status[r] # "running" THEN status[r]
                                    ELSE IF r \in begun THEN "cancelled" ELSE "recovered"]
    BY <2>1, <2>2
  <2>4. QED  BY <1>1, <2>3 DEF Crash, Restarts
<1>2. CASE Shutdown
  <2>1. PICK begun \in SUBSET {r \in Runs : pc[r] \in Awaits} :
          status' = Recover([r \in Runs |-> IF r \in begun /\ status[r] = "running"
                                            THEN "cancelled" ELSE status[r]])
    BY <1>2 DEF Shutdown
  <2>2. status' = [r \in Runs |-> IF status[r] # "running" THEN status[r]
                                  ELSE IF r \in begun THEN "cancelled" ELSE "recovered"]
    BY <2>1 DEF Recover
  <2>3. QED  BY <1>2, <2>1, <2>2 DEF Shutdown, Restarts
<1>3. QED  BY <1>1, <1>2

LEMMA StepCases ==
  ASSUME IInv, [RunsNext]_runVars
  PROVE  \/ \E r \in Runs : \/ StartRun(r) \/ CancelRun(r)
                            \/ \E s, n : Ends(r, s, n)
                            \/ \E label, n : GoesOn(r, label, n)
         \/ Restarts
         \/ UNCHANGED runVars
BY AdvanceCases, RestartCases DEF IInv, RunsNext
-----------------------------------------------------------------------------
(* Each part of the invariant is kept by every kind of step.               *)

LEMMA TypePreserved ==
  ASSUME IInv, [RunsNext]_runVars
  PROVE  TypeOK'
<1> USE DEF IInv, TypeOK, Statuses, Endings, Awaits, Live, request
<1>1. CASE \E r \in Runs : StartRun(r)
  BY <1>1 DEF StartRun
<1>2. CASE \E r \in Runs : CancelRun(r)
  BY <1>2 DEF CancelRun
<1>3. CASE \E r \in Runs : \E s, n : Ends(r, s, n)
  BY <1>3 DEF Ends, End
<1>4. CASE \E r \in Runs : \E label, n : GoesOn(r, label, n)
  BY <1>4 DEF GoesOn, Await
<1>5. CASE Restarts
  BY <1>5 DEF Restarts, Forget
<1>6. CASE UNCHANGED runVars
  BY <1>6 DEF runVars
<1>7. QED  BY <1>1, <1>2, <1>3, <1>4, <1>5, <1>6, StepCases

LEMMA LifePreserved ==
  ASSUME IInv, [RunsNext]_runVars
  PROVE  RunningIsLive' /\ Flagged'
<1> USE DEF IInv, TypeOK, Statuses, Endings, Awaits, Live, request, RunningIsLive, Flagged
<1>1. CASE \E r \in Runs : StartRun(r)
  BY <1>1 DEF StartRun
<1>2. CASE \E r \in Runs : CancelRun(r)
  BY <1>2 DEF CancelRun
<1>3. CASE \E r \in Runs : \E s, n : Ends(r, s, n)
  BY <1>3 DEF Ends, End
<1>4. CASE \E r \in Runs : \E label, n : GoesOn(r, label, n)
  BY <1>4 DEF GoesOn, Await
<1>5. CASE Restarts
  BY <1>5 DEF Restarts, Forget
<1>6. CASE UNCHANGED runVars
  BY <1>6 DEF runVars
<1>7. QED  BY <1>1, <1>2, <1>3, <1>4, <1>5, <1>6, StepCases

LEMMA BudgetPreserved ==
  ASSUME IInv, [RunsNext]_runVars
  PROVE  Budgeted'
<1> USE BudgetsAreCounts
<1> USE DEF IInv, TypeOK, Statuses, Endings, Awaits, Live, request, Flagged, Budgeted,
            WithinBudget, StepsBeforeWork
<1>1. CASE \E r \in Runs : StartRun(r)
  <2>1. PICK r \in Runs : StartRun(r)
    BY <1>1
  <2>2. PICK m \in Budgets : maxSteps' = [maxSteps EXCEPT ![r] = m]
    BY <2>1 DEF StartRun
  <2>3. PICK w \in Routes : route' = [route EXCEPT ![r] = w]
    BY <2>1 DEF StartRun
  <2>4. m \in Nat \ {0}
    BY RunsAssumption DEF RunsAssumption
  <2>5. /\ maxSteps'[r] = m /\ pc'[r] = "starting" /\ steps'[r] = 0
        /\ status'[r] = "running"
    BY <2>1, <2>2 DEF StartRun
  <2>6. ASSUME NEW q \in Runs \ {r}
        PROVE  /\ maxSteps'[q] = maxSteps[q] /\ pc'[q] = pc[q] /\ steps'[q] = steps[q]
               /\ status'[q] = status[q] /\ route'[q] = route[q]
    BY <2>1, <2>2, <2>3 DEF StartRun
  <2>7. QED  BY <2>4, <2>5, <2>6
<1>2. CASE \E r \in Runs : CancelRun(r)
  BY <1>2 DEF CancelRun
<1>3. CASE \E r \in Runs : \E s, n : Ends(r, s, n)
  BY <1>3 DEF Ends, End
<1>4. CASE \E r \in Runs : \E label, n : GoesOn(r, label, n)
  BY <1>4 DEF GoesOn, Await
<1>5. CASE Restarts
  BY <1>5 DEF Restarts, Forget
<1>6. CASE UNCHANGED runVars
  BY <1>6 DEF runVars
<1>7. QED  BY <1>1, <1>2, <1>3, <1>4, <1>5, <1>6, StepCases

LEMMA ProposalsPreserved ==
  ASSUME IInv, [RunsNext]_runVars
  PROVE  Proposed' /\ ProposalsAreAudited'
<1> USE DEF IInv, TypeOK, Statuses, Endings, Awaits, Live, request, RunningIsLive, Flagged,
            Proposed, ProposalsAreAudited
<1>1. CASE \E r \in Runs : StartRun(r)
  BY <1>1 DEF StartRun
<1>2. CASE \E r \in Runs : CancelRun(r)
  BY <1>2 DEF CancelRun, Held
<1>3. CASE \E r \in Runs : \E s, n : Ends(r, s, n)
  BY <1>3 DEF Ends, End
<1>4. CASE \E r \in Runs : \E label, n : GoesOn(r, label, n)
  BY <1>4 DEF GoesOn, Await
<1>5. CASE Restarts
  BY <1>5 DEF Restarts, Forget
<1>6. CASE UNCHANGED runVars
  BY <1>6 DEF runVars
<1>7. QED  BY <1>1, <1>2, <1>3, <1>4, <1>5, <1>6, StepCases
-----------------------------------------------------------------------------
\* The inductive invariant holds in every reachable state.
THEOREM InductiveInvariant == RunsSafety => []IInv
<1>1. RunsInit => IInv
  BY RunsAssumption
  DEF RunsInit, RunsAssumption, IInv, TypeOK, RunningIsLive, Flagged, Budgeted, WithinBudget,
      Proposed, ProposalsAreAudited, Statuses, Endings, Live, Awaits
<1>2. IInv /\ [RunsNext]_runVars => IInv'
  BY TypePreserved, LifePreserved, BudgetPreserved, ProposalsPreserved DEF IInv
<1>3. QED  BY <1>1, <1>2, PTL DEF RunsSafety

\* Every variable keeps its type (agents/models.py, agents/service.py).
THEOREM TypeCorrect == RunsSafety => []TypeOK
<1>1. IInv => TypeOK  BY DEF IInv
<1>2. QED  BY <1>1, InductiveInvariant, PTL

\* A run marked running has a coroutine that will end it, also after
\* recover_running, and one that ended on its own has none.
THEOREM NoRunIsOrphaned == RunsSafety => []RunningIsLive
<1>1. IInv => RunningIsLive  BY DEF IInv
<1>2. QED  BY <1>1, InductiveInvariant, PTL

\* The checks of _execute keep every run within its step budget.
THEOREM BudgetIsKept == RunsSafety => []WithinBudget
<1>1. IInv => WithinBudget  BY DEF IInv, Budgeted
<1>2. QED  BY <1>1, InductiveInvariant, PTL

\* The record of a run that ended names the action it proposed, and no failed
\* or cancelled run leaves one (add_action in _patch_closure_run).
THEOREM ProposalsAreNamed == RunsSafety => []ProposalsAreAudited
<1>1. IInv => ProposalsAreAudited  BY DEF IInv
<1>2. QED  BY <1>1, InductiveInvariant, PTL

\* No step gives a run that has ended another ending (_run_and_finalize,
\* cancel_run, recover_running).
THEOREM EndingsNeverChange == RunsSafety => EndingsAreFinal
<1> DEFINE Final == \A r \in Runs :
                      /\ status[r] \in Endings => status'[r] = status[r]
                      /\ status[r] = "cancelled" => status'[r] \in {"cancelled", "failed"}
<1>1. IInv /\ [RunsNext]_runVars => [Final]_runVars
  <2> SUFFICES ASSUME IInv, [RunsNext]_runVars PROVE Final
    OBVIOUS
  <2> USE DEF IInv, TypeOK, RunningIsLive, Flagged, Statuses, Endings, Awaits, Live
  <2>1. CASE \E r \in Runs : StartRun(r)
    BY <2>1 DEF StartRun
  <2>2. CASE \E r \in Runs : CancelRun(r)
    BY <2>2 DEF CancelRun
  <2>3. CASE \E r \in Runs : \E s, n : Ends(r, s, n)
    BY <2>3 DEF Ends, End
  <2>4. CASE \E r \in Runs : \E label, n : GoesOn(r, label, n)
    BY <2>4 DEF GoesOn, Await
  <2>5. CASE Restarts
    BY <2>5 DEF Restarts
  <2>6. CASE UNCHANGED runVars
    BY <2>6 DEF runVars
  <2>7. QED  BY <2>1, <2>2, <2>3, <2>4, <2>5, <2>6, StepCases
<1>2. QED  BY <1>1, InductiveInvariant, PTL DEF RunsSafety, EndingsAreFinal

\* Whatever a run was awaiting when it was cancelled, it never proposes a patch
\* after that (_check_control before add_action).
THEOREM CancellationHolds == RunsSafety => CancelledProposesNothing
<1> DEFINE Quiet == \A r \in Runs : status[r] = "cancelled" /\ r \in actions' => r \in actions
<1>1. IInv /\ [RunsNext]_runVars => [Quiet]_runVars
  <2> SUFFICES ASSUME IInv, [RunsNext]_runVars PROVE Quiet
    OBVIOUS
  <2>1. CASE \E r \in Runs : StartRun(r) \/ CancelRun(r)
    BY <2>1 DEF StartRun, CancelRun
  <2>2. CASE \E r \in Runs : \E s, n : Ends(r, s, n)
    BY <2>2 DEF Ends
  <2>3. CASE \E r \in Runs : \E label, n : GoesOn(r, label, n)
    BY <2>3 DEF GoesOn, IInv, Flagged, Live
  <2>4. CASE Restarts \/ UNCHANGED runVars
    BY <2>4 DEF Restarts, Forget, runVars
  <2>5. QED  BY <2>1, <2>2, <2>3, <2>4, StepCases
<1>2. QED  BY <1>1, InductiveInvariant, PTL DEF RunsSafety, CancelledProposesNothing
-----------------------------------------------------------------------------
(* The assignments.                                                        *)

\* Every step is a step of the runs or leaves them alone.
LEMMA StepsOfRuns ==
  ASSUME [Next]_vars
  PROVE  [RunsNext]_runVars
<1>1. CASE \E i \in Assignments :
             \/ Create(i) \/ CallProvider(i) \/ FinishCall(i) \/ Cancel(i) \/ SetByHand(i)
             \/ \E j \in Assignments : Retry(i, j)
  BY <1>1 DEF Create, CallProvider, FinishCall, Cancel, SetByHand, Retry
<1>2. CASE \E i \in Assignments, r \in Runs : Dispatch(i, r)
  BY <1>2 DEF Dispatch, RunsNext
<1>3. CASE (\E r \in Runs : Report(r)) \/ Clear \/ UNCHANGED vars
  BY <1>3 DEF Report, Clear, vars
<1>4. CASE RunStep
  BY <1>4 DEF RunStep, RunsNext
<1>5. CASE Restart
  BY <1>5 DEF Restart, RunsNext
<1>6. QED  BY <1>1, <1>2, <1>3, <1>4, <1>5 DEF Next

\* The run part of every step is a step of AgentRuns or a stutter, so that what is proved of
\* runs holds of the composition.
LEMMA RunsUnderAssignments == Spec => RunsSafety
<1>1. Init => RunsInit
  BY DEF Init
<1>2. [Next]_vars => [RunsNext]_runVars
  BY StepsOfRuns
<1>3. QED  BY <1>1, <1>2, PTL DEF Spec, RunsSafety
-----------------------------------------------------------------------------
(* An assignment and the run it names.                                     *)

\* A request waits for a run of this process that was started; a run is named
\* when it has ended; providers are only called for external assignments.
Served ==
  /\ \A r \in Runs : serves[r] # None =>
       /\ status[r] \notin {"absent", "recovered"}
       /\ asg[serves[r]] # "absent" /\ kind[serves[r]] = "internal"
  /\ \A i \in Assignments : runId[i] # None =>
       /\ status[runId[i]] \notin {"absent", "running"}
       /\ asg[i] # "absent" /\ kind[i] = "internal"
  /\ calling # None => asg[calling] # "absent" /\ kind[calling] = "external"

AInv == IInv /\ AssignmentsTypeOK /\ Served /\ AgreesWithItsRun

\* A run that has ended and has no coroutine stays as it is; a run that was
\* started stays started.
LEMMA EndedRunsStay ==
  ASSUME IInv, [RunsNext]_runVars, NEW r \in Runs
  PROVE  /\ status[r] \notin {"absent", "running"} /\ pc[r] = "none"
              => status'[r] = status[r] /\ pc'[r] = "none"
         /\ status[r] # "absent" => status'[r] # "absent"
         /\ status[r] \notin {"absent", "running"} => status'[r] \notin {"absent", "running"}
<1> USE DEF IInv, TypeOK, Statuses, Endings, Awaits, Live
<1>1. CASE \E q \in Runs : StartRun(q)
  BY <1>1 DEF StartRun
<1>2. CASE \E q \in Runs : CancelRun(q)
  BY <1>2 DEF CancelRun
<1>3. CASE \E q \in Runs : Advance(q)
  <2>1. \E q \in Runs : (\E s, n : Ends(q, s, n)) \/ (\E label, n : GoesOn(q, label, n))
    BY <1>3, AdvanceCases
  <2>2. CASE \E q \in Runs : \E s, n : Ends(q, s, n)
    BY <2>2 DEF Ends, End
  <2>3. CASE \E q \in Runs : \E label, n : GoesOn(q, label, n)
    BY <2>3 DEF GoesOn, Await
  <2>4. QED  BY <2>1, <2>2, <2>3
<1>4. CASE Crash \/ Shutdown
  BY <1>4, RestartCases DEF Restarts, Forget
<1>5. CASE UNCHANGED runVars
  BY <1>5 DEF runVars
<1>6. QED  BY <1>1, <1>2, <1>3, <1>4, <1>5 DEF RunsNext

\* Only a restart recovers a run.
LEMMA OwnStepsRecoverNothing ==
  ASSUME IInv, NEW q \in Runs, StartRun(q) \/ CancelRun(q) \/ Advance(q), NEW r \in Runs,
         status[r] # "recovered"
  PROVE  status'[r] # "recovered"
<1>1. CASE StartRun(q) \/ CancelRun(q)
  BY <1>1 DEF StartRun, CancelRun, IInv, TypeOK
<1>2. CASE \E s, n : Ends(q, s, n)
  BY <1>2 DEF Ends, End, IInv, TypeOK
<1>3. CASE \E label, n : GoesOn(q, label, n)
  BY <1>3 DEF GoesOn, Await
<1>4. QED  BY <1>1, <1>2, <1>3, AdvanceCases DEF IInv

\* Steps of the runs alone keep what assignments say of them.
LEMMA RunsKeepServed ==
  ASSUME AInv, RunStep
  PROVE  AssignmentsTypeOK' /\ Served' /\ AgreesWithItsRun'
<1> USE DEF asgVars
<1>0. [RunsNext]_runVars /\ UNCHANGED asgVars
  BY DEF RunStep, RunsNext
<1>1. AssignmentsTypeOK'
  BY <1>0 DEF AInv, AssignmentsTypeOK
<1>2. Served'
  <2>1. ASSUME NEW r \in Runs, status[r] # "recovered" PROVE status'[r] # "recovered"
    BY <2>1, OwnStepsRecoverNothing DEF RunStep, AInv
  <2>2. QED
    BY EndedRunsStay, <1>0, <1>1, <2>1, AssignmentsAssumption
    DEF AInv, Served, AssignmentsTypeOK, AssignmentsAssumption
<1>3. AgreesWithItsRun'
  <2>1. ASSUME NEW i \in Assignments, runId[i] # None
        PROVE  pc'[runId[i]] = "none" /\ status'[runId[i]] = outcome[i]
    BY <1>0, <2>1, EndedRunsStay DEF AInv, Served, AgreesWithItsRun, AssignmentsTypeOK
  <2>2. QED  BY <1>0, <2>1 DEF AInv, AgreesWithItsRun
<1>4. QED  BY <1>1, <1>2, <1>3

LEMMA AssignmentsPreserved ==
  ASSUME AInv, [Next]_vars
  PROVE  AssignmentsTypeOK' /\ Served' /\ AgreesWithItsRun'
<1> USE AssignmentsAssumption
    DEF AssignmentsAssumption, AInv, AssignmentsTypeOK, Served, AgreesWithItsRun, Marks,
        Terminal, Kinds, Mark
<1>1. ASSUME NEW i \in Assignments, Create(i)
      PROVE  AssignmentsTypeOK' /\ Served' /\ AgreesWithItsRun'
  BY <1>1 DEF Create, runVars
<1>2. ASSUME NEW i \in Assignments, NEW j \in Assignments, Retry(i, j)
      PROVE  AssignmentsTypeOK' /\ Served' /\ AgreesWithItsRun'
  BY <1>2 DEF Retry, runVars
<1>3. ASSUME NEW i \in Assignments, CallProvider(i)
      PROVE  AssignmentsTypeOK' /\ Served' /\ AgreesWithItsRun'
  BY <1>3 DEF CallProvider, runVars
<1>4. ASSUME NEW i \in Assignments, FinishCall(i)
      PROVE  AssignmentsTypeOK' /\ Served' /\ AgreesWithItsRun'
  BY <1>4 DEF FinishCall, runVars
<1>5. ASSUME NEW i \in Assignments, Cancel(i)
      PROVE  AssignmentsTypeOK' /\ Served' /\ AgreesWithItsRun'
  BY <1>5 DEF Cancel, runVars
<1>6. ASSUME NEW i \in Assignments, SetByHand(i)
      PROVE  AssignmentsTypeOK' /\ Served' /\ AgreesWithItsRun'
  BY <1>6 DEF SetByHand, runVars
<1>7. ASSUME NEW i \in Assignments, NEW r \in Runs, Dispatch(i, r)
      PROVE  AssignmentsTypeOK' /\ Served' /\ AgreesWithItsRun'
  BY <1>7 DEF Dispatch, StartRun, IInv, TypeOK
<1>8. ASSUME NEW r \in Runs, Report(r)
      PROVE  AssignmentsTypeOK' /\ Served' /\ AgreesWithItsRun'
  BY <1>8 DEF Report, Reporting, runVars, IInv, TypeOK, RunningIsLive, Live, Awaits, Statuses,
              Endings
<1>9. CASE Clear
  BY <1>9 DEF Clear, runVars
<1>10. CASE RunStep
  BY <1>10, RunsKeepServed
<1>11. CASE Restart
  BY <1>11, RestartCases, StepsOfRuns, EndedRunsStay DEF Restart, Restarts
<1>12. CASE UNCHANGED vars
  BY <1>12 DEF vars, asgVars, runVars
<1>13. QED
  BY <1>1, <1>2, <1>3, <1>4, <1>5, <1>6, <1>7, <1>8, <1>9, <1>10, <1>11, <1>12 DEF Next
-----------------------------------------------------------------------------
THEOREM AssignmentsInvariant == Spec => []AInv
<1>1. Init => AssignmentsTypeOK /\ Served /\ AgreesWithItsRun
  BY AssignmentsAssumption
  DEF Init, AssignmentsTypeOK, Served, AgreesWithItsRun, Marks, Kinds
<1>2. IInv /\ IInv' /\ AssignmentsTypeOK /\ Served /\ AgreesWithItsRun /\ [Next]_vars
        => AssignmentsTypeOK' /\ Served' /\ AgreesWithItsRun'
  BY AssignmentsPreserved DEF AInv
<1>3. Spec => []IInv
  BY RunsUnderAssignments, InductiveInvariant, PTL
<1>4. QED  BY <1>1, <1>2, <1>3, PTL DEF Spec, AInv

\* The variables of the assignments keep their types (agents/models.py).
THEOREM AssignmentTypes == Spec => []AssignmentsTypeOK
<1>1. AInv => AssignmentsTypeOK  BY DEF AInv
<1>2. QED  BY <1>1, AssignmentsInvariant, PTL

\* However an assignment is cancelled, cleared, retried or marked while its run
\* goes on, it never claims more than the run it names (dispatch_assignment).
THEOREM AssignmentsAgree == Spec => []AgreesWithItsRun
<1>1. AInv => AgreesWithItsRun  BY DEF AInv
<1>2. QED  BY <1>1, AssignmentsInvariant, PTL
-----------------------------------------------------------------------------
(* One run at a time.                                                      *)

\* Unless a teammate put it back by hand, a queued assignment has never been
\* dispatched and no two requests ever wait for the same one.
Dispatched ==
  \A i \in Assignments \ marked :
    /\ asg[i] \in {"absent", "queued"} => runId[i] = None /\ \A r \in Runs : serves[r] # i
    /\ runId[i] # None => \A r \in Runs : serves[r] # i
    /\ \A r, q \in Runs : serves[r] = i /\ serves[q] = i => r = q

LEMMA DispatchedOnce ==
  ASSUME Dispatched
  PROVE  OneRunEach
<1> SUFFICES ASSUME NEW i \in Assignments \ marked
             PROVE  Cardinality({r \in Runs : serves[r] = i}) <= 1
  BY DEF Dispatched, OneRunEach
<1>1. CASE {r \in Runs : serves[r] = i} = {}
  BY <1>1, FS_EmptySet
<1>2. CASE \E r \in Runs : {q \in Runs : serves[q] = i} = {r}
  BY <1>2, FS_Singleton
<1>3. QED  BY <1>1, <1>2 DEF Dispatched

LEMMA DispatchedPreserved ==
  ASSUME AssignmentsTypeOK, Dispatched, [Next]_vars
  PROVE  Dispatched'
<1> USE AssignmentsAssumption
    DEF AssignmentsAssumption, AssignmentsTypeOK, Dispatched, Marks, Terminal, Kinds, Mark
<1>1. ASSUME NEW i \in Assignments, Create(i) \/ \E j \in Assignments : Retry(j, i)
      PROVE  Dispatched'
  BY <1>1 DEF Create, Retry
<1>2. ASSUME NEW i \in Assignments, CallProvider(i) \/ FinishCall(i) \/ Cancel(i)
      PROVE  Dispatched'
  BY <1>2 DEF CallProvider, FinishCall, Cancel
<1>3. ASSUME NEW i \in Assignments, SetByHand(i)
      PROVE  Dispatched'
  BY <1>3 DEF SetByHand
<1>4. ASSUME NEW i \in Assignments, NEW r \in Runs, Dispatch(i, r)
      PROVE  Dispatched'
  BY <1>4 DEF Dispatch
<1>5. ASSUME NEW r \in Runs, Report(r)
      PROVE  Dispatched'
  BY <1>5 DEF Report, Reporting
<1>6. CASE Clear \/ RunStep \/ Restart \/ UNCHANGED vars
  BY <1>6 DEF Clear, RunStep, Restart, vars, asgVars
<1>7. QED  BY <1>1, <1>2, <1>3, <1>4, <1>5, <1>6 DEF Next

\* dispatch_assignment starts one run for an assignment, however the requests
\* of other teammates come in between.
THEOREM OneRunAtATime == Spec => []OneRunEach
<1>1. Init => Dispatched
  BY AssignmentsAssumption DEF Init, Dispatched, AssignmentsAssumption
<1>2. AssignmentsTypeOK /\ Dispatched /\ [Next]_vars => Dispatched'
  BY DispatchedPreserved
<1>3. Dispatched => OneRunEach
  BY DispatchedOnce
<1>4. QED  BY <1>1, <1>2, <1>3, AssignmentTypes, PTL DEF Spec
=============================================================================
