------------------------ MODULE PatchApproval_proofs ------------------------
(***************************************************************************)
(* What PatchApproval guarantees for every set of actions and files,       *)
(* whatever faults are switched on.                                        *)
(***************************************************************************)
EXTENDS PatchApproval, TLAPS

\* The variables hold values of their types in every reachable state
\* (collab/service.py, collab/store.py, workspace/git.py).
LEMMA TypeCorrect == Spec => []TypeOK
<1>1. Init => TypeOK
  BY ApprovalAssumption
  DEF Init, TypeOK, Labels, Statuses, Branches, Content, Verdicts, Decided
<1>2. TypeOK /\ [Next]_vars => TypeOK'
  <2> SUFFICES ASSUME TypeOK, [Next]_vars PROVE TypeOK'
    OBVIOUS
  <2> USE ApprovalAssumption DEF TypeOK, Labels, Statuses, Branches, Content, Verdicts,
                                 Decided, store, workspace, local, history
  <2>1. ASSUME NEW a \in Actions, Proposing(a) PROVE TypeOK'
    <3>1. CASE Propose(a)  BY <3>1 DEF Propose, Begin, Idle
    <3>2. CASE StorePayload(a)  BY <3>2 DEF StorePayload, GoTo, At
    <3>3. CASE RememberProposal(a)
      BY <3>3 DEF RememberProposal, Return, At, Remember, Item
    <3>4. QED  BY <2>1, <3>1, <3>2, <3>3 DEF Proposing
  <2>2. ASSUME NEW a \in Actions, Approving(a) PROVE TypeOK'
    <3>1. CASE BeginApprove(a)
      BY <3>1 DEF BeginApprove, Begin, Idle
    <3>2. CASE CreateActionBranch(a)
      BY <3>2 DEF CreateActionBranch, SwitchNew, SwitchExisting, NoSwitch, GoTo, At
    <3>3. CASE WriteFile(a)
      BY <3>3 DEF WriteFile, At
    <3>4. CASE RunTests(a)
      BY <3>4 DEF RunTests, At
    <3>5. CASE ApplyFails(a)
      BY <3>5 DEF ApplyFails, At
    <3> QED BY <2>2, <3>1, <3>2, <3>3, <3>4, <3>5 DEF Approving
  <2>3. ASSUME NEW a \in Actions, Deciding(a) PROVE TypeOK'
    <3>1. CASE BeginReject(a)
      BY <3>1 DEF BeginReject, Idle
    <3>2. CASE Decide(a)
      BY <3>2 DEF Decide, GoTo, At, StatusOf
    <3>3. CASE NoteMemory(a)
      BY <3>3 DEF NoteMemory, Item, GoTo, At
    <3>4. CASE RememberDecision(a)
      BY <3>4 DEF RememberDecision, Remember, Item, GoTo, At
    <3>5. CASE DiscardPayload(a)
      BY <3>5 DEF DiscardPayload, GoTo, At
    <3>6. CASE Announce(a)
      BY <3>6 DEF Announce, Return, At
    <3> QED BY <2>3, <3>1, <3>2, <3>3, <3>4, <3>5, <3>6 DEF Deciding
  <2>4. ASSUME NEW a \in Actions, Committing(a) PROVE TypeOK'
    <3>1. CASE GitCommit(a)
      BY <3>1 DEF GitCommit, Begin, Idle
    <3>2. CASE RecordCommit(a)
      BY <3>2 DEF RecordCommit, Return, At
    <3> QED BY <2>4, <3>1, <3>2 DEF Committing
  <2>5. ASSUME NEW a \in Actions, Publishing(a) PROVE TypeOK'
    <3>1. CASE OpenPullRequest(a)
      BY <3>1 DEF OpenPullRequest, Begin, Idle
    <3>2. CASE RecordPullRequest(a)
      BY <3>2 DEF RecordPullRequest, Return, At
    <3>3. CASE PullRequestFails(a)
      BY <3>3 DEF PullRequestFails, Idle
    <3> QED BY <2>5, <3>1, <3>2, <3>3 DEF Publishing
  <2>6. ASSUME NEW a \in Actions, Escape(a) PROVE TypeOK'
    BY <2>6 DEF Escape, Return
  <2>7. CASE Crash
    BY <2>7 DEF Crash, Return
  <2>8. CASE UNCHANGED vars
    BY <2>8 DEF vars
  <2> QED BY <2>1, <2>2, <2>3, <2>4, <2>5, <2>6, <2>7, <2>8 DEF Next
<1> QED BY <1>1, <1>2, PTL DEF Spec
-----------------------------------------------------------------------------
Undecided == {"payload", "remember", "switch", "write", "decide"}
Settling  == {"note", "capture", "discard", "announce"}

\* Where the operation in progress finds its action.
InProgress ==
  /\ ~ Idle => subject \in Actions
  /\ pc \in Undecided => status[subject] = "pending"
  /\ pc \in Settling => status[subject] \in Decided
  /\ pc \in {"switch", "write"} => subject \in payloads
  /\ pc = "switch" => todo = FilesOf[subject]
  /\ pc = "decide" => verdict \in Decided \cup {"aborted"}
  /\ pc = "sha" => status[subject] = "completed" /\ commit[subject] = None

\* What has reached the workspace, and with it the tests.
Written ==
  /\ pc = "write" => \A f \in FilesOf[subject] \ todo : tree[f] = subject
  /\ pc = "write" /\ FilesOf[subject] \ todo # {} => subject \in applied
  /\ pc = "decide" /\ verdict = "completed" => subject \in green
  /\ green \subseteq applied
  /\ CompletedWasTested

\* A payload outlives every approval attempt.
Kept ==
  /\ cached \subseteq payloads
  /\ \A a \in applied : status[a] # "absent"
  /\ ExpiredNeverWritten

\* A proposal written and still undecided is the one in progress, or its
\* approval was cut short.
Rejectable ==
  /\ \A a \in applied \ interrupted :
       status[a] = "pending" => subject = a /\ pc \in {"write", "decide"}
  /\ pc = "decide" /\ verdict = "rejected" /\ subject \in applied => subject \in interrupted
  /\ RejectedUntouched

Recorded ==
  /\ \A a \in Actions : commit[a] # None => status[a] = "completed"
  /\ PublishedWasCommitted

\* What each step of a decision leaves behind it.
Settled ==
  \A a \in Actions \ interrupted : status[a] \in Decided =>
    /\ At("note", a) \/ ~ \E m \in memory : m.source = a /\ m.status = "open"
    /\ (subject = a /\ pc \in {"note", "capture", "discard"}) \/ a \notin payloads \cup cached
    /\ (subject = a /\ pc \in Settling) \/ a \in announced
-----------------------------------------------------------------------------
\* Only the operation in progress changes the status of its action.
LEMMA InProgressStep ==
  ASSUME TypeOK, InProgress, Kept, [Next]_vars PROVE InProgress'
<1> USE ApprovalAssumption DEF TypeOK, InProgress, Kept, Undecided, Settling, Decided,
                               Verdicts, Idle, store, workspace, local, history
<1>1. ASSUME NEW a \in Actions, Proposing(a) PROVE InProgress'
  BY <1>1 DEF Proposing, Propose, Begin, Idle, StorePayload, GoTo, At, RememberProposal,
              Remember, Item, Return
<1>2. ASSUME NEW a \in Actions, Approving(a) PROVE InProgress'
  <2>1. CASE BeginApprove(a)
    BY <2>1 DEF BeginApprove, Begin, Idle
  <2>2. CASE CreateActionBranch(a)
    BY <2>2 DEF CreateActionBranch, SwitchNew, SwitchExisting, NoSwitch, GoTo, At
  <2>3. CASE WriteFile(a)
    BY <2>3 DEF WriteFile, At
  <2>4. CASE RunTests(a)
    BY <2>4 DEF RunTests, At
  <2>5. CASE ApplyFails(a)
    BY <2>5 DEF ApplyFails, At
  <2> QED BY <1>2, <2>1, <2>2, <2>3, <2>4, <2>5 DEF Approving
<1>3. ASSUME NEW a \in Actions, Deciding(a) PROVE InProgress'
  <2>1. CASE BeginReject(a)
    BY <2>1 DEF BeginReject, Idle
  <2>2. CASE Decide(a)
    BY <2>2 DEF Decide, GoTo, At, StatusOf
  <2>3. CASE NoteMemory(a)
    BY <2>3 DEF NoteMemory, Item, GoTo, At
  <2>4. CASE RememberDecision(a)
    BY <2>4 DEF RememberDecision, Remember, Item, GoTo, At
  <2>5. CASE DiscardPayload(a)
    BY <2>5 DEF DiscardPayload, GoTo, At
  <2>6. CASE Announce(a)
    BY <2>6 DEF Announce, Return, At
  <2> QED BY <1>3, <2>1, <2>2, <2>3, <2>4, <2>5, <2>6 DEF Deciding
<1>4. ASSUME NEW a \in Actions, Committing(a) PROVE InProgress'
  BY <1>4 DEF Committing, GitCommit, Begin, Idle, RecordCommit, Return, At
<1>5. ASSUME NEW a \in Actions, Publishing(a) PROVE InProgress'
  BY <1>5 DEF Publishing, OpenPullRequest, Begin, Idle, RecordPullRequest, Return, At,
              PullRequestFails
<1>6. ASSUME NEW a \in Actions, Escape(a) PROVE InProgress'
  BY <1>6 DEF Escape, Return
<1>7. CASE Crash
  BY <1>7 DEF Crash, Return
<1>8. CASE UNCHANGED vars
  BY <1>8 DEF vars
<1> QED BY <1>1, <1>2, <1>3, <1>4, <1>5, <1>6, <1>7, <1>8 DEF Next

\* Tests that passed passed over a whole patch, and only then is an action completed.
LEMMA WrittenStep ==
  ASSUME TypeOK, InProgress, Written, [Next]_vars PROVE Written'
<1> USE ApprovalAssumption DEF TypeOK, InProgress, Written, CompletedWasTested, Undecided,
                               Settling, Decided, Statuses, Idle, store, workspace, local,
                               history
<1>1. ASSUME NEW a \in Actions, Proposing(a) PROVE Written'
  BY <1>1 DEF Proposing, Propose, Begin, Idle, StorePayload, GoTo, At, RememberProposal,
              Remember, Item, Return
<1>2. ASSUME NEW a \in Actions, Approving(a) PROVE Written'
  <2>1. CASE BeginApprove(a)
    BY <2>1 DEF BeginApprove, Begin, Idle
  <2>2. CASE CreateActionBranch(a)
    BY <2>2 DEF CreateActionBranch, SwitchNew, SwitchExisting, NoSwitch, GoTo, At
  <2>3. CASE WriteFile(a)
    BY <2>3 DEF WriteFile, At
  <2>4. CASE RunTests(a)
    BY <2>4 DEF RunTests, At
  <2>5. CASE ApplyFails(a)
    BY <2>5 DEF ApplyFails, At
  <2> QED BY <1>2, <2>1, <2>2, <2>3, <2>4, <2>5 DEF Approving
<1>3. ASSUME NEW a \in Actions, Deciding(a) PROVE Written'
  <2>1. CASE BeginReject(a)
    BY <2>1 DEF BeginReject, Idle
  <2>2. CASE Decide(a)
    BY <2>2 DEF Decide, GoTo, At, StatusOf
  <2>3. CASE NoteMemory(a)
    BY <2>3 DEF NoteMemory, Item, GoTo, At
  <2>4. CASE RememberDecision(a)
    BY <2>4 DEF RememberDecision, Remember, Item, GoTo, At
  <2>5. CASE DiscardPayload(a)
    BY <2>5 DEF DiscardPayload, GoTo, At
  <2>6. CASE Announce(a)
    BY <2>6 DEF Announce, Return, At
  <2> QED BY <1>3, <2>1, <2>2, <2>3, <2>4, <2>5, <2>6 DEF Deciding
<1>4. ASSUME NEW a \in Actions, Committing(a) PROVE Written'
  BY <1>4 DEF Committing, GitCommit, Begin, Idle, RecordCommit, Return, At
<1>5. ASSUME NEW a \in Actions, Publishing(a) PROVE Written'
  BY <1>5 DEF Publishing, OpenPullRequest, Begin, Idle, RecordPullRequest, Return, At,
              PullRequestFails
<1>6. ASSUME NEW a \in Actions, Escape(a) PROVE Written'
  BY <1>6 DEF Escape, Return
<1>7. CASE Crash
  BY <1>7 DEF Crash, Return
<1>8. CASE UNCHANGED vars
  BY <1>8 DEF vars
<1> QED BY <1>1, <1>2, <1>3, <1>4, <1>5, <1>6, <1>7, <1>8 DEF Next

\* No step that writes to the workspace or drops a payload expires a written proposal.
LEMMA KeptStep ==
  ASSUME TypeOK, InProgress, Kept, [Next]_vars PROVE Kept'
<1> USE ApprovalAssumption DEF TypeOK, InProgress, Kept, ExpiredNeverWritten, Undecided,
                               Settling, Decided, Statuses, Idle, store, workspace, local,
                               history
<1>1. ASSUME NEW a \in Actions, Proposing(a) PROVE Kept'
  BY <1>1 DEF Proposing, Propose, Begin, Idle, StorePayload, GoTo, At, RememberProposal,
              Remember, Item, Return
<1>2. ASSUME NEW a \in Actions, Approving(a) PROVE Kept'
  <2>1. CASE BeginApprove(a)
    BY <2>1 DEF BeginApprove, Begin, Idle
  <2>2. CASE CreateActionBranch(a)
    BY <2>2 DEF CreateActionBranch, SwitchNew, SwitchExisting, NoSwitch, GoTo, At
  <2>3. CASE WriteFile(a)
    BY <2>3 DEF WriteFile, At
  <2>4. CASE RunTests(a)
    BY <2>4 DEF RunTests, At
  <2>5. CASE ApplyFails(a)
    BY <2>5 DEF ApplyFails, At
  <2> QED BY <1>2, <2>1, <2>2, <2>3, <2>4, <2>5 DEF Approving
<1>3. ASSUME NEW a \in Actions, Deciding(a) PROVE Kept'
  <2>1. CASE BeginReject(a)
    BY <2>1 DEF BeginReject, Idle
  <2>2. CASE Decide(a)
    BY <2>2 DEF Decide, GoTo, At, StatusOf
  <2>3. CASE NoteMemory(a)
    BY <2>3 DEF NoteMemory, Item, GoTo, At
  <2>4. CASE RememberDecision(a)
    BY <2>4 DEF RememberDecision, Remember, Item, GoTo, At
  <2>5. CASE DiscardPayload(a)
    BY <2>5 DEF DiscardPayload, GoTo, At
  <2>6. CASE Announce(a)
    BY <2>6 DEF Announce, Return, At
  <2> QED BY <1>3, <2>1, <2>2, <2>3, <2>4, <2>5, <2>6 DEF Deciding
<1>4. ASSUME NEW a \in Actions, Committing(a) PROVE Kept'
  BY <1>4 DEF Committing, GitCommit, Begin, Idle, RecordCommit, Return, At
<1>5. ASSUME NEW a \in Actions, Publishing(a) PROVE Kept'
  BY <1>5 DEF Publishing, OpenPullRequest, Begin, Idle, RecordPullRequest, Return, At,
              PullRequestFails
<1>6. ASSUME NEW a \in Actions, Escape(a) PROVE Kept'
  BY <1>6 DEF Escape, Return
<1>7. CASE Crash
  BY <1>7 DEF Crash, Return
<1>8. CASE UNCHANGED vars
  BY <1>8 DEF vars
<1> QED BY <1>1, <1>2, <1>3, <1>4, <1>5, <1>6, <1>7, <1>8 DEF Next

\* A whole approval always decides, so only a broken one leaves files to a rejection.
LEMMA RejectableStep ==
  ASSUME TypeOK, InProgress, Kept, Rejectable, [Next]_vars PROVE Rejectable'
<1> USE ApprovalAssumption DEF TypeOK, InProgress, Kept, Rejectable, RejectedUntouched,
                               Undecided, Settling, Decided, Statuses, Idle, store,
                               workspace, local, history
<1>1. ASSUME NEW a \in Actions, Proposing(a) PROVE Rejectable'
  BY <1>1 DEF Proposing, Propose, Begin, Idle, StorePayload, GoTo, At, RememberProposal,
              Remember, Item, Return
<1>2. ASSUME NEW a \in Actions, Approving(a) PROVE Rejectable'
  <2>1. CASE BeginApprove(a)
    BY <2>1 DEF BeginApprove, Begin, Idle
  <2>2. CASE CreateActionBranch(a)
    BY <2>2 DEF CreateActionBranch, SwitchNew, SwitchExisting, NoSwitch, GoTo, At
  <2>3. CASE WriteFile(a)
    BY <2>3 DEF WriteFile, At
  <2>4. CASE RunTests(a)
    BY <2>4 DEF RunTests, At
  <2>5. CASE ApplyFails(a)
    BY <2>5 DEF ApplyFails, At
  <2> QED BY <1>2, <2>1, <2>2, <2>3, <2>4, <2>5 DEF Approving
<1>3. ASSUME NEW a \in Actions, Deciding(a) PROVE Rejectable'
  <2>1. CASE BeginReject(a)
    BY <2>1 DEF BeginReject, Idle
  <2>2. CASE Decide(a)
    BY <2>2 DEF Decide, GoTo, At, StatusOf
  <2>3. CASE NoteMemory(a)
    BY <2>3 DEF NoteMemory, Item, GoTo, At
  <2>4. CASE RememberDecision(a)
    BY <2>4 DEF RememberDecision, Remember, Item, GoTo, At
  <2>5. CASE DiscardPayload(a)
    BY <2>5 DEF DiscardPayload, GoTo, At
  <2>6. CASE Announce(a)
    BY <2>6 DEF Announce, Return, At
  <2> QED BY <1>3, <2>1, <2>2, <2>3, <2>4, <2>5, <2>6 DEF Deciding
<1>4. ASSUME NEW a \in Actions, Committing(a) PROVE Rejectable'
  BY <1>4 DEF Committing, GitCommit, Begin, Idle, RecordCommit, Return, At
<1>5. ASSUME NEW a \in Actions, Publishing(a) PROVE Rejectable'
  BY <1>5 DEF Publishing, OpenPullRequest, Begin, Idle, RecordPullRequest, Return, At,
              PullRequestFails
<1>6. ASSUME NEW a \in Actions, Escape(a) PROVE Rejectable'
  BY <1>6 DEF Escape, Return
<1>7. CASE Crash
  BY <1>7 DEF Crash, Return
<1>8. CASE UNCHANGED vars
  BY <1>8 DEF vars
<1> QED BY <1>1, <1>2, <1>3, <1>4, <1>5, <1>6, <1>7, <1>8 DEF Next

\* Commits and pull requests follow completion, which nothing takes back.
LEMMA RecordedStep ==
  ASSUME TypeOK, InProgress, Recorded, [Next]_vars PROVE Recorded'
<1> USE ApprovalAssumption DEF TypeOK, InProgress, Recorded, PublishedWasCommitted,
                               Undecided, Settling, Decided, Statuses, Branches, Idle,
                               store, workspace, local, history
<1>1. ASSUME NEW a \in Actions, Proposing(a) PROVE Recorded'
  BY <1>1 DEF Proposing, Propose, Begin, Idle, StorePayload, GoTo, At, RememberProposal,
              Remember, Item, Return
<1>2. ASSUME NEW a \in Actions, Approving(a) PROVE Recorded'
  <2>1. CASE BeginApprove(a)
    BY <2>1 DEF BeginApprove, Begin, Idle
  <2>2. CASE CreateActionBranch(a)
    BY <2>2 DEF CreateActionBranch, SwitchNew, SwitchExisting, NoSwitch, GoTo, At
  <2>3. CASE WriteFile(a)
    BY <2>3 DEF WriteFile, At
  <2>4. CASE RunTests(a)
    BY <2>4 DEF RunTests, At
  <2>5. CASE ApplyFails(a)
    BY <2>5 DEF ApplyFails, At
  <2> QED BY <1>2, <2>1, <2>2, <2>3, <2>4, <2>5 DEF Approving
<1>3. ASSUME NEW a \in Actions, Deciding(a) PROVE Recorded'
  <2>1. CASE BeginReject(a)
    BY <2>1 DEF BeginReject, Idle
  <2>2. CASE Decide(a)
    BY <2>2 DEF Decide, GoTo, At, StatusOf
  <2>3. CASE NoteMemory(a)
    BY <2>3 DEF NoteMemory, Item, GoTo, At
  <2>4. CASE RememberDecision(a)
    BY <2>4 DEF RememberDecision, Remember, Item, GoTo, At
  <2>5. CASE DiscardPayload(a)
    BY <2>5 DEF DiscardPayload, GoTo, At
  <2>6. CASE Announce(a)
    BY <2>6 DEF Announce, Return, At
  <2> QED BY <1>3, <2>1, <2>2, <2>3, <2>4, <2>5, <2>6 DEF Deciding
<1>4. ASSUME NEW a \in Actions, Committing(a) PROVE Recorded'
  BY <1>4 DEF Committing, GitCommit, Begin, Idle, RecordCommit, Return, At
<1>5. ASSUME NEW a \in Actions, Publishing(a) PROVE Recorded'
  BY <1>5 DEF Publishing, OpenPullRequest, Begin, Idle, RecordPullRequest, Return, At,
              PullRequestFails
<1>6. ASSUME NEW a \in Actions, Escape(a) PROVE Recorded'
  BY <1>6 DEF Escape, Return
<1>7. CASE Crash
  BY <1>7 DEF Crash, Return
<1>8. CASE UNCHANGED vars
  BY <1>8 DEF vars
<1> QED BY <1>1, <1>2, <1>3, <1>4, <1>5, <1>6, <1>7, <1>8 DEF Next

\* Each step of a decision clears its own part of what the proposal left.
LEMMA SettledStep ==
  ASSUME TypeOK, InProgress, Settled, [Next]_vars PROVE Settled'
<1> USE ApprovalAssumption DEF TypeOK, InProgress, Settled, At, Undecided, Settling,
                               Decided, Statuses, Idle, store, workspace, local, history
<1>1. ASSUME NEW a \in Actions, Proposing(a) PROVE Settled'
  BY <1>1 DEF Proposing, Propose, Begin, Idle, StorePayload, GoTo, At, RememberProposal,
              Remember, Item, Return
<1>2. ASSUME NEW a \in Actions, Approving(a) PROVE Settled'
  <2>1. CASE BeginApprove(a)
    BY <2>1 DEF BeginApprove, Begin, Idle
  <2>2. CASE CreateActionBranch(a)
    BY <2>2 DEF CreateActionBranch, SwitchNew, SwitchExisting, NoSwitch, GoTo, At
  <2>3. CASE WriteFile(a)
    BY <2>3 DEF WriteFile, At
  <2>4. CASE RunTests(a)
    BY <2>4 DEF RunTests, At
  <2>5. CASE ApplyFails(a)
    BY <2>5 DEF ApplyFails, At
  <2> QED BY <1>2, <2>1, <2>2, <2>3, <2>4, <2>5 DEF Approving
<1>3. ASSUME NEW a \in Actions, Deciding(a) PROVE Settled'
  <2>1. CASE BeginReject(a)
    BY <2>1 DEF BeginReject, Idle
  <2>2. CASE Decide(a)
    BY <2>2 DEF Decide, GoTo, At, StatusOf
  <2>3. CASE NoteMemory(a)
    BY <2>3 DEF NoteMemory, Item, GoTo, At
  <2>4. CASE RememberDecision(a)
    BY <2>4 DEF RememberDecision, Remember, Item, GoTo, At
  <2>5. CASE DiscardPayload(a)
    BY <2>5 DEF DiscardPayload, GoTo, At
  <2>6. CASE Announce(a)
    BY <2>6 DEF Announce, Return, At
  <2> QED BY <1>3, <2>1, <2>2, <2>3, <2>4, <2>5, <2>6 DEF Deciding
<1>4. ASSUME NEW a \in Actions, Committing(a) PROVE Settled'
  BY <1>4 DEF Committing, GitCommit, Begin, Idle, RecordCommit, Return, At
<1>5. ASSUME NEW a \in Actions, Publishing(a) PROVE Settled'
  BY <1>5 DEF Publishing, OpenPullRequest, Begin, Idle, RecordPullRequest, Return, At,
              PullRequestFails
<1>6. ASSUME NEW a \in Actions, Escape(a) PROVE Settled'
  BY <1>6 DEF Escape, Return
<1>7. CASE Crash
  BY <1>7 DEF Crash, Return
<1>8. CASE UNCHANGED vars
  BY <1>8 DEF vars
<1> QED BY <1>1, <1>2, <1>3, <1>4, <1>5, <1>6, <1>7, <1>8 DEF Next
-----------------------------------------------------------------------------
IInv == TypeOK /\ InProgress /\ Written /\ Kept /\ Rejectable /\ Recorded /\ Settled

\* The strengthening every result below follows from.
LEMMA InductiveInvariant == Spec => []IInv
<1>1. Init => IInv
  BY ApprovalAssumption
  DEF Init, IInv, TypeOK, Labels, Statuses, Branches, Content, Verdicts, Decided,
      InProgress, Undecided, Settling, Written, CompletedWasTested, Kept, ExpiredNeverWritten,
      Rejectable, RejectedUntouched, Recorded, PublishedWasCommitted, Settled, Idle
<1>2. IInv /\ TypeOK' /\ [Next]_vars => IInv'
  BY InProgressStep, WrittenStep, KeptStep, RejectableStep, RecordedStep, SettledStep
  DEF IInv
<1> QED BY <1>1, <1>2, TypeCorrect, PTL DEF Spec

\* An action is completed only when the tests passed over a workspace that
\* held every file of its proposal (approve_action).
THEOREM CompletionIsTested == Spec => []CompletedWasTested
<1>1. IInv => CompletedWasTested
  BY DEF IInv, Written
<1> QED BY <1>1, InductiveInvariant, PTL

\* A rejected proposal is in the workspace only if an approval of it was cut
\* short (reject_action after approve_action).
THEOREM RejectionIsClean == Spec => []RejectedUntouched
<1>1. IInv => RejectedUntouched
  BY DEF IInv, Rejectable
<1> QED BY <1>1, InductiveInvariant, PTL

\* A proposal whose payload is gone was never written (approve_action).
THEOREM ExpiryIsClean == Spec => []ExpiredNeverWritten
<1>1. IInv => ExpiredNeverWritten
  BY DEF IInv, Kept
<1> QED BY <1>1, InductiveInvariant, PTL

\* A decision that ran to its end leaves no payload and no open task behind,
\* and has told the room (_finalize_action and its two callers).
THEOREM DecisionsSettle == Spec => []SettledLeavesNothingBehind
<1>1. IInv => SettledLeavesNothingBehind
  BY DEF IInv, Settled, SettledLeavesNothingBehind, Settling, Idle, At
<1> QED BY <1>1, InductiveInvariant, PTL

\* A pull request exists only for a completed action with a recorded commit
\* (create_pull_request).
THEOREM PublicationFollowsCommit == Spec => []PublishedWasCommitted
<1>1. IInv => PublishedWasCommitted
  BY DEF IInv, Recorded
<1> QED BY <1>1, InductiveInvariant, PTL

-----------------------------------------------------------------------------
Final == \A a \in Actions :
  /\ status[a] \in Decided => status'[a] = status[a]
  /\ commit[a] # None => commit'[a] = commit[a]

\* No operation decides an action, or records its commit, a second time.
LEMMA FinalStep ==
  ASSUME IInv, [Next]_vars PROVE Final
<1> USE ApprovalAssumption DEF IInv, TypeOK, InProgress, Kept, Recorded, Undecided,
                               Settling, Decided, Statuses, Branches, Idle, Final, store,
                               workspace, local, history
<1>1. ASSUME NEW a \in Actions, Proposing(a) PROVE Final
  BY <1>1 DEF Proposing, Propose, Begin, Idle, StorePayload, GoTo, At, RememberProposal,
              Remember, Item, Return
<1>2. ASSUME NEW a \in Actions, Approving(a) PROVE Final
  BY <1>2 DEF Approving, BeginApprove, Begin, Idle, CreateActionBranch, SwitchNew,
              SwitchExisting, NoSwitch, GoTo, At, WriteFile, RunTests, ApplyFails
<1>3. ASSUME NEW a \in Actions, Deciding(a) PROVE Final
  BY <1>3 DEF Deciding, BeginReject, Idle, Decide, GoTo, At, StatusOf, NoteMemory, Item,
              RememberDecision, Remember, DiscardPayload, Announce, Return
<1>4. ASSUME NEW a \in Actions, Committing(a) PROVE Final
  BY <1>4 DEF Committing, GitCommit, Begin, Idle, RecordCommit, Return, At
<1>5. ASSUME NEW a \in Actions, Publishing(a) PROVE Final
  BY <1>5 DEF Publishing, OpenPullRequest, Begin, Idle, RecordPullRequest, Return, At,
              PullRequestFails
<1>6. ASSUME NEW a \in Actions, Escape(a) PROVE Final
  BY <1>6 DEF Escape, Return
<1>7. CASE Crash
  BY <1>7 DEF Crash, Return
<1>8. CASE UNCHANGED vars
  BY <1>8 DEF vars
<1> QED BY <1>1, <1>2, <1>3, <1>4, <1>5, <1>6, <1>7, <1>8 DEF Next

\* A decision is taken once and a commit recorded once (the guards of
\* approve_action, reject_action and commit_action).
THEOREM DecisionsAreFinal == Spec => RecordsAreFinal
<1>1. IInv /\ [Next]_vars => Final
  BY FinalStep
<1> QED BY <1>1, InductiveInvariant, PTL DEF Spec, RecordsAreFinal, Final

-----------------------------------------------------------------------------
\* Every step is a step of the contract or leaves its variables alone.
LEMMA ContractStep ==
  ASSUME IInv, IInv', [Next]_vars PROVE [Contract!Next]_(Contract!vars)
<1> USE DEF IInv, Contract!vars, store, workspace, local, history
<1> DEFINE Same == UNCHANGED <<Phase, applied>>
<1>0. Same => [Contract!Next]_(Contract!vars)
  OBVIOUS
<1>1. ASSUME NEW a \in Actions, Proposing(a) PROVE Contract!Propose(a) \/ Same
  <2>1. CASE Propose(a)
    <3>1. Phase[a] = "absent" /\ Phase' = [Phase EXCEPT ![a] = "pending"]
      BY <2>1 DEF Propose, Begin, Idle, Phase, TypeOK, Recorded, PublishedWasCommitted
    <3> QED BY <2>1, <3>1 DEF Propose, Contract!Propose, Contract!Move
  <2>2. CASE StorePayload(a) \/ RememberProposal(a)
    BY <2>2 DEF StorePayload, RememberProposal, Phase
  <2> QED BY <1>1, <2>1, <2>2 DEF Proposing
<1>2. ASSUME NEW a \in Actions, Approving(a) PROVE Contract!Touch(a) \/ Same
  <2>1. CASE WriteFile(a)
    <3>1. Phase[a] = "pending" /\ Phase' = Phase
      BY <2>1 DEF WriteFile, At, Phase, InProgress, Undecided, Recorded,
                  PublishedWasCommitted
    <3> QED BY <2>1, <3>1 DEF WriteFile, Contract!Touch
  <2>2. CASE BeginApprove(a) \/ CreateActionBranch(a) \/ RunTests(a) \/ ApplyFails(a)
    BY <2>2 DEF BeginApprove, CreateActionBranch, RunTests, ApplyFails, Phase
  <2> QED BY <1>2, <2>1, <2>2 DEF Approving
<1>3. ASSUME NEW a \in Actions, Deciding(a)
      PROVE  Contract!Complete(a) \/ Contract!TurnDown(a) \/ Same
  <2>1. CASE Decide(a)
    <3>1. Phase[a] = "pending" /\ Phase' = [Phase EXCEPT ![a] = StatusOf(verdict)]
      <4>1. a \notin pulls /\ commit[a] = None /\ status[a] = "pending"
        BY <2>1 DEF Decide, At, InProgress, Undecided, Recorded, PublishedWasCommitted
      <4>2. /\ status' = [status EXCEPT ![a] = StatusOf(verdict)]
            /\ UNCHANGED <<commit, pulls>>
        BY <2>1 DEF Decide
      <4>3. status \in [Actions -> Statuses]
        BY DEF TypeOK
      <4> HIDE DEF IInv
      <4>4. Phase' = [b \in Actions |-> IF b = a THEN StatusOf(verdict) ELSE Phase[b]]
        BY <4>1, <4>2, <4>3 DEF Phase
      <4>5. DOMAIN Phase = Actions /\ Phase[a] = "pending"
        BY <4>1 DEF Phase
      <4> QED BY <4>4, <4>5
    <3>2. CASE verdict = "completed"
      BY <2>1, <3>1, <3>2
      DEF Decide, At, StatusOf, Written, Contract!Complete, Contract!Move
    <3>3. CASE verdict # "completed"
      <4>1. StatusOf(verdict) \in {"failed", "rejected"}
        BY <2>1, <3>3 DEF Decide, At, InProgress, StatusOf, Decided
      <4> QED BY <2>1, <3>1, <4>1 DEF Decide, Contract!TurnDown, Contract!Move
    <3> QED BY <3>2, <3>3
  <2>2. CASE BeginReject(a) \/ NoteMemory(a) \/ RememberDecision(a)
               \/ DiscardPayload(a) \/ Announce(a)
    BY <2>2 DEF BeginReject, NoteMemory, RememberDecision, DiscardPayload, Announce, Phase
  <2> QED BY <1>3, <2>1, <2>2 DEF Deciding
<1>4. ASSUME NEW a \in Actions, Committing(a) PROVE Contract!Commit(a) \/ Same
  <2>1. CASE RecordCommit(a)
    <3>1. Phase[a] = "completed" /\ Phase' = [Phase EXCEPT ![a] = "committed"]
      <4>1. a \notin pulls /\ commit[a] = None /\ status[a] = "completed"
        BY <2>1 DEF RecordCommit, At, InProgress, PublishedWasCommitted, Recorded
      <4>2. commit' = [commit EXCEPT ![a] = head] /\ UNCHANGED <<status, pulls>>
        BY <2>1 DEF RecordCommit
      <4>3. head # None /\ commit \in [Actions -> Branches \cup {None}]
        BY ApprovalAssumption DEF TypeOK, Branches
      <4>4. Phase' = [b \in Actions |-> IF b = a THEN "committed" ELSE Phase[b]]
        BY <4>1, <4>2, <4>3 DEF Phase
      <4>5. DOMAIN Phase = Actions
        BY DEF Phase
      <4>6. Phase[a] = "completed"
        BY <4>1 DEF Phase
      <4> QED BY <4>4, <4>5, <4>6
    <3> QED BY <2>1, <3>1 DEF RecordCommit, Contract!Commit, Contract!Move
  <2>2. CASE GitCommit(a)
    BY <2>2 DEF GitCommit, Phase
  <2> QED BY <1>4, <2>1, <2>2 DEF Committing
<1>5. ASSUME NEW a \in Actions, Publishing(a) PROVE Contract!Publish(a) \/ Same
  <2>1. CASE OpenPullRequest(a)
    <3>1. Phase[a] = "committed" /\ Phase' = [Phase EXCEPT ![a] = "published"]
      BY <2>1 DEF OpenPullRequest, Phase
    <3> QED BY <2>1, <3>1 DEF OpenPullRequest, Contract!Publish, Contract!Move
  <2>2. CASE RecordPullRequest(a) \/ PullRequestFails(a)
    BY <2>2 DEF RecordPullRequest, PullRequestFails, Phase
  <2> QED BY <1>5, <2>1, <2>2 DEF Publishing
<1>6. ASSUME NEW a \in Actions, Escape(a) PROVE Same
  BY <1>6 DEF Escape, Phase
<1>7. CASE Crash
  BY <1>7 DEF Crash, Phase
<1>8. CASE UNCHANGED vars
  BY <1>8 DEF vars, Phase
<1> HIDE DEF Same
<1> QED BY <1>0, <1>1, <1>2, <1>3, <1>4, <1>5, <1>6, <1>7, <1>8 DEF Next, Contract!Next

\* The approval flow implements its contract: touched only while pending,
\* decided once, completed only when applied, committed only when completed,
\* published only when committed (collab/service.py).
THEOREM ApprovalImplementsContract == Spec => ContractSpec
<1>1. Init => Contract!Init
  BY DEF Init, Contract!Init, Phase
<1>2. IInv /\ IInv' /\ [Next]_vars => [Contract!Next]_(Contract!vars)
  BY ContractStep
<1> QED BY <1>1, <1>2, InductiveInvariant, PTL DEF Spec, ContractSpec, Contract!Spec
=============================================================================
