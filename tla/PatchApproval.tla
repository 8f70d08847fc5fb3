--------------------------- MODULE PatchApproval ---------------------------
(***************************************************************************)
(* The approval-first lifecycle of a code-changing action: proposed by an  *)
(* agent, approved or rejected by a teammate, committed, published as a    *)
(* pull request (collab/service.py, with the collaboration store and the   *)
(* git workspace it drives).                                               *)
(*                                                                         *)
(* Every operation is a synchronous method called from an `async def`      *)
(* route, so it holds the one event loop from its first line to its last:  *)
(* `pc` and `subject` are the position and the action of the one operation *)
(* in progress.  Each store call persists on its own, and the process may  *)
(* die, or an exception the code does not catch may escape, between two of *)
(* them.  Store, workspace and GitHub survive; `cached` does not.          *)
(*                                                                         *)
(* Left out: texts, ids and metadata, and the messages that tell the room  *)
(* of a commit or a pull request, which no state depends on.               *)
(***************************************************************************)
EXTENDS FiniteSets

CONSTANTS Actions,  \* the patch actions that may be proposed
          Files,    \* the workspace files patches touch
          FilesOf,  \* FilesOf[a]: the files of a's approval payload
          Main,     \* the branch checked out at first
          Base,     \* the content files have before any patch
          None,     \* no action, no commit
          Crashes,  \* whether the process may die
          GitFails  \* whether git may fail to switch branches

ASSUME ApprovalAssumption ==
  /\ FilesOf \in [Actions -> (SUBSET Files) \ {{}}]
  /\ {Main, Base, None} \cap Actions = {}
  /\ None # Main
  /\ Crashes \in BOOLEAN /\ GitFails \in BOOLEAN

Branches == Actions \cup {Main}        \* an action's branch is named after it
Content  == Actions \cup {Base}        \* whose version of a file it is
Decided  == {"completed", "failed", "rejected"}
Statuses == {"absent", "pending"} \cup Decided
\* What an operation decided; "aborted" is a failure before the tests ran.
Verdicts == {"pending", "aborted"} \cup Decided
StatusOf(v) == IF v = "aborted" THEN "failed" ELSE v

VARIABLES
  status,    \* status of each action in the collaboration store
  commit,    \* the branch that holds each action's commit_sha, or None
  pr,        \* approval.pull_request of each action
  payloads,  \* actions with an approval payload in the store
  cached,    \* actions with a payload in the service's memory
  memory,    \* memory items that come from actions
  announced, \* actions whose decision an agent message told the room
  gitRepo,   \* is the configured workspace a git repository?
  branches,  \* existing branches
  tip,       \* tip[b][f]: committed content of f on branch b
  head,      \* the branch checked out
  tree,      \* content of each file in the working tree
  pulls,     \* actions whose branch has a pull request on GitHub
  pc, subject, todo, verdict,  \* the operation in progress
  interrupted,  \* history: actions with an operation cut short
  applied,      \* history: actions with a file written to the workspace
  green         \* history: actions whose tests passed over all their files

store     == <<status, commit, pr, payloads, memory, announced>>
workspace == <<gitRepo, branches, tip, head, tree>>
local     == <<pc, subject, todo, verdict>>
history   == <<interrupted, applied, green>>
vars      == <<store, cached, workspace, pulls, local, history>>

ProposalText(a)    == <<"proposal", FilesOf[a]>>
\* Only a branch name tells the summaries of two approvals apart.
DecisionText(a, v) == IF v \in {"rejected", "aborted"} THEN <<v>>
                      ELSE <<v, IF gitRepo THEN {a} ELSE FilesOf[a]>>
Item(t, a, s)      == [text |-> t, source |-> a, status |-> s]

\* append_memory keeps the first item of a text and drops the later ones.
Remember(item) ==
  memory' = IF \E m \in memory : m.text = item.text THEN memory
            ELSE memory \cup {item}

Idle == pc = "idle"
At(label, a) == pc = label /\ subject = a
GoTo(label) == pc' = label /\ UNCHANGED <<subject, todo, verdict>>
Begin(label, a) ==
  /\ Idle
  /\ pc' = label /\ subject' = a /\ todo' = FilesOf[a] /\ verdict' = "pending"
Return == pc' = "idle" /\ subject' = None /\ todo' = {} /\ verdict' = "pending"
-----------------------------------------------------------------------------
Init ==
  /\ status = [a \in Actions |-> "absent"]
  /\ commit = [a \in Actions |-> None]
  /\ pr = [a \in Actions |-> "none"]
  /\ payloads = {} /\ cached = {} /\ memory = {} /\ announced = {}
  /\ gitRepo \in BOOLEAN
  /\ branches = {Main} /\ head = Main
  /\ tip = [b \in Branches |-> [f \in Files |-> Base]]
  /\ tree = [f \in Files |-> Base]
  /\ pulls = {}
  /\ pc = "idle" /\ subject = None /\ todo = {} /\ verdict = "pending"
  /\ interrupted = {} /\ applied = {} /\ green = {}
-----------------------------------------------------------------------------
(* add_action: three persisted steps; the payload comes after the action.  *)
Propose(a) ==
  /\ status[a] = "absent"
  /\ Begin("payload", a)
  /\ status' = [status EXCEPT ![a] = "pending"]
  /\ UNCHANGED <<commit, pr, payloads, memory, announced, cached, workspace, pulls, history>>

StorePayload(a) ==
  /\ At("payload", a)
  /\ payloads' = payloads \cup {a} /\ cached' = cached \cup {a}
  /\ GoTo("remember")
  /\ UNCHANGED <<status, commit, pr, memory, announced, workspace, pulls, history>>

RememberProposal(a) ==
  /\ At("remember", a)
  /\ Remember(Item(ProposalText(a), a, "open"))
  /\ Return
  /\ UNCHANGED <<status, commit, pr, payloads, announced, cached, workspace, pulls, history>>
-----------------------------------------------------------------------------
(* approve_action                                                          *)
\* Mutant: only the payload is checked, not the status.
ApproveAnyPayload(a) ==
  /\ a \in payloads \cup cached
  /\ Begin("switch", a)
  /\ UNCHANGED <<store, cached, workspace, pulls, history>>

BeginApprove(a) ==
  /\ status[a] = "pending"
  /\ a \in payloads \cup cached
  /\ Begin("switch", a)
  /\ UNCHANGED <<store, cached, workspace, pulls, history>>

\* git refuses to switch over an uncommitted change to a file that differs
\* between the two commits, and carries the other uncommitted changes along.
Dirty(f) == tree[f] # tip[head][f]
CanSwitch(a) == \A f \in Files : Dirty(f) => tip[a][f] = tip[head][f]

SwitchNew(a) ==
  /\ gitRepo /\ a \notin branches
  /\ branches' = branches \cup {a}
  /\ tip' = [tip EXCEPT ![a] = tip[head]]
  /\ head' = a
  /\ UNCHANGED <<gitRepo, tree>>

SwitchExisting(a) ==
  /\ gitRepo /\ a \in branches /\ CanSwitch(a)
  /\ head' = a
  /\ tree' = [f \in Files |-> IF Dirty(f) THEN tree[f] ELSE tip[a][f]]
  /\ UNCHANGED <<gitRepo, branches, tip>>

\* Not a repository, or git failed: only a warning, the approval goes on.
NoSwitch == (gitRepo => GitFails) /\ UNCHANGED workspace

CreateActionBranch(a) ==
  /\ At("switch", a)
  /\ SwitchNew(a) \/ SwitchExisting(a) \/ NoSwitch
  /\ GoTo("write")
  /\ UNCHANGED <<store, cached, pulls, history>>

WriteFile(a) ==
  /\ At("write", a)
  /\ \E f \in todo :
       /\ tree' = [tree EXCEPT ![f] = a]
       /\ todo' = todo \ {f}
  /\ applied' = applied \cup {a}
  /\ UNCHANGED <<store, cached, gitRepo, branches, tip, head, pulls,
                 pc, subject, verdict, interrupted, green>>

\* Mutant: the tests may run before the last file is written.
RunTestsEarly(a) ==
  /\ At("write", a)
  /\ pc' = "decide"
  /\ verdict' \in {"completed", "failed"}
  /\ green' = IF verdict' = "completed" /\ \A f \in FilesOf[a] : tree[f] = a
              THEN green \cup {a} ELSE green
  /\ UNCHANGED <<store, cached, workspace, pulls, subject, todo, interrupted, applied>>

RunTests(a) ==
  /\ At("write", a) /\ todo = {}
  /\ pc' = "decide"
  /\ verdict' \in {"completed", "failed"}
  /\ green' = IF verdict' = "completed" /\ \A f \in FilesOf[a] : tree[f] = a
              THEN green \cup {a} ELSE green
  /\ UNCHANGED <<store, cached, workspace, pulls, subject, todo, interrupted, applied>>

\* Mutant: the error is reported to the caller and the action stays pending.
ApplyFailsQuietly(a) ==
  /\ At("switch", a) \/ At("write", a)
  /\ Return
  /\ UNCHANGED <<store, cached, workspace, pulls, history>>

\* A WorkspaceError: no workspace, a path outside it, or a test command that
\* validate_command refuses.  Files already written stay written.
ApplyFails(a) ==
  /\ At("switch", a) \/ At("write", a)
  /\ pc' = "decide" /\ verdict' = "aborted"
  /\ UNCHANGED <<store, cached, workspace, pulls, subject, todo, history>>

(* reject_action                                                           *)
BeginReject(a) ==
  /\ status[a] = "pending"
  /\ Idle
  /\ pc' = "decide" /\ subject' = a /\ todo' = {} /\ verdict' = "rejected"
  /\ UNCHANGED <<store, cached, workspace, pulls, history>>

(* _finalize_action, then the payload and the message of both callers.     *)
Decide(a) ==
  /\ At("decide", a)
  /\ status' = [status EXCEPT ![a] = StatusOf(verdict)]
  /\ GoTo("note")
  /\ UNCHANGED <<commit, pr, payloads, memory, announced, cached, workspace, pulls, history>>

\* Mutant: the open task of the proposal is left alone.
ForgetMemory(a) ==
  /\ At("note", a)
  /\ GoTo("capture")
  /\ UNCHANGED <<store, cached, workspace, pulls, history>>

NoteMemory(a) ==
  /\ At("note", a)
  /\ memory' = {IF m.source = a THEN Item(m.text, a, "noted") ELSE m : m \in memory}
  /\ GoTo("capture")
  /\ UNCHANGED <<status, commit, pr, payloads, announced, cached, workspace, pulls, history>>

RememberDecision(a) ==
  /\ At("capture", a)
  /\ Remember(Item(DecisionText(a, verdict), a, "noted"))
  /\ GoTo("discard")
  /\ UNCHANGED <<status, commit, pr, payloads, announced, cached, workspace, pulls, history>>

DiscardPayload(a) ==
  /\ At("discard", a)
  /\ payloads' = payloads \ {a} /\ cached' = cached \ {a}
  /\ GoTo("announce")
  /\ UNCHANGED <<status, commit, pr, memory, announced, workspace, pulls, history>>

Announce(a) ==
  /\ At("announce", a)
  /\ announced' = announced \cup {a}
  /\ Return
  /\ UNCHANGED <<status, commit, pr, payloads, memory, cached, workspace, pulls, history>>
-----------------------------------------------------------------------------
(* commit_action: git commit on whatever branch is checked out.            *)
GitCommit(a) ==
  /\ status[a] = "completed" /\ commit[a] = None
  /\ gitRepo
  /\ \E f \in FilesOf[a] : Dirty(f)      \* else "No staged changes"
  /\ Begin("sha", a)
  /\ tip' = [tip EXCEPT ![head] =
               [f \in Files |-> IF f \in FilesOf[a] THEN tree[f] ELSE tip[head][f]]]
  /\ UNCHANGED <<store, cached, gitRepo, branches, head, tree, pulls, history>>

RecordCommit(a) ==
  /\ At("sha", a)
  /\ commit' = [commit EXCEPT ![a] = head]
  /\ Return
  /\ UNCHANGED <<status, pr, payloads, memory, announced, cached, workspace, pulls, history>>
-----------------------------------------------------------------------------
(* create_pull_request_plan with dry_run off.  A plan with blockers, gh    *)
(* not authenticated, a push or a creation that fails: all are recorded.   *)

OpenPullRequest(a) ==
  /\ status[a] = "completed" /\ commit[a] # None
  /\ a \in branches /\ a \notin pulls     \* gh opens one per pushed branch
  /\ Begin("opened", a)
  /\ pulls' = pulls \cup {a}
  /\ UNCHANGED <<store, cached, workspace, history>>

RecordPullRequest(a) ==
  /\ At("opened", a)
  /\ pr' = [pr EXCEPT ![a] = "created"]
  /\ Return
  /\ UNCHANGED <<status, commit, payloads, memory, announced, cached, workspace, pulls, history>>

PullRequestFails(a) ==
  /\ status[a] = "completed"
  /\ Idle
  /\ pr' = [pr EXCEPT ![a] = "failed"]
  /\ UNCHANGED <<status, commit, payloads, memory, announced, cached, workspace, pulls, local, history>>
-----------------------------------------------------------------------------
(* subprocess.TimeoutExpired and OSError are not WorkspaceErrors: they     *)
(* leave the handler as a 500 and nothing else of it runs.                 *)
Escape(a) ==
  /\ subject = a
  /\ \/ pc \in {"switch", "write", "sha", "opened"}
     \/ pc = "decide" /\ verdict \in {"completed", "failed"}  \* git diff
  /\ interrupted' = interrupted \cup {a}
  /\ Return
  /\ UNCHANGED <<store, cached, workspace, pulls, applied, green>>

Crash ==
  /\ Crashes
  /\ interrupted' = interrupted \cup ({subject} \ {None})
  /\ cached' = {}
  /\ Return
  /\ UNCHANGED <<store, workspace, pulls, applied, green>>

Proposing(a) == Propose(a) \/ StorePayload(a) \/ RememberProposal(a)
Approving(a) == BeginApprove(a) \/ CreateActionBranch(a) \/ WriteFile(a)
                  \/ RunTests(a) \/ ApplyFails(a)
Deciding(a) == BeginReject(a) \/ Decide(a) \/ NoteMemory(a)
                 \/ RememberDecision(a) \/ DiscardPayload(a) \/ Announce(a)
Committing(a) == GitCommit(a) \/ RecordCommit(a)
Publishing(a) == OpenPullRequest(a) \/ RecordPullRequest(a) \/ PullRequestFails(a)

Next ==
  \/ \E a \in Actions :
       Proposing(a) \/ Approving(a) \/ Deciding(a)
         \/ Committing(a) \/ Publishing(a) \/ Escape(a)
  \/ Crash

Spec == Init /\ [][Next]_vars
-----------------------------------------------------------------------------
Labels == {"idle", "payload", "remember", "switch", "write", "decide", "note", "capture",
           "discard", "announce", "sha", "opened"}

\* Every variable ranges over what the code can store in it.
TypeOK ==
  /\ status \in [Actions -> Statuses]
  /\ commit \in [Actions -> Branches \cup {None}]
  /\ pr \in [Actions -> {"none", "created", "failed"}]
  /\ payloads \subseteq Actions /\ cached \subseteq Actions
  /\ \A m \in memory : m.source \in Actions /\ m.status \in {"open", "noted"}
  /\ gitRepo \in BOOLEAN /\ branches \subseteq Branches /\ head \in Branches
  /\ tip \in [Branches -> [Files -> Content]] /\ tree \in [Files -> Content]
  /\ pulls \subseteq Actions /\ announced \subseteq Actions
  /\ pc \in Labels /\ subject \in Actions \cup {None}
  /\ todo \subseteq Files /\ verdict \in Verdicts
  /\ interrupted \subseteq Actions /\ applied \subseteq Actions /\ green \subseteq Actions

\* A decision is taken once and a commit recorded once, whatever is retried
\* after a crash between two stores (the status guards of approve, reject
\* and commit, and the commit_sha guard).
RecordsAreFinal ==
  [][\A a \in Actions :
       /\ status[a] \in Decided => status'[a] = status[a]
       /\ commit[a] # None => commit'[a] = commit[a]]_vars

\* An action is "completed" only if its tests passed over a workspace that
\* held every file of its own proposal (approve_action's order of steps).
CompletedWasTested == \A a \in Actions : status[a] = "completed" => a \in green

\* A rejected proposal is in the workspace only if an approval of it died
\* after writing: reject never follows a whole approval.
RejectedUntouched ==
  \A a \in Actions : status[a] = "rejected" /\ a \in applied => a \in interrupted

\* The payload outlives every approval attempt: a proposal that can no
\* longer be approved ("expired") was never written to the workspace.
ExpiredNeverWritten ==
  \A a \in Actions : status[a] = "pending" /\ a \notin payloads => a \notin applied

\* A decision whose handler ran to its end leaves no payload, no open task
\* in memory, and an agent message that tells the room.
SettledLeavesNothingBehind ==
  Idle => \A a \in Actions \ interrupted :
    status[a] \in Decided =>
      /\ a \notin payloads \cup cached
      /\ ~ \E m \in memory : m.source = a /\ m.status = "open"
      /\ a \in announced

\* Whatever was cut short, a pull request exists only for a completed
\* action with a recorded commit (the blockers of build_pull_request_plan).
PublishedWasCommitted ==
  \A a \in pulls : status[a] = "completed" /\ commit[a] # None

\* How far each action got.
Phase == [a \in Actions |-> IF a \in pulls THEN "published"
                            ELSE IF commit[a] # None THEN "committed"
                            ELSE status[a]]

\* What the approval flow promises, step by step: approve, reject, commit and
\* the pull request implement the contract through every fault.
Contract == INSTANCE ApprovalContract WITH phase <- Phase, touched <- applied
ContractSpec == Contract!Spec
-----------------------------------------------------------------------------
(* What the repository's documents say and the code does not do.           *)

=============================================================================
