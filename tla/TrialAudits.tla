---------------------------- MODULE TrialAudits ----------------------------
(***************************************************************************)
(* The reports that judge a deployment: security, deployment hardening,    *)
(* cutover, event store, target readiness, the product audit and the final *)
(* acceptance.  Each is a function of the settings and of the files it     *)
(* reads, and none of them changes anything.                               *)
(*                                                                         *)
(* A settings file is the set of the requirements it meets.  A user file   *)
(* holds accounts: "demo" stands for the seeded ones, "temporary" for the  *)
(* administrator with the generated password, "own" for the administrator  *)
(* after the password was replaced.  An evidence record is missing         *)
(* ("none"), of a failed run ("failed"), passed without everything the     *)
(* strict reports ask for ("weak"), or complete ("strong").                *)
(***************************************************************************)
EXTENDS FiniteSets

Requirements == {"production", "gate", "jwt", "credential", "origin", "unseeded",
                 "collab_sqlite", "speaker_sqlite", "workspace", "git", "paths",
                 "whisperx", "hf", "policy", "github"}

\* What the settings meet when the environment file says nothing (app/config.py).
DefaultSettings == {"gate", "github"}

Accounts == {"demo", "temporary", "own"}
Grades == {"none", "failed", "weak", "strong"}
Gates == {"mock_e2e", "real_live_backend", "real_browser_live"}
Harnesses == {"rag", "multi_agent", "external_coding_agent", "prompt_injection",
              "meeting_closure", "room_pull_request", "external_agent_smoke"}

-----------------------------------------------------------------------------
(* app/system/security.py *)

Production(good) == "production" \in good

\* A file that cannot be read or parsed counts as holding no demo account.
DefaultUsersPresent(u) == u.text = "whole" /\ "demo" \in u.accounts

JwtSecretReady(good) == "jwt" \in good
CorsReady(good) == Production(good) => "origin" \in good

\* Mutant: only the accounts in the file count, not those the start would seed.
SeedingIgnored(good, u) == ~DefaultUsersPresent(u)

DefaultUsersReady(good, u) ==
    /\ ~DefaultUsersPresent(u)
    /\ Production(good) => "unseeded" \in good

StoreBackendReady(good, backend) == Production(good) => backend \in good
WorkspaceReady(good) == Production(good) => "workspace" \in good

\* The stores write their own files with mode 0600; the user file is the one an
\* operator handles.  A missing file has no mode and is accepted.
ArtifactPathsReady(good, u) ==
    Production(good) => "paths" \in good /\ (u.text = "none" \/ u.private)

SpeakerProviderReady(good) == Production(good) => {"whisperx", "hf"} \subseteq good
CredentialsReady(good) == Production(good) => "credential" \in good
ExecutionPolicyReady(good) == Production(good) => "policy" \in good
GithubReady(good) == "github" \in good

SecurityChecks(good, u) ==
    [jwt_secret                      |-> JwtSecretReady(good),
     cors_origins                    |-> CorsReady(good),
     default_users                   |-> DefaultUsersReady(good, u),
     collab_store                    |-> StoreBackendReady(good, "collab_sqlite"),
     speaker_store                   |-> StoreBackendReady(good, "speaker_sqlite"),
     workspace_boundary              |-> WorkspaceReady(good),
     runtime_artifact_paths          |-> ArtifactPathsReady(good, u),
     speaker_provider                |-> SpeakerProviderReady(good),
     external_agent_credentials      |-> CredentialsReady(good),
     external_agent_execution_policy |-> ExecutionPolicyReady(good),
     github_side_effects             |-> GithubReady(good)]

\* All checks but the speaker provider are of critical or high severity.
Severe == {"jwt_secret", "cors_origins", "default_users", "collab_store", "speaker_store",
           "workspace_boundary", "runtime_artifact_paths", "external_agent_credentials",
           "external_agent_execution_policy", "github_side_effects"}

SecurityReady(good, u) ==
    LET checks == SecurityChecks(good, u)
    IN  \A id \in DOMAIN checks : Production(good) \/ id \in Severe => checks[id]

StartAllowed(good, u) ==
    {"production", "gate"} \subseteq good
        => \A id \in Severe : SecurityChecks(good, u)[id]

-----------------------------------------------------------------------------
(* app/collab/event_store_readiness.py, app/system/deployment.py *)

SqliteReady(db) == db = "ready"

EventStoreReady(good, db) == "collab_sqlite" \in good /\ SqliteReady(db)

GateEnforced(good, u) == {"production", "gate"} \subseteq good /\ StartAllowed(good, u)

DeploymentReady(good, u, bootstrap, db) ==
    LET checks == SecurityChecks(good, u)
    IN  /\ \A id \in Severe \ {"collab_store", "speaker_store", "workspace_boundary"} : checks[id]
        /\ bootstrap = "none"
        /\ EventStoreReady(good, db)
        /\ {"workspace", "git"} \subseteq good
        /\ GateEnforced(good, u)

-----------------------------------------------------------------------------
(* app/system/cutover.py *)

EnvFilePrivate(env) == env.text # "none" /\ env.private
ProductionMode(good) == {"production", "gate"} \subseteq good
SecretsReady(good) == {"jwt", "credential"} \subseteq good

\* Mutant: a readable file without demo accounts is enough.
AnyUsers(u) == u.text = "whole" /\ "demo" \notin u.accounts

RealUsersReady(u) ==
    /\ u.text = "whole"
    /\ "demo" \notin u.accounts
    /\ u.accounts \cap {"temporary", "own"} # {}

BootstrapRemoved(bootstrap) == bootstrap = "none"
HfTokenReplaced(good) == "hf" \in good

CutoverReady(env, u, bootstrap) ==
    /\ EnvFilePrivate(env)
    /\ ProductionMode(env.good)
    /\ SecretsReady(env.good)
    /\ RealUsersReady(u)
    /\ BootstrapRemoved(bootstrap)
    /\ HfTokenReplaced(env.good)
    /\ StartAllowed(env.good, u)

-----------------------------------------------------------------------------
(* app/system/router.py: the milestones of the target readiness report *)

EvidencePassed(grade) == grade \in {"weak", "strong"}
StrictLiveEvidencePassed(grade) == grade = "strong"
MultiSpeakerReady(verification) == verification = "multiple"

\* The speaker provider and the language model count as ready: any token does.
TargetReadiness(good, db, evidence, verification) ==
    LET git   == {"workspace", "git"} \subseteq good
        mock  == EvidencePassed(evidence["mock_e2e"])
        multi == MultiSpeakerReady(verification)
    IN  [workspace_git       |-> git,
         ai_memory_loop      |-> mock,
         approval_git_tests  |-> git /\ mock,
         durable_event_store |-> EventStoreReady(good, db),
         real_multi_speaker  |-> multi,
         real_live_backend   |-> multi /\ StrictLiveEvidencePassed(evidence["real_live_backend"]),
         real_browser_live   |-> multi /\ StrictLiveEvidencePassed(evidence["real_browser_live"])]

-----------------------------------------------------------------------------
(* scripts/product_audit.py.  ran says whether the harnesses ran, proved   *)
(* holds those whose report has no gap.                                    *)

\* Mutant: a harness that did not run leaves no gap.
NoReportNoGap(harness, ran, proved) == ran => harness \in proved

Reported(harness, ran, proved) == ran /\ harness \in proved

TeamUiItem(evidence) == evidence["mock_e2e"] = "strong"

MemoryItem(target, ran, proved) == target.ai_memory_loop /\ (ran => "rag" \in proved)

ReviewItem(ran, proved) == Reported("multi_agent", ran, proved)
BridgeItem(ran, proved) == Reported("external_coding_agent", ran, proved)
InjectionItem(ran, proved) == Reported("prompt_injection", ran, proved)

\* A meeting closure without a gap also proves the milestone, so that it is not asked for.
ApprovalItem(evidence, ran, proved) ==
    /\ evidence["mock_e2e"] # "failed"
    /\ Reported("meeting_closure", ran, proved)
    /\ Reported("room_pull_request", ran, proved)

HandoffItem(ran, proved) == Reported("meeting_closure", ran, proved)

SpeakersItem(target) ==
    target.real_multi_speaker /\ target.real_live_backend /\ target.real_browser_live

RuntimeItem(target) == target.workspace_git /\ target.durable_event_store

ProductReady(target, evidence, ran, proved) ==
    /\ SpeakersItem(target)
    /\ RuntimeItem(target)
    /\ TeamUiItem(evidence)
    /\ MemoryItem(target, ran, proved)
    /\ ReviewItem(ran, proved)
    /\ BridgeItem(ran, proved)
    /\ InjectionItem(ran, proved)
    /\ ApprovalItem(evidence, ran, proved)
    /\ HandoffItem(ran, proved)

-----------------------------------------------------------------------------
(* scripts/final_acceptance_audit.py.  tree says that the checkout is      *)
(* whole: the files and documents it asks for, onboarding, hygiene.        *)

\* The event store's own milestone is excused here, but not by the product audit.
SourceAuditsCoherent(target, product, tree) ==
    /\ product
    /\ \A id \in DOMAIN target \ {"durable_event_store"} : target[id]
    /\ tree

SpeakerIdentityItem(target, evidence, tree) ==
    SpeakersItem(target) /\ TeamUiItem(evidence) /\ tree

FinalApprovalItem(target, evidence, ran, proved, tree) ==
    ApprovalItem(evidence, ran, proved) /\ target.approval_git_tests /\ tree

ExternalProviderItem(ran, proved, tree) ==
    /\ BridgeItem(ran, proved)
    /\ Reported("external_agent_smoke", ran, proved)
    /\ tree

FinalAccepted(target, evidence, ran, proved, tree) ==
    /\ SourceAuditsCoherent(target, ProductReady(target, evidence, ran, proved), tree)
    /\ SpeakerIdentityItem(target, evidence, tree)
    /\ FinalApprovalItem(target, evidence, ran, proved, tree)
    /\ ExternalProviderItem(ran, proved, tree)
=============================================================================
