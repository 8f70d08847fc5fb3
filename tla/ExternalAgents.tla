--------------------------- MODULE ExternalAgents ---------------------------
(***************************************************************************)
(* External coding agents (backend/app/external_agents): what a user has   *)
(* connected, the OAuth exchanges under way, and what follows from them -  *)
(* which modes are ready, what a run answers, which provider is            *)
(* recommended and what the setup guide asks for.                          *)
(*                                                                         *)
(* The handlers run on the event loop; only the token exchange waits.  A   *)
(* run changes nothing here: its proposal enters the room as an action     *)
(* (PatchApproval).                                                        *)
(***************************************************************************)
EXTENDS Integers, FiniteSets

CONSTANTS
  Users,
  Flows,        \* OAuth states the server may give out, the first of them first
  SettingsSet,  \* the settings a process may be started with
  Commands,     \* the commands users connect
  MaxConnects,  \* credentials connected or disconnected by other means
  None

Providers == {"claude", "codex", "cursor", "local"}
ReadOnly == {"explain", "review", "test"}
Modes == ReadOnly \cup {"patch"}
Auths == {"api_key", "oauth", "local_cli"}

\* "configured" stands for the client and token endpoint of every provider; a workspace that
\* is set may be gone, or have no app.py, for readiness, which expands "~" and looks from the
\* working directory; "resolved" says whether resolve_configured_workspace finds it, which
\* looks from the repository's root; "installed" says whether the CLIs are on the PATH.
Settings == {s \in [allowed : SUBSET Providers, api : BOOLEAN, cli : BOOLEAN, mock : BOOLEAN,
                    configured : BOOLEAN, workspace : {"unset", "gone", "bare", "app"},
                    resolved : BOOLEAN, installed : BOOLEAN] :
               s.resolved => s.workspace # "unset"}

\* Of a command: how readiness looks for it, and what a run makes of the line it starts, which
\* is the command or its template. The runtime's list has python, pytest, pip and git's reading
\* subcommands: the providers' own commands are "unlisted". A "lost" line starts nothing though
\* the command may be found: "~" is not expanded for it, it runs in the copy of the workspace,
\* and the template may name another executable.
Found == {"named", "relative"}
Lines == {"listed", "unlisted", "lost"}

ASSUME CommandsAssumption == Commands \subseteq Found \X Lines
ASSUME SettingsAssumption == SettingsSet \subseteq Settings /\ SettingsSet # {}
ASSUME FlowsAssumption == Flows \subseteq Nat /\ None \notin Flows /\ MaxConnects \in Nat

VARIABLES
  creds,    \* the credential of a user and provider, or NoCred
  flows,    \* the OAuth states
  uses,     \* how often a flow has stored a credential
  settings, \* of the running process
  secret,   \* the secret its credentials are sealed with, an ordinal
  connects

agentsVars == <<creds, flows, uses, settings, secret, connects>>

NoCred == [auth |-> "none", command |-> "none", line |-> "none", flow |-> None, sealed |-> 0]
Creds == [auth : Auths, command : Found \cup {"none"}, line : Lines \cup {"none"},
          flow : Flows \cup {None}, sealed : 1..2] \cup {NoCred}
Stages == {"unused", "pending", "exchanging", "over"}
NoFlow == [stage |-> "unused", user |-> None, provider |-> "claude", mode |-> "mock", old |-> FALSE]

AgentsInit ==
  /\ creds = [u \in Users |-> [p \in Providers |-> NoCred]]
  /\ flows = [f \in Flows |-> NoFlow] /\ uses = [f \in Flows |-> 0]
  /\ settings \in SettingsSet /\ secret = 1 /\ connects = 0

\* _provider_auth_methods
Supported(p) == IF p \in {"cursor", "local"} THEN {"local_cli"} ELSE Auths

Allowed(p) == p \in settings.allowed
-----------------------------------------------------------------------------
(* Connecting.                                                             *)

\* connect_api_key, connect_local_cli: the user's credential of the provider is replaced.
Connect(u, p, auth, command, line) ==
  /\ Allowed(p) /\ auth \in Supported(p) /\ connects < MaxConnects
  /\ creds' = [creds EXCEPT ![u][p] = [auth |-> auth, command |-> command, line |-> line,
                                       flow |-> None, sealed |-> secret]]
  /\ connects' = connects + 1
  /\ UNCHANGED <<flows, uses, settings, secret>>

Disconnect(u, p) ==
  /\ Allowed(p) /\ creds[u][p] # NoCred /\ connects < MaxConnects
  /\ creds' = [creds EXCEPT ![u][p] = NoCred]
  /\ connects' = connects + 1
  /\ UNCHANGED <<flows, uses, settings, secret>>

\* _prune_expired_oauth_states
Pruned ==
  [f \in Flows |-> IF flows[f].stage = "pending" /\ flows[f].old
                   THEN [flows[f] EXCEPT !.stage = "over"] ELSE flows[f]]

\* Without a client and a token endpoint the exchange is a mock, if that is enabled.
StartOAuth(u, p, f) ==
  /\ Allowed(p) /\ "oauth" \in Supported(p) /\ (settings.configured \/ settings.mock)
  /\ flows[f].stage = "unused" /\ \A g \in Flows : g < f => flows[g].stage # "unused"
  /\ flows' = [Pruned EXCEPT ![f] =
                 [stage |-> "pending", user |-> u, provider |-> p, old |-> FALSE,
                  mode |-> IF settings.configured THEN "configured" ELSE "mock"]]
  /\ UNCHANGED <<creds, uses, settings, secret, connects>>

\* Ten minutes pass, for the first of the flows first.
Expire(f) ==
  /\ flows[f].stage = "pending" /\ ~flows[f].old
  /\ \A g \in Flows : g < f /\ flows[g].stage = "pending" => flows[g].old
  /\ flows' = [flows EXCEPT ![f].old = TRUE]
  /\ UNCHANGED <<creds, uses, settings, secret, connects>>

Store(f) ==
  /\ creds' = [creds EXCEPT ![flows[f].user][flows[f].provider] =
                 [auth |-> "oauth", command |-> "none", line |-> "none", flow |-> f,
                  sealed |-> secret]]
  /\ uses' = [uses EXCEPT ![f] = @ + 1]

Matches(f, u, p) == flows[f].user = u /\ flows[f].provider = p

CallbackKeeps(u, p, f) ==   \* mutant
  /\ Allowed(p) /\ Pruned[f].stage = "pending"
  /\ IF Matches(f, u, p) /\ flows[f].mode = "mock"
     THEN Store(f) /\ flows' = Pruned
     ELSE /\ UNCHANGED <<creds, uses>>
          /\ flows' = [Pruned EXCEPT ![f].stage = IF Matches(f, u, p) THEN "exchanging" ELSE "over"]
  /\ UNCHANGED <<settings, secret, connects>>

\* complete_oauth: the state is taken, whoever brings it, and then checked.
Callback(u, p, f) ==
  /\ Allowed(p) /\ Pruned[f].stage = "pending"
  /\ IF Matches(f, u, p) /\ flows[f].mode = "mock"
     THEN Store(f) /\ flows' = [Pruned EXCEPT ![f].stage = "over"]
     ELSE /\ UNCHANGED <<creds, uses>>
          /\ flows' = [Pruned EXCEPT ![f].stage = IF Matches(f, u, p) THEN "exchanging" ELSE "over"]
  /\ UNCHANGED <<settings, secret, connects>>

\* One that was taken, or is too old, is answered with an error.
CallbackRefused(p, f) ==
  /\ Allowed(p) /\ Pruned[f].stage # "pending" /\ flows' = Pruned
  /\ UNCHANGED <<creds, uses, settings, secret, connects>>

\* The token endpoint answers, or does not; what the user connected meanwhile is replaced.
Exchanged(f) ==
  /\ flows[f].stage = "exchanging"
  /\ flows' = [flows EXCEPT ![f].stage = "over"]
  /\ Store(f) \/ UNCHANGED <<creds, uses>>
  /\ UNCHANGED <<settings, secret, connects>>

\* Flows are lost; the secret may be another one now.
Restart ==
  /\ flows' = [f \in Flows |-> IF flows[f].stage = "unused" THEN flows[f]
                               ELSE [flows[f] EXCEPT !.stage = "over"]]
  /\ settings' \in SettingsSet /\ secret' \in secret..2
  /\ UNCHANGED <<creds, uses, connects>>

AgentsNext ==
  \/ \E u \in Users, p \in Providers :
       \/ Connect(u, p, "api_key", "none", "none")
       \/ \E c \in Commands : Connect(u, p, "local_cli", c[1], c[2])
       \/ Disconnect(u, p)
       \/ \E f \in Flows : StartOAuth(u, p, f) \/ Callback(u, p, f)
  \/ \E f \in Flows : Expire(f) \/ Exchanged(f) \/ \E p \in Providers : CallbackRefused(p, f)
  \/ Restart

AgentsSpec == AgentsInit /\ [][AgentsNext]_agentsVars
-----------------------------------------------------------------------------
(* What is ready, under settings s with credential c.                      *)

ByToken(c) == c.auth \in {"api_key", "oauth"}

\* _cli_status; a relative command is only looked for when it runs.
CliAvailable(s, c) == IF c.command = "relative" THEN "unknown"
                      ELSE IF s.installed THEN "yes" ELSE "no"

CliMissing(s, c) == s.cli /\ CliAvailable(s, c) = "no"

\* _read_only_mode_readiness
ReadOnlyReady(s, c) == c # NoCred /\ (ByToken(c) \/ ~CliMissing(s, c))

PatchReadyByToken(s, c) ==   \* mutant
  /\ c # NoCred /\ s.workspace \in {"bare", "app"}
  /\ s.cli \/ s.workspace = "app"
  /\ ~CliMissing(s, c)

\* _patch_mode_readiness
PatchReady(s, c) ==
  /\ c.auth = "local_cli" /\ s.workspace \in {"bare", "app"}
  /\ s.cli \/ s.workspace = "app"
  /\ ~CliMissing(s, c)

Ready(s, c, m) == IF m = "patch" THEN PatchReady(s, c) ELSE ReadOnlyReady(s, c)

\* A mode is ready with a warning where a mock answers, or a command cannot be looked for.
Warned(s, c, m) ==
  /\ Ready(s, c, m)
  /\ IF ByToken(c) THEN ~s.api ELSE ~s.cli \/ CliAvailable(s, c) = "unknown"

\* _provider_preflight
State(s, c) ==
  LET blocked == {m \in Modes : ~Ready(s, c, m)}
  IN IF blocked = Modes THEN "blocked" ELSE IF blocked # {} THEN "degraded"
     ELSE IF \E m \in Modes : Warned(s, c, m) THEN "warning" ELSE "ready"

\* What run may answer: a status of the run, or an error.
\* ExternalCodingAgentAdapter: the command, on the list or not, works on a copy and must leave
\* a change there. One that is not there and one that takes too long are a bad gateway; what
\* else the copy or the start raises is not caught.
CliPatch(s, c) ==
  IF ~s.resolved THEN {"bad gateway"}
  ELSE {"bad gateway", "error"} \cup IF c.line = "lost" THEN {} ELSE {"pending_approval"}

\* Without command execution the demonstration's app.py is patched, if it can be read.
ProposePatch(s, c) ==
  IF c.auth # "local_cli" \/ s.workspace \in {"unset", "gone"} THEN {"conflict"}
  ELSE IF s.cli THEN CliPatch(s, c)
  ELSE IF s.workspace = "app" THEN {"pending_approval", "error"} ELSE {"conflict"}

\* HTTP errors are caught, an answer that is not JSON is not.
CallApi == {"completed", "failed", "error"}

\* run_read_only_command, validate_command: no workspace, and a line that is not on the list,
\* fail; that the copy fails or the executable is not there is not caught.
RunCommand(s, c) ==
  IF ~s.resolved THEN {"failed"}
  ELSE {"failed", "error"} \cup IF c.line = "listed" THEN {"completed"} ELSE {}

\* The adapters that are not enabled are mocks.
RunReadOnly(s, p, c) ==
  CASE ByToken(c) /\ s.api /\ p \in {"claude", "codex"} -> CallApi
    [] c.auth = "local_cli" /\ s.cli -> RunCommand(s, c)
    [] OTHER -> {"completed"}

\* decrypt_payload
Opens(c) == c.sealed = secret

Run(s, p, c, m) ==
  IF ~Ready(s, c, m) \/ c = NoCred \/ ~Opens(c) THEN {"conflict"}
  ELSE IF m = "patch" THEN ProposePatch(s, c) ELSE RunReadOnly(s, p, c)
-----------------------------------------------------------------------------
(* recommend                                                               *)

TaskKinds == {"explain_code", "find_bug", "review_patch", "write_patch", "run_tests",
              "summarize_changes", "git_status"}

\* _mode_for_task_kind
ModeFor(k) ==
  CASE k = "write_patch" -> "patch" [] k = "run_tests" -> "test"
    [] k \in {"find_bug", "review_patch"} -> "review" [] OTHER -> "explain"

\* _classify_task_kind: a mode asked for decides the kind, but "explain" leaves it to the
\* words of the task.
Asked == {<<k, ModeFor(k)>> : k \in TaskKinds} \cup {<<k, "explain">> : k \in TaskKinds}

Aptitude(k, p) ==
  CASE k \in {"explain_code", "find_bug", "review_patch"} ->
         (CASE p = "claude" -> 12 [] p = "codex" -> 10 [] OTHER -> 0)
    [] k \in {"write_patch", "run_tests"} ->
         (CASE p = "codex" -> 12 [] p = "local" -> 10 [] p = "cursor" -> 8 [] OTHER -> 0)
    [] OTHER -> (CASE p = "codex" -> 8 [] p = "cursor" -> 6 [] OTHER -> 0)

If(condition, points) == IF condition THEN points ELSE 0

ScoreFlat(s, p, c, k, m, preferred) ==   \* mutant
  If(c # NoCred, 40) + If(Ready(s, c, m), 25) + If(p = preferred, 30)
  + If(k = "write_patch" /\ c.auth = "local_cli", 20) + Aptitude(k, p)

\* _score_recommendation_candidate
Score(s, p, c, k, m, preferred) ==
  If(c # NoCred, 40) + If(Ready(s, c, m), 35) + If(p = preferred, 30)
  + If(k = "write_patch" /\ c.auth = "local_cli", 20) + Aptitude(k, p)

\* Providers that may be first after the sort; of equal ones it is the first declared.
Best(s, cred, k, m, preferred) ==
  LET scored == {<<p, Score(s, p, cred[p], k, m, preferred)>> : p \in s.allowed}
  IN {x[1] : x \in {y \in scored : \A z \in scored : z[2] <= y[2]}}
-----------------------------------------------------------------------------
(* _provider_setup_guide                                                   *)

\* With a command connected: the workspace, the command and its execution, in this order; a
\* workspace that is gone is noticed last.
CliGuide(s, c) ==
  IF s.workspace = "unset" THEN "workspace"
  ELSE IF CliMissing(s, c) THEN "install"
  ELSE IF ~s.cli THEN "enable_cli"
  ELSE IF s.workspace = "gone" THEN "workspace" ELSE "ready"

\* The next step it names for a provider.
Guide(s, c) ==
  IF c = NoCred THEN "connect"
  ELSE IF ~ByToken(c) THEN CliGuide(s, c)
  ELSE IF s.workspace = "unset" THEN "read_only" ELSE "connect_cli"

\* What the settings and the credential are when a step is taken.
SetUp(s, step) ==
  [s EXCEPT !.workspace = IF step = "workspace" THEN "bare" ELSE @,
            !.resolved = @ \/ step = "workspace",
            !.installed = @ \/ step = "install",
            !.cli = @ \/ step = "enable_cli"]

WithCli(c, step) ==
  IF step \in {"connect", "connect_cli"}
  THEN [auth |-> "local_cli", command |-> "named", line |-> "unlisted", flow |-> None,
        sealed |-> secret]
  ELSE c

Follow(x) ==
  LET step == Guide(x[1], x[2]) IN <<SetUp(x[1], step), WithCli(x[2], step)>>
-----------------------------------------------------------------------------
\* Types; and a credential is of a kind its provider supports.
AgentsTypeOK ==
  /\ creds \in [Users -> [Providers -> Creds]]
  /\ \A u \in Users, p \in Providers : creds[u][p] # NoCred => creds[u][p].auth \in Supported(p)
  /\ flows \in [Flows -> [stage : Stages, user : Users \cup {None}, provider : Providers,
                          mode : {"mock", "configured"}, old : BOOLEAN]]
  /\ \A f \in Flows : flows[f].stage # "unused" =>
       flows[f].user \in Users /\ "oauth" \in Supported(flows[f].provider)
  /\ uses \in [Flows -> Nat] /\ settings \in SettingsSet /\ secret \in 1..2
  /\ connects \in 0..MaxConnects

\* An OAuth state stores one credential at most, that of the user who began it for the
\* provider it was begun for, and none when it has expired, however often, by whomever and
\* in whatever order callbacks come, exchanges end, and other credentials are connected.
OAuthOnce ==
  /\ \A f \in Flows : uses[f] <= 1 /\ (uses[f] = 1 => ~flows[f].old /\ flows[f].stage = "over")
  /\ \A u \in Users, p \in Providers :
       LET f == creds[u][p].flow IN f # None => uses[f] = 1 /\ Matches(f, u, p)

\* What readiness does not look at when commands are executed: whether the run finds the
\* workspace, and what it makes of the line it starts, which for the modes that read has to
\* be on the list.
Overlooked(s, c, m) ==
  /\ c.auth = "local_cli" /\ s.cli
  /\ \/ ~s.resolved
     \/ IF m = "patch" THEN c.line = "lost" ELSE c.line # "listed"

\* A mode that is shown as ready is never refused by the run, which checks all of it again in
\* other places, unless the secret has changed. It may succeed exactly where nothing that
\* readiness overlooks is in its way: there, and only there, ready means no more than that
\* every run fails. A patch succeeds as a proposal, never in any other way.
ReadyRuns ==
  \A u \in Users, p \in Providers, m \in Modes :
    LET c == creds[u][p]  answers == Run(settings, p, c, m)
        success == IF m = "patch" THEN "pending_approval" ELSE "completed"
    IN Ready(settings, c, m) /\ Opens(c) =>
         /\ answers \subseteq {success, "failed", "bad gateway", "error"}
         /\ success \in answers <=> ~Overlooked(settings, c, m)

\* Where the caller prefers none, no provider that is not ready is recommended while another
\* one is, and none that is not connected while another one is: the points for aptitude never
\* outweigh those for readiness, which is a matter of three points of a hundred.
RecommendsReady ==
  \A u \in Users, ask \in Asked :
    LET cred == creds[u]
        best == Best(settings, cred, ask[1], ask[2], "nobody")
    IN /\ (\E p \in settings.allowed : Ready(settings, cred[p], ask[2]))
             => \A p \in best : Ready(settings, cred[p], ask[2])
       /\ (\E p \in settings.allowed : cred[p] # NoCred) => \A p \in best : cred[p] # NoCred

\* Taking the steps the guide names one after the other ends, after five at most, where it
\* says that the provider is ready, and then its state is not one with blockers (or, with a
\* token and no workspace, it is "degraded": only the modes that read are ready).
GuideLeads ==
  \A u \in Users, p \in Providers :
    LET after5 == Follow(Follow(Follow(Follow(Follow(<<settings, creds[u][p]>>)))))
        s == after5[1]  c == after5[2]
    IN \/ Guide(s, c) = "ready" /\ State(s, c) \in {"ready", "warning"}
       \/ Guide(s, c) = "read_only" /\ State(s, c) = "degraded"

\* The places that compute readiness agree, but for what they overlook: what is ready runs, and
\* the guide leads to it.
ReadinessAgrees == ReadyRuns /\ GuideLeads
=============================================================================
