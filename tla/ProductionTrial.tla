--------------------------- MODULE ProductionTrial ---------------------------
(***************************************************************************)
(* Taking a deployment into production: the bundle that is written file by *)
(* file (scripts/prepare_production_trial.py), the operator who edits and  *)
(* deletes its files, the server that checks them once when it starts and  *)
(* reads the accounts with its first request (app/main.py,                 *)
(* app/auth/users.py), and the two reports that release it                 *)
(* (scripts/production_cutover_check.py and                                *)
(* scripts/production_trial_acceptance.py).                                *)
(*                                                                         *)
(* A bundle can be cut short between two files and inside one; the file    *)
(* being written is then empty, or complete with the mode it was created   *)
(* with.  The server reads the bundle's environment file when its paths    *)
(* lead to the bundle.  Reports are taken as one step.                     *)
(***************************************************************************)
EXTENDS TrialAudits, Naturals

CONSTANTS
    EditableSettings,   \* requirements an operator may meet or drop in the environment file
    SourceEvidence,     \* evidence files a bundle may copy
    Records,            \* gates that may run, each with the grade of its record
    VerificationResults, \* what a speaker verification may find
    HarnessResults,     \* sets of harnesses that pass together
    MaxBundles,         \* runs of the bundle script
    MaxChanges          \* changes an operator makes

ASSUME TrialAssumption ==
    /\ EditableSettings \subseteq Requirements \ {"paths"}
    /\ SourceEvidence \subseteq [Gates -> Grades] /\ SourceEvidence # {}
    /\ Records \subseteq Gates \X Grades
    /\ VerificationResults \subseteq {"failed", "single", "multiple"}
    /\ HarnessResults \subseteq SUBSET Harnesses
    /\ MaxBundles \in Nat /\ MaxChanges \in Nat

VARIABLES
    env,            \* the bundle's environment file
    users,          \* data/users.json
    bootstrap,      \* bootstrap-admin.txt
    manifest,       \* bundle-manifest.json
    db,             \* the collaboration event store
    evidence,       \* grade of each recorded gate
    verification,   \* the speaker verification record: labels it found
    bundle,         \* the run of the bundle script
    server,         \* the server: settings of its start, accounts it read
    report,         \* what the reports last said of the files as they are
    changes,        \* changes made so far
    writer,         \* history: the run of the script that wrote a file last, 0 for none of them
    rotated         \* history: the password was replaced while no server held the accounts

files == <<env, users, bootstrap, manifest>>
state == <<db, evidence, verification>>
history == <<writer, rotated>>
vars == <<files, state, bundle, server, report, changes, history>>

Texts == {"none", "torn", "whole"}
Steps == {"idle", "users", "evidence", "env", "bootstrap", "manifest"}
Databases == {"none", "partial", "ready"}
Verifications == {"none", "failed", "single", "multiple"}

\* A value of each type.
TypeOK ==
    /\ env \in [text : Texts, private : BOOLEAN, good : SUBSET Requirements]
    /\ users \in [text : Texts, private : BOOLEAN, accounts : SUBSET Accounts]
    /\ bootstrap \in Texts /\ manifest \in Texts
    /\ db \in Databases /\ evidence \in [Gates -> Grades] /\ verification \in Verifications
    /\ bundle \in [step : Steps, force : BOOLEAN, count : 0..MaxBundles]
    /\ server \in [up : BOOLEAN, good : SUBSET Requirements, loaded : BOOLEAN,
                   accounts : SUBSET Accounts, cleared : BOOLEAN]
    /\ report \in [accepted : BOOLEAN, harnesses : BOOLEAN, cutover : BOOLEAN]
    /\ changes \in 0..MaxChanges
    /\ writer \in [{"users", "env", "manifest"} -> 0..MaxBundles] /\ rotated \in BOOLEAN

NoEvidence == [g \in Gates |-> "none"]

NoReport == [accepted |-> FALSE, harnesses |-> FALSE, cutover |-> FALSE]

\* Nothing is prepared yet; the speakers were verified on this machine before, its
\* record lies outside the bundle.
Init ==
    /\ env = [text |-> "none", private |-> FALSE, good |-> DefaultSettings]
    /\ users = [text |-> "none", private |-> FALSE, accounts |-> {}]
    /\ bootstrap = "none" /\ manifest = "none"
    /\ db = "none" /\ evidence = NoEvidence /\ verification = "multiple"
    /\ bundle = [step |-> "idle", force |-> FALSE, count |-> 0]
    /\ server = [up |-> FALSE, good |-> {}, loaded |-> FALSE, accounts |-> {}, cleared |-> FALSE]
    /\ report = NoReport /\ changes = 0
    /\ writer = [file \in {"users", "env", "manifest"} |-> 0] /\ rotated = FALSE

\* Files changed: what the reports said no longer speaks of them.
Stale ==
    /\ report' = NoReport
    /\ server' = [server EXCEPT !.cleared = FALSE]

-----------------------------------------------------------------------------
(* The bundle script *)

BundleFiles == {env.text, users.text, bootstrap, manifest}

SafeOutputDir(force) == force \/ BundleFiles = {"none"}

PrepareStart(force) ==
    /\ bundle.step = "idle" /\ bundle.count < MaxBundles
    /\ SafeOutputDir(force)
    /\ bundle' = [step |-> "users", force |-> force, count |-> bundle.count + 1]
    /\ UNCHANGED <<files, state, server, report, changes, history>>

\* How a private file ends up when its write completes ("private"), or is cut short:
\* before it was opened ("untouched"), emptied ("torn"), written but not yet chmod'ed.
Outcomes == {"private", "untouched", "torn", "written"}

\* The outcomes the script's own check of the file leaves.  A file that exists
\* refuses the write without force.
Writes(text) == IF bundle.force \/ text = "none" THEN Outcomes ELSE {"untouched"}

WrittenText(outcome, text) ==
    CASE outcome = "untouched" -> text
      [] outcome = "torn"      -> "torn"
      [] OTHER                 -> "whole"

\* A rewritten file keeps its mode, a new one is open until it is chmod'ed.
WrittenMode(outcome, private) == private \/ outcome = "private"

\* The script has come to its end, or was cut short; its arguments go with it.
BundleEnds == bundle' = [bundle EXCEPT !.step = "idle", !.force = FALSE]

BundleNext(outcome, step) ==
    IF outcome = "private" THEN bundle' = [bundle EXCEPT !.step = step] ELSE BundleEnds

WriterNext(outcome, file) ==
    writer' = IF outcome = "untouched" THEN writer ELSE [writer EXCEPT ![file] = bundle.count]

PrepareUsers ==
    /\ bundle.step = "users"
    /\ \E outcome \in Writes(users.text) :
        /\ users' = [text     |-> WrittenText(outcome, users.text),
                     private  |-> WrittenMode(outcome, users.private),
                     accounts |-> CASE outcome = "untouched" -> users.accounts
                                    [] outcome = "torn"      -> {}
                                    [] OTHER                 -> {"temporary"}]
        /\ rotated' = (rotated /\ ~(bundle.force /\ outcome # "untouched"))
        /\ BundleNext(outcome, "evidence") /\ WriterNext(outcome, "users")
    /\ Stale
    /\ UNCHANGED <<env, bootstrap, manifest, state, changes>>

\* The evidence comes from the checkout the script runs in; cut short, the old file
\* or an empty one is left.
PrepareEvidence ==
    /\ bundle.step = "evidence"
    /\ \/ evidence' \in SourceEvidence /\ BundleNext("private", "env")
       \/ evidence' \in {evidence, NoEvidence} /\ BundleNext("torn", "env")
    /\ Stale
    /\ UNCHANGED <<files, db, verification, changes, history>>

\* The generated settings meet every requirement but the token, which is a placeholder.
GeneratedSettings == Requirements \ {"hf"}

PrepareEnv ==
    /\ bundle.step = "env"
    /\ \E outcome \in Writes(env.text) :
        /\ env' = [text    |-> WrittenText(outcome, env.text),
                   private |-> WrittenMode(outcome, env.private),
                   good    |-> CASE outcome = "untouched" -> env.good
                                 [] outcome = "torn"      -> DefaultSettings
                                 [] OTHER                 -> GeneratedSettings]
        /\ BundleNext(outcome, "bootstrap") /\ WriterNext(outcome, "env")
    /\ Stale
    /\ UNCHANGED <<users, bootstrap, manifest, state, changes, rotated>>

PrepareBootstrap ==
    /\ bundle.step = "bootstrap"
    /\ \E outcome \in Writes(bootstrap) :
        /\ bootstrap' = WrittenText(outcome, bootstrap)
        /\ BundleNext(outcome, "manifest")
    /\ Stale
    /\ UNCHANGED <<env, users, manifest, state, changes, history>>

\* The manifest is written last, after README_NEXT_STEPS.md.
PrepareManifest ==
    /\ bundle.step = "manifest"
    /\ \E outcome \in Writes(manifest) :
        /\ manifest' = WrittenText(outcome, manifest)
        /\ WriterNext(outcome, "manifest")
    /\ BundleEnds
    /\ Stale
    /\ UNCHANGED <<env, users, bootstrap, state, changes, rotated>>

-----------------------------------------------------------------------------
(* The operator *)

Change == changes < MaxChanges /\ changes' = changes + 1 /\ Stale

\* Meets requirements in the environment file (a real token), or drops some.
EditEnv ==
    /\ Change /\ env.text # "none"
    /\ \E met \in SUBSET EditableSettings :
        env' = [env EXCEPT !.text = "whole", !.good = (@ \ EditableSettings) \cup met]
    /\ UNCHANGED <<users, bootstrap, manifest, state, bundle, history>>

\* No operation of the server changes a password: the file is edited.
RotateByFile ==
    /\ Change /\ users.text = "whole" /\ "temporary" \in users.accounts
    /\ users' = [users EXCEPT !.accounts = (@ \ {"temporary"}) \cup {"own"}]
    /\ rotated' = ~(server.up /\ server.loaded)
    /\ UNCHANGED <<env, bootstrap, manifest, state, bundle, writer>>

DeleteBootstrap ==
    /\ Change /\ bootstrap # "none" /\ bootstrap' = "none"
    /\ UNCHANGED <<env, users, manifest, state, bundle, history>>

DeleteUsers ==
    /\ Change /\ users.text # "none"
    /\ users' = [text |-> "none", private |-> FALSE, accounts |-> {}]
    /\ rotated' = FALSE /\ writer' = [writer EXCEPT !["users"] = 0]
    /\ UNCHANGED <<env, bootstrap, manifest, state, bundle>>

\* A gate run replaces the record of its gate, whatever that said.
RecordEvidence ==
    /\ Change
    /\ \E record \in Records : evidence' = [evidence EXCEPT ![record[1]] = record[2]]
    /\ UNCHANGED <<files, db, verification, bundle, history>>

\* verified asks for a clean run with segments, whatever the number of labels found.
RecordVerification ==
    /\ Change
    /\ verification' \in VerificationResults
    /\ UNCHANGED <<files, db, evidence, bundle, history>>

\* Refuses an existing store unless it replaces it; a cut leaves a file without tables.
InitEventStore(replace) ==
    /\ Change
    /\ db = "none" \/ replace
    /\ db' \in {"partial", "ready"}
    /\ UNCHANGED <<files, evidence, verification, bundle, history>>

-----------------------------------------------------------------------------
(* The server *)

StartServer ==
    /\ ~server.up
    /\ env.text = "whole" /\ "paths" \in env.good
    /\ StartAllowed(env.good, users)
    /\ server' = [up |-> TRUE, good |-> env.good, loaded |-> FALSE, accounts |-> {},
                  cleared |-> report.cutover]
    /\ UNCHANGED <<files, state, bundle, report, changes, history>>

StopServer ==
    /\ server.up
    /\ server' = [up |-> FALSE, good |-> {}, loaded |-> FALSE, accounts |-> {}, cleared |-> FALSE]
    /\ UNCHANGED <<files, state, bundle, report, changes, history>>

\* Mutant: the account of the bootstrap file is restored while that file exists.
BootstrapRestored ==
    IF users.text = "whole"
    THEN users.accounts \cup (IF bootstrap = "whole" THEN {"temporary"} ELSE {})
    ELSE IF "unseeded" \in server.good THEN {} ELSE {"demo"}

\* The accounts a first request finds.  A missing file is created, with the
\* demo accounts if the settings of the start seed them.
FirstAccounts ==
    IF users.text = "whole" THEN users.accounts
    ELSE IF "unseeded" \in server.good THEN {} ELSE {"demo"}

\* A file that cannot be parsed fails the request, and the next one tries again.
FirstRequest ==
    /\ server.up /\ ~server.loaded
    /\ users.text # "torn"
    /\ server' = [server EXCEPT !.loaded = TRUE, !.accounts = FirstAccounts]
    /\ users' = [text |-> "whole", private |-> TRUE, accounts |-> FirstAccounts]
    /\ writer' = IF users.text = "whole" THEN writer ELSE [writer EXCEPT !["users"] = 0]
    /\ report' = [report EXCEPT !.accepted = FALSE]
    /\ UNCHANGED <<env, bootstrap, manifest, state, bundle, changes, rotated>>

\* Saving the projects of one account writes the whole list the server read.
UpdateProjects ==
    /\ server.up /\ server.loaded /\ server.accounts # {}
    /\ users' = [text |-> "whole", private |-> TRUE, accounts |-> server.accounts]
    /\ report' = [accepted |-> FALSE, harnesses |-> FALSE,
                  cutover  |-> report.cutover /\ server.cleared]
    /\ writer' = [writer EXCEPT !["users"] = 0]
    /\ UNCHANGED <<env, bootstrap, manifest, state, bundle, server, changes, rotated>>

\* The collaboration store creates missing tables when it is opened.
OpenEventStore ==
    /\ server.up /\ "collab_sqlite" \in server.good /\ db # "ready"
    /\ db' = "ready"
    /\ report' = [report EXCEPT !.accepted = FALSE]
    /\ UNCHANGED <<files, evidence, verification, bundle, server, changes, history>>

-----------------------------------------------------------------------------
(* The reports *)

CheckCutover ==
    /\ env.text # "none"
    /\ report' = [report EXCEPT !.cutover = CutoverReady(env, users, bootstrap)]
    /\ UNCHANGED <<files, state, bundle, server, changes, history>>

ManifestFilesReady ==
    /\ env.text # "none" /\ env.private
    /\ users.text # "none" /\ users.private
    /\ bootstrap = "none"

\* Mutant: a bundle without a manifest is judged by its files alone.
FilesAlone ==
    /\ {"origin", "workspace", "unseeded", "gate", "collab_sqlite", "speaker_sqlite"}
         \subseteq env.good
    /\ ManifestFilesReady

ManifestReady ==
    /\ manifest = "whole"
    /\ {"origin", "workspace", "unseeded", "gate", "collab_sqlite", "speaker_sqlite"}
         \subseteq env.good
    /\ ManifestFilesReady

\* Initializes a missing store first, and any store when told to replace it.
AcceptanceStore(replace) ==
    IF "collab_sqlite" \in env.good /\ (replace \/ db = "none") THEN "ready" ELSE db

Accepted(ran, proved, tree) ==
    /\ EventStoreReady(env.good, db')
    /\ ManifestReady
    /\ SecurityReady(env.good, users)
    /\ GateEnforced(env.good, users)
    /\ DeploymentReady(env.good, users, bootstrap, db')
    /\ FinalAccepted(TargetReadiness(env.good, db', evidence, verification),
                     evidence, ran, proved, tree)

RunAcceptance(ran, proved, replace, tree) ==
    /\ env.text # "none"
    /\ db' = AcceptanceStore(replace)
    /\ report' = [report EXCEPT !.accepted = Accepted(ran, proved, tree), !.harnesses = ran]
    /\ UNCHANGED <<files, evidence, verification, bundle, server, changes, history>>

-----------------------------------------------------------------------------
Next ==
    \/ \E force \in BOOLEAN : PrepareStart(force)
    \/ PrepareUsers
    \/ PrepareEvidence
    \/ PrepareEnv
    \/ PrepareBootstrap
    \/ PrepareManifest
    \/ EditEnv
    \/ RotateByFile
    \/ DeleteBootstrap
    \/ DeleteUsers
    \/ RecordEvidence
    \/ RecordVerification
    \/ \E replace \in BOOLEAN : InitEventStore(replace)
    \/ StartServer
    \/ StopServer
    \/ FirstRequest
    \/ UpdateProjects
    \/ OpenEventStore
    \/ CheckCutover
    \/ \E replace, tree \in BOOLEAN :
         \/ RunAcceptance(FALSE, {}, replace, tree)
         \/ \E proved \in HarnessResults : RunAcceptance(TRUE, proved, replace, tree)

Spec == Init /\ [][Next]_vars

-----------------------------------------------------------------------------
(* Properties *)

\* A server started in production mode behind its gate never serves a seeded demo
\* account, although the gate looks at the user file when the server starts and the
\* accounts are read, or seeded, by the first request (app/main.py:29, app/auth/users.py:36).
ServesNoDemo ==
    server.up /\ {"production", "gate"} \subseteq server.good => "demo" \notin server.accounts

\* A password replaced in the user file while no server holds the accounts stays
\* replaced until a bundle is forced over it or the file is deleted: no start, first
\* request, project update or refused bundle brings the temporary one back.
RotationStays ==
    rotated => users.text = "whole" /\ "own" \in users.accounts
                                    /\ "temporary" \notin users.accounts

\* A server started after the cutover report said ready, with nothing changed since
\* but by that server itself, serves an administrator and no demo account.
CutoverServesAdmin ==
    server.up /\ server.cleared /\ server.loaded =>
        /\ server.accounts \cap {"temporary", "own"} # {}
        /\ "demo" \notin server.accounts

\* What the acceptance accepts has the manifest of a run of the script that wrote all its
\* files, and no file older than that run: a bundle cut short before its manifest, or a
\* forced one over what is left of an older one, never passes on the manifest it found or
\* for lack of one.  Files may be newer: a forced run cut short after the users leaves the
\* manifest of the run before, and the server writes its own list of users.  The bootstrap
\* file is gone, and a server would start (scripts/prepare_production_trial.py:97-154,
\* scripts/production_trial_acceptance.py:163).
AcceptedIsComplete ==
    report.accepted =>
        /\ writer["manifest"] # 0
        /\ writer["env"] >= writer["manifest"]
        /\ writer["users"] = 0 \/ writer["users"] >= writer["manifest"]
        /\ bootstrap = "none" /\ StartAllowed(env.good, users)

\* Nothing is accepted on recorded evidence alone or without it: the harnesses ran,
\* each gate is recorded, several speakers were verified, and the event store is there.
AcceptedIsProven ==
    report.accepted =>
        /\ report.harnesses
        /\ \A g \in Gates : evidence[g] = "strong"
        /\ verification = "multiple"
        /\ db = "ready"
=============================================================================
