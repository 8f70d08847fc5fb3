---------------------------- MODULE CollabStores ----------------------------
(***************************************************************************)
(* The two stores of a room and the way from one to the other.             *)
(*                                                                         *)
(* CollaborationStore (collab/store.py) keeps everything in memory and     *)
(* rewrites one JSON file at every change, in place.                       *)
(* SQLiteCollaborationStore (collab/sqlite_store.py) has no memory: each   *)
(* change is a transaction that also appends to an event log.  The script  *)
(* migrate_collab_json_to_sqlite copies the first into the second, as a    *)
(* process of its own, whatever the server does meanwhile.                 *)
(*                                                                         *)
(* A room holds one item of each kind.  The content of a store maps a kind *)
(* to 0 (absent) or to the version of its item.                            *)
(***************************************************************************)
EXTENDS Naturals, Sequences

CONSTANTS
  MaxChanges,  \* calls of the store's operations, over all restarts
  None

ASSUME BoundAssumption == MaxChanges \in Nat

Items == {"participant", "message", "action", "memory", "payload"}
Keys == Items \cup {"room", "settings"}
Contents == [Keys -> 0..2]

CONSTANTS NoFile, Torn  \* a file that is not there, or that was truncated and not written

\* A change is a kind and the version its item is to have.
Changes == Keys \X (0..2)
Ops == [change : Changes, step : {"room", "item", "done"}, open : BOOLEAN]
Databases == [has : Contents, log : Seq(Changes)]

ASSUME FilesAssumption ==
  /\ NoFile \notin Contents \cup Databases /\ Torn \notin Contents /\ NoFile # Torn
  /\ None \notin Ops

VARIABLES
  backend, \* COLLAB_STORE_BACKEND, "json" or "sqlite"
  up,      \* the server runs
  mem,     \* the JSON store's dictionaries
  json,    \* its file
  db,      \* the SQLite file: its tables and its event log
  op,      \* the operation under way: its change, and the step it is about to take
  calls,   \* operations called so far
  acked,   \* what callers have been told
  doubt,   \* kinds whose last change was not answered, or made after a migration read them
  since,   \* kinds changed since the migration read the file
  mig      \* the migration: its stage, what it read, and which kind it copies next

vars == <<backend, up, mem, json, db, op, calls, acked, doubt, since, mig>>

Blank == [k \in Keys |-> 0]
Idle(stage) == [stage |-> stage, src |-> Blank, next |-> 1]
EmptyDb == [has |-> Blank, log |-> <<>>]

Init ==
  /\ backend = "json" /\ up = FALSE /\ mem = Blank /\ json = NoFile /\ db = NoFile
  /\ op = None /\ calls = 0 /\ acked = Blank /\ doubt = {} /\ since = {}
  /\ mig = Idle("off")

\* What a reader of the running server sees.
Visible == IF backend = "json" THEN mem ELSE db.has
-----------------------------------------------------------------------------
(* Operations.                                                             *)

\* append_message, append_action, append_memory, upsert_participant, set_approval_payload.
Appends == {<<k, 1>> : k \in Items} \cup {<<"participant", 2>>, <<"payload", 2>>}

\* reattribute_speaker_messages, reattribute_memory_for_speaker, update_memory_for_action.
Rewrites == {<<"message", 2>>, <<"memory", 2>>}

\* What can be called on content c: an appended item is new, unless it is a memory item,
\* and what is changed or deleted is there.
Legal(c) ==
  {ch \in Appends : ch[1] \in {"message", "action"} => c[ch[1]] = 0}
  \cup {ch \in Rewrites \cup {<<"action", 2>>, <<"payload", 0>>} : c[ch[1]] # 0}
  \cup {<<"settings", 1>>, <<"settings", 2>>}

\* A memory item that says the same as one there is already is not added.
Repeats(c, ch) == ch = <<"memory", 1>> /\ c["memory"] # 0

Apply(c, ch) == IF Repeats(c, ch) THEN c ELSE [c EXCEPT ![ch[1]] = ch[2]]

\* What _record_event appends in the same transaction.
Record(log, c, ch) ==
  IF Repeats(c, ch) \/ ch \in Rewrites \/ ch[1] = "settings" THEN log ELSE Append(log, ch)

\* An operation that adds something makes the room first.  The next operation waits for the
\* lock; the SQLite store gives it up after making the room, but a room is never removed.
Call(ch) ==
  /\ up /\ op = None /\ calls < MaxChanges /\ ch \in Legal(Visible)
  /\ op' = [change |-> ch,
            step |-> IF ch \in Appends /\ Visible["room"] = 0 THEN "room" ELSE "item",
            open |-> FALSE]
  /\ calls' = calls + 1
  /\ UNCHANGED <<backend, up, mem, json, db, acked, doubt, since, mig>>

AtStep(b) == op # None /\ op.step \in {"room", "item"} /\ backend = b

NextStep == [op EXCEPT !.step = IF @ = "room" THEN "item" ELSE "done", !.open = FALSE]

Stepped(c) == IF op.step = "room" THEN [c EXCEPT !["room"] = 1] ELSE Apply(c, op.change)

\* The dictionaries are changed and the file is opened for writing, which empties it.
JsonOpen ==
  /\ AtStep("json") /\ ~op.open
  /\ mem' = Stepped(mem)
  /\ IF op.step = "item" /\ Repeats(mem, op.change)
     THEN op' = NextStep /\ UNCHANGED json
     ELSE op' = [op EXCEPT !.open = TRUE] /\ json' = Torn
  /\ UNCHANGED <<backend, up, db, calls, acked, doubt, since, mig>>

\* The whole of it is written.
JsonWritten ==
  /\ AtStep("json") /\ op.open
  /\ json' = mem /\ op' = NextStep
  /\ UNCHANGED <<backend, up, mem, db, calls, acked, doubt, since, mig>>

InDoubt == IF op = None THEN {} ELSE {op.change[1], "room"}

\* The write fails: the caller gets the error, the dictionaries keep the change.
JsonFails ==
  /\ AtStep("json") /\ op.open
  /\ op' = None /\ doubt' = doubt \cup InDoubt
  /\ UNCHANGED <<backend, up, mem, json, db, calls, acked, since, mig>>

ForgetDeletion ==   \* mutant
  [has |-> Stepped(db.has),
   log |-> IF op.step = "room" \/ op.change[2] = 0 THEN db.log
           ELSE Record(db.log, db.has, op.change)]

Committed == [has |-> Stepped(db.has),
              log |-> IF op.step = "room" THEN db.log ELSE Record(db.log, db.has, op.change)]

\* A transaction: the change, its event and the room's time stamp.
SqlCommit ==
  /\ AtStep("sqlite")
  /\ db' = Committed
  /\ op' = NextStep
  /\ UNCHANGED <<backend, up, mem, json, calls, acked, doubt, since, mig>>

SqlFails ==
  /\ AtStep("sqlite")
  /\ op' = None /\ doubt' = doubt \cup {"room"}
  /\ UNCHANGED <<backend, up, mem, json, db, calls, acked, since, mig>>

Return ==
  /\ op # None /\ op.step = "done"
  /\ op' = None
  /\ acked' = [k \in Keys |-> IF k \in InDoubt THEN Visible[k] ELSE acked[k]]
  /\ doubt' = doubt \ InDoubt
  /\ since' = since \cup InDoubt
  /\ UNCHANGED <<backend, up, mem, json, db, calls, mig>>
-----------------------------------------------------------------------------
(* The server's process.                                                   *)

\* It ends, or is killed, with an operation at any step.
Stop ==
  /\ up
  /\ up' = FALSE /\ mem' = Blank /\ op' = None
  /\ doubt' = doubt \cup InDoubt /\ since' = since \cup InDoubt
  /\ UNCHANGED <<backend, json, db, calls, acked, mig>>

LoadAnyway ==   \* mutant
  mem' = IF json \in {NoFile, Torn} THEN Blank ELSE json

\* _load: no file is an empty store; what cannot be parsed is an exception.
Load ==
  json # Torn /\ mem' = IF json = NoFile THEN Blank ELSE json

\* _init_schema makes the file if there is none.
Start ==
  /\ ~up /\ up' = TRUE
  /\ \/ backend = "json" /\ Load /\ UNCHANGED db
     \/ backend = "sqlite" /\ db' = (IF db = NoFile THEN EmptyDb ELSE db) /\ UNCHANGED mem
  /\ UNCHANGED <<backend, json, op, calls, acked, doubt, since, mig>>

\* The operator sets COLLAB_STORE_BACKEND=sqlite after a migration that says it has passed.
\* What was changed after it read the file is not in the new store.
SwitchOver ==
  /\ ~up /\ backend = "json" /\ mig.stage = "passed"
  /\ backend' = "sqlite" /\ doubt' = doubt \cup since
  /\ UNCHANGED <<up, mem, json, db, op, calls, acked, since, mig>>
-----------------------------------------------------------------------------
(* The scripts, while the server uses the JSON store or is down.           *)

Migrating == mig.stage \in {"loading", "copying"}

\* An existing target is removed before anything is read; without --replace it is refused,
\* which changes nothing.
MigrateStart ==
  /\ backend = "json" /\ ~Migrating /\ json # NoFile
  /\ db' = NoFile /\ mig' = Idle("loading")
  /\ UNCHANGED <<backend, up, mem, json, op, calls, acked, doubt, since>>

\* The order in which migrate_json_to_sqlite copies.
CopyOrder ==
  <<"settings", "room", "participant", "message", "action", "memory", "payload">>

ForgetSettings ==   \* mutant
  /\ mig.stage = "loading" /\ json # Torn
  /\ db' = EmptyDb /\ since' = {}
  /\ mig' = [stage |-> "copying", src |-> json, next |-> 2]
  /\ UNCHANGED <<backend, up, mem, json, op, calls, acked, doubt>>

\* The file is read as the server does, and the schema made.
MigrateLoad ==
  /\ mig.stage = "loading" /\ json # Torn
  /\ db' = EmptyDb /\ since' = {}
  /\ mig' = [stage |-> "copying", src |-> json, next |-> 1]
  /\ UNCHANGED <<backend, up, mem, json, op, calls, acked, doubt>>

\* A file that is being written, or was never written to its end, cannot be parsed: the
\* script ends with an error, and without the target it removed.
MigrateFails ==
  /\ mig.stage = "loading" /\ json = Torn
  /\ mig' = Idle("failed")
  /\ UNCHANGED <<backend, up, mem, json, db, op, calls, acked, doubt, since>>

\* db with the item of kind k as the migration read it, and the room it is in.
Copied(k) ==
  [has |-> [db.has EXCEPT ![k] = mig.src[k], !["room"] = IF k = "settings" THEN @ ELSE 1],
   log |-> IF k \in Items THEN Append(db.log, <<k, mig.src[k]>>) ELSE db.log]

\* An item that is there is copied by the target's own operation, at the version it has.
MigrateCopy ==
  /\ mig.stage = "copying" /\ mig.next <= Len(CopyOrder)
  /\ LET k == CopyOrder[mig.next] IN db' = IF mig.src[k] = 0 THEN db ELSE Copied(k)
  /\ mig' = [mig EXCEPT !.next = @ + 1]
  /\ UNCHANGED <<backend, up, mem, json, op, calls, acked, doubt, since>>

\* _validate_sqlite_counts: rows are counted in every table but the settings'.
Counted == Keys \ {"settings"}

Validated ==
  \A k \in Counted : db.has[k] # 0 <=> mig.src[k] # 0

MigrateEnd ==
  /\ mig.stage = "copying" /\ mig.next > Len(CopyOrder)
  /\ mig' = [mig EXCEPT !.stage = IF Validated THEN "passed" ELSE "failed"]
  /\ UNCHANGED <<backend, up, mem, json, db, op, calls, acked, doubt, since>>

\* The script is killed: what it copied stays.
MigrateCut ==
  /\ Migrating
  /\ mig' = Idle("failed")
  /\ UNCHANGED <<backend, up, mem, json, db, op, calls, acked, doubt, since>>

\* init_collab_event_store: an empty target, where there is none or --replace is given.
InitStore ==
  /\ backend = "json" /\ ~Migrating
  /\ db' = EmptyDb /\ mig' = Idle("off")
  /\ UNCHANGED <<backend, up, mem, json, op, calls, acked, doubt, since>>
-----------------------------------------------------------------------------
Next ==
  \/ \E k \in Keys, v \in 0..2 : Call(<<k, v>>)
  \/ JsonOpen \/ JsonWritten \/ JsonFails \/ SqlCommit \/ SqlFails \/ Return
  \/ Stop \/ Start \/ SwitchOver
  \/ MigrateStart \/ MigrateLoad \/ MigrateFails \/ MigrateCopy \/ MigrateEnd \/ MigrateCut
  \/ InitStore

Spec == Init /\ [][Next]_vars
-----------------------------------------------------------------------------
\* Types; and no item is there without its room, after whatever crash or failure: the
\* operations make the room in a write of its own.
TypeOK ==
  /\ backend \in {"json", "sqlite"} /\ up \in BOOLEAN /\ mem \in Contents
  /\ json \in Contents \cup {NoFile, Torn} /\ acked \in Contents
  /\ op \in Ops \cup {None} /\ doubt \subseteq Keys /\ since \subseteq Keys
  /\ calls \in 0..MaxChanges
  /\ LET RoomFirst(c) == c["room"] = 0 => \A k \in Items : c[k] = 0
     IN /\ RoomFirst(mem)
        /\ json \in Contents => RoomFirst(json)
        /\ db # NoFile => db \in Databases /\ RoomFirst(db.has)

\* The last event about kind k leaves version v; none leaves it absent.
Leaves(log, k, v) ==
  \/ v = 0 /\ \A i \in DOMAIN log : log[i][1] # k
  \/ \E i \in DOMAIN log : log[i] = <<k, v>> /\ \A j \in DOMAIN log : j > i => log[j][1] # k

\* The event log tells what the tables hold, at every moment and after every crash, and so
\* does that of a migrated store: who takes part, what the actions and their payloads are,
\* and which messages and memory items there are (their later rewriting is not logged).
LogRebuilds ==
  db # NoFile =>
    /\ \A k \in {"participant", "action", "payload"} : Leaves(db.log, k, db.has[k])
    /\ \A k \in {"message", "memory"} :
         \E v \in 0..2 : Leaves(db.log, k, v) /\ (v = 0 <=> db.has[k] = 0)

\* A server that runs shows what it has answered, whatever crashed, failed or was migrated
\* before: it refuses to start on a torn file rather than start without its contents.  What
\* was cut short or answered with an error, or changed after the migration read the file,
\* may be there or not.
DurableUnlessInDoubt ==
  up /\ op = None => \A k \in Keys \ doubt : Visible[k] = acked[k]

\* A migration that reports its validation as passed has copied all of what it read, the
\* uncounted settings and every version included.
MigratedAll ==
  mig.stage = "passed" /\ backend = "json" => db # NoFile /\ db.has = mig.src
=============================================================================
