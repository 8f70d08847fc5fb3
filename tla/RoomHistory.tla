----------------------------- MODULE RoomHistory -----------------------------
(***************************************************************************)
(* What a room remembers of a meeting, and of whom: the timeline, the      *)
(* memory extracted from it, the mapping of speaker labels to people       *)
(* (backend/app/speakers/service.py), the decisions about proposed         *)
(* actions, and the two files copied from them, the long memory            *)
(* (backend/app/long_memory) and the retrieval index (backend/app/rag).    *)
(*                                                                         *)
(* Every handler runs without an await, so requests do not interleave; but *)
(* each stores its effects one after the other, and may end after any of   *)
(* them: `upto` is the last step of a handler that took effect.  The       *)
(* agent's and the system's own notices carry no speaker label and are     *)
(* left out, but for the audit of a mapping.                               *)
(***************************************************************************)
EXTENDS Integers, Sequences, FiniteSets

CONSTANTS
  Users, Labels, Notes,
  SelfLabel,      \* "SPEAKER_SELF": the label of an authenticated speaker's own audio
  None,
  MaxMessages, MaxActions,
  MaxRequests,    \* requests the room serves
  MaxCrashes,     \* of them, those that end early
  IndexLimit,     \* messages and memory items the index takes in (500)
  SnapshotLimit,  \* of a room's snapshot, and so of an archiving (100)
  ShortLimit      \* of the short memory of an answer (20)

ASSUME BoundsAssumption ==
  {MaxMessages, MaxActions, MaxRequests, MaxCrashes, IndexLimit, SnapshotLimit, ShortLimit}
    \subseteq Nat
ASSUME NamesAssumption ==
  /\ SelfLabel \in Labels /\ Users \cap Labels = {}
  /\ None \notin Users \cup Labels \cup Nat \cup (Labels \X Users)

VARIABLES
  lastSeen,  \* when a participant was last there (the timeline's length), or None
  messages,  \* the timeline
  memory,    \* the memory items, in order
  mapping,   \* the user a label is mapped to, or None
  profiles,  \* users with a stored voice profile
  cut,       \* labels whose last mapping ended before its last step
  actions,   \* the proposed actions
  archive,   \* the long memory: records by their id
  index,     \* the retrieval index
  answer,    \* what the answer given in this step may cite
  requests,  \* how many were served
  crashes    \* how many of them ended early

vars == <<lastSeen, messages, memory, mapping, profiles, cut, actions, archive, index, answer,
          requests, crashes>>

\* What a text gives the memory: nothing, a note, or the summary of an action.  Proposals of
\* the same patch have the same summary, and so have the rejections of one person.
Nothing == <<"nothing">>
Proposed == <<"proposed">>
Decided(u, a, status) == IF status = "rejected" THEN <<status, u>> ELSE <<"decided", a>>
Sayings == {<<"note", n>> : n \in Notes}
Texts == Sayings \cup {Nothing, Proposed} \cup
           {Decided(u, a, s) : u \in Users, a \in 1..MaxActions, s \in {"completed", "rejected"}}

Actors == Users \cup Labels   \* a label stands for its unknown speaker
Statuses == {"pending_approval", "completed", "failed", "rejected"}
SourceIds == {"message", "memory", "action"} \X Nat
RecordIds == ({"memory", "speaker"} \X Nat) \cup ({"action"} \X Nat \X Statuses)

\* `said` is the actor at the time of the message; `about` the label and the user of an audit.
Messages == [from : {"segment", "typed", "audit"}, label : Labels \cup {None},
             actor : Actors \cup {None}, first : Actors \cup {None}, said : Actors \cup {None},
             text : Texts, known : BOOLEAN, about : (Labels \X Users) \cup {None}]
Items == [text : Texts, label : Labels \cup {None}, actor : Actors, first : Actors \cup {None},
          source : SourceIds, status : {"open", "noted"}, at : Nat]
\* `cut`: the decision ended before the memory followed; `told`: its notice is on the timeline.
ActionRecords == [by : Users, status : Statuses, made : Nat, at : Nat, cut : BOOLEAN,
                  told : BOOLEAN]

\* The room is new, and nobody has joined it or all have.
Init ==
  /\ \E t \in {None, 0} : lastSeen = [u \in Users |-> t]
  /\ messages = <<>> /\ memory = <<>> /\ actions = <<>>
  /\ mapping = [l \in Labels |-> None] /\ profiles = {} /\ cut = {}
  /\ archive = [id \in {} |-> None] /\ index = {} /\ answer = {}
  /\ requests = 0 /\ crashes = 0

Now == Len(messages)
InRoom(u) == lastSeen[u] # None
SeenNow(u) == lastSeen' = [lastSeen EXCEPT ![u] = Now]

\* user_can_access_room: a participant, or anyone while nobody has been in the room.
CanAccess(u) ==
  InRoom(u) \/ (~(\E v \in Users : InRoom(v)) /\ memory = <<>> /\ actions = <<>>
                /\ \A i \in DOMAIN messages : messages[i].from = "audit")
-----------------------------------------------------------------------------
(* Messages and what is remembered of them.                                *)

\* append_memory: the same kind and text is remembered once.
Remember(mem, item) ==
  IF item.text = Nothing \/ \E j \in DOMAIN mem : mem[j].text = item.text
  THEN mem ELSE Append(mem, item)

\* _capture_memory_from_message
Capture(mem, i, m) ==
  Remember(mem, [text |-> m.text, label |-> m.label, actor |-> m.actor, first |-> None,
                 source |-> <<"message", i>>, status |-> "open", at |-> i])

\* add_speaker_message: the actor is the identified user, if in the room.
Segment(label, text, id) ==
  LET actor == IF id # None /\ InRoom(id) THEN id ELSE label
  IN [from |-> "segment", label |-> label, actor |-> actor, first |-> None, said |-> actor,
      text |-> text, known |-> id # None, about |-> None]

\* _apply_mapping
Identified(label, id) == IF mapping[label] # None THEN mapping[label] ELSE id

\* ingest_segments, one segment: the message, then its memory.  The label is the diarization's.
Ingest(u, label, text, id, upto) ==
  LET m == Segment(label, text, Identified(label, id)) IN
  /\ CanAccess(u) /\ Now < MaxMessages
  /\ messages' = Append(messages, m)
  /\ memory' = IF upto < 2 THEN memory ELSE Capture(memory, Now + 1, m)
  /\ answer' = {}
  /\ UNCHANGED <<lastSeen, mapping, profiles, cut, actions, archive, index>>

Typed(u, text, voice) ==
  [from |-> "typed", label |-> IF voice THEN SelfLabel ELSE None, actor |-> u, first |-> None,
   said |-> u, text |-> text, known |-> voice, about |-> None]

\* _capture_memory_from_action
CaptureAction(mem, a, text, status) ==
  Remember(mem, [text |-> text, label |-> None, actor |-> actions'[a].by, first |-> None,
                 source |-> <<"action", a>>, status |-> status, at |-> actions'[a].at])

\* record_voice_response: the participant, the message and its memory, and what the agent
\* proposes, with its memory.
Speak(u, text, voice, proposes, upto) ==
  LET m == Typed(u, text, voice)
      a == Len(actions) + 1
      mem == IF upto < 3 THEN memory ELSE Capture(memory, Now + 1, m)
  IN
  /\ CanAccess(u) /\ Now < MaxMessages /\ (proposes => Len(actions) < MaxActions)
  /\ SeenNow(u)
  /\ messages' = IF upto < 2 THEN messages ELSE Append(messages, m)
  /\ actions' = IF ~proposes \/ upto < 4 THEN actions
                ELSE Append(actions, [by |-> u, status |-> "pending_approval", made |-> Now + 1,
                                      at |-> Now + 1, cut |-> FALSE, told |-> FALSE])
  /\ memory' = IF ~proposes \/ upto < 5 THEN mem ELSE CaptureAction(mem, a, Proposed, "open")
  /\ answer' = {}
  /\ UNCHANGED <<mapping, profiles, cut, archive, index>>

\* leave_room
Leave(u) ==
  /\ CanAccess(u) /\ SeenNow(u) /\ answer' = {}
  /\ UNCHANGED <<messages, memory, mapping, profiles, cut, actions, archive, index>>
-----------------------------------------------------------------------------
(* Mapping a label to a participant.                                       *)

ReattributedAnew(seq, label, u) ==   \* mutant
  [i \in DOMAIN seq |->
     IF seq[i].label = label
     THEN [seq[i] EXCEPT !.first = seq[i].actor, !.actor = u] ELSE seq[i]]

ReattributedOnce(seq, label, u) ==   \* mutant
  [i \in DOMAIN seq |->
     IF seq[i].label = label /\ seq[i].first = None
     THEN [seq[i] EXCEPT !.first = seq[i].actor, !.actor = u] ELSE seq[i]]

\* reattribute_speaker_messages, reattribute_memory_for_speaker: the first actor is kept.
Reattributed(seq, label, u) ==
  [i \in DOMAIN seq |->
     IF seq[i].label = label
     THEN [seq[i] EXCEPT !.first = IF seq[i].first = None THEN seq[i].actor ELSE seq[i].first,
                         !.actor = u]
     ELSE seq[i]]

Known(seq, label) ==
  [i \in DOMAIN seq |-> IF seq[i].label = label THEN [seq[i] EXCEPT !.known = TRUE] ELSE seq[i]]

\* _record_mapping_audit
Audit(label, u) ==
  [from |-> "audit", label |-> None, actor |-> None, first |-> None, said |-> None,
   text |-> Nothing, known |-> FALSE, about |-> <<label, u>>]

\* map_speaker: the mapping, the profile, the messages, the memory, the audit.
Map(u, label, target, upto) ==
  LET said == IF upto < 3 THEN messages
              ELSE Known(Reattributed(messages, label, target), label)
  IN
  /\ CanAccess(u) /\ InRoom(target) /\ Now < MaxMessages
  /\ mapping' = [mapping EXCEPT ![label] = target]
  /\ profiles' = IF upto < 2 THEN profiles ELSE profiles \cup {target}
  /\ messages' = IF upto = 5 THEN Append(said, Audit(label, target)) ELSE said
  /\ memory' = IF upto < 4 THEN memory ELSE Reattributed(memory, label, target)
  /\ cut' = IF upto = 5 THEN cut \ {label} ELSE cut \cup {label}
  /\ answer' = {}
  /\ UNCHANGED <<lastSeen, actions, archive, index>>

Window(n, len) == {i \in 1..len : i > len - n}

\* room_state: the labels of speakers nobody has been mapped to.
Unknown ==
  {messages[i].label : i \in {j \in Window(IndexLimit, Now) :
     /\ messages[j].from # "audit" /\ messages[j].label # None
     /\ mapping[messages[j].label] = None /\ ~messages[j].known}}

\* validation_report, with the speaker provider verified.
Calibrated == Unknown = {}
-----------------------------------------------------------------------------
(* What the room can be asked.                                             *)

Cite(kind, i) ==
  CASE kind = "message" -> [source |-> <<kind, i>>, actor |-> messages[i].actor,
                            status |-> "noted"]
    [] kind = "memory" -> [source |-> <<kind, i>>, actor |-> memory[i].actor,
                           status |-> memory[i].status]
    [] kind = "action" -> [source |-> <<kind, i>>, actor |-> actions[i].by,
                           status |-> actions[i].status]

Cites(n) ==
  {Cite("message", i) : i \in Window(n, Now)}
    \cup {Cite("memory", i) : i \in Window(n, Len(memory))}
    \cup {Cite("action", i) : i \in DOMAIN actions}

QueryStale(u) ==   \* mutant
  /\ CanAccess(u) /\ index' = Cites(IndexLimit)
  /\ answer' = Cites(ShortLimit) \cup index
  /\ UNCHANGED <<lastSeen, messages, memory, mapping, profiles, cut, actions, archive>>

\* query_rag: the room is indexed again, and then the index searched together with the short
\* memory; when the index has no hit the stores are searched, for the same citations.  The
\* answer cites the best of them.
Query(u) ==
  /\ CanAccess(u) /\ index' = Cites(IndexLimit)
  /\ answer' = Cites(ShortLimit) \cup index'
  /\ UNCHANGED <<lastSeen, messages, memory, mapping, profiles, cut, actions, archive>>

\* work_dashboard: open work, and the actions waiting for an approval.
OpenItems == {j \in DOMAIN memory : memory[j].status = "open"}
PendingActions == {a \in DOMAIN actions : actions[a].status = "pending_approval"}

\* build_handoff: what others have said and what happened since.
Handoff(u, since) ==
  LET new(at) == since = None \/ at > since IN
  {Cite("message", i) : i \in {j \in Window(IndexLimit, Now) : new(j) /\ messages[j].actor # u}}
    \cup {Cite("memory", i) : i \in {j \in DOMAIN memory : new(memory[j].at)}}
    \cup {Cite("action", a) : a \in {b \in DOMAIN actions : new(actions[b].at)}}

\* join_room: the handoff is for the time since the participant was last there.
Join(u) ==
  /\ SeenNow(u) /\ answer' = Handoff(u, lastSeen[u])
  /\ UNCHANGED <<messages, memory, mapping, profiles, cut, actions, archive, index>>
-----------------------------------------------------------------------------
(* Deciding, and the long memory.                                          *)

\* The records of what a snapshot shows (_records_from_memory, _records_from_actions,
\* _records_from_speaker_audit); that of the handoff, always rewritten, is left out.  The kind
\* in an action's id is told by its status: a failed one was approved, or could not be written,
\* but never both.
Records ==
  {[id |-> <<"memory", i>>, actor |-> memory[i].actor, status |-> memory[i].status] :
     i \in Window(SnapshotLimit, Len(memory))}
    \cup {[id |-> <<"action", a, actions[a].status>>, actor |-> actions[a].by,
           status |-> actions[a].status] : a \in DOMAIN actions}
    \cup {[id |-> <<"speaker", i>>, actor |-> messages[i].actor, status |-> "noted"] :
           i \in {j \in Window(SnapshotLimit, Now) : messages[j].from = "audit"}}

\* upsert_many
Upserted(old, records) ==
  [id \in DOMAIN old \cup {r.id : r \in records} |->
     IF \E r \in records : r.id = id THEN CHOOSE r \in records : r.id = id ELSE old[id]]

\* archive_room
Archive(u) ==
  /\ CanAccess(u) /\ archive' = Upserted(archive, Records)
  /\ answer' = {}
  /\ UNCHANGED <<lastSeen, messages, memory, mapping, profiles, cut, actions, index>>

\* update_memory_for_action
Settled(mem, a) ==
  [j \in DOMAIN mem |->
     IF mem[j].source = <<"action", a>> THEN [mem[j] EXCEPT !.status = "noted"] ELSE mem[j]]

DecideAgain(u, a, status, upto) ==   \* mutant
  /\ CanAccess(u)
  /\ actions' = [actions EXCEPT ![a].status = status, ![a].at = Now, ![a].cut = upto < 2,
                                   ![a].told = upto = 4]
  /\ memory' = IF upto < 2 THEN memory
               ELSE IF upto < 3 THEN Settled(memory, a)
               ELSE CaptureAction(Settled(memory, a), a, Decided(u, a, status), "noted")
  /\ answer' = {}
  /\ UNCHANGED <<lastSeen, messages, mapping, profiles, cut, index>>

\* approve_action, reject_action: the action, the status of its memory, a memory of the
\* decision, its notice; an approval that ran its tests is archived, if that works.
Decide(u, a, status, upto) ==
  /\ CanAccess(u) /\ actions[a].status = "pending_approval"
  /\ actions' = [actions EXCEPT ![a].status = status, ![a].at = Now, ![a].cut = upto < 2,
                                   ![a].told = upto = 4]
  /\ memory' = IF upto < 2 THEN memory
               ELSE IF upto < 3 THEN Settled(memory, a)
               ELSE CaptureAction(Settled(memory, a), a, Decided(u, a, status), "noted")
  /\ answer' = {}
  /\ UNCHANGED <<lastSeen, messages, mapping, profiles, cut, index>>

DecideArchived(u, a, status) ==
  /\ Decide(u, a, status, 4)
  /\ archive' = Upserted(archive, Records')

DecideOnly(u, a, status, upto) == Decide(u, a, status, upto) /\ archive' = archive
-----------------------------------------------------------------------------
Completes == crashes' = crashes
EndsEarly == crashes < MaxCrashes /\ crashes' = crashes + 1
Ends(upto, last) == IF upto = last THEN Completes ELSE EndsEarly

Next ==
  /\ requests < MaxRequests /\ requests' = requests + 1
  /\ \/ \E u \in Users : (Join(u) \/ Leave(u) \/ Query(u) \/ Archive(u)) /\ Completes
     \/ \E u \in Users, l \in Labels \ {SelfLabel}, t \in Sayings, id \in Users \cup {None} :
           \E k \in 1..2 : Ingest(u, l, t, id, k) /\ Ends(k, 2)
     \/ \E u \in Users, t \in Sayings, voice \in BOOLEAN :
           \/ \E k \in 1..3 : Speak(u, t, voice, FALSE, k) /\ Ends(k, 3)
           \/ \E k \in 3..5 : Speak(u, t, voice, TRUE, k) /\ Ends(k, 5)
     \/ \E u, target \in Users, l \in Labels, k \in 1..5 : Map(u, l, target, k) /\ Ends(k, 5)
     \/ \E u \in Users, a \in DOMAIN actions :
           \/ \E s \in {"completed", "failed"} : DecideArchived(u, a, s) /\ Completes
           \/ \E s \in Statuses \ {"pending_approval"}, k \in 1..4 :
                 DecideOnly(u, a, s, k) /\ Ends(k, 4)

Spec == Init /\ [][Next]_vars
-----------------------------------------------------------------------------
TypeOK ==
  /\ lastSeen \in [Users -> Nat \cup {None}]
  /\ messages \in Seq(Messages) /\ memory \in Seq(Items) /\ actions \in Seq(ActionRecords)
  /\ mapping \in [Labels -> Users \cup {None}] /\ profiles \subseteq Users /\ cut \subseteq Labels
  /\ DOMAIN archive \subseteq RecordIds /\ requests \in 0..MaxRequests
  /\ crashes \in 0..MaxCrashes

Uncut == {l \in Labels : l \notin cut /\ mapping[l] # None}

\* However often a label was corrected, its segments are the mapped user's, and what was
\* remembered of a message is its author's.
AttributionAgrees ==
  /\ \A i \in DOMAIN messages :
        messages[i].from = "segment" /\ messages[i].label \in Uncut
          => messages[i].actor = mapping[messages[i].label]
  /\ \A j \in DOMAIN memory, i \in DOMAIN messages :
        memory[j].source = <<"message", i>> /\ messages[i].label \notin cut
          => memory[j].actor = messages[i].actor /\ memory[j].label = messages[i].label

\* The last audit of a label names the user it is mapped to.
AuditTellsMapping ==
  \A l \in Uncut : \E i \in DOMAIN messages :
    /\ messages[i].about = <<l, mapping[l]>>
    /\ \A k \in i+1..Now : \A u \in Users : messages[k].about # <<l, u>>

\* A room reported as calibrated has no segment, in the window the report looks at, that nobody
\* is known to have spoken; and what is reported as unknown was never attributed.
CalibratedIsAttributed ==
  /\ Calibrated => \A i \in Window(IndexLimit, Now) :
       messages[i].from = "segment" => \/ messages[i].actor \in Users \/ messages[i].known
                                       \/ messages[i].label \in cut
  /\ \A l \in Unknown : \A i \in DOMAIN messages :
       messages[i].label = l /\ ~messages[i].known => messages[i].first = None

\* Timeline, memory, audit and speaker report tell one story about a label (map_speaker writes
\* four stores in turn); a mapping that was cut short is excused until the label is mapped again.
SpeakersAgree == AttributionAgrees /\ AuditTellsMapping /\ CalibratedIsAttributed

\* Who a message was first attributed to (original_actor_id) is never lost, in the timeline and
\* in the memory, however often its label is mapped.
FirstSpeakerKept ==
  LET kept(m, said) == IF m.first = None THEN m.actor = said ELSE m.first = said IN
  /\ \A i \in DOMAIN messages : kept(messages[i], messages[i].said)
  /\ \A j \in DOMAIN memory, i \in DOMAIN messages :
        memory[j].source = <<"message", i>> => kept(memory[j], messages[i].said)

\* An answer or a handoff cites a voice's segments under the user it is mapped to, what is
\* remembered of a message under the message's author, and no work of a settled action as open.
CitationsAreCurrent ==
  \A c \in answer :
    /\ c.source[1] = "message" =>
         LET m == messages[c.source[2]] IN
         m.from = "segment" /\ m.label \in Uncut => c.actor = mapping[m.label]
    /\ c.source[1] = "memory" =>
         LET of == memory[c.source[2]].source IN
         IF of[1] = "message"
         THEN messages[of[2]].label \notin cut => c.actor = messages[of[2]].actor
         ELSE of[2] \notin PendingActions /\ ~actions[of[2]].cut => c.status = "noted"

\* The work of an action is open only while the action waits for its approval, unless the
\* decision was cut short.
OpenWorkIsPending ==
  \A j \in OpenItems : memory[j].source[1] = "action"
    => memory[j].source[2] \in PendingActions \/ actions[memory[j].source[2]].cut

\* What was archived (archive_room) stays true of the room, whatever is corrected or decided
\* after it: an item archived under an unknown voice was first attributed to that voice, an item
\* archived as settled is settled, and an outcome archived of an action is its outcome.
LongMemoryIsTrue ==
  \A id \in DOMAIN archive :
    /\ id[1] = "memory" /\ archive[id].actor \in Labels
         => archive[id].actor \in {memory[id[2]].actor, memory[id[2]].first}
    /\ id[1] = "memory" /\ archive[id].status = "noted" => memory[id[2]].status = "noted"
    /\ id[1] = "action" /\ archive[id].status # "pending_approval"
         => archive[id].status = actions[id[2]].status
=============================================================================
