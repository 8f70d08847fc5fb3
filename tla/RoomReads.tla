------------------------------ MODULE RoomReads ------------------------------
(***************************************************************************)
(* What a room can be asked about its own past: the audit trail and the    *)
(* questions about it, the trace, the memory and its health                *)
(* (backend/app/collab/service.py).  Each is computed anew from the        *)
(* stores, through windows of its own; nothing here changes RoomHistory.   *)
(* Demo gates, commits and pull requests are events of SystemJobs and      *)
(* PatchApproval; the order of equally good answers is left out, and what  *)
(* a question says is the kinds, the status and the scores it asks for.    *)
(***************************************************************************)
EXTENDS RoomHistory

CONSTANTS
  TrailLimit,   \* events of the audit trail (50), and of the trace (200)
  QueryLimit,   \* events a question about the audit looks at (200)
  AnswerLimit,  \* events its answer tells of (8)
  HealthLimit,  \* items and messages the memory's health looks at (1000)
  Scores        \* how many words of a question an event may share

ASSUME ReadsAssumption ==
  /\ {TrailLimit, QueryLimit, AnswerLimit, HealthLimit} \cup Scores \subseteq Nat
  /\ IndexLimit # 0

\* The last n of a set of events, by time; those of one moment count together.
Newest(n, events) ==
  {e \in events : Cardinality({f \in events : f.at > e.at}) < n}

\* Messages, actions and their notices on one time line.
MessageTime(i) == 3 * i
ProposalTime(a) == 3 * actions[a].made + 1
ActionTime(a) == 3 * actions[a].at + 1
NoticeTime(a) == 3 * actions[a].at + 2
-----------------------------------------------------------------------------
(* The audit trail.                                                        *)

\* _audit_events_from_actions
TrailOfActions ==
  {[kind |-> "action", source |-> <<"action", a>>, status |-> actions[a].status,
    decided |-> a \notin PendingActions, at |-> ActionTime(a)] : a \in DOMAIN actions}

\* The notice of a decision (_audit_action_message_event).
TrailOfNotices ==
  {[kind |-> "action", source |-> <<"notice", a>>, status |-> actions[a].status,
    decided |-> FALSE, at |-> NoticeTime(a)] : a \in {b \in DOMAIN actions : actions[b].told}}

\* _audit_speaker_mapping_event
TrailOfMappings ==
  {[kind |-> "speaker", source |-> <<"message", i>>, status |-> "mapped", decided |-> FALSE,
    at |-> MessageTime(i)] : i \in {j \in Window(IndexLimit, Now) : messages[j].from = "audit"}}

Trail == TrailOfActions \cup TrailOfNotices \cup TrailOfMappings

\* list_audit_events: of the kind asked for, the newest.
AuditTrail(kinds) == Newest(TrailLimit, {e \in Trail : e.kind \in kinds})

\* query_audit: of the newest of all kinds, those of the kind and the status asked for, and the
\* decided ones if the question is about approvals; of them the best, and of equals the newest,
\* or when no event shares a word with the question, the newest.
AuditAnswer(kinds, status, approvals, score) ==
  LET about == {e \in Newest(QueryLimit, Trail) :
                  e.kind \in kinds /\ status \in {None, e.status} /\ (approvals => e.decided)}
      hits == {e \in about : score[e] > 0}
      better(e) == {f \in hits : score[f] > score[e] \/ (score[f] = score[e] /\ f.at > e.at)}
  IN IF hits = {} THEN Newest(AnswerLimit, about)
     ELSE {e \in hits : Cardinality(better(e)) < AnswerLimit}
-----------------------------------------------------------------------------
(* The trace.                                                              *)

TraceOfMessages ==
  {[type |-> "message", of |-> i, action |-> None, status |-> "noted", at |-> MessageTime(i)] :
     i \in Window(IndexLimit, Now)}

TraceOfMemory ==
  {[type |-> "memory", of |-> j, status |-> memory[j].status,
    action |-> IF memory[j].source[1] = "action" THEN memory[j].source[2] ELSE None,
    at |-> MessageTime(memory[j].at)] : j \in Window(IndexLimit, Len(memory))}

\* _trace_events_from_action: the action, its proposal, its decision.
TraceOfAction(a) ==
  LET event(t, at) == [type |-> t, of |-> a, action |-> a, status |-> actions[a].status,
                       at |-> at]
  IN {event("action", ActionTime(a)), event("proposed", ProposalTime(a))}
       \cup (IF a \in PendingActions THEN {} ELSE {event("decision", ActionTime(a))})

Events == TraceOfMessages \cup TraceOfMemory \cup UNION {TraceOfAction(a) : a \in DOMAIN actions}

\* build_room_trace
Trace == Newest(TrailLimit, Events)

\* _trace_coverage
Coverage ==
  (IF \E i \in Window(IndexLimit, Now) : messages[i].label # None THEN {"speaker_segments"} ELSE {})
    \cup (IF memory # <<>> THEN {"memory_items"} ELSE {})
    \cup (IF actions # <<>> THEN {"patch_proposal"} ELSE {})
    \cup (IF DOMAIN actions \subseteq PendingActions THEN {} ELSE {"approval_decision"})
-----------------------------------------------------------------------------
(* The memory.                                                             *)

\* list_memory, query_memory: by status, the newest.
MemoryAnswer(status) ==
  {Cite("memory", j) : j \in {k \in Window(IndexLimit, Len(memory)) : memory[k].status \in status}}

\* memory_health: items that repeat another, and items whose source is not found.
Duplicates ==
  {j \in Window(HealthLimit, Len(memory)) : \E k \in Window(HealthLimit, Len(memory)) :
     k < j /\ memory[k].text = memory[j].text /\ memory[k].status = memory[j].status
           /\ memory[k].source = memory[j].source}

Orphans ==
  {j \in Window(HealthLimit, Len(memory)) :
     CASE memory[j].source[1] = "message" -> memory[j].source[2] \notin Window(HealthLimit, Now)
       [] OTHER -> memory[j].source[2] \notin DOMAIN actions}
-----------------------------------------------------------------------------
Tellings(l) == {e \in TrailOfMappings : messages[e.source[2]].about[1] = l}

NewestTells(user, told) ==
  \A e \in told : (\A f \in told : f.at <= e.at) => messages[e.source[2]].about[2] = user

\* The newest event the audit trail has about a label names the user the label is mapped to, and
\* so does the newest in the answer to any question that scores the label's mappings alike (one
\* that asks for a status or an approval finds none of them).
TrailTellsMapping ==
  \A l \in Uncut :
    LET tellings == Tellings(l) IN
    /\ NewestTells(mapping[l], AuditTrail({"speaker"}) \cap tellings)
    /\ \A score \in [Trail -> Scores] :
         (\A e, f \in tellings : score[e] = score[f])
           => \A kinds \in {{"speaker"}, {"speaker", "action"}} :
                NewestTells(mapping[l], AuditAnswer(kinds, None, FALSE, score) \cap tellings)

\* What a question about the memory finds open is not settled by a decision the trace shows,
\* and when nothing falls out of the trace, what it counts as covered is what it shows.
TraceAgrees ==
  LET shown == Trace IN
  /\ \A e \in shown, c \in MemoryAnswer({"open"}) :
        e.type = "decision" /\ memory[c.source[2]].source = <<"action", e.of>>
          => actions[e.of].cut
  /\ shown = Events =>
       /\ "memory_items" \in Coverage <=> \E e \in shown : e.type = "memory"
       /\ "patch_proposal" \in Coverage <=> \E e \in shown : e.type = "proposed"
       /\ "approval_decision" \in Coverage <=> \E e \in shown : e.type = "decision"

\* The memory holds nothing twice, and what its health reports as missing is only out of the
\* report's sight.
HealthIsTrue ==
  /\ Duplicates = {}
  /\ \A j \in Orphans : memory[j].source[1] = "message" /\ memory[j].source[2] \in 1..Now

\* What the room answers agrees with its stores when it is given: query_rag and join_room cite
\* who a voice is mapped to and whose a remembered message is, and no settled work as open;
\* dashboard, memory and trace list as open work only what still waits; the audit tells who a
\* voice was mapped to.
AnswersAreCurrent ==
  CitationsAreCurrent /\ OpenWorkIsPending /\ TrailTellsMapping /\ TraceAgrees /\ HealthIsTrue
=============================================================================
