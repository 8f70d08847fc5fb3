-------------------------- MODULE RoomHistory_proofs --------------------------
(***************************************************************************)
(* Safety of RoomHistory for any number of people, labels, messages and    *)
(* requests that end early.                                                *)
(***************************************************************************)
EXTENDS RoomReads, SequenceTheorems, FiniteSetTheorems, TLAPS

\* Who was taken for the author first is the first actor, or the actor if there is none.
Kept(m, said) == IF m.first = None THEN m.actor = said ELSE m.first = said

\* A message, by itself and under a mapping that is complete but for the labels in c.
Said(m) ==
  /\ m.from = "segment" => m.label \in Labels
  /\ m.label \in Labels => m.actor \in Actors
  /\ Kept(m, m.said)
MappedAs(m, map, c) ==
  /\ m.from = "segment" /\ m.label \notin c /\ map[m.label] # None => m.actor = map[m.label]
  /\ m.label \in Labels /\ map[m.label] = None => m.first = None
AllSaid(msgs, map, c) ==
  msgs \in Seq(Messages) /\ \A i \in 1..Len(msgs) : Said(msgs[i]) /\ MappedAs(msgs[i], map, c)

\* An item that remembers a message says of its author what the message says.
Fits(x, msgs, c) ==
  \A n \in Nat : x.source = <<"message", n>> =>
    /\ n \in 1..Len(msgs) /\ x.label = msgs[n].label /\ Kept(x, msgs[n].said)
    /\ msgs[n].label \notin c => x.actor = msgs[n].actor
AllFit(mem, msgs, c) ==
  mem \in Seq(Items) /\ \A j \in 1..Len(mem) : Fits(mem[j], msgs, c)

\* The last audit of a label names the user it is mapped to.
Told(msgs, map, c) ==
  \A l \in Labels : l \notin c /\ map[l] # None =>
    \E i \in 1..Len(msgs) :
      /\ msgs[i].about = <<l, map[l]>>
      /\ \A k \in i+1..Len(msgs) : \A u \in Users : msgs[k].about # <<l, u>>

\* Types of what the steps of speaking and mapping leave alone, or change little.
RoomTypes ==
  /\ lastSeen \in [Users -> Nat \cup {None}]
  /\ actions \in Seq(ActionRecords) /\ Len(actions) \in 0..MaxActions
  /\ mapping \in [Labels -> Users \cup {None}] /\ profiles \subseteq Users /\ cut \subseteq Labels
  /\ DOMAIN archive \subseteq RecordIds
  /\ requests \in 0..MaxRequests /\ crashes \in 0..MaxCrashes
  /\ \A l \in Labels : mapping[l] # None => InRoom(mapping[l])

\* The inductive invariant.
IInv ==
  /\ RoomTypes /\ AllSaid(messages, mapping, cut) /\ AllFit(memory, messages, cut)
  /\ Told(messages, mapping, cut)
-----------------------------------------------------------------------------
(* Sequences.                                                              *)

LEMMA SeqOf ==
  ASSUME NEW S, NEW n \in Nat, NEW f \in [1..n -> S]
  PROVE  f \in Seq(S) /\ Len(f) = n
<1>1. f \in Seq(S)  BY SeqDef
<1>2. DOMAIN f = 1..n /\ DOMAIN f = 1..Len(f) /\ Len(f) \in Nat  BY <1>1, LenProperties
<1>3. QED  BY <1>1, <1>2

LEMMA Appended ==
  ASSUME NEW S, NEW s \in Seq(S), NEW x \in S
  PROVE  /\ Append(s, x) \in Seq(S) /\ Len(s) \in Nat /\ Len(Append(s, x)) = Len(s) + 1
         /\ \A i \in 1..Len(s) : Append(s, x)[i] = s[i] /\ s[i] \in S
         /\ Append(s, x)[Len(s) + 1] = x
         /\ \A i \in 1..Len(s) + 1 : i \in 1..Len(s) \/ i = Len(s) + 1
BY AppendProperties, LenProperties, ElementOfSeq

\* Remembering an item that fits.
LEMMA RememberFits ==
  ASSUME NEW mem, NEW msgs, NEW c, NEW x \in Items, AllFit(mem, msgs, c), Fits(x, msgs, c)
  PROVE  AllFit(Remember(mem, x), msgs, c)
<1>1. CASE Remember(mem, x) = mem  BY <1>1
<1>2. CASE Remember(mem, x) = Append(mem, x)
  <2>1. mem \in Seq(Items)  BY DEF AllFit
  <2>2. Append(mem, x) \in Seq(Items) /\ Len(Append(mem, x)) = Len(mem) + 1
    BY <2>1, Appended
  <2>3. \A j \in 1..Len(mem) + 1 : Fits(Append(mem, x)[j], msgs, c)
    BY <2>1, Appended DEF AllFit
  <2>4. QED  BY <1>2, <2>2, <2>3 DEF AllFit
<1>3. QED  BY <1>1, <1>2 DEF Remember

\* A new message leaves the items of the others as they are.
LEMMA GrownFits ==
  ASSUME NEW mem, NEW msgs \in Seq(Messages), NEW c, NEW m \in Messages, AllFit(mem, msgs, c)
  PROVE  AllFit(mem, Append(msgs, m), c)
<1>1. ASSUME NEW j \in 1..Len(mem), NEW n \in Nat, mem[j].source = <<"message", n>>
      PROVE  n \in 1..Len(msgs) /\ n \in 1..Len(Append(msgs, m)) /\ Append(msgs, m)[n] = msgs[n]
  <2>1. n \in 1..Len(msgs)  BY <1>1 DEF AllFit, Fits
  <2>2. QED  BY <2>1, Appended
<1>2. QED  BY <1>1 DEF AllFit, Fits

\* A message and the item it is remembered by.
LEMMA CaptureFits ==
  ASSUME NEW mem, NEW c, NEW m \in Messages, messages \in Seq(Messages),
         AllFit(mem, messages, c), m.actor \in Actors, m.first = None, m.said = m.actor
  PROVE  AllFit(Capture(mem, Len(messages) + 1, m), Append(messages, m), c)
<1> DEFINE n == Len(messages) + 1
           x == [text |-> m.text, label |-> m.label, actor |-> m.actor, first |-> None,
                 source |-> <<"message", n>>, status |-> "open", at |-> n]
<1>1. n \in Nat /\ n \in 1..Len(Append(messages, m)) /\ Append(messages, m)[n] = m
  BY Appended
<1>2. x \in Items  BY <1>1 DEF Items, Messages, SourceIds
<1>3. Fits(x, Append(messages, m), c)  BY <1>1 DEF Fits, Kept
<1>4. AllFit(mem, Append(messages, m), c)  BY GrownFits
<1>5. AllFit(Remember(mem, x), Append(messages, m), c)  BY <1>2, <1>3, <1>4, RememberFits
<1>6. QED  BY <1>5 DEF Capture

\* What is remembered of an action.
LEMMA ActionFits ==
  ASSUME NEW mem, NEW msgs, NEW c, NEW a \in Nat, NEW text \in Texts,
         NEW status \in {"open", "noted"}, actions'[a] \in ActionRecords, AllFit(mem, msgs, c)
  PROVE  AllFit(CaptureAction(mem, a, text, status), msgs, c)
<1> DEFINE x == [text |-> text, label |-> None, actor |-> actions'[a].by, first |-> None,
                 source |-> <<"action", a>>, status |-> status, at |-> actions'[a].at]
<1>1. x \in Items  BY DEF Items, ActionRecords, SourceIds, Actors
<1>2. Fits(x, msgs, c)  BY DEF Fits
<1>3. QED  BY <1>1, <1>2, RememberFits DEF CaptureAction

LEMMA SettledFits ==
  ASSUME NEW mem, NEW msgs, NEW c, NEW a, AllFit(mem, msgs, c)
  PROVE  AllFit(Settled(mem, a), msgs, c)
<1> DEFINE f == Settled(mem, a)
<1>1. mem \in Seq(Items) /\ Len(mem) \in Nat /\ DOMAIN mem = 1..Len(mem)
      /\ \A j \in 1..Len(mem) : mem[j] \in Items
  BY LenProperties, ElementOfSeq DEF AllFit
<1>2. \A j \in 1..Len(mem) : f[j] = mem[j] \/ f[j] = [mem[j] EXCEPT !.status = "noted"]
  BY <1>1 DEF Settled
<1>3. \A j \in 1..Len(mem) : f[j] \in Items /\ f[j].source = mem[j].source
        /\ f[j].label = mem[j].label /\ f[j].actor = mem[j].actor /\ f[j].first = mem[j].first
  <2> SUFFICES ASSUME NEW j \in 1..Len(mem)
               PROVE  /\ f[j] \in Items /\ f[j].source = mem[j].source
                      /\ f[j].label = mem[j].label /\ f[j].actor = mem[j].actor
                      /\ f[j].first = mem[j].first
    OBVIOUS
  <2> DEFINE x == mem[j]
             y == [x EXCEPT !.status = "noted"]
  <2>1. x \in Items  BY <1>1
  <2>2. /\ y \in Items /\ y.source = x.source /\ y.label = x.label /\ y.actor = x.actor
        /\ y.first = x.first
    BY <2>1 DEF Items
  <2>3. f[j] = x \/ f[j] = y  BY <1>2
  <2>4. QED  BY <2>1, <2>2, <2>3
<1>4. f \in [1..Len(mem) -> Items]  BY <1>1, <1>3 DEF Settled
<1>5. f \in Seq(Items) /\ Len(f) = Len(mem)  BY <1>1, <1>4, SeqOf
<1>6. \A j \in 1..Len(mem) : Fits(f[j], msgs, c)
  BY <1>3 DEF AllFit, Fits, Kept
<1>7. QED  BY <1>5, <1>6 DEF AllFit
-----------------------------------------------------------------------------
(* Speaking.                                                               *)

\* A message that was just said keeps what is known of the others.
LEMMA GrownSaid ==
  ASSUME NEW m \in Messages, NEW map, NEW c, AllSaid(messages, map, c),
         Said(m), MappedAs(m, map, c)
  PROVE  AllSaid(Append(messages, m), map, c)
<1>1. messages \in Seq(Messages)  BY DEF AllSaid
<1>2. QED  BY <1>1, Appended DEF AllSaid

LEMMA GrownTold ==
  ASSUME NEW m \in Messages, NEW map, NEW c, messages \in Seq(Messages),
         Told(messages, map, c), m.about = None
  PROVE  Told(Append(messages, m), map, c)
<1> DEFINE new == Append(messages, m)
<1> SUFFICES ASSUME NEW l \in Labels, l \notin c, map[l] # None
             PROVE  \E i \in 1..Len(new) :
                      /\ new[i].about = <<l, map[l]>>
                      /\ \A k \in i+1..Len(new) : \A u \in Users : new[k].about # <<l, u>>
  BY DEF Told
<1>1. PICK i \in 1..Len(messages) :
        /\ messages[i].about = <<l, map[l]>>
        /\ \A k \in i+1..Len(messages) : \A u \in Users : messages[k].about # <<l, u>>
  BY DEF Told
<1>2. Len(messages) \in Nat /\ Len(new) = Len(messages) + 1 /\ new[Len(messages) + 1] = m
      /\ \A k \in 1..Len(messages) : new[k] = messages[k]
  BY Appended
<1>3. \A u \in Users : m.about # <<l, u>>  BY NamesAssumption
<1>4. \A k \in i+1..Len(new) : \/ k \in i+1..Len(messages) /\ k \in 1..Len(messages)
                               \/ k = Len(messages) + 1
  BY <1>2
<1>5. \A k \in i+1..Len(new) : \A u \in Users : new[k].about # <<l, u>>
  BY <1>1, <1>2, <1>3, <1>4
<1>6. i \in 1..Len(new) /\ new[i] = messages[i]  BY <1>2
<1>7. QED  BY <1>1, <1>5, <1>6

LEMMA IngestStep ==
  ASSUME IInv, NEW u \in Users, NEW label \in Labels, NEW text \in Sayings,
         NEW id \in Users \cup {None}, NEW upto \in 1..2, Ingest(u, label, text, id, upto),
         requests' \in 0..MaxRequests, crashes' \in 0..MaxCrashes
  PROVE  IInv'
<1> DEFINE who == Identified(label, id)
           m == Segment(label, text, who)
<1>1. /\ messages' = Append(messages, m)
      /\ memory' = memory \/ memory' = Capture(memory, Len(messages) + 1, m)
      /\ UNCHANGED <<lastSeen, mapping, profiles, cut, actions, archive>>
  BY DEF Ingest, Now
<1>2. /\ who \in Users \cup {None}
      /\ mapping[label] # None => who = mapping[label] /\ InRoom(who)
  BY DEF Identified, IInv, RoomTypes
<1>3. m.actor \in Actors /\ (mapping[label] # None => m.actor = mapping[label])
  BY <1>2 DEF Segment, Actors
<1>4. m \in Messages
  BY <1>2, <1>3 DEF Segment, Messages, Texts, Actors
<1>5. Said(m) /\ MappedAs(m, mapping, cut) /\ m.about = None
      /\ m.first = None /\ m.said = m.actor
  BY <1>3, NamesAssumption DEF Segment, Said, MappedAs, Kept
<1>6. messages \in Seq(Messages)  BY DEF IInv, AllSaid
<1>7. AllSaid(messages', mapping', cut')  BY <1>1, <1>4, <1>5, GrownSaid DEF IInv
<1>8. Told(messages', mapping', cut')  BY <1>1, <1>4, <1>5, <1>6, GrownTold DEF IInv
<1>9. AllFit(memory', messages', cut')
  <2>1. AllFit(memory, Append(messages, m), cut)  BY <1>4, <1>6, GrownFits DEF IInv
  <2>2. AllFit(Capture(memory, Len(messages) + 1, m), Append(messages, m), cut)
    BY <1>3, <1>4, <1>5, <1>6, CaptureFits DEF IInv
  <2>3. QED  BY <1>1, <2>1, <2>2
<1>10. RoomTypes'  BY <1>1 DEF IInv, RoomTypes, InRoom
<1>11. QED  BY <1>7, <1>8, <1>9, <1>10 DEF IInv

\* A person is seen in the room.
LEMMA Seen ==
  ASSUME RoomTypes, messages \in Seq(Messages), NEW u \in Users, SeenNow(u)
  PROVE  /\ lastSeen' \in [Users -> Nat \cup {None}]
         /\ \A v \in Users : InRoom(v) => InRoom(v)'
<1>1. Now \in Nat /\ Now # None  BY NamesAssumption, LenProperties DEF Now
<1>2. QED  BY <1>1 DEF RoomTypes, SeenNow, InRoom

LEMMA SpeakStep ==
  ASSUME IInv, NEW u \in Users, NEW text \in Sayings, NEW voice \in BOOLEAN,
         NEW proposes \in BOOLEAN, NEW upto \in 1..5, Speak(u, text, voice, proposes, upto),
         proposes => upto \in 3..5,
         requests' \in 0..MaxRequests, crashes' \in 0..MaxCrashes
  PROVE  IInv'
<1> DEFINE m == Typed(u, text, voice)
           n == Len(messages) + 1
           a == Len(actions) + 1
           rec == [by |-> u, status |-> "pending_approval", made |-> n, at |-> n,
                   cut |-> FALSE, told |-> FALSE]
           mem == IF upto < 3 THEN memory ELSE Capture(memory, n, m)
<1>1. messages \in Seq(Messages) /\ n \in Nat /\ a \in Nat /\ actions \in Seq(ActionRecords)
  BY LenProperties DEF IInv, AllSaid, RoomTypes
<1>2. /\ messages' = (IF upto < 2 THEN messages ELSE Append(messages, m))
      /\ actions' = (IF ~proposes \/ upto < 4 THEN actions ELSE Append(actions, rec))
      /\ memory' = (IF ~proposes \/ upto < 5 THEN mem ELSE CaptureAction(mem, a, Proposed, "open"))
      /\ UNCHANGED <<mapping, profiles, cut, archive>> /\ SeenNow(u)
      /\ proposes => Len(actions) < MaxActions
  BY DEF Speak, Now
<1>3. /\ m \in Messages /\ m.actor \in Actors /\ m.first = None /\ m.said = m.actor
      /\ m.about = None /\ m.from = "typed"
  BY NamesAssumption DEF Typed, Messages, Texts, Actors
<1>4. Said(m) /\ MappedAs(m, mapping, cut)
  BY <1>3 DEF Said, MappedAs, Kept
<1>5. AllSaid(messages', mapping', cut') /\ Told(messages', mapping', cut')
  <2>1. AllSaid(Append(messages, m), mapping, cut)  BY <1>3, <1>4, GrownSaid DEF IInv
  <2>2. Told(Append(messages, m), mapping, cut)  BY <1>1, <1>3, GrownTold DEF IInv
  <2>3. QED  BY <1>2, <2>1, <2>2 DEF IInv
<1>6. AllFit(mem, messages', cut')
  <2>1. CASE upto < 2  BY <1>2, <2>1 DEF IInv
  <2>2. CASE upto = 2
    <3>1. AllFit(memory, Append(messages, m), cut)  BY <1>1, <1>3, GrownFits DEF IInv
    <3>2. QED  BY <1>2, <2>2, <3>1
  <2>3. CASE upto > 2
    <3>1. AllFit(Capture(memory, n, m), Append(messages, m), cut)
      BY <1>1, <1>3, CaptureFits DEF IInv
    <3>2. QED  BY <1>2, <2>3, <3>1
  <2>4. QED  BY <2>1, <2>2, <2>3
<1>7. rec \in ActionRecords  BY <1>1 DEF ActionRecords, Statuses
<1>8. /\ actions' \in Seq(ActionRecords) /\ Len(actions') \in 0..MaxActions
      /\ actions' = Append(actions, rec) => actions'[a] \in ActionRecords
  <2>1. /\ Append(actions, rec) \in Seq(ActionRecords) /\ Len(actions) \in Nat
        /\ Len(Append(actions, rec)) = Len(actions) + 1 /\ Append(actions, rec)[a] = rec
    BY <1>1, <1>7, Appended
  <2>2. Len(actions) < MaxActions => Len(actions) + 1 \in 0..MaxActions
    BY <2>1, BoundsAssumption
  <2>3. QED  BY <1>2, <1>7, <2>1, <2>2 DEF IInv, RoomTypes
<1>9. AllFit(memory', messages', cut')
  <2>1. CASE ~proposes \/ upto < 5  BY <1>2, <1>6, <2>1
  <2>2. CASE proposes /\ upto = 5
    <3>1. actions'[a] \in ActionRecords  BY <1>2, <1>8, <2>2
    <3>2. Proposed \in Texts  BY DEF Texts
    <3>3. QED  BY <1>1, <1>2, <1>6, <2>2, <3>1, <3>2, ActionFits
  <2>3. QED  BY <2>1, <2>2
<1>10. RoomTypes'
  <2>1. /\ lastSeen' \in [Users -> Nat \cup {None}]
        /\ \A v \in Users : InRoom(v) => InRoom(v)'
    BY <1>1, <1>2, Seen DEF IInv
  <2>2. QED  BY <1>2, <1>8, <2>1 DEF IInv, RoomTypes
<1>11. QED  BY <1>5, <1>9, <1>10 DEF IInv
-----------------------------------------------------------------------------
(* Mapping.                                                                *)

\* A message whose label is mapped to u.
LEMMA MappedMessage ==
  ASSUME NEW msgs \in Seq(Messages), NEW label \in Labels, NEW u \in Users
  PROVE  LET f == Known(Reattributed(msgs, label, u), label) IN
         /\ f \in Seq(Messages) /\ Len(f) = Len(msgs) /\ Len(msgs) \in Nat
         /\ \A i \in 1..Len(msgs) :
              /\ f[i].from = msgs[i].from /\ f[i].label = msgs[i].label
              /\ f[i].said = msgs[i].said /\ f[i].about = msgs[i].about
              /\ msgs[i].label # label => f[i] = msgs[i]
              /\ msgs[i].label = label =>
                   /\ f[i].actor = u
                   /\ f[i].first = IF msgs[i].first = None THEN msgs[i].actor ELSE msgs[i].first
<1> DEFINE g == Reattributed(msgs, label, u)
           f == Known(g, label)
<1>1. Len(msgs) \in Nat /\ DOMAIN msgs = 1..Len(msgs) /\ \A i \in 1..Len(msgs) : msgs[i] \in Messages
  BY LenProperties, ElementOfSeq
<1>2. ASSUME NEW i \in 1..Len(msgs)
      PROVE  /\ f[i] \in Messages
             /\ f[i].from = msgs[i].from /\ f[i].label = msgs[i].label
             /\ f[i].said = msgs[i].said /\ f[i].about = msgs[i].about
             /\ msgs[i].label # label => f[i] = msgs[i]
             /\ msgs[i].label = label =>
                  /\ f[i].actor = u
                  /\ f[i].first = IF msgs[i].first = None THEN msgs[i].actor ELSE msgs[i].first
  <2> DEFINE x == msgs[i]
             y == [x EXCEPT !.first = IF x.first = None THEN x.actor ELSE x.first, !.actor = u]
  <2>1. x \in Messages  BY <1>1
  <2>2. g[i] = (IF x.label = label THEN y ELSE x) /\ DOMAIN g = 1..Len(msgs)
    BY <1>1 DEF Reattributed
  <2>3. f[i] = IF g[i].label = label THEN [g[i] EXCEPT !.known = TRUE] ELSE g[i]
    BY <2>2 DEF Known
  <2>4. /\ y \in Messages /\ y.label = x.label /\ y.from = x.from /\ y.said = x.said
        /\ y.about = x.about /\ y.actor = u
        /\ y.first = IF x.first = None THEN x.actor ELSE x.first
    <3> DEFINE first == IF x.first = None THEN x.actor ELSE x.first
    <3>1. first \in Actors \cup {None} /\ u \in Actors  BY <2>1 DEF Messages, Actors
    <3> HIDE DEF first
    <3>2. LET z == [x EXCEPT !.first = first, !.actor = u] IN
          /\ z \in Messages /\ z.label = x.label /\ z.from = x.from /\ z.said = x.said
          /\ z.about = x.about /\ z.actor = u /\ z.first = first
      BY <2>1, <3>1 DEF Messages
    <3>3. QED  BY <3>2 DEF first
  <2>5. CASE x.label # label  BY <2>1, <2>2, <2>3, <2>5
  <2>6. CASE x.label = label
    <3>1. g[i] = y /\ f[i] = [y EXCEPT !.known = TRUE]  BY <2>2, <2>3, <2>4, <2>6
    <3>2. /\ f[i] \in Messages /\ f[i].label = y.label /\ f[i].from = y.from
          /\ f[i].said = y.said /\ f[i].about = y.about /\ f[i].actor = y.actor
          /\ f[i].first = y.first
      BY <2>4, <3>1 DEF Messages
    <3>3. QED  BY <2>4, <2>6, <3>2
  <2>7. QED  BY <2>5, <2>6
<1>3. f \in [1..Len(msgs) -> Messages]
  <2>1. DOMAIN g = 1..Len(msgs)  BY <1>1 DEF Reattributed
  <2>2. QED  BY <1>2, <2>1 DEF Known
<1>4. f \in Seq(Messages) /\ Len(f) = Len(msgs)  BY <1>1, <1>3, SeqOf
<1>5. QED  BY <1>1, <1>2, <1>4

\* An item whose label is mapped to u.
LEMMA MappedItem ==
  ASSUME NEW mem \in Seq(Items), NEW label \in Labels, NEW u \in Users
  PROVE  LET f == Reattributed(mem, label, u) IN
         /\ f \in Seq(Items) /\ Len(f) = Len(mem) /\ Len(mem) \in Nat
         /\ \A i \in 1..Len(mem) :
              /\ f[i].label = mem[i].label /\ f[i].source = mem[i].source
              /\ mem[i].label # label => f[i] = mem[i]
              /\ mem[i].label = label =>
                   /\ f[i].actor = u
                   /\ f[i].first = IF mem[i].first = None THEN mem[i].actor ELSE mem[i].first
<1> DEFINE f == Reattributed(mem, label, u)
<1>1. Len(mem) \in Nat /\ DOMAIN mem = 1..Len(mem) /\ \A i \in 1..Len(mem) : mem[i] \in Items
  BY LenProperties, ElementOfSeq
<1>2. ASSUME NEW i \in 1..Len(mem)
      PROVE  /\ f[i] \in Items
             /\ f[i].label = mem[i].label /\ f[i].source = mem[i].source
             /\ mem[i].label # label => f[i] = mem[i]
             /\ mem[i].label = label =>
                  /\ f[i].actor = u
                  /\ f[i].first = IF mem[i].first = None THEN mem[i].actor ELSE mem[i].first
  <2> DEFINE x == mem[i]
             y == [x EXCEPT !.first = IF x.first = None THEN x.actor ELSE x.first, !.actor = u]
  <2>1. x \in Items  BY <1>1
  <2>2. f[i] = IF x.label = label THEN y ELSE x  BY <1>1 DEF Reattributed
  <2>3. /\ y \in Items /\ y.label = x.label /\ y.source = x.source /\ y.actor = u
        /\ y.first = IF x.first = None THEN x.actor ELSE x.first
    BY <2>1 DEF Items, Actors
  <2>4. QED  BY <2>1, <2>2, <2>3
<1>3. f \in [1..Len(mem) -> Items]  BY <1>1, <1>2 DEF Reattributed
<1>4. f \in Seq(Items) /\ Len(f) = Len(mem)  BY <1>1, <1>3, SeqOf
<1>5. QED  BY <1>1, <1>2, <1>4

LEMMA MapStep ==
  ASSUME IInv, NEW u \in Users, NEW label \in Labels, NEW target \in Users, NEW upto \in 1..5,
         Map(u, label, target, upto), requests' \in 0..MaxRequests, crashes' \in 0..MaxCrashes
  PROVE  IInv'
<1> DEFINE f == Known(Reattributed(messages, label, target), label)
           g == Reattributed(memory, label, target)
           said == IF upto < 3 THEN messages ELSE f
<1>0. messages \in Seq(Messages) /\ memory \in Seq(Items) /\ Len(messages) \in Nat
  BY LenProperties DEF IInv, AllSaid, AllFit
<1>1. /\ mapping' = [mapping EXCEPT ![label] = target]
      /\ profiles' = profiles \/ profiles' = profiles \cup {target}
      /\ messages' = (IF upto = 5 THEN Append(said, Audit(label, target)) ELSE said)
      /\ memory' = (IF upto < 4 THEN memory ELSE g)
      /\ cut' = (IF upto = 5 THEN cut \ {label} ELSE cut \cup {label})
      /\ InRoom(target) /\ UNCHANGED <<lastSeen, actions, archive>>
  BY DEF Map
<1>2. /\ f \in Seq(Messages) /\ Len(f) = Len(messages)
      /\ \A i \in 1..Len(messages) :
           /\ f[i].from = messages[i].from /\ f[i].label = messages[i].label
           /\ f[i].said = messages[i].said /\ f[i].about = messages[i].about
           /\ messages[i].label # label => f[i] = messages[i]
           /\ messages[i].label = label =>
                /\ f[i].actor = target
                /\ f[i].first = IF messages[i].first = None THEN messages[i].actor
                                ELSE messages[i].first
  BY <1>0, MappedMessage
<1>3. /\ g \in Seq(Items) /\ Len(g) = Len(memory)
      /\ \A i \in 1..Len(memory) :
           /\ g[i].label = memory[i].label /\ g[i].source = memory[i].source
           /\ memory[i].label # label => g[i] = memory[i]
           /\ memory[i].label = label =>
                /\ g[i].actor = target
                /\ g[i].first = IF memory[i].first = None THEN memory[i].actor
                                ELSE memory[i].first
  BY <1>0, MappedItem
<1>4. /\ mapping' \in [Labels -> Users \cup {None}] /\ mapping'[label] = target /\ target # None
      /\ \A l \in Labels \ {label} : mapping'[l] = mapping[l]
  BY <1>1, NamesAssumption DEF IInv, RoomTypes
<1>5. RoomTypes'
  <2>1. ASSUME NEW l \in Labels, mapping'[l] # None
        PROVE  lastSeen'[mapping'[l]] # None
    <3>1. CASE l = label  BY <1>1, <1>4, <3>1 DEF InRoom
    <3>2. CASE l # label  BY <1>1, <1>4, <2>1, <3>2 DEF IInv, RoomTypes, InRoom
    <3>3. QED  BY <3>1, <3>2
  <2>2. profiles' \subseteq Users /\ cut' \subseteq Labels  BY <1>1 DEF IInv, RoomTypes
  <2>3. /\ lastSeen' \in [Users -> Nat \cup {None}]
        /\ actions' \in Seq(ActionRecords) /\ Len(actions') \in 0..MaxActions
        /\ DOMAIN archive' \subseteq RecordIds
    BY <1>1 DEF IInv, RoomTypes
  <2>4. QED  BY <1>4, <2>1, <2>2, <2>3 DEF RoomTypes, InRoom
<1>6. /\ said \in Seq(Messages) /\ Len(said) = Len(messages)
      /\ \A i \in 1..Len(messages) :
           said[i].label = messages[i].label /\ said[i].said = messages[i].said
           /\ said[i].about = messages[i].about
  BY <1>0, <1>2
<1>7. AllSaid(said, mapping', cut')
  <2>1. ASSUME NEW i \in 1..Len(messages)
        PROVE  Said(said[i]) /\ MappedAs(said[i], mapping', cut')
    <3>1. Said(messages[i]) /\ MappedAs(messages[i], mapping, cut) /\ messages[i] \in Messages
      BY <1>0, ElementOfSeq DEF IInv, AllSaid
    <3>2. CASE messages[i].label # label
      <4>1. said[i] = messages[i]  BY <1>2, <3>2
      <4>2. messages[i].label \notin cut' => messages[i].label \notin cut
        BY <1>1, <3>2
      <4>3. messages[i].label \in Labels => mapping'[messages[i].label] = mapping[messages[i].label]
        BY <1>4, <3>2
      <4>4. QED  BY <3>1, <4>1, <4>2, <4>3 DEF Said, MappedAs
    <3>3. CASE messages[i].label = label /\ upto < 3
      <4>1. said[i] = messages[i] /\ label \in cut'  BY <1>1, <3>3
      <4>2. QED  BY <1>4, <3>1, <3>3, <4>1 DEF Said, MappedAs
    <3>4. CASE messages[i].label = label /\ upto >= 3
      <4>1. said[i] = f[i]  BY <3>4
      <4>2. messages[i].actor \in Actors /\ messages[i].actor # None
        BY <3>1, <3>4, NamesAssumption DEF Said, Actors
      <4>3. Kept(said[i], said[i].said)
        BY <1>2, <3>1, <3>4, <4>1, <4>2 DEF Said, Kept
      <4>4. QED  BY <1>2, <1>4, <3>4, <4>1, <4>3 DEF Said, MappedAs, Actors
    <3>5. QED  BY <3>2, <3>3, <3>4
  <2>2. QED  BY <1>6, <2>1 DEF AllSaid
<1>8. AllFit(memory', said, cut')
  <2>1. memory' \in Seq(Items) /\ Len(memory') = Len(memory)  BY <1>0, <1>1, <1>3
  <2>2. ASSUME NEW j \in 1..Len(memory), NEW n \in Nat, memory'[j].source = <<"message", n>>
        PROVE  /\ n \in 1..Len(said) /\ memory'[j].label = said[n].label
               /\ Kept(memory'[j], said[n].said)
               /\ said[n].label \notin cut' => memory'[j].actor = said[n].actor
    <3>1. memory[j].source = <<"message", n>> /\ memory'[j].label = memory[j].label
      BY <1>1, <1>3, <2>2
    <3>2. /\ n \in 1..Len(messages) /\ memory[j].label = messages[n].label
          /\ Kept(memory[j], messages[n].said)
          /\ messages[n].label \notin cut => memory[j].actor = messages[n].actor
      BY <3>1 DEF IInv, AllFit, Fits
    <3>3. n \in 1..Len(said) /\ memory'[j].label = said[n].label /\ said[n].said = messages[n].said
      BY <1>6, <3>1, <3>2
    <3>4. memory[j].actor # None
      <4>1. memory[j] \in Items  BY <1>0, ElementOfSeq
      <4>2. QED  BY <4>1, NamesAssumption DEF Items, Actors
    <3>5. Kept(memory'[j], said[n].said)
      <4>1. CASE memory'[j] = memory[j]  BY <3>2, <3>3, <4>1
      <4>2. CASE memory'[j] # memory[j]
        <5>1. memory'[j] = g[j] /\ memory[j].label = label  BY <1>1, <1>3, <4>2
        <5>2. g[j].first = IF memory[j].first = None THEN memory[j].actor ELSE memory[j].first
          BY <1>3, <5>1
        <5>3. QED  BY <3>2, <3>3, <3>4, <5>1, <5>2 DEF Kept
      <4>3. QED  BY <4>1, <4>2
    <3>6. said[n].label \notin cut' => memory'[j].actor = said[n].actor
      <4>1. CASE messages[n].label # label
        <5>1. said[n] = messages[n] /\ memory'[j] = memory[j]
          BY <1>1, <1>2, <1>3, <3>2, <4>1
        <5>2. QED  BY <1>1, <3>2, <4>1, <5>1
      <4>2. CASE messages[n].label = label /\ upto < 5
        BY <1>1, <1>6, <3>2, <4>2
      <4>3. CASE messages[n].label = label /\ upto = 5
        BY <1>1, <1>2, <1>3, <3>2, <4>3
      <4>4. QED  BY <4>1, <4>2, <4>3
    <3>7. QED  BY <3>3, <3>5, <3>6
  <2>3. QED  BY <2>1, <2>2 DEF AllFit, Fits
<1>9. CASE upto < 5
  <2>1. Told(said, mapping', cut')
    <3> SUFFICES ASSUME NEW l \in Labels, l \notin cut', mapping'[l] # None
                 PROVE  \E i \in 1..Len(said) :
                          /\ said[i].about = <<l, mapping'[l]>>
                          /\ \A k \in i+1..Len(said) : \A v \in Users : said[k].about # <<l, v>>
      BY DEF Told
    <3>1. l # label /\ l \notin cut /\ mapping[l] = mapping'[l]  BY <1>1, <1>4, <1>9
    <3>2. PICK i \in 1..Len(messages) :
            /\ messages[i].about = <<l, mapping[l]>>
            /\ \A k \in i+1..Len(messages) : \A v \in Users : messages[k].about # <<l, v>>
      BY <3>1 DEF IInv, Told
    <3>3. \A k \in i+1..Len(messages) : k \in 1..Len(messages)  BY <1>0
    <3>4. i \in 1..Len(said) /\ said[i].about = <<l, mapping'[l]>>  BY <1>6, <3>1, <3>2
    <3>5. \A k \in i+1..Len(said) : \A v \in Users : said[k].about # <<l, v>>
      BY <1>6, <3>2, <3>3
    <3>6. QED  BY <3>4, <3>5
  <2>2. messages' = said  BY <1>1, <1>9
  <2>3. QED  BY <1>5, <1>7, <1>8, <2>1, <2>2 DEF IInv
<1>10. CASE upto = 5
  <2> DEFINE m == Audit(label, target)
             new == Append(said, m)
  <2>1. messages' = new  BY <1>1, <1>10
  <2>2. m \in Messages /\ m.about = <<label, target>> /\ Said(m) /\ MappedAs(m, mapping', cut')
    BY NamesAssumption DEF Audit, Messages, Said, MappedAs, Kept, Texts
  <2>3. /\ new \in Seq(Messages) /\ Len(new) = Len(said) + 1 /\ new[Len(said) + 1] = m
        /\ \A i \in 1..Len(said) : new[i] = said[i]
        /\ \A i \in 1..Len(said) + 1 : i \in 1..Len(said) \/ i = Len(said) + 1
    BY <1>6, <2>2, Appended
  <2>4. AllSaid(new, mapping', cut')  BY <1>7, <2>2, <2>3 DEF AllSaid
  <2>5. AllFit(memory', new, cut')  BY <1>6, <1>8, <2>2, GrownFits
  <2>6. ASSUME NEW l \in Labels, l \notin cut', mapping'[l] # None
        PROVE  \E i \in 1..Len(new) :
                 /\ new[i].about = <<l, mapping'[l]>>
                 /\ \A k \in i+1..Len(new) : \A v \in Users : new[k].about # <<l, v>>
    <3>1. CASE l = label
      <4>1. Len(new) \in 1..Len(new) /\ new[Len(new)].about = <<l, mapping'[l]>>
        BY <1>0, <1>4, <1>6, <2>2, <2>3, <3>1
      <4>2. \A k \in Len(new)+1..Len(new) : FALSE  BY <1>0, <1>6, <2>3
      <4>3. QED  BY <4>1, <4>2
    <3>2. CASE l # label
      <4>1. l \notin cut /\ mapping[l] = mapping'[l]  BY <1>1, <1>4, <1>10, <2>6, <3>2
      <4>2. PICK i \in 1..Len(messages) :
              /\ messages[i].about = <<l, mapping[l]>>
              /\ \A k \in i+1..Len(messages) : \A v \in Users : messages[k].about # <<l, v>>
        BY <2>6, <4>1 DEF IInv, Told
      <4>3. i \in 1..Len(new) /\ new[i].about = <<l, mapping'[l]>>
        BY <1>0, <1>6, <2>3, <4>1, <4>2
      <4>4. ASSUME NEW k \in i+1..Len(new), NEW v \in Users
            PROVE  new[k].about # <<l, v>>
        <5>1. CASE k \in 1..Len(messages)
          <6>1. new[k].about = messages[k].about /\ k \in i+1..Len(messages)
            BY <1>0, <1>6, <2>3, <5>1
          <6>2. QED  BY <4>2, <6>1
        <5>2. CASE k = Len(messages) + 1
          BY <1>6, <2>2, <2>3, <3>2, <5>2
        <5>3. k \in 1..Len(messages) + 1  BY <1>0, <1>6, <2>3
        <5>4. k \in 1..Len(messages) \/ k = Len(messages) + 1  BY <1>0, <5>3
        <5>5. QED  BY <5>1, <5>2, <5>4
      <4>5. QED  BY <4>3, <4>4
    <3>3. QED  BY <3>1, <3>2
  <2>7. Told(new, mapping', cut')  BY <2>6 DEF Told
  <2>8. QED  BY <1>5, <2>1, <2>4, <2>5, <2>7 DEF IInv
<1>11. QED  BY <1>9, <1>10
-----------------------------------------------------------------------------
(* Deciding, and the long memory.                                          *)

RecordsAt(mem, acts, msgs) ==
  {[id |-> <<"memory", i>>, actor |-> mem[i].actor, status |-> mem[i].status] :
     i \in Window(SnapshotLimit, Len(mem))}
    \cup {[id |-> <<"action", a, acts[a].status>>, actor |-> acts[a].by,
           status |-> acts[a].status] : a \in DOMAIN acts}
    \cup {[id |-> <<"speaker", i>>, actor |-> msgs[i].actor, status |-> "noted"] :
           i \in {j \in Window(SnapshotLimit, Len(msgs)) : msgs[j].from = "audit"}}

\* No two records have one id, and all have one of their kind.
LEMMA RecordFacts ==
  ASSUME NEW mem \in Seq(Items), NEW acts \in Seq(ActionRecords), NEW msgs \in Seq(Messages)
  PROVE  /\ \A r \in RecordsAt(mem, acts, msgs) : r.id \in RecordIds
         /\ \A r, q \in RecordsAt(mem, acts, msgs) : r.id = q.id => r = q
<1> DEFINE M == {[id |-> <<"memory", i>>, actor |-> mem[i].actor, status |-> mem[i].status] :
                   i \in Window(SnapshotLimit, Len(mem))}
           A == {[id |-> <<"action", a, acts[a].status>>, actor |-> acts[a].by,
                  status |-> acts[a].status] : a \in DOMAIN acts}
           S == {[id |-> <<"speaker", i>>, actor |-> msgs[i].actor, status |-> "noted"] :
                   i \in {j \in Window(SnapshotLimit, Len(msgs)) : msgs[j].from = "audit"}}
<1>1. /\ Len(mem) \in Nat /\ Len(msgs) \in Nat /\ DOMAIN acts \subseteq Nat
      /\ \A a \in DOMAIN acts : acts[a].status \in Statuses
  <2>1. DOMAIN acts = 1..Len(acts) /\ Len(acts) \in Nat  BY LenProperties
  <2>2. \A a \in DOMAIN acts : acts[a] \in ActionRecords  BY <2>1, ElementOfSeq
  <2>3. QED  BY <2>1, <2>2, LenProperties DEF ActionRecords
<1>2. \A n : Window(n, Len(mem)) \subseteq Nat /\ Window(n, Len(msgs)) \subseteq Nat
  BY <1>1 DEF Window
<1>3. RecordsAt(mem, acts, msgs) = M \cup A \cup S  BY DEF RecordsAt
<1>4. /\ \A r \in M : r.id \in RecordIds /\ r.id[1] = "memory"
      /\ \A r, q \in M : r.id = q.id => r = q
  BY <1>2 DEF RecordIds
<1>5. /\ \A r \in A : r.id \in RecordIds /\ r.id[1] = "action"
      /\ \A r, q \in A : r.id = q.id => r = q
  BY <1>1 DEF RecordIds
<1>6. /\ \A r \in S : r.id \in RecordIds /\ r.id[1] = "speaker"
      /\ \A r, q \in S : r.id = q.id => r = q
  BY <1>2 DEF RecordIds
<1> HIDE DEF M, A, S
<1>7. QED  BY <1>3, <1>4, <1>5, <1>6

\* What upsert_many leaves.
LEMMA UpsertFacts ==
  ASSUME NEW old, DOMAIN old \subseteq RecordIds, NEW R, \A r \in R : r.id \in RecordIds,
         \A r, q \in R : r.id = q.id => r = q
  PROVE  /\ DOMAIN Upserted(old, R) \subseteq RecordIds
         /\ DOMAIN old \subseteq DOMAIN Upserted(old, R)
         /\ \A r \in R : Upserted(old, R)[r.id] = r
<1>1. DOMAIN Upserted(old, R) = DOMAIN old \cup {r.id : r \in R}  BY DEF Upserted
<1>2. ASSUME NEW r \in R PROVE Upserted(old, R)[r.id] = r
  <2>1. r.id \in DOMAIN old \cup {q.id : q \in R}  OBVIOUS
  <2>2. Upserted(old, R)[r.id] = CHOOSE q \in R : q.id = r.id  BY <2>1 DEF Upserted
  <2>3. QED  BY <2>2
<1>3. QED  BY <1>1, <1>2

\* Requests that say and map nothing.
LEMMA QuietSteps ==
  ASSUME IInv, NEW u \in Users, Join(u) \/ Leave(u) \/ Query(u) \/ Archive(u),
         requests' \in 0..MaxRequests, crashes' \in 0..MaxCrashes
  PROVE  IInv'
<1>0. messages \in Seq(Messages) /\ memory \in Seq(Items) /\ actions \in Seq(ActionRecords)
  BY DEF IInv, AllSaid, AllFit, RoomTypes
<1>1. UNCHANGED <<messages, memory, mapping, profiles, cut, actions>>
  BY DEF Join, Leave, Query, Archive
<1>2. lastSeen' = lastSeen \/ SeenNow(u)  BY DEF Join, Leave, Query, Archive
<1>3. /\ lastSeen' \in [Users -> Nat \cup {None}]
      /\ \A v \in Users : InRoom(v) => InRoom(v)'
  BY <1>0, <1>2, Seen DEF IInv, RoomTypes, InRoom
<1>4. DOMAIN archive' \subseteq RecordIds
  <2>1. archive' = archive \/ archive' = Upserted(archive, RecordsAt(memory, actions, messages))
    BY DEF Join, Leave, Query, Archive, Records, RecordsAt, Now
  <2> DEFINE R == RecordsAt(memory, actions, messages)
  <2>2. (\A r \in R : r.id \in RecordIds) /\ \A r, q \in R : r.id = q.id => r = q
    BY <1>0, RecordFacts
  <2>3. DOMAIN archive \subseteq RecordIds  BY DEF IInv, RoomTypes
  <2> HIDE DEF R
  <2>4. DOMAIN Upserted(archive, R) \subseteq RecordIds  BY <2>2, <2>3, UpsertFacts
  <2>5. QED  BY <2>1, <2>3, <2>4 DEF R
<1>5. RoomTypes'  BY <1>1, <1>3, <1>4 DEF IInv, RoomTypes
<1>6. QED  BY <1>1, <1>5 DEF IInv

LEMMA DecideStep ==
  ASSUME IInv, NEW u \in Users, NEW a \in DOMAIN actions,
         NEW status \in {"completed", "failed", "rejected"}, NEW upto \in 1..4,
         Decide(u, a, status, upto),
         \/ archive' = archive
         \/ archive' = Upserted(archive, Records'),
         requests' \in 0..MaxRequests, crashes' \in 0..MaxCrashes
  PROVE  IInv'
<1> DEFINE new == [actions[a] EXCEPT !.status = status, !.at = Now, !.cut = upto < 2,
                                     !.told = upto = 4]
           text == Decided(u, a, status)
<1>1. /\ messages \in Seq(Messages) /\ Now \in Nat /\ actions \in Seq(ActionRecords)
      /\ Len(actions) \in Nat /\ DOMAIN actions = 1..Len(actions) /\ a \in Nat
      /\ a \in 1..MaxActions /\ actions[a] \in ActionRecords
  <2>1. messages \in Seq(Messages) /\ actions \in Seq(ActionRecords) /\ Len(actions) \in 0..MaxActions
    BY DEF IInv, AllSaid, RoomTypes
  <2>2. Now \in Nat /\ Len(actions) \in Nat /\ DOMAIN actions = 1..Len(actions)
    BY <2>1, LenProperties DEF Now
  <2>3. a \in Nat /\ a \in 1..MaxActions  BY <2>1, <2>2, BoundsAssumption
  <2>4. actions[a] \in ActionRecords  BY <2>1, <2>2, ElementOfSeq
  <2>5. QED  BY <2>1, <2>2, <2>3, <2>4
<1>2. UNCHANGED <<lastSeen, messages, mapping, profiles, cut>>  BY DEF Decide
<1>3. new \in ActionRecords
  <2> DEFINE early == upto < 2
             told == upto = 4
  <2>1. early \in BOOLEAN /\ told \in BOOLEAN  OBVIOUS
  <2> HIDE DEF early, told
  <2>2. [actions[a] EXCEPT !.status = status, !.at = Now, !.cut = early, !.told = told]
          \in ActionRecords
    BY <1>1, <2>1 DEF ActionRecords, Statuses
  <2>3. QED  BY <2>2 DEF early, told
<1>4. actions' = [actions EXCEPT ![a] = new]  BY DEF Decide
<1>5. /\ actions' \in Seq(ActionRecords) /\ Len(actions') = Len(actions)
      /\ actions'[a] \in ActionRecords
  BY <1>1, <1>3, <1>4, ExceptSeq
<1>6. text \in Texts
  <2>1. CASE status = "rejected"
    <3>1. text = Decided(u, a, "rejected")  BY <2>1
    <3>2. QED  BY <1>1, <3>1 DEF Texts
  <2>2. CASE status # "rejected"
    <3>1. text = Decided(u, a, "completed")  BY <2>2 DEF Decided
    <3>2. QED  BY <1>1, <3>1 DEF Texts
  <2>3. QED  BY <2>1, <2>2
<1>7. AllFit(memory', messages', cut')
  <2>1. AllFit(Settled(memory, a), messages, cut)  BY SettledFits DEF IInv
  <2>2. AllFit(CaptureAction(Settled(memory, a), a, text, "noted"), messages, cut)
    BY <1>1, <1>5, <1>6, <2>1, ActionFits
  <2>3. \/ memory' = memory \/ memory' = Settled(memory, a)
        \/ memory' = CaptureAction(Settled(memory, a), a, text, "noted")
    BY DEF Decide
  <2>4. QED  BY <1>2, <2>1, <2>2, <2>3 DEF IInv
<1>8. DOMAIN archive' \subseteq RecordIds
  <2>1. archive' = archive \/ archive' = Upserted(archive, RecordsAt(memory', actions', messages'))
    BY DEF Records, RecordsAt, Now
  <2>2. memory' \in Seq(Items) /\ messages' \in Seq(Messages)
    BY <1>1, <1>2, <1>7 DEF AllFit
  <2> DEFINE R == RecordsAt(memory', actions', messages')
  <2>3. (\A r \in R : r.id \in RecordIds) /\ \A r, q \in R : r.id = q.id => r = q
    BY <1>5, <2>2, RecordFacts
  <2>4. DOMAIN archive \subseteq RecordIds  BY DEF IInv, RoomTypes
  <2> HIDE DEF R
  <2>5. DOMAIN Upserted(archive, R) \subseteq RecordIds  BY <2>3, <2>4, UpsertFacts
  <2>6. QED  BY <2>1, <2>4, <2>5 DEF R
<1>9. RoomTypes'  BY <1>2, <1>5, <1>8 DEF IInv, RoomTypes, InRoom
<1>10. AllSaid(messages', mapping', cut') /\ Told(messages', mapping', cut')
  BY <1>2 DEF IInv
<1>11. QED  BY <1>7, <1>9, <1>10 DEF IInv
-----------------------------------------------------------------------------
LEMMA InitIInv == Init => IInv
<1> SUFFICES ASSUME Init PROVE IInv  OBVIOUS
<1>1. /\ messages = <<>> /\ memory = <<>> /\ actions = <<>> /\ Len(<<>>) = 0
      /\ \A S : <<>> \in Seq(S)
  BY EmptySeq DEF Init
<1>2. RoomTypes
  <2>1. 0 \in 0..MaxActions /\ requests \in Nat /\ crashes \in Nat  BY BoundsAssumption DEF Init
  <2>2. DOMAIN archive = {}  BY DEF Init
  <2>3. lastSeen \in [Users -> Nat \cup {None}]  BY DEF Init
  <2>4. /\ mapping \in [Labels -> Users \cup {None}] /\ profiles \subseteq Users
        /\ cut \subseteq Labels /\ \A l \in Labels : mapping[l] = None
    BY DEF Init
  <2>5. requests \in 0..MaxRequests /\ crashes \in 0..MaxCrashes
    BY BoundsAssumption DEF Init
  <2>6. QED  BY <1>1, <2>1, <2>2, <2>3, <2>4, <2>5 DEF RoomTypes
<1>3. AllSaid(messages, mapping, cut) /\ AllFit(memory, messages, cut)
  BY <1>1 DEF AllSaid, AllFit
<1>4. Told(messages, mapping, cut)  BY DEF Init, Told
<1>5. QED  BY <1>2, <1>3, <1>4 DEF IInv

\* Every request keeps IInv, however early it ends.
LEMMA NextIInv == IInv /\ [Next]_vars => IInv'
<1> SUFFICES ASSUME IInv, [Next]_vars PROVE IInv'  OBVIOUS
<1>1. CASE UNCHANGED vars
  <2>1. RoomTypes'  BY <1>1 DEF vars, IInv, RoomTypes, InRoom
  <2>2. QED  BY <1>1, <2>1 DEF vars, IInv
<1>2. CASE Next
  <2>1. requests' \in 0..MaxRequests
    BY <1>2, BoundsAssumption DEF Next, IInv, RoomTypes
  <2>2. Completes \/ EndsEarly => crashes' \in 0..MaxCrashes
    BY BoundsAssumption DEF Completes, EndsEarly, IInv, RoomTypes
  <2>3. \A k, last : Ends(k, last) => crashes' \in 0..MaxCrashes
    BY <2>2 DEF Ends
  <2>4. ASSUME NEW u \in Users, Join(u) \/ Leave(u) \/ Query(u) \/ Archive(u), Completes
        PROVE  IInv'
    BY <2>1, <2>2, <2>4, QuietSteps
  <2>5. ASSUME NEW u \in Users, NEW l \in Labels, NEW t \in Sayings, NEW id \in Users \cup {None},
               NEW k \in 1..2, Ingest(u, l, t, id, k), Ends(k, 2)
        PROVE  IInv'
    BY <2>1, <2>3, <2>5, IngestStep
  <2>6. ASSUME NEW u \in Users, NEW t \in Sayings, NEW voice \in BOOLEAN, NEW k \in 1..3,
               Speak(u, t, voice, FALSE, k), Ends(k, 3)
        PROVE  IInv'
    <3>1. k \in 1..5 /\ FALSE \in BOOLEAN  OBVIOUS
    <3>2. QED  BY <2>1, <2>3, <2>6, <3>1, SpeakStep
  <2>7. ASSUME NEW u \in Users, NEW t \in Sayings, NEW voice \in BOOLEAN, NEW k \in 3..5,
               Speak(u, t, voice, TRUE, k), Ends(k, 5)
        PROVE  IInv'
    <3>1. k \in 1..5 /\ TRUE \in BOOLEAN  OBVIOUS
    <3>2. QED  BY <2>1, <2>3, <2>7, <3>1, SpeakStep
  <2>8. ASSUME NEW u \in Users, NEW target \in Users, NEW l \in Labels, NEW k \in 1..5,
               Map(u, l, target, k), Ends(k, 5)
        PROVE  IInv'
    BY <2>1, <2>3, <2>8, MapStep
  <2>9. ASSUME NEW u \in Users, NEW a \in DOMAIN actions, NEW s \in {"completed", "failed"},
               DecideArchived(u, a, s), Completes
        PROVE  IInv'
    BY <2>1, <2>2, <2>9, DecideStep DEF DecideArchived
  <2>10. ASSUME NEW u \in Users, NEW a \in DOMAIN actions,
                NEW s \in Statuses \ {"pending_approval"}, NEW k \in 1..4,
                DecideOnly(u, a, s, k), Ends(k, 4)
         PROVE  IInv'
    BY <2>1, <2>3, <2>10, DecideStep DEF DecideOnly, Statuses
  <2>11. QED  BY <1>2, <2>4, <2>5, <2>6, <2>7, <2>8, <2>9, <2>10 DEF Next
<1>3. QED  BY <1>1, <1>2

\* IInv holds in every reachable state of a room of any size.
THEOREM InductiveInvariant == Spec => []IInv
BY InitIInv, NextIInv, PTL DEF Spec

\* Types of everything a room stores.
THEOREM TypeCorrect == Spec => []TypeOK
<1>1. IInv => TypeOK  BY DEF IInv, RoomTypes, AllSaid, AllFit, TypeOK
<1>2. QED  BY InductiveInvariant, <1>1, PTL

LEMMA Attributed ==
  ASSUME IInv
  PROVE  AttributionAgrees
<1>1. /\ messages \in Seq(Messages) /\ memory \in Seq(Items)
      /\ DOMAIN messages = 1..Len(messages) /\ DOMAIN memory = 1..Len(memory)
      /\ Len(messages) \in Nat
  BY LenProperties DEF IInv, AllSaid, AllFit
<1>2. \A i \in DOMAIN messages : messages[i].from = "segment" /\ messages[i].label \in Uncut
         => messages[i].actor = mapping[messages[i].label]
  BY <1>1 DEF IInv, AllSaid, MappedAs, Uncut
<1>3. \A j \in DOMAIN memory, i \in DOMAIN messages :
        memory[j].source = <<"message", i>> /\ messages[i].label \notin cut
          => memory[j].actor = messages[i].actor /\ memory[j].label = messages[i].label
  BY <1>1 DEF IInv, AllFit, Fits
<1>4. QED  BY <1>2, <1>3 DEF AttributionAgrees

\* Timeline, memory, audit and speaker report tell one story about a label (map_speaker), after
\* any number of mappings and of requests that ended early.
THEOREM SpeakersAgreed == Spec => []SpeakersAgree
<1>1. IInv => AttributionAgrees  BY Attributed
<1>2. IInv => AuditTellsMapping
  <2> SUFFICES ASSUME IInv PROVE AuditTellsMapping  OBVIOUS
  <2>1. DOMAIN messages = 1..Len(messages)  BY LenProperties DEF IInv, AllSaid
  <2>2. QED  BY <2>1 DEF IInv, Told, AuditTellsMapping, Uncut, Now
<1>3. IInv => CalibratedIsAttributed
  <2> SUFFICES ASSUME IInv PROVE CalibratedIsAttributed  OBVIOUS
  <2>1. DOMAIN messages = 1..Len(messages)  BY LenProperties DEF IInv, AllSaid
  <2>2. ASSUME Calibrated, NEW i \in Window(IndexLimit, Now), messages[i].from = "segment"
        PROVE  messages[i].actor \in Users \/ messages[i].known \/ messages[i].label \in cut
    <3>1. i \in 1..Len(messages)  BY DEF Window, Now
    <3>2. messages[i].label \in Labels /\ messages[i].label # None
      BY <2>2, <3>1, NamesAssumption DEF IInv, AllSaid, Said
    <3>3. CASE mapping[messages[i].label] # None
      BY <2>2, <3>1, <3>2, <3>3 DEF IInv, RoomTypes, AllSaid, MappedAs
    <3>4. CASE mapping[messages[i].label] = None
      <4>1. messages[i].label \notin Unknown  BY <2>2 DEF Calibrated
      <4>2. QED  BY <2>2, <3>2, <3>4, <4>1 DEF Unknown
    <3>5. QED  BY <3>3, <3>4
  <2>3. ASSUME NEW l \in Unknown, NEW i \in DOMAIN messages, messages[i].label = l
        PROVE  messages[i].first = None
    <3>1. PICK j \in Window(IndexLimit, Now) :
            messages[j].label = l /\ l # None /\ mapping[l] = None
      BY DEF Unknown
    <3>2. messages[i] \in Messages  BY <2>1, ElementOfSeq DEF IInv, AllSaid
    <3>3. l \in Labels  BY <2>3, <3>1, <3>2 DEF Messages
    <3>4. QED  BY <2>1, <2>3, <3>1, <3>3 DEF IInv, AllSaid, MappedAs
  <2>4. QED  BY <2>2, <2>3 DEF CalibratedIsAttributed
<1>4. IInv => SpeakersAgree  BY <1>1, <1>2, <1>3 DEF SpeakersAgree
<1>5. QED  BY InductiveInvariant, <1>4, PTL

\* The first actor of a message is never lost (reattribute_speaker_messages,
\* reattribute_memory_for_speaker).
THEOREM FirstSpeakersKept == Spec => []FirstSpeakerKept
<1>1. IInv => FirstSpeakerKept
  <2> SUFFICES ASSUME IInv PROVE FirstSpeakerKept  OBVIOUS
  <2>1. /\ DOMAIN messages = 1..Len(messages) /\ DOMAIN memory = 1..Len(memory)
        /\ Len(messages) \in Nat
    BY LenProperties DEF IInv, AllSaid, AllFit
  <2>2. \A i \in DOMAIN messages : Kept(messages[i], messages[i].said)
    BY <2>1 DEF IInv, AllSaid, Said
  <2>3. \A j \in DOMAIN memory, i \in DOMAIN messages :
          memory[j].source = <<"message", i>> => Kept(memory[j], messages[i].said)
    BY <2>1 DEF IInv, AllFit, Fits
  <2>4. QED  BY <2>2, <2>3 DEF FirstSpeakerKept, Kept
<1>2. QED  BY InductiveInvariant, <1>1, PTL
-----------------------------------------------------------------------------
(* What the room can be asked.                                             *)

\* An item remembers a message, or an action that still waits if the item is open.
Sourced(x, acts) ==
  \/ x.source \in {"message"} \X Nat
  \/ \E a \in 1..Len(acts) :
       /\ x.source = <<"action", a>>
       /\ x.status = "open" => acts[a].status = "pending_approval" \/ acts[a].cut

\* No text is remembered twice.
Works(mem, acts) ==
  /\ \A j \in 1..Len(mem) : Sourced(mem[j], acts)
  /\ \A j, k \in 1..Len(mem) : mem[j].text = mem[k].text => j = k

Audits(msgs) == \A i \in 1..Len(msgs) : msgs[i].from = "audit" <=> msgs[i].about # None

\* What an answer cites is in the stores, and is cited as they have it.
AsStored ==
  \A c \in answer :
    \/ \E i \in DOMAIN messages : c = Cite("message", i)
    \/ \E j \in DOMAIN memory : c = Cite("memory", j)
    \/ \E a \in DOMAIN actions : c = Cite("action", a)

\* The inductive invariant of what is read; it rests on IInv.
ReadsInv == Works(memory, actions) /\ Audits(messages) /\ AsStored

LEMMA RememberWorks ==
  ASSUME NEW mem \in Seq(Items), NEW acts, NEW x \in Items, Works(mem, acts), Sourced(x, acts)
  PROVE  Works(Remember(mem, x), acts)
<1>1. CASE Remember(mem, x) = mem  BY <1>1
<1>2. CASE Remember(mem, x) # mem
  <2> DEFINE new == Append(mem, x)
  <2>1. Remember(mem, x) = new /\ \A j \in 1..Len(mem) : mem[j].text # x.text
    BY <1>2, LenProperties DEF Remember
  <2>2. /\ Len(mem) \in Nat /\ Len(new) = Len(mem) + 1 /\ new[Len(mem) + 1] = x
        /\ \A j \in 1..Len(mem) : new[j] = mem[j]
        /\ \A j \in 1..Len(mem) + 1 : j \in 1..Len(mem) \/ j = Len(mem) + 1
    BY Appended
  <2>3. \A j \in 1..Len(new) : Sourced(new[j], acts)  BY <2>2 DEF Works
  <2>4. \A j, k \in 1..Len(new) : new[j].text = new[k].text => j = k
    BY <2>1, <2>2 DEF Works
  <2>5. QED  BY <2>1, <2>3, <2>4 DEF Works
<1>3. QED  BY <1>1, <1>2

\* A new action leaves the items of the others as they are.
LEMMA GrownWorks ==
  ASSUME NEW mem, NEW acts \in Seq(ActionRecords), NEW rec \in ActionRecords, Works(mem, acts)
  PROVE  Works(mem, Append(acts, rec))
<1>1. /\ Len(acts) \in Nat /\ Len(Append(acts, rec)) = Len(acts) + 1
      /\ \A a \in 1..Len(acts) : Append(acts, rec)[a] = acts[a]
  BY Appended
<1>2. \A a \in 1..Len(acts) : a \in 1..Len(Append(acts, rec))  BY <1>1
<1>3. ASSUME NEW j \in 1..Len(mem)  PROVE Sourced(mem[j], Append(acts, rec))
  BY <1>1, <1>2 DEF Works, Sourced
<1>4. QED  BY <1>3 DEF Works

\* Neither a mapping nor a decision changes the text or the source of an item.
LEMMA SameWorks ==
  ASSUME NEW mem, NEW new, NEW acts, Works(mem, acts), Len(new) = Len(mem),
         \A j \in 1..Len(mem) : /\ new[j].text = mem[j].text /\ new[j].source = mem[j].source
                                /\ new[j].status = mem[j].status
  PROVE  Works(new, acts)
<1>1. ASSUME NEW j \in 1..Len(mem)  PROVE Sourced(new[j], acts)
  <2>1. Sourced(mem[j], acts)  BY DEF Works
  <2>2. QED  BY <2>1 DEF Sourced
<1>2. QED  BY <1>1 DEF Works

LEMMA MappedWorks ==
  ASSUME NEW mem \in Seq(Items), NEW acts, Works(mem, acts), NEW label \in Labels, NEW u \in Users
  PROVE  Works(Reattributed(mem, label, u), acts)
<1> DEFINE f == Reattributed(mem, label, u)
<1>1. Len(f) = Len(mem)  BY MappedItem
<1>2. DOMAIN mem = 1..Len(mem) /\ \A j \in 1..Len(mem) : mem[j] \in Items
  BY LenProperties, ElementOfSeq
<1>3. ASSUME NEW j \in 1..Len(mem)
      PROVE  f[j].text = mem[j].text /\ f[j].source = mem[j].source /\ f[j].status = mem[j].status
  <2> DEFINE x == mem[j]
             y == [x EXCEPT !.first = IF x.first = None THEN x.actor ELSE x.first, !.actor = u]
  <2>1. f[j] = IF x.label = label THEN y ELSE x  BY <1>2 DEF Reattributed
  <2>2. x \in Items  BY <1>2
  <2>3. y.text = x.text /\ y.source = x.source /\ y.status = x.status  BY <2>2 DEF Items
  <2>4. QED  BY <2>1, <2>3
<1>4. QED  BY <1>1, <1>3, SameWorks

\* The actions with that of a decision; what is remembered of it is settled, or it was cut short.
LEMMA DecidedWorks ==
  ASSUME NEW mem \in Seq(Items), NEW acts \in Seq(ActionRecords), Works(mem, acts),
         NEW a \in 1..Len(acts), NEW new \in ActionRecords
  PROVE  /\ Works(Settled(mem, a), [acts EXCEPT ![a] = new])
         /\ new.cut => Works(mem, [acts EXCEPT ![a] = new])
<1> DEFINE f == Settled(mem, a)
           then == [acts EXCEPT ![a] = new]
<1>1. /\ then \in Seq(ActionRecords) /\ Len(then) = Len(acts) /\ then[a] = new
      /\ \A b \in 1..Len(acts) : b # a => then[b] = acts[b]
  BY ExceptSeq
<1>2. DOMAIN mem = 1..Len(mem) /\ \A j \in 1..Len(mem) : mem[j] \in Items
  BY LenProperties, ElementOfSeq
<1>3. Len(mem) \in Nat  BY LenProperties
<1>4. ASSUME NEW j \in 1..Len(mem)
      PROVE  /\ f[j] \in Items /\ f[j].text = mem[j].text /\ f[j].source = mem[j].source
             /\ mem[j].source = <<"action", a>> => f[j].status = "noted"
             /\ mem[j].source # <<"action", a>> => f[j].status = mem[j].status
  <2> DEFINE x == mem[j]
             y == [x EXCEPT !.status = "noted"]
  <2>1. f[j] = IF x.source = <<"action", a>> THEN y ELSE x  BY <1>2 DEF Settled
  <2>2. x \in Items  BY <1>2
  <2>3. y \in Items /\ y.text = x.text /\ y.source = x.source /\ y.status = "noted"
    BY <2>2 DEF Items
  <2>4. QED  BY <2>1, <2>2, <2>3
<1>5. Len(f) = Len(mem)
  <2>1. f \in [1..Len(mem) -> Items]  BY <1>2, <1>4 DEF Settled
  <2>2. QED  BY <1>3, <2>1, SeqOf
<1>6. ASSUME NEW j \in 1..Len(mem)  PROVE Sourced(f[j], then)
  <2>1. CASE mem[j].source \in {"message"} \X Nat  BY <1>4, <2>1 DEF Sourced
  <2>2. CASE mem[j].source = <<"action", a>>
    BY <1>1, <1>4, <2>2 DEF Sourced
  <2>3. ASSUME NEW b \in 1..Len(acts), b # a, mem[j].source = <<"action", b>>,
               mem[j].status = "open" => acts[b].status = "pending_approval" \/ acts[b].cut
        PROVE  Sourced(f[j], then)
    BY <1>1, <1>4, <2>3 DEF Sourced
  <2>4. QED  BY <2>1, <2>2, <2>3 DEF Works, Sourced
<1>7. ASSUME NEW j \in 1..Len(mem), new.cut  PROVE Sourced(mem[j], then)
  <2>1. CASE mem[j].source \in {"message"} \X Nat  BY <2>1 DEF Sourced
  <2>2. ASSUME NEW b \in 1..Len(acts), mem[j].source = <<"action", b>>,
               mem[j].status = "open" => acts[b].status = "pending_approval" \/ acts[b].cut
        PROVE  Sourced(mem[j], then)
    BY <1>1, <1>7, <2>2 DEF Sourced
  <2>3. QED  BY <2>1, <2>2 DEF Works, Sourced
<1>8. Works(f, then)  BY <1>4, <1>5, <1>6 DEF Works
<1>9. new.cut => Works(mem, then)  BY <1>7 DEF Works
<1>10. QED  BY <1>8, <1>9

LEMMA GrownAudits ==
  ASSUME NEW msgs \in Seq(Messages), NEW m \in Messages, Audits(msgs),
         m.from = "audit" <=> m.about # None
  PROVE  Audits(Append(msgs, m))
BY Appended DEF Audits

\* The items of an action that were just remembered.
LEMMA ActionWorks ==
  ASSUME NEW mem \in Seq(Items), NEW acts \in Seq(ActionRecords), actions' = acts,
         NEW a \in 1..Len(acts), NEW text \in Texts, NEW status \in {"open", "noted"},
         Works(mem, acts), status = "open" => acts[a].status = "pending_approval"
  PROVE  Works(CaptureAction(mem, a, text, status), acts)
<1> DEFINE x == [text |-> text, label |-> None, actor |-> actions'[a].by, first |-> None,
                 source |-> <<"action", a>>, status |-> status, at |-> actions'[a].at]
<1>1. acts[a] \in ActionRecords /\ a \in Nat  BY ElementOfSeq, LenProperties
<1>2. x \in Items  BY <1>1 DEF Items, ActionRecords, SourceIds, Actors
<1>3. Sourced(x, acts)  BY DEF Sourced
<1>4. QED  BY <1>2, <1>3, RememberWorks DEF CaptureAction

LEMMA MessageWorks ==
  ASSUME NEW mem \in Seq(Items), NEW acts, NEW m \in Messages, NEW i \in Nat,
         m.actor \in Actors, Works(mem, acts)
  PROVE  Works(Capture(mem, i, m), acts)
<1> DEFINE x == [text |-> m.text, label |-> m.label, actor |-> m.actor, first |-> None,
                 source |-> <<"message", i>>, status |-> "open", at |-> i]
<1>1. x \in Items  BY DEF Items, Messages, SourceIds
<1>2. Sourced(x, acts)  BY DEF Sourced
<1>3. QED  BY <1>1, <1>2, RememberWorks DEF Capture

LEMMA RoomShape ==
  ASSUME IInv
  PROVE  /\ messages \in Seq(Messages) /\ memory \in Seq(Items) /\ actions \in Seq(ActionRecords)
         /\ Len(messages) \in Nat /\ Len(memory) \in Nat /\ Len(actions) \in Nat
         /\ DOMAIN messages = 1..Len(messages) /\ DOMAIN memory = 1..Len(memory)
         /\ DOMAIN actions = 1..Len(actions)
BY LenProperties DEF IInv, AllSaid, AllFit, RoomTypes

LEMMA IngestReads ==
  ASSUME IInv, ReadsInv, NEW u \in Users, NEW label \in Labels, NEW text \in Sayings,
         NEW id \in Users \cup {None}, NEW upto \in 1..2, Ingest(u, label, text, id, upto)
  PROVE  ReadsInv'
<1> DEFINE who == Identified(label, id)
           m == Segment(label, text, who)
<1>1. /\ messages' = Append(messages, m) /\ answer' = {} /\ actions' = actions
      /\ memory' = memory \/ memory' = Capture(memory, Len(messages) + 1, m)
  BY DEF Ingest, Now
<1>2. who \in Users \cup {None}  BY DEF Identified, IInv, RoomTypes
<1>3. m.actor \in Actors  BY <1>2 DEF Segment, Actors
<1>4. m \in Messages  BY <1>2, <1>3 DEF Segment, Messages, Texts, Actors
<1>5. m.from = "segment" /\ m.about = None  BY DEF Segment
<1>6. Audits(messages')  BY <1>1, <1>4, <1>5, RoomShape, GrownAudits DEF ReadsInv
<1>7. Works(memory', actions')
  <2>1. Len(messages) + 1 \in Nat  BY RoomShape
  <2>2. Works(Capture(memory, Len(messages) + 1, m), actions)
    BY <1>3, <1>4, <2>1, RoomShape, MessageWorks DEF ReadsInv
  <2>3. QED  BY <1>1, <2>2 DEF ReadsInv
<1>8. AsStored'  BY <1>1 DEF AsStored
<1>9. QED  BY <1>6, <1>7, <1>8 DEF ReadsInv

LEMMA SpeakReads ==
  ASSUME IInv, IInv', ReadsInv, NEW u \in Users, NEW text \in Sayings, NEW voice \in BOOLEAN,
         NEW proposes \in BOOLEAN, NEW upto \in 1..5, Speak(u, text, voice, proposes, upto)
  PROVE  ReadsInv'
<1> DEFINE m == Typed(u, text, voice)
           n == Len(messages) + 1
           a == Len(actions) + 1
           rec == [by |-> u, status |-> "pending_approval", made |-> n, at |-> n,
                   cut |-> FALSE, told |-> FALSE]
           mem == IF upto < 3 THEN memory ELSE Capture(memory, n, m)
<1>1. /\ messages' = (IF upto < 2 THEN messages ELSE Append(messages, m))
      /\ actions' = (IF ~proposes \/ upto < 4 THEN actions ELSE Append(actions, rec))
      /\ memory' = (IF ~proposes \/ upto < 5 THEN mem ELSE CaptureAction(mem, a, Proposed, "open"))
      /\ answer' = {}
  BY DEF Speak, Now
<1>2. n \in Nat /\ a \in Nat  BY RoomShape
<1>3. m \in Messages /\ m.actor \in Actors /\ m.about = None /\ m.from = "typed"
  BY NamesAssumption DEF Typed, Messages, Texts, Actors
<1>4. Audits(messages')
  <2>1. Audits(Append(messages, m))  BY <1>3, RoomShape, GrownAudits DEF ReadsInv
  <2>2. QED  BY <1>1, <2>1 DEF ReadsInv
<1>5. rec \in ActionRecords  BY <1>2 DEF ActionRecords, Statuses
<1>6. Works(mem, actions) /\ mem \in Seq(Items)
  <2>1. Works(Capture(memory, n, m), actions)
    BY <1>2, <1>3, RoomShape, MessageWorks DEF ReadsInv
  <2>2. CASE upto < 3  BY <2>2, RoomShape DEF ReadsInv
  <2>3. CASE upto >= 3
    <3>1. AllFit(Capture(memory, n, m), Append(messages, m), cut)
      <4>1. m.first = None /\ m.said = m.actor  BY DEF Typed
      <4>2. QED  BY <1>3, <4>1, RoomShape, CaptureFits DEF IInv
    <3>2. QED  BY <2>1, <2>3, <3>1 DEF AllFit
  <2>4. QED  BY <2>2, <2>3
<1>7. Works(mem, actions')
  <2>1. Works(mem, Append(actions, rec))  BY <1>5, <1>6, RoomShape, GrownWorks
  <2>2. QED  BY <1>1, <1>6, <2>1
<1>8. Works(memory', actions')
  <2>1. CASE ~proposes \/ upto < 5  BY <1>1, <1>7, <2>1
  <2>2. CASE proposes /\ upto = 5
    <3>1. actions' = Append(actions, rec) /\ memory' = CaptureAction(mem, a, Proposed, "open")
      BY <1>1, <2>2
    <3>2. actions' \in Seq(ActionRecords) /\ Len(actions') = a /\ actions'[a] = rec
      BY <1>5, <3>1, RoomShape, Appended
    <3>3. a \in 1..Len(actions') /\ Proposed \in Texts  BY <1>2, <3>2, RoomShape DEF Texts
    <3>4. actions'[a].status = "pending_approval"  BY <3>2
    <3> HIDE DEF mem, rec, a
    <3>5. Works(CaptureAction(mem, a, Proposed, "open"), actions')
      BY <1>6, <1>7, <3>2, <3>3, <3>4, ActionWorks
    <3>6. QED  BY <3>1, <3>5
  <2>3. QED  BY <2>1, <2>2
<1>9. AsStored'  BY <1>1 DEF AsStored
<1>10. QED  BY <1>4, <1>8, <1>9 DEF ReadsInv

LEMMA MapReads ==
  ASSUME IInv, ReadsInv, NEW u \in Users, NEW label \in Labels, NEW target \in Users,
         NEW upto \in 1..5, Map(u, label, target, upto)
  PROVE  ReadsInv'
<1> DEFINE f == Known(Reattributed(messages, label, target), label)
           said == IF upto < 3 THEN messages ELSE f
           m == Audit(label, target)
<1>1. /\ messages' = (IF upto = 5 THEN Append(said, m) ELSE said)
      /\ memory' = memory \/ memory' = Reattributed(memory, label, target)
      /\ actions' = actions /\ answer' = {}
  BY DEF Map
<1>2. said \in Seq(Messages) /\ Audits(said)
  <2>1. /\ f \in Seq(Messages) /\ Len(f) = Len(messages)
        /\ \A i \in 1..Len(messages) : f[i].from = messages[i].from /\ f[i].about = messages[i].about
    BY RoomShape, MappedMessage
  <2>2. Audits(f)  BY <2>1 DEF Audits, ReadsInv
  <2>3. QED  BY <2>1, <2>2, RoomShape DEF ReadsInv
<1>3. m \in Messages /\ m.from = "audit" /\ m.about = <<label, target>> /\ m.about # None
  BY NamesAssumption DEF Audit, Messages, Texts
<1>4. Audits(messages')
  <2>1. Audits(Append(said, m))  BY <1>2, <1>3, GrownAudits
  <2>2. QED  BY <1>1, <1>2, <2>1
<1>5. Works(memory', actions')
  <2>1. Works(Reattributed(memory, label, target), actions)
    BY RoomShape, MappedWorks DEF ReadsInv
  <2>2. QED  BY <1>1, <2>1 DEF ReadsInv
<1>6. AsStored'  BY <1>1 DEF AsStored
<1>7. QED  BY <1>4, <1>5, <1>6 DEF ReadsInv

LEMMA DecideReads ==
  ASSUME IInv, ReadsInv, NEW u \in Users, NEW a \in DOMAIN actions,
         NEW status \in {"completed", "failed", "rejected"}, NEW upto \in 1..4,
         Decide(u, a, status, upto)
  PROVE  ReadsInv'
<1> DEFINE new == [actions[a] EXCEPT !.status = status, !.at = Now, !.cut = upto < 2,
                                     !.told = upto = 4]
           text == Decided(u, a, status)
<1>1. /\ a \in 1..Len(actions) /\ a \in 1..MaxActions /\ actions[a] \in ActionRecords
      /\ Now \in Nat
  <2>1. a \in 1..Len(actions) /\ Now \in Nat  BY RoomShape DEF Now
  <2>2. actions[a] \in ActionRecords  BY <2>1, RoomShape, ElementOfSeq
  <2>3. a \in 1..MaxActions  BY <2>1, BoundsAssumption DEF IInv, RoomTypes
  <2>4. QED  BY <2>1, <2>2, <2>3
<1>2. actions' = [actions EXCEPT ![a] = new] /\ messages' = messages /\ answer' = {}
  BY DEF Decide
<1>3. new \in ActionRecords /\ (upto < 2 => new.cut)
  <2> DEFINE early == upto < 2
             told == upto = 4
  <2>1. early \in BOOLEAN /\ told \in BOOLEAN  OBVIOUS
  <2> HIDE DEF early, told
  <2>2. /\ [actions[a] EXCEPT !.status = status, !.at = Now, !.cut = early, !.told = told]
             \in ActionRecords
        /\ [actions[a] EXCEPT !.status = status, !.at = Now, !.cut = early, !.told = told].cut
             = early
    BY <1>1, <2>1 DEF ActionRecords, Statuses
  <2>3. QED  BY <2>2 DEF early, told
<1>4. text \in Texts
  <2>1. CASE status = "rejected"
    <3>1. text = Decided(u, a, "rejected")  BY <2>1
    <3>2. QED  BY <1>1, <3>1 DEF Texts
  <2>2. CASE status # "rejected"
    <3>1. text = Decided(u, a, "completed")  BY <2>2 DEF Decided
    <3>2. QED  BY <1>1, <3>1 DEF Texts
  <2>3. QED  BY <2>1, <2>2
<1>5. Works(Settled(memory, a), actions') /\ (upto < 2 => Works(memory, actions'))
  BY <1>1, <1>2, <1>3, RoomShape, DecidedWorks DEF ReadsInv
<1>6. Works(memory', actions')
  <2>1. CASE upto < 2  BY <1>5, <2>1 DEF Decide
  <2>2. CASE upto = 2  BY <1>5, <2>2 DEF Decide
  <2>3. CASE upto > 2
    <3>1. memory' = CaptureAction(Settled(memory, a), a, text, "noted")  BY <2>3 DEF Decide
    <3>2. Settled(memory, a) \in Seq(Items)  BY SettledFits DEF IInv, AllFit
    <3>3. actions' \in Seq(ActionRecords) /\ a \in 1..Len(actions')
      BY <1>1, <1>2, <1>3, RoomShape, ExceptSeq
    <3>4. QED  BY <1>4, <1>5, <3>1, <3>2, <3>3, ActionWorks
  <2>4. QED  BY <2>1, <2>2, <2>3
<1>7. Audits(messages') /\ AsStored'
  BY <1>2 DEF ReadsInv, AsStored
<1>8. QED  BY <1>6, <1>7 DEF ReadsInv

LEMMA QuietReads ==
  ASSUME IInv, ReadsInv, NEW u \in Users, Join(u) \/ Leave(u) \/ Query(u) \/ Archive(u)
  PROVE  ReadsInv'
<1>1. UNCHANGED <<messages, memory, actions>>  BY DEF Join, Leave, Query, Archive
<1>2. answer' = {} \/ answer' = Cites(ShortLimit) \cup Cites(IndexLimit)
      \/ answer' = Handoff(u, lastSeen[u])
  BY DEF Join, Leave, Query, Archive
<1>3. \A n : /\ Window(n, Now) \subseteq DOMAIN messages
            /\ Window(n, Len(memory)) \subseteq DOMAIN memory
  BY RoomShape DEF Window, Now
<1>4. ASSUME NEW c \in answer'
      PROVE  \/ \E i \in DOMAIN messages : c = Cite("message", i)
             \/ \E j \in DOMAIN memory : c = Cite("memory", j)
             \/ \E a \in DOMAIN actions : c = Cite("action", a)
  <2>1. CASE c \in Cites(ShortLimit) \cup Cites(IndexLimit)  BY <1>3, <2>1 DEF Cites
  <2>2. CASE c \in Handoff(u, lastSeen[u])  BY <1>3, <2>2 DEF Handoff
  <2>3. QED  BY <1>2, <2>1, <2>2
<1>5. AsStored'  BY <1>1, <1>4 DEF AsStored, Cite
<1>6. QED  BY <1>1, <1>5 DEF ReadsInv

LEMMA InitReads == Init => ReadsInv
<1> SUFFICES ASSUME Init PROVE ReadsInv  OBVIOUS
<1>1. Len(messages) = 0 /\ Len(memory) = 0 /\ answer = {}  BY EmptySeq DEF Init
<1>2. QED  BY <1>1 DEF ReadsInv, Works, Audits, AsStored

LEMMA NextReads == IInv /\ IInv' /\ ReadsInv /\ [Next]_vars => ReadsInv'
<1> SUFFICES ASSUME IInv, IInv', ReadsInv, [Next]_vars PROVE ReadsInv'  OBVIOUS
<1>1. CASE UNCHANGED vars
  BY <1>1 DEF vars, ReadsInv, AsStored, Cite
<1>2. CASE Next
  <2>1. ASSUME NEW u \in Users, Join(u) \/ Leave(u) \/ Query(u) \/ Archive(u)  PROVE ReadsInv'
    BY <2>1, QuietReads
  <2>2. ASSUME NEW u \in Users, NEW l \in Labels, NEW t \in Sayings, NEW id \in Users \cup {None},
               NEW k \in 1..2, Ingest(u, l, t, id, k)
        PROVE  ReadsInv'
    BY <2>2, IngestReads
  <2>3. ASSUME NEW u \in Users, NEW t \in Sayings, NEW voice \in BOOLEAN, NEW k \in 1..3,
               Speak(u, t, voice, FALSE, k)
        PROVE  ReadsInv'
    <3>1. k \in 1..5 /\ FALSE \in BOOLEAN  OBVIOUS
    <3>2. QED  BY <2>3, <3>1, SpeakReads
  <2>4. ASSUME NEW u \in Users, NEW t \in Sayings, NEW voice \in BOOLEAN, NEW k \in 3..5,
               Speak(u, t, voice, TRUE, k)
        PROVE  ReadsInv'
    <3>1. k \in 1..5 /\ TRUE \in BOOLEAN  OBVIOUS
    <3>2. QED  BY <2>4, <3>1, SpeakReads
  <2>5. ASSUME NEW u \in Users, NEW target \in Users, NEW l \in Labels, NEW k \in 1..5,
               Map(u, l, target, k)
        PROVE  ReadsInv'
    BY <2>5, MapReads
  <2>6. ASSUME NEW u \in Users, NEW a \in DOMAIN actions, NEW s \in {"completed", "failed"},
               DecideArchived(u, a, s)
        PROVE  ReadsInv'
    BY <2>6, DecideReads DEF DecideArchived
  <2>7. ASSUME NEW u \in Users, NEW a \in DOMAIN actions,
               NEW s \in Statuses \ {"pending_approval"}, NEW k \in 1..4,
               DecideOnly(u, a, s, k)
        PROVE  ReadsInv'
    BY <2>7, DecideReads DEF DecideOnly, Statuses
  <2>8. QED  BY <1>2, <2>1, <2>2, <2>3, <2>4, <2>5, <2>6, <2>7 DEF Next
<1>3. QED  BY <1>1, <1>2

\* What the memory's items tell of, that no text is remembered twice, which messages are audits,
\* and that the last answer cites the stores as they are, in every reachable state.
THEOREM ReadsInvariant == Spec => []ReadsInv
BY InitReads, NextReads, InductiveInvariant, PTL DEF Spec
-----------------------------------------------------------------------------
(* The trail and the trace.                                                *)

LEMMA EachItem ==
  ASSUME IInv, ReadsInv, NEW j \in 1..Len(memory)
  PROVE  \/ \E n \in 1..Len(messages) : memory[j].source = <<"message", n>>
         \/ \E a \in DOMAIN actions :
              /\ memory[j].source = <<"action", a>>
              /\ memory[j].status = "open" => a \in PendingActions \/ actions[a].cut
<1>1. CASE memory[j].source \in {"message"} \X Nat
  <2>1. PICK n \in Nat : memory[j].source = <<"message", n>>  BY <1>1
  <2>2. n \in 1..Len(messages)  BY <2>1 DEF IInv, AllFit, Fits
  <2>3. QED  BY <2>1, <2>2
<1>2. CASE \E a \in 1..Len(actions) :
             /\ memory[j].source = <<"action", a>>
             /\ memory[j].status = "open" => actions[a].status = "pending_approval" \/ actions[a].cut
  BY <1>2, RoomShape DEF PendingActions
<1>3. QED  BY <1>1, <1>2 DEF ReadsInv, Works, Sourced

LEMMA OpenWorkWaits ==
  ASSUME IInv, ReadsInv
  PROVE  OpenWorkIsPending
<1> SUFFICES ASSUME NEW j \in OpenItems, memory[j].source[1] = "action"
             PROVE  \/ memory[j].source[2] \in PendingActions
                    \/ actions[memory[j].source[2]].cut
  BY DEF OpenWorkIsPending
<1>1. j \in 1..Len(memory) /\ memory[j].status = "open"  BY RoomShape DEF OpenItems
<1>2. \A n : memory[j].source # <<"message", n>>  OBVIOUS
<1>3. QED  BY <1>1, <1>2, EachItem

LEMMA HealthReportsTrue ==
  ASSUME IInv, ReadsInv
  PROVE  HealthIsTrue
<1>1. \A j \in Window(HealthLimit, Len(memory)) : j \in 1..Len(memory)  BY DEF Window
<1>2. Duplicates = {}
  <2> SUFFICES ASSUME NEW j \in Duplicates PROVE FALSE  OBVIOUS
  <2>1. j \in 1..Len(memory)  BY <1>1 DEF Duplicates
  <2>2. PICK k \in 1..Len(memory) : k < j /\ memory[k].text = memory[j].text
    BY <1>1 DEF Duplicates
  <2>3. k = j  BY <2>1, <2>2 DEF ReadsInv, Works
  <2>4. QED  BY <2>1, <2>2, <2>3, RoomShape
<1>3. ASSUME NEW j \in Orphans
      PROVE  memory[j].source[1] = "message" /\ memory[j].source[2] \in 1..Now
  <2>1. j \in 1..Len(memory)  BY <1>1 DEF Orphans
  <2>2. CASE \E n \in 1..Len(messages) : memory[j].source = <<"message", n>>
    BY <2>2 DEF Now
  <2>3. ASSUME NEW a \in DOMAIN actions, memory[j].source = <<"action", a>>  PROVE FALSE
    <3>1. memory[j].source[1] = "action" /\ memory[j].source[2] = a  BY <2>3
    <3>2. memory[j].source[2] \notin DOMAIN actions  BY <3>1 DEF Orphans
    <3>3. QED  BY <3>1, <3>2
  <2>4. QED  BY <2>1, <2>2, <2>3, EachItem
<1>4. QED  BY <1>2, <1>3 DEF HealthIsTrue

\* What an action's events are (_trace_events_from_action).
LEMMA ActionEvents ==
  ASSUME NEW a
  PROVE  /\ \A e \in TraceOfAction(a) :
              /\ e.of = a /\ e.type \in {"action", "proposed", "decision"}
              /\ e.type = "decision" => a \notin PendingActions
         /\ \E e \in TraceOfAction(a) : e.type = "proposed"
         /\ a \notin PendingActions => \E e \in TraceOfAction(a) : e.type = "decision"
<1> DEFINE event(t, at) == [type |-> t, of |-> a, action |-> a, status |-> actions[a].status,
                            at |-> at]
           action == event("action", ActionTime(a))
           proposed == event("proposed", ProposalTime(a))
           decision == event("decision", ActionTime(a))
<1>1. TraceOfAction(a) = {action, proposed} \cup (IF a \in PendingActions THEN {} ELSE {decision})
  BY DEF TraceOfAction
<1>2. /\ action.of = a /\ action.type = "action" /\ proposed.of = a /\ proposed.type = "proposed"
      /\ decision.of = a /\ decision.type = "decision"
  OBVIOUS
<1> HIDE DEF action, proposed, decision
<1>3. QED  BY <1>1, <1>2

LEMMA EventOf ==
  ASSUME NEW e \in Events, e.type \in {"proposed", "decision"}
  PROVE  \E a \in DOMAIN actions : e \in TraceOfAction(a)
BY DEF Events, TraceOfMessages, TraceOfMemory

LEMMA TraceIsConsistent ==
  ASSUME IInv, ReadsInv
  PROVE  TraceAgrees
<1>1. \A j \in Window(IndexLimit, Len(memory)) : j \in 1..Len(memory)  BY DEF Window
<1>2. ASSUME NEW e \in Trace, NEW c \in MemoryAnswer({"open"}), e.type = "decision",
             memory[c.source[2]].source = <<"action", e.of>>
      PROVE  actions[e.of].cut
  <2>1. PICK a \in DOMAIN actions : e.of = a /\ a \notin PendingActions
    <3>1. e \in Events  BY DEF Trace, Newest
    <3>2. PICK a \in DOMAIN actions : e \in TraceOfAction(a)  BY <1>2, <3>1, EventOf
    <3>3. QED  BY <1>2, <3>2, ActionEvents
  <2>2. PICK j \in Window(IndexLimit, Len(memory)) :
          c = Cite("memory", j) /\ memory[j].status \in {"open"}
    BY DEF MemoryAnswer
  <2>3. c.source = <<"memory", j>>  BY <2>2 DEF Cite
  <2>4. memory[j].source = <<"action", a>> /\ memory[j].status = "open" /\ j \in 1..Len(memory)
    BY <1>1, <1>2, <2>1, <2>2, <2>3
  <2>5. QED  BY <2>1, <2>4, EachItem
<1>3. "memory_items" \in Coverage <=> \E e \in Events : e.type = "memory"
  <2>1. "memory_items" \in Coverage <=> memory # <<>>  BY DEF Coverage
  <2>2. (\E e \in Events : e.type = "memory") <=> TraceOfMemory # {}
    BY DEF Events, TraceOfMemory, TraceOfMessages, TraceOfAction
  <2>3. TraceOfMemory # {} <=> Window(IndexLimit, Len(memory)) # {}  BY DEF TraceOfMemory
  <2>4. memory = <<>> <=> Len(memory) = 0  BY RoomShape, EmptySeq
  <2>5. Window(IndexLimit, Len(memory)) # {} <=> Len(memory) # 0
    <3>1. IndexLimit \in Nat /\ IndexLimit # 0  BY BoundsAssumption, ReadsAssumption
    <3>2. Len(memory) # 0 => Len(memory) \in Window(IndexLimit, Len(memory))
      BY <3>1, RoomShape DEF Window
    <3>3. QED  BY <3>2, RoomShape DEF Window
  <2>6. QED  BY <2>1, <2>2, <2>3, <2>4, <2>5
<1>4. "patch_proposal" \in Coverage <=> \E e \in Events : e.type = "proposed"
  <2>1. "patch_proposal" \in Coverage <=> actions # <<>>  BY DEF Coverage
  <2>2. (\E e \in Events : e.type = "proposed") <=> DOMAIN actions # {}
    BY EventOf, ActionEvents DEF Events
  <2>3. actions = <<>> <=> DOMAIN actions = {}  BY RoomShape, EmptySeq
  <2>4. QED  BY <2>1, <2>2, <2>3
<1>5. "approval_decision" \in Coverage <=> \E e \in Events : e.type = "decision"
  <2>1. "approval_decision" \in Coverage <=> ~(DOMAIN actions \subseteq PendingActions)
    BY DEF Coverage
  <2>2. (\E e \in Events : e.type = "decision") <=> \E a \in DOMAIN actions : a \notin PendingActions
    <3>1. ASSUME NEW e \in Events, e.type = "decision"
          PROVE  \E a \in DOMAIN actions : a \notin PendingActions
      BY <3>1, EventOf, ActionEvents
    <3>2. ASSUME NEW a \in DOMAIN actions, a \notin PendingActions
          PROVE  \E e \in Events : e.type = "decision"
      <4>1. PICK e \in TraceOfAction(a) : e.type = "decision"  BY <3>2, ActionEvents
      <4>2. QED  BY <4>1 DEF Events
    <3>3. QED  BY <3>1, <3>2
  <2>3. QED  BY <2>1, <2>2
<1>6. QED  BY <1>2, <1>3, <1>4, <1>5 DEF TraceAgrees

\* An event is among the newest if one before it is.
LEMMA NewerIsNewest ==
  ASSUME NEW n \in Nat, NEW S, IsFiniteSet(S), \A e \in S : e.at \in Int,
         NEW e \in Newest(n, S), NEW f \in S, f.at >= e.at
  PROVE  f \in Newest(n, S)
<1> DEFINE after(x) == {g \in S : g.at > x.at}
<1>1. e \in S /\ Cardinality(after(e)) < n  BY DEF Newest
<1>2. after(e) \subseteq S /\ after(f) \subseteq after(e)  BY <1>1
<1>3. IsFiniteSet(after(e))  BY <1>2, FS_Subset
<1>4. IsFiniteSet(after(f)) /\ Cardinality(after(f)) <= Cardinality(after(e))
  BY <1>2, <1>3, FS_Subset
<1>5. Cardinality(after(e)) \in Nat /\ Cardinality(after(f)) \in Nat
  BY <1>3, <1>4, FS_CardinalityType
<1>6. QED  BY <1>1, <1>4, <1>5 DEF Newest

LEMMA FiniteTrail ==
  ASSUME IInv
  PROVE  IsFiniteSet(Trail) /\ \A e \in Trail : e.at \in Int
<1> DEFINE A == DOMAIN actions
           N == {b \in A : actions[b].told}
           W == {j \in Window(IndexLimit, Now) : messages[j].from = "audit"}
           byAction(a) == [kind |-> "action", source |-> <<"action", a>>,
                           status |-> actions[a].status, decided |-> a \notin PendingActions,
                           at |-> ActionTime(a)]
           byNotice(a) == [kind |-> "action", source |-> <<"notice", a>>,
                           status |-> actions[a].status, decided |-> FALSE, at |-> NoticeTime(a)]
           byMessage(i) == [kind |-> "speaker", source |-> <<"message", i>>, status |-> "mapped",
                            decided |-> FALSE, at |-> MessageTime(i)]
<1>1. IsFiniteSet(A) /\ IsFiniteSet(N) /\ IsFiniteSet(W)
  <2>1. IsFiniteSet(A) /\ IsFiniteSet(1..Len(messages))  BY RoomShape, FS_Interval
  <2>2. N \subseteq A /\ W \subseteq 1..Len(messages)  BY DEF Window, Now
  <2>3. QED  BY <2>1, <2>2, FS_Subset
<1>2. IsFiniteSet(TrailOfActions)
  <2>1. [a \in A |-> byAction(a)] \in Surjection(A, TrailOfActions)
    BY DEF Surjection, TrailOfActions
  <2>2. QED  BY <1>1, <2>1, FS_Surjection
<1>3. IsFiniteSet(TrailOfNotices)
  <2>1. [a \in N |-> byNotice(a)] \in Surjection(N, TrailOfNotices)
    BY DEF Surjection, TrailOfNotices
  <2>2. QED  BY <1>1, <2>1, FS_Surjection
<1>4. IsFiniteSet(TrailOfMappings)
  <2>1. [i \in W |-> byMessage(i)] \in Surjection(W, TrailOfMappings)
    BY DEF Surjection, TrailOfMappings
  <2>2. QED  BY <1>1, <2>1, FS_Surjection
<1>5. IsFiniteSet(Trail)  BY <1>2, <1>3, <1>4, FS_Union DEF Trail
<1>6. \A a \in A : ActionTime(a) \in Int /\ NoticeTime(a) \in Int
  <2>1. \A a \in A : actions[a] \in ActionRecords  BY RoomShape, ElementOfSeq
  <2>2. QED  BY <2>1 DEF ActionRecords, ActionTime, NoticeTime
<1>7. \A i \in W : MessageTime(i) \in Int  BY DEF MessageTime, Window
<1>8. /\ \A e \in TrailOfActions : e.at \in Int
      /\ \A e \in TrailOfNotices : e.at \in Int
      /\ \A e \in TrailOfMappings : e.at \in Int
  BY <1>6, <1>7 DEF TrailOfActions, TrailOfNotices, TrailOfMappings
<1>9. QED  BY <1>5, <1>8 DEF Trail

\* What is told of a label names the user it is mapped to, if with each telling it has those
\* that are later.
LEMMA LatestTells ==
  ASSUME IInv, ReadsInv, NEW l \in Uncut, NEW told \in SUBSET Tellings(l),
         \A e \in told, f \in Tellings(l) : f.at >= e.at => f \in told
  PROVE  NewestTells(mapping[l], told)
<1> SUFFICES ASSUME NEW e \in told, \A f \in told : f.at <= e.at
             PROVE  messages[e.source[2]].about[2] = mapping[l]
  BY DEF NewestTells
<1> DEFINE event(i) == [kind |-> "speaker", source |-> <<"message", i>>, status |-> "mapped",
                        decided |-> FALSE, at |-> MessageTime(i)]
<1>1. PICK i \in Window(IndexLimit, Now) :
        messages[i].from = "audit" /\ e = event(i) /\ messages[e.source[2]].about[1] = l
  BY DEF Tellings, TrailOfMappings
<1>2. i \in 1..Len(messages) /\ i > Len(messages) - IndexLimit /\ e.source[2] = i /\ e.at = 3 * i
  BY <1>1 DEF Window, Now, MessageTime
<1>3. PICK u \in Users : messages[i].about = <<l, u>>
  <2>1. messages[i] \in Messages /\ messages[i].about # None
    BY <1>1, <1>2, RoomShape, ElementOfSeq DEF ReadsInv, Audits
  <2>2. messages[i].about \in Labels \X Users  BY <2>1 DEF Messages
  <2>3. QED  BY <1>1, <1>2, <2>2
<1>4. PICK last \in 1..Len(messages) :
        /\ messages[last].about = <<l, mapping[l]>>
        /\ \A k \in last+1..Len(messages) : \A v \in Users : messages[k].about # <<l, v>>
  BY DEF Uncut, IInv, Told
<1>5. i <= last
  <2> SUFFICES ASSUME i > last PROVE FALSE  BY <1>2, <1>4
  <2>1. i \in last+1..Len(messages)  BY <1>2, <1>4, RoomShape
  <2>2. QED  BY <1>3, <1>4, <2>1
<1>6. CASE i = last  BY <1>2, <1>4, <1>6
<1>7. CASE i < last
  <2> DEFINE f == event(last)
  <2>1. messages[last].from = "audit" /\ last \in Window(IndexLimit, Now)
    <3>1. messages[last].about # None
      BY <1>4, NamesAssumption DEF Uncut, IInv, RoomTypes
    <3>2. messages[last].from = "audit"  BY <1>4, <3>1 DEF ReadsInv, Audits
    <3>3. Len(messages) \in Nat /\ IndexLimit \in Nat  BY RoomShape, BoundsAssumption
    <3>4. last > Len(messages) - IndexLimit  BY <1>2, <1>4, <1>7, <3>3
    <3>5. last \in Window(IndexLimit, Now)  BY <1>4, <3>4 DEF Window, Now
    <3>6. QED  BY <3>2, <3>5
  <2>2. f.at = 3 * last /\ f.source[2] = last /\ messages[last].about[1] = l
    BY <1>4 DEF MessageTime
  <2>3. f \in Tellings(l)  BY <2>1, <2>2 DEF Tellings, TrailOfMappings
  <2>4. f.at >= e.at /\ ~(f.at <= e.at)  BY <1>2, <1>4, <1>7, <2>2
  <2> HIDE DEF f
  <2>5. QED  BY <2>3, <2>4
<1>8. QED  BY <1>2, <1>4, <1>5, <1>6, <1>7

\* An answer has, with a telling, the later ones that the question scores alike.
LEMMA AnswerHasLater ==
  ASSUME IInv, NEW l, NEW score, NEW kinds, "speaker" \in kinds,
         \A e, f \in Tellings(l) : score[e] = score[f],
         NEW e \in AuditAnswer(kinds, None, FALSE, score) \cap Tellings(l),
         NEW f \in Tellings(l), f.at >= e.at
  PROVE  f \in AuditAnswer(kinds, None, FALSE, score)
<1> DEFINE about == {x \in Newest(QueryLimit, Trail) :
                       x.kind \in kinds /\ None \in {None, x.status} /\ (FALSE => x.decided)}
           hits == {x \in about : score[x] > 0}
           better(x) == {y \in hits :
                           score[y] > score[x] \/ (score[y] = score[x] /\ y.at > x.at)}
           answered == IF hits = {} THEN Newest(AnswerLimit, about)
                       ELSE {x \in hits : Cardinality(better(x)) < AnswerLimit}
<1>1. AuditAnswer(kinds, None, FALSE, score) = answered  BY DEF AuditAnswer
<1>2. QueryLimit \in Nat /\ AnswerLimit \in Nat  BY ReadsAssumption
<1>3. f \in Trail /\ f.kind = "speaker" /\ e.at \in Int /\ f.at \in Int
  <2>1. e \in Trail /\ f \in Trail  BY DEF Tellings, Trail
  <2>2. f.kind = "speaker"  BY DEF Tellings, TrailOfMappings
  <2>3. QED  BY <2>1, <2>2, FiniteTrail
<1>4. IsFiniteSet(about) /\ \A x \in about : x.at \in Int
  <2>1. about \subseteq Trail  BY DEF Newest
  <2> HIDE DEF about
  <2>2. QED  BY <2>1, FiniteTrail, FS_Subset
<1>5. e \in about
  <2>1. CASE hits = {}  BY <1>1, <2>1 DEF Newest
  <2>2. CASE hits # {}  BY <1>1, <2>2
  <2>3. QED  BY <2>1, <2>2
<1>6. f \in about
  <2>1. e \in Newest(QueryLimit, Trail)  BY <1>5
  <2>2. f \in Newest(QueryLimit, Trail)  BY <1>2, <1>3, <2>1, FiniteTrail, NewerIsNewest
  <2>3. QED  BY <1>3, <2>2
<1> HIDE DEF about
<1>7. CASE hits = {}
  <2>1. e \in Newest(AnswerLimit, about)  BY <1>1, <1>7
  <2>2. f \in Newest(AnswerLimit, about)  BY <1>2, <1>4, <1>6, <2>1, NewerIsNewest
  <2>3. QED  BY <1>1, <1>7, <2>2
<1>8. CASE hits # {}
  <2>1. e \in hits /\ Cardinality(better(e)) < AnswerLimit  BY <1>1, <1>8
  <2>2. score[f] = score[e]  OBVIOUS
  <2>3. f \in hits  BY <1>6, <2>1, <2>2
  <2>4. better(f) \subseteq better(e)
    <3> SUFFICES ASSUME NEW y \in better(f) PROVE y \in better(e)  OBVIOUS
    <3>1. y \in hits /\ y.at \in Int  BY <1>4
    <3>2. y.at > f.at => y.at > e.at  BY <1>3, <3>1
    <3>3. QED  BY <2>2, <3>1, <3>2
  <2>5. better(e) \subseteq about  OBVIOUS
  <2> DEFINE E == better(e)
             B == better(f)
  <2>6. B \subseteq E /\ E \subseteq about /\ Cardinality(E) < AnswerLimit  BY <2>1, <2>4, <2>5
  <2> HIDE DEF E, B
  <2>7. IsFiniteSet(E)  BY <1>4, <2>6, FS_Subset
  <2>8. IsFiniteSet(B) /\ Cardinality(B) <= Cardinality(E)  BY <2>6, <2>7, FS_Subset
  <2>9. Cardinality(B) \in Nat /\ Cardinality(E) \in Nat  BY <2>7, <2>8, FS_CardinalityType
  <2>10. Cardinality(better(f)) < AnswerLimit  BY <1>2, <2>6, <2>8, <2>9 DEF B
  <2>11. QED  BY <1>1, <1>8, <2>3, <2>10
<1>9. QED  BY <1>7, <1>8

LEMMA TrailTells ==
  ASSUME IInv, ReadsInv
  PROVE  TrailTellsMapping
<1>1. ASSUME NEW l \in Uncut
      PROVE  NewestTells(mapping[l], AuditTrail({"speaker"}) \cap Tellings(l))
  <2> DEFINE S == {x \in Trail : x.kind \in {"speaker"}}
  <2>1. AuditTrail({"speaker"}) = Newest(TrailLimit, S)  BY DEF AuditTrail
  <2>2. Tellings(l) \subseteq S /\ S \subseteq Trail  BY DEF Tellings, Trail, TrailOfMappings
  <2> HIDE DEF S
  <2>3. IsFiniteSet(S) /\ \A x \in S : x.at \in Int  BY <2>2, FiniteTrail, FS_Subset
  <2>4. TrailLimit \in Nat  BY ReadsAssumption
  <2>5. ASSUME NEW e \in Newest(TrailLimit, S), NEW f \in Tellings(l), f.at >= e.at
        PROVE  f \in Newest(TrailLimit, S)
    BY <2>2, <2>3, <2>4, <2>5, NewerIsNewest
  <2>6. QED  BY <2>1, <2>5, LatestTells
<1>2. ASSUME NEW l \in Uncut, NEW score \in [Trail -> Scores],
             \A e, f \in Tellings(l) : score[e] = score[f],
             NEW kinds \in {{"speaker"}, {"speaker", "action"}}
      PROVE  NewestTells(mapping[l], AuditAnswer(kinds, None, FALSE, score) \cap Tellings(l))
  <2> DEFINE answered == AuditAnswer(kinds, None, FALSE, score)
  <2>1. "speaker" \in kinds  OBVIOUS
  <2>2. \A e \in answered \cap Tellings(l), f \in Tellings(l) : f.at >= e.at => f \in answered
    BY <1>2, <2>1, AnswerHasLater
  <2> HIDE DEF answered
  <2>3. NewestTells(mapping[l], answered \cap Tellings(l))  BY <2>2, LatestTells
  <2>4. QED  BY <2>3 DEF answered
<1>3. QED  BY <1>1, <1>2 DEF TrailTellsMapping

\* What is cited as the stores have it is cited of whom, and in the state, the room now says.
LEMMA CitedTruly ==
  ASSUME IInv, ReadsInv
  PROVE  CitationsAreCurrent
<1>1. AttributionAgrees  BY Attributed
<1>2. ASSUME NEW c \in answer, NEW i \in DOMAIN messages, c = Cite("message", i)
      PROVE  /\ c.source[1] = "message" /\ c.source[2] = i
             /\ messages[i].from = "segment" /\ messages[i].label \in Uncut
                  => c.actor = mapping[messages[i].label]
  <2>1. c.source = <<"message", i>> /\ c.actor = messages[i].actor  BY <1>2 DEF Cite
  <2>2. QED  BY <1>1, <2>1 DEF AttributionAgrees
<1>3. ASSUME NEW c \in answer, NEW j \in DOMAIN memory, c = Cite("memory", j)
      PROVE  /\ c.source[1] = "memory" /\ c.source[2] = j
             /\ LET of == memory[j].source IN
                IF of[1] = "message"
                THEN messages[of[2]].label \notin cut => c.actor = messages[of[2]].actor
                ELSE of[2] \notin PendingActions /\ ~actions[of[2]].cut => c.status = "noted"
  <2>1. c.source = <<"memory", j>> /\ c.actor = memory[j].actor /\ c.status = memory[j].status
    BY <1>3 DEF Cite
  <2>2. ASSUME NEW n \in 1..Len(messages), memory[j].source = <<"message", n>>
        PROVE  messages[n].label \notin cut => c.actor = messages[n].actor
    BY <1>1, <2>1, <2>2, RoomShape DEF AttributionAgrees
  <2>3. memory[j].status \in {"open", "noted"}
    <3>1. memory[j] \in Items  BY RoomShape, ElementOfSeq
    <3>2. QED  BY <3>1 DEF Items
  <2>4. \/ \E n \in 1..Len(messages) : memory[j].source = <<"message", n>>
        \/ \E a \in DOMAIN actions :
             /\ memory[j].source = <<"action", a>>
             /\ memory[j].status = "open" => a \in PendingActions \/ actions[a].cut
    BY RoomShape, EachItem
  <2>5. QED  BY <2>1, <2>2, <2>3, <2>4
<1>4. ASSUME NEW c \in answer, NEW a \in DOMAIN actions, c = Cite("action", a)
      PROVE  c.source[1] = "action"
  BY <1>4 DEF Cite
<1>5. QED  BY <1>2, <1>3, <1>4 DEF CitationsAreCurrent, ReadsInv, AsStored

\* What the room answers agrees with its stores when it is given, for any number of people,
\* messages and actions and windows of any length.
THEOREM AnswersStayCurrent == Spec => []AnswersAreCurrent
<1>1. IInv /\ ReadsInv => AnswersAreCurrent
  BY CitedTruly, OpenWorkWaits, TrailTells, TraceIsConsistent, HealthReportsTrue
     DEF AnswersAreCurrent
<1>2. QED  BY InductiveInvariant, ReadsInvariant, <1>1, PTL
-----------------------------------------------------------------------------
(* The long memory.                                                        *)

\* What is archived of a memory and of actions is true of them.
TrueOf(arch, mem, acts) ==
  \A id \in DOMAIN arch :
    /\ id[1] = "memory" =>
         /\ id[2] \in 1..Len(mem)
         /\ arch[id].actor \in Labels => arch[id].actor \in {mem[id[2]].actor, mem[id[2]].first}
         /\ arch[id].status = "noted" => mem[id[2]].status = "noted"
    /\ id[1] = "action" =>
         /\ id[2] \in 1..Len(acts)
         /\ arch[id].status # "pending_approval" => arch[id].status = acts[id[2]].status

\* Only people are put in the place of a first actor.
ByPeople(mem) == \A j \in 1..Len(mem) : mem[j].first # None => mem[j].actor \in Users

\* The inductive invariant of the long memory; it rests on IInv.
ArchiveInv == TrueOf(archive, memory, actions) /\ ByPeople(memory)

\* How a memory may change: items stay settled, and under the voices they were attributed to.
Keeps(mem, new) ==
  /\ Len(new) >= Len(mem)
  /\ \A j \in 1..Len(mem) :
       /\ mem[j].status = "noted" => new[j].status = "noted"
       /\ \A l \in Labels : l \in {mem[j].actor, mem[j].first} => l \in {new[j].actor, new[j].first}
  /\ ByPeople(mem) => ByPeople(new)

\* How actions may change: an outcome stays.
Outlive(acts, new) ==
  /\ Len(new) >= Len(acts)
  /\ \A a \in 1..Len(acts) :
       acts[a].status # "pending_approval" => new[a].status = acts[a].status

LEMMA StaysTrue ==
  ASSUME NEW arch, NEW mem, NEW new, NEW acts, NEW later, TrueOf(arch, mem, acts),
         Len(mem) \in Nat, Len(new) \in Nat, Len(acts) \in Nat, Len(later) \in Nat,
         Keeps(mem, new), Outlive(acts, later)
  PROVE  TrueOf(arch, new, later)
<1>1. /\ \A j \in 1..Len(mem) : j \in 1..Len(new)
      /\ \A a \in 1..Len(acts) : a \in 1..Len(later)
  BY DEF Keeps, Outlive
<1>2. ASSUME NEW id \in DOMAIN arch, id[1] = "memory"
      PROVE  /\ id[2] \in 1..Len(new)
             /\ arch[id].actor \in Labels => arch[id].actor \in {new[id[2]].actor, new[id[2]].first}
             /\ arch[id].status = "noted" => new[id[2]].status = "noted"
  <2>1. /\ id[2] \in 1..Len(mem)
        /\ arch[id].actor \in Labels => arch[id].actor \in {mem[id[2]].actor, mem[id[2]].first}
        /\ arch[id].status = "noted" => mem[id[2]].status = "noted"
    BY <1>2 DEF TrueOf
  <2>2. QED  BY <1>1, <2>1 DEF Keeps
<1>3. ASSUME NEW id \in DOMAIN arch, id[1] = "action"
      PROVE  /\ id[2] \in 1..Len(later)
             /\ arch[id].status # "pending_approval" => arch[id].status = later[id[2]].status
  <2>1. /\ id[2] \in 1..Len(acts)
        /\ arch[id].status # "pending_approval" => arch[id].status = acts[id[2]].status
    BY <1>3 DEF TrueOf
  <2>2. QED  BY <1>1, <2>1 DEF Outlive
<1>4. QED  BY <1>2, <1>3 DEF TrueOf

LEMMA KeepsOn ==
  ASSUME NEW mem, NEW new, NEW last, Keeps(mem, new), Keeps(new, last),
         Len(mem) \in Nat, Len(new) \in Nat, Len(last) \in Nat
  PROVE  Keeps(mem, last)
<1>1. \A j \in 1..Len(mem) : j \in 1..Len(new)  BY DEF Keeps
<1>2. QED  BY <1>1 DEF Keeps

LEMMA RememberKeeps ==
  ASSUME NEW mem \in Seq(Items), NEW x \in Items, x.first = None
  PROVE  /\ Remember(mem, x) \in Seq(Items) /\ Len(mem) \in Nat /\ Len(Remember(mem, x)) \in Nat
         /\ Keeps(mem, Remember(mem, x))
<1>1. Len(mem) \in Nat  BY LenProperties
<1>2. CASE Remember(mem, x) = mem  BY <1>1, <1>2 DEF Keeps
<1>3. CASE Remember(mem, x) = Append(mem, x)
  <2> DEFINE new == Append(mem, x)
  <2>1. /\ new \in Seq(Items) /\ Len(new) = Len(mem) + 1 /\ new[Len(mem) + 1] = x
        /\ \A j \in 1..Len(mem) : new[j] = mem[j]
        /\ \A j \in 1..Len(mem) + 1 : j \in 1..Len(mem) \/ j = Len(mem) + 1
    BY Appended
  <2>2. ByPeople(mem) => ByPeople(new)  BY <2>1 DEF ByPeople
  <2> HIDE DEF new
  <2>3. Keeps(mem, new)  BY <1>1, <2>1, <2>2 DEF Keeps
  <2>4. QED  BY <1>1, <1>3, <2>1, <2>3 DEF new
<1>4. QED  BY <1>2, <1>3 DEF Remember

LEMMA MappedKeeps ==
  ASSUME NEW mem \in Seq(Items), NEW label \in Labels, NEW u \in Users, ByPeople(mem)
  PROVE  LET f == Reattributed(mem, label, u) IN Len(f) \in Nat /\ Keeps(mem, f)
<1> DEFINE f == Reattributed(mem, label, u)
<1>1. /\ Len(f) = Len(mem) /\ Len(mem) \in Nat
      /\ \A j \in 1..Len(mem) :
           /\ mem[j].label # label => f[j] = mem[j]
           /\ mem[j].label = label =>
                /\ f[j].actor = u
                /\ f[j].first = IF mem[j].first = None THEN mem[j].actor ELSE mem[j].first
  BY MappedItem
<1>2. \A j \in 1..Len(mem) : f[j].status = mem[j].status
  <2> SUFFICES ASSUME NEW j \in 1..Len(mem) PROVE f[j].status = mem[j].status  OBVIOUS
  <2> DEFINE x == mem[j]
             y == [x EXCEPT !.first = IF x.first = None THEN x.actor ELSE x.first, !.actor = u]
  <2>1. x \in Items /\ j \in DOMAIN mem  BY LenProperties, ElementOfSeq
  <2>2. f[j] = IF x.label = label THEN y ELSE x  BY <2>1 DEF Reattributed
  <2>3. y.status = x.status  BY <2>1 DEF Items
  <2>4. QED  BY <2>2, <2>3
<1> HIDE DEF f
<1>3. ASSUME NEW j \in 1..Len(mem), NEW l \in Labels, l \in {mem[j].actor, mem[j].first}
      PROVE  l \in {f[j].actor, f[j].first}
  <2>1. l # None /\ l \notin Users  BY NamesAssumption
  <2>2. mem[j].first # None => mem[j].actor \in Users  BY DEF ByPeople
  <2>3. QED  BY <1>1, <1>3, <2>1, <2>2
<1>4. ByPeople(f)  BY <1>1 DEF ByPeople
<1>5. QED  BY <1>1, <1>2, <1>3, <1>4 DEF Keeps, f

LEMMA SettledKeeps ==
  ASSUME NEW mem \in Seq(Items), NEW a
  PROVE  LET f == Settled(mem, a) IN
         f \in Seq(Items) /\ Len(mem) \in Nat /\ Len(f) \in Nat /\ Keeps(mem, f)
<1> DEFINE f == Settled(mem, a)
<1>1. Len(mem) \in Nat /\ DOMAIN mem = 1..Len(mem) /\ \A j \in 1..Len(mem) : mem[j] \in Items
  BY LenProperties, ElementOfSeq
<1>2. ASSUME NEW j \in 1..Len(mem)
      PROVE  /\ f[j] \in Items /\ f[j].actor = mem[j].actor /\ f[j].first = mem[j].first
             /\ mem[j].status = "noted" => f[j].status = "noted"
  <2> DEFINE x == mem[j]
             y == [x EXCEPT !.status = "noted"]
  <2>1. f[j] = x \/ f[j] = y  BY <1>1 DEF Settled
  <2>2. x \in Items  BY <1>1
  <2>3. y \in Items /\ y.actor = x.actor /\ y.first = x.first /\ y.status = "noted"
    BY <2>2 DEF Items
  <2>4. QED  BY <2>1, <2>2, <2>3
<1>3. f \in [1..Len(mem) -> Items]  BY <1>1, <1>2 DEF Settled
<1>4. f \in Seq(Items) /\ Len(f) = Len(mem)  BY <1>1, <1>3, SeqOf
<1> HIDE DEF f
<1>5. Keeps(mem, f)  BY <1>1, <1>2, <1>4 DEF Keeps, ByPeople
<1>6. QED  BY <1>1, <1>4, <1>5 DEF f

\* What the archive takes in is true of the room (archive_room).
LEMMA RecordsTrue ==
  ASSUME NEW mem \in Seq(Items), NEW acts \in Seq(ActionRecords), NEW msgs \in Seq(Messages),
         NEW arch, DOMAIN arch \subseteq RecordIds, TrueOf(arch, mem, acts)
  PROVE  TrueOf(Upserted(arch, RecordsAt(mem, acts, msgs)), mem, acts)
<1> DEFINE R == RecordsAt(mem, acts, msgs)
           new == Upserted(arch, R)
<1>1. (\A r \in R : r.id \in RecordIds) /\ \A r, q \in R : r.id = q.id => r = q
  BY RecordFacts
<1>2. \A r \in R :
        /\ r.id[1] = "memory" =>
             /\ r.id[2] \in 1..Len(mem)
             /\ r.actor = mem[r.id[2]].actor /\ r.status = mem[r.id[2]].status
        /\ r.id[1] = "action" =>
             r.id[2] \in 1..Len(acts) /\ r.status = acts[r.id[2]].status
  <2>1. DOMAIN acts = 1..Len(acts) /\ Len(mem) \in Nat  BY LenProperties
  <2>2. Window(SnapshotLimit, Len(mem)) \subseteq 1..Len(mem)  BY DEF Window
  <2>3. QED  BY <2>1, <2>2 DEF RecordsAt
<1> HIDE DEF R
<1>3. /\ DOMAIN new = DOMAIN arch \cup {r.id : r \in R}
      /\ \A r \in R : new[r.id] = r
  BY <1>1, UpsertFacts DEF Upserted
<1>4. \A id \in DOMAIN arch : (\A r \in R : r.id # id) => new[id] = arch[id]
  BY DEF Upserted
<1> HIDE DEF new
<1>5. ASSUME NEW id \in DOMAIN new
      PROVE  \/ \E r \in R : r.id = id /\ new[id] = r
             \/ id \in DOMAIN arch /\ new[id] = arch[id]
  BY <1>3, <1>4
<1>6. ASSUME NEW id \in DOMAIN new, id[1] = "memory"
      PROVE  /\ id[2] \in 1..Len(mem)
             /\ new[id].actor \in Labels => new[id].actor \in {mem[id[2]].actor, mem[id[2]].first}
             /\ new[id].status = "noted" => mem[id[2]].status = "noted"
  <2>1. ASSUME NEW r \in R, r.id = id, new[id] = r
        PROVE  /\ id[2] \in 1..Len(mem)
               /\ new[id].actor = mem[id[2]].actor /\ new[id].status = mem[id[2]].status
    BY <1>2, <1>6, <2>1
  <2>2. CASE id \in DOMAIN arch /\ new[id] = arch[id]  BY <1>6, <2>2 DEF TrueOf
  <2>3. QED  BY <1>5, <2>1, <2>2
<1>7. ASSUME NEW id \in DOMAIN new, id[1] = "action"
      PROVE  /\ id[2] \in 1..Len(acts)
             /\ new[id].status # "pending_approval" => new[id].status = acts[id[2]].status
  <2>1. ASSUME NEW r \in R, r.id = id, new[id] = r
        PROVE  id[2] \in 1..Len(acts) /\ new[id].status = acts[id[2]].status
    BY <1>2, <1>7, <2>1
  <2>2. CASE id \in DOMAIN arch /\ new[id] = arch[id]  BY <1>7, <2>2 DEF TrueOf
  <2>3. QED  BY <1>5, <2>1, <2>2
<1>8. TrueOf(new, mem, acts)  BY <1>6, <1>7 DEF TrueOf
<1>9. QED  BY <1>8 DEF new, R

LEMMA QuietArchive ==
  ASSUME IInv, ArchiveInv, NEW u \in Users, Join(u) \/ Leave(u) \/ Query(u) \/ Archive(u)
  PROVE  ArchiveInv'
<1>1. UNCHANGED <<messages, memory, actions>>  BY DEF Join, Leave, Query, Archive
<1>2. archive' = archive \/ archive' = Upserted(archive, RecordsAt(memory, actions, messages))
  BY DEF Join, Leave, Query, Archive, Records, RecordsAt, Now
<1>3. DOMAIN archive \subseteq RecordIds  BY DEF IInv, RoomTypes
<1>4. TrueOf(archive', memory, actions)  BY <1>2, <1>3, RoomShape, RecordsTrue DEF ArchiveInv
<1>5. QED  BY <1>1, <1>4 DEF ArchiveInv

LEMMA IngestArchive ==
  ASSUME IInv, IInv', ArchiveInv, NEW u \in Users, NEW label \in Labels, NEW text \in Sayings,
         NEW id \in Users \cup {None}, NEW upto \in 1..2, Ingest(u, label, text, id, upto)
  PROVE  ArchiveInv'
<1> DEFINE m == Segment(label, text, Identified(label, id))
           n == Len(messages) + 1
           x == [text |-> m.text, label |-> m.label, actor |-> m.actor, first |-> None,
                 source |-> <<"message", n>>, status |-> "open", at |-> n]
<1>1. /\ memory' = memory \/ memory' = Remember(memory, x)
      /\ actions' = actions /\ archive' = archive
  BY DEF Ingest, Capture, Now
<1>2. x \in Items
  <2>1. Identified(label, id) \in Users \cup {None}  BY DEF Identified, IInv, RoomTypes
  <2>2. m.actor \in Actors /\ m.text = text /\ m.label = label  BY <2>1 DEF Segment, Actors
  <2>3. n \in Nat  BY RoomShape
  <2>4. QED  BY <2>2, <2>3 DEF Items, SourceIds, Texts
<1>3. x.first = None  OBVIOUS
<1> HIDE DEF x
<1>4. Keeps(memory, memory') /\ Len(memory') \in Nat
  <2>1. Keeps(memory, memory)  BY RoomShape DEF Keeps
  <2>2. QED  BY <1>1, <1>2, <1>3, <2>1, RoomShape, RememberKeeps
<1>5. Outlive(actions, actions')  BY <1>1, RoomShape DEF Outlive
<1>6. TrueOf(archive', memory', actions')
  BY <1>1, <1>4, <1>5, RoomShape, StaysTrue DEF ArchiveInv
<1>7. QED  BY <1>4, <1>6 DEF ArchiveInv, Keeps

LEMMA SpeakArchive ==
  ASSUME IInv, IInv', ArchiveInv, NEW u \in Users, NEW text \in Sayings, NEW voice \in BOOLEAN,
         NEW proposes \in BOOLEAN, NEW upto \in 1..5, Speak(u, text, voice, proposes, upto)
  PROVE  ArchiveInv'
<1> DEFINE m == Typed(u, text, voice)
           n == Len(messages) + 1
           a == Len(actions) + 1
           rec == [by |-> u, status |-> "pending_approval", made |-> n, at |-> n,
                   cut |-> FALSE, told |-> FALSE]
           x == [text |-> m.text, label |-> m.label, actor |-> m.actor, first |-> None,
                 source |-> <<"message", n>>, status |-> "open", at |-> n]
           y == [text |-> Proposed, label |-> None, actor |-> actions'[a].by, first |-> None,
                 source |-> <<"action", a>>, status |-> "open", at |-> actions'[a].at]
           mem == IF upto < 3 THEN memory ELSE Remember(memory, x)
<1>1. /\ actions' = actions \/ actions' = Append(actions, rec)
      /\ proposes /\ upto = 5 => actions' = Append(actions, rec)
      /\ memory' = (IF proposes /\ upto = 5 THEN Remember(mem, y) ELSE mem)
      /\ archive' = archive
  BY DEF Speak, Now, Capture, CaptureAction
<1>2. n \in Nat /\ a \in Nat  BY RoomShape
<1>3. rec \in ActionRecords  BY <1>2 DEF ActionRecords, Statuses
<1>4. x \in Items /\ x.first = None
  <2>1. m.actor \in Actors /\ m.text = text /\ m.label \in Labels \cup {None}
    BY NamesAssumption DEF Typed, Actors
  <2>2. QED  BY <1>2, <2>1 DEF Items, SourceIds, Texts
<1>5. proposes /\ upto = 5 => y \in Items /\ y.first = None
  <2> SUFFICES ASSUME proposes, upto = 5 PROVE y \in Items /\ y.first = None  OBVIOUS
  <2>1. actions'[a] = rec  BY <1>1, <1>3, RoomShape, Appended
  <2>2. actions'[a] \in ActionRecords  BY <1>3, <2>1
  <2>3. QED  BY <1>2, <2>2 DEF Items, ActionRecords, SourceIds, Actors, Texts
<1>6. Outlive(actions, actions') /\ Len(actions') \in Nat
  <2>1. Outlive(actions, actions)  BY RoomShape DEF Outlive
  <2>2. /\ Len(Append(actions, rec)) = Len(actions) + 1
        /\ \A b \in 1..Len(actions) : Append(actions, rec)[b] = actions[b]
    BY <1>3, RoomShape, Appended
  <2> HIDE DEF rec
  <2>3. Outlive(actions, Append(actions, rec)) /\ Len(Append(actions, rec)) \in Nat
    BY <2>2, RoomShape DEF Outlive
  <2>4. QED  BY <1>1, <2>1, <2>3, RoomShape
<1> HIDE DEF x, y, rec
<1>7. mem \in Seq(Items) /\ Len(mem) \in Nat /\ Keeps(memory, mem)
  <2>1. Keeps(memory, memory)  BY RoomShape DEF Keeps
  <2>2. QED  BY <1>4, <2>1, RoomShape, RememberKeeps
<1> HIDE DEF mem
<1>8. Keeps(memory, memory') /\ Len(memory') \in Nat
  <2>1. CASE proposes /\ upto = 5
    <3>1. Keeps(mem, memory') /\ Len(memory') \in Nat
      BY <1>1, <1>5, <1>7, <2>1, RememberKeeps
    <3>2. QED  BY <1>7, <3>1, RoomShape, KeepsOn
  <2>2. CASE ~(proposes /\ upto = 5)  BY <1>1, <1>7, <2>2
  <2>3. QED  BY <2>1, <2>2
<1>9. TrueOf(archive', memory', actions')
  BY <1>1, <1>6, <1>8, RoomShape, StaysTrue DEF ArchiveInv
<1>10. QED  BY <1>8, <1>9 DEF ArchiveInv, Keeps

LEMMA MapArchive ==
  ASSUME IInv, ArchiveInv, NEW u \in Users, NEW label \in Labels, NEW target \in Users,
         NEW upto \in 1..5, Map(u, label, target, upto)
  PROVE  ArchiveInv'
<1>1. /\ memory' = memory \/ memory' = Reattributed(memory, label, target)
      /\ actions' = actions /\ archive' = archive
  BY DEF Map
<1>2. Keeps(memory, memory') /\ Len(memory') \in Nat
  <2>1. Keeps(memory, memory)  BY RoomShape DEF Keeps
  <2>2. QED  BY <1>1, <2>1, RoomShape, MappedKeeps DEF ArchiveInv
<1>3. Outlive(actions, actions')  BY <1>1, RoomShape DEF Outlive
<1>4. TrueOf(archive', memory', actions')
  BY <1>1, <1>2, <1>3, RoomShape, StaysTrue DEF ArchiveInv
<1>5. QED  BY <1>2, <1>4 DEF ArchiveInv, Keeps

LEMMA DecideArchive ==
  ASSUME IInv, IInv', ArchiveInv, NEW u \in Users, NEW a \in DOMAIN actions,
         NEW status \in {"completed", "failed", "rejected"}, NEW upto \in 1..4,
         Decide(u, a, status, upto),
         \/ archive' = archive
         \/ archive' = Upserted(archive, Records')
  PROVE  ArchiveInv'
<1> DEFINE text == Decided(u, a, status)
           x == [text |-> text, label |-> None, actor |-> actions'[a].by, first |-> None,
                 source |-> <<"action", a>>, status |-> "noted", at |-> actions'[a].at]
           new == [actions[a] EXCEPT !.status = status, !.at = Now, !.cut = upto < 2,
                                     !.told = upto = 4]
<1>1. /\ actions' = [actions EXCEPT ![a] = new] /\ actions[a].status = "pending_approval"
      /\ \/ memory' = memory \/ memory' = Settled(memory, a)
         \/ memory' = Remember(Settled(memory, a), x)
  <2>1. actions' = [actions EXCEPT ![a] = new]  BY DEF Decide
  <2>2. actions[a].status = "pending_approval"  BY DEF Decide
  <2>3. CaptureAction(Settled(memory, a), a, text, "noted") = Remember(Settled(memory, a), x)
    BY DEF CaptureAction
  <2>4. \/ memory' = memory \/ memory' = Settled(memory, a)
        \/ memory' = CaptureAction(Settled(memory, a), a, text, "noted")
    BY DEF Decide
  <2> HIDE DEF x
  <2>5. QED  BY <2>1, <2>2, <2>3, <2>4
<1>2. a \in 1..Len(actions) /\ DOMAIN actions = 1..Len(actions)  BY RoomShape
<1>3. DOMAIN actions' = DOMAIN actions /\ \A b \in DOMAIN actions : b # a => actions'[b] = actions[b]
  BY <1>1
<1>4. IInv' => /\ actions' \in Seq(ActionRecords) /\ memory' \in Seq(Items)
               /\ messages' \in Seq(Messages)
  BY DEF IInv, AllSaid, AllFit, RoomTypes
<1>5. Len(actions') = Len(actions) /\ actions'[a] \in ActionRecords /\ Len(memory') \in Nat
  <2>1. DOMAIN actions' = 1..Len(actions') /\ Len(actions') \in Nat /\ Len(memory') \in Nat
    BY <1>4, LenProperties
  <2>2. Len(actions') = Len(actions)  BY <1>2, <1>3, <2>1, RoomShape
  <2>3. QED  BY <1>2, <1>4, <2>1, <2>2, ElementOfSeq
<1>6. Outlive(actions, actions')
  <2>1. \A b \in 1..Len(actions) :
          actions[b].status # "pending_approval" => actions'[b].status = actions[b].status
    BY <1>1, <1>2, <1>3
  <2>2. QED  BY <1>5, <2>1, RoomShape DEF Outlive
<1>7. x \in Items /\ x.first = None
  <2>1. a \in 1..MaxActions /\ a \in Nat
    BY <1>2, RoomShape, BoundsAssumption DEF IInv, RoomTypes
  <2>2. text \in Texts
    <3>1. CASE status = "rejected"
      <4>1. text = Decided(u, a, "rejected")  BY <3>1
      <4>2. QED  BY <2>1, <4>1 DEF Texts
    <3>2. CASE status # "rejected"
      <4>1. text = Decided(u, a, "completed")  BY <3>2 DEF Decided
      <4>2. QED  BY <2>1, <4>1 DEF Texts
    <3>3. QED  BY <3>1, <3>2
  <2> HIDE DEF text
  <2>3. QED  BY <1>5, <2>1, <2>2 DEF Items, ActionRecords, SourceIds, Actors
<1> HIDE DEF x
<1>8. Keeps(memory, memory')
  <2> DEFINE f == Settled(memory, a)
  <2>1. Keeps(memory, memory)  BY RoomShape DEF Keeps
  <2>2. f \in Seq(Items) /\ Len(f) \in Nat /\ Keeps(memory, f)  BY RoomShape, SettledKeeps
  <2> HIDE DEF f
  <2>3. Keeps(f, Remember(f, x)) /\ Len(Remember(f, x)) \in Nat  BY <1>7, <2>2, RememberKeeps
  <2>4. Keeps(memory, Remember(f, x))  BY <2>2, <2>3, RoomShape, KeepsOn
  <2>5. QED  BY <1>1, <2>1, <2>2, <2>4 DEF f
<1>9. TrueOf(archive, memory', actions')
  BY <1>5, <1>6, <1>8, RoomShape, StaysTrue DEF ArchiveInv
<1>10. TrueOf(archive', memory', actions')
  <2>1. Records' = RecordsAt(memory', actions', messages')  BY DEF Records, RecordsAt, Now
  <2>2. DOMAIN archive \subseteq RecordIds  BY DEF IInv, RoomTypes
  <2>3. QED  BY <1>4, <1>9, <2>1, <2>2, RecordsTrue
<1>11. QED  BY <1>8, <1>10 DEF ArchiveInv, Keeps

LEMMA NextArchive == IInv /\ IInv' /\ ArchiveInv /\ [Next]_vars => ArchiveInv'
<1> SUFFICES ASSUME IInv, IInv', ArchiveInv, [Next]_vars PROVE ArchiveInv'  OBVIOUS
<1>1. CASE UNCHANGED vars  BY <1>1 DEF vars, ArchiveInv
<1>2. CASE Next
  <2>1. ASSUME NEW u \in Users, Join(u) \/ Leave(u) \/ Query(u) \/ Archive(u)  PROVE ArchiveInv'
    BY <2>1, QuietArchive
  <2>2. ASSUME NEW u \in Users, NEW l \in Labels, NEW t \in Sayings, NEW id \in Users \cup {None},
               NEW k \in 1..2, Ingest(u, l, t, id, k)
        PROVE  ArchiveInv'
    BY <2>2, IngestArchive
  <2>3. ASSUME NEW u \in Users, NEW t \in Sayings, NEW voice \in BOOLEAN, NEW k \in 1..3,
               Speak(u, t, voice, FALSE, k)
        PROVE  ArchiveInv'
    <3>1. k \in 1..5 /\ FALSE \in BOOLEAN  OBVIOUS
    <3>2. QED  BY <2>3, <3>1, SpeakArchive
  <2>4. ASSUME NEW u \in Users, NEW t \in Sayings, NEW voice \in BOOLEAN, NEW k \in 3..5,
               Speak(u, t, voice, TRUE, k)
        PROVE  ArchiveInv'
    <3>1. k \in 1..5 /\ TRUE \in BOOLEAN  OBVIOUS
    <3>2. QED  BY <2>4, <3>1, SpeakArchive
  <2>5. ASSUME NEW u \in Users, NEW target \in Users, NEW l \in Labels, NEW k \in 1..5,
               Map(u, l, target, k)
        PROVE  ArchiveInv'
    BY <2>5, MapArchive
  <2>6. ASSUME NEW u \in Users, NEW a \in DOMAIN actions, NEW s \in {"completed", "failed"},
               DecideArchived(u, a, s)
        PROVE  ArchiveInv'
    BY <2>6, DecideArchive DEF DecideArchived
  <2>7. ASSUME NEW u \in Users, NEW a \in DOMAIN actions,
               NEW s \in Statuses \ {"pending_approval"}, NEW k \in 1..4,
               DecideOnly(u, a, s, k)
        PROVE  ArchiveInv'
    BY <2>7, DecideArchive DEF DecideOnly, Statuses
  <2>8. QED  BY <1>2, <2>1, <2>2, <2>3, <2>4, <2>5, <2>6, <2>7 DEF Next
<1>3. QED  BY <1>1, <1>2

\* What was archived stays true of the room, whatever is corrected or decided after it, for any
\* number of people, messages, actions and archivings.
THEOREM ArchiveStaysTrue == Spec => []LongMemoryIsTrue
<1>1. Init => ArchiveInv
  <2> SUFFICES ASSUME Init PROVE ArchiveInv  OBVIOUS
  <2>1. Len(memory) = 0 /\ DOMAIN archive = {}  BY EmptySeq DEF Init
  <2>2. QED  BY <2>1 DEF ArchiveInv, TrueOf, ByPeople
<1>2. ArchiveInv => LongMemoryIsTrue  BY DEF ArchiveInv, TrueOf, LongMemoryIsTrue
<1>3. QED  BY InductiveInvariant, NextArchive, <1>1, <1>2, PTL DEF Spec
=============================================================================
