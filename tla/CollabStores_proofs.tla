-------------------------- MODULE CollabStores_proofs --------------------------
(***************************************************************************)
(* Durability of CollabStores, over any number of changes, crashes,        *)
(* restarts and migrations.                                                *)
(***************************************************************************)
EXTENDS CollabStores, TLAPS

\* A content in which no item is without its room.
WellFormed(c) ==
  /\ c \in Contents /\ c["room"] \in {0, 1}
  /\ c["room"] = 0 => \A k \in Items : c[k] = 0

Types ==
  /\ backend \in {"json", "sqlite"} /\ up \in BOOLEAN /\ WellFormed(mem)
  /\ json = NoFile \/ json = Torn \/ WellFormed(json)
  /\ db = NoFile \/ (db \in Databases /\ WellFormed(db.has))
  /\ op = None \/ (op \in Ops /\ op.change[1] # "room")
  /\ acked \in Contents /\ doubt \subseteq Keys /\ since \subseteq Keys
  /\ calls \in 0..MaxChanges

\* An operation runs in a server that is up, makes the room before the item, and has the file
\* open only in the JSON store.
Working ==
  /\ ~up => op = None
  /\ op # None =>
       /\ op.change[1] \in Items /\ (op.step # "room" \/ op.open) => Visible["room"] = 1
       /\ op.open => backend = "json" /\ op.step \in {"room", "item"}

\* The file is what the dictionaries hold, or torn, or was never written; a server that is
\* down has answered only for what is in it.
Held(k) == IF json = NoFile THEN 0 ELSE json[k]
Files ==
  backend = "json" =>
    /\ up => \/ json = Torn
             \/ (op = None \/ ~op.open) /\ json = mem
             \/ (op = None \/ ~op.open) /\ json = NoFile /\ mem = Blank
    /\ ~up /\ json # Torn => \A k \in Keys \ doubt : Held(k) = acked[k]

\* What was answered is there, but for what the operation under way is about to answer.
Answered ==
  /\ backend = "json" /\ up => \A k \in Keys \ (doubt \cup InDoubt) : mem[k] = acked[k]
  /\ backend = "sqlite" =>
       /\ db # NoFile
       /\ \A k \in Keys \ (doubt \cup InDoubt) : db.has[k] = acked[k]
       /\ op # None /\ op.step # "done" =>
            \A k \in Keys \ (doubt \cup {"room"}) : db.has[k] = acked[k]

\* The migration has copied the kinds before the next, of what was answered when it read them.
Kinds == 1..Len(CopyOrder)
Migration ==
  /\ mig \in [stage : {"off", "loading", "copying", "passed", "failed"}, src : Contents,
              next : 1..8]
  /\ WellFormed(mig.src)
  /\ backend = "sqlite" => mig.stage = "passed"
  /\ mig.stage = "loading" => json # NoFile
  /\ backend = "json" /\ mig.stage = "copying" =>
       /\ db # NoFile
       /\ \A i \in Kinds :
            db.has[CopyOrder[i]] = IF i < mig.next THEN mig.src[CopyOrder[i]] ELSE 0
  /\ backend = "json" /\ mig.stage \in {"copying", "passed"} =>
       \A k \in Keys \ (doubt \cup since \cup InDoubt) : mig.src[k] = acked[k]

\* The inductive invariant.
IInv == Types /\ Working /\ Files /\ Answered /\ Migration /\ MigratedAll
-----------------------------------------------------------------------------
(* Contents.                                                               *)

LEMMA BlankWell == WellFormed(Blank)
BY DEF WellFormed, Blank, Contents, Keys, Items

\* What an operation's next step does to a content.
LEMMA SteppedFacts ==
  ASSUME NEW c, WellFormed(c), op \in Ops, op.change[1] # "room", op.step \in {"room", "item"},
         op.step = "item" /\ op.change[1] \in Items => c["room"] = 1
  PROVE  /\ WellFormed(Stepped(c))
         /\ \A k \in Keys \ InDoubt : Stepped(c)[k] = c[k]
         /\ op.step = "room" => \A k \in Keys \ {"room"} : Stepped(c)[k] = c[k]
         /\ op.change[1] \in Items => Stepped(c)["room"] = 1
         /\ op.step = "item" /\ Repeats(c, op.change) => Stepped(c) = c
<1>1. /\ c \in [Keys -> 0..2] /\ op.change[1] \in Keys /\ op.change[2] \in 0..2
      /\ InDoubt = {op.change[1], "room"} /\ "room" \in Keys /\ Items \subseteq Keys
  BY FilesAssumption DEF WellFormed, Contents, Ops, Changes, InDoubt, Keys
<1>2. CASE op.step = "room"
  <2>1. Stepped(c) = [c EXCEPT !["room"] = 1]  BY <1>2 DEF Stepped
  <2>2. Stepped(c) \in [Keys -> 0..2] /\ Stepped(c)["room"] = 1
        /\ \A k \in Keys \ {"room"} : Stepped(c)[k] = c[k]
    BY <1>1, <2>1
  <2>3. QED  BY <1>1, <1>2, <2>2 DEF WellFormed, Contents
<1>3. CASE op.step = "item" /\ Repeats(c, op.change)
  <2>1. Stepped(c) = c  BY <1>3 DEF Stepped, Apply
  <2>2. QED  BY <1>3, <2>1
<1>4. CASE op.step = "item" /\ ~Repeats(c, op.change)
  <2> DEFINE k == op.change[1]
  <2>1. Stepped(c) = [c EXCEPT ![k] = op.change[2]]  BY <1>4 DEF Stepped, Apply
  <2>2. /\ Stepped(c) \in [Keys -> 0..2] /\ Stepped(c)["room"] = c["room"]
        /\ \A i \in Keys \ {k} : Stepped(c)[i] = c[i]
    BY <1>1, <2>1
  <2>3. c["room"] = 0 => \A i \in Items : Stepped(c)[i] = 0
    BY <1>1, <1>4, <2>2 DEF WellFormed
  <2>4. QED  BY <1>1, <1>4, <2>2, <2>3 DEF WellFormed, Contents
<1>5. QED  BY <1>2, <1>3, <1>4

\* The kinds are copied one after the other, the room before what is in it.
LEMMA Order ==
  /\ Kinds = 1..7 /\ \A k \in Keys : \E i \in Kinds : CopyOrder[i] = k
  /\ \A i \in Kinds : CopyOrder[i] \in Keys
  /\ \A i, j \in Kinds : CopyOrder[i] = CopyOrder[j] => i = j
  /\ CopyOrder[1] = "settings" /\ CopyOrder[2] = "room"
  /\ \A i \in Kinds : i > 2 => CopyOrder[i] \in Items
BY DEF Kinds, CopyOrder, Keys, Items

\* Steps that change neither the stores nor what was answered.
LEMMA Unchanged ==
  ASSUME IInv, UNCHANGED vars
  PROVE  IInv'
BY DEF IInv, vars, Types, Working, Files, Answered, Migration, MigratedAll, WellFormed, Visible,
       Held, InDoubt, Kinds, CopyOrder, Blank
-----------------------------------------------------------------------------
(* Operations.                                                             *)

LEMMA CallStep ==
  ASSUME IInv, NEW k \in Keys, NEW v \in 0..2, Call(<<k, v>>)
  PROVE  IInv'
<1> USE DEF IInv
<1> DEFINE ch == <<k, v>>
<1>1. /\ up /\ op = None /\ UNCHANGED <<backend, up, mem, json, db, acked, doubt, since, mig>>
      /\ calls < MaxChanges /\ calls' = calls + 1 /\ ch \in Legal(Visible)
      /\ op' = [change |-> ch,
                step |-> IF ch \in Appends /\ Visible["room"] = 0 THEN "room" ELSE "item",
                open |-> FALSE]
  BY DEF Call
<1>2. k # "room" /\ (ch \in Appends \/ k = "settings" \/ Visible[k] # 0)
  BY <1>1 DEF Legal, Appends, Rewrites, Items
<1>3. op' \in Ops /\ op' # None /\ op'.change = ch /\ op'.open = FALSE
      /\ op'.step \in {"room", "item"}
  <2>1. ch \in Changes  BY DEF Changes
  <2>2. op' \in Ops /\ op'.change = ch /\ op'.open = FALSE /\ op'.step \in {"room", "item"}
    BY <1>1, <2>1 DEF Ops
  <2>3. QED  BY <2>2, FilesAssumption
<1>4. calls' \in 0..MaxChanges  BY <1>1, BoundAssumption DEF Types
<1>5. Types'  BY <1>1, <1>2, <1>3, <1>4 DEF Types, WellFormed
<1>6. WellFormed(Visible)
  BY <1>1 DEF Types, Answered, Visible
<1>7. op'.step # "room" /\ k \in Items => Visible["room"] = 1
  <2>1. SUFFICES ASSUME op'.step # "room", k \in Items, Visible["room"] # 1 PROVE FALSE
    OBVIOUS
  <2>2. Visible["room"] = 0 /\ Visible[k] = 0  BY <1>6, <2>1 DEF WellFormed
  <2>3. ch \in Appends  BY <1>2, <2>1, <2>2 DEF Items
  <2>4. QED  BY <1>1, <2>1, <2>2, <2>3
<1>8. Working'
  BY <1>1, <1>3, <1>7 DEF Working, Visible
<1>9. Files'  BY <1>1, <1>3 DEF Files, Held
<1>10. InDoubt = {} /\ InDoubt' = {k, "room"}
  BY <1>1, <1>3 DEF InDoubt
<1>11. Answered'  BY <1>1, <1>10 DEF Answered
<1>12. Migration' /\ MigratedAll'
  BY <1>1, <1>10 DEF Migration, MigratedAll, Kinds, CopyOrder, WellFormed
<1>13. QED  BY <1>5, <1>8, <1>9, <1>11, <1>12

\* Of an operation that has its next step to take.
LEMMA Stepping ==
  ASSUME IInv, NEW b \in {"json", "sqlite"}, AtStep(b)
  PROVE  /\ up /\ backend = b
         /\ op \in Ops /\ op.change[1] # "room" /\ op.step \in {"room", "item"}
         /\ InDoubt = {op.change[1], "room"} /\ InDoubt \subseteq Keys
         /\ op.change[1] \in Items /\ (op.step = "item" \/ op.open) => Visible["room"] = 1
         /\ WellFormed(Visible)
         /\ NextStep \in Ops /\ NextStep # None /\ NextStep.change = op.change
         /\ NextStep.open = FALSE /\ NextStep.step \in {"item", "done"}
         /\ [op EXCEPT !.open = TRUE] \in Ops /\ [op EXCEPT !.open = TRUE] # None
<1> USE DEF IInv
<1>1. /\ backend = b /\ op # None /\ op \in Ops /\ op.change[1] # "room"
      /\ op.step \in {"room", "item"} /\ up
  BY DEF AtStep, Types, Working
<1>2. InDoubt = {op.change[1], "room"} /\ InDoubt \subseteq Keys
  BY <1>1 DEF InDoubt, Ops, Changes, Keys
<1>3. WellFormed(Visible)
  BY <1>1 DEF Types, Answered, Visible
<1>4. /\ NextStep \in Ops /\ NextStep.change = op.change
      /\ NextStep.open = FALSE /\ NextStep.step \in {"item", "done"}
      /\ [op EXCEPT !.open = TRUE] \in Ops
  BY <1>1 DEF NextStep, Ops
<1>5. QED  BY <1>1, <1>2, <1>3, <1>4, FilesAssumption DEF Working

LEMMA JsonSteps ==
  ASSUME IInv, JsonOpen \/ JsonWritten \/ JsonFails
  PROVE  IInv'
<1> USE DEF IInv
<1>1. AtStep("json") /\ UNCHANGED <<backend, up, db, calls, acked, since, mig>>
  BY DEF JsonOpen, JsonWritten, JsonFails
<1>2. /\ up /\ backend = "json"
      /\ op \in Ops /\ op.change[1] # "room" /\ op.step \in {"room", "item"}
      /\ InDoubt = {op.change[1], "room"} /\ InDoubt \subseteq Keys
      /\ op.change[1] \in Items /\ (op.step = "item" \/ op.open) => mem["room"] = 1
      /\ WellFormed(mem) /\ op # None
      /\ NextStep \in Ops /\ NextStep # None /\ NextStep.change = op.change
      /\ NextStep.open = FALSE /\ NextStep.step \in {"item", "done"}
      /\ [op EXCEPT !.open = TRUE] \in Ops /\ [op EXCEPT !.open = TRUE] # None
  BY <1>1, Stepping DEF Visible, AtStep
<1>3. CASE JsonOpen
  <2>1. /\ WellFormed(Stepped(mem))
        /\ \A k \in Keys \ InDoubt : Stepped(mem)[k] = mem[k]
        /\ op.change[1] \in Items => Stepped(mem)["room"] = 1
        /\ op.step = "item" /\ Repeats(mem, op.change) => Stepped(mem) = mem
    BY <1>2, SteppedFacts
  <2>2. /\ ~op.open /\ mem' = Stepped(mem) /\ doubt' = doubt
        /\ \/ op.step = "item" /\ Repeats(mem, op.change) /\ op' = NextStep /\ json' = json
           \/ op' = [op EXCEPT !.open = TRUE] /\ json' = Torn
    BY <1>3 DEF JsonOpen
  <2>3. /\ op' \in Ops /\ op' # None /\ op'.change = op.change
        /\ op'.open => op'.step \in {"room", "item"}
        /\ op'.open => json' = Torn
        /\ ~op'.open => json' = json /\ mem' = mem
    BY <1>2, <2>1, <2>2 DEF Ops
  <2>4. InDoubt' = InDoubt  BY <1>2, <2>3 DEF InDoubt
  <2>5. Types'
    BY <1>1, <1>2, <2>1, <2>2, <2>3 DEF Types, WellFormed
  <2>6. Working'
    BY <1>1, <1>2, <2>1, <2>2, <2>3 DEF Working, Visible
  <2>7. Files'  BY <1>1, <1>2, <2>2, <2>3 DEF Files
  <2>8. Answered'  BY <1>1, <1>2, <2>1, <2>2, <2>4 DEF Answered
  <2>9. json' # NoFile \/ json' = json  BY <2>2, FilesAssumption
  <2>10. Migration' /\ MigratedAll'
    BY <1>1, <2>2, <2>4, <2>9 DEF Migration, MigratedAll, Kinds, CopyOrder, WellFormed
  <2>11. QED  BY <2>5, <2>6, <2>7, <2>8, <2>10
<1>4. CASE JsonWritten
  <2>1. op.open /\ json' = mem /\ op' = NextStep /\ UNCHANGED <<mem, doubt>>
    BY <1>4 DEF JsonWritten
  <2>2. InDoubt' = InDoubt  BY <1>2, <2>1 DEF InDoubt
  <2>3. Types'  BY <1>1, <1>2, <2>1 DEF Types, WellFormed
  <2>4. Working'  BY <1>1, <1>2, <2>1 DEF Working, Visible
  <2>5. Files'  BY <1>1, <1>2, <2>1 DEF Files
  <2>6. Answered'  BY <1>1, <1>2, <2>1, <2>2 DEF Answered
  <2>7. json' # NoFile  BY <1>2, <2>1, FilesAssumption DEF WellFormed
  <2>8. Migration' /\ MigratedAll'
    BY <1>1, <2>1, <2>2, <2>7 DEF Migration, MigratedAll, Kinds, CopyOrder, WellFormed
  <2>9. QED  BY <2>3, <2>4, <2>5, <2>6, <2>8
<1>5. CASE JsonFails
  <2>1. op.open /\ op' = None /\ doubt' = doubt \cup InDoubt /\ UNCHANGED <<mem, json>>
    BY <1>5 DEF JsonFails
  <2>2. InDoubt' = {}  BY <2>1 DEF InDoubt
  <2>3. Types'  BY <1>1, <1>2, <2>1 DEF Types, WellFormed
  <2>4. Working'  BY <1>1, <2>1 DEF Working
  <2>5. json = Torn  BY <1>2, <2>1 DEF Files
  <2>6. Files'  BY <1>1, <1>2, <2>1, <2>5 DEF Files
  <2>7. Answered'  BY <1>1, <1>2, <2>1, <2>2 DEF Answered
  <2>8. Migration' /\ MigratedAll'
    BY <1>1, <2>1, <2>2 DEF Migration, MigratedAll, Kinds, CopyOrder, WellFormed
  <2>9. QED  BY <2>3, <2>4, <2>6, <2>7, <2>8
<1>6. QED  BY <1>3, <1>4, <1>5

LEMMA SqlSteps ==
  ASSUME IInv, SqlCommit \/ SqlFails
  PROVE  IInv'
<1> USE DEF IInv
<1>1. AtStep("sqlite") /\ UNCHANGED <<backend, up, mem, json, calls, acked, since, mig>>
  BY DEF SqlCommit, SqlFails
<1>2. /\ up /\ backend = "sqlite" /\ op \in Ops /\ op.change[1] # "room"
      /\ op.step \in {"room", "item"}
      /\ InDoubt = {op.change[1], "room"} /\ InDoubt \subseteq Keys
      /\ op.step = "item" /\ op.change[1] \in Items => db.has["room"] = 1
      /\ WellFormed(db.has) /\ op # None /\ db # NoFile /\ db \in Databases
      /\ NextStep \in Ops /\ NextStep # None /\ NextStep.change = op.change
      /\ NextStep.open = FALSE /\ NextStep.step \in {"item", "done"}
      /\ op.step = "item" => NextStep.step = "done"
  <2>1. db # NoFile /\ db \in Databases
    BY <1>1 DEF AtStep, Answered, Types
  <2>2. op.step = "item" => NextStep.step = "done"
    BY <1>1, Stepping DEF NextStep, Ops
  <2>3. backend = "sqlite" /\ op # None  BY <1>1 DEF AtStep
  <2>4. QED  BY <1>1, <2>1, <2>2, <2>3, Stepping DEF Visible
<1>3. CASE SqlCommit
  <2> DEFINE c == Stepped(db.has)
  <2>1. /\ WellFormed(c)
        /\ \A k \in Keys \ InDoubt : c[k] = db.has[k]
        /\ op.step = "room" => \A k \in Keys \ {"room"} : c[k] = db.has[k]
        /\ op.change[1] \in Items => c["room"] = 1
    BY <1>2, SteppedFacts
  <2>2. db' = Committed /\ op' = NextStep /\ doubt' = doubt
    BY <1>3 DEF SqlCommit
  <2>3. db'.has = c /\ db' \in Databases
    <3>1. op.change \in Changes /\ db.log \in Seq(Changes)
      BY <1>2 DEF Ops, Databases
    <3>2. Record(db.log, db.has, op.change) \in Seq(Changes)
      BY <3>1 DEF Record
    <3>3. QED  BY <2>1, <2>2, <3>1, <3>2 DEF Committed, Databases, WellFormed
  <2>4. db' # NoFile  BY <2>3, FilesAssumption
  <2>5. InDoubt' = InDoubt  BY <1>2, <2>2 DEF InDoubt
  <2>6. Types'
    BY <1>1, <1>2, <2>1, <2>2, <2>3 DEF Types, WellFormed
  <2>7. Working'
    BY <1>1, <1>2, <2>1, <2>2, <2>3 DEF Working, Visible
  <2>8. Files'  BY <1>1, <1>2 DEF Files
  <2>9. Answered'
    <3>1. \A k \in Keys \ (doubt \cup InDoubt) : c[k] = acked[k]
      BY <1>2, <2>1 DEF Answered
    <3>2. op.step = "room" => \A k \in Keys \ (doubt \cup {"room"}) : c[k] = acked[k]
      BY <1>2, <2>1 DEF Answered
    <3>3. QED  BY <1>1, <1>2, <2>2, <2>3, <2>4, <2>5, <3>1, <3>2 DEF Answered
  <2>10. Migration' /\ MigratedAll'
    BY <1>1, <1>2, <2>2, <2>5 DEF Migration, MigratedAll, WellFormed
  <2>11. QED  BY <2>6, <2>7, <2>8, <2>9, <2>10
<1>4. CASE SqlFails
  <2>1. op' = None /\ doubt' = doubt \cup {"room"} /\ db' = db
    BY <1>4 DEF SqlFails
  <2>2. InDoubt' = {}  BY <2>1 DEF InDoubt
  <2>3. Types'  BY <1>1, <1>2, <2>1 DEF Types, WellFormed
  <2>4. Working'  BY <1>1, <2>1 DEF Working
  <2>5. Files'  BY <1>1, <1>2 DEF Files
  <2>6. Answered'  BY <1>1, <1>2, <2>1, <2>2 DEF Answered
  <2>7. Migration' /\ MigratedAll'
    BY <1>1, <1>2 DEF Migration, MigratedAll, WellFormed
  <2>8. QED  BY <2>3, <2>4, <2>5, <2>6, <2>7
<1>5. QED  BY <1>3, <1>4

LEMMA ReturnStep ==
  ASSUME IInv, Return
  PROVE  IInv'
<1> USE DEF IInv
<1>1. /\ op # None /\ op.step = "done" /\ op' = None
      /\ acked' = [k \in Keys |-> IF k \in InDoubt THEN Visible[k] ELSE acked[k]]
      /\ doubt' = doubt \ InDoubt /\ since' = since \cup InDoubt
      /\ UNCHANGED <<backend, up, mem, json, db, calls, mig>>
  BY DEF Return
<1>2. up /\ op \in Ops /\ op.open = FALSE /\ InDoubt \subseteq Keys /\ InDoubt' = {}
  <2>1. up /\ op \in Ops  BY <1>1 DEF Working, Types
  <2>2. ~op.open  BY <1>1 DEF Working
  <2>3. QED  BY <1>1, <2>1, <2>2 DEF InDoubt, Ops, Changes, Keys
<1>3. Visible \in Contents  BY <1>2 DEF Types, Answered, Visible, WellFormed
<1>4. acked' \in Contents
  BY <1>1, <1>3 DEF Types, Contents
<1>5. Types'  BY <1>1, <1>2, <1>4 DEF Types, WellFormed
<1>6. Working'  BY <1>1, <1>2 DEF Working
<1>7. Files'  BY <1>1, <1>2 DEF Files
<1>8. \A k \in Keys \ doubt' : Visible[k] = acked'[k]
  <2>1. SUFFICES ASSUME NEW k \in Keys \ doubt' PROVE Visible[k] = acked'[k]
    OBVIOUS
  <2>2. CASE k \in InDoubt  BY <1>1, <2>2
  <2>3. CASE k \notin InDoubt
    <3>1. k \notin doubt /\ acked'[k] = acked[k]  BY <1>1, <2>1, <2>3
    <3>2. QED  BY <1>2, <2>1, <2>3, <3>1 DEF Answered, Visible, Types
  <2>4. QED  BY <2>2, <2>3
<1>9. Answered'
  BY <1>1, <1>2, <1>8 DEF Answered, Visible, Types
<1>10. Migration' /\ MigratedAll'
  <2>1. \A k \in Keys \ (doubt' \cup since' \cup InDoubt') :
          k \notin doubt \cup since \cup InDoubt /\ acked'[k] = acked[k]
    BY <1>1
  <2>2. QED  BY <1>1, <2>1 DEF Migration, MigratedAll, Kinds, CopyOrder, WellFormed
<1>11. QED  BY <1>5, <1>6, <1>7, <1>9, <1>10
-----------------------------------------------------------------------------
(* The server's process.                                                   *)

LEMMA StopStep ==
  ASSUME IInv, Stop
  PROVE  IInv'
<1> USE DEF IInv
<1>1. /\ up /\ up' = FALSE /\ mem' = Blank /\ op' = None
      /\ doubt' = doubt \cup InDoubt /\ since' = since \cup InDoubt
      /\ UNCHANGED <<backend, json, db, calls, acked, mig>>
  BY DEF Stop
<1>2. InDoubt \subseteq Keys /\ InDoubt' = {}
  BY <1>1 DEF Types, InDoubt, Ops, Changes, Keys
<1>3. Types'
  <2>1. WellFormed(mem')  BY <1>1, BlankWell
  <2>2. QED  BY <1>1, <1>2, <2>1 DEF Types, WellFormed
<1>4. Working'  BY <1>1 DEF Working
<1>5. Files'
  <2>1. SUFFICES ASSUME backend = "json", json # Torn, NEW k \in Keys \ doubt'
                 PROVE  Held(k) = acked[k]
    BY <1>1 DEF Files, Held
  <2>2. mem[k] = acked[k]  BY <1>1, <2>1 DEF Answered
  <2>3. json = mem \/ (json = NoFile /\ mem = Blank)  BY <1>1, <2>1 DEF Files
  <2>4. json = mem => json # NoFile  BY FilesAssumption DEF Types, WellFormed
  <2>5. QED  BY <2>1, <2>2, <2>3, <2>4 DEF Held, Blank
<1>6. Answered'  BY <1>1, <1>2 DEF Answered
<1>7. Migration' /\ MigratedAll'
  BY <1>1, <1>2 DEF Migration, MigratedAll, Kinds, CopyOrder, WellFormed
<1>8. QED  BY <1>3, <1>4, <1>5, <1>6, <1>7

LEMMA StartStep ==
  ASSUME IInv, Start
  PROVE  IInv'
<1> USE DEF IInv
<1>1. ~up /\ up' = TRUE /\ op = None
      /\ UNCHANGED <<backend, json, op, calls, acked, doubt, since, mig>>
  BY DEF Start, Working
<1>2. InDoubt = {} /\ InDoubt' = {}  BY <1>1 DEF InDoubt
<1>3. CASE backend = "json"
  <2>1. json # Torn /\ mem' = (IF json = NoFile THEN Blank ELSE json) /\ db' = db
    BY <1>3 DEF Start, Load
  <2>2. WellFormed(mem')  BY <2>1, BlankWell DEF Types
  <2>3. Types'  BY <1>1, <2>1, <2>2 DEF Types, WellFormed
  <2>4. Working'  BY <1>1 DEF Working
  <2>5. Files'  BY <1>1, <2>1 DEF Files
  <2>6. Answered'
    <3>1. \A k \in Keys \ doubt : Held(k) = acked[k]  BY <1>1, <1>3, <2>1 DEF Files
    <3>2. \A k \in Keys : mem'[k] = Held(k)  BY <2>1 DEF Held, Blank
    <3>3. QED  BY <1>1, <1>2, <1>3, <3>1, <3>2 DEF Answered
  <2>7. Migration' /\ MigratedAll'
    BY <1>1, <1>2, <2>1 DEF Migration, MigratedAll, Kinds, CopyOrder, WellFormed
  <2>8. QED  BY <2>3, <2>4, <2>5, <2>6, <2>7
<1>4. CASE backend = "sqlite"
  <2>1. db' = db /\ mem' = mem  BY <1>4 DEF Start, Answered
  <2>2. QED  BY <1>1, <1>2, <1>4, <2>1
       DEF Types, Working, Files, Answered, Migration, MigratedAll, WellFormed
<1>5. QED  BY <1>3, <1>4 DEF Types

LEMMA SwitchOverStep ==
  ASSUME IInv, SwitchOver
  PROVE  IInv'
<1> USE DEF IInv
<1>1. /\ ~up /\ op = None /\ backend = "json" /\ mig.stage = "passed" /\ backend' = "sqlite"
      /\ doubt' = doubt \cup since
      /\ UNCHANGED <<up, mem, json, db, op, calls, acked, since, mig>>
  BY DEF SwitchOver, Working
<1>2. InDoubt = {} /\ InDoubt' = {}  BY <1>1 DEF InDoubt
<1>3. db # NoFile /\ db.has = mig.src  BY <1>1 DEF MigratedAll
<1>4. \A k \in Keys \ (doubt \cup since) : db.has[k] = acked[k]
  BY <1>1, <1>2, <1>3 DEF Migration
<1>5. Types' /\ Working' /\ Files'
  BY <1>1 DEF Types, Working, Files, WellFormed
<1>6. Answered'  BY <1>1, <1>2, <1>3, <1>4 DEF Answered
<1>7. Migration' /\ MigratedAll'
  BY <1>1 DEF Migration, MigratedAll, WellFormed
<1>8. QED  BY <1>5, <1>6, <1>7
-----------------------------------------------------------------------------
(* The scripts.                                                            *)

\* A step of the scripts that leaves the server's state alone keeps what is said of it.
LEMMA Scripts ==
  ASSUME IInv, backend = "json", UNCHANGED <<backend, up, mem, json, op, calls, acked, doubt>>
  PROVE  /\ Working' /\ Files' /\ Answered' /\ InDoubt' = InDoubt
         /\ (db' = NoFile \/ (db' \in Databases /\ WellFormed(db'.has))) /\ since' \subseteq Keys
              => Types'
BY DEF IInv, Types, Working, Files, Answered, WellFormed, Visible, Held, InDoubt

LEMMA IdleFacts ==
  ASSUME NEW s \in {"off", "loading", "failed"}
  PROVE  /\ Idle(s) \in [stage : {"off", "loading", "copying", "passed", "failed"},
                         src : Contents, next : 1..8]
         /\ WellFormed(Idle(s).src) /\ Idle(s).stage = s
BY BlankWell DEF Idle, WellFormed

LEMMA EmptyFacts ==
  EmptyDb \in Databases /\ WellFormed(EmptyDb.has) /\ EmptyDb # NoFile
  /\ \A k \in Keys : EmptyDb.has[k] = 0
<1>1. EmptyDb \in Databases /\ WellFormed(EmptyDb.has)
  BY BlankWell DEF EmptyDb, Databases, WellFormed
<1>2. QED  BY <1>1, FilesAssumption DEF EmptyDb, Blank

\* The migration is begun, gives up or is killed, and an empty store made.
LEMMA IdleSteps ==
  ASSUME IInv, MigrateStart \/ MigrateFails \/ MigrateCut \/ InitStore
  PROVE  IInv'
<1> USE DEF IInv
<1>1. backend = "json" /\ UNCHANGED <<backend, up, mem, json, op, calls, acked, doubt, since>>
  BY DEF MigrateStart, MigrateFails, MigrateCut, InitStore, Migrating, Migration, Types
<1>2. db' = NoFile \/ db' = db \/ db' = EmptyDb
  BY DEF MigrateStart, MigrateFails, MigrateCut, InitStore
<1>3. \E s \in {"off", "loading", "failed"} :
        mig' = Idle(s) /\ (s = "loading" => json # NoFile)
  BY DEF MigrateStart, MigrateFails, MigrateCut, InitStore
<1>4. db' = NoFile \/ (db' \in Databases /\ WellFormed(db'.has))
  BY <1>2, EmptyFacts DEF Types
<1>5. Types' /\ Working' /\ Files' /\ Answered'
  BY <1>1, <1>4, Scripts DEF Types
<1>6. Migration' /\ MigratedAll'
  BY <1>1, <1>3, IdleFacts DEF Migration, MigratedAll, WellFormed
<1>7. QED  BY <1>5, <1>6

LEMMA LoadStep ==
  ASSUME IInv, MigrateLoad
  PROVE  IInv'
<1> USE DEF IInv
<1>1. /\ mig.stage = "loading" /\ json # Torn /\ db' = EmptyDb /\ since' = {}
      /\ mig' = [stage |-> "copying", src |-> json, next |-> 1]
      /\ UNCHANGED <<backend, up, mem, json, op, calls, acked, doubt>>
  BY DEF MigrateLoad
<1>2. backend = "json" /\ json # NoFile /\ WellFormed(json)
  BY <1>1 DEF Migration, Types
<1>3. Types' /\ Working' /\ Files' /\ Answered' /\ InDoubt' = InDoubt
  BY <1>1, <1>2, EmptyFacts, Scripts
<1>4. \A k \in Keys \ (doubt \cup InDoubt) : json[k] = acked[k]
  <2>1. CASE up
    <3>1. json = mem  BY <1>1, <1>2, <2>1 DEF Files
    <3>2. QED  BY <1>2, <2>1, <3>1 DEF Answered
  <2>2. CASE ~up  BY <1>1, <1>2, <2>2 DEF Files, Held
  <2>3. QED  BY <2>1, <2>2
<1>5. \A i \in Kinds : db'.has[CopyOrder[i]] = IF i < 1 THEN json[CopyOrder[i]] ELSE 0
  <2>1. \A i \in Kinds : CopyOrder[i] \in Keys /\ ~(i < 1)
    BY Order
  <2>2. QED  BY <1>1, <2>1, EmptyFacts
<1>6. Migration'
  <2>1. mig' \in [stage : {"off", "loading", "copying", "passed", "failed"},
                  src : Contents, next : 1..8]
    BY <1>1, <1>2 DEF WellFormed
  <2>2. mig'.stage = "copying" /\ mig'.src = json /\ mig'.next = 1  BY <1>1
  <2>3. db' # NoFile  BY <1>1, EmptyFacts
  <2>4. WellFormed(mig'.src)  BY <1>2, <2>2
  <2>5. \A i \in Kinds' : db'.has[CopyOrder'[i]]
                           = IF i < mig'.next THEN mig'.src[CopyOrder'[i]] ELSE 0
    BY <1>5, <2>2 DEF Kinds, CopyOrder
  <2>6. \A k \in Keys \ (doubt' \cup since' \cup InDoubt') : mig'.src[k] = acked'[k]
    BY <1>1, <1>3, <1>4, <2>2
  <2>7. QED  BY <1>1, <1>2, <2>1, <2>2, <2>3, <2>4, <2>5, <2>6 DEF Migration, WellFormed
<1>7. MigratedAll'  BY <1>1 DEF MigratedAll
<1>8. QED  BY <1>3, <1>6, <1>7

LEMMA CopyStep ==
  ASSUME IInv, MigrateCopy
  PROVE  IInv'
<1> USE DEF IInv
<1> DEFINE n == mig.next
           k == CopyOrder[n]
           c == [db.has EXCEPT ![k] = mig.src[k], !["room"] = IF k = "settings" THEN @ ELSE 1]
<1>1. /\ mig.stage = "copying" /\ n <= Len(CopyOrder)
      /\ db' = IF mig.src[k] = 0 THEN db ELSE Copied(k)
      /\ mig' = [mig EXCEPT !.next = @ + 1]
      /\ UNCHANGED <<backend, up, mem, json, op, calls, acked, doubt, since>>
  BY DEF MigrateCopy
<1>2. /\ backend = "json" /\ db # NoFile /\ db \in Databases /\ WellFormed(db.has)
      /\ mig.src \in [Keys -> 0..2] /\ WellFormed(mig.src)
      /\ \A i \in Kinds : db.has[CopyOrder[i]] = IF i < n THEN mig.src[CopyOrder[i]] ELSE 0
  <2>1. backend = "json"  BY <1>1 DEF Migration, Types
  <2>2. QED  BY <1>1, <2>1 DEF Migration, Types, WellFormed, Contents
<1>3. n \in Kinds /\ k \in Keys /\ n \in 1..7
  <2>1. n \in 1..8 /\ Len(CopyOrder) = 7  BY DEF Migration, CopyOrder
  <2>2. n \in Kinds  BY <1>1, <2>1 DEF Kinds
  <2>3. QED  BY <2>2, Order
<1>4. mig' \in [stage : {"off", "loading", "copying", "passed", "failed"}, src : Contents,
                next : 1..8]
      /\ mig'.stage = "copying" /\ mig'.src = mig.src /\ mig'.next = n + 1
  BY <1>1, <1>3 DEF Migration
<1>5. /\ db' # NoFile /\ db' \in Databases /\ WellFormed(db'.has)
      /\ \A i \in Kinds : db'.has[CopyOrder[i]]
                           = IF i < n + 1 THEN mig.src[CopyOrder[i]] ELSE 0
  <2>1. CASE mig.src[k] = 0
    <3>1. db' = db  BY <1>1, <2>1
    <3>2. \A i \in Kinds : i < n + 1 /\ ~(i < n) => i = n  BY <1>3, Order
    <3>3. \A i \in Kinds : i < n => i < n + 1  BY <1>3, Order
    <3>4. QED  BY <1>2, <1>3, <2>1, <3>1, <3>2, <3>3
  <2>2. CASE mig.src[k] # 0
    <3>1. db' = [has |-> c, log |-> IF k \in Items THEN Append(db.log, <<k, mig.src[k]>>)
                                     ELSE db.log]
      BY <1>1, <2>2 DEF Copied
    <3>2. db.has \in [Keys -> 0..2] /\ db.log \in Seq(Changes) /\ "room" \in Keys
      BY <1>2 DEF Databases, Contents, Keys
    <3>3. k = "room" \/ k = "settings" \/ (k \in Items /\ n > 2)
      BY <1>3, Order DEF Keys
    <3>4. mig.src["room"] \in {0, 1} /\ (k \in Items => mig.src["room"] = 1)
      BY <1>2, <2>2, <3>3 DEF WellFormed
    <3>5. /\ c \in [Keys -> 0..2]
          /\ \A i \in Keys \ {k, "room"} : c[i] = db.has[i]
          /\ k # "room" => c[k] = mig.src[k]
          /\ k = "settings" => c["room"] = db.has["room"]
          /\ k # "settings" => c["room"] = 1
      BY <1>2, <1>3, <3>2
    <3>6. k # "settings" => c["room"] = mig.src["room"]
      BY <1>3, <2>2, <3>3, <3>4, <3>5
    <3>7. db' \in Databases /\ db'.has = c
      <4>1. <<k, mig.src[k]>> \in Changes  BY <1>2, <1>3 DEF Changes
      <4>2. QED  BY <3>1, <3>2, <3>5, <4>1 DEF Databases, Contents
    <3>8. WellFormed(c)
      <4>1. CASE k = "settings"
        <5>1. "settings" \notin Items  BY DEF Items
        <5>2. QED  BY <1>2, <3>5, <4>1, <5>1 DEF WellFormed, Contents, Keys
      <4>2. CASE k # "settings"
        BY <3>5, <4>2 DEF WellFormed, Contents
      <4>3. QED  BY <4>1, <4>2
    <3>9. ASSUME NEW i \in Kinds
          PROVE  c[CopyOrder[i]] = IF i < n + 1 THEN mig.src[CopyOrder[i]] ELSE 0
      <4>1. CopyOrder[i] \in Keys /\ i \in 1..7 /\ (CopyOrder[i] = k => i = n)
        BY <1>3, Order
      <4>2. CASE i = n
        BY <1>3, <3>3, <3>5, <3>6, <4>1, <4>2
      <4>3. CASE i # n /\ CopyOrder[i] # "room"
        <5>1. c[CopyOrder[i]] = db.has[CopyOrder[i]]
          BY <3>5, <4>1, <4>3
        <5>2. i < n + 1 <=> i < n  BY <1>3, <4>1, <4>3
        <5>3. QED  BY <1>2, <5>1, <5>2
      <4>4. CASE i # n /\ CopyOrder[i] = "room" /\ k = "settings"
        <5>1. i = 2 /\ n = 1  BY <1>3, <4>4, Order
        <5>2. QED  BY <1>2, <3>5, <4>4, <5>1
      <4>5. CASE i # n /\ CopyOrder[i] = "room" /\ k # "settings"
        <5>1. i = 2 /\ n > 2  BY <1>3, <3>3, <4>5, Order
        <5>2. i < n + 1  BY <1>3, <5>1
        <5>3. QED  BY <3>6, <4>5, <5>2
      <4>6. QED  BY <4>2, <4>3, <4>4, <4>5
    <3>10. db' # NoFile  BY <3>7, FilesAssumption
    <3>11. QED  BY <3>7, <3>8, <3>9, <3>10
  <2>3. QED  BY <2>1, <2>2
<1>6. Types' /\ Working' /\ Files' /\ Answered' /\ InDoubt' = InDoubt
  BY <1>1, <1>2, <1>5, Scripts DEF Types
<1>7. Migration'
  <2>1. \A i \in Kinds' : db'.has[CopyOrder'[i]]
                           = IF i < mig'.next THEN mig'.src[CopyOrder'[i]] ELSE 0
    BY <1>4, <1>5 DEF Kinds, CopyOrder
  <2>2. \A j \in Keys \ (doubt' \cup since' \cup InDoubt') : mig'.src[j] = acked'[j]
    BY <1>1, <1>2, <1>4, <1>6 DEF Migration
  <2>3. QED  BY <1>1, <1>2, <1>4, <1>5, <2>1, <2>2 DEF Migration, WellFormed
<1>8. MigratedAll'  BY <1>4 DEF MigratedAll
<1>9. QED  BY <1>6, <1>7, <1>8

LEMMA EndStep ==
  ASSUME IInv, MigrateEnd
  PROVE  IInv'
<1> USE DEF IInv
<1>1. /\ mig.stage = "copying" /\ mig.next > Len(CopyOrder)
      /\ mig' = [mig EXCEPT !.stage = IF Validated THEN "passed" ELSE "failed"]
      /\ UNCHANGED <<backend, up, mem, json, db, op, calls, acked, doubt, since>>
  BY DEF MigrateEnd
<1>2. backend = "json" /\ db # NoFile  BY <1>1 DEF Migration, Types
<1>3. Types' /\ Working' /\ Files' /\ Answered' /\ InDoubt' = InDoubt
  BY <1>1, <1>2, Scripts DEF Types
<1>4. db.has = mig.src
  <2>1. mig.next = 8
    <3>1. mig.next \in 1..8 /\ Len(CopyOrder) = 7  BY DEF Migration, CopyOrder
    <3>2. QED  BY <1>1, <3>1
  <2>2. \A i \in Kinds : db.has[CopyOrder[i]] = mig.src[CopyOrder[i]]
    <3>1. \A i \in Kinds : i < mig.next  BY <2>1, Order
    <3>2. QED  BY <1>1, <1>2, <3>1 DEF Migration
  <2>3. \A k \in Keys : db.has[k] = mig.src[k]  BY <2>2, Order
  <2>4. db.has \in [Keys -> 0..2] /\ mig.src \in [Keys -> 0..2]
    BY <1>2 DEF Types, Migration, WellFormed, Contents
  <2>5. QED  BY <2>3, <2>4
<1>5. /\ mig' \in [stage : {"off", "loading", "copying", "passed", "failed"},
                   src : Contents, next : 1..8]
      /\ mig'.stage \in {"passed", "failed"} /\ mig'.src = mig.src
  BY <1>1 DEF Migration
<1>6. Migration'
  BY <1>1, <1>2, <1>3, <1>5 DEF Migration, WellFormed
<1>7. MigratedAll'  BY <1>1, <1>2, <1>4, <1>5 DEF MigratedAll
<1>8. QED  BY <1>3, <1>6, <1>7
-----------------------------------------------------------------------------
LEMMA InitIInv == Init => IInv
<1> SUFFICES ASSUME Init PROVE IInv
  OBVIOUS
<1>1. Types
  <2>1. 0 \in 0..MaxChanges  BY BoundAssumption
  <2>2. acked \in Contents /\ WellFormed(mem)  BY BlankWell DEF Init, WellFormed
  <2>3. QED  BY <2>1, <2>2 DEF Init, Types
<1>2. Working /\ Files /\ Answered
  BY DEF Init, Working, Files, Answered, Held, Blank
<1>3. mig.stage = "off"  BY IdleFacts DEF Init
<1>4. Migration /\ MigratedAll
  BY <1>3, IdleFacts DEF Init, Migration, MigratedAll
<1>5. QED  BY <1>1, <1>2, <1>4 DEF IInv

LEMMA NextIInv == IInv /\ [Next]_vars => IInv'
<1> SUFFICES ASSUME IInv, [Next]_vars PROVE IInv'
  OBVIOUS
<1>1. CASE \E k \in Keys, v \in 0..2 : Call(<<k, v>>)  BY <1>1, CallStep
<1>2. CASE JsonOpen \/ JsonWritten \/ JsonFails  BY <1>2, JsonSteps
<1>3. CASE SqlCommit \/ SqlFails  BY <1>3, SqlSteps
<1>4. CASE Return  BY <1>4, ReturnStep
<1>5. CASE Stop \/ Start \/ SwitchOver  BY <1>5, StopStep, StartStep, SwitchOverStep
<1>6. CASE MigrateStart \/ MigrateFails \/ MigrateCut \/ InitStore  BY <1>6, IdleSteps
<1>7. CASE MigrateLoad \/ MigrateCopy \/ MigrateEnd  BY <1>7, LoadStep, CopyStep, EndStep
<1>8. CASE UNCHANGED vars  BY <1>8, Unchanged
<1>9. QED  BY <1>1, <1>2, <1>3, <1>4, <1>5, <1>6, <1>7, <1>8 DEF Next

\* Types and the order of rooms and items, the files against the dictionaries, what is stored
\* against what was answered, and how far the migration has copied, hold in every reachable
\* state.
THEOREM InductiveInvariant == Spec => []IInv
BY InitIInv, NextIInv, PTL DEF Spec

\* An item is never stored without its room, in either store, whatever operation crashed,
\* failed or was migrated.
THEOREM TypeCorrect == Spec => []TypeOK
<1>1. IInv => TypeOK
  <2> SUFFICES ASSUME Types PROVE TypeOK
    BY DEF IInv
  <2> DEFINE RoomFirst(c) == c["room"] = 0 => \A k \in Items : c[k] = 0
  <2>1. RoomFirst(mem) /\ mem \in Contents  BY DEF Types, WellFormed
  <2>2. json \in Contents => RoomFirst(json)
    BY FilesAssumption DEF Types, WellFormed
  <2>3. json \in Contents \cup {NoFile, Torn}  BY DEF Types, WellFormed
  <2>4. db # NoFile => db \in Databases /\ RoomFirst(db.has)  BY DEF Types, WellFormed
  <2>5. op \in Ops \cup {None}  BY DEF Types
  <2>6. QED  BY <2>1, <2>2, <2>3, <2>4, <2>5 DEF Types, TypeOK
<1>2. QED  BY <1>1, InductiveInvariant, PTL

\* A server that runs shows everything it has answered for, but for what a crash, a failure or
\* a change made after the migration read the file has put in doubt.
THEOREM AnswersDurable == Spec => []DurableUnlessInDoubt
<1>1. IInv => DurableUnlessInDoubt
  <2>1. SUFFICES ASSUME IInv, up, op = None PROVE \A k \in Keys \ doubt : Visible[k] = acked[k]
    BY DEF DurableUnlessInDoubt
  <2>2. InDoubt = {}  BY <2>1 DEF InDoubt
  <2>3. QED  BY <2>1, <2>2 DEF IInv, Answered, Visible, Types
<1>2. QED  BY <1>1, InductiveInvariant, PTL

\* A migration that says it has passed has copied everything it read.
THEOREM MigrationsComplete == Spec => []MigratedAll
<1>1. IInv => MigratedAll  BY DEF IInv
<1>2. QED  BY <1>1, InductiveInvariant, PTL
-----------------------------------------------------------------------------
(* The event log of the SQLite store.                                      *)

\* The log of database d tells what its tables hold.
LogTells(d) ==
  /\ \A k \in {"participant", "action", "payload"} : Leaves(d.log, k, d.has[k])
  /\ \A k \in {"message", "memory"} :
       \E v \in 0..2 : Leaves(d.log, k, v) /\ (v = 0 <=> d.has[k] = 0)

\* What an operation is about to rewrite without an event is there.
Rewriting ==
  backend = "sqlite" /\ op # None /\ op.step # "done" /\ op.change \in Rewrites =>
    db.has[op.change[1]] # 0

\* The inductive invariant, beside IInv.
LogInv == LogRebuilds /\ Rewriting

\* An event is the last about its kind, and leaves the other kinds' as they were.
LEMMA EventAppended ==
  ASSUME NEW log \in Seq(Changes), NEW e \in Changes
  PROVE  /\ Leaves(Append(log, e), e[1], e[2])
         /\ \A k \in Keys \ {e[1]}, v \in 0..2 :
              Leaves(log, k, v) => Leaves(Append(log, e), k, v)
<1> DEFINE new == Append(log, e)
<1>1. /\ DOMAIN log = 1..Len(log) /\ DOMAIN new = 1..Len(log) + 1 /\ Len(log) \in Nat
      /\ new[Len(log) + 1] = e /\ \A i \in 1..Len(log) : new[i] = log[i]
      /\ e = <<e[1], e[2]>>
  BY DEF Changes
<1> HIDE DEF new
<1>2. Leaves(new, e[1], e[2])
  <2>1. \A j \in DOMAIN new : ~(j > Len(log) + 1)  BY <1>1
  <2>2. QED  BY <1>1, <2>1 DEF Leaves
<1>3. ASSUME NEW k \in Keys \ {e[1]}, NEW v \in 0..2, Leaves(log, k, v)
      PROVE  Leaves(new, k, v)
  <2>1. CASE v = 0 /\ \A i \in DOMAIN log : log[i][1] # k
    <3>1. \A i \in DOMAIN new : new[i][1] # k
      <4>1. \A i \in DOMAIN new : i \in DOMAIN log \/ i = Len(log) + 1  BY <1>1
      <4>2. QED  BY <1>1, <2>1, <4>1
    <3>2. QED  BY <2>1, <3>1 DEF Leaves
  <2>2. CASE \E i \in DOMAIN log : log[i] = <<k, v>> /\ \A j \in DOMAIN log : j > i => log[j][1] # k
    <3>1. PICK i \in DOMAIN log :
                 log[i] = <<k, v>> /\ \A j \in DOMAIN log : j > i => log[j][1] # k
      BY <2>2
    <3>2. i \in DOMAIN new /\ new[i] = <<k, v>>  BY <1>1, <3>1
    <3>3. ASSUME NEW j \in DOMAIN new, j > i PROVE new[j][1] # k
      <4>1. CASE j = Len(log) + 1  BY <1>1, <4>1
      <4>2. CASE j # Len(log) + 1
        <5>1. j \in DOMAIN log  BY <1>1, <4>2
        <5>2. QED  BY <1>1, <3>1, <3>3, <5>1
      <4>3. QED  BY <4>1, <4>2
    <3>4. QED  BY <3>2, <3>3 DEF Leaves
  <2>3. QED  BY <1>3, <2>1, <2>2 DEF Leaves
<1>4. QED  BY <1>2, <1>3 DEF new

\* A change that is logged, and one that the log need not tell.
LEMMA LogGrows ==
  ASSUME NEW d \in Databases, LogTells(d), NEW h \in Contents
  PROVE  /\ \A e \in Changes :
              /\ e[1] \in Items /\ h[e[1]] = e[2] /\ \A k \in Items \ {e[1]} : h[k] = d.has[k]
              => LogTells([has |-> h, log |-> Append(d.log, e)])
         /\ /\ \A k \in {"participant", "action", "payload"} : h[k] = d.has[k]
            /\ \A k \in {"message", "memory"} : h[k] = 0 <=> d.has[k] = 0
            => LogTells([has |-> h, log |-> d.log])
<1>1. /\ d.log \in Seq(Changes) /\ d.has \in [Keys -> 0..2] /\ h \in [Keys -> 0..2]
      /\ Items = {"participant", "action", "payload"} \cup {"message", "memory"}
      /\ Items \subseteq Keys
  BY DEF Databases, Contents, Items, Keys
<1>2. ASSUME NEW e \in Changes, e[1] \in Items, h[e[1]] = e[2],
             \A k \in Items \ {e[1]} : h[k] = d.has[k]
      PROVE  LogTells([has |-> h, log |-> Append(d.log, e)])
  <2> DEFINE new == Append(d.log, e)
  <2>1. /\ Leaves(new, e[1], h[e[1]])
        /\ \A k \in Keys \ {e[1]}, v \in 0..2 : Leaves(d.log, k, v) => Leaves(new, k, v)
    BY <1>1, <1>2, EventAppended
  <2> HIDE DEF new
  <2>2. ASSUME NEW k \in {"participant", "action", "payload"} PROVE Leaves(new, k, h[k])
    BY <1>1, <1>2, <2>1 DEF LogTells
  <2>3. ASSUME NEW k \in {"message", "memory"}
        PROVE  \E v \in 0..2 : Leaves(new, k, v) /\ (v = 0 <=> h[k] = 0)
    <3>1. CASE k = e[1]
      <4>1. h[k] \in 0..2 /\ Leaves(new, k, h[k])  BY <1>1, <2>1, <3>1
      <4>2. QED  BY <4>1
    <3>2. CASE k # e[1]
      <4>1. PICK v \in 0..2 : Leaves(d.log, k, v) /\ (v = 0 <=> d.has[k] = 0)
        BY DEF LogTells
      <4>2. Leaves(new, k, v) /\ h[k] = d.has[k]  BY <1>1, <1>2, <2>1, <3>2, <4>1
      <4>3. QED  BY <4>1, <4>2
    <3>3. QED  BY <3>1, <3>2
  <2>4. QED  BY <2>2, <2>3 DEF LogTells, new
<1>3. ASSUME \A k \in {"participant", "action", "payload"} : h[k] = d.has[k],
             \A k \in {"message", "memory"} : h[k] = 0 <=> d.has[k] = 0
      PROVE  LogTells([has |-> h, log |-> d.log])
  BY <1>3 DEF LogTells
<1>4. QED  BY <1>2, <1>3

LEMMA EmptyTells == LogTells(EmptyDb)
<1>1. EmptyDb.log = <<>> /\ DOMAIN EmptyDb.log = {}  BY DEF EmptyDb
<1>2. \A k \in Items : EmptyDb.has[k] = 0  BY EmptyFacts DEF Keys
<1>3. QED  BY <1>1, <1>2 DEF LogTells, Leaves, Items

\* A transaction logs what it does but for a rewriting, whose item is there.
LEMMA CommitTells ==
  ASSUME IInv, LogInv, SqlCommit
  PROVE  LogInv'
<1>1. /\ AtStep("sqlite") /\ db' = Committed /\ op' = NextStep /\ UNCHANGED backend
      /\ op \in Ops /\ op # None /\ op.change[1] # "room" /\ op.step \in {"room", "item"}
      /\ WellFormed(db.has) /\ db \in Databases /\ db # NoFile /\ backend = "sqlite"
      /\ op.step = "item" /\ op.change[1] \in Items => db.has["room"] = 1
  <2>1. AtStep("sqlite") /\ db' = Committed /\ op' = NextStep /\ UNCHANGED backend
    BY DEF SqlCommit
  <2>2. backend = "sqlite" /\ op # None  BY <2>1 DEF AtStep
  <2>3. QED  BY <2>1, <2>2, Stepping DEF IInv, Answered, Types, Visible
<1> DEFINE c == Stepped(db.has)
           ch == op.change
<1>2. /\ WellFormed(c) /\ c \in Contents /\ \A k \in Keys \ {ch[1], "room"} : c[k] = db.has[k]
      /\ op.step = "room" => \A k \in Keys \ {"room"} : c[k] = db.has[k]
      /\ op.step = "item" /\ Repeats(db.has, ch) => c = db.has
  <2>1. InDoubt = {ch[1], "room"}  BY <1>1 DEF InDoubt
  <2>2. QED  BY <1>1, <2>1, SteppedFacts DEF WellFormed
<1>3. /\ ch \in Changes /\ ch[1] \in Keys /\ ch[2] \in 0..2 /\ db.has \in [Keys -> 0..2]
      /\ Items \subseteq Keys /\ "room" \notin Items /\ "settings" \notin Items
      /\ Keys = Items \cup {"room", "settings"}
      /\ Items = {"participant", "action", "payload"} \cup {"message", "memory"}
  BY <1>1 DEF Ops, Changes, Databases, Contents, Items, Keys
<1>4. LogTells(db)  BY <1>1 DEF LogInv, LogRebuilds, LogTells
<1>5. db' = [has |-> c, log |-> IF op.step = "room" THEN db.log ELSE Record(db.log, db.has, ch)]
  BY <1>1 DEF Committed
<1>6. op.step = "item" /\ ~Repeats(db.has, ch) => c[ch[1]] = ch[2]
  BY <1>1, <1>3 DEF Stepped, Apply
<1> HIDE DEF c
<1>7. LogTells(db')
  <2>1. CASE op.step = "room" \/ Repeats(db.has, ch) \/ ch[1] = "settings"
    <3>1. db' = [has |-> c, log |-> db.log]  BY <1>5, <2>1 DEF Record
    <3>2. \A k \in Items : c[k] = db.has[k]  BY <1>1, <1>2, <1>3, <2>1
    <3>3. /\ \A k \in {"participant", "action", "payload"} : c[k] = db.has[k]
          /\ \A k \in {"message", "memory"} : c[k] = 0 <=> db.has[k] = 0
      BY <1>3, <3>2
    <3>4. QED  BY <1>1, <1>2, <1>4, <3>1, <3>3, LogGrows
  <2>2. CASE op.step = "item" /\ ~Repeats(db.has, ch) /\ ch \in Rewrites
    <3>1. db' = [has |-> c, log |-> db.log]  BY <1>5, <2>2 DEF Record
    <3>2. ch[1] \in {"message", "memory"} /\ ch[2] = 2  BY <2>2 DEF Rewrites
    <3>3. db.has[ch[1]] # 0  BY <1>1, <2>2 DEF LogInv, Rewriting
    <3>4. \A k \in Items \ {ch[1]} : c[k] = db.has[k]  BY <1>2, <1>3
    <3>5. c[ch[1]] = 2  BY <1>6, <2>2, <3>2
    <3>6. /\ \A k \in {"participant", "action", "payload"} : c[k] = db.has[k]
          /\ \A k \in {"message", "memory"} : c[k] = 0 <=> db.has[k] = 0
      BY <1>3, <3>2, <3>3, <3>4, <3>5
    <3>7. QED  BY <1>1, <1>2, <1>4, <3>1, <3>6, LogGrows
  <2>3. CASE op.step = "item" /\ ~Repeats(db.has, ch) /\ ch \notin Rewrites /\ ch[1] # "settings"
    <3>1. db' = [has |-> c, log |-> Append(db.log, ch)]  BY <1>5, <2>3 DEF Record
    <3>2. ch[1] \in Items /\ c[ch[1]] = ch[2] /\ \A k \in Items \ {ch[1]} : c[k] = db.has[k]
      BY <1>1, <1>2, <1>3, <1>6, <2>3
    <3>3. ch \in Changes /\ c \in Contents /\ db \in Databases  BY <1>1, <1>2, <1>3
    <3> HIDE DEF ch
    <3>4. LogTells([has |-> c, log |-> Append(db.log, ch)])
      BY ONLY <1>4, <3>2, <3>3, LogGrows
    <3>5. QED  BY <3>1, <3>4
  <2>4. QED  BY <1>1, <2>1, <2>2, <2>3
<1>8. LogRebuilds'  BY <1>7 DEF LogRebuilds, LogTells
<1>9. Rewriting'
  <2>1. op'.change = ch /\ (op'.step # "done" => op.step = "room")
    BY <1>1 DEF NextStep, Ops
  <2>2. db'.has = c  BY <1>5
  <2>3. op.step = "room" => c[ch[1]] = db.has[ch[1]]  BY <1>1, <1>2, <1>3
  <2>4. QED  BY <1>1, <2>1, <2>2, <2>3 DEF LogInv, Rewriting
<1>10. QED  BY <1>8, <1>9 DEF LogInv

\* The migration copies an item with the event that made it.
LEMMA CopyTells ==
  ASSUME IInv, LogInv, MigrateCopy
  PROVE  LogInv'
<1> DEFINE k == CopyOrder[mig.next]
           h == [db.has EXCEPT ![k] = mig.src[k], !["room"] = IF k = "settings" THEN @ ELSE 1]
<1>1. /\ mig.stage = "copying" /\ mig.next <= Len(CopyOrder)
      /\ db' = IF mig.src[k] = 0 THEN db ELSE Copied(k)
      /\ UNCHANGED <<backend, op>>
  BY DEF MigrateCopy
<1>2. /\ backend = "json" /\ db # NoFile /\ db \in Databases
      /\ mig.src \in [Keys -> 0..2] /\ mig.next \in 1..8
  <2>1. backend = "json"  BY <1>1 DEF IInv, Migration, Types
  <2>2. QED  BY <1>1, <2>1 DEF IInv, Migration, Types, Contents
<1>3. k \in Keys /\ (k \notin Items => k \in {"room", "settings"})
  <2>1. Len(CopyOrder) = 7  BY DEF CopyOrder
  <2>2. mig.next \in Kinds  BY <1>1, <1>2, <2>1 DEF Kinds
  <2>3. QED  BY <2>2, Order DEF Keys
<1> HIDE DEF k
<1>4. LogTells(db)  BY <1>2 DEF LogInv, LogRebuilds, LogTells
<1>5. LogTells(db')
  <2>1. CASE mig.src[k] = 0  BY <1>1, <1>4, <2>1
  <2>2. CASE mig.src[k] # 0
    <3>1. db' = [has |-> h, log |-> IF k \in Items THEN Append(db.log, <<k, mig.src[k]>>)
                                    ELSE db.log]
      BY <1>1, <2>2 DEF Copied
    <3>2. db.has \in [Keys -> 0..2] /\ "room" \in Keys /\ Items \subseteq Keys
          /\ "room" \notin Items /\ "settings" \notin Items
          /\ Items = {"participant", "action", "payload"} \cup {"message", "memory"}
      BY <1>2 DEF Databases, Contents, Keys, Items
    <3>3. h \in Contents /\ (\A i \in Items \ {k} : h[i] = db.has[i])
          /\ (k \in Items => h[k] = mig.src[k])
      BY <1>2, <1>3, <3>2 DEF Contents
    <3> HIDE DEF h
    <3>4. CASE k \in Items
      <4>1. <<k, mig.src[k]>> \in Changes  BY <1>2, <1>3 DEF Changes
      <4>2. QED  BY <1>2, <1>4, <3>1, <3>3, <3>4, <4>1, LogGrows
    <3>5. CASE k \notin Items
      <4>1. \A i \in Items : h[i] = db.has[i]  BY <3>3, <3>5
      <4>2. QED  BY <1>2, <1>4, <3>1, <3>2, <3>3, <3>5, <4>1, LogGrows
    <3>6. QED  BY <3>4, <3>5
  <2>3. QED  BY <2>1, <2>2
<1>6. LogRebuilds'  BY <1>5 DEF LogRebuilds, LogTells
<1>7. QED  BY <1>1, <1>2, <1>6 DEF LogInv, Rewriting

\* An operation begins, and what it rewrites is there.
LEMMA CallTells ==
  ASSUME IInv, LogInv, NEW k \in Keys, NEW v \in 0..2, Call(<<k, v>>)
  PROVE  LogInv'
<1>1. op'.change = <<k, v>> /\ <<k, v>> \in Legal(Visible) /\ UNCHANGED <<backend, db>>
  BY DEF Call
<1>2. backend = "sqlite" /\ <<k, v>> \in Rewrites => db.has[k] # 0
  BY <1>1 DEF Legal, Visible, Rewrites, Appends, Items
<1>3. Rewriting'  BY <1>1, <1>2 DEF Rewriting
<1>4. QED  BY <1>1, <1>3 DEF LogInv, LogRebuilds

\* The other steps leave the database alone, or make an empty one or none.
LEMMA OthersTell ==
  ASSUME IInv, LogInv,
         \/ JsonOpen \/ JsonWritten \/ JsonFails \/ SqlFails \/ Return
         \/ Stop \/ Start \/ SwitchOver
         \/ MigrateStart \/ MigrateLoad \/ MigrateFails \/ MigrateEnd \/ MigrateCut \/ InitStore
         \/ UNCHANGED vars
  PROVE  LogInv'
<1>1. db' = db \/ db' = NoFile \/ db' = EmptyDb
  BY DEF JsonOpen, JsonWritten, JsonFails, SqlFails, Return, Stop, Start, SwitchOver,
         MigrateStart, MigrateLoad, MigrateFails, MigrateEnd, MigrateCut, InitStore, vars
<1>2. LogRebuilds'  BY <1>1, EmptyTells DEF LogInv, LogRebuilds, LogTells
<1>3. Rewriting'
  <2>1. CASE JsonOpen \/ JsonWritten \/ JsonFails
    BY <2>1 DEF JsonOpen, JsonWritten, JsonFails, AtStep, Rewriting
  <2>2. CASE SqlFails \/ Return \/ Stop  BY <2>2 DEF SqlFails, Return, Stop, Rewriting
  <2>3. CASE Start
    <3>1. UNCHANGED <<backend, op>> /\ (backend = "sqlite" => UNCHANGED db)
      BY <2>3 DEF Start, IInv, Answered
    <3>2. QED  BY <3>1 DEF LogInv, Rewriting
  <2>4. CASE SwitchOver  BY <2>4 DEF SwitchOver, IInv, Working, Rewriting
  <2>5. CASE MigrateStart \/ MigrateFails \/ MigrateCut \/ InitStore \/ MigrateLoad \/ MigrateEnd
    <3>1. UNCHANGED <<backend, op>>
      BY <2>5 DEF MigrateStart, MigrateLoad, MigrateFails, MigrateEnd, MigrateCut, InitStore
    <3>2. backend = "json"
      BY <2>5 DEF MigrateStart, MigrateLoad, MigrateFails, MigrateEnd, MigrateCut, InitStore,
                  Migrating, IInv, Migration, Types
    <3>3. QED  BY <3>1, <3>2 DEF Rewriting
  <2>6. CASE UNCHANGED vars  BY <2>6 DEF vars, LogInv, Rewriting
  <2>7. QED  BY <2>1, <2>2, <2>3, <2>4, <2>5, <2>6
<1>4. QED  BY <1>2, <1>3 DEF LogInv

\* The event log of a SQLite store, migrated or not, tells what its tables hold, after any
\* operations, failures and crashes.
THEOREM LogsRebuild == Spec => []LogRebuilds
<1>1. Init => LogInv  BY DEF Init, LogInv, LogRebuilds, Rewriting
<1>2. IInv /\ LogInv /\ [Next]_vars => LogInv'
  <2> SUFFICES ASSUME IInv, LogInv, [Next]_vars PROVE LogInv'
    OBVIOUS
  <2>1. CASE \E k \in Keys, v \in 0..2 : Call(<<k, v>>)  BY <2>1, CallTells
  <2>2. CASE SqlCommit  BY <2>2, CommitTells
  <2>3. CASE MigrateCopy  BY <2>3, CopyTells
  <2>4. CASE \/ JsonOpen \/ JsonWritten \/ JsonFails \/ SqlFails \/ Return
             \/ Stop \/ Start \/ SwitchOver
             \/ MigrateStart \/ MigrateLoad \/ MigrateFails \/ MigrateEnd \/ MigrateCut
             \/ InitStore \/ UNCHANGED vars
    BY <2>4, OthersTell
  <2>5. QED  BY <2>1, <2>2, <2>3, <2>4 DEF Next
<1>3. LogInv => LogRebuilds  BY DEF LogInv
<1>4. QED  BY <1>1, <1>2, <1>3, InductiveInvariant, PTL DEF Spec
=============================================================================
