------------------------- MODULE ArtifactWorkProofs --------------------------
(***************************************************************************)
(* What holds of the saved artifacts for every number of artifacts, edits, *)
(* diarizations, cancel commands and chat questions, whatever set of them  *)
(* runs together.                                                          *)
(***************************************************************************)
EXTENDS ArtifactWork, SequenceTheorems, TLAPS

Row == [st : {"new", "live", "trash", "gone"}, rev : Nat, audio : BOOLEAN,
        base : [BaseFields -> Cells], meta : [MetaKeys -> Cells],
        analysis : [AnalysisKeys -> Cells]]
Call == [st : {"read"}, art : Artifacts, field : Fields, value : Values,
         rev : Nat, view : [MetaKeys -> Cells]]
Migrations == [open : {TRUE}, todo : SUBSET Artifacts,
               done : [Artifacts -> {NoRow, Inserted(TRUE), Inserted(FALSE)}]]
Todos == {<<>>, <<"progress">>, StatusKeys}
Goals == {"running", "completed", "failed", "cancelled"}
RunRecord == [pc : {"idle", "starting", "spawned", "diarizing", "turns", "writing",
                    "written", "completing", "reporting", "leaving", "done", "refused"},
              art : Artifacts \cup {None}, cancelled : BOOLEAN, goal : Goals,
              todo : Todos, wrote : {"no", "yes", "missed"}]
CancelRecord == [pc : {"idle", "setting", "done"}, art : Artifacts \cup {None}, todo : Todos]
EditRecord == [pc : {"thinking", "reading", "writing", "done"}, art : Artifacts,
               field : EditFields]
Message == [role : {"user", "assistant"}, status : {"complete", "error"}, turn : Turns]

\* What is in the store, with the fields that TypeOK leaves open.
StoreIsTyped ==
    /\ schema \in {"legacy", "current"} /\ old \subseteq Legacy
    /\ row \in [Artifacts -> Row]
    /\ vault \subseteq Artifacts /\ recording \subseteq Artifacts
    /\ saving \in [Artifacts -> {"no", "audio", "silent"}]
    /\ \/ migrating = [open |-> FALSE]
       \/ migrating \in Migrations
    /\ DOMAIN call = Writers
    /\ \A w \in Writers : call[w] = NoCall \/ call[w] \in Call
    /\ accepted \in [Artifacts -> [Fields -> Cells]]

\* A view that was read is the row's as long as the row has that revision.
ViewsAreFresh ==
    \A w \in Writers : call[w].st = "read" =>
        /\ row[call[w].art].st # "new"
        /\ call[w].rev <= row[call[w].art].rev
        /\ row[call[w].art].rev = call[w].rev => call[w].view = View(row[call[w].art])

\* A row in the trash shows what it will show when it is restored.
RowsShowAccepted ==
    \A a \in Artifacts : InTable(a) => \A f \in Fields : Shown(row[a])[f] = accepted[a][f]

\* The recording of a row in the trash is there for its restoration too.
RecordingsAreKept ==
    \A a \in Artifacts :
        /\ InTable(a) /\ row[a].audio =>
              a \in vault \/ (trash.pc \in {"erased", "done"} /\ a \in trash.ids)
        /\ saving[a] = "audio" => a \in vault
        /\ saving[a] # "no" => row[a].st = "new" /\ schema = "current"

TrashIsOfRows ==
    /\ trash \in [pc : {"idle", "listed", "erased", "done"}, ids : SUBSET Artifacts]
    /\ \A a \in trash.ids : row[a].st # "new"

\* Before the migration there are no rows, and what it has done so far stands
\* on what the vault already holds.
MigrationIsWhole ==
    /\ schema = "legacy" => \A a \in Artifacts : row[a] = NoRow
    /\ schema = "current" => \A a \in old : row[a].st # "new"
    /\ migrating.open =>
          /\ schema = "legacy"
          /\ \A a \in Artifacts :
                /\ a \in old \ migrating.todo => migrating.done[a].st # "new"
                /\ migrating.done[a].st # "new" /\ migrating.done[a].audio => a \in vault

StoreInv ==
    /\ StoreIsTyped /\ ViewsAreFresh /\ RowsShowAccepted
    /\ RecordingsAreKept /\ TrashIsOfRows /\ MigrationIsWhole

\* What the commands hold: each works on an artifact once it has begun.
WorkIsTyped ==
    /\ who \in Scenes
    /\ DOMAIN editor = Editors
    /\ \A e \in Editors : editor[e] = [pc |-> "idle"] \/ editor[e] \in EditRecord
    /\ run \in [Runs -> RunRecord]
    /\ \A r \in Runs : run[r].pc # "idle" => run[r].art \in Artifacts
    /\ registry \in [Artifacts -> Runs \cup {None}]
    /\ cancel \in [Cancels -> CancelRecord]
    /\ \A c \in Cancels : cancel[c].pc # "idle" => cancel[c].art \in Artifacts
    /\ crashed \in BOOLEAN

RunsInv ==
    /\ WorkIsTyped
    /\ UncancelledIsRegistered
    /\ CompletedIsWritten
    /\ \A r \in Runs : run[r].pc = "written" => run[r].wrote # "no"

\* An update is under way only where its command waits for it: a run or a cancel
\* command at an entry that it has still to write, or a run at its timeline.
MayCall(t) == (t.pc \in Setting /\ t.todo # <<>>) \/ t.pc = "writing"

CallsInv ==
    /\ \A r \in Runs : call[r].st = "read" => MayCall(run[r])
    /\ \A c \in Cancels :
          call[c].st = "read" => cancel[c].pc = "setting" /\ cancel[c].todo # <<>>

\* Nothing says what a history holds: only later questions read it.
TurnOf(u) == u \in [pc : {"idle", "waiting", "open", "asking", "done"},
                    art : Artifacts \cup {None}, history : {u.history}]

\* Whoever works on the messages of an artifact holds its lock, and the
\* question of the turn that waits for its answer is the last message.
ChatInv ==
    /\ lock \in [Artifacts -> Turns \cup {None}]
    /\ DOMAIN turn = Turns
    /\ \A t \in Turns : TurnOf(turn[t])
    /\ messages \in [Artifacts -> Seq(Message)]
    /\ \A t \in Turns :
          /\ turn[t].pc # "idle" => turn[t].art \in Artifacts
          /\ turn[t].pc \in {"open", "asking"} => lock[turn[t].art] = t
          /\ turn[t].pc = "asking" =>
                LET a == turn[t].art  n == Len(messages[a]) IN
                /\ row[a].st # "new"
                /\ InTable(a) => /\ n > 0
                                 /\ messages[a][n].role = "user"
                                 /\ messages[a][n].turn = t
    /\ AnswerFollowsQuestion

ArtifactInv == StoreInv /\ RunsInv /\ CallsInv /\ ChatInv

-----------------------------------------------------------------------------
LEMMA ConstantFacts ==
    /\ \A v \in Values : v \in Cells /\ v # "unset"
    /\ "first" \in Cells /\ "unset" \in Cells
    /\ Fields = {"content", "title", "pack", "status", "progress", "timeline", "emotion"}
    /\ MetaKeys = {"pack", "status", "progress", "timeline", "emotion"}
BY UnsetIsNoValue DEF Cells, Fields, BaseFields, MetaKeys, PlainKeys, AnalysisKeys

LEMMA ShownFacts ==
    ASSUME NEW r \in Row
    PROVE  View(r) \in [MetaKeys -> Cells] /\ Shown(r) \in [Fields -> Cells]
<1>1. View(r) \in [MetaKeys -> Cells]
  BY DEF Row, View, MetaKeys
<1>2. \A f \in Fields : f \notin BaseFields => f \in MetaKeys
  BY DEF Fields
<1>3. Shown(r) \in [Fields -> Cells]
  BY <1>1, <1>2 DEF Row, Shown
<1> QED BY <1>1, <1>3

LEMMA NewRowFacts ==
    /\ NoRow \in Row /\ NoRow.st = "new"
    /\ \A b \in BOOLEAN : /\ Inserted(b) \in Row /\ Inserted(b).st = "live"
                          /\ Inserted(b).audio = b
<1>1. NoRow \in Row /\ NoRow.st = "new"
  BY ConstantFacts DEF NoRow, Row
<1>2. ASSUME NEW b \in BOOLEAN
      PROVE  Inserted(b) \in Row /\ Inserted(b).st = "live" /\ Inserted(b).audio = b
  <2> DEFINE m == [NoRow.meta EXCEPT !["timeline"] = "first"]
             n == [NoRow.analysis EXCEPT !["timeline"] = "first"]
  <2>1. m \in [MetaKeys -> Cells] /\ n \in [AnalysisKeys -> Cells]
    BY <1>1, ConstantFacts DEF Row
  <2>2. Inserted(b) = [NoRow EXCEPT !.st = "live", !.audio = b, !.meta = m, !.analysis = n]
    BY DEF Inserted
  <2> HIDE DEF m, n
  <2> QED BY <1>1, <2>1, <2>2 DEF Row
<1> QED BY <1>1, <1>2

\* The trash changes a row's state and nothing else.
LEMMA StatusOnly ==
    ASSUME NEW r \in Row, NEW s \in {"new", "live", "trash", "gone"},
           NEW q, q = [r EXCEPT !.st = s]
    PROVE  /\ q \in Row /\ q.st = s /\ q.rev = r.rev /\ q.audio = r.audio
           /\ View(q) = View(r) /\ Shown(q) = Shown(r)
<1>1. q \in Row
  BY DEF Row
<1>2. /\ q.st = s /\ q.rev = r.rev /\ q.audio = r.audio
      /\ q.base = r.base /\ q.meta = r.meta /\ q.analysis = r.analysis
  BY DEF Row
<1>3. View(q) = View(r)
  BY <1>2 DEF View
<1>4. Shown(q) = Shown(r)
  BY <1>2, <1>3 DEF Shown
<1> QED BY <1>1, <1>2, <1>3, <1>4

\* An update that read the row's view as it is changes what the row shows in
\* its own field and in no other.
LEMMA WrittenFacts ==
    ASSUME NEW r \in Row, NEW c \in Call, c.view = View(r)
    PROVE  /\ Written(r, c) \in Row
           /\ Written(r, c).st = r.st /\ Written(r, c).audio = r.audio
           /\ Written(r, c).rev = r.rev + 1
           /\ \A f \in Fields :
                 Shown(Written(r, c))[f] = IF f = c.field THEN c.value ELSE Shown(r)[f]
<1> DEFINE rv == r.rev + 1
           bs == IF c.field \in BaseFields THEN [r.base EXCEPT ![c.field] = c.value] ELSE r.base
           mt == CASE c.field = "content" -> c.view
                   [] c.field \in PlainKeys -> [c.view EXCEPT ![c.field] = c.value]
                   [] OTHER -> r.meta
           an == IF c.field \in AnalysisKeys
                 THEN [r.analysis EXCEPT ![c.field] = c.value] ELSE r.analysis
           w == [r EXCEPT !.rev = rv, !.base = bs, !.meta = mt, !.analysis = an]
<1>1. Written(r, c) = w
  BY DEF Written
<1>2. /\ c.field \in Fields /\ c.value \in Values /\ c.view \in [MetaKeys -> Cells]
      /\ r.rev \in Nat /\ r.base \in [BaseFields -> Cells] /\ r.meta \in [MetaKeys -> Cells]
      /\ r.analysis \in [AnalysisKeys -> Cells]
  BY DEF Row, Call
<1>3. rv \in Nat /\ bs \in [BaseFields -> Cells] /\ an \in [AnalysisKeys -> Cells]
  BY <1>2, ConstantFacts
<1>4. mt \in [MetaKeys -> Cells]
  <2>1. CASE c.field = "content"
    BY <2>1, <1>2 DEF PlainKeys
  <2>2. CASE c.field \in PlainKeys
    BY <2>2, <1>2, ConstantFacts DEF PlainKeys
  <2>3. CASE c.field # "content" /\ c.field \notin PlainKeys
    BY <2>3, <1>2
  <2> QED BY <2>1, <2>2, <2>3
<1> HIDE DEF rv, bs, mt, an
<1>5. /\ w \in Row /\ w.st = r.st /\ w.audio = r.audio /\ w.rev = rv
      /\ w.base = bs /\ w.meta = mt /\ w.analysis = an
  BY <1>3, <1>4 DEF Row
<1> HIDE DEF w
<1>6. \A k \in MetaKeys : View(r)[k] = IF k \in AnalysisKeys /\ r.analysis[k] # "unset"
                                       THEN r.analysis[k] ELSE r.meta[k]
  BY DEF View
<1>7. \A k \in MetaKeys : View(w)[k] = IF k \in AnalysisKeys /\ an[k] # "unset"
                                       THEN an[k] ELSE mt[k]
  BY <1>5 DEF View
<1>8. \A k \in MetaKeys : View(w)[k] = IF k = c.field THEN c.value ELSE View(r)[k]
  <2>1. CASE c.field = "content"
    BY <2>1, <1>2, <1>6, <1>7 DEF mt, an, PlainKeys, AnalysisKeys, MetaKeys
  <2>2. CASE c.field \in PlainKeys
    <3>1. mt = [c.view EXCEPT ![c.field] = c.value] /\ an = r.analysis
      BY <2>2 DEF mt, an, PlainKeys, AnalysisKeys
    <3>2. c.field \in MetaKeys /\ c.field \notin AnalysisKeys
      BY <2>2 DEF PlainKeys, AnalysisKeys, MetaKeys
    <3> QED BY <3>1, <3>2, <1>2, <1>6, <1>7
  <2>3. CASE c.field \in AnalysisKeys
    <3>1. mt = r.meta /\ an = [r.analysis EXCEPT ![c.field] = c.value]
      BY <2>3 DEF mt, an, PlainKeys, AnalysisKeys
    <3> QED BY <2>3, <3>1, <1>2, <1>6, <1>7, ConstantFacts
  <2>4. CASE c.field = "title"
    BY <2>4, <1>2, <1>6, <1>7 DEF mt, an, PlainKeys, AnalysisKeys, MetaKeys
  <2> QED BY <2>1, <2>2, <2>3, <2>4, <1>2 DEF Fields, BaseFields, MetaKeys
<1>9. ASSUME NEW f \in Fields
      PROVE  Shown(w)[f] = IF f = c.field THEN c.value ELSE Shown(r)[f]
  <2>1. Shown(w)[f] = IF f \in BaseFields THEN bs[f] ELSE View(w)[f]
    BY <1>5 DEF Shown
  <2>2. Shown(r)[f] = IF f \in BaseFields THEN r.base[f] ELSE View(r)[f]
    BY DEF Shown
  <2>3. CASE f \in BaseFields
    BY <2>1, <2>2, <2>3, <1>2 DEF bs
  <2>4. CASE f \notin BaseFields
    BY <2>1, <2>2, <2>4, <1>8 DEF Fields
  <2> QED BY <2>3, <2>4
<1> QED BY <1>1, <1>5, <1>9 DEF rv
-----------------------------------------------------------------------------
\* No row shows anything else, none comes back from being erased, and those of
\* the old table stay as they are until the migration commits.
RowsKeep ==
    /\ row' \in [Artifacts -> Row]
    /\ \A a \in Artifacts :
          /\ row'[a].rev = row[a].rev /\ row'[a].audio = row[a].audio
          /\ View(row'[a]) = View(row[a]) /\ Shown(row'[a]) = Shown(row[a])
          /\ InTable(a)' => InTable(a)
          /\ row[a].st # "new" => row'[a].st # "new"
          /\ schema = "legacy" => row'[a] = row[a]

\* What a hard delete has erased stays on its list.
TrashKeeps ==
    /\ trash' \in [pc : {"idle", "listed", "erased", "done"}, ids : SUBSET Artifacts]
    /\ \A a \in trash'.ids : row[a].st # "new"
    /\ trash.pc \in {"erased", "done"} => trash'.pc \in {"erased", "done"} /\ trash'.ids = trash.ids

\* Steps that change the state of rows, or end what was under way.
LEMMA QuietStep ==
    ASSUME StoreInv, RowsKeep, TrashKeeps, UNCHANGED <<schema, old, vault, recording, accepted>>,
           call' = call \/ call' = [w \in Writers |-> NoCall],
           migrating' = migrating \/ migrating' = [open |-> FALSE],
           saving' \in [Artifacts -> {"no", "audio", "silent"}],
           \A a \in Artifacts : saving'[a] # "no" => saving'[a] = saving[a] /\ row'[a] = row[a]
    PROVE  StoreInv'
<1> USE DEF StoreInv
<1>1. StoreIsTyped'
  BY DEF StoreIsTyped, RowsKeep
<1>2. ViewsAreFresh'
  <2>1. SUFFICES ASSUME NEW w \in Writers, call'[w].st = "read"
                 PROVE  /\ row'[call'[w].art].st # "new"
                        /\ call'[w].rev <= row'[call'[w].art].rev
                        /\ row'[call'[w].art].rev = call'[w].rev
                              => call'[w].view = View(row'[call'[w].art])
    BY DEF ViewsAreFresh
  <2>2. call' = call
    BY <2>1 DEF NoCall
  <2>3. call[w].art \in Artifacts
    BY <2>1, <2>2 DEF StoreIsTyped, Call, NoCall
  <2> QED BY <2>1, <2>2, <2>3 DEF ViewsAreFresh, RowsKeep
<1>3. RowsShowAccepted'
  BY DEF RowsShowAccepted, RowsKeep, InTable
<1>4. RecordingsAreKept'
  BY DEF RecordingsAreKept, RowsKeep, TrashKeeps, InTable
<1>5. TrashIsOfRows'
  BY DEF TrashIsOfRows, RowsKeep, TrashKeeps
<1>6. MigrationIsWhole'
  <2>1. migrating'.open => migrating' = migrating
    OBVIOUS
  <2>2. schema = "legacy" => \A a \in Artifacts : row'[a] = NoRow
    BY DEF MigrationIsWhole, RowsKeep
  <2>3. schema = "current" => \A a \in old : row'[a].st # "new"
    BY LegacyAreArtifacts DEF MigrationIsWhole, RowsKeep, StoreIsTyped
  <2> QED BY <2>1, <2>2, <2>3 DEF MigrationIsWhole
<1> QED BY <1>1, <1>2, <1>3, <1>4, <1>5, <1>6

LEMMA SameRows ==
    ASSUME StoreIsTyped, row' = row
    PROVE  RowsKeep
BY DEF StoreIsTyped, RowsKeep, InTable

LEMMA SameTrash ==
    ASSUME TrashIsOfRows, trash' = trash
    PROVE  TrashKeeps
BY DEF TrashIsOfRows, TrashKeeps

\* A change of the state of some rows, none of which was new.
LEMMA RowsChangeState ==
    ASSUME StoreInv, NEW ids, NEW s \in {"live", "trash", "gone"},
           NEW from \in {"live", "trash"},
           row' = [a \in Artifacts |-> IF a \in ids /\ row[a].st = from
                                       THEN [row[a] EXCEPT !.st = s] ELSE row[a]]
    PROVE  RowsKeep
<1>1. ASSUME NEW a \in Artifacts
      PROVE  /\ row'[a] \in Row
             /\ row'[a].rev = row[a].rev /\ row'[a].audio = row[a].audio
             /\ View(row'[a]) = View(row[a]) /\ Shown(row'[a]) = Shown(row[a])
             /\ InTable(a)' => InTable(a)
             /\ row[a].st # "new" => row'[a].st # "new"
             /\ schema = "legacy" => row'[a] = row[a]
  <2>1. row[a] \in Row
    BY DEF StoreInv, StoreIsTyped
  <2>2. CASE a \in ids /\ row[a].st = from
    <3>1. row'[a] = [row[a] EXCEPT !.st = s]
      BY <2>2
    <3>2. schema # "legacy"
      BY <2>2, NewRowFacts DEF StoreInv, MigrationIsWhole
    <3>3. /\ row'[a] \in Row /\ row'[a].st = s /\ row'[a].rev = row[a].rev
          /\ row'[a].audio = row[a].audio
          /\ View(row'[a]) = View(row[a]) /\ Shown(row'[a]) = Shown(row[a])
      BY <2>1, <3>1, StatusOnly
    <3>4. InTable(a)
      BY <2>2 DEF InTable
    <3> QED BY <3>2, <3>3, <3>4
  <2>3. CASE ~(a \in ids /\ row[a].st = from)
    BY <2>1, <2>3 DEF InTable
  <2> QED BY <2>2, <2>3
<1>2. row' \in [Artifacts -> Row]
  BY <1>1
<1> QED BY <1>1, <1>2 DEF RowsKeep

LEMMA UnchangedStore ==
    ASSUME StoreInv, UNCHANGED store, TrashKeeps
    PROVE  StoreInv'
<1>1. RowsKeep
  BY SameRows DEF StoreInv, store
<1>2. saving' \in [Artifacts -> {"no", "audio", "silent"}]
  BY DEF StoreInv, StoreIsTyped, store
<1> QED BY <1>1, <1>2, QuietStep DEF store

LEMMA TrashStep ==
    ASSUME StoreInv, TrashKeeps, NEW ids,
           DeleteMany(ids) \/ RestoreMany(ids) \/ DeleteRows(ids)
    PROVE  StoreInv'
<1>1. RowsKeep
  <2>1. CASE DeleteMany(ids)
    BY <2>1, RowsChangeState DEF DeleteMany
  <2>2. CASE RestoreMany(ids)
    BY <2>2, RowsChangeState DEF RestoreMany
  <2>3. CASE DeleteRows(ids)
    BY <2>3, RowsChangeState DEF DeleteRows
  <2> QED BY <2>1, <2>2, <2>3
<1>2. UNCHANGED <<schema, old, vault, recording, saving, migrating, call, accepted>>
  BY DEF DeleteMany, RestoreMany, DeleteRows
<1>3. \A a \in Artifacts : saving[a] # "no" => row'[a] = row[a]
  <2>1. \A a \in Artifacts : saving[a] # "no" => row[a].st = "new"
    BY DEF StoreInv, RecordingsAreKept
  <2> QED BY <2>1 DEF DeleteMany, RestoreMany, DeleteRows
<1>4. saving' \in [Artifacts -> {"no", "audio", "silent"}]
  BY <1>2 DEF StoreInv, StoreIsTyped
<1> QED BY <1>1, <1>2, <1>3, <1>4, QuietStep

LEMMA CrashedStore ==
    ASSUME StoreInv, TrashKeeps, StoreCrash
    PROVE  StoreInv'
<1>1. ASSUME NEW a \in Artifacts
      PROVE  /\ row'[a] \in Row
             /\ row'[a].rev = row[a].rev /\ row'[a].audio = row[a].audio
             /\ View(row'[a]) = View(row[a]) /\ Shown(row'[a]) = Shown(row[a])
             /\ InTable(a)' => InTable(a)
             /\ row[a].st # "new" => row'[a].st # "new"
             /\ schema = "legacy" => row'[a] = row[a]
  <2>1. row[a] \in Row
    BY DEF StoreInv, StoreIsTyped
  <2>2. CASE saving[a] # "no"
    <3>1. row'[a] = [row[a] EXCEPT !.st = "gone"]
      BY <2>2 DEF StoreCrash
    <3>2. schema # "legacy"
      BY <2>2 DEF StoreInv, RecordingsAreKept
    <3>3. /\ row'[a] \in Row /\ row'[a].st = "gone" /\ row'[a].rev = row[a].rev
          /\ row'[a].audio = row[a].audio
          /\ View(row'[a]) = View(row[a]) /\ Shown(row'[a]) = Shown(row[a])
      BY <2>1, <3>1, StatusOnly
    <3>4. ~InTable(a)'
      BY <3>3 DEF InTable
    <3> QED BY <3>2, <3>3, <3>4
  <2>3. CASE saving[a] = "no"
    BY <2>1, <2>3 DEF InTable, StoreCrash
  <2> QED BY <2>2, <2>3
<1>2. row' \in [Artifacts -> Row]
  BY <1>1 DEF StoreCrash
<1>3. RowsKeep
  BY <1>1, <1>2 DEF RowsKeep
<1>4. /\ \A a \in Artifacts : saving'[a] = "no"
      /\ saving' \in [Artifacts -> {"no", "audio", "silent"}]
  BY DEF StoreCrash
<1> QED BY <1>3, <1>4, QuietStep DEF StoreCrash

LEMMA FilesRemoved ==
    ASSUME StoreInv, trash.pc = "listed", RemoveFiles(trash.ids),
           trash' = [trash EXCEPT !.pc = "erased"]
    PROVE  StoreInv'
<1> USE DEF StoreInv, RemoveFiles
<1>1. trash'.pc = "erased" /\ trash'.ids = trash.ids /\ vault' = vault \ trash.ids
  BY DEF TrashIsOfRows
<1>2. StoreIsTyped'
  BY DEF StoreIsTyped
<1>3. ViewsAreFresh'
  BY DEF ViewsAreFresh
<1>4. RowsShowAccepted'
  BY DEF RowsShowAccepted, InTable
<1>5. RecordingsAreKept'
  BY <1>1 DEF RecordingsAreKept, InTable, TrashIsOfRows
<1>6. TrashIsOfRows'
  BY <1>1 DEF TrashIsOfRows
<1>7. MigrationIsWhole'
  <2>1. schema = "legacy" => trash.ids = {}
    BY NewRowFacts DEF MigrationIsWhole, TrashIsOfRows
  <2> QED BY <1>1, <2>1 DEF MigrationIsWhole
<1> QED BY <1>2, <1>3, <1>4, <1>5, <1>6, <1>7
-----------------------------------------------------------------------------
LEMMA ReadStep ==
    ASSUME StoreInv, trash' = trash,
           NEW w \in Writers, NEW a \in Artifacts, NEW f \in Fields, NEW v \in Values,
           ReadForUpdate(w, a, f, v)
    PROVE  StoreInv'
<1> USE DEF StoreInv
<1> DEFINE c == Reading(a, f, v)
<1>1. row[a].st = "live" /\ row[a] \in Row
  BY DEF ReadForUpdate, StoreIsTyped
<1>2. c \in Call /\ c.st = "read" /\ c.art = a /\ c.rev = row[a].rev /\ c.view = View(row[a])
  BY <1>1, ShownFacts DEF Reading, Call, Row
<1>3. /\ call' = [call EXCEPT ![w] = c]
      /\ UNCHANGED <<schema, old, row, vault, recording, saving, migrating, accepted>>
  BY DEF ReadForUpdate
<1> HIDE DEF c
<1>4. DOMAIN call' = Writers /\ call'[w] = c /\ \A u \in Writers : u # w => call'[u] = call[u]
  BY <1>3 DEF StoreIsTyped
<1>5. StoreIsTyped'
  BY <1>2, <1>3, <1>4 DEF StoreIsTyped
<1>6. ViewsAreFresh'
  <2>1. row[a].rev \in Nat
    BY <1>1 DEF Row
  <2> QED BY <1>1, <1>2, <1>3, <1>4, <2>1 DEF ViewsAreFresh
<1>7. RowsShowAccepted'
  BY <1>3 DEF RowsShowAccepted, InTable
<1>8. RecordingsAreKept'
  BY <1>3 DEF RecordingsAreKept, InTable
<1>9. TrashIsOfRows' /\ MigrationIsWhole'
  BY <1>3 DEF TrashIsOfRows, MigrationIsWhole
<1> QED BY <1>5, <1>6, <1>7, <1>8, <1>9

LEMMA RejectStep ==
    ASSUME StoreInv, trash' = trash, NEW w \in Writers, EndUpdate(w),
           UNCHANGED <<row, accepted>>
    PROVE  StoreInv'
<1> USE DEF StoreInv
<1>1. /\ call' = [call EXCEPT ![w] = NoCall]
      /\ UNCHANGED <<schema, old, vault, recording, saving, migrating>>
  BY DEF EndUpdate
<1>2. /\ DOMAIN call' = Writers /\ call'[w] = NoCall
      /\ \A u \in Writers : u # w => call'[u] = call[u]
  BY <1>1 DEF StoreIsTyped
<1>3. StoreIsTyped'
  BY <1>1, <1>2 DEF StoreIsTyped
<1>4. ViewsAreFresh'
  BY <1>1, <1>2 DEF ViewsAreFresh, NoCall
<1>5. RowsShowAccepted' /\ RecordingsAreKept'
  BY <1>1 DEF RowsShowAccepted, RecordingsAreKept, InTable
<1>6. TrashIsOfRows' /\ MigrationIsWhole'
  BY <1>1 DEF TrashIsOfRows, MigrationIsWhole
<1> QED BY <1>3, <1>4, <1>5, <1>6

LEMMA AcceptStep ==
    ASSUME StoreInv, trash' = trash, NEW w \in Writers, EndUpdate(w), Accept(w)
    PROVE  StoreInv'
<1> USE DEF StoreInv
<1> DEFINE c == call[w]
           a == c.art
           r == row[a]
           q == Written(r, c)
<1>1. c \in Call /\ c.st = "read"
  BY DEF StoreIsTyped, EndUpdate, NoCall
<1>2. a \in Artifacts /\ c.field \in Fields /\ c.value \in Values
  BY <1>1 DEF Call
<1>3. r \in Row /\ r.st = "live" /\ r.rev = c.rev /\ c.view = View(r)
  BY <1>1, <1>2 DEF StoreIsTyped, Accept, Matches, ViewsAreFresh
<1>4. /\ q \in Row /\ q.st = r.st /\ q.audio = r.audio /\ q.rev = r.rev + 1
      /\ \A f \in Fields : Shown(q)[f] = IF f = c.field THEN c.value ELSE Shown(r)[f]
  BY <1>1, <1>3, WrittenFacts
<1>5. /\ call' = [call EXCEPT ![w] = NoCall]
      /\ row' = [row EXCEPT ![a] = q]
      /\ accepted' = [accepted EXCEPT ![a][c.field] = c.value]
      /\ UNCHANGED <<schema, old, vault, recording, saving, migrating>>
  BY DEF EndUpdate, Accept
<1> HIDE DEF c, a, q
<1>6. /\ DOMAIN call' = Writers /\ call'[w] = NoCall
      /\ \A u \in Writers : u # w => call'[u] = call[u]
  BY <1>5 DEF StoreIsTyped
<1>7. /\ row' \in [Artifacts -> Row] /\ row'[a] = q
      /\ \A b \in Artifacts : b # a => row'[b] = row[b]
  BY <1>2, <1>4, <1>5 DEF StoreIsTyped
<1>8. /\ accepted' \in [Artifacts -> [Fields -> Cells]]
      /\ \A f \in Fields : accepted'[a][f] = IF f = c.field THEN c.value ELSE accepted[a][f]
      /\ \A b \in Artifacts : b # a => accepted'[b] = accepted[b]
  BY <1>2, <1>5, ConstantFacts DEF StoreIsTyped
<1>9. StoreIsTyped'
  BY <1>5, <1>6, <1>7, <1>8 DEF StoreIsTyped
<1>10. ViewsAreFresh'
  <2>1. SUFFICES ASSUME NEW u \in Writers, call'[u].st = "read"
                 PROVE  /\ row'[call'[u].art].st # "new"
                        /\ call'[u].rev <= row'[call'[u].art].rev
                        /\ row'[call'[u].art].rev = call'[u].rev
                              => call'[u].view = View(row'[call'[u].art])
    BY DEF ViewsAreFresh
  <2>2. u # w /\ call'[u] = call[u]
    BY <1>6, <2>1 DEF NoCall
  <2>3. /\ call[u] \in Call /\ call[u].art \in Artifacts /\ call[u].rev \in Nat
        /\ row[call[u].art].st # "new" /\ call[u].rev <= row[call[u].art].rev
        /\ row[call[u].art].rev = call[u].rev => call[u].view = View(row[call[u].art])
    BY <2>1, <2>2 DEF StoreIsTyped, ViewsAreFresh, NoCall, Call
  <2>4. CASE call[u].art = a
    <3>1. row'[a].rev = row[a].rev + 1 /\ row[a].rev \in Nat /\ row'[a].st # "new"
      BY <1>3, <1>4, <1>7 DEF Row
    <3> QED BY <2>2, <2>3, <2>4, <3>1
  <2>5. CASE call[u].art # a
    BY <1>7, <2>2, <2>3, <2>5
  <2> QED BY <2>4, <2>5
<1>11. RowsShowAccepted'
  <2>1. SUFFICES ASSUME NEW b \in Artifacts, row'[b].st \in {"live", "trash"}, NEW f \in Fields
                 PROVE  Shown(row'[b])[f] = accepted'[b][f]
    BY DEF RowsShowAccepted, InTable
  <2>2. CASE b = a
    <3>1. Shown(r)[f] = accepted[a][f]
      BY <1>2, <1>3 DEF RowsShowAccepted, InTable
    <3> QED BY <2>2, <3>1, <1>4, <1>7, <1>8
  <2>3. CASE b # a
    BY <2>1, <2>3, <1>7, <1>8 DEF RowsShowAccepted, InTable
  <2> QED BY <2>2, <2>3
<1>12. RecordingsAreKept'
  BY <1>2, <1>3, <1>4, <1>5, <1>7 DEF RecordingsAreKept, InTable
<1>13. TrashIsOfRows'
  BY <1>2, <1>3, <1>4, <1>7 DEF TrashIsOfRows
<1>14. MigrationIsWhole'
  <2>1. schema # "legacy"
    BY <1>2, <1>3, NewRowFacts DEF MigrationIsWhole
  <2>2. \A b \in Artifacts : row[b].st # "new" => row'[b].st # "new"
    BY <1>2, <1>3, <1>4, <1>7
  <2> QED BY <1>5, <2>1, <2>2, LegacyAreArtifacts DEF MigrationIsWhole, StoreIsTyped
<1> QED BY <1>9, <1>10, <1>11, <1>12, <1>13, <1>14
-----------------------------------------------------------------------------
\* Before the migration there is nothing for a command to hold.
LEMMA LegacyIsQuiet ==
    ASSUME StoreInv, schema = "legacy"
    PROVE  /\ \A w \in Writers : call[w] = NoCall
           /\ trash.ids = {}
           /\ \A a \in Artifacts : saving[a] = "no" /\ ~InTable(a)
<1>1. \A a \in Artifacts : row[a].st = "new"
  BY NewRowFacts DEF StoreInv, MigrationIsWhole
<1>2. \A w \in Writers : call[w] = NoCall
  BY <1>1 DEF StoreInv, StoreIsTyped, ViewsAreFresh, Call, NoCall
<1>3. trash.ids = {}
  BY <1>1 DEF StoreInv, TrashIsOfRows
<1>4. \A a \in Artifacts : saving[a] = "no" /\ ~InTable(a)
  BY <1>1 DEF StoreInv, RecordingsAreKept, StoreIsTyped, InTable
<1> QED BY <1>2, <1>3, <1>4

LEMMA OpenMigration ==
    ASSUME StoreInv, migrating.open
    PROVE  migrating \in Migrations
BY DEF StoreInv, StoreIsTyped

LEMMA MigrationBeginsKeeps ==
    ASSUME StoreInv, trash' = trash, MigrationBegins
    PROVE  StoreInv'
<1> USE DEF StoreInv, MigrationBegins
<1>1. /\ migrating'.open = TRUE /\ migrating'.todo = old /\ migrating'.done = row
      /\ migrating' \in Migrations
  <2>1. old \subseteq Artifacts
    BY LegacyAreArtifacts DEF StoreIsTyped
  <2>2. row \in [Artifacts -> {NoRow, Inserted(TRUE), Inserted(FALSE)}]
    BY DEF StoreIsTyped, MigrationIsWhole
  <2>3. migrating' = [open |-> TRUE, todo |-> old, done |-> row]
    OBVIOUS
  <2> HIDE DEF MigrationBegins
  <2> QED BY <2>1, <2>2, <2>3 DEF Migrations
<1>2. StoreIsTyped'
  BY <1>1 DEF StoreIsTyped
<1>3. ViewsAreFresh'
  BY DEF ViewsAreFresh
<1>4. RowsShowAccepted' /\ RecordingsAreKept'
  BY DEF RowsShowAccepted, RecordingsAreKept, InTable
<1>5. TrashIsOfRows'
  BY DEF TrashIsOfRows
<1>6. MigrationIsWhole'
  BY <1>1, NewRowFacts DEF MigrationIsWhole
<1> QED BY <1>2, <1>3, <1>4, <1>5, <1>6

LEMMA MigrateRowKeeps ==
    ASSUME StoreInv, trash' = trash, NEW a \in Artifacts, MigrateRow(a)
    PROVE  StoreInv'
<1> USE DEF StoreInv
<1> DEFINE q == Inserted(a \in recording)
<1>1. migrating.open /\ migrating \in Migrations
  <2> HIDE DEF StoreInv
  <2> QED BY OpenMigration DEF MigrateRow
<1>2. q \in {Inserted(TRUE), Inserted(FALSE)} /\ q.audio = (a \in recording) /\ q.st = "live"
  <2>1. \A b \in BOOLEAN : Inserted(b) \in {Inserted(TRUE), Inserted(FALSE)}
    OBVIOUS
  <2>2. (a \in recording) \in BOOLEAN
    OBVIOUS
  <2> QED BY <2>1, <2>2, NewRowFacts
<1>3. /\ migrating' = [migrating EXCEPT !.todo = @ \ {a}, !.done[a] = q]
      /\ vault' = IF a \in recording THEN vault \cup {a} ELSE vault
      /\ UNCHANGED <<schema, old, row, recording, saving, call, accepted>>
  BY DEF MigrateRow
<1> HIDE DEF q
<1> DEFINE d == [migrating.done EXCEPT ![a] = q]
<1>4. /\ d \in [Artifacts -> {NoRow, Inserted(TRUE), Inserted(FALSE)}]
      /\ d[a] = q /\ \A b \in Artifacts : b # a => d[b] = migrating.done[b]
  BY <1>1, <1>2 DEF Migrations
<1>5. migrating' = [migrating EXCEPT !.todo = migrating.todo \ {a}, !.done = d]
  BY <1>1, <1>3 DEF Migrations
<1> HIDE DEF d
<1>6. /\ migrating' \in Migrations
      /\ migrating'.todo = migrating.todo \ {a} /\ migrating'.done = d
  <2> HIDE DEF StoreInv
  <2> QED BY <1>1, <1>4, <1>5 DEF Migrations
<1>7. vault \subseteq vault' /\ vault' \subseteq Artifacts /\ (a \in recording => a \in vault')
  BY <1>3 DEF StoreIsTyped
<1>8. StoreIsTyped'
  BY <1>3, <1>6, <1>7 DEF StoreIsTyped
<1>9. ViewsAreFresh'
  BY <1>3 DEF ViewsAreFresh
<1>10. RowsShowAccepted' /\ RecordingsAreKept'
  BY <1>3, <1>7 DEF RowsShowAccepted, RecordingsAreKept, InTable
<1>11. TrashIsOfRows'
  BY <1>3 DEF TrashIsOfRows
<1>12. MigrationIsWhole'
  <2>1. schema = "legacy"
    BY <1>1 DEF MigrationIsWhole
  <2>2. ASSUME NEW b \in Artifacts
        PROVE  /\ b \in old \ migrating'.todo => d[b].st # "new"
               /\ d[b].st # "new" /\ d[b].audio => b \in vault'
    <3>1. CASE b = a
      BY <1>2, <1>4, <1>7, <3>1
    <3>2. CASE b # a
      BY <1>1, <1>4, <1>6, <1>7, <3>2 DEF MigrationIsWhole
    <3> QED BY <3>1, <3>2
  <2> QED BY <1>3, <1>6, <2>1, <2>2 DEF MigrationIsWhole
<1> QED BY <1>8, <1>9, <1>10, <1>11, <1>12

LEMMA MigrationFailsKeeps ==
    ASSUME StoreInv, trash' = trash, MigrationFails
    PROVE  StoreInv'
<1>1. RowsKeep
  BY SameRows DEF StoreInv, MigrationFails
<1>2. TrashKeeps
  BY SameTrash DEF StoreInv
<1>3. saving' \in [Artifacts -> {"no", "audio", "silent"}]
  BY DEF StoreInv, StoreIsTyped, MigrationFails
<1> QED BY <1>1, <1>2, <1>3, QuietStep DEF MigrationFails

LEMMA MigrationCommitsKeeps ==
    ASSUME StoreInv, trash' = trash, MigrationCommits
    PROVE  StoreInv'
<1> USE DEF StoreInv
<1>1. /\ migrating.open /\ schema = "legacy" /\ migrating.todo = {}
      /\ migrating.done \in [Artifacts -> {NoRow, Inserted(TRUE), Inserted(FALSE)}]
  BY OpenMigration DEF MigrationCommits, MigrationIsWhole, Migrations
<1>2. /\ row' = migrating.done /\ schema' = "current"
      /\ accepted' = [a \in Artifacts |-> Shown(row'[a])]
      /\ migrating' = [open |-> FALSE]
      /\ UNCHANGED <<old, vault, recording, saving, call>>
  BY DEF MigrationCommits
<1>3. row' \in [Artifacts -> Row]
  <2>1. NoRow \in Row /\ Inserted(TRUE) \in Row /\ Inserted(FALSE) \in Row
    BY NewRowFacts
  <2> HIDE DEF StoreInv
  <2> QED BY <1>1, <1>2, <2>1
<1>4. accepted' \in [Artifacts -> [Fields -> Cells]]
  BY <1>2, <1>3, ShownFacts
<1>5. StoreIsTyped'
  BY <1>2, <1>3, <1>4 DEF StoreIsTyped
<1>6. ViewsAreFresh'
  BY <1>1, <1>2, LegacyIsQuiet DEF ViewsAreFresh, NoCall
<1>7. RowsShowAccepted'
  BY <1>2 DEF RowsShowAccepted
<1>8. RecordingsAreKept'
  <2>1. \A a \in Artifacts : saving'[a] = "no"
    BY <1>1, <1>2, LegacyIsQuiet
  <2>2. \A a \in Artifacts : row'[a].st # "new" /\ row'[a].audio => a \in vault'
    BY <1>1, <1>2 DEF MigrationIsWhole
  <2> QED BY <2>1, <2>2 DEF RecordingsAreKept, InTable
<1>9. TrashIsOfRows'
  BY <1>1, <1>2, LegacyIsQuiet DEF TrashIsOfRows
<1>10. MigrationIsWhole'
  <2>1. \A a \in old : row'[a].st # "new"
    BY <1>1, <1>2, LegacyAreArtifacts DEF MigrationIsWhole, StoreIsTyped
  <2> QED BY <1>2, <2>1 DEF MigrationIsWhole
<1> QED BY <1>5, <1>6, <1>7, <1>8, <1>9, <1>10

LEMMA MigrationStep ==
    ASSUME StoreInv, trash' = trash, Migration
    PROVE  StoreInv'
BY MigrationBeginsKeeps, MigrateRowKeeps, MigrationFailsKeeps, MigrationCommitsKeeps
   DEF Migration

LEMMA SaveBeginsKeeps ==
    ASSUME StoreInv, trash' = trash, NEW a \in Artifacts, SaveBegins(a)
    PROVE  StoreInv'
<1> USE DEF StoreInv
<1>1. /\ schema = "current" /\ row[a].st = "new"
      /\ UNCHANGED <<schema, old, row, recording, migrating, call, accepted>>
  BY DEF SaveBegins, Ready
<1>2. /\ saving' \in [Artifacts -> {"no", "audio", "silent"}]
      /\ vault \subseteq vault' /\ vault' \subseteq Artifacts
      /\ saving'[a] = "audio" => a \in vault'
      /\ \A b \in Artifacts : b # a => saving'[b] = saving[b]
  BY DEF SaveBegins, StoreIsTyped
<1>3. StoreIsTyped'
  BY <1>1, <1>2 DEF StoreIsTyped
<1>4. ViewsAreFresh'
  BY <1>1 DEF ViewsAreFresh
<1>5. RowsShowAccepted' /\ TrashIsOfRows'
  BY <1>1 DEF RowsShowAccepted, InTable, TrashIsOfRows
<1>6. RecordingsAreKept'
  BY <1>1, <1>2 DEF RecordingsAreKept, InTable
<1>7. MigrationIsWhole'
  BY <1>1, <1>2 DEF MigrationIsWhole
<1> QED BY <1>3, <1>4, <1>5, <1>6, <1>7

LEMMA SaveCommitsKeeps ==
    ASSUME StoreInv, trash' = trash, NEW a \in Artifacts, SaveCommits(a)
    PROVE  StoreInv'
<1> USE DEF StoreInv
<1> DEFINE q == Inserted(saving[a] = "audio")
<1>1. q \in Row /\ q.st = "live" /\ q.audio = (saving[a] = "audio")
  BY NewRowFacts
<1>2. /\ row' = [row EXCEPT ![a] = q]
      /\ accepted' = [accepted EXCEPT ![a] = Shown(row'[a])]
      /\ saving' = [saving EXCEPT ![a] = "no"]
      /\ UNCHANGED <<schema, old, vault, recording, migrating, call>>
  BY DEF SaveCommits
<1>3. row[a].st = "new" /\ schema = "current" /\ (saving[a] = "audio" => a \in vault)
  BY DEF SaveCommits, RecordingsAreKept
<1> HIDE DEF q
<1>4. /\ row' \in [Artifacts -> Row] /\ row'[a] = q
      /\ \A b \in Artifacts : b # a => row'[b] = row[b]
  BY <1>1, <1>2 DEF StoreIsTyped
<1>5. /\ saving' \in [Artifacts -> {"no", "audio", "silent"}] /\ saving'[a] = "no"
      /\ \A b \in Artifacts : b # a => saving'[b] = saving[b]
  BY <1>2 DEF StoreIsTyped
<1>6. /\ accepted' \in [Artifacts -> [Fields -> Cells]] /\ accepted'[a] = Shown(q)
      /\ \A b \in Artifacts : b # a => accepted'[b] = accepted[b]
  BY <1>1, <1>2, <1>4, ShownFacts DEF StoreIsTyped
<1>7. StoreIsTyped'
  BY <1>2, <1>4, <1>5, <1>6 DEF StoreIsTyped
<1>8. ViewsAreFresh'
  <2>1. \A w \in Writers : call[w].st = "read" => call[w].art \in Artifacts \ {a}
    BY <1>3 DEF ViewsAreFresh, StoreIsTyped, Call, NoCall
  <2> QED BY <1>2, <1>4, <2>1 DEF ViewsAreFresh
<1>9. RowsShowAccepted'
  BY <1>4, <1>6 DEF RowsShowAccepted, InTable
<1>10. RecordingsAreKept'
  BY <1>1, <1>2, <1>3, <1>4, <1>5 DEF RecordingsAreKept, InTable
<1>11. TrashIsOfRows'
  BY <1>1, <1>3, <1>4 DEF TrashIsOfRows
<1>12. MigrationIsWhole'
  BY <1>1, <1>2, <1>3, <1>4, LegacyAreArtifacts DEF MigrationIsWhole, StoreIsTyped
<1> QED BY <1>7, <1>8, <1>9, <1>10, <1>11, <1>12

LEMMA SaveFailsKeeps ==
    ASSUME StoreInv, trash' = trash, NEW a \in Artifacts, SaveFails(a)
    PROVE  StoreInv'
<1> USE DEF StoreInv
<1>1. row[a].st = "new" /\ schema = "current" /\ row[a] \in Row
  BY DEF SaveFails, RecordingsAreKept, StoreIsTyped
<1> DEFINE q == [row[a] EXCEPT !.st = "gone"]
<1>2. /\ q \in Row /\ q.st = "gone" /\ q.rev = row[a].rev /\ q.audio = row[a].audio
      /\ View(q) = View(row[a]) /\ Shown(q) = Shown(row[a])
  BY <1>1, StatusOnly
<1>3. /\ row' = [row EXCEPT ![a] = q] /\ saving' = [saving EXCEPT ![a] = "no"]
      /\ UNCHANGED <<schema, old, vault, recording, migrating, call, accepted>>
  BY DEF SaveFails
<1> HIDE DEF q
<1>4. /\ row' \in [Artifacts -> Row] /\ row'[a] = q
      /\ \A b \in Artifacts : b # a => row'[b] = row[b]
  BY <1>2, <1>3 DEF StoreIsTyped
<1>5. /\ saving' \in [Artifacts -> {"no", "audio", "silent"}] /\ saving'[a] = "no"
      /\ \A b \in Artifacts : b # a => saving'[b] = saving[b]
  BY <1>3 DEF StoreIsTyped
<1>6. RowsKeep
  BY <1>1, <1>2, <1>4 DEF RowsKeep, InTable
<1>7. TrashKeeps
  BY SameTrash
<1>8. \A b \in Artifacts : saving'[b] # "no" => saving'[b] = saving[b] /\ row'[b] = row[b]
  BY <1>4, <1>5
<1> HIDE DEF StoreInv
<1> QED BY <1>3, <1>5, <1>6, <1>7, <1>8, QuietStep

LEMMA RecordingLostKeeps ==
    ASSUME StoreInv, trash' = trash, NEW a \in Artifacts, RecordingLost(a)
    PROVE  StoreInv'
<1> USE DEF StoreInv, RecordingLost
<1>1. StoreIsTyped'
  BY DEF StoreIsTyped
<1>2. ViewsAreFresh'
  BY DEF ViewsAreFresh
<1>3. RowsShowAccepted' /\ RecordingsAreKept'
  BY DEF RowsShowAccepted, RecordingsAreKept, InTable
<1>4. TrashIsOfRows' /\ MigrationIsWhole'
  BY DEF TrashIsOfRows, MigrationIsWhole
<1> QED BY <1>1, <1>2, <1>3, <1>4
-----------------------------------------------------------------------------
(* What the runs become. *)

LEMMA TodoFacts ==
    /\ StatusKeys \in Todos /\ <<>> \in Todos
    /\ \A todo \in Todos : todo # <<>> => /\ Head(todo) \in {"status", "progress"}
                                         /\ Tail(todo) \in Todos
<1>1. StatusKeys \in Todos /\ <<>> \in Todos
  BY DEF Todos
<1>2. /\ Head(StatusKeys) = "status" /\ Tail(StatusKeys) = <<"progress">>
      /\ Head(<<"progress">>) = "progress" /\ Tail(<<"progress">>) = <<>>
  BY DEF StatusKeys
<1> QED BY <1>1, <1>2 DEF Todos

LEMMA ReportingFacts ==
    ASSUME NEW t \in RunRecord
    PROVE  /\ Reporting(t) \in RunRecord
           /\ Reporting(t).pc = "reporting" /\ Reporting(t).goal \in {"cancelled", "failed"}
           /\ Reporting(t).art = t.art /\ Reporting(t).cancelled = t.cancelled
           /\ Reporting(t).wrote = t.wrote
BY TodoFacts DEF Reporting, RunRecord, Goals

LEMMA AdvancedFacts ==
    ASSUME NEW t \in RunRecord, t.todo # <<>>
    PROVE  /\ Advanced(t) \in RunRecord
           /\ Advanced(t).pc = t.pc /\ Advanced(t).goal = t.goal
           /\ Advanced(t).art = t.art /\ Advanced(t).cancelled = t.cancelled
           /\ Advanced(t).wrote = t.wrote
<1>1. Tail(t.todo) \in Todos
  BY TodoFacts DEF RunRecord
<1> QED BY <1>1 DEF Advanced, RunRecord

LEMMA AfterStatusFacts ==
    ASSUME NEW t \in RunRecord, t.pc \in Setting, NEW ok \in BOOLEAN
    PROVE  /\ AfterStatus(t, ok) \in RunRecord
           /\ AfterStatus(t, ok).pc \in {"spawned", "refused", "leaving", "reporting"}
           /\ AfterStatus(t, ok).goal \in {t.goal, "cancelled", "failed"}
           /\ AfterStatus(t, ok).art = t.art /\ AfterStatus(t, ok).cancelled = t.cancelled
           /\ AfterStatus(t, ok).wrote = t.wrote
<1>1. CASE t.pc = "starting"
  <2>1. AfterStatus(t, ok) = [t EXCEPT !.pc = IF ok THEN "spawned" ELSE "refused"]
    BY <1>1 DEF AfterStatus
  <2> QED BY <2>1 DEF RunRecord
<1>2. CASE t.pc = "completing" /\ ok
  <2>1. AfterStatus(t, ok) = [t EXCEPT !.pc = "leaving"]
    BY <1>2 DEF AfterStatus
  <2> QED BY <2>1 DEF RunRecord
<1>3. CASE t.pc = "completing" /\ ~ok
  <2>1. AfterStatus(t, ok) = Reporting(t)
    BY <1>3 DEF AfterStatus
  <2> QED BY <2>1, ReportingFacts
<1>4. CASE t.pc = "reporting"
  <2>1. AfterStatus(t, ok) = [t EXCEPT !.pc = "leaving"]
    BY <1>4 DEF AfterStatus
  <2> QED BY <2>1 DEF RunRecord
<1> QED BY <1>1, <1>2, <1>3, <1>4 DEF Setting

\* A run that goes on keeps its artifact and its token.
LEMMA RunMoves ==
    ASSUME RunsInv, NEW r \in Runs, NEW u \in RunRecord,
           run[r].pc \notin {"idle", "done"},
           u.art = run[r].art, u.cancelled = run[r].cancelled, u.pc # "idle",
           u.pc = "written" => u.wrote # "no",
           u.goal = "completed" => u.wrote # "no",
           run' = [run EXCEPT ![r] = u],
           UNCHANGED <<who, editor, registry, cancel, crashed>>
    PROVE  RunsInv'
<1>1. /\ run' \in [Runs -> RunRecord] /\ run'[r] = u
      /\ \A x \in Runs : x # r => run'[x] = run[x]
  BY DEF RunsInv, WorkIsTyped
<1>2. WorkIsTyped'
  BY <1>1 DEF RunsInv, WorkIsTyped
<1>3. UncancelledIsRegistered'
  BY <1>1 DEF RunsInv, UncancelledIsRegistered
<1>4. CompletedIsWritten'
  BY <1>1 DEF RunsInv, CompletedIsWritten
<1>5. \A x \in Runs : run'[x].pc = "written" => run'[x].wrote # "no"
  BY <1>1 DEF RunsInv
<1> QED BY <1>2, <1>3, <1>4, <1>5 DEF RunsInv

LEMMA SameRuns ==
    ASSUME RunsInv, UNCHANGED <<who, editor, run, registry, cancel, crashed>>
    PROVE  RunsInv'
BY DEF RunsInv, WorkIsTyped, UncancelledIsRegistered, CompletedIsWritten

LEMMA StartRunKeeps ==
    ASSUME RunsInv, NEW r \in Runs, NEW a \in Artifacts, StartRun(r, a)
    PROVE  RunsInv'
<1> DEFINE u == [IdleRun EXCEPT !.pc = "starting", !.art = a, !.todo = StatusKeys]
<1>1. /\ u \in RunRecord /\ u.pc = "starting" /\ u.art = a /\ u.goal = "running"
  BY TodoFacts DEF IdleRun, RunRecord, Goals
<1>2. /\ run' = [run EXCEPT ![r] = u] /\ registry' = [registry EXCEPT ![a] = r]
      /\ registry[a] = None
      /\ UNCHANGED <<who, editor, cancel, crashed>>
  BY DEF StartRun
<1> HIDE DEF u
<1>3. /\ run' \in [Runs -> RunRecord] /\ run'[r] = u
      /\ \A x \in Runs : x # r => run'[x] = run[x]
  BY <1>1, <1>2 DEF RunsInv, WorkIsTyped
<1>4. /\ registry' \in [Artifacts -> Runs \cup {None}] /\ registry'[a] = r
      /\ \A b \in Artifacts : b # a => registry'[b] = registry[b]
  BY <1>2 DEF RunsInv, WorkIsTyped
<1>5. WorkIsTyped'
  BY <1>1, <1>2, <1>3, <1>4 DEF RunsInv, WorkIsTyped
<1>6. UncancelledIsRegistered'
  BY <1>1, <1>2, <1>3, <1>4, NobodyIsNone DEF RunsInv, WorkIsTyped, UncancelledIsRegistered
<1>7. CompletedIsWritten'
  BY <1>1, <1>3 DEF RunsInv, CompletedIsWritten
<1>8. \A x \in Runs : run'[x].pc = "written" => run'[x].wrote # "no"
  BY <1>1, <1>3 DEF RunsInv
<1> QED BY <1>5, <1>6, <1>7, <1>8 DEF RunsInv

LEMMA LeavesKeeps ==
    ASSUME RunsInv, NEW r \in Runs, Leaves(r)
    PROVE  RunsInv'
<1> DEFINE u == [run[r] EXCEPT !.pc = "done"]
           a == run[r].art
<1>1. run[r] \in RunRecord /\ run[r].pc = "leaving" /\ a \in Artifacts
  BY DEF RunsInv, WorkIsTyped, Leaves
<1>2. /\ u \in RunRecord /\ u.pc = "done" /\ u.art = a /\ u.goal = run[r].goal
      /\ u.wrote = run[r].wrote
  BY <1>1 DEF RunRecord
<1>3. /\ run' = [run EXCEPT ![r] = u]
      /\ registry' = [registry EXCEPT ![a] = IF @ = r THEN None ELSE @]
      /\ UNCHANGED <<who, editor, cancel, crashed>>
  BY DEF Leaves
<1> HIDE DEF u, a
<1>4. /\ run' \in [Runs -> RunRecord] /\ run'[r] = u
      /\ \A x \in Runs : x # r => run'[x] = run[x]
  BY <1>2, <1>3 DEF RunsInv, WorkIsTyped
<1>5. /\ registry' \in [Artifacts -> Runs \cup {None}]
      /\ \A b \in Artifacts : registry[b] # r => registry'[b] = registry[b]
  BY <1>1, <1>3 DEF RunsInv, WorkIsTyped
<1>6. WorkIsTyped'
  BY <1>1, <1>2, <1>3, <1>4, <1>5 DEF RunsInv, WorkIsTyped
<1>7. UncancelledIsRegistered'
  BY <1>2, <1>4, <1>5 DEF RunsInv, WorkIsTyped, UncancelledIsRegistered
<1>8. CompletedIsWritten'
  BY <1>2, <1>4 DEF RunsInv, CompletedIsWritten
<1>9. \A x \in Runs : run'[x].pc = "written" => run'[x].wrote # "no"
  BY <1>2, <1>4 DEF RunsInv
<1> QED BY <1>6, <1>7, <1>8, <1>9 DEF RunsInv

\* The cancel command takes the registration and cancels the run it was.
LEMMA CancelRunKeeps ==
    ASSUME RunsInv, NEW c \in Cancels, NEW a \in Artifacts, CancelRun(c, a)
    PROVE  RunsInv'
<1> DEFINE n == [pc |-> "setting", art |-> a, todo |-> StatusKeys]
<1>1. n \in CancelRecord /\ n.art = a
  BY TodoFacts DEF CancelRecord
<1>2. /\ cancel' = [cancel EXCEPT ![c] = n]
      /\ registry' = [registry EXCEPT ![a] = None]
      /\ run' = [r \in Runs |-> IF registry[a] = r
                                THEN [run[r] EXCEPT !.cancelled = TRUE] ELSE run[r]]
      /\ UNCHANGED <<who, editor, crashed>>
  BY DEF CancelRun
<1> HIDE DEF n
<1>3. ASSUME NEW r \in Runs
      PROVE  /\ run'[r] \in RunRecord
             /\ run'[r].pc = run[r].pc /\ run'[r].art = run[r].art
             /\ run'[r].goal = run[r].goal /\ run'[r].wrote = run[r].wrote
             /\ ~run'[r].cancelled => ~run[r].cancelled /\ registry[a] # r
  <2>1. run[r] \in RunRecord
    BY DEF RunsInv, WorkIsTyped
  <2>2. CASE registry[a] = r
    <3>1. run'[r] = [run[r] EXCEPT !.cancelled = TRUE]
      BY <1>2, <2>2
    <3> QED BY <2>1, <3>1 DEF RunRecord
  <2>3. CASE registry[a] # r
    BY <1>2, <2>1, <2>3
  <2> QED BY <2>2, <2>3
<1>4. run' \in [Runs -> RunRecord]
  BY <1>2, <1>3
<1>5. /\ registry' \in [Artifacts -> Runs \cup {None}] /\ registry'[a] = None
      /\ \A b \in Artifacts : b # a => registry'[b] = registry[b]
  BY <1>2 DEF RunsInv, WorkIsTyped
<1>6. /\ cancel' \in [Cancels -> CancelRecord] /\ cancel'[c] = n
      /\ \A x \in Cancels : x # c => cancel'[x] = cancel[x]
  BY <1>1, <1>2 DEF RunsInv, WorkIsTyped
<1>7. WorkIsTyped'
  BY <1>1, <1>2, <1>3, <1>4, <1>5, <1>6 DEF RunsInv, WorkIsTyped
<1>8. UncancelledIsRegistered'
  BY <1>3, <1>5 DEF RunsInv, WorkIsTyped, UncancelledIsRegistered
<1>9. CompletedIsWritten'
  BY <1>3 DEF RunsInv, CompletedIsWritten
<1>10. \A x \in Runs : run'[x].pc = "written" => run'[x].wrote # "no"
  BY <1>3 DEF RunsInv
<1> QED BY <1>7, <1>8, <1>9, <1>10 DEF RunsInv

LEMMA EditorMoves ==
    ASSUME RunsInv, NEW e \in Editors, NEW u \in EditRecord, editor' = [editor EXCEPT ![e] = u],
           UNCHANGED <<who, run, registry, cancel, crashed>>
    PROVE  RunsInv'
<1>1. WorkIsTyped'
  BY DEF RunsInv, WorkIsTyped
<1> QED BY <1>1 DEF RunsInv, UncancelledIsRegistered, CompletedIsWritten

LEMMA CancelMoves ==
    ASSUME RunsInv, NEW c \in Cancels, NEW u \in CancelRecord, u.art \in Artifacts,
           cancel' = [cancel EXCEPT ![c] = u],
           UNCHANGED <<who, editor, run, registry, crashed>>
    PROVE  RunsInv'
<1>1. WorkIsTyped'
  BY DEF RunsInv, WorkIsTyped
<1> QED BY <1>1 DEF RunsInv, UncancelledIsRegistered, CompletedIsWritten

LEMMA CrashedRuns ==
    ASSUME RunsInv, Crash
    PROVE  RunsInv'
<1>1. ASSUME NEW r \in Runs
      PROVE  /\ run'[r] \in RunRecord
             /\ run'[r].pc \in {"idle", "done"}
             /\ run'[r].pc # "idle" => run'[r].art \in Artifacts
             /\ run'[r].goal = run[r].goal /\ run'[r].wrote = run[r].wrote
  <2>1. run[r] \in RunRecord /\ (run[r].pc # "idle" => run[r].art \in Artifacts)
    BY DEF RunsInv, WorkIsTyped
  <2>2. CASE run[r].pc = "idle"
    BY <2>1, <2>2 DEF Crash
  <2>3. CASE run[r].pc # "idle"
    <3>1. run'[r] = [run[r] EXCEPT !.pc = "done"]
      BY <2>3 DEF Crash
    <3> QED BY <2>1, <2>3, <3>1 DEF RunRecord
  <2> QED BY <2>2, <2>3
<1>2. ASSUME NEW e \in Editors
      PROVE  editor'[e] = [pc |-> "idle"] \/ editor'[e] \in EditRecord
  <2>1. editor[e] = [pc |-> "idle"] \/ editor[e] \in EditRecord
    BY DEF RunsInv, WorkIsTyped
  <2>2. CASE editor[e].pc = "idle"
    BY <2>1, <2>2 DEF Crash
  <2>3. CASE editor[e].pc # "idle"
    <3>1. editor'[e] = [editor[e] EXCEPT !.pc = "done"] /\ editor[e] \in EditRecord
      BY <2>1, <2>3 DEF Crash
    <3> QED BY <3>1 DEF EditRecord
  <2> QED BY <2>2, <2>3
<1>3. ASSUME NEW c \in Cancels
      PROVE  cancel'[c] \in CancelRecord /\ (cancel'[c].pc # "idle" => cancel'[c].art \in Artifacts)
  <2>1. cancel[c] \in CancelRecord /\ (cancel[c].pc # "idle" => cancel[c].art \in Artifacts)
    BY DEF RunsInv, WorkIsTyped
  <2>2. CASE cancel[c].pc = "idle"
    BY <2>1, <2>2 DEF Crash
  <2>3. CASE cancel[c].pc # "idle"
    <3>1. cancel'[c] = [cancel[c] EXCEPT !.pc = "done"]
      BY <2>3 DEF Crash
    <3> QED BY <2>1, <2>3, <3>1 DEF CancelRecord
  <2> QED BY <2>2, <2>3
<1>4. /\ run' \in [Runs -> RunRecord] /\ cancel' \in [Cancels -> CancelRecord]
      /\ DOMAIN editor' = Editors /\ registry' \in [Artifacts -> Runs \cup {None}]
      /\ crashed' = TRUE /\ who' = who
  BY <1>1, <1>3 DEF Crash
<1>5. WorkIsTyped'
  BY <1>1, <1>2, <1>3, <1>4 DEF RunsInv, WorkIsTyped
<1>6. UncancelledIsRegistered'
  BY <1>1 DEF UncancelledIsRegistered
<1>7. CompletedIsWritten'
  BY <1>1 DEF RunsInv, CompletedIsWritten
<1>8. \A x \in Runs : run'[x].pc = "written" => run'[x].wrote # "no"
  BY <1>1
<1> QED BY <1>5, <1>6, <1>7, <1>8 DEF RunsInv
-----------------------------------------------------------------------------
(* What the commands' steps do to the store and to the runs. *)

\* A row that was erased does not come back.
RowsGoOn ==
    \A a \in Artifacts : row[a].st # "new" =>
        /\ row'[a].st # "new"
        /\ InTable(a)' => InTable(a)

LEMMA RowsStay ==
    ASSUME row' = row
    PROVE  RowsGoOn
BY DEF RowsGoOn, InTable

LEMMA UpdateGoesOn ==
    ASSUME StoreInv, NEW w \in Writers, EndUpdate(w), Accept(w)
    PROVE  RowsGoOn
<1> DEFINE c == call[w]
           q == Written(row[c.art], c)
<1>1. c \in Call /\ c.st = "read" /\ c.art \in Artifacts
  BY DEF StoreInv, StoreIsTyped, EndUpdate, NoCall, Call
<1>2. /\ row[c.art] \in Row /\ row[c.art].st = "live"
      /\ c.view = View(row[c.art])
  BY <1>1 DEF StoreInv, StoreIsTyped, ViewsAreFresh, Accept, Matches
<1>3. q.st = row[c.art].st
  BY <1>1, <1>2, WrittenFacts
<1>4. row' = [row EXCEPT ![c.art] = q]
  BY DEF Accept
<1> HIDE DEF q
<1>5. \A a \in Artifacts : row'[a].st = row[a].st
  BY <1>1, <1>3, <1>4 DEF StoreInv, StoreIsTyped
<1> QED BY <1>5 DEF RowsGoOn, InTable

\* What one process does to its own call and its own record.
Alone(p) ==
    /\ \A w \in Writers : w # p => call'[w] = call[w]
    /\ \A r \in Runs : r # p => run'[r] = run[r]
    /\ \A c \in Cancels : c # p => cancel'[c] = cancel[c]

LEMMA CallsOf ==
    ASSUME CallsInv, NEW p, Alone(p),
           p \in Runs => (call'[p].st = "read" => MayCall(run'[p])),
           p \in Cancels => (call'[p].st = "read" => cancel'[p].pc = "setting"
                                                     /\ cancel'[p].todo # <<>>)
    PROVE  CallsInv'
<1>1. ASSUME NEW r \in Runs, call'[r].st = "read"
      PROVE  MayCall(run'[r])
  <2>1. CASE r = p
    BY <1>1, <2>1
  <2>2. CASE r # p
    BY <1>1, <2>2, WritersAreUpdaters DEF CallsInv, Alone
  <2> QED BY <2>1, <2>2
<1>2. ASSUME NEW c \in Cancels, call'[c].st = "read"
      PROVE  cancel'[c].pc = "setting" /\ cancel'[c].todo # <<>>
  <2>1. CASE c = p
    BY <1>2, <2>1
  <2>2. CASE c # p
    BY <1>2, <2>2, WritersAreUpdaters DEF CallsInv, Alone
  <2> QED BY <2>1, <2>2
<1> QED BY <1>1, <1>2 DEF CallsInv, MayCall

\* The calls that a command may have between its read and its write.
LEMMA CallEnds ==
    ASSUME StoreInv, trash' = trash, NEW w \in Writers, EndUpdate(w),
           Accept(w) \/ Reject(w, Faulty)
    PROVE  /\ StoreInv' /\ RowsGoOn
           /\ call'[w].st = "none" /\ \A u \in Writers : u # w => call'[u] = call[u]
<1>0. call'[w].st = "none" /\ \A u \in Writers : u # w => call'[u] = call[u]
  BY DEF EndUpdate, StoreInv, StoreIsTyped, NoCall
<1>1. CASE Accept(w)
  BY <1>0, <1>1, AcceptStep, UpdateGoesOn
<1>2. CASE Reject(w, Faulty)
  <2>1. UNCHANGED <<row, accepted>>
    BY <1>2 DEF Reject
  <2> QED BY <1>0, <2>1, RejectStep, RowsStay
<1> QED BY <1>0, <1>1, <1>2

LEMMA CallBegins ==
    ASSUME StoreInv, trash' = trash, NEW w \in Writers, NEW a \in Artifacts,
           NEW f \in Fields, NEW v \in Values, ReadForUpdate(w, a, f, v)
    PROVE  StoreInv' /\ RowsGoOn /\ \A u \in Writers : u # w => call'[u] = call[u]
<1>1. row' = row /\ \A u \in Writers : u # w => call'[u] = call[u]
  BY DEF ReadForUpdate, StoreInv, StoreIsTyped
<1> QED BY <1>1, ReadStep, RowsStay

LEMMA StoreStays ==
    ASSUME StoreInv, UNCHANGED <<store, trash>>
    PROVE  StoreInv' /\ RowsGoOn /\ call' = call
<1>1. TrashKeeps
  BY SameTrash DEF StoreInv
<1>2. row' = row
  BY DEF store
<1>3. call' = call
  BY DEF store
<1> QED BY <1>1, <1>2, <1>3, UnchangedStore, RowsStay

LEMMA EditStep ==
    ASSUME StoreInv, RunsInv, CallsInv, NEW e \in Editors, Edit(e)
    PROVE  StoreInv' /\ RowsGoOn /\ RunsInv' /\ CallsInv'
<1>1. e \in Writers /\ e \in Values
  BY WritersAreUpdaters, ValuesAreWritten
<1>2. UNCHANGED <<who, run, registry, cancel, crashed, trash>>
  BY DEF Edit, BeginEdit, AiAnswers, EditReads, EditWrites
<1>3. editor[e].pc # "idle" => editor[e] \in EditRecord
  BY DEF RunsInv, WorkIsTyped
<1>4. ASSUME NEW s \in {"reading", "writing", "done"}, editor[e].pc # "idle",
             editor' = [editor EXCEPT ![e].pc = s]
      PROVE  RunsInv'
  <2> DEFINE u == [editor[e] EXCEPT !.pc = s]
  <2>1. u \in EditRecord /\ editor' = [editor EXCEPT ![e] = u]
    BY <1>3, <1>4 DEF EditRecord
  <2> HIDE DEF u
  <2> QED BY <1>2, <2>1, EditorMoves
<1>5. ASSUME NEW a \in Artifacts, NEW f \in EditFields, BeginEdit(e, a, f)
      PROVE  StoreInv' /\ RowsGoOn /\ RunsInv' /\ Alone(e)
  <2> DEFINE u == [pc |-> IF f \in {"pack", "emotion"} THEN "thinking" ELSE "reading",
                   art |-> a, field |-> f]
  <2>1. u \in EditRecord
    BY DEF EditRecord
  <2>2. editor' = [editor EXCEPT ![e] = u] /\ UNCHANGED store
    BY <1>5 DEF BeginEdit
  <2> HIDE DEF u
  <2>3. RunsInv'
    BY <1>2, <2>1, <2>2, EditorMoves
  <2> QED BY <1>2, <2>2, <2>3, StoreStays DEF Alone
<1>6. ASSUME NEW ok \in BOOLEAN, AiAnswers(e, ok)
      PROVE  StoreInv' /\ RowsGoOn /\ RunsInv' /\ Alone(e)
  <2>1. /\ editor[e].pc # "idle" /\ UNCHANGED store
        /\ \/ editor' = [editor EXCEPT ![e].pc = "reading"]
           \/ editor' = [editor EXCEPT ![e].pc = "done"]
    BY <1>6 DEF AiAnswers
  <2>2. RunsInv'
    BY <1>4, <2>1
  <2> QED BY <1>2, <2>1, <2>2, StoreStays DEF Alone
<1>7. ASSUME EditReads(e)
      PROVE  StoreInv' /\ RowsGoOn /\ RunsInv' /\ Alone(e)
  <2>1. /\ editor[e].pc # "idle"
        /\ \/ editor' = [editor EXCEPT ![e].pc = "writing"]
           \/ editor' = [editor EXCEPT ![e].pc = "done"]
    BY <1>7 DEF EditReads
  <2>2. RunsInv'
    BY <1>4, <2>1
  <2>3. editor[e].art \in Artifacts /\ editor[e].field \in Fields
    BY <1>3, <2>1, ConstantFacts DEF EditRecord, EditFields
  <2>4. UNCHANGED store \/ ReadForUpdate(e, editor[e].art, editor[e].field, e)
    BY <1>7 DEF EditReads
  <2> QED BY <1>1, <1>2, <2>2, <2>3, <2>4, StoreStays, CallBegins DEF Alone
<1>8. ASSUME EditWrites(e)
      PROVE  StoreInv' /\ RowsGoOn /\ RunsInv' /\ Alone(e)
  <2>1. editor[e].pc # "idle" /\ editor' = [editor EXCEPT ![e].pc = "done"]
    BY <1>8 DEF EditWrites
  <2>2. RunsInv'
    BY <1>4, <2>1
  <2>3. EndUpdate(e) /\ (Accept(e) \/ Reject(e, Faulty))
    BY <1>8 DEF EditWrites
  <2> QED BY <1>1, <1>2, <2>2, <2>3, CallEnds DEF Alone
<1>9. StoreInv' /\ RowsGoOn /\ RunsInv' /\ Alone(e)
  BY <1>5, <1>6, <1>7, <1>8 DEF Edit
<1>10. e \notin Runs /\ e \notin Cancels
  BY NamesAreDistinct
<1> QED BY <1>9, <1>10, CallsOf

\* The status entries of a run, written one update at a time.
LEMMA StatusStep ==
    ASSUME StoreInv, RunsInv, CallsInv, NEW r \in Runs, SetReads(r) \/ SetWrites(r) \/ SetEnds(r)
    PROVE  StoreInv' /\ RowsGoOn /\ RunsInv' /\ CallsInv'
<1> DEFINE t == run[r]
<1>1. r \in Writers
  BY WritersAreUpdaters
<1>2. UNCHANGED <<who, editor, registry, cancel, crashed, trash>>
  BY DEF SetReads, SetWrites, SetEnds
<1>0. \A x \in Runs : x # r => run'[x] = run[x]
  BY DEF SetReads, SetWrites, SetEnds, RunsInv, WorkIsTyped
<1>3. /\ t \in RunRecord /\ t.pc \in Setting /\ t.pc \notin {"idle", "done", "written"}
      /\ t.art \in Artifacts /\ (t.goal = "completed" => t.wrote # "no")
  BY DEF SetReads, SetWrites, SetEnds, RunsInv, WorkIsTyped, CompletedIsWritten, Setting
<1>4. t.goal \in Values
  BY <1>3, ValuesAreWritten DEF RunRecord, Goals
<1> HIDE DEF t
<1>5. ASSUME t.todo # <<>>, run' = [run EXCEPT ![r] = Advanced(t)]
      PROVE  RunsInv'
  <2> DEFINE u == Advanced(t)
  <2>1. /\ u \in RunRecord /\ u.pc = t.pc /\ u.goal = t.goal
        /\ u.art = t.art /\ u.cancelled = t.cancelled /\ u.wrote = t.wrote
    BY <1>3, <1>5, AdvancedFacts
  <2>2. run' = [run EXCEPT ![r] = u]
    BY <1>5
  <2> HIDE DEF u
  <2> QED BY <1>2, <1>3, <2>1, <2>2, RunMoves DEF t
<1>6. ASSUME NEW v \in RunRecord, v.pc = t.pc, v.goal = t.goal, v.art = t.art,
             v.cancelled = t.cancelled, v.wrote = t.wrote,
             NEW ok \in BOOLEAN, run' = [run EXCEPT ![r] = AfterStatus(v, ok)]
      PROVE  RunsInv'
  <2> DEFINE u == AfterStatus(v, ok)
  <2>1. /\ u \in RunRecord /\ u.pc \in {"spawned", "refused", "leaving", "reporting"}
        /\ u.goal \in {v.goal, "cancelled", "failed"}
        /\ u.art = v.art /\ u.cancelled = v.cancelled /\ u.wrote = v.wrote
    BY <1>3, <1>6, AfterStatusFacts
  <2>2. run' = [run EXCEPT ![r] = u]
    BY <1>6
  <2> HIDE DEF u
  <2>3. /\ u.art = run[r].art /\ u.cancelled = run[r].cancelled
        /\ u.goal = "completed" => u.wrote # "no"
    BY <1>3, <1>6, <2>1 DEF t
  <2> QED BY <1>2, <1>3, <2>1, <2>2, <2>3, RunMoves DEF t
<1>11. ASSUME \A u \in Writers : u # r => call'[u] = call[u],
              call'[r].st = "read" => MayCall(run'[r])
       PROVE  CallsInv'
  <2>1. Alone(r) /\ r \notin Cancels
    BY <1>0, <1>2, <1>11, NamesAreDistinct DEF Alone
  <2> QED BY <1>11, <2>1, CallsOf
<1>7. CASE SetReads(r)
  <2>1. t.todo # <<>>
    BY <1>7 DEF SetReads, t
  <2>2. CASE row[t.art].st = "live"
    <3>1. ReadForUpdate(r, t.art, Head(t.todo), t.goal) /\ run' = run
      BY <1>7, <2>2 DEF SetReads, t
    <3>2. Head(t.todo) \in Fields
      BY <1>3, <2>1, TodoFacts, ConstantFacts DEF RunRecord
    <3>3. RunsInv'
      BY <1>2, <3>1, SameRuns
    <3>4. StoreInv' /\ RowsGoOn /\ \A u \in Writers : u # r => call'[u] = call[u]
      BY <1>1, <1>2, <1>3, <1>4, <3>1, <3>2, CallBegins
    <3>5. MayCall(run'[r])
      BY <1>3, <2>1, <3>1 DEF MayCall, t
    <3> QED BY <1>11, <3>3, <3>4, <3>5
  <2>3. CASE row[t.art].st # "live"
    <3>1. run' = [run EXCEPT ![r] = Advanced(t)] /\ UNCHANGED store
      BY <1>7, <2>3 DEF SetReads, t
    <3>2. call[r].st # "read"
      BY <1>7 DEF SetReads
    <3>3. StoreInv' /\ RowsGoOn /\ call' = call
      BY <1>2, <3>1, StoreStays
    <3> QED BY <1>5, <1>11, <2>1, <3>1, <3>2, <3>3
  <2> QED BY <2>2, <2>3
<1>8. CASE SetWrites(r)
  <2>1. EndUpdate(r) /\ (Accept(r) \/ Reject(r, Faulty))
    BY <1>8 DEF SetWrites
  <2>2. /\ StoreInv' /\ RowsGoOn
        /\ call'[r].st = "none" /\ \A u \in Writers : u # r => call'[u] = call[u]
    BY <1>1, <1>2, <2>1, CallEnds
  <2>5. CallsInv' /\ t.todo # <<>>
    <3>1. MayCall(t) /\ t.pc # "writing"
      BY <1>3, <2>1 DEF CallsInv, EndUpdate, t, Setting
    <3> QED BY <1>11, <2>2, <3>1 DEF MayCall
  <2>3. CASE run' = [run EXCEPT ![r] = Advanced(t)]
    BY <1>5, <2>2, <2>3, <2>5
  <2>4. CASE run' = [run EXCEPT ![r] = AfterStatus([t EXCEPT !.todo = <<>>], FALSE)]
    <3> DEFINE v == [t EXCEPT !.todo = <<>>]
    <3>1. /\ v \in RunRecord /\ v.pc = t.pc /\ v.goal = t.goal /\ v.art = t.art
          /\ v.cancelled = t.cancelled /\ v.wrote = t.wrote
      BY <1>3, TodoFacts DEF RunRecord
    <3>2. run' = [run EXCEPT ![r] = AfterStatus(v, FALSE)]
      BY <2>4
    <3> HIDE DEF v
    <3> QED BY <1>6, <2>2, <2>5, <3>1, <3>2
  <2> QED BY <1>8, <2>3, <2>4 DEF SetWrites, t
<1>9. CASE SetEnds(r)
  <2>1. run' = [run EXCEPT ![r] = AfterStatus(t, TRUE)] /\ UNCHANGED store
    BY <1>9 DEF SetEnds, t
  <2>2. RunsInv'
    BY <1>3, <1>6, <2>1
  <2>3. call[r].st # "read"
    BY <1>9 DEF SetEnds
  <2>4. StoreInv' /\ RowsGoOn /\ call' = call
    BY <1>2, <2>1, StoreStays
  <2> QED BY <1>11, <2>2, <2>3, <2>4
<1> QED BY <1>7, <1>8, <1>9
LEMMA RunGoesOn ==
    ASSUME StoreInv, RunsInv, CallsInv, NEW r \in Runs, NEW u \in RunRecord,
           run[r].pc \notin {"idle", "done"}, ~MayCall(run[r]) \/ call[r].st = "none",
           u.art = run[r].art, u.cancelled = run[r].cancelled, u.pc # "idle",
           u.pc = "written" => u.wrote # "no",
           u.goal = "completed" => u.wrote # "no",
           run' = [run EXCEPT ![r] = u],
           UNCHANGED <<store, who, editor, registry, cancel, trash, crashed>>
    PROVE  StoreInv' /\ RowsGoOn /\ RunsInv' /\ CallsInv'
<1>1. RunsInv'
  BY RunMoves
<1>2. StoreInv' /\ RowsGoOn /\ call' = call
  BY StoreStays
<1>3. Alone(r) /\ r \notin Cancels
  BY <1>2, NamesAreDistinct DEF Alone, RunsInv, WorkIsTyped
<1>4. call'[r].st # "read"
  BY <1>2 DEF CallsInv
<1> QED BY <1>1, <1>2, <1>3, <1>4, CallsOf

LEMMA ProgramStep ==
    ASSUME StoreInv, RunsInv, CallsInv, NEW r \in Runs,
           LoadSource(r) \/ Diarizes(r) \/ ChecksToken(r) \/ ChecksTokenAgain(r)
    PROVE  StoreInv' /\ RowsGoOn /\ RunsInv' /\ CallsInv'
<1> DEFINE t == run[r]
<1>1. /\ t \in RunRecord /\ t.pc \in {"spawned", "diarizing", "turns", "written"}
      /\ (t.goal = "completed" => t.wrote # "no") /\ (t.pc = "written" => t.wrote # "no")
  BY DEF LoadSource, Diarizes, ChecksToken, ChecksTokenAgain, RunsInv, WorkIsTyped,
         CompletedIsWritten
<1>2. UNCHANGED <<store, who, editor, registry, cancel, trash, crashed>>
  BY DEF LoadSource, Diarizes, ChecksToken, ChecksTokenAgain
<1>3. \A u \in RunRecord :
        /\ u.art = t.art /\ u.cancelled = t.cancelled
        /\ u.pc \notin {"idle", "written"} /\ (u.goal = "completed" => u.wrote # "no")
        /\ run' = [run EXCEPT ![r] = u]
        => StoreInv' /\ RowsGoOn /\ RunsInv' /\ CallsInv'
  <2>1. ~MayCall(t)
    BY <1>1 DEF MayCall, Setting
  <2> QED BY <1>1, <1>2, <2>1, RunGoesOn
<1>4. ASSUME NEW pc \in {"diarizing", "turns", "writing"}, run' = [run EXCEPT ![r].pc = pc]
      PROVE  StoreInv' /\ RowsGoOn /\ RunsInv' /\ CallsInv'
  <2> DEFINE u == [t EXCEPT !.pc = pc]
  <2>1. /\ u \in RunRecord /\ u.art = t.art /\ u.cancelled = t.cancelled
        /\ u.pc = pc /\ u.goal = t.goal /\ u.wrote = t.wrote
    BY <1>1 DEF RunRecord
  <2>2. run' = [run EXCEPT ![r] = u]
    BY <1>4
  <2> HIDE DEF u, t
  <2> QED BY <1>1, <1>3, <2>1, <2>2
<1>5. ASSUME run' = [run EXCEPT ![r] = Reporting(t)]
      PROVE  StoreInv' /\ RowsGoOn /\ RunsInv' /\ CallsInv'
  <2> DEFINE u == Reporting(t)
  <2>1. /\ u \in RunRecord /\ u.art = t.art /\ u.cancelled = t.cancelled
        /\ u.pc = "reporting" /\ u.goal \in {"cancelled", "failed"}
    BY <1>1, ReportingFacts
  <2> HIDE DEF u, t
  <2> QED BY <1>3, <1>5, <2>1 DEF u
<1>6. CASE LoadSource(r) \/ Diarizes(r) \/ ChecksToken(r)
  <2>1. \/ \E pc \in {"diarizing", "turns", "writing"} : run' = [run EXCEPT ![r].pc = pc]
        \/ run' = [run EXCEPT ![r] = Reporting(t)]
    BY <1>6 DEF LoadSource, Diarizes, ChecksToken
  <2> HIDE DEF t
  <2> QED BY <1>4, <1>5, <2>1
<1>7. CASE ChecksTokenAgain(r)
  <2> DEFINE u == [t EXCEPT !.pc = "completing", !.goal = "completed", !.todo = StatusKeys]
  <2>1. /\ u \in RunRecord /\ u.art = t.art /\ u.cancelled = t.cancelled
        /\ u.pc = "completing" /\ u.wrote = t.wrote
    BY <1>1, TodoFacts DEF RunRecord, Goals
  <2>2. t.pc = "written"
    BY <1>7 DEF ChecksTokenAgain
  <2>3. run' = [run EXCEPT ![r] = u] \/ run' = [run EXCEPT ![r] = Reporting(t)]
    BY <1>7 DEF ChecksTokenAgain
  <2> HIDE DEF u, t
  <2> QED BY <1>1, <1>3, <1>5, <2>1, <2>2, <2>3
<1> QED BY <1>6, <1>7

\* The timeline with its speakers.
LEMMA TimelineStep ==
    ASSUME StoreInv, RunsInv, CallsInv, NEW r \in Runs, TimelineReads(r) \/ TimelineWrites(r)
    PROVE  StoreInv' /\ RowsGoOn /\ RunsInv' /\ CallsInv'
<1> DEFINE t == run[r]
<1>1. /\ r \in Writers /\ r \in Values /\ r \notin Cancels /\ "timeline" \in Fields
      /\ t \in RunRecord /\ t.pc = "writing" /\ t.art \in Artifacts
      /\ (t.goal = "completed" => t.wrote # "no")
  BY WritersAreUpdaters, ValuesAreWritten, NamesAreDistinct, ConstantFacts
     DEF TimelineReads, TimelineWrites, RunsInv, WorkIsTyped, CompletedIsWritten
<1>2. UNCHANGED <<who, editor, registry, cancel, trash, crashed>>
  BY DEF TimelineReads, TimelineWrites
<1>3. \A x \in Runs : x # r => run'[x] = run[x]
  BY DEF TimelineReads, TimelineWrites, RunsInv, WorkIsTyped
<1>4. CASE TimelineReads(r) /\ row[t.art].st = "live"
  <2>1. ReadForUpdate(r, t.art, "timeline", r) /\ run' = run
    BY <1>4 DEF TimelineReads
  <2>2. StoreInv' /\ RowsGoOn /\ \A u \in Writers : u # r => call'[u] = call[u]
    BY <1>1, <1>2, <2>1, CallBegins
  <2>3. RunsInv'
    BY <1>2, <2>1, SameRuns
  <2>4. Alone(r) /\ MayCall(run'[r])
    BY <1>1, <1>2, <2>1, <2>2 DEF Alone, MayCall
  <2> QED BY <1>1, <2>2, <2>3, <2>4, CallsOf
<1>5. CASE TimelineReads(r) /\ row[t.art].st # "live"
  <2> DEFINE u == [t EXCEPT !.pc = "written", !.wrote = "missed"]
  <2>1. /\ run' = [run EXCEPT ![r] = u] /\ UNCHANGED store /\ call[r].st = "none"
    BY <1>5 DEF TimelineReads, RunsInv, WorkIsTyped
  <2>2. /\ u \in RunRecord /\ u.art = t.art /\ u.cancelled = t.cancelled
        /\ u.pc = "written" /\ u.wrote = "missed"
    BY <1>1 DEF RunRecord
  <2> HIDE DEF u
  <2> QED BY <1>1, <1>2, <2>1, <2>2, RunGoesOn
<1>6. CASE TimelineWrites(r)
  <2>1. EndUpdate(r) /\ (Accept(r) \/ Reject(r, Faulty))
    BY <1>6 DEF TimelineWrites
  <2>2. /\ StoreInv' /\ RowsGoOn
        /\ call'[r].st = "none" /\ \A u \in Writers : u # r => call'[u] = call[u]
    BY <1>1, <1>2, <2>1, CallEnds
  <2>3. CallsInv'
    <3>1. Alone(r)
      BY <1>2, <1>3, <2>2 DEF Alone
    <3> QED BY <1>1, <2>2, <3>1, CallsOf
  <2>4. PICK u \in {[t EXCEPT !.pc = "written", !.wrote = "yes"], Reporting(t)} :
          run' = [run EXCEPT ![r] = u]
    BY <1>6 DEF TimelineWrites, RunsInv, WorkIsTyped
  <2>5. /\ u \in RunRecord /\ u.art = t.art /\ u.cancelled = t.cancelled /\ u.pc # "idle"
        /\ u.pc = "written" => u.wrote # "no"
        /\ u.goal = "completed" => u.wrote # "no"
    <3>1. CASE u = Reporting(t)
      BY <1>1, <3>1, ReportingFacts
    <3>2. CASE u = [t EXCEPT !.pc = "written", !.wrote = "yes"]
      BY <1>1, <3>2 DEF RunRecord
    <3> QED BY <2>4, <3>1, <3>2
  <2>6. RunsInv'
    BY <1>1, <1>2, <2>4, <2>5, RunMoves
  <2> QED BY <2>2, <2>3, <2>6
<1> QED BY <1>4, <1>5, <1>6

LEMMA DiarizationStep ==
    ASSUME StoreInv, RunsInv, CallsInv, NEW r \in Runs, Diarization(r)
    PROVE  StoreInv' /\ RowsGoOn /\ RunsInv' /\ CallsInv'
<1>1. ASSUME NEW a \in Artifacts, StartRun(r, a)
      PROVE  StoreInv' /\ RowsGoOn /\ RunsInv' /\ CallsInv'
  <2>1. RunsInv'
    BY <1>1, StartRunKeeps
  <2>2. StoreInv' /\ RowsGoOn /\ call' = call
    BY <1>1, StoreStays DEF StartRun
  <2>3. Alone(r) /\ r \notin Cancels
    BY <1>1, <2>2, NamesAreDistinct DEF Alone, StartRun, RunsInv, WorkIsTyped
  <2>4. call'[r].st # "read"
    BY <1>1, <2>2 DEF CallsInv, MayCall, StartRun, Setting
  <2> QED BY <2>1, <2>2, <2>3, <2>4, CallsOf
<1>2. ASSUME Leaves(r)
      PROVE  StoreInv' /\ RowsGoOn /\ RunsInv' /\ CallsInv'
  <2>1. RunsInv'
    BY <1>2, LeavesKeeps
  <2>2. StoreInv' /\ RowsGoOn /\ call' = call
    BY <1>2, StoreStays DEF Leaves
  <2>3. Alone(r) /\ r \notin Cancels
    BY <1>2, <2>2, NamesAreDistinct DEF Alone, Leaves, RunsInv, WorkIsTyped
  <2>4. call'[r].st # "read"
    BY <1>2, <2>2 DEF CallsInv, MayCall, Leaves, Setting
  <2> QED BY <2>1, <2>2, <2>3, <2>4, CallsOf
<1> QED BY <1>1, <1>2, StatusStep, ProgramStep, TimelineStep DEF Diarization

LEMMA CancelStep ==
    ASSUME StoreInv, RunsInv, CallsInv, NEW c \in Cancels, Cancelling(c)
    PROVE  StoreInv' /\ RowsGoOn /\ RunsInv' /\ CallsInv'
<1>1. ASSUME NEW a \in Artifacts, CancelRun(c, a)
      PROVE  StoreInv' /\ RowsGoOn /\ RunsInv' /\ CallsInv'
  <2>1. RunsInv'
    BY <1>1, CancelRunKeeps
  <2>2. StoreInv' /\ RowsGoOn /\ call' = call
    BY <1>1, StoreStays DEF CancelRun
  <2>3. ASSUME NEW r \in Runs, call'[r].st = "read"
        PROVE  MayCall(run'[r])
    <3>1. run[r] \in RunRecord /\ MayCall(run[r])
      BY <2>2, <2>3 DEF RunsInv, WorkIsTyped, CallsInv
    <3>2. run'[r] = run[r] \/ run'[r] = [run[r] EXCEPT !.cancelled = TRUE]
      BY <1>1 DEF CancelRun
    <3>3. run'[r].pc = run[r].pc /\ run'[r].todo = run[r].todo
      BY <3>1, <3>2 DEF RunRecord
    <3> QED BY <3>1, <3>3 DEF MayCall
  <2>4. \A x \in Cancels : call'[x].st = "read" => cancel'[x] = cancel[x]
    BY <1>1, <2>2 DEF CallsInv, CancelRun, RunsInv, WorkIsTyped
  <2>5. CallsInv'
    BY <2>2, <2>3, <2>4 DEF CallsInv, MayCall
  <2> QED BY <2>1, <2>2, <2>5
<1>2. ASSUME CancelReads(c) \/ CancelWrites(c) \/ CancelEnds(c)
      PROVE  StoreInv' /\ RowsGoOn /\ RunsInv' /\ CallsInv'
  <2> DEFINE t == cancel[c]
  <2>1. /\ c \in Writers /\ c \notin Runs /\ "cancelled" \in Values
        /\ t \in CancelRecord /\ t.pc = "setting" /\ t.art \in Artifacts
    BY <1>2, WritersAreUpdaters, ValuesAreWritten, NamesAreDistinct
       DEF CancelReads, CancelWrites, CancelEnds, RunsInv, WorkIsTyped
  <2>2. UNCHANGED <<who, editor, run, registry, trash, crashed>>
    BY <1>2 DEF CancelReads, CancelWrites, CancelEnds
  <2>3. \A x \in Cancels : x # c => cancel'[x] = cancel[x]
    BY <1>2 DEF CancelReads, CancelWrites, CancelEnds, RunsInv, WorkIsTyped
  <2>4. ASSUME NEW u \in CancelRecord, u.art = t.art, cancel' = [cancel EXCEPT ![c] = u],
               \A w \in Writers : w # c => call'[w] = call[w], call'[c].st # "read"
        PROVE  RunsInv' /\ CallsInv'
    <3>1. RunsInv'
      BY <2>1, <2>2, <2>4, CancelMoves
    <3>2. Alone(c)
      BY <2>2, <2>3, <2>4 DEF Alone
    <3> QED BY <2>1, <2>4, <3>1, <3>2, CallsOf
  <2>5. t.todo # <<>> => /\ Advanced(t) \in CancelRecord /\ Advanced(t).art = t.art
                         /\ Head(t.todo) \in Fields
    BY <2>1, TodoFacts, ConstantFacts DEF Advanced, CancelRecord
  <2>6. CASE CancelReads(c) /\ row[t.art].st = "live"
    <3>1. ReadForUpdate(c, t.art, Head(t.todo), "cancelled") /\ cancel' = cancel /\ t.todo # <<>>
      BY <2>6 DEF CancelReads
    <3>2. StoreInv' /\ RowsGoOn /\ \A u \in Writers : u # c => call'[u] = call[u]
      BY <2>1, <2>2, <2>5, <3>1, CallBegins
    <3>3. RunsInv'
      BY <2>2, <3>1, SameRuns
    <3>4. Alone(c)
      BY <2>2, <3>1, <3>2 DEF Alone
    <3> QED BY <2>1, <3>1, <3>2, <3>3, <3>4, CallsOf
  <2>7. CASE CancelReads(c) /\ row[t.art].st # "live"
    <3>1. /\ cancel' = [cancel EXCEPT ![c] = Advanced(t)] /\ UNCHANGED store
          /\ t.todo # <<>> /\ call[c].st = "none"
      BY <2>7 DEF CancelReads
    <3>2. StoreInv' /\ RowsGoOn /\ call' = call
      BY <2>2, <3>1, StoreStays
    <3>3. Advanced(t) \in CancelRecord /\ Advanced(t).art = t.art
      BY <2>5, <3>1
    <3> QED BY <2>4, <3>1, <3>2, <3>3
  <2>8. CASE CancelWrites(c)
    <3>1. EndUpdate(c) /\ (Accept(c) \/ Reject(c, Faulty))
      BY <2>8 DEF CancelWrites
    <3>2. /\ StoreInv' /\ RowsGoOn
          /\ call'[c].st = "none" /\ \A u \in Writers : u # c => call'[u] = call[u]
      BY <2>1, <2>2, <3>1, CallEnds
    <3>3. t.todo # <<>>
      BY <3>1 DEF CallsInv, EndUpdate
    <3> DEFINE n == [t EXCEPT !.pc = "done", !.todo = <<>>]
    <3>4. n \in CancelRecord /\ n.art = t.art
      BY <2>1, TodoFacts DEF CancelRecord
    <3>5. cancel' = [cancel EXCEPT ![c] = Advanced(t)] \/ cancel' = [cancel EXCEPT ![c] = n]
      BY <2>8 DEF CancelWrites, RunsInv, WorkIsTyped
    <3> HIDE DEF n
    <3> QED BY <2>4, <2>5, <3>2, <3>3, <3>4, <3>5
  <2>9. CASE CancelEnds(c)
    <3> DEFINE n == [t EXCEPT !.pc = "done"]
    <3>1. n \in CancelRecord /\ n.art = t.art
      BY <2>1 DEF CancelRecord
    <3>2. cancel' = [cancel EXCEPT ![c] = n] /\ UNCHANGED store /\ call[c].st = "none"
      BY <2>9 DEF CancelEnds, RunsInv, WorkIsTyped
    <3>3. StoreInv' /\ RowsGoOn /\ call' = call
      BY <2>2, <3>2, StoreStays
    <3> HIDE DEF n
    <3> QED BY <2>4, <3>1, <3>2, <3>3
  <2> QED BY <1>2, <2>6, <2>7, <2>8, <2>9
<1> QED BY <1>1, <1>2 DEF Cancelling
-----------------------------------------------------------------------------
(* The chats. *)

\* A turn after a step: it works under its artifact's lock and, once it has
\* asked, its question is the last message.
Stands(t) ==
    /\ turn[t].pc # "idle" => turn[t].art \in Artifacts
    /\ turn[t].pc \in {"open", "asking"} => lock[turn[t].art] = t
    /\ turn[t].pc = "asking" =>
          LET a == turn[t].art  n == Len(messages[a]) IN
          /\ row[a].st # "new"
          /\ InTable(a) => /\ n > 0
                           /\ messages[a][n].role = "user"
                           /\ messages[a][n].turn = t

\* The messages of an artifact, every answer right after its question.
Paired(ms) ==
    \A i \in DOMAIN ms : ms[i].role = "assistant" =>
        /\ i > 1
        /\ ms[i - 1].role = "user"
        /\ ms[i - 1].turn = ms[i].turn

LEMMA ChatParts ==
    ChatInv <=> /\ lock \in [Artifacts -> Turns \cup {None}]
                /\ DOMAIN turn = Turns
                /\ \A t \in Turns : TurnOf(turn[t])
                /\ messages \in [Artifacts -> Seq(Message)]
                /\ \A t \in Turns : Stands(t)
                /\ \A a \in Artifacts : Paired(messages[a])
BY DEF ChatInv, Stands, Paired, AnswerFollowsQuestion

LEMMA AppendedFacts ==
    ASSUME NEW ms \in Seq(Message), NEW m \in Message, Paired(ms),
           m.role = "assistant" =>
              Len(ms) > 0 /\ ms[Len(ms)].role = "user" /\ ms[Len(ms)].turn = m.turn
    PROVE  /\ Append(ms, m) \in Seq(Message) /\ Paired(Append(ms, m))
           /\ Len(Append(ms, m)) = Len(ms) + 1 /\ Append(ms, m)[Len(ms) + 1] = m
<1> DEFINE s == Append(ms, m)
<1>1. /\ s \in Seq(Message) /\ Len(s) = Len(ms) + 1 /\ s[Len(ms) + 1] = m
      /\ \A i \in 1..Len(ms) : s[i] = ms[i]
      /\ DOMAIN s = 1..Len(ms) + 1 /\ DOMAIN ms = 1..Len(ms) /\ Len(ms) \in Nat
  BY AppendProperties, LenProperties
<1> HIDE DEF s
<1>2. ASSUME NEW i \in DOMAIN s, s[i].role = "assistant"
      PROVE  i > 1 /\ s[i - 1].role = "user" /\ s[i - 1].turn = s[i].turn
  <2>1. CASE i \in 1..Len(ms)
    <3>1. /\ i > 1 /\ ms[i - 1].role = "user" /\ ms[i - 1].turn = ms[i].turn
      BY <1>1, <1>2, <2>1 DEF Paired
    <3>2. i - 1 \in 1..Len(ms)
      BY <1>1, <2>1, <3>1
    <3> QED BY <1>1, <2>1, <3>1, <3>2
  <2>2. CASE i = Len(ms) + 1
    <3>1. /\ Len(ms) > 0 /\ ms[Len(ms)].role = "user" /\ ms[Len(ms)].turn = m.turn
      BY <1>1, <1>2, <2>2
    <3>2. i - 1 = Len(ms) /\ Len(ms) \in 1..Len(ms)
      BY <1>1, <2>2, <3>1
    <3> QED BY <1>1, <2>2, <3>1, <3>2
  <2> QED BY <1>1, <2>1, <2>2
<1>3. Paired(s)
  BY <1>2 DEF Paired
<1> QED BY <1>1, <1>3 DEF s

\* What happens to the rows leaves the chats right: messages go only with
\* their artifact.
LEMMA ChatGoesOn ==
    ASSUME ChatInv, RowsGoOn, UNCHANGED <<lock, turn>>, messages' = messages \/ Cascade
    PROVE  ChatInv'
<1>1. messages' \in [Artifacts -> Seq(Message)]
  <2>1. <<>> \in Seq(Message)
    BY EmptySeq
  <2> QED BY <2>1, ChatParts DEF Cascade
<1>2. ASSUME NEW a \in Artifacts
      PROVE  messages'[a] = messages[a] \/ (messages'[a] = <<>> /\ ~InTable(a)')
  BY DEF Cascade, InTable
<1>3. ASSUME NEW t \in Turns
      PROVE  Stands(t)'
  <2>1. Stands(t)
    BY ChatParts
  <2> QED BY <1>2, <2>1 DEF Stands, RowsGoOn
<1>4. ASSUME NEW a \in Artifacts
      PROVE  Paired(messages'[a])
  BY <1>2, ChatParts DEF Paired
<1>5. /\ lock' \in [Artifacts -> Turns \cup {None}] /\ DOMAIN turn' = Turns
      /\ \A t \in Turns : TurnOf(turn'[t])
  BY ChatParts
<1> QED BY <1>1, <1>3, <1>4, <1>5 DEF ChatInv, Stands, Paired, AnswerFollowsQuestion

\* A turn that changes only its own record, its artifact's lock and its
\* artifact's messages, the latter two only while it may hold the lock.
TurnMove(t, u, a, holder, ms) ==
    /\ TurnOf(u) /\ holder \in Turns \cup {None} /\ ms \in Seq(Message) /\ Paired(ms)
    /\ turn' = [turn EXCEPT ![t] = u]
    /\ lock' = [lock EXCEPT ![a] = holder]
    /\ messages' = [messages EXCEPT ![a] = ms]
    /\ lock[a] \in {None, t} \/ (holder = lock[a] /\ ms = messages[a])
    /\ u.pc # "idle" => u.art = a
    /\ u.pc \in {"open", "asking"} => holder = t
    /\ u.pc = "asking" => /\ row[a].st # "new"
                          /\ InTable(a) => /\ Len(ms) > 0
                                           /\ ms[Len(ms)].role = "user"
                                           /\ ms[Len(ms)].turn = t

LEMMA TurnMoves ==
    ASSUME ChatInv, row' = row, NEW t \in Turns, NEW a \in Artifacts, NEW u, NEW holder, NEW ms,
           TurnMove(t, u, a, holder, ms)
    PROVE  ChatInv'
<1> USE DEF TurnMove
<1>1. /\ lock \in [Artifacts -> Turns \cup {None}] /\ DOMAIN turn = Turns
      /\ messages \in [Artifacts -> Seq(Message)]
  BY ChatParts
<1>2. /\ lock' \in [Artifacts -> Turns \cup {None}] /\ lock'[a] = holder
      /\ \A b \in Artifacts : b # a => lock'[b] = lock[b]
  BY <1>1
<1>3. /\ DOMAIN turn' = Turns /\ turn'[t] = u
      /\ \A x \in Turns : x # t => turn'[x] = turn[x]
  BY <1>1
<1>4. /\ messages' \in [Artifacts -> Seq(Message)] /\ messages'[a] = ms
      /\ \A b \in Artifacts : b # a => messages'[b] = messages[b]
  BY <1>1
<1>5. \A x \in Turns : TurnOf(turn'[x])
  BY <1>3, ChatParts
<1>6. \A b \in Artifacts : Paired(messages'[b])
  BY <1>4, ChatParts
<1>7. ASSUME NEW x \in Turns
      PROVE  Stands(x)'
  <2>1. CASE x = t
    BY <1>2, <1>3, <1>4, <2>1 DEF Stands, InTable
  <2>2. CASE x # t
    <3>1. Stands(x) /\ turn'[x] = turn[x]
      BY <1>3, <2>2, ChatParts
    <3>2. CASE turn[x].pc \in {"open", "asking"} /\ turn[x].art = a
      <4>1. lock[a] = x /\ x # None
        BY <3>1, <3>2, NobodyIsNone DEF Stands
      <4>2. holder = lock[a] /\ ms = messages[a]
        BY <2>2, <4>1
      <4> QED BY <1>2, <1>4, <3>1, <3>2, <4>1, <4>2 DEF Stands, InTable
    <3>3. CASE turn[x].pc \in {"open", "asking"} /\ turn[x].art # a
      <4>1. turn[x].art \in Artifacts
        BY <3>1, <3>3 DEF Stands
      <4> QED BY <1>2, <1>4, <3>1, <3>3, <4>1 DEF Stands, InTable
    <3>4. CASE turn[x].pc \notin {"open", "asking"}
      BY <3>1, <3>4 DEF Stands
    <3> QED BY <3>2, <3>3, <3>4
  <2> QED BY <2>1, <2>2
<1> QED BY <1>2, <1>3, <1>4, <1>5, <1>6, <1>7
        DEF ChatInv, Stands, Paired, AnswerFollowsQuestion

LEMMA ChatStep ==
    ASSUME ChatInv, NEW t \in Turns, Chat(t)
    PROVE  ChatInv'
<1> DEFINE u == turn[t]
           a == turn[t].art
<1>1. /\ TurnOf(u) /\ Stands(t) /\ DOMAIN turn = Turns
      /\ lock \in [Artifacts -> Turns \cup {None}]
      /\ messages \in [Artifacts -> Seq(Message)]
      /\ \A b \in Artifacts : Paired(messages[b])
  BY ChatParts
<1>2. row' = row
  BY DEF Chat, BeginTurn, EnterTurn, Asks, Answers, store
<1>3. \A b \in Artifacts : /\ lock = [lock EXCEPT ![b] = lock[b]]
                           /\ messages = [messages EXCEPT ![b] = messages[b]]
  BY <1>1
<1>4. ASSUME NEW b \in Artifacts, BeginTurn(t, b)
      PROVE  ChatInv'
  <2> DEFINE v == [u EXCEPT !.pc = "waiting", !.art = b]
  <2>1. TurnOf(v) /\ v.pc = "waiting" /\ v.art = b
    BY <1>1 DEF TurnOf
  <2>2. turn' = [turn EXCEPT ![t] = v] /\ UNCHANGED <<lock, messages>>
    BY <1>4 DEF BeginTurn
  <2>3. /\ lock' = [lock EXCEPT ![b] = lock[b]]
        /\ messages' = [messages EXCEPT ![b] = messages[b]]
        /\ lock[b] \in Turns \cup {None} /\ messages[b] \in Seq(Message)
    BY <1>1, <1>3, <2>2
  <2> HIDE DEF v, u, a
  <2>4. TurnMove(t, v, b, lock[b], messages[b])
    BY <1>1, <2>1, <2>2, <2>3 DEF TurnMove
  <2> QED BY <1>2, <2>4, TurnMoves
<1>5. ASSUME EnterTurn(t)
      PROVE  ChatInv'
  <2>1. a \in Artifacts /\ lock[a] = None
    BY <1>1, <1>5 DEF EnterTurn, MayEnter, Stands
  <2>2. CASE row[a].st = "live"
    <3> DEFINE h == CompletedTurns(messages[a])
               v == [u EXCEPT !.pc = "open", !.history = h]
    <3>1. /\ turn' = [turn EXCEPT ![t].pc = "open", ![t].history = h]
          /\ lock' = [lock EXCEPT ![a] = t] /\ messages' = messages
      BY <1>5, <2>2 DEF EnterTurn
    <3> HIDE DEF h
    <3>2. TurnOf(v) /\ v.pc = "open" /\ v.art = a
      BY <1>1, <2>1 DEF TurnOf
    <3>3. turn' = [turn EXCEPT ![t] = v]
      BY <1>1, <3>1
    <3>4. /\ messages' = [messages EXCEPT ![a] = messages[a]]
          /\ messages[a] \in Seq(Message) /\ Paired(messages[a])
      BY <1>1, <1>3, <2>1, <3>1
    <3> HIDE DEF v, u, a
    <3>5. TurnMove(t, v, a, t, messages[a])
      BY <2>1, <3>1, <3>2, <3>3, <3>4 DEF TurnMove
    <3> QED BY <1>2, <2>1, <3>5, TurnMoves
  <2>3. CASE row[a].st # "live"
    <3> DEFINE v == [u EXCEPT !.pc = "done"]
    <3>1. /\ turn' = [turn EXCEPT ![t] = v] /\ UNCHANGED <<lock, messages>>
      BY <1>5, <2>3 DEF EnterTurn
    <3>2. TurnOf(v) /\ v.pc = "done" /\ v.art = a
      BY <1>1, <2>1 DEF TurnOf
    <3>3. /\ lock' = [lock EXCEPT ![a] = lock[a]]
          /\ messages' = [messages EXCEPT ![a] = messages[a]]
          /\ lock[a] \in Turns \cup {None}
          /\ messages[a] \in Seq(Message) /\ Paired(messages[a])
      BY <1>1, <1>3, <2>1, <3>1
    <3> HIDE DEF v, u, a
    <3>4. TurnMove(t, v, a, lock[a], messages[a])
      BY <2>1, <3>1, <3>2, <3>3 DEF TurnMove
    <3> QED BY <1>2, <2>1, <3>4, TurnMoves
  <2> QED BY <2>2, <2>3
<1>6. ASSUME NEW ms \in Seq(Message), Paired(ms), LeaveTurn(t, ms),
             u.pc \in {"open", "asking"}
      PROVE  ChatInv'
  <2> DEFINE v == [u EXCEPT !.pc = "done"]
  <2>1. a \in Artifacts /\ lock[a] = t
    BY <1>1, <1>6 DEF Stands
  <2>2. /\ turn' = [turn EXCEPT ![t] = v]
        /\ messages' = [messages EXCEPT ![a] = ms] /\ lock' = [lock EXCEPT ![a] = None]
    BY <1>6 DEF LeaveTurn
  <2>3. TurnOf(v) /\ v.pc = "done" /\ v.art = a
    BY <1>1, <2>1 DEF TurnOf
  <2> HIDE DEF v, u, a
  <2>4. TurnMove(t, v, a, None, ms)
    BY <1>6, <2>1, <2>2, <2>3 DEF TurnMove
  <2> QED BY <1>2, <2>1, <2>4, TurnMoves
<1>7. ASSUME Asks(t)
      PROVE  ChatInv'
  <2>1. /\ a \in Artifacts /\ lock[a] = t /\ u.pc = "open"
        /\ messages[a] \in Seq(Message) /\ Paired(messages[a])
    BY <1>1, <1>7 DEF Stands, Asks
  <2>2. ASSUME InTable(a),
               messages' = [messages EXCEPT ![a] = Appended(a, "user", "complete", t)],
               turn' = [turn EXCEPT ![t].pc = "asking"], UNCHANGED lock
        PROVE  ChatInv'
    <3> DEFINE m == [role |-> "user", status |-> "complete", turn |-> t]
               ms == Append(messages[a], m)
               v == [u EXCEPT !.pc = "asking"]
    <3>1. m \in Message /\ m.role = "user" /\ m.turn = t
      BY DEF Message
    <3>2. ms = Appended(a, "user", "complete", t)
      BY <2>2 DEF Appended
    <3> HIDE DEF m
    <3>3. /\ ms \in Seq(Message) /\ Paired(ms)
          /\ Len(ms) = Len(messages[a]) + 1 /\ ms[Len(messages[a]) + 1] = m
      BY <2>1, <3>1, AppendedFacts
    <3>4. Len(ms) > 0 /\ ms[Len(ms)].role = "user" /\ ms[Len(ms)].turn = t
      BY <2>1, <3>1, <3>3, LenProperties
    <3>5. TurnOf(v) /\ v.pc = "asking" /\ v.art = a
      BY <1>1, <2>1 DEF TurnOf
    <3>6. row[a].st # "new"
      BY <2>2 DEF InTable
    <3>7. turn' = [turn EXCEPT ![t] = v] /\ messages' = [messages EXCEPT ![a] = ms]
      BY <2>2, <3>2
    <3>8. lock' = [lock EXCEPT ![a] = t]
      BY <1>3, <2>1, <2>2
    <3> HIDE DEF ms, v, u, a
    <3>9. TurnMove(t, v, a, t, ms)
      BY <2>1, <3>3, <3>4, <3>5, <3>6, <3>7, <3>8 DEF TurnMove
    <3> QED BY <1>2, <2>1, <3>9, TurnMoves
  <2>3. ASSUME LeaveTurn(t, messages[a])
        PROVE  ChatInv'
    BY <1>6, <2>1, <2>3
  <2> QED BY <1>7, <2>2, <2>3 DEF Asks
<1>8. ASSUME Answers(t)
      PROVE  ChatInv'
  <2>1. /\ a \in Artifacts /\ u.pc = "asking"
        /\ messages[a] \in Seq(Message) /\ Paired(messages[a])
        /\ InTable(a) => /\ Len(messages[a]) > 0
                         /\ messages[a][Len(messages[a])].role = "user"
                         /\ messages[a][Len(messages[a])].turn = t
    BY <1>1, <1>8 DEF Stands, Answers
  <2>2. ASSUME NEW status \in {"complete", "error"},
               LeaveTurn(t, Appended(a, "assistant", status, t))
        PROVE  ChatInv'
    <3> DEFINE m == [role |-> "assistant", status |-> status, turn |-> t]
               ms == Appended(a, "assistant", status, t)
    <3>1. m \in Message /\ m.role = "assistant" /\ m.turn = t
      BY DEF Message
    <3>2. ms = IF InTable(a) THEN Append(messages[a], m) ELSE messages[a]
      BY DEF Appended
    <3> HIDE DEF m, ms
    <3>3. ms \in Seq(Message) /\ Paired(ms)
      BY <2>1, <3>1, <3>2, AppendedFacts
    <3>4. LeaveTurn(t, ms)
      BY <2>2 DEF ms
    <3> HIDE DEF u, a
    <3> QED BY <1>6, <2>1, <3>3, <3>4
  <2>3. ASSUME LeaveTurn(t, messages[a])
        PROVE  ChatInv'
    BY <1>6, <2>1, <2>3
  <2> QED BY <1>8, <2>2, <2>3 DEF Answers
<1> QED BY <1>4, <1>5, <1>7, <1>8 DEF Chat

LEMMA CrashedChats ==
    ASSUME ChatInv, Crash
    PROVE  ChatInv'
<1>1. /\ DOMAIN turn = Turns /\ messages \in [Artifacts -> Seq(Message)]
      /\ \A a \in Artifacts : Paired(messages[a])
  BY ChatParts
<1>2. /\ messages' = messages /\ lock' = [a \in Artifacts |-> None]
      /\ turn' = [t \in Turns |-> IF turn[t].pc = "idle" THEN turn[t]
                                  ELSE [turn[t] EXCEPT !.pc = "done"]]
  BY DEF Crash
<1>3. ASSUME NEW t \in Turns
      PROVE  /\ TurnOf(turn'[t]) /\ turn'[t].pc \in {"idle", "done"}
             /\ turn'[t].pc # "idle" => turn'[t].art \in Artifacts
  <2>1. TurnOf(turn[t]) /\ (turn[t].pc # "idle" => turn[t].art \in Artifacts)
    BY ChatParts DEF Stands
  <2>2. CASE turn[t].pc = "idle"
    BY <1>2, <2>1, <2>2
  <2>3. CASE turn[t].pc # "idle"
    <3>1. turn'[t] = [turn[t] EXCEPT !.pc = "done"]
      BY <1>2, <2>3
    <3> QED BY <2>1, <2>3, <3>1 DEF TurnOf
  <2> QED BY <2>2, <2>3
<1>4. \A t \in Turns : Stands(t)'
  BY <1>3 DEF Stands
<1>5. lock' \in [Artifacts -> Turns \cup {None}] /\ DOMAIN turn' = Turns
  BY <1>2
<1> QED BY <1>1, <1>2, <1>3, <1>4, <1>5 DEF ChatInv, Stands, Paired, AnswerFollowsQuestion

-----------------------------------------------------------------------------
(* Every step. *)

\* What the trash leaves alone.
LEMMA OthersStay ==
    ASSUME RunsInv, CallsInv, UNCHANGED <<who, editor, run, registry, cancel, call, crashed>>
    PROVE  RunsInv' /\ CallsInv'
<1>1. RunsInv'
  BY SameRuns
<1> QED BY <1>1 DEF CallsInv, MayCall

LEMMA RowsRemain ==
    ASSUME RowsKeep
    PROVE  RowsGoOn
BY DEF RowsKeep, RowsGoOn

LEMMA TrashGoesOn ==
    ASSUME StoreInv, NEW ids, DeleteMany(ids) \/ RestoreMany(ids) \/ DeleteRows(ids)
    PROVE  RowsGoOn
<1>1. CASE DeleteMany(ids)
  BY <1>1, RowsChangeState, RowsRemain DEF DeleteMany
<1>2. CASE RestoreMany(ids)
  BY <1>2, RowsChangeState, RowsRemain DEF RestoreMany
<1>3. CASE DeleteRows(ids)
  BY <1>3, RowsChangeState, RowsRemain DEF DeleteRows
<1> QED BY <1>1, <1>2, <1>3

LEMMA TrashedStep ==
    ASSUME ArtifactInv, Trash
    PROVE  ArtifactInv'
<1> USE DEF ArtifactInv
<1>1. ASSUME StoreInv', RowsGoOn, messages' = messages \/ Cascade,
             UNCHANGED <<who, editor, run, registry, cancel, call, crashed, lock, turn>>
      PROVE  ArtifactInv'
  BY <1>1, OthersStay, ChatGoesOn
<1>2. TrashIsOfRows
  BY DEF StoreInv
<1>3. ASSUME NEW ids, MoveToTrash(ids) \/ TakeFromTrash(ids)
      PROVE  ArtifactInv'
  <2>1. DeleteMany(ids) \/ RestoreMany(ids)
    BY <1>3 DEF MoveToTrash, TakeFromTrash
  <2>2. UNCHANGED <<who, work>> /\ call' = call
    BY <1>3 DEF MoveToTrash, TakeFromTrash, DeleteMany, RestoreMany
  <2>3. TrashKeeps
    BY <1>2, <2>2, SameTrash DEF work
  <2>4. StoreInv' /\ RowsGoOn
    BY <2>1, <2>3, TrashStep, TrashGoesOn
  <2> QED BY <1>1, <2>2, <2>4 DEF work
<1>4. ASSUME NEW ids, PurgeOld(ids)
      PROVE  ArtifactInv'
  <2>1. DeleteRows(ids) /\ Cascade
    BY <1>4 DEF PurgeOld
  <2>2. UNCHANGED <<who, editor, run, registry, cancel, trash, lock, turn, crashed, call>>
    BY <1>4 DEF PurgeOld, DeleteRows
  <2>3. TrashKeeps
    BY <1>2, <2>2, SameTrash
  <2>4. StoreInv' /\ RowsGoOn
    BY <2>1, <2>3, TrashStep, TrashGoesOn
  <2> QED BY <1>1, <2>1, <2>2, <2>4
<1>5. ASSUME ListTrash
      PROVE  ArtifactInv'
  <2>1. /\ trash' = [pc |-> "listed", ids |-> Trashed] /\ trash.pc = "idle"
        /\ UNCHANGED <<store, who, editor, run, registry, cancel, lock, turn, messages, crashed>>
    BY <1>5 DEF ListTrash
  <2>2. TrashKeeps
    BY <2>1 DEF TrashKeeps, Trashed
  <2>3. StoreInv' /\ RowsGoOn /\ call' = call
    BY <2>1, <2>2, UnchangedStore, RowsStay DEF store
  <2> QED BY <1>1, <2>1, <2>3
<1>6. ASSUME EraseListed
      PROVE  ArtifactInv'
  <2>1. /\ trash.pc = "listed" /\ RemoveFiles(trash.ids) /\ trash' = [trash EXCEPT !.pc = "erased"]
        /\ UNCHANGED <<who, editor, run, registry, cancel, lock, turn, messages, crashed, call>>
        /\ row' = row
    BY <1>6 DEF EraseListed, RemoveFiles
  <2>2. StoreInv' /\ RowsGoOn
    BY <2>1, FilesRemoved, RowsStay
  <2> QED BY <1>1, <2>1, <2>2
<1>7. ASSUME NEW ok \in BOOLEAN, EraseRows(ok)
      PROVE  ArtifactInv'
  <2>1. /\ trash.pc = "erased" /\ trash' = [trash EXCEPT !.pc = "done"]
        /\ UNCHANGED <<who, editor, run, registry, cancel, lock, turn, crashed>>
    BY <1>7 DEF EraseRows
  <2>2. TrashKeeps
    BY <1>2, <2>1 DEF TrashKeeps, TrashIsOfRows
  <2>3. CASE ok
    <3>1. DeleteRows(trash.ids) /\ Cascade /\ call' = call
      BY <1>7, <2>3 DEF EraseRows, DeleteRows
    <3>2. StoreInv' /\ RowsGoOn
      BY <2>2, <3>1, TrashStep, TrashGoesOn
    <3> QED BY <1>1, <2>1, <3>1, <3>2
  <2>4. CASE ~ok
    <3>1. UNCHANGED <<store, messages>>
      BY <1>7, <2>4 DEF EraseRows
    <3>2. StoreInv' /\ RowsGoOn /\ call' = call
      BY <2>2, <3>1, UnchangedStore, RowsStay DEF store
    <3> QED BY <1>1, <2>1, <3>1, <3>2
  <2> QED BY <2>3, <2>4
<1> QED BY <1>3, <1>4, <1>5, <1>6, <1>7 DEF Trash

LEMMA CrashStep ==
    ASSUME ArtifactInv, Crash
    PROVE  ArtifactInv'
<1> USE DEF ArtifactInv
<1>1. TrashKeeps
  <2>1. trash' = IF trash.pc \in {"erased", "done"} THEN [trash EXCEPT !.pc = "done"]
                 ELSE [pc |-> "idle", ids |-> {}]
    BY DEF Crash
  <2> QED BY <2>1 DEF TrashKeeps, StoreInv, TrashIsOfRows
<1>2. StoreInv'
  BY <1>1, CrashedStore DEF Crash
<1>3. RunsInv'
  BY CrashedRuns
<1>4. CallsInv'
  <2>1. call' = [w \in Writers |-> NoCall]
    BY DEF Crash, StoreCrash
  <2> QED BY <2>1, WritersAreUpdaters DEF CallsInv, NoCall
<1>5. ChatInv'
  BY CrashedChats
<1> QED BY <1>2, <1>3, <1>4, <1>5

LEMMA ImportStep ==
    ASSUME ArtifactInv, UNCHANGED <<who, work>>,
           \/ Migration
           \/ \E a \in Artifacts : SaveBegins(a) \/ SaveCommits(a) \/ SaveFails(a) \/ RecordingLost(a)
    PROVE  ArtifactInv'
<1> USE DEF ArtifactInv
<1>1. StoreInv'
  BY MigrationStep, SaveBeginsKeeps, SaveCommitsKeeps, SaveFailsKeeps, RecordingLostKeeps DEF work
<1>2. call' = call
  BY DEF Migration, MigrationBegins, MigrateRow, MigrationFails, MigrationCommits,
         SaveBegins, SaveCommits, SaveFails, RecordingLost
<1>3. RowsGoOn
  <2>1. CASE Migration
    <3>1. row' = row \/ schema = "legacy"
      BY <2>1, OpenMigration DEF Migration, MigrationBegins, MigrateRow, MigrationFails,
         MigrationCommits, StoreInv, MigrationIsWhole
    <3>2. schema = "legacy" => \A a \in Artifacts : row[a].st = "new"
      BY NewRowFacts DEF StoreInv, MigrationIsWhole
    <3> QED BY <3>1, <3>2 DEF RowsGoOn, InTable
  <2>2. ASSUME NEW a \in Artifacts, SaveBegins(a) \/ RecordingLost(a)
        PROVE  RowsGoOn
    BY <2>2, RowsStay DEF SaveBegins, RecordingLost
  <2>3. ASSUME NEW a \in Artifacts, SaveCommits(a) \/ SaveFails(a)
        PROVE  RowsGoOn
    <3>1. row[a].st = "new" /\ \A b \in Artifacts : b # a => row'[b] = row[b]
      BY <2>3 DEF SaveCommits, SaveFails, StoreInv, StoreIsTyped, RecordingsAreKept
    <3> QED BY <3>1 DEF RowsGoOn, InTable
  <2> QED BY <2>1, <2>2, <2>3
<1> QED BY <1>1, <1>2, <1>3, OthersStay, ChatGoesOn DEF work
LEMMA InitHolds ==
    ASSUME Init
    PROVE  ArtifactInv
<1>1. /\ saving = [a \in Artifacts |-> "no"] /\ migrating = [open |-> FALSE]
      /\ call = [w \in Writers |-> NoCall] /\ trash = [pc |-> "idle", ids |-> {}]
  BY DEF Init, StoreInit, StoreInUse
<1>2. StoreInv
  <2>1. CASE StoreInit
    <3>1. /\ schema \in {"legacy", "current"}
          /\ old \subseteq Legacy /\ (schema = "current" => old = {})
          /\ row = [a \in Artifacts |-> NoRow] /\ vault = {} /\ recording \subseteq Artifacts
          /\ accepted = [a \in Artifacts |-> Shown(NoRow)]
      BY <2>1 DEF StoreInit
    <3>2. Shown(NoRow) \in [Fields -> Cells]
      BY NewRowFacts, ShownFacts
    <3>3. StoreIsTyped
      BY <1>1, <3>1, <3>2, NewRowFacts DEF StoreIsTyped
    <3>4. ViewsAreFresh
      BY <1>1 DEF ViewsAreFresh, NoCall
    <3>5. RowsShowAccepted /\ RecordingsAreKept
      BY <1>1, <3>1, NewRowFacts DEF RowsShowAccepted, RecordingsAreKept, InTable
    <3>6. TrashIsOfRows
      BY <1>1 DEF TrashIsOfRows
    <3>7. MigrationIsWhole
      BY <1>1, <3>1 DEF MigrationIsWhole
    <3> QED BY <3>3, <3>4, <3>5, <3>6, <3>7 DEF StoreInv
  <2>2. CASE StoreInUse
    <3>1. /\ schema = "current" /\ old = {}
          /\ row = [a \in Artifacts |-> Inserted(TRUE)]
          /\ vault = Artifacts /\ recording = Artifacts
          /\ accepted = [a \in Artifacts |-> Shown(row[a])]
      BY <2>2 DEF StoreInUse
    <3>2. Inserted(TRUE) \in Row /\ Shown(Inserted(TRUE)) \in [Fields -> Cells]
      BY NewRowFacts, ShownFacts
    <3>3. StoreIsTyped
      BY <1>1, <3>1, <3>2 DEF StoreIsTyped
    <3>4. ViewsAreFresh
      BY <1>1 DEF ViewsAreFresh, NoCall
    <3>5. RowsShowAccepted /\ RecordingsAreKept
      BY <1>1, <3>1 DEF RowsShowAccepted, RecordingsAreKept, InTable
    <3>6. TrashIsOfRows
      BY <1>1 DEF TrashIsOfRows
    <3>7. MigrationIsWhole
      BY <1>1, <3>1 DEF MigrationIsWhole
    <3> QED BY <3>3, <3>4, <3>5, <3>6, <3>7 DEF StoreInv
  <2> QED BY <2>1, <2>2 DEF Init
<1>3. RunsInv
  <2>1. IdleRun \in RunRecord /\ IdleRun.pc = "idle" /\ IdleRun.goal = "running"
    BY TodoFacts DEF IdleRun, RunRecord, Goals
  <2>2. WorkIsTyped
    <3>1. [pc |-> "idle", art |-> None, todo |-> <<>>] \in CancelRecord
      BY TodoFacts DEF CancelRecord
    <3> QED BY <2>1, <3>1 DEF Init, WorkIsTyped
  <2>3. run = [r \in Runs |-> IdleRun]
    BY DEF Init
  <2> QED BY <2>1, <2>2, <2>3 DEF RunsInv, UncancelledIsRegistered, CompletedIsWritten
<1>4. CallsInv
  BY <1>1, WritersAreUpdaters DEF CallsInv, NoCall
<1>5. ChatInv
  <2>1. <<>> \in Seq(Message)
    BY EmptySeq
  <2>2. /\ lock = [a \in Artifacts |-> None] /\ messages = [a \in Artifacts |-> <<>>]
        /\ turn = [t \in Turns |-> [pc |-> "idle", art |-> None, history |-> <<>>]]
    BY DEF Init
  <2>3. \A t \in Turns : TurnOf(turn[t]) /\ turn[t].pc = "idle"
    BY <2>2 DEF TurnOf
  <2> QED BY <2>1, <2>2, <2>3 DEF ChatInv, AnswerFollowsQuestion
<1> QED BY <1>2, <1>3, <1>4, <1>5 DEF ArtifactInv

LEMMA NextKeeps ==
    ASSUME ArtifactInv, [Next]_vars
    PROVE  ArtifactInv'
<1> USE DEF ArtifactInv
<1>1. CASE UNCHANGED vars
  <2>1. UNCHANGED <<store, who, editor, run, registry, cancel, trash, lock, turn, messages, crashed>>
    BY <1>1 DEF vars, work
  <2>2. StoreInv' /\ RowsGoOn /\ call' = call
    BY <2>1, StoreStays
  <2> QED BY <2>1, <2>2, OthersStay, ChatGoesOn
<1>2. ASSUME UNCHANGED <<who, work>>,
             Migration \/ \E a \in Artifacts \ old : Import(a)
      PROVE  ArtifactInv'
  BY <1>2, ImportStep DEF Import
<1>3. ASSUME NEW e \in Editors, Edit(e)
      PROVE  ArtifactInv'
  <2>1. UNCHANGED <<lock, turn, messages>>
    BY <1>3 DEF Edit, BeginEdit, AiAnswers, EditReads, EditWrites
  <2> QED BY <1>3, <2>1, EditStep, ChatGoesOn
<1>4. ASSUME NEW r \in Runs, Diarization(r)
      PROVE  ArtifactInv'
  <2>1. UNCHANGED <<lock, turn, messages>>
    BY <1>4 DEF Diarization, StartRun, SetReads, SetWrites, SetEnds, LoadSource, Diarizes,
       ChecksToken, TimelineReads, TimelineWrites, ChecksTokenAgain, Leaves
  <2> QED BY <1>4, <2>1, DiarizationStep, ChatGoesOn
<1>5. ASSUME NEW c \in Cancels, Cancelling(c)
      PROVE  ArtifactInv'
  <2>1. UNCHANGED <<lock, turn, messages>>
    BY <1>5 DEF Cancelling, CancelRun, CancelReads, CancelWrites, CancelEnds
  <2> QED BY <1>5, <2>1, CancelStep, ChatGoesOn
<1>6. ASSUME NEW t \in Turns, Chat(t)
      PROVE  ArtifactInv'
  <2>1. UNCHANGED <<store, who, editor, run, registry, cancel, trash, crashed>>
    BY <1>6 DEF Chat, BeginTurn, EnterTurn, Asks, Answers
  <2>2. StoreInv' /\ call' = call
    BY <2>1, StoreStays
  <2> QED BY <1>6, <2>1, <2>2, OthersStay, ChatStep
<1>7. CASE Trash
  BY <1>7, TrashedStep
<1>8. CASE Crash
  BY <1>8, CrashStep
<1>9. CASE Next
  <2>1. \A a : Import(a) => UNCHANGED <<who, work>>
    BY DEF Import
  <2> HIDE DEF ArtifactInv
  <2> QED BY <1>2, <1>3, <1>4, <1>5, <1>6, <1>7, <1>8, <1>9, <2>1 DEF Next
<1> QED BY <1>1, <1>9

\* The store, the runs and the chats agree in every state: a view that an
\* update read is the row's own as long as the row has that revision, a row in
\* the trash still shows what was accepted, an update is under way only where
\* its command waits for it, and a question that waits for its answer is the
\* last message of an artifact whose lock its turn holds.
THEOREM ArtifactsInvariant == Spec => []ArtifactInv
BY InitHolds, NextKeeps, PTL DEF Spec

\* No update, whatever it read before and whatever edits, trash, migration and
\* late writers did since, undoes another that was accepted, and no row is lost
\* (update_content and update_metadata_entry write back a whole map; the
\* condition on the revision makes it the row's own). No recording is, but that
\* of an artifact a hard delete had listed in the trash: hard_delete_many removes
\* the file first, and keeps the row when its statement fails or finds it restored.
THEOREM NothingIsEverLost == Spec => []StoreLosesNothing
<1>1. ASSUME ArtifactInv
      PROVE  StoreLosesNothing
  <2> USE <1>1 DEF ArtifactInv, StoreInv
  <2>1. StoreTypeOK
    <3>1. migrating.open \in BOOLEAN
      <4>1. migrating = [open |-> FALSE] \/ migrating \in Migrations
        BY DEF StoreIsTyped
      <4> HIDE <1>1
      <4>2. CASE migrating = [open |-> FALSE]
        BY <4>2
      <4>3. CASE migrating \in Migrations
        <5>1. migrating.open \in {TRUE}
          BY <4>3 DEF Migrations
        <5> QED BY <5>1
      <4> QED BY <4>1, <4>2, <4>3
    <3>2. \A w \in Writers : call[w].st = "read" => call[w].field \in Fields
      BY DEF StoreIsTyped, Call, NoCall
    <3> QED BY <3>1, <3>2 DEF StoreTypeOK, StoreIsTyped, Row
  <2>2. TypeOK
    <3>1. \A e \in Editors : editor[e].pc \in {"idle", "thinking", "reading", "writing", "done"}
      BY DEF RunsInv, WorkIsTyped, EditRecord
    <3>2. \A t \in Turns : turn[t].pc \in {"idle", "waiting", "open", "asking", "done"}
      BY DEF ChatInv, TurnOf
    <3>3. \A r \in Runs :
           /\ run[r].pc \in {"idle", "starting", "spawned", "diarizing", "turns",
                             "writing", "written", "completing", "reporting",
                             "leaving", "done", "refused"}
           /\ run[r].wrote \in {"no", "yes", "missed"}
      BY DEF RunsInv, WorkIsTyped, RunRecord
    <3>4. \A c \in Cancels : cancel[c].pc \in {"idle", "setting", "done"}
      BY DEF RunsInv, WorkIsTyped, CancelRecord
    <3>5. trash.pc \in {"idle", "listed", "erased", "done"}
      BY DEF TrashIsOfRows
    <3> QED BY <2>1, <3>1, <3>2, <3>3, <3>4, <3>5 DEF TypeOK, RunsInv, WorkIsTyped, ChatInv
  <2>3. ASSUME NEW a \in Artifacts, row[a].st = "live"
        PROVE  Shown(row[a]) = accepted[a]
    <3>1. \A f \in Fields : Shown(row[a])[f] = accepted[a][f]
      BY <2>3 DEF RowsShowAccepted, InTable
    <3>2. Shown(row[a]) \in [Fields -> Cells] /\ accepted[a] \in [Fields -> Cells]
      BY ShownFacts DEF StoreIsTyped
    <3> QED BY <3>1, <3>2
  <2>4. NothingIsLost
    BY <2>3 DEF NothingIsLost
  <2>5. LegacyIsKept
    BY DEF LegacyIsKept, MigrationIsWhole
  <2>6. AudioIsThere
    BY DEF AudioIsThere, RecordingsAreKept, InTable
  <2> QED BY <2>2, <2>4, <2>5, <2>6 DEF StoreLosesNothing
<1> QED BY <1>1, ArtifactsInvariant, PTL

\* A late diarization that was not cancelled is the registered one until it
\* leaves, and no run reports completion over a timeline it failed to write
\* (start_ and cancel_artifact_speaker_diarization).
THEOREM LateWorkIsKnown == Spec => []LateWorkIsAccountedFor
<1>1. ArtifactInv => LateWorkIsAccountedFor
  BY DEF ArtifactInv, RunsInv, LateWorkIsAccountedFor
<1> QED BY <1>1, ArtifactsInvariant, PTL

\* Every answer stands right after its own question (chat_artifact under the
\* lock of its artifact), however many turns wait and whatever the trash does.
THEOREM AnswersFollow == Spec => []AnswerFollowsQuestion
<1>1. ArtifactInv => AnswerFollowsQuestion
  BY DEF ArtifactInv, ChatInv
<1> QED BY <1>1, ArtifactsInvariant, PTL
==============================================================================
