--------------------------- MODULE DecisionArchive ---------------------------
(***************************************************************************)
(* The shopping archive: the rows of shopping_decisions, the endpoints of  *)
(* decisions_router, the tools of the agent that write a row, and the page *)
(* (DecisionLibraryView) that saves what its user changes, 300 ms after    *)
(* the last change, by comparing each record with a snapshot.              *)
(*                                                                         *)
(* A write puts a new number into the field it changes. No phase: no row.  *)
(***************************************************************************)
EXTENDS Integers, FiniteSets

CONSTANTS
  Records,         \* bound: the records there may be
  Loops,           \* bound: saving loops of the page that overlap
  MaxWrites,       \* bound: changes, by agent and user together
  MaxMishaps       \* bound: requests and commits that fail, and clients that send or
                   \* reset the whole archive

ASSUME ArchiveAssumption == {MaxWrites, MaxMishaps} \subseteq Nat /\ 0 \notin Records

VARIABLES
  table,    \* the data of each row
  toolCall, \* the tool call that has loaded a row
  page,     \* the archive page: its records, their snapshot, its timer
  loop,     \* its saving loops, and the request each waits for
  removal,  \* its request to delete a record
  copy,     \* what a client that saves the whole archive has loaded
  assured,  \* per record, its data as an agent was last told to have stored it
  filed,    \* the records that were stored and not deleted by their user
  touched,  \* the records that the user changed or a client sent whole
  overtook,  \* whether one changed while it was being saved
  writes, mishaps

archiveVars == <<table, toolCall, page, loop, removal, copy, assured, filed, touched, overtook, writes, mishaps>>
history == <<assured, filed, touched, overtook>>

Absent == [phase |-> 0, reminders |-> {}, rating |-> 0]
InTable(i) == table[i] # Absent
Listed(i) == i \in page.records
Waiting(l) == loop[l].request # "none"
Rests == ~page.timer /\ removal.id = 0 /\ \A l \in Loops : ~Waiting(l)
NoLoop == [todo |-> {}, id |-> 0, request |-> "none", kind |-> "saveOne", data |-> Absent, base |-> Absent]
NoCall == [id |-> 0, data |-> Absent]
NoRemoval == [id |-> 0, done |-> FALSE]
FreshWrite == writes < MaxWrites /\ writes' = writes + 1
Mishap == mishaps < MaxMishaps /\ mishaps' = mishaps + 1

\* The rows after i was stored as d, or removed.
Puts(i, d) == table' = [table EXCEPT ![i] = d] /\ filed' = filed \cup {i}

ArchiveInit ==
  /\ table = [i \in Records |-> Absent] /\ assured = [i \in Records |-> Absent]
  /\ toolCall = NoCall
  /\ page = [open |-> FALSE, records |-> {}, data |-> [i \in Records |-> Absent],
             snapshot |-> [i \in Records |-> Absent], timer |-> FALSE]
  /\ loop = [l \in Loops |-> NoLoop] /\ removal = NoRemoval
  /\ copy = [i \in Records |-> Absent]
  /\ filed = {} /\ touched = {} /\ overtook = FALSE /\ writes = 0 /\ mishaps = 0
-----------------------------------------------------------------------------
(* Mistakes the code does not make: A_m is what the operator A below would  *)
(* be with one of them. Only the runs that test the properties use them.    *)

\* PUT /batch deletes what the batch has not, as it once did.
Batch_Replaces == [i \in Records |-> copy[i]]

\* The timer saves the first of the changed records only.
Dirty_One ==
  LET dirty == {i \in page.records : page.data[i] # page.snapshot[i]} IN
  IF dirty = {} THEN {} ELSE {CHOOSE i \in dirty : TRUE}
-----------------------------------------------------------------------------
(* The tools of the agent (archive_tools), one call at a time.              *)

\* save_to_archive, or the button of a workbench (createOne): a new record.
SavesNew(i) ==
  /\ i \notin filed /\ ~InTable(i) /\ ~Listed(i) /\ assured[i] = Absent /\ i \notin touched
  /\ FreshWrite /\ Puts(i, [Absent EXCEPT !.phase = writes'])
  /\ assured' = [assured EXCEPT ![i] = table'[i]]
  /\ UNCHANGED <<toolCall, page, loop, removal, copy, touched, overtook, mishaps>>

\* update_record_phase, set_reminder and write_review load the row,
ToolLoads(i) ==
  /\ toolCall = NoCall /\ InTable(i)
  /\ toolCall' = [id |-> i, data |-> table[i]]
  /\ UNCHANGED <<table, page, loop, removal, copy, history, writes, mishaps>>

\* with its phase, one more reminder, or the rating of a review,
Changed(d) ==
  {[d EXCEPT !.phase = writes'], [d EXCEPT !.reminders = @ \cup {writes'}], [d EXCEPT !.rating = writes']}

\* and write its whole data back when the session ends. A row that is gone
\* or a failed commit is told as a failure.
ToolCommits ==
  LET i == toolCall.id IN
  /\ toolCall # NoCall /\ toolCall' = NoCall
  /\ \/ /\ InTable(i) /\ FreshWrite /\ \E d \in Changed(toolCall.data) : Puts(i, d)
        /\ assured' = [assured EXCEPT ![i] = table'[i]] /\ UNCHANGED mishaps
     \/ ~InTable(i) /\ UNCHANGED <<table, assured, filed, writes, mishaps>>
     \/ Mishap /\ UNCHANGED <<table, assured, filed, writes>>
  /\ UNCHANGED <<page, loop, removal, copy, touched, overtook>>
-----------------------------------------------------------------------------
(* The clients that save the whole archive, and reset_decisions.            *)

CopyLoads ==
  /\ copy # table /\ copy' = table /\ Mishap
  /\ UNCHANGED <<table, toolCall, page, loop, removal, history, writes>>

\* sync_decisions: an upsert for each record of the batch.
Batch == [i \in Records |-> IF copy[i] # Absent THEN copy[i] ELSE table[i]]

SyncsCopy ==
  LET sent == {i \in Records : copy[i] # Absent} IN
  /\ sent # {} /\ table' = Batch
  /\ filed' = filed \cup sent /\ touched' = touched \cup sent
  /\ copy' = [i \in Records |-> Absent]
  /\ UNCHANGED <<toolCall, page, loop, removal, assured, overtook, writes, mishaps>>

\* Only with confirm.
Resets ==
  /\ filed # {} /\ Mishap
  /\ table' = [i \in Records |-> Absent] /\ filed' = {}
  /\ UNCHANGED <<toolCall, page, loop, removal, copy, assured, touched, overtook, writes>>
-----------------------------------------------------------------------------
(* The page.                                                                *)

\* initRecords: what it shows is what it takes for saved. A load that fails
\* shows an empty archive.
Opens ==
  /\ ~page.open
  /\ \E got \in {table, [i \in Records |-> Absent]} :
       /\ IF got = table THEN UNCHANGED mishaps ELSE Mishap
       /\ page' = [open |-> TRUE, records |-> {i \in Records : got[i] # Absent}, data |-> got,
                   snapshot |-> got, timer |-> TRUE]
  /\ UNCHANGED <<table, toolCall, loop, removal, copy, history, writes>>

\* The watcher sets its timer again at each change of a record.
Shows(i, d, records) ==
  /\ page.open /\ FreshWrite
  /\ page' = [page EXCEPT !.data[i] = d, !.records = records, !.timer = TRUE]
  /\ touched' = touched \cup {i}
  /\ overtook' = (overtook \/ \E l \in Loops : Waiting(l) /\ loop[l].id = i)
  /\ UNCHANGED <<table, toolCall, loop, removal, copy, assured, filed, mishaps>>

\* startPicking, chooseCandidate, confirmChoice, dropRecord, fillByAI, saveBuy,
\* saveReview: a change of the record on the screen.
PageEdits(i) == Listed(i) /\ Shows(i, [page.data[i] EXCEPT !.phase = writes'], page.records)

\* saveIdea: a record with an id of the page's.
NotesIdea(i) ==
  /\ i \notin filed \cup touched /\ ~InTable(i) /\ assured[i] = Absent
  /\ Shows(i, [Absent EXCEPT !.phase = writes'], page.records \cup {i})

Dirty == {i \in page.records : page.data[i] # page.snapshot[i]}

\* The loop sends a record as it is now: as a new one if there is no snapshot.
SendsRecord(l, i, todo) ==
  loop' = [loop EXCEPT ![l] =
             [todo |-> todo \ {i}, id |-> i, request |-> "sent", data |-> page.data[i], base |-> Absent,
              kind |-> IF page'.snapshot[i] = Absent THEN "createOne" ELSE "saveOne"]]

TimerFires ==
  /\ page.timer /\ page' = [page EXCEPT !.timer = FALSE]
  /\ IF Dirty = {} THEN UNCHANGED loop
     ELSE \E l \in Loops, i \in Dirty : ~Waiting(l) /\ SendsRecord(l, i, Dirty)
  /\ UNCHANGED <<table, toolCall, removal, copy, history, writes, mishaps>>

LoopOver(l, answer) == [loop[l] EXCEPT !.request = answer, !.data = Absent, !.base = Absent]

\* The server selects the row,
Selects(l) ==
  /\ loop[l].request = "sent"
  /\ \/ loop' = [loop EXCEPT ![l].request = "selected", ![l].base = table[loop[l].id]] /\ UNCHANGED mishaps
     \/ Mishap /\ loop' = [loop EXCEPT ![l] = LoopOver(l, "failed")]
  /\ UNCHANGED <<table, toolCall, page, removal, copy, history, writes>>

\* The fields of a patch over those of the row, of which a page's record may
\* lack the rating only.
Merged(base, patch) == [patch EXCEPT !.rating = IF @ = 0 THEN base.rating ELSE @]

\* and commits what create_or_update or update_decision makes of it: not if the
\* row was inserted or removed meanwhile, nor an update without a row (404). The
\* answer may be lost.
Commits(l) ==
  LET i == loop[l].id
      found == loop[l].base # Absent
      stored == found = InTable(i) /\ (loop[l].kind = "createOne" \/ found) IN
  /\ loop[l].request = "selected"
  /\ IF stored
       THEN Puts(i, IF loop[l].kind = "createOne" THEN loop[l].data
                    ELSE Merged(loop[l].base, loop[l].data))
       ELSE UNCHANGED <<table, filed>>
  /\ \/ /\ loop' = [loop EXCEPT ![l] = LoopOver(l, IF stored THEN "ok" ELSE "failed")]
        /\ UNCHANGED mishaps
     \/ Mishap /\ stored /\ loop' = [loop EXCEPT ![l] = LoopOver(l, "failed")]
  /\ UNCHANGED <<toolCall, page, removal, copy, assured, touched, overtook, writes>>

\* The loop takes a saved record for saved as it is by now, and goes on.
SaveAnswered(l) ==
  LET i == loop[l].id  todo == loop[l].todo IN
  /\ loop[l].request \in {"ok", "failed"}
  /\ page' = IF loop[l].request = "ok" THEN [page EXCEPT !.snapshot[i] = page.data[i]] ELSE page
  /\ IF todo = {} THEN loop' = [loop EXCEPT ![l] = NoLoop] ELSE \E j \in todo : SendsRecord(l, j, todo)
  /\ UNCHANGED <<table, toolCall, removal, copy, history, writes, mishaps>>

\* deleteRecord: the row first, the record on the screen when that worked.
Removes(i) ==
  /\ Listed(i) /\ removal.id = 0 /\ removal' = [id |-> i, done |-> FALSE]
  /\ UNCHANGED <<table, toolCall, page, loop, copy, history, writes, mishaps>>

RowGoes ==
  /\ removal.id # 0 /\ ~removal.done
  /\ IF InTable(removal.id) THEN removal' = [removal EXCEPT !.done = TRUE] ELSE removal' = NoRemoval
  /\ table' = [table EXCEPT ![removal.id] = Absent] /\ filed' = filed \ {removal.id}
  /\ UNCHANGED <<toolCall, page, loop, copy, assured, touched, overtook, writes, mishaps>>

Removed ==
  /\ removal.done /\ removal' = NoRemoval
  /\ page' = [page EXCEPT !.snapshot[removal.id] = Absent, !.records = @ \ {removal.id}, !.timer = TRUE]
  /\ UNCHANGED <<table, toolCall, loop, copy, history, writes, mishaps>>

ArchiveNext ==
  \/ \E i \in Records :
       SavesNew(i) \/ ToolLoads(i) \/ PageEdits(i) \/ NotesIdea(i) \/ Removes(i)
  \/ ToolCommits \/ CopyLoads \/ SyncsCopy \/ Resets
  \/ Opens \/ TimerFires \/ RowGoes \/ Removed
  \/ \E l \in Loops : Selects(l) \/ Commits(l) \/ SaveAnswered(l)
-----------------------------------------------------------------------------
\* "what others wrote is not wiped out by the way" (DecisionLibraryView, of the
\* loss of 21 records): a stored record stays until its user deletes it, and
\* one that no user changed and no client sent whole holds what the agent was
\* told to have written, whatever the page saves meanwhile.
ArchiveKept ==
  \A i \in filed : /\ InTable(i)
                   /\ i \notin touched => table[i] = assured[i]

Agree == \A i \in page.records : assured[i] # Absent \/ table[i] = page.data[i]

\* A page at rest shows what is stored, of the records that are its user's
\* alone, unless a request failed, another client came or a record changed while it
\* was being saved.
QuietPageIsSaved == Rests /\ mishaps = 0 /\ ~overtook => Agree

\* Both: no record is lost on the way, and a page at rest shows what there is.
ArchiveAgrees == ArchiveKept /\ QuietPageIsSaved
=============================================================================
