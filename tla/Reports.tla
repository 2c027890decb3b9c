-------------------------------- MODULE Reports --------------------------------
(***************************************************************************)
(* The index of the report files: services/report_index.py over the files  *)
(* of the report directory and the tables reports and report_folders of    *)
(* core/app_db.py, as the requests of api/api_server.py and main.py use    *)
(* it.  Every statement has a connection and a transaction of its own, so  *)
(* requests interleave between any two statements of a function.           *)
(*                                                                         *)
(* Files are numbered in the order of their names.  A row stands for a     *)
(* report, a folder for a virtual folder; ids are never used again.  Tags, *)
(* sizes, dates and searches are left out.                                 *)
(***************************************************************************)
EXTENDS Integers, FiniteSets

CONSTANTS
  Files,        \* report files, in the order of their names
  YearOf,       \* the year folder a file belongs to, None for type "other"
  MonthOf,      \* the month folder of a weekly report, None for the others
  OwnNames,     \* names operators give to folders
  Requests,     \* threads of the API that work on reports
  Boot,         \* the thread of main
  None,
  MaxMade,      \* bound: files there are in all when another is generated
  MaxEdits,     \* bound: requests that change reports or folders
  MaxRestarts   \* bound: times the process stops

Threads == Requests \cup {Boot}

ASSUME FileAssumption ==
  /\ Files \subseteq Nat /\ IsFiniteSet(Files) /\ None \notin Nat
  /\ IsFiniteSet(Requests) /\ Boot \notin Requests
  /\ DOMAIN YearOf = Files /\ DOMAIN MonthOf = Files
  /\ \A f \in Files : YearOf[f] = None => MonthOf[f] = None
  /\ \A f, g \in Files : MonthOf[f] # None => MonthOf[f] # YearOf[g]
  /\ \A f \in Files : YearOf[f] \notin OwnNames /\ MonthOf[f] \notin OwnNames
  /\ MaxMade \in Nat /\ MaxEdits \in Nat /\ MaxRestarts \in Nat

VARIABLES
  disk,        \* the files of the report directory
  made,        \* files generated so far
  rows,        \* the table reports
  folders,     \* the table report_folders
  lastRow,     \* the last id given to a report
  lastFolder,  \* the last id given to a folder
  pc,          \* where each thread is
  todo,        \* files a sync has listed, or the backfill, and not done yet
  loc,         \* what each thread has read: the folder found for the file (spot), the
               \* report of its request (row) and the folder asked for (dest), the
               \* folder a prune looks at (target) and its parent (above)
  boot,        \* how far main has got
  edits,
  restarts,
  late,        \* what came into a folder after its prune had counted (see PruneSpares)
  excused,     \* files deleted under a sync or by half (see RowsHaveFiles)
  raced,       \* folders two syncs were about to make at once (see FoldersUnique)
  handmade     \* folders operators made or changed

files   == <<disk, made>>
tables  == <<rows, folders, lastRow, lastFolder>>
bounds  == <<edits, restarts>>
history == <<late, excused, raced, handmade>>
vars    == <<files, tables, pc, todo, loc, boot, bounds, history>>

Names   == {YearOf[f] : f \in Files} \cup {MonthOf[f] : f \in Files} \cup OwnNames
Ids     == Nat \cup {None}
Rows    == [id : Nat, file : Files, folder : Ids]
Folders == [id : Nat, name : Names, parent : Ids]
Locals  == [spot : Ids, row : Rows \cup {None}, dest : Ids, target : Ids, above : Ids]
Blank   == [spot |-> None, row |-> None, dest |-> None, target |-> None, above |-> None]

Searching == {"look", "year", "makeYear", "month", "makeMonth", "insert"}
Pruning   == {"count", "children", "drop"}

\* The schema: ids are unique, a file has one row, and foreign keys are enforced.
SchemaHolds ==
  /\ \A r, q \in rows : r.id = q.id \/ r.file = q.file => r = q
  /\ \A x, y \in folders : x.id = y.id => x = y
  /\ \A r \in rows : r.id <= lastRow
  /\ \A x \in folders : x.id <= lastFolder
  /\ \A r \in rows : r.folder # None => \E x \in folders : x.id = r.folder
  /\ \A x \in folders : x.parent # None => \E y \in folders : y.id = x.parent

TypeOK ==
  /\ disk \subseteq made /\ made \subseteq Files
  /\ rows \subseteq Rows /\ folders \subseteq Folders
  /\ lastRow \in Nat /\ lastFolder \in Nat
  /\ SchemaHolds
  /\ pc \in [Threads -> {"idle", "move", "moved", "unlink", "delete"} \cup Searching \cup Pruning]
  /\ todo \in [Threads -> SUBSET Files]
  /\ \A t \in Threads : pc[t] \in Searching \ {"look"} => todo[t] # {}
  /\ loc \in [Threads -> Locals]
  /\ \A t \in Threads : pc[t] \in {"move", "moved", "unlink", "delete"} => loc[t].row \in Rows
  /\ boot \in {"sync", "place", "done"}
  /\ edits \in Nat /\ restarts \in Nat
  /\ late \in [Threads -> SUBSET ({"report", "folder"} \X Nat)]
  /\ excused \subseteq Files /\ raced \subseteq Names \X Ids /\ handmade \subseteq Nat

-----------------------------------------------------------------------------
(* The tables.                                                             *)

Reports(folder)  == {r \in rows : r.folder = folder}
Children(folder) == {x \in folders : x.parent = folder}
RowOf(f)         == {r \in rows : r.file = f}
Folder(id)       == {x \in folders : x.id = id}
Named(name, parent) == {x \in folders : x.name = name /\ x.parent = parent}
IsFolder(id)     == id = None \/ Folder(id) # {}

NewFolder(name, parent) ==
  /\ folders' = folders \cup {[id |-> lastFolder + 1, name |-> name, parent |-> parent]}
  /\ lastFolder' = lastFolder + 1

PutIn(id, folder) == {IF r.id = id THEN [r EXCEPT !.folder = folder] ELSE r : r \in rows}

\* ON DELETE SET NULL, for the reports and for the folders inside.
DeleteFolderRow(id) ==
  /\ rows' = {IF r.folder = id THEN [r EXCEPT !.folder = None] ELSE r : r \in rows}
  /\ folders' = {IF x.parent = id THEN [x EXCEPT !.parent = None] ELSE x
                 : x \in folders \ Folder(id)}
  /\ UNCHANGED <<lastRow, lastFolder>>

Goto(t, label) == pc' = [pc EXCEPT ![t] = label]
Finish(t) == Goto(t, "idle") /\ loc' = [loc EXCEPT ![t] = Blank]

\* Something comes into a folder: it is late for the prunes that have counted its kind.
Arrives(kind, id, folder) ==
  late' = [t \in Threads |->
    IF /\ loc[t].target = folder
       /\ pc[t] \in (IF kind = "report" THEN {"children", "drop"} ELSE {"drop"})
    THEN late[t] \cup {<<kind, id>>} ELSE late[t]]

-----------------------------------------------------------------------------
(* sync_reports and the search for the folder of a file; main also runs    *)
(* reorganize_uncategorized with it.                                       *)

Current(t) == CHOOSE f \in todo[t] : \A g \in todo[t] : f <= g
Placing(t) == t = Boot /\ boot = "place"
Tick(t)    == todo' = [todo EXCEPT ![t] = @ \ {Current(t)}] /\ Goto(t, "look")
Serving    == boot = "done"
Syncs      == {t \in Threads : pc[t] \in Searching}

\* GET /api/reports syncs the index each time.
StartSync(t) ==
  /\ t \in Requests /\ Serving /\ pc[t] = "idle"
  /\ Goto(t, "look")
  /\ todo' = [todo EXCEPT ![t] = disk]
  /\ UNCHANGED <<files, tables, loc, boot, bounds, history>>

\* (mutant) the backfill passes over reports that have a row
LookForNew(t) ==
  /\ pc[t] = "look" /\ todo[t] # {}
  /\ LET f == Current(t) IN
     IF f \notin disk \/ RowOf(f) # {}
     THEN Tick(t)
     ELSE Goto(t, IF YearOf[f] = None THEN "insert" ELSE "year") /\ UNCHANGED todo
  /\ loc' = [loc EXCEPT ![t].spot = None]
  /\ UNCHANGED <<files, tables, boot, bounds, history>>

\* A file that is gone or has its row is passed over.
LookAtFile(t) ==
  /\ pc[t] = "look" /\ todo[t] # {}
  /\ LET f == Current(t) IN
     IF ~Placing(t) /\ (f \notin disk \/ RowOf(f) # {})
     THEN Tick(t)
     ELSE Goto(t, IF YearOf[f] = None THEN "insert" ELSE "year") /\ UNCHANGED todo
  /\ loc' = [loc EXCEPT ![t].spot = None]
  /\ UNCHANGED <<files, tables, boot, bounds, history>>

\* main goes on with the reports that have no folder, and then starts to serve.
EndSync(t) ==
  /\ pc[t] = "look" /\ todo[t] = {}
  /\ IF t = Boot /\ boot = "sync"
     THEN /\ boot' = "place"
          /\ todo' = [todo EXCEPT ![t] = {r.file : r \in Reports(None)}]
          /\ UNCHANGED <<pc, loc>>
     ELSE /\ boot' = IF t = Boot THEN "done" ELSE boot
          /\ Finish(t) /\ UNCHANGED todo
  /\ UNCHANGED <<files, tables, bounds, history>>

\* A month needs its year's folder first.
Found(t, id, label) == loc' = [loc EXCEPT ![t].spot = id] /\ Goto(t, label)
\* (mutant) every report lands in the folder of its year
AfterYearAlways(t) == "insert"

AfterYear(t) == IF MonthOf[Current(t)] = None THEN "insert" ELSE "month"

\* The folder a thread has not found and is about to make, by its name and its parent.
\* When another thread is about to make the same one, neither finds the other's.
Making(t) ==
  CASE pc[t] = "makeYear"  -> {<<YearOf[Current(t)], None>>}
    [] pc[t] = "makeMonth" -> {<<MonthOf[Current(t)], loc[t].spot>>}
    [] OTHER               -> {}
Race(t, name, parent) ==
  raced' = IF \E s \in Threads \ {t} : <<name, parent>> \in Making(s)
           THEN raced \cup {<<name, parent>>} ELSE raced

FindYear(t) ==
  LET name == YearOf[Current(t)]
      same == Named(name, None) IN
  /\ pc[t] = "year"
  /\ \/ \E x \in same : Found(t, x.id, AfterYear(t)) /\ UNCHANGED raced
     \/ same = {} /\ Goto(t, "makeYear") /\ Race(t, name, None) /\ UNCHANGED loc
  /\ UNCHANGED <<files, tables, todo, boot, bounds, late, excused, handmade>>

MakeYear(t) ==
  /\ pc[t] = "makeYear"
  /\ NewFolder(YearOf[Current(t)], None)
  /\ Found(t, lastFolder + 1, AfterYear(t))
  /\ UNCHANGED <<files, rows, lastRow, todo, boot, bounds, history>>

\* (mutant) the month's folder is made without a look
FindNoMonth(t) ==
  /\ pc[t] = "month"
  /\ Goto(t, "makeMonth")
  /\ UNCHANGED <<files, tables, todo, loc, boot, bounds, history>>

FindMonth(t) ==
  LET name == MonthOf[Current(t)]
      same == Named(name, loc[t].spot) IN
  /\ pc[t] = "month"
  /\ \/ \E x \in same : Found(t, x.id, "insert") /\ UNCHANGED raced
     \/ same = {} /\ Goto(t, "makeMonth") /\ Race(t, name, loc[t].spot) /\ UNCHANGED loc
  /\ UNCHANGED <<files, tables, todo, boot, bounds, late, excused, handmade>>

\* When the year's folder is gone the INSERT fails, and the report gets no folder.
MakeMonth(t) ==
  /\ pc[t] = "makeMonth"
  /\ IF IsFolder(loc[t].spot)
     THEN /\ NewFolder(MonthOf[Current(t)], loc[t].spot)
          /\ Found(t, lastFolder + 1, "insert")
          /\ Arrives("folder", lastFolder + 1, loc[t].spot)
     ELSE Found(t, None, "insert") /\ UNCHANGED <<folders, lastFolder, late>>
  /\ UNCHANGED <<files, rows, lastRow, todo, boot, bounds, excused, raced, handmade>>

\* (mutant) the row is inserted whatever it refers to
InsertAnyRow(t) ==
  LET f == Current(t) IN
  /\ pc[t] = "insert" /\ ~Placing(t)
  /\ rows' = rows \cup {[id |-> lastRow + 1, file |-> f, folder |-> loc[t].spot]}
  /\ lastRow' = lastRow + 1
  /\ Arrives("report", lastRow + 1, loc[t].spot)
  /\ Tick(t)
  /\ UNCHANGED <<files, folders, lastFolder, loc, boot, bounds, excused, raced, handmade>>

\* The INSERT fails when another sync has indexed the file, or the folder is gone since
\* it was found; that ends the sync.
InsertRow(t) ==
  LET f == Current(t) IN
  /\ pc[t] = "insert" /\ ~Placing(t)
  /\ IF RowOf(f) = {} /\ IsFolder(loc[t].spot)
     THEN /\ rows' = rows \cup {[id |-> lastRow + 1, file |-> f, folder |-> loc[t].spot]}
          /\ lastRow' = lastRow + 1
          /\ Arrives("report", lastRow + 1, loc[t].spot)
          /\ Tick(t) /\ UNCHANGED <<loc, boot>>
     ELSE /\ Finish(t)
          /\ todo' = [todo EXCEPT ![t] = {}]
          /\ boot' = IF t = Boot THEN "done" ELSE boot
          /\ UNCHANGED <<rows, lastRow, late>>
  /\ UNCHANGED <<files, folders, lastFolder, bounds, excused, raced, handmade>>

\* The backfill of main; nothing else runs yet.
PlaceRow(t) ==
  /\ pc[t] = "insert" /\ Placing(t)
  /\ rows' = {IF r.file = Current(t) THEN [r EXCEPT !.folder = loc[t].spot] ELSE r : r \in rows}
  /\ Tick(t)
  /\ UNCHANGED <<files, folders, lastRow, lastFolder, loc, boot, bounds, history>>

-----------------------------------------------------------------------------
(* Requests that change a report, and the pruning of the folder it leaves. *)

StartEdit(t, label, folder) ==
  /\ t \in Requests /\ Serving /\ pc[t] = "idle" /\ edits < MaxEdits
  /\ edits' = edits + 1
  /\ \E r \in rows : loc' = [loc EXCEPT ![t].row = r, ![t].dest = folder]
  /\ Goto(t, label)
  /\ UNCHANGED <<files, tables, todo, boot, restarts, history>>

StartMove(t)   == \E id \in {x.id : x \in folders} \cup {None} : StartEdit(t, "move", id)
StartDelete(t) == StartEdit(t, "unlink", None)

\* The UPDATE finds no row when the report is deleted, and fails when the folder is.
MoveRow(t) ==
  LET id == loc[t].row.id IN
  /\ pc[t] = "move"
  /\ IF IsFolder(loc[t].dest)
     THEN /\ rows' = PutIn(id, loc[t].dest)
          /\ Goto(t, "moved") /\ UNCHANGED loc
          /\ IF \E r \in rows : r.id = id THEN Arrives("report", id, loc[t].dest)
                                          ELSE UNCHANGED late
     ELSE Finish(t) /\ UNCHANGED <<rows, late>>
  /\ UNCHANGED <<files, folders, lastRow, lastFolder, todo, boot, bounds, excused, raced,
                 handmade>>

Prune(t, id) ==
  /\ late' = [late EXCEPT ![t] = {}]
  /\ IF id = None THEN Finish(t)
     ELSE Goto(t, "count") /\ loc' = [loc EXCEPT ![t] = [Blank EXCEPT !.target = id]]

\* The report is read again to see whether it has left its folder.
EndMove(t) ==
  LET stayed == \E r \in rows : r.id = loc[t].row.id /\ r.folder = loc[t].row.folder IN
  /\ pc[t] = "moved"
  /\ Prune(t, IF stayed THEN None ELSE loc[t].row.folder)
  /\ UNCHANGED <<files, tables, todo, boot, bounds, excused, raced, handmade>>

\* The file goes first; one that is gone already is no error.
Unlink(t) ==
  LET f == loc[t].row.file IN
  /\ pc[t] = "unlink"
  /\ disk' = disk \ {f}
  /\ excused' = IF \E s \in Syncs : pc[s] # "look" /\ Current(s) = f
                THEN excused \cup {f} ELSE excused
  /\ Goto(t, "delete")
  /\ UNCHANGED <<made, tables, todo, loc, boot, bounds, late, raced, handmade>>

\* (mutant) a deletion that finds the folder unchanged leaves the row to the next sync
DeleteRowLater(t) ==
  /\ pc[t] = "delete"
  /\ Prune(t, loc[t].row.folder)
  /\ UNCHANGED <<files, tables, todo, boot, bounds, excused, raced, handmade>>

DeleteRow(t) ==
  /\ pc[t] = "delete"
  /\ rows' = {r \in rows : r.id # loc[t].row.id}
  /\ Prune(t, loc[t].row.folder)
  /\ UNCHANGED <<files, folders, lastRow, lastFolder, todo, boot, bounds, excused, raced,
                 handmade>>

\* The folder is read together with its parent, then its reports are counted...
CountReports(t) ==
  LET id == loc[t].target IN
  /\ pc[t] = "count"
  /\ \/ \E x \in Folder(id) :
          /\ Reports(id) = {}
          /\ loc' = [loc EXCEPT ![t].above = x.parent]
          /\ Goto(t, "children")
     \/ (Folder(id) = {} \/ Reports(id) # {}) /\ Finish(t)
  /\ UNCHANGED <<files, tables, todo, boot, bounds, history>>

\* (mutant) folders inside are not counted
CountNoFolders(t) ==
  /\ pc[t] = "children"
  /\ Goto(t, "drop")
  /\ UNCHANGED <<files, tables, todo, loc, boot, bounds, history>>

\* ... and its folders; an empty one is deleted, and its parent is looked at next.
CountFolders(t) ==
  /\ pc[t] = "children"
  /\ IF Children(loc[t].target) = {} THEN Goto(t, "drop") /\ UNCHANGED <<loc, late>>
                                     ELSE Prune(t, None)
  /\ UNCHANGED <<files, tables, todo, boot, bounds, excused, raced, handmade>>

DropFolder(t) ==
  /\ pc[t] = "drop"
  /\ DeleteFolderRow(loc[t].target)
  /\ Prune(t, loc[t].above)
  /\ UNCHANGED <<files, todo, boot, bounds, excused, raced, handmade>>

-----------------------------------------------------------------------------
(* Requests that change a folder take one statement.                       *)

FolderRequest == Serving /\ edits < MaxEdits /\ edits' = edits + 1

CreateFolder ==
  /\ FolderRequest
  /\ \E name \in OwnNames, parent \in {x.id : x \in folders} \cup {None} :
       /\ NewFolder(name, parent)
       /\ Arrives("folder", lastFolder + 1, parent)
  /\ handmade' = handmade \cup {lastFolder + 1}
  /\ UNCHANGED <<files, rows, lastRow, pc, todo, loc, boot, restarts, excused, raced>>

\* A folder may be put under any folder, even itself.
UpdateFolder ==
  /\ FolderRequest
  /\ \E x \in folders : \E name \in OwnNames \cup {x.name},
                           parent \in {y.id : y \in folders} \cup {None} :
       /\ folders' = (folders \ {x}) \cup {[x EXCEPT !.name = name, !.parent = parent]}
       /\ handmade' = handmade \cup {x.id}
       /\ Arrives("folder", x.id, parent)
  /\ UNCHANGED <<files, rows, lastRow, lastFolder, pc, todo, loc, boot, restarts, excused,
                 raced>>

DeleteFolder ==
  /\ FolderRequest
  /\ \E x \in folders : DeleteFolderRow(x.id)
  /\ UNCHANGED <<files, pc, todo, loc, boot, restarts, history>>

-----------------------------------------------------------------------------
(* Report jobs, restarts.                                                  *)

Generate ==
  /\ Serving /\ Cardinality(made) < MaxMade
  /\ \E f \in Files \ made : disk' = disk \cup {f} /\ made' = made \cup {f}
  /\ UNCHANGED <<tables, pc, todo, loc, boot, bounds, history>>

\* The process stops between any two steps; main syncs and backfills before it serves.
Restart ==
  /\ restarts < MaxRestarts /\ restarts' = restarts + 1
  /\ excused' = excused \cup {loc[t].row.file : t \in {s \in Threads : pc[s] = "delete"}}
  /\ pc' = [t \in Threads |-> IF t = Boot THEN "look" ELSE "idle"]
  /\ todo' = [t \in Threads |-> IF t = Boot THEN disk ELSE {}]
  /\ loc' = [t \in Threads |-> Blank] /\ late' = [t \in Threads |-> {}]
  /\ boot' = "sync"
  /\ UNCHANGED <<files, tables, edits, raced, handmade>>

Init ==
  /\ disk \in SUBSET Files /\ made = disk
  /\ rows = {} /\ folders = {} /\ lastRow = 0 /\ lastFolder = 0
  /\ pc = [t \in Threads |-> IF t = Boot THEN "look" ELSE "idle"]
  /\ todo = [t \in Threads |-> IF t = Boot THEN disk ELSE {}]
  /\ loc = [t \in Threads |-> Blank]
  /\ boot = "sync" /\ edits = 0 /\ restarts = 0
  /\ late = [t \in Threads |-> {}] /\ excused = {} /\ raced = {} /\ handmade = {}

Sync(t) ==
  \/ LookAtFile(t) \/ EndSync(t) \/ FindYear(t) \/ MakeYear(t)
  \/ FindMonth(t) \/ MakeMonth(t) \/ InsertRow(t) \/ PlaceRow(t)
Edit(t) ==
  \/ MoveRow(t) \/ EndMove(t) \/ Unlink(t) \/ DeleteRow(t)
  \/ CountReports(t) \/ CountFolders(t) \/ DropFolder(t)
Operators == CreateFolder \/ UpdateFolder \/ DeleteFolder

Next ==
  \/ \E t \in Threads : Sync(t) \/ Edit(t) \/ StartSync(t) \/ StartMove(t) \/ StartDelete(t)
  \/ Operators \/ Generate \/ Restart

Spec == Init /\ [][Next]_vars

-----------------------------------------------------------------------------
(* Properties.                                                             *)

\* A report whose file is gone is not listed, although the file and the row go in two
\* steps and every request to the list indexes what it finds: except while its deletion
\* is under way, after a restart in the middle of it, or when the file was deleted under
\* a sync that had begun to index it.
RowsHaveFiles ==
  \A r \in rows :
    r.file \in disk \cup excused \/ \E t \in Threads : pc[t] = "delete" /\ loc[t].row.id = r.id

\* Pruning takes empty folders only, on its way up too: what a folder holds when it is
\* about to be deleted came into it after the prune had counted.
PruneSpares ==
  \A t \in Threads :
    /\ pc[t] \in {"children", "drop"} =>
         {<<"report", r.id>> : r \in Reports(loc[t].target)} \subseteq late[t]
    /\ pc[t] = "drop" =>
         {<<"folder", x.id>> : x \in Children(loc[t].target)} \subseteq late[t]

\* Looking for a folder and making it are two statements, with no lock; still a year has
\* one folder at the root, and a month one in the folder of its year, unless two syncs
\* were between the two statements for that very folder at once, or an operator made or
\* changed one of the two.  A month whose year's folder is deleted is left at the root,
\* where no sync looks for it: the next report of the month gets another folder, in a
\* new one of the year, and nothing is said of those at the root.
FoldersUnique ==
  \A x, y \in {z \in folders : z.id \notin handmade} :
    /\ x.name = y.name /\ x.parent = y.parent
    /\ <<x.name, x.parent>> \notin raced
    /\ x.parent = None => x.name \in {YearOf[f] : f \in Files}
    => x = y

\* A folder chosen for a file is stored some statements later; unless an operator has
\* changed that folder, it is then the one of the file's month, or of its year.
FiledByPeriod ==
  [][\A t \in Threads : pc[t] = "insert" /\ pc'[t] # "insert" =>
       \A r \in rows' \ rows : r.folder \notin handmade \cup {None} =>
         \E x \in folders' :
           /\ x.id = r.folder
           /\ x.name = IF MonthOf[r.file] = None THEN YearOf[r.file] ELSE MonthOf[r.file]]_vars

\* When main starts to serve after its backfill, every report that has a period has a
\* folder, whatever requests, prunes and stops have left behind.
BackfillComplete ==
  [][boot = "place" /\ boot' = "done" =>
       \A r \in rows' : YearOf[r.file] # None => r.folder # None]_vars
=============================================================================
