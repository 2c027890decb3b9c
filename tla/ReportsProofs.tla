----------------------------- MODULE ReportsProofs -----------------------------
(***************************************************************************)
(* Theorems about the index of the report files: the tables keep their     *)
(* schema, a report in the list has its file, pruning takes empty folders, *)
(* syncs share folders, reports are filed by their period, and the         *)
(* backfill leaves no report without a folder.                             *)
(***************************************************************************)
EXTENDS Reports, WellFoundedInduction, TLAPS

-----------------------------------------------------------------------------
(* The inductive invariants.                                               *)

\* Nothing but main works on reports until it serves, and then main is done; the folder
\* main has found is there until it stores it.
MainAlone ==
  /\ boot # "done" => /\ \A t \in Requests : pc[t] = "idle"
                      /\ pc[Boot] \in Searching
                      /\ IsFolder(loc[Boot].spot)
  /\ boot = "done" => pc[Boot] = "idle"

\* A prune looks at a folder, never at the reports that have none.
PruneTarget == \A t \in Threads : pc[t] \in Pruning => loc[t].target \in Nat

\* The month of a file is looked for inside a folder that was there.
MonthInYear ==
  \A t \in Threads : pc[t] \in {"month", "makeMonth"} =>
    MonthOf[Current(t)] # None /\ loc[t].spot \in Nat

TablesInv == TypeOK /\ MainAlone /\ PruneTarget /\ MonthInYear

\* What a thread works on while it looks for the folder of a file it will index.
Indexing(t) == pc[t] \in Searching \ {"look"} /\ ~Placing(t)

\* Files that are listed or indexed were made.
MadeFiles == (\A r \in rows : r.file \in made) /\ \A t \in Threads : todo[t] \subseteq made

\* A file being indexed is on disk or excused.
IndexedFiles == \A t \in Threads : Indexing(t) => Current(t) \in disk \cup excused

\* The report of a request keeps its id and file; a deletion that has unlinked the file
\* has it gone for good, and one that has not still finds the row.
Requesting == {"move", "moved", "unlink", "delete"}
RequestOf(t) ==
  /\ pc[t] \in Requesting =>
       /\ loc[t].row.id <= lastRow /\ loc[t].row.file \in made
       /\ \A r \in rows : r.id = loc[t].row.id => r.file = loc[t].row.file
  /\ pc[t] = "delete" => loc[t].row.file \notin disk
  /\ pc[t] = "unlink" /\ loc[t].row.file \in disk =>
       \E r \in rows : r.id = loc[t].row.id /\ r.file = loc[t].row.file
RequestFiles == \A t \in Threads : RequestOf(t)

FilesInv == MadeFiles /\ IndexedFiles /\ RequestFiles /\ RowsHaveFiles

\* The periods of the files name every folder no operator has touched.
Years  == {YearOf[f] : f \in Files}
Months == {MonthOf[f] : f \in Files} \ {None}
Own    == {x \in folders : x.id \notin handmade}
FolderKinds == \A x \in Own : (x.name \in Years /\ x.parent = None) \/ x.name \in Months

\* A folder a sync is about to make, unless two were about to, no other thread is about to
\* make, and nobody has made.
MakingFirst ==
  \A t \in Threads : \A place \in Making(t) \ raced :
    /\ \A s \in Threads \ {t} : place \notin Making(s)
    /\ \A x \in Own : <<x.name, x.parent>> # place

FoldersInv == FolderKinds /\ MakingFirst /\ FoldersUnique

\* The folder a thread is about to store is the period's, if it is there still.
Period(f) == IF MonthOf[f] = None THEN YearOf[f] ELSE MonthOf[f]
SpotOf(t) ==
  /\ pc[t] \in {"month", "makeMonth", "insert"} /\ loc[t].spot # None =>
       loc[t].spot <= lastFolder
  /\ pc[t] = "insert" /\ loc[t].spot # None =>
       \A x \in Own : x.id = loc[t].spot => x.name = Period(Current(t))
SpotInv == \A t \in Threads : SpotOf(t)

\* The backfill still has every report that has a period and no folder before it, and
\* finds a folder for it.
BackfillInv ==
  boot = "place" =>
    /\ \A r \in rows : r.folder = None /\ YearOf[r.file] # None => r.file \in todo[Boot]
    /\ pc[Boot] = "insert" /\ YearOf[Current(Boot)] # None => loc[Boot].spot # None

\* TypeOK in three parts: the tables, the threads, the rest.
TableType ==
  /\ rows \subseteq Rows /\ folders \subseteq Folders
  /\ lastRow \in Nat /\ lastFolder \in Nat
  /\ SchemaHolds
ThreadType ==
  /\ pc \in [Threads -> {"idle", "move", "moved", "unlink", "delete"} \cup Searching \cup Pruning]
  /\ todo \in [Threads -> SUBSET Files]
  /\ \A t \in Threads : pc[t] \in Searching \ {"look"} => todo[t] # {}
  /\ loc \in [Threads -> Locals]
  /\ \A t \in Threads : pc[t] \in {"move", "moved", "unlink", "delete"} => loc[t].row \in Rows
  /\ boot \in {"sync", "place", "done"}
RestType ==
  /\ disk \subseteq made /\ made \subseteq Files
  /\ edits \in Nat /\ restarts \in Nat
  /\ late \in [Threads -> SUBSET ({"report", "folder"} \X Nat)]
  /\ excused \subseteq Files /\ raced \subseteq Names \X Ids /\ handmade \subseteq Nat

LEMMA TypeParts == TypeOK <=> TableType /\ ThreadType /\ RestType
  BY DEF TypeOK, TableType, ThreadType, RestType

-----------------------------------------------------------------------------
(* What the helpers of the model do.                                       *)

\* The least number of a set of numbers.
LEMMA LeastNumber ==
  ASSUME NEW S \in SUBSET Nat, S # {}
  PROVE  \E x \in S : \A y \in S : x <= y
<1>1. IsWellFoundedOn(OpToRel(<, Nat), Nat)
  BY Zenon, NatLessThanWellFounded
<1>2. PICK x \in S : \A y \in S : <<y, x>> \notin OpToRel(<, Nat)
  BY <1>1, WFMin, Zenon
<1>3. ASSUME NEW y \in S PROVE x <= y
  <2>1. <<y, x>> \notin OpToRel(<, Nat)
    BY <1>2, Zenon
  <2>2. ~(y < x)
    BY <2>1, Zenon DEF OpToRel
  <2> QED
    BY <2>2
<1> QED
  BY <1>3

\* A sync that has files to do works on one of them.
LEMMA CurrentInTodo ==
  ASSUME NEW t, todo[t] \in SUBSET Files, todo[t] # {}
  PROVE  Current(t) \in todo[t]
<1>1. todo[t] \in SUBSET Nat
  BY FileAssumption
<1>2. \E f \in todo[t] : \A g \in todo[t] : f <= g
  BY <1>1, LeastNumber
<1> QED
  BY <1>2 DEF Current

\* Reports of a set get another folder: every change of the table but INSERT and DELETE.
Refile(R, S, to) == {IF r \in S THEN [r EXCEPT !.folder = to] ELSE r : r \in R}

\* Refiling keeps ids and files, and changes the folder of the chosen reports only.
LEMMA RefileFacts ==
  ASSUME NEW R \in SUBSET Rows, NEW S, NEW to \in Ids
  PROVE  /\ Refile(R, S, to) \subseteq Rows
         /\ \A q \in Refile(R, S, to) : \E r \in R :
              q.id = r.id /\ q.file = r.file /\ (r \in S => q.folder = to)
                                             /\ (r \notin S => q = r)
         /\ \A r \in R : \E q \in Refile(R, S, to) :
              q.id = r.id /\ q.file = r.file /\ (r \in S => q.folder = to)
                                             /\ (r \notin S => q = r)
<1>1. ASSUME NEW r \in R
      PROVE  LET q == IF r \in S THEN [r EXCEPT !.folder = to] ELSE r IN
             /\ q \in Rows /\ q.id = r.id /\ q.file = r.file
             /\ (r \in S => q.folder = to) /\ (r \notin S => q = r)
  BY DEF Rows
<1> QED
  BY <1>1, Zenon DEF Refile

\* The statements of the model that refile.
LEMMA PutInRefiles ==
  ASSUME NEW id, NEW folder
  PROVE  PutIn(id, folder) = Refile(rows, {r \in rows : r.id = id}, folder)
  BY Zenon DEF PutIn, Refile

\* What a table of reports must satisfy by itself, and with the folders.
Keyed(R, last) ==
  /\ \A r, q \in R : r.id = q.id \/ r.file = q.file => r = q
  /\ \A r \in R : r.id <= last
Filed(R, F) == \A r \in R : r.folder # None => \E x \in F : x.id = r.folder

\* Refiling keeps the keys, and the foreign key when the folder is there.
LEMMA RefileKeepsSchema ==
  ASSUME NEW R \in SUBSET Rows, NEW S, NEW to \in Ids, NEW last \in Nat, NEW F,
         Keyed(R, last), Filed(R, F), to = None \/ \E x \in F : x.id = to
  PROVE  Keyed(Refile(R, S, to), last) /\ Filed(Refile(R, S, to), F)
<1> DEFINE Q == Refile(R, S, to)
           Same(q, r) == q.id = r.id /\ q.file = r.file
                         /\ (r \in S => q.folder = to) /\ (r \notin S => q = r)
<1>1. /\ Q \subseteq Rows
      /\ \A q \in Q : \E r \in R : Same(q, r)
  BY RefileFacts
<1> HIDE DEF Q
<1>2. ASSUME NEW q \in Q, NEW p \in Q, p.id = q.id \/ p.file = q.file
      PROVE  p = q
  <2>1. PICK r \in R : Same(q, r)
    BY <1>1
  <2>2. PICK s \in R : Same(p, s)
    BY <1>1
  <2>3. r = s
    BY <1>2, <2>1, <2>2 DEF Keyed
  <2>4. p.id = q.id /\ p.file = q.file /\ p.folder = q.folder
    BY <2>1, <2>2, <2>3
  <2> QED
    BY <1>1, <2>4 DEF Rows
<1>3. \A q \in Q : q.id <= last
  BY <1>1 DEF Keyed
<1>4. Filed(Q, F)
  BY <1>1 DEF Filed
<1> QED
  BY <1>2, <1>3, <1>4 DEF Keyed, Q

-----------------------------------------------------------------------------
(* Every write to the tables keeps the schema.                             *)

\* The same for folders.
Nested(F, last) ==
  /\ \A x, y \in F : x.id = y.id => x = y
  /\ \A x \in F : x.id <= last
  /\ \A x \in F : x.parent # None => \E y \in F : y.id = x.parent

LEMMA SchemaParts ==
  TableType <=> /\ rows \subseteq Rows /\ folders \subseteq Folders
                /\ lastRow \in Nat /\ lastFolder \in Nat
                /\ Keyed(rows, lastRow) /\ Filed(rows, folders) /\ Nested(folders, lastFolder)
  BY DEF TableType, SchemaHolds, Keyed, Filed, Nested

LEMMA SchemaPartsNext ==
  TableType' <=> /\ rows' \subseteq Rows /\ folders' \subseteq Folders
                 /\ lastRow' \in Nat /\ lastFolder' \in Nat
                 /\ Keyed(rows', lastRow') /\ Filed(rows', folders')
                 /\ Nested(folders', lastFolder')
  BY DEF TableType, SchemaHolds, Keyed, Filed, Nested

\* A new folder is inside one that is there.
LEMMA NewFolderKeepsSchema ==
  ASSUME TableType, NEW name \in Names, NEW parent \in Ids, IsFolder(parent),
         NewFolder(name, parent), UNCHANGED <<rows, lastRow>>
  PROVE  TableType'
<1> DEFINE new == [id |-> lastFolder + 1, name |-> name, parent |-> parent]
<1>1. folders' = folders \cup {new} /\ lastFolder' = lastFolder + 1 /\ new \in Folders
  BY DEF NewFolder, TableType, Folders
<1>2. new.id = lastFolder + 1 /\ new.parent = parent
  OBVIOUS
<1>3. parent # None => \E y \in folders : y.id = parent
  BY DEF IsFolder, Folder
<1> HIDE DEF new
<1>4. Nested(folders', lastFolder')
  BY <1>1, <1>2, <1>3, SchemaParts DEF Nested, Folders
<1>5. Filed(rows', folders')
  BY <1>1, SchemaParts DEF Filed
<1>6. /\ rows' \subseteq Rows /\ folders' \subseteq Folders
      /\ lastRow' \in Nat /\ lastFolder' \in Nat
      /\ Keyed(rows', lastRow')
  BY <1>1, SchemaParts, SchemaPartsNext
<1> QED
  BY <1>4, <1>5, <1>6, SchemaParts, SchemaPartsNext

\* A new row has the next id and a file that had no row.
LEMMA NewRowKeepsSchema ==
  ASSUME TableType, NEW f \in Files, NEW folder \in Ids, IsFolder(folder), RowOf(f) = {},
         rows' = rows \cup {[id |-> lastRow + 1, file |-> f, folder |-> folder]},
         lastRow' = lastRow + 1, UNCHANGED <<folders, lastFolder>>
  PROVE  TableType'
<1> DEFINE new == [id |-> lastRow + 1, file |-> f, folder |-> folder]
<1>1. new \in Rows /\ new.id = lastRow + 1 /\ new.file = f /\ new.folder = folder
  BY DEF TableType, Rows
<1>2. rows' = rows \cup {new}
  OBVIOUS
<1> HIDE DEF new
<1>3. Keyed(rows', lastRow')
  BY <1>1, <1>2, SchemaParts DEF Keyed, RowOf, Rows
<1>4. Filed(rows', folders')
  BY <1>1, <1>2, SchemaParts DEF Filed, IsFolder, Folder
<1> QED
  BY <1>1, <1>2, <1>3, <1>4, SchemaParts, SchemaPartsNext

\* Refiling into a folder that is there.
LEMMA RefilingKeepsSchema ==
  ASSUME TableType, NEW S, NEW to \in Ids, IsFolder(to), rows' = Refile(rows, S, to),
         UNCHANGED <<folders, lastRow, lastFolder>>
  PROVE  TableType'
<1>1. to = None \/ \E x \in folders : x.id = to
  BY DEF IsFolder, Folder
<1>2. rows \in SUBSET Rows /\ lastRow \in Nat /\ Keyed(rows, lastRow) /\ Filed(rows, folders)
  BY SchemaParts
<1>3. rows' \subseteq Rows
  BY <1>2, RefileFacts
<1>4. Keyed(rows', lastRow') /\ Filed(rows', folders')
  BY <1>1, <1>2, RefileKeepsSchema
<1> QED
  BY <1>3, <1>4, SchemaParts, SchemaPartsNext

LEMMA DeletedRowKeepsSchema ==
  ASSUME TableType, NEW id, rows' = {r \in rows : r.id # id},
         UNCHANGED <<folders, lastRow, lastFolder>>
  PROVE  TableType'
<1>1. Keyed(rows', lastRow') /\ Filed(rows', folders') /\ rows' \subseteq Rows
  BY SchemaParts DEF Keyed, Filed
<1> QED
  BY <1>1, SchemaParts, SchemaPartsNext

\* Folders of a set come to the top.
Lift(F, id) == {IF x.parent = id THEN [x EXCEPT !.parent = None] ELSE x : x \in F}

\* Lifting keeps ids and names, and changes the parent id only.
LEMMA LiftFacts ==
  ASSUME NEW F \in SUBSET Folders, NEW id \in Nat
  PROVE  /\ Lift(F, id) \subseteq Folders
         /\ \A y \in Lift(F, id) : \E x \in F :
              y.id = x.id /\ y.name = x.name /\ (x.parent = id => y.parent = None)
                                             /\ (x.parent # id => y = x)
         /\ \A x \in F : \E y \in Lift(F, id) :
              y.id = x.id /\ y.name = x.name /\ (x.parent = id => y.parent = None)
                                             /\ (x.parent # id => y = x)
<1>1. ASSUME NEW x \in F
      PROVE  LET y == IF x.parent = id THEN [x EXCEPT !.parent = None] ELSE x IN
             /\ y \in Folders /\ y.id = x.id /\ y.name = x.name
             /\ (x.parent = id => y.parent = None) /\ (x.parent # id => y = x)
  BY DEF Folders, Ids
<1> QED
  BY <1>1, Zenon DEF Lift

\* What DELETE of a folder does to both tables.
LEMMA DeleteFolderRowIs ==
  ASSUME NEW id, DeleteFolderRow(id)
  PROVE  /\ rows' = Refile(rows, {r \in rows : r.folder = id}, None)
         /\ folders' = Lift(folders \ Folder(id), id)
         /\ UNCHANGED <<lastRow, lastFolder>>
<1>1. rows' = Refile(rows, {r \in rows : r.folder = id}, None)
  BY Zenon DEF DeleteFolderRow, Refile
<1> QED
  BY <1>1 DEF DeleteFolderRow, Lift

\* ON DELETE SET NULL leaves no reference to the folder.
LEMMA DeletedFolderKeepsSchema ==
  ASSUME TableType, NEW id \in Nat, DeleteFolderRow(id)
  PROVE  TableType'
<1> DEFINE F == folders \ Folder(id)
<1>1. /\ rows' = Refile(rows, {r \in rows : r.folder = id}, None)
      /\ folders' = Lift(F, id) /\ UNCHANGED <<lastRow, lastFolder>>
  BY DeleteFolderRowIs
<1>2. rows \in SUBSET Rows /\ F \in SUBSET Folders /\ None \in Ids
  BY SchemaParts DEF Ids
<1>3. /\ rows' \subseteq Rows
      /\ \A q \in rows' : \E r \in rows :
           q.id = r.id /\ q.file = r.file /\ (r.folder = id => q.folder = None)
                                          /\ (r.folder # id => q = r)
  <2>1. /\ rows' \subseteq Rows
        /\ \A q \in rows' : \E r \in rows :
             q.id = r.id /\ q.file = r.file
             /\ (r \in {s \in rows : s.folder = id} => q.folder = None)
             /\ (r \notin {s \in rows : s.folder = id} => q = r)
    BY <1>1, <1>2, RefileFacts
  <2> QED
    BY <2>1
<1>4. /\ folders' \subseteq Folders
      /\ \A y \in folders' : \E x \in F :
           y.id = x.id /\ y.name = x.name /\ (x.parent = id => y.parent = None)
                                          /\ (x.parent # id => y = x)
      /\ \A x \in F : \E y \in folders' : y.id = x.id
  BY <1>1, <1>2, LiftFacts
<1>5. F = {x \in folders : x.id # id}
  BY DEF Folder
<1> HIDE DEF F
<1>6. Nested(folders, lastFolder) /\ Filed(rows, folders) /\ Keyed(rows, lastRow)
  BY SchemaParts
<1>7. Keyed(rows', lastRow')
  <2>1. Keyed(rows', lastRow)
    <3>1. Keyed(rows, lastRow) /\ Filed(rows, folders) /\ lastRow \in Nat
      BY <1>6, SchemaParts
    <3> QED
      BY <3>1, <1>1, <1>2, RefileKeepsSchema
  <2> QED
    BY <2>1, <1>1
<1>8. Filed(rows', folders')
  BY <1>3, <1>4, <1>5, <1>6 DEF Filed
<1>9. ASSUME NEW y \in folders' PROVE
        /\ y.id <= lastFolder' /\ (y.parent # None => \E z \in folders' : z.id = y.parent)
  BY <1>1, <1>4, <1>5, <1>6 DEF Nested
<1>10. ASSUME NEW y \in folders', NEW z \in folders', y.id = z.id PROVE y = z
  <2>1. PICK x \in F : y.id = x.id /\ y.name = x.name /\ (x.parent = id => y.parent = None)
                       /\ (x.parent # id => y = x)
    BY <1>4
  <2>2. PICK w \in F : z.id = w.id /\ z.name = w.name /\ (w.parent = id => z.parent = None)
                       /\ (w.parent # id => z = w)
    BY <1>4
  <2>3. x = w
    BY <1>5, <1>6, <1>10, <2>1, <2>2 DEF Nested
  <2> QED
    BY <1>4, <2>1, <2>2, <2>3 DEF Folders
<1> QED
  BY <1>1, <1>3, <1>4, <1>7, <1>8, <1>9, <1>10, SchemaParts, SchemaPartsNext DEF Nested

\* An operator renames a folder or puts it elsewhere.
LEMMA UpdatedFolderKeepsSchema ==
  ASSUME TableType, NEW x \in folders, NEW name \in Names, NEW parent \in Ids,
         IsFolder(parent),
         folders' = (folders \ {x}) \cup {[x EXCEPT !.name = name, !.parent = parent]},
         UNCHANGED <<rows, lastRow, lastFolder>>
  PROVE  TableType'
<1> DEFINE new == [x EXCEPT !.name = name, !.parent = parent]
<1>1. new \in Folders /\ new.id = x.id /\ new.parent = parent
  BY DEF TableType, Folders
<1>2. folders' = (folders \ {x}) \cup {new}
  OBVIOUS
<1> HIDE DEF new
<1>3. \A y \in folders : \E z \in folders' : z.id = y.id
  BY <1>1, <1>2
<1>4. parent # None => \E y \in folders : y.id = parent
  BY DEF IsFolder, Folder
<1>5. Nested(folders', lastFolder')
  BY <1>1, <1>2, <1>3, <1>4, SchemaParts DEF Nested
<1>6. Filed(rows', folders')
  BY <1>3, SchemaParts DEF Filed
<1> QED
  BY <1>1, <1>2, <1>5, <1>6, SchemaParts, SchemaPartsNext

-----------------------------------------------------------------------------
(* Every step keeps the schema and the types of what the threads hold.     *)

\* Steps that leave the tables alone.
LEMMA SameTables ==
  ASSUME TableType, UNCHANGED tables
  PROVE  TableType'
  BY DEF TableType, SchemaHolds, tables

\* What a sync works on is a file, with the names of its folders.
LEMMA CurrentIsFile ==
  ASSUME TypeOK, NEW t \in Threads, todo[t] # {}
  PROVE  /\ Current(t) \in todo[t] /\ Current(t) \in Files
         /\ YearOf[Current(t)] \in Names /\ MonthOf[Current(t)] \in Names
<1>1. todo[t] \in SUBSET Files
  BY DEF TypeOK
<1>2. Current(t) \in todo[t]
  BY <1>1, CurrentInTodo
<1> QED
  BY <1>1, <1>2 DEF Names

\* The ids that operators choose folders from.
LEMMA ChosenFolder ==
  ASSUME TypeOK, NEW id \in {x.id : x \in folders} \cup {None}
  PROVE  id \in Ids /\ IsFolder(id)
  BY DEF TypeOK, Folders, Ids, IsFolder, Folder

LEMMA TableStep ==
  ASSUME TypeOK, MainAlone, PruneTarget, Next
  PROVE  TableType'
<1>t. TableType /\ ThreadType
  BY TypeParts
<1>1. ASSUME NEW t \in Threads, Sync(t) PROVE TableType'
  <2>1. CASE LookAtFile(t) \/ EndSync(t) \/ FindYear(t) \/ FindMonth(t)
    BY <2>1, <1>t, SameTables DEF LookAtFile, EndSync, FindYear, FindMonth, tables
  <2>2. CASE MakeYear(t)
    <3>1. pc[t] = "makeYear" /\ NewFolder(YearOf[Current(t)], None) /\ UNCHANGED <<rows, lastRow>>
      BY <2>2 DEF MakeYear
    <3>2. YearOf[Current(t)] \in Names
      BY <3>1, CurrentIsFile DEF TypeOK, Searching
    <3> QED
      BY <1>t, <3>1, <3>2, NewFolderKeepsSchema DEF IsFolder, Ids
  <2>3. CASE MakeMonth(t)
    <3>1. pc[t] = "makeMonth" /\ UNCHANGED <<rows, lastRow>>
      BY <2>3 DEF MakeMonth
    <3>2. MonthOf[Current(t)] \in Names /\ loc[t].spot \in Ids
      BY <3>1, CurrentIsFile DEF TypeOK, Searching, Locals
    <3>3. CASE IsFolder(loc[t].spot)
      <4>1. NewFolder(MonthOf[Current(t)], loc[t].spot)
        BY <2>3, <3>3 DEF MakeMonth
      <4> QED
        BY <1>t, <3>1, <3>2, <3>3, <4>1, NewFolderKeepsSchema
    <3>4. CASE ~IsFolder(loc[t].spot)
      BY <1>t, <2>3, <3>4, SameTables DEF MakeMonth, tables
    <3> QED
      BY <3>3, <3>4
  <2>4. CASE InsertRow(t)
    <3>1. pc[t] = "insert" /\ UNCHANGED <<folders, lastFolder>>
      BY <2>4 DEF InsertRow
    <3>2. Current(t) \in Files /\ loc[t].spot \in Ids
      BY <3>1, CurrentIsFile DEF TypeOK, Searching, Locals
    <3>3. CASE RowOf(Current(t)) = {} /\ IsFolder(loc[t].spot)
      <4>1. /\ rows' = rows \cup {[id |-> lastRow + 1, file |-> Current(t),
                                   folder |-> loc[t].spot]}
            /\ lastRow' = lastRow + 1
        BY <2>4, <3>3 DEF InsertRow
      <4> QED
        BY <1>t, <3>1, <3>2, <3>3, <4>1, NewRowKeepsSchema
    <3>4. CASE ~(RowOf(Current(t)) = {} /\ IsFolder(loc[t].spot))
      BY <1>t, <2>4, <3>4, SameTables DEF InsertRow, tables
    <3> QED
      BY <3>3, <3>4
  <2>5. CASE PlaceRow(t)
    <3>1. /\ t = Boot /\ boot = "place"
          /\ rows' = Refile(rows, {r \in rows : r.file = Current(t)}, loc[t].spot)
          /\ UNCHANGED <<folders, lastRow, lastFolder>>
      BY <2>5, Zenon DEF PlaceRow, Placing, Refile
    <3>2. loc[t].spot \in Ids /\ IsFolder(loc[t].spot)
      BY <3>1 DEF MainAlone, TypeOK, Locals
    <3> QED
      BY <1>t, <3>1, <3>2, RefilingKeepsSchema
  <2> QED
    BY <1>1, <2>1, <2>2, <2>3, <2>4, <2>5 DEF Sync
<1>2. ASSUME NEW t \in Threads, Edit(t) PROVE TableType'
  <2>1. CASE EndMove(t) \/ Unlink(t) \/ CountReports(t) \/ CountFolders(t)
    BY <2>1, <1>t, SameTables DEF EndMove, Unlink, CountReports, CountFolders, tables
  <2>2. CASE MoveRow(t)
    <3>1. UNCHANGED <<folders, lastRow, lastFolder>>
      BY <2>2 DEF MoveRow
    <3>2. CASE IsFolder(loc[t].dest)
      <4>1. rows' = Refile(rows, {r \in rows : r.id = loc[t].row.id}, loc[t].dest)
        BY <2>2, <3>2, PutInRefiles DEF MoveRow
      <4>2. loc[t].dest \in Ids
        BY DEF TypeOK, Locals
      <4> QED
        BY <1>t, <3>1, <3>2, <4>1, <4>2, RefilingKeepsSchema
    <3>3. CASE ~IsFolder(loc[t].dest)
      BY <1>t, <2>2, <3>1, <3>3, SameTables DEF MoveRow, tables
    <3> QED
      BY <3>2, <3>3
  <2>3. CASE DeleteRow(t)
    BY <1>t, <2>3, DeletedRowKeepsSchema DEF DeleteRow
  <2>4. CASE DropFolder(t)
    <3>1. DeleteFolderRow(loc[t].target) /\ loc[t].target \in Nat
      BY <2>4 DEF DropFolder, PruneTarget, Pruning
    <3> QED
      BY <1>t, <3>1, DeletedFolderKeepsSchema
  <2> QED
    BY <1>2, <2>1, <2>2, <2>3, <2>4 DEF Edit
<1>3. ASSUME NEW t \in Threads, StartSync(t) \/ StartMove(t) \/ StartDelete(t)
      PROVE  TableType'
  BY <1>t, <1>3, SameTables DEF StartSync, StartMove, StartDelete, StartEdit, tables
<1>4. CASE CreateFolder
  <2>1. PICK name \in OwnNames, parent \in {x.id : x \in folders} \cup {None} :
          NewFolder(name, parent)
    BY <1>4 DEF CreateFolder
  <2>2. UNCHANGED <<rows, lastRow>> /\ name \in Names
    BY <1>4 DEF CreateFolder, Names
  <2>3. parent \in Ids /\ IsFolder(parent)
    BY ChosenFolder
  <2> QED
    BY <1>t, <2>1, <2>2, <2>3, NewFolderKeepsSchema
<1>5. CASE UpdateFolder
  <2>0. PICK x \in folders : \E name \in OwnNames \cup {x.name},
                                parent \in {y.id : y \in folders} \cup {None} :
          folders' = (folders \ {x}) \cup {[x EXCEPT !.name = name, !.parent = parent]}
    BY <1>5 DEF UpdateFolder
  <2>1. PICK name \in OwnNames \cup {x.name}, parent \in {y.id : y \in folders} \cup {None} :
          folders' = (folders \ {x}) \cup {[x EXCEPT !.name = name, !.parent = parent]}
    BY <2>0, Zenon
  <2>2. UNCHANGED <<rows, lastRow, lastFolder>> /\ name \in Names
    BY <1>5 DEF UpdateFolder, Names, TypeOK, Folders
  <2>3. parent \in Ids /\ IsFolder(parent)
    BY ChosenFolder
  <2> QED
    BY <1>t, <2>1, <2>2, <2>3, UpdatedFolderKeepsSchema, Zenon
<1>6. CASE DeleteFolder
  <2>1. PICK x \in folders : DeleteFolderRow(x.id)
    BY <1>6 DEF DeleteFolder
  <2>2. x.id \in Nat
    BY DEF TypeOK, Folders
  <2> QED
    BY <1>t, <2>1, <2>2, DeletedFolderKeepsSchema
<1>7. CASE Generate \/ Restart
  BY <1>t, <1>7, SameTables DEF Generate, Restart, tables
<1> QED
  BY <1>1, <1>2, <1>3, <1>4, <1>5, <1>6, <1>7 DEF Next, Operators

\* The places a thread may be at.
Places == {"idle", "move", "moved", "unlink", "delete"} \cup Searching \cup Pruning

\* What a step of one thread must keep of the threads' types.
LEMMA ThreadMoves ==
  ASSUME ThreadType, NEW t \in Threads, NEW label \in Places, Goto(t, label),
         NEW files2 \in SUBSET Files, todo' = [todo EXCEPT ![t] = files2] \/ UNCHANGED todo,
         label \in Searching \ {"look"} => UNCHANGED todo /\ todo[t] # {},
         loc' \in [Threads -> Locals], \A s \in Threads \ {t} : loc'[s] = loc[s],
         label \in {"move", "moved", "unlink", "delete"} => loc'[t].row \in Rows,
         boot' \in {"sync", "place", "done"}
  PROVE  ThreadType'
<1>1. pc' \in [Threads -> Places] /\ pc'[t] = label /\ \A s \in Threads \ {t} : pc'[s] = pc[s]
  BY DEF ThreadType, Goto, Places
<1>2. todo' \in [Threads -> SUBSET Files] /\ \A s \in Threads \ {t} : todo'[s] = todo[s]
  BY DEF ThreadType
<1>3. ASSUME NEW s \in Threads, pc'[s] \in Searching \ {"look"} PROVE todo'[s] # {}
  BY <1>1, <1>2, <1>3 DEF ThreadType
<1>4. ASSUME NEW s \in Threads, pc'[s] \in {"move", "moved", "unlink", "delete"}
      PROVE  loc'[s].row \in Rows
  BY <1>1, <1>4 DEF ThreadType
<1> QED
  BY <1>1, <1>2, <1>3, <1>4 DEF ThreadType, Places

\* A thread that is done, or starts to prune, forgets its request.
LEMMA FinishKeepsThreads ==
  ASSUME ThreadType, NEW t \in Threads, Finish(t), NEW files2 \in SUBSET Files,
         todo' = [todo EXCEPT ![t] = files2] \/ UNCHANGED todo,
         boot' \in {"sync", "place", "done"}
  PROVE  ThreadType'
<1>1. loc' = [loc EXCEPT ![t] = Blank] /\ Goto(t, "idle")
  BY DEF Finish
<1>2. Blank \in Locals
  BY DEF Blank, Locals, Ids
<1>3. loc' \in [Threads -> Locals] /\ \A s \in Threads \ {t} : loc'[s] = loc[s]
  BY <1>1, <1>2 DEF ThreadType
<1>4. "idle" \in Places /\ "idle" \notin Searching
  BY DEF Places, Searching
<1> QED
  BY <1>1, <1>3, <1>4, ThreadMoves

LEMMA PruneKeepsThreads ==
  ASSUME ThreadType, NEW t \in Threads, NEW id \in Ids, Prune(t, id), UNCHANGED <<todo, boot>>
  PROVE  ThreadType'
<1>b. boot' \in {"sync", "place", "done"} /\ {} \in SUBSET Files
  BY DEF ThreadType
<1>1. CASE id = None
  <2>1. Finish(t)
    BY <1>1 DEF Prune
  <2> QED
    BY <1>b, <2>1, FinishKeepsThreads
<1>2. CASE id # None
  <2>1. Goto(t, "count") /\ loc' = [loc EXCEPT ![t] = [Blank EXCEPT !.target = id]]
    BY <1>2 DEF Prune
  <2>2. [Blank EXCEPT !.target = id] \in Locals
    BY DEF Blank, Locals, Ids
  <2>3. loc' \in [Threads -> Locals] /\ \A s \in Threads \ {t} : loc'[s] = loc[s]
    BY <2>1, <2>2 DEF ThreadType
  <2>4. "count" \in Places /\ "count" \notin Searching
    BY DEF Places, Searching, Pruning
  <2> QED
    BY <1>b, <2>1, <2>3, <2>4, ThreadMoves
<1> QED
  BY <1>1, <1>2

\* A step of a search, which keeps all but the folder found.
LEMMA SearchKeepsThreads ==
  ASSUME ThreadType, NEW t \in Threads, pc[t] \in Searching,
         NEW label \in Searching, Goto(t, label), NEW id \in Ids,
         loc' = [loc EXCEPT ![t].spot = id] \/ UNCHANGED loc, UNCHANGED boot,
         \/ UNCHANGED todo /\ todo[t] # {}
         \/ label = "look" /\ \E S \in SUBSET Files : todo' = [todo EXCEPT ![t] = S]
  PROVE  ThreadType'
<1>1. loc' \in [Threads -> Locals] /\ \A s \in Threads \ {t} : loc'[s] = loc[s]
  <2>1. [loc[t] EXCEPT !.spot = id] \in Locals
    BY DEF ThreadType, Locals
  <2> QED
    BY <2>1 DEF ThreadType
<1>2. /\ label \in Places /\ label \notin {"move", "moved", "unlink", "delete"}
      /\ boot' \in {"sync", "place", "done"}
  BY DEF Places, Searching, ThreadType
<1>3. CASE UNCHANGED todo /\ todo[t] # {}
  BY <1>1, <1>2, <1>3, ThreadMoves
<1>4. CASE label = "look" /\ \E S \in SUBSET Files : todo' = [todo EXCEPT ![t] = S]
  BY <1>1, <1>2, <1>4, ThreadMoves
<1> QED
  BY <1>3, <1>4

\* The same for the tick of a sync.
LEMMA TickKeepsThreads ==
  ASSUME ThreadType, NEW t \in Threads, pc[t] \in Searching, Tick(t), NEW id \in Ids,
         loc' = [loc EXCEPT ![t].spot = id] \/ UNCHANGED loc, UNCHANGED boot
  PROVE  ThreadType'
<1>1. Goto(t, "look") /\ \E S \in SUBSET Files : todo' = [todo EXCEPT ![t] = S]
  <2>1. todo[t] \ {Current(t)} \in SUBSET Files
    BY DEF ThreadType
  <2>2. todo' = [todo EXCEPT ![t] = todo[t] \ {Current(t)}]
    BY DEF Tick
  <2> QED
    BY <2>1, <2>2 DEF Tick
<1>2. "look" \in Searching
  BY DEF Searching
<1> QED
  BY <1>1, <1>2, SearchKeepsThreads

LEMMA ThreadStep ==
  ASSUME TypeOK, Next
  PROVE  ThreadType'
<1>t. TableType /\ ThreadType /\ RestType
  BY TypeParts
<1>b. None \in Ids /\ {} \in SUBSET Files /\ boot \in {"sync", "place", "done"}
      /\ "look" \in Searching /\ "insert" \in Searching
  BY <1>t DEF Ids, ThreadType, Searching
<1>1. ASSUME NEW t \in Threads, Sync(t) PROVE ThreadType'
  <2>a. AfterYear(t) \in Searching
    BY DEF AfterYear, Searching
  <2>s. loc[t].spot \in Ids /\ lastFolder + 1 \in Ids
    BY <1>t DEF ThreadType, Locals, Ids, TableType
  <2>1. CASE LookAtFile(t)
    <3>1. /\ pc[t] \in Searching /\ todo[t] # {} /\ UNCHANGED boot
          /\ loc' = [loc EXCEPT ![t].spot = None]
      BY <2>1, <1>b DEF LookAtFile
    <3>2. CASE Tick(t)
      BY <1>t, <1>b, <3>1, <3>2, TickKeepsThreads
    <3>3. CASE \E label \in Searching : Goto(t, label) /\ UNCHANGED todo
      BY <1>t, <1>b, <3>1, <3>3, SearchKeepsThreads
    <3> QED
      BY <2>1, <3>2, <3>3 DEF LookAtFile, Searching
  <2>2. CASE EndSync(t)
    <3>1. CASE t = Boot /\ boot = "sync"
      <4>1. {r.file : r \in Reports(None)} \in SUBSET Files
        BY <1>t DEF Reports, TableType, Rows
      <4>2. /\ pc' = pc /\ loc' = loc /\ boot' = "place"
            /\ todo' = [todo EXCEPT ![t] = {r.file : r \in Reports(None)}]
            /\ pc[t] = "look"
        BY <2>2, <3>1 DEF EndSync
      <4>3. Goto(t, "look") /\ "look" \in Places /\ loc' \in [Threads -> Locals]
        BY <1>t, <4>2 DEF Goto, ThreadType, Places, Searching
      <4> QED
        BY <1>t, <4>1, <4>2, <4>3, ThreadMoves
    <3>2. CASE ~(t = Boot /\ boot = "sync")
      <4>1. Finish(t) /\ UNCHANGED todo /\ boot' \in {"sync", "place", "done"}
        BY <1>b, <2>2, <3>2 DEF EndSync
      <4> QED
        BY <1>t, <1>b, <4>1, FinishKeepsThreads
    <3> QED
      BY <3>1, <3>2
  <2>3. CASE FindYear(t)
    <3>1. pc[t] = "year" /\ UNCHANGED <<todo, boot>>
      BY <2>3 DEF FindYear
    <3>2. pc[t] \in Searching /\ todo[t] # {} /\ "makeYear" \in Searching
      BY <1>t, <3>1 DEF ThreadType, Searching
    <3>3. ASSUME NEW x \in folders, Found(t, x.id, AfterYear(t)) PROVE ThreadType'
      <4>1. x.id \in Ids
        BY <1>t DEF TableType, Folders, Ids
      <4> QED
        BY <1>t, <2>a, <3>1, <3>2, <3>3, <4>1, SearchKeepsThreads DEF Found
    <3>4. CASE Goto(t, "makeYear") /\ UNCHANGED loc
      BY <1>t, <1>b, <3>1, <3>2, <3>4, SearchKeepsThreads
    <3> QED
      BY <2>3, <3>3, <3>4 DEF FindYear, Named
  <2>4. CASE MakeYear(t)
    <3>1. pc[t] = "makeYear" /\ UNCHANGED <<todo, boot>> /\ Found(t, lastFolder + 1, AfterYear(t))
      BY <2>4 DEF MakeYear
    <3>2. pc[t] \in Searching /\ todo[t] # {}
      BY <1>t, <3>1 DEF ThreadType, Searching
    <3> QED
      BY <1>t, <2>a, <2>s, <3>1, <3>2, SearchKeepsThreads DEF Found
  <2>5. CASE FindMonth(t)
    <3>1. pc[t] = "month" /\ UNCHANGED <<todo, boot>>
      BY <2>5 DEF FindMonth
    <3>2. pc[t] \in Searching /\ todo[t] # {} /\ "makeMonth" \in Searching
      BY <1>t, <3>1 DEF ThreadType, Searching
    <3>3. ASSUME NEW x \in folders, Found(t, x.id, "insert") PROVE ThreadType'
      <4>1. x.id \in Ids
        BY <1>t DEF TableType, Folders, Ids
      <4> QED
        BY <1>t, <1>b, <3>1, <3>2, <3>3, <4>1, SearchKeepsThreads DEF Found
    <3>4. CASE Goto(t, "makeMonth") /\ UNCHANGED loc
      BY <1>t, <1>b, <3>1, <3>2, <3>4, SearchKeepsThreads
    <3> QED
      BY <2>5, <3>3, <3>4 DEF FindMonth, Named
  <2>6. CASE MakeMonth(t)
    <3>1. /\ pc[t] = "makeMonth" /\ UNCHANGED <<todo, boot>>
          /\ \E id \in Ids : Found(t, id, "insert")
      BY <1>b, <2>6, <2>s DEF MakeMonth
    <3>2. pc[t] \in Searching /\ todo[t] # {}
      BY <1>t, <3>1 DEF ThreadType, Searching
    <3> QED
      BY <1>t, <1>b, <3>1, <3>2, SearchKeepsThreads DEF Found
  <2>7. CASE InsertRow(t)
    <3>1. CASE RowOf(Current(t)) = {} /\ IsFolder(loc[t].spot)
      <4>1. Tick(t) /\ UNCHANGED <<loc, boot>> /\ pc[t] \in Searching
        BY <1>b, <2>7, <3>1 DEF InsertRow
      <4> QED
        BY <1>t, <1>b, <4>1, TickKeepsThreads
    <3>2. CASE ~(RowOf(Current(t)) = {} /\ IsFolder(loc[t].spot))
      <4>1. /\ Finish(t) /\ todo' = [todo EXCEPT ![t] = {}]
            /\ boot' \in {"sync", "place", "done"}
        BY <1>b, <2>7, <3>2 DEF InsertRow
      <4> QED
        BY <1>t, <1>b, <4>1, FinishKeepsThreads
    <3> QED
      BY <3>1, <3>2
  <2>8. CASE PlaceRow(t)
    <3>1. Tick(t) /\ UNCHANGED <<loc, boot>> /\ pc[t] \in Searching
      BY <1>b, <2>8 DEF PlaceRow
    <3> QED
      BY <1>t, <1>b, <3>1, TickKeepsThreads
  <2> QED
    BY <1>1, <2>1, <2>2, <2>3, <2>4, <2>5, <2>6, <2>7, <2>8 DEF Sync
<1>2. ASSUME NEW t \in Threads, Edit(t) PROVE ThreadType'
  <2>p. /\ {"moved", "children", "drop", "unlink", "delete"} \subseteq Places
        /\ {"moved", "children", "drop", "unlink", "delete"} \cap Searching = {}
    BY DEF Places, Searching, Pruning
  <2>1. CASE MoveRow(t)
    <3>0. pc[t] = "move" /\ UNCHANGED <<todo, boot>>
      BY <2>1 DEF MoveRow
    <3>1. CASE Goto(t, "moved") /\ UNCHANGED loc
      <4>1. loc' \in [Threads -> Locals] /\ loc'[t].row \in Rows
        BY <1>t, <3>0, <3>1 DEF ThreadType
      <4> QED
        BY <1>t, <1>b, <2>p, <3>0, <3>1, <4>1, ThreadMoves
    <3>2. CASE Finish(t)
      BY <1>t, <1>b, <3>0, <3>2, FinishKeepsThreads
    <3> QED
      BY <2>1, <3>1, <3>2 DEF MoveRow
  <2>2. CASE EndMove(t) \/ DeleteRow(t)
    <3>1. loc[t].row.folder \in Ids
      BY <1>t, <2>2 DEF EndMove, DeleteRow, ThreadType, Rows
    <3>2. UNCHANGED <<todo, boot>> /\ \E id \in Ids : Prune(t, id)
      BY <1>b, <2>2, <3>1 DEF EndMove, DeleteRow
    <3> QED
      BY <1>t, <3>2, PruneKeepsThreads
  <2>3. CASE Unlink(t)
    <3>0. pc[t] = "unlink" /\ UNCHANGED <<todo, boot, loc>> /\ Goto(t, "delete")
      BY <2>3 DEF Unlink
    <3>1. loc' \in [Threads -> Locals] /\ loc'[t].row \in Rows
      BY <1>t, <3>0 DEF ThreadType
    <3> QED
      BY <1>t, <1>b, <2>p, <3>0, <3>1, ThreadMoves
  <2>4. CASE CountReports(t)
    <3>0. UNCHANGED <<todo, boot>>
      BY <2>4 DEF CountReports
    <3>1. CASE Finish(t)
      BY <1>t, <1>b, <3>0, <3>1, FinishKeepsThreads
    <3>2. ASSUME NEW x \in folders, loc' = [loc EXCEPT ![t].above = x.parent], Goto(t, "children")
          PROVE  ThreadType'
      <4>1. x.parent \in Ids
        BY <1>t DEF TableType, Folders
      <4>2. [loc[t] EXCEPT !.above = x.parent] \in Locals
        BY <1>t, <4>1 DEF ThreadType, Locals
      <4>3. loc' \in [Threads -> Locals] /\ \A s \in Threads \ {t} : loc'[s] = loc[s]
        BY <1>t, <3>2, <4>2 DEF ThreadType
      <4> QED
        BY <1>t, <1>b, <2>p, <3>0, <3>2, <4>3, ThreadMoves
    <3> QED
      BY <2>4, <3>1, <3>2 DEF CountReports, Folder
  <2>5. CASE CountFolders(t)
    <3>0. UNCHANGED <<todo, boot>>
      BY <2>5 DEF CountFolders
    <3>1. CASE Goto(t, "drop") /\ UNCHANGED loc
      <4>1. loc' \in [Threads -> Locals]
        BY <1>t, <3>1 DEF ThreadType
      <4> QED
        BY <1>t, <1>b, <2>p, <3>0, <3>1, <4>1, ThreadMoves
    <3>2. CASE Prune(t, None)
      BY <1>t, <1>b, <3>0, <3>2, PruneKeepsThreads
    <3> QED
      BY <2>5, <3>1, <3>2 DEF CountFolders
  <2>6. CASE DropFolder(t)
    <3>1. UNCHANGED <<todo, boot>> /\ Prune(t, loc[t].above) /\ loc[t].above \in Ids
      BY <1>t, <2>6 DEF DropFolder, ThreadType, Locals
    <3> QED
      BY <1>t, <3>1, PruneKeepsThreads
  <2> QED
    BY <1>2, <2>1, <2>2, <2>3, <2>4, <2>5, <2>6 DEF Edit
<1>3. ASSUME NEW t \in Threads, StartSync(t) PROVE ThreadType'
  <2>1. /\ Goto(t, "look") /\ todo' = [todo EXCEPT ![t] = disk] /\ UNCHANGED <<loc, boot>>
        /\ disk \in SUBSET Files
    BY <1>3, <1>t DEF StartSync, RestType
  <2>2. "look" \in Places /\ loc' \in [Threads -> Locals]
    BY <1>t, <2>1 DEF Places, Searching, ThreadType
  <2> QED
    BY <1>t, <1>b, <2>1, <2>2, ThreadMoves
<1>4. ASSUME NEW t \in Threads, StartMove(t) \/ StartDelete(t) PROVE ThreadType'
  <2>1. PICK label \in {"move", "unlink"}, id \in Ids : StartEdit(t, label, id)
    BY <1>4, <1>b, ChosenFolder DEF StartMove, StartDelete
  <2>2. PICK r \in rows : loc' = [loc EXCEPT ![t].row = r, ![t].dest = id]
    BY <2>1 DEF StartEdit
  <2>3. /\ loc' \in [Threads -> Locals] /\ loc'[t].row = r
        /\ \A s \in Threads \ {t} : loc'[s] = loc[s]
    <3>1. loc \in [Threads -> Locals] /\ r \in Rows
      BY <1>t DEF ThreadType, TableType
    <3> QED
      BY <2>2, <3>1 DEF Locals
  <2>4. Goto(t, label) /\ UNCHANGED <<todo, boot>> /\ label \in Places /\ label \notin Searching
    BY <2>1 DEF StartEdit, Places, Searching
  <2>5. r \in Rows
    BY <1>t DEF TableType
  <2> QED
    BY <1>t, <1>b, <2>3, <2>4, <2>5, ThreadMoves
<1>5. CASE Operators \/ Generate
  <2>1. UNCHANGED <<pc, todo, loc, boot>>
    BY <1>5, Zenon DEF Operators, CreateFolder, UpdateFolder, DeleteFolder, Generate
  <2> QED
    BY <1>t, <2>1 DEF ThreadType
<1>6. CASE Restart
  <2>1. Blank \in Locals /\ disk \in SUBSET Files
    BY <1>t DEF Blank, Locals, Ids, RestType
  <2> QED
    BY <1>6, <2>1 DEF Restart, ThreadType, Searching
<1> QED
  BY <1>1, <1>2, <1>3, <1>4, <1>5, <1>6 DEF Next

\* What came into a folder is remembered by kind and id.
LEMMA ArrivesKeepsLate ==
  ASSUME RestType, NEW kind \in {"report", "folder"}, NEW id \in Nat, NEW folder,
         Arrives(kind, id, folder)
  PROVE  late' \in [Threads -> SUBSET ({"report", "folder"} \X Nat)]
<1>1. ASSUME NEW t \in Threads
      PROVE  late[t] \cup {<<kind, id>>} \in SUBSET ({"report", "folder"} \X Nat)
  BY DEF RestType
<1> QED
  BY <1>1 DEF Arrives, RestType

LEMMA RestStep ==
  ASSUME TypeOK, Next
  PROVE  RestType'
<1>t. TableType /\ ThreadType /\ RestType
  BY TypeParts
<1>e. lastRow + 1 \in Nat /\ lastFolder + 1 \in Nat /\ edits + 1 \in Nat /\ restarts + 1 \in Nat
  BY <1>t DEF TableType, RestType
<1>1. ASSUME NEW t \in Threads, Sync(t) PROVE RestType'
  <2>1. UNCHANGED <<files, bounds, excused, handmade>>
    BY <1>1 DEF Sync, LookAtFile, EndSync, FindYear, MakeYear, FindMonth, MakeMonth, InsertRow,
                PlaceRow, history
  <2>2. late' \in [Threads -> SUBSET ({"report", "folder"} \X Nat)]
    <3>1. CASE MakeMonth(t)
      <4>1. UNCHANGED late \/ Arrives("folder", lastFolder + 1, loc[t].spot)
        BY <3>1 DEF MakeMonth
      <4> QED
        BY <1>t, <1>e, <4>1, ArrivesKeepsLate DEF RestType
    <3>2. CASE InsertRow(t)
      <4>1. UNCHANGED late \/ Arrives("report", lastRow + 1, loc[t].spot)
        BY <3>2 DEF InsertRow
      <4> QED
        BY <1>t, <1>e, <4>1, ArrivesKeepsLate DEF RestType
    <3>3. CASE ~MakeMonth(t) /\ ~InsertRow(t)
      <4>1. UNCHANGED late
        BY <1>1, <3>3 DEF Sync, LookAtFile, EndSync, FindYear, MakeYear, FindMonth, PlaceRow,
                          history
      <4> QED
        BY <1>t, <4>1 DEF RestType
    <3> QED
      BY <3>1, <3>2, <3>3
  <2>3. raced' \subseteq Names \X Ids
    <3>1. CASE ~FindYear(t) /\ ~FindMonth(t)
      <4>1. UNCHANGED raced
        BY <1>1, <3>1 DEF Sync, LookAtFile, EndSync, MakeYear, MakeMonth, InsertRow, PlaceRow,
                          history
      <4> QED
        BY <1>t, <4>1 DEF RestType
    <3>2. CASE FindYear(t)
      <4>1. YearOf[Current(t)] \in Names
        BY <3>2, CurrentIsFile DEF FindYear, TypeOK, Searching
      <4>2. UNCHANGED raced \/ Race(t, YearOf[Current(t)], None)
        BY <3>2, Zenon DEF FindYear
      <4> QED
        BY <1>t, <4>1, <4>2 DEF Race, RestType, Ids
    <3>3. CASE FindMonth(t)
      <4>1. MonthOf[Current(t)] \in Names /\ loc[t].spot \in Ids
        BY <3>3, CurrentIsFile DEF FindMonth, TypeOK, Searching, Locals
      <4>2. UNCHANGED raced \/ Race(t, MonthOf[Current(t)], loc[t].spot)
        BY <3>3, Zenon DEF FindMonth
      <4> QED
        BY <1>t, <4>1, <4>2 DEF Race, RestType
    <3> QED
      BY <3>1, <3>2, <3>3
  <2> QED
    BY <1>t, <2>1, <2>2, <2>3 DEF RestType, files, bounds
<1>2. ASSUME NEW t \in Threads, Edit(t) PROVE RestType'
  <2>1. UNCHANGED <<made, bounds, raced, handmade>> /\ disk' \subseteq disk
    BY <1>2 DEF Edit, MoveRow, EndMove, Unlink, DeleteRow, CountReports, CountFolders,
                DropFolder, files, history
  <2>2. excused' \subseteq Files
    <3>1. CASE Unlink(t)
      <4>1. loc[t].row.file \in Files
        BY <1>t, <3>1 DEF Unlink, ThreadType, Rows
      <4>2. excused' \subseteq excused \cup {loc[t].row.file}
        BY <3>1 DEF Unlink
      <4> QED
        BY <1>t, <4>1, <4>2 DEF RestType
    <3>2. CASE ~Unlink(t)
      <4>1. UNCHANGED excused
        BY <1>2, <3>2 DEF Edit, MoveRow, EndMove, DeleteRow, CountReports, CountFolders,
                          DropFolder, history
      <4> QED
        BY <1>t, <4>1 DEF RestType
    <3> QED
      BY <3>1, <3>2
  <2>3. late' \in [Threads -> SUBSET ({"report", "folder"} \X Nat)]
    <3>1. CASE MoveRow(t)
      <4>1. UNCHANGED late \/ Arrives("report", loc[t].row.id, loc[t].dest)
        BY <3>1 DEF MoveRow
      <4>2. loc[t].row.id \in Nat
        BY <1>t, <3>1 DEF MoveRow, ThreadType, Rows
      <4> QED
        BY <1>t, <4>1, <4>2, ArrivesKeepsLate DEF RestType
    <3>2. CASE ~MoveRow(t)
      <4>1. UNCHANGED late \/ late' = [late EXCEPT ![t] = {}]
        BY <1>2, <3>2 DEF Edit, EndMove, Unlink, DeleteRow, CountReports, CountFolders,
                          DropFolder, history, Prune
      <4> QED
        BY <1>t, <4>1 DEF RestType
    <3> QED
      BY <3>1, <3>2
  <2> QED
    BY <1>t, <2>1, <2>2, <2>3 DEF RestType, bounds
<1>3. ASSUME NEW t \in Threads, StartSync(t) PROVE RestType'
  <2>1. UNCHANGED <<files, bounds, history>>
    BY <1>3 DEF StartSync
  <2> QED
    BY <1>t, <2>1 DEF RestType, files, bounds, history
<1>4. ASSUME NEW t \in Threads, StartMove(t) \/ StartDelete(t) PROVE RestType'
  <2>1. UNCHANGED <<files, restarts, history>> /\ edits' = edits + 1
    BY <1>4 DEF StartMove, StartDelete, StartEdit
  <2> QED
    BY <1>t, <1>e, <2>1 DEF RestType, files, history
<1>5. CASE CreateFolder
  <2>1. /\ UNCHANGED <<files, restarts, excused, raced>> /\ edits' = edits + 1
        /\ handmade' = handmade \cup {lastFolder + 1}
    BY <1>5 DEF CreateFolder, FolderRequest
  <2>2. PICK parent : Arrives("folder", lastFolder + 1, parent)
    BY <1>5 DEF CreateFolder
  <2>3. late' \in [Threads -> SUBSET ({"report", "folder"} \X Nat)]
    BY <1>t, <1>e, <2>2, ArrivesKeepsLate
  <2> QED
    BY <1>t, <1>e, <2>1, <2>3 DEF RestType, files
<1>6. CASE UpdateFolder
  <2>1. UNCHANGED <<files, restarts, excused, raced>> /\ edits' = edits + 1
    BY <1>6 DEF UpdateFolder, FolderRequest
  <2>2. PICK x \in folders : \E parent :
          handmade' = handmade \cup {x.id} /\ Arrives("folder", x.id, parent)
    BY <1>6, Zenon DEF UpdateFolder
  <2>3. x.id \in Nat
    BY <1>t DEF TableType, Folders
  <2>4. late' \in [Threads -> SUBSET ({"report", "folder"} \X Nat)]
    BY <1>t, <2>2, <2>3, ArrivesKeepsLate
  <2> QED
    BY <1>t, <1>e, <2>1, <2>2, <2>3, <2>4 DEF RestType, files
<1>7. CASE DeleteFolder
  <2>1. UNCHANGED <<files, restarts, history>> /\ edits' = edits + 1
    BY <1>7 DEF DeleteFolder, FolderRequest
  <2> QED
    BY <1>t, <1>e, <2>1 DEF RestType, files, history
<1>8. CASE Generate
  <2>1. UNCHANGED <<bounds, history>> /\ disk' \subseteq made' /\ made' \subseteq Files
    BY <1>t, <1>8 DEF Generate, RestType
  <2> QED
    BY <1>t, <2>1 DEF RestType, bounds, history
<1>9. CASE Restart
  <2>1. {loc[t].row.file : t \in {s \in Threads : pc[s] = "delete"}} \subseteq Files
    BY <1>t DEF ThreadType, Rows
  <2>2. excused' \subseteq Files
    BY <1>t, <1>9, <2>1 DEF Restart, RestType
  <2>3. /\ UNCHANGED <<files, edits, raced, handmade>> /\ restarts' = restarts + 1
        /\ late' = [t \in Threads |-> {}]
    BY <1>9 DEF Restart
  <2> QED
    BY <1>t, <1>e, <2>2, <2>3 DEF RestType, files
<1> QED
  BY <1>1, <1>2, <1>3, <1>4, <1>5, <1>6, <1>7, <1>8, <1>9 DEF Next, Operators

-----------------------------------------------------------------------------
(* Main alone until it serves, and what threads have found.                *)

\* A step of a thread leaves the other threads where they are.
Mine(t) ==
  \A s \in Threads \ {t} : pc'[s] = pc[s] /\ todo'[s] = todo[s] /\ loc'[s] = loc[s]

LEMMA ThreadVars ==
  ASSUME TypeOK, NEW t \in Threads,
         UNCHANGED pc \/ \E label : Goto(t, label),
         UNCHANGED todo \/ \E S : todo' = [todo EXCEPT ![t] = S],
         UNCHANGED loc \/ \E l : loc' = [loc EXCEPT ![t] = l]
  PROVE  Mine(t)
<1>1. pc \in [Threads -> Places] /\ todo \in [Threads -> SUBSET Files]
      /\ loc \in [Threads -> Locals]
  BY DEF TypeOK, Places
<1> QED
  BY <1>1 DEF Mine, Goto

LEMMA SyncIsMine ==
  ASSUME TypeOK, NEW t \in Threads, Sync(t)
  PROVE  Mine(t) /\ pc[t] \in Searching
<1>1. pc[t] \in Searching
  BY DEF Sync, LookAtFile, EndSync, FindYear, MakeYear, FindMonth, MakeMonth, InsertRow, PlaceRow,
         Searching
<1>2. UNCHANGED pc \/ \E label : Goto(t, label)
  BY Zenon DEF Sync, LookAtFile, EndSync, FindYear, MakeYear, FindMonth, MakeMonth, InsertRow,
               PlaceRow, Tick, Found, Finish
<1>3. UNCHANGED todo \/ \E S : todo' = [todo EXCEPT ![t] = S]
  BY Zenon DEF Sync, LookAtFile, EndSync, FindYear, MakeYear, FindMonth, MakeMonth, InsertRow,
               PlaceRow, Tick
<1>4. UNCHANGED loc \/ \E l : loc' = [loc EXCEPT ![t] = l]
  <2>1. UNCHANGED loc \/ (\E id : loc' = [loc EXCEPT ![t].spot = id])
        \/ loc' = [loc EXCEPT ![t] = Blank]
    BY Zenon DEF Sync, LookAtFile, EndSync, FindYear, MakeYear, FindMonth, MakeMonth, InsertRow,
                 PlaceRow, Finish, Found
  <2>2. ASSUME NEW id, loc' = [loc EXCEPT ![t].spot = id]
        PROVE  \E l : loc' = [loc EXCEPT ![t] = l]
    <3>1. loc' = [loc EXCEPT ![t] = [loc[t] EXCEPT !.spot = id]]
      BY <2>2
    <3> QED
      BY <3>1
  <2> QED
    BY <2>1, <2>2
<1> QED
  BY <1>1, <1>2, <1>3, <1>4, ThreadVars

LEMMA EditIsMine ==
  ASSUME TypeOK, NEW t \in Threads, Edit(t)
  PROVE  Mine(t) /\ pc[t] \in {"move", "moved", "unlink", "delete", "count", "children", "drop"}
<1>1. pc[t] \in {"move", "moved", "unlink", "delete", "count", "children", "drop"}
  BY DEF Edit, MoveRow, EndMove, Unlink, DeleteRow, CountReports, CountFolders, DropFolder
<1>2. UNCHANGED pc \/ \E label : Goto(t, label)
  BY Zenon DEF Edit, MoveRow, EndMove, Unlink, DeleteRow, CountReports, CountFolders, DropFolder,
               Finish, Prune
<1>3. UNCHANGED todo
  BY Zenon DEF Edit, MoveRow, EndMove, Unlink, DeleteRow, CountReports, CountFolders, DropFolder
<1>4. UNCHANGED loc \/ \E l : loc' = [loc EXCEPT ![t] = l]
  <2>1. UNCHANGED loc \/ (\E id : loc' = [loc EXCEPT ![t].above = id])
        \/ \E l : loc' = [loc EXCEPT ![t] = l]
    BY Zenon DEF Edit, MoveRow, EndMove, Unlink, DeleteRow, CountReports, CountFolders,
                 DropFolder, Finish, Prune
  <2>2. ASSUME NEW id, loc' = [loc EXCEPT ![t].above = id]
        PROVE  \E l : loc' = [loc EXCEPT ![t] = l]
    <3>1. loc' = [loc EXCEPT ![t] = [loc[t] EXCEPT !.above = id]]
      BY <2>2
    <3> QED
      BY <3>1
  <2> QED
    BY <2>1, <2>2
<1> QED
  BY <1>1, <1>2, <1>3, <1>4, ThreadVars

\* A request that starts is a move or a deletion of some report.
LEMMA EditStarts ==
  ASSUME NEW t, StartMove(t) \/ StartDelete(t)
  PROVE  \E label, id : label \in {"move", "unlink"} /\ StartEdit(t, label, id)
<1>1. \/ \E id : StartEdit(t, "move", id)
      \/ \E id : StartEdit(t, "unlink", id)
  BY Zenon DEF StartMove, StartDelete
<1>2. CASE \E id : StartEdit(t, "move", id)
  <2>1. PICK id : StartEdit(t, "move", id)
    BY <1>2
  <2>2. "move" \in {"move", "unlink"} /\ StartEdit(t, "move", id)
    BY <2>1
  <2> QED
    BY <2>2
<1>3. CASE \E id : StartEdit(t, "unlink", id)
  <2>1. PICK id : StartEdit(t, "unlink", id)
    BY <1>3
  <2>2. "unlink" \in {"move", "unlink"} /\ StartEdit(t, "unlink", id)
    BY <2>1
  <2> QED
    BY <2>2
<1> QED
  BY <1>1, <1>2, <1>3

LEMMA StartIsMine ==
  ASSUME TypeOK, NEW t \in Threads, StartSync(t) \/ StartMove(t) \/ StartDelete(t)
  PROVE  Mine(t) /\ t \in Requests /\ boot = "done" /\ boot' = boot /\ pc[t] = "idle"
         /\ pc'[t] \in {"look", "move", "unlink"} /\ UNCHANGED tables
<1>1. CASE StartSync(t)
  <2>1. /\ Goto(t, "look") /\ todo' = [todo EXCEPT ![t] = disk] /\ UNCHANGED <<loc, boot>>
        /\ t \in Requests /\ boot = "done" /\ pc[t] = "idle" /\ UNCHANGED tables
    BY <1>1 DEF StartSync, Serving
  <2>2. Mine(t)
    BY <2>1, ThreadVars
  <2> QED
    BY <2>1, <2>2 DEF Goto, TypeOK
<1>2. CASE StartMove(t) \/ StartDelete(t)
  <2>1. PICK label, id : label \in {"move", "unlink"} /\ StartEdit(t, label, id)
    BY <1>2, EditStarts
  <2>2. PICK r \in rows : loc' = [loc EXCEPT ![t].row = r, ![t].dest = id]
    BY <2>1 DEF StartEdit
  <2>3. loc' = [loc EXCEPT ![t] = [loc[t] EXCEPT !.row = r, !.dest = id]]
    BY <2>2 DEF TypeOK, Locals
  <2>4. /\ Goto(t, label) /\ UNCHANGED <<todo, boot>>
        /\ t \in Requests /\ boot = "done" /\ pc[t] = "idle" /\ UNCHANGED tables
    BY <2>1 DEF StartEdit, Serving
  <2>5. Mine(t)
    BY <2>3, <2>4, ThreadVars
  <2>6. label \in {"move", "unlink"}
    BY <2>1
  <2> QED
    BY <2>4, <2>5, <2>6 DEF Goto, TypeOK
<1> QED
  BY <1>1, <1>2

\* An operator or a report job moves no thread.
LEMMA NobodyMoves ==
  ASSUME Operators \/ Generate
  PROVE  UNCHANGED <<pc, todo, loc, boot>> /\ boot = "done"
  BY Zenon DEF Operators, CreateFolder, UpdateFolder, DeleteFolder, Generate, FolderRequest, Serving

\* While main works alone, what it has found stays.
LEMMA MainSearches ==
  ASSUME TypeOK, MainAlone, boot # "done", Sync(Boot)
  PROVE  /\ boot' # "done" => pc'[Boot] \in Searching /\ IsFolder(loc[Boot].spot)'
         /\ boot' = "done" => pc'[Boot] = "idle"
<1> DEFINE t == Boot
<1>t. /\ t \in Threads /\ pc[t] \in Searching /\ IsFolder(loc[t].spot)
      /\ pc \in [Threads -> Places] /\ loc \in [Threads -> Locals]
  BY DEF MainAlone, Threads, TypeOK, Places
<1>s. /\ AfterYear(t) \in Searching
      /\ {"look", "year", "makeYear", "month", "makeMonth", "insert"} \subseteq Searching
  BY DEF AfterYear, Searching
<1>1. CASE LookAtFile(t)
  <2>1. UNCHANGED <<folders, boot>> /\ pc'[t] \in Searching /\ loc'[t].spot = None
    BY <1>1, <1>t, <1>s DEF LookAtFile, Tick, Goto, Locals, tables
  <2> QED
    BY <2>1 DEF IsFolder
<1>2. CASE EndSync(t)
  <2>1. CASE boot = "sync"
    BY <1>2, <1>t, <2>1 DEF EndSync, tables, IsFolder, Folder
  <2>2. CASE boot # "sync"
    BY <1>2, <1>t, <2>2 DEF EndSync, Finish, Goto
  <2> QED
    BY <2>1, <2>2
<1>3. CASE FindYear(t) \/ FindMonth(t)
  <2>1. UNCHANGED <<folders, boot>>
    BY <1>3 DEF FindYear, FindMonth, tables
  <2>2. \/ \E x \in folders, label \in Searching : Found(t, x.id, label)
        \/ UNCHANGED loc /\ \E label \in Searching : Goto(t, label)
    BY <1>3, <1>s DEF FindYear, FindMonth, Named
  <2>3. pc'[t] \in Searching /\ (loc'[t].spot = loc[t].spot \/ \E x \in folders : loc'[t].spot = x.id)
    BY <1>t, <2>2 DEF Found, Goto, Locals
  <2> QED
    BY <1>t, <2>1, <2>3 DEF IsFolder, Folder
<1>4. CASE MakeYear(t) \/ MakeMonth(t)
  <2>1. UNCHANGED boot
    BY <1>4 DEF MakeYear, MakeMonth
  <2>2. \/ \E label \in Searching :
             /\ \E x \in folders' : x.id = lastFolder + 1
             /\ Found(t, lastFolder + 1, label)
        \/ \E label \in Searching : Found(t, None, label)
    <3>1. ASSUME NEW name, NEW parent, NewFolder(name, parent)
          PROVE  \E x \in folders' : x.id = lastFolder + 1
      <4>1. [id |-> lastFolder + 1, name |-> name, parent |-> parent] \in folders'
        BY <3>1 DEF NewFolder
      <4>2. [id |-> lastFolder + 1, name |-> name, parent |-> parent].id = lastFolder + 1
        OBVIOUS
      <4> QED
        BY <4>1, <4>2, Zenon
    <3>2. CASE MakeYear(t)
      BY <1>s, <3>1, <3>2 DEF MakeYear
    <3>3. CASE MakeMonth(t)
      BY <1>s, <3>1, <3>3 DEF MakeMonth
    <3> QED
      BY <1>4, <3>2, <3>3
  <2>3. \/ loc'[t].spot = lastFolder + 1 /\ \E x \in folders' : x.id = lastFolder + 1
        \/ loc'[t].spot = None
    BY <1>t, <2>2 DEF Found, Locals
  <2>4. pc'[t] \in Searching
    BY <1>t, <2>2 DEF Found, Goto
  <2> QED
    BY <2>1, <2>3, <2>4 DEF IsFolder, Folder
<1>5. CASE InsertRow(t)
  <2>1. UNCHANGED folders
    BY <1>5 DEF InsertRow
  <2>2. \/ Tick(t) /\ UNCHANGED <<loc, boot>>
        \/ Finish(t) /\ boot' = "done"
    BY <1>5 DEF InsertRow
  <2> QED
    BY <1>t, <1>s, <2>1, <2>2 DEF Tick, Finish, Goto, IsFolder, Folder
<1>6. CASE PlaceRow(t)
  <2>1. UNCHANGED <<folders, loc, boot>> /\ Tick(t)
    BY <1>6 DEF PlaceRow
  <2> QED
    BY <1>t, <1>s, <2>1 DEF Tick, Goto, IsFolder, Folder
<1> QED
  BY <1>1, <1>2, <1>3, <1>4, <1>5, <1>6 DEF Sync

LEMMA MainAloneStep ==
  ASSUME TypeOK, MainAlone, Next
  PROVE  MainAlone'
<1>t. Boot \in Threads /\ Boot \notin Requests /\ Requests \subseteq Threads
      /\ "idle" \notin Searching
  BY FileAssumption DEF Threads, Searching
<1>1. ASSUME NEW t \in Threads, Sync(t) PROVE MainAlone'
  <2>1. Mine(t) /\ pc[t] \in Searching
    BY <1>1, SyncIsMine
  <2>2. CASE boot = "done"
    <3>1. t # Boot
      BY <1>t, <2>1, <2>2 DEF MainAlone
    <3>2. boot' = boot
      BY <1>1, <3>1 DEF Sync, LookAtFile, EndSync, FindYear, MakeYear, FindMonth, MakeMonth,
                        InsertRow, PlaceRow
    <3> QED
      BY <1>t, <2>1, <2>2, <3>1, <3>2 DEF Mine, MainAlone
  <2>3. CASE boot # "done"
    <3>1. t = Boot
      BY <1>t, <2>1, <2>3 DEF MainAlone, Threads
    <3>2. \A s \in Requests : pc'[s] = "idle"
      BY <1>t, <2>1, <2>3, <3>1 DEF MainAlone, Mine
    <3> QED
      BY <1>1, <2>3, <3>1, <3>2, MainSearches DEF MainAlone
  <2> QED
    BY <2>2, <2>3
<1>2. ASSUME NEW t \in Threads, Edit(t) PROVE MainAlone'
  <2>1. Mine(t) /\ pc[t] \notin Searching /\ pc[t] # "idle"
    BY <1>2, EditIsMine DEF Searching
  <2>2. t # Boot /\ boot = "done"
    BY <1>t, <2>1 DEF MainAlone, Threads
  <2>3. boot' = boot
    BY <1>2 DEF Edit, MoveRow, EndMove, Unlink, DeleteRow, CountReports, CountFolders, DropFolder
  <2> QED
    BY <1>t, <2>1, <2>2, <2>3 DEF Mine, MainAlone
<1>3. ASSUME NEW t \in Threads, StartSync(t) \/ StartMove(t) \/ StartDelete(t) PROVE MainAlone'
  <2>1. Mine(t) /\ t # Boot /\ boot = "done" /\ boot' = boot
    BY <1>t, <1>3, StartIsMine
  <2> QED
    BY <1>t, <2>1 DEF Mine, MainAlone
<1>4. CASE Operators \/ Generate
  BY <1>4, NobodyMoves DEF MainAlone
<1>5. CASE Restart
  <2>1. /\ boot' = "sync" /\ \A s \in Requests : pc'[s] = "idle"
        /\ pc'[Boot] = "look" /\ loc'[Boot].spot = None
    BY <1>t, <1>5 DEF Restart, Blank
  <2> QED
    BY <2>1 DEF MainAlone, IsFolder, Searching
<1> QED
  BY <1>1, <1>2, <1>3, <1>4, <1>5 DEF Next

\* A prune goes on only where there is a folder.
LEMMA PruneTargetStep ==
  ASSUME TypeOK, PruneTarget, Next
  PROVE  PruneTarget'
<1>t. /\ pc \in [Threads -> Places] /\ loc \in [Threads -> Locals]
      /\ todo \in [Threads -> SUBSET Files]
  BY DEF TypeOK, Places
<1>n. Ids = Nat \cup {None}
  BY DEF Ids
<1>m. ASSUME NEW t \in Threads, Mine(t), pc'[t] \in Pruning => loc'[t].target \in Nat
      PROVE  PruneTarget'
  BY <1>m DEF Mine, PruneTarget
<1>1. ASSUME NEW t \in Threads, Sync(t) PROVE PruneTarget'
  <2>1. pc'[t] \in Searching \cup {"idle"}
    BY <1>1, <1>t DEF Sync, LookAtFile, EndSync, FindYear, MakeYear, FindMonth, MakeMonth,
                      InsertRow, PlaceRow, Tick, Found, Finish, Goto, AfterYear, Searching
  <2> QED
    BY <1>1, <1>m, <2>1, SyncIsMine DEF Searching, Pruning
<1>2. ASSUME NEW t \in Threads, Edit(t) PROVE PruneTarget'
  <2>p. ASSUME NEW id \in Ids, Prune(t, id) PROVE pc'[t] \in Pruning => loc'[t].target \in Nat
    <3>1. id = None => pc'[t] = "idle"
      BY <1>t, <2>p DEF Prune, Finish, Goto
    <3>2. id # None => loc'[t].target = id
      <4>1. id # None => loc'[t] = [Blank EXCEPT !.target = id]
        BY <1>t, <2>p DEF Prune
      <4> QED
        BY <4>1 DEF Blank
    <3> QED
      BY <1>n, <3>1, <3>2 DEF Pruning
  <2>1. CASE MoveRow(t) \/ Unlink(t)
    <3>1. pc'[t] \in {"moved", "idle", "delete"}
      BY <1>t, <2>1 DEF MoveRow, Unlink, Finish, Goto
    <3> QED
      BY <1>2, <1>m, <3>1, EditIsMine DEF Pruning
  <2>2. CASE EndMove(t) \/ DeleteRow(t) \/ DropFolder(t)
    <3>1. loc[t].above \in Ids /\ (EndMove(t) \/ DeleteRow(t) => loc[t].row.folder \in Ids)
      BY DEF EndMove, DeleteRow, TypeOK, Locals, Rows
    <3>2. \E id \in Ids : Prune(t, id)
      BY <1>n, <2>2, <3>1 DEF EndMove, DeleteRow, DropFolder
    <3> QED
      BY <1>2, <1>m, <2>p, <3>2, EditIsMine
  <2>3. CASE CountReports(t)
    <3>1. loc[t].target \in Nat
      BY <2>3 DEF CountReports, PruneTarget, Pruning
    <3>2. pc'[t] = "idle" \/ loc'[t].target = loc[t].target
      BY <1>t, <2>3 DEF CountReports, Finish, Goto, Locals
    <3> QED
      BY <1>2, <1>m, <3>1, <3>2, EditIsMine DEF Pruning
  <2>4. CASE CountFolders(t)
    <3>1. loc[t].target \in Nat
      BY <2>4 DEF CountFolders, PruneTarget, Pruning
    <3>2. pc'[t] = "idle" \/ loc'[t] = loc[t]
      BY <1>t, <2>4 DEF CountFolders, Prune, Finish, Goto
    <3> QED
      BY <1>2, <1>m, <3>1, <3>2, EditIsMine DEF Pruning
  <2> QED
    BY <1>2, <2>1, <2>2, <2>3, <2>4 DEF Edit
<1>3. ASSUME NEW t \in Threads, StartSync(t) \/ StartMove(t) \/ StartDelete(t) PROVE PruneTarget'
  BY <1>3, <1>m, StartIsMine DEF Pruning
<1>4. CASE Operators \/ Generate
  BY <1>4, NobodyMoves DEF PruneTarget
<1>5. CASE Restart
  BY <1>5 DEF Restart, PruneTarget, Pruning
<1> QED
  BY <1>1, <1>2, <1>3, <1>4, <1>5 DEF Next

\* The step to a month comes from a year's folder.
LEMMA MonthInYearStep ==
  ASSUME TypeOK, MonthInYear, Next
  PROVE  MonthInYear'
<1>t. /\ pc \in [Threads -> Places] /\ loc \in [Threads -> Locals] /\ lastFolder + 1 \in Nat
  BY DEF TypeOK, Places
<1>m. ASSUME NEW t \in Threads, Mine(t),
             pc'[t] \in {"month", "makeMonth"} =>
               MonthOf[Current(t)'] # None /\ loc'[t].spot \in Nat
      PROVE  MonthInYear'
  BY <1>m DEF Mine, MonthInYear, Current
<1>c. ASSUME NEW t \in Threads, UNCHANGED todo PROVE Current(t)' = Current(t)
  BY <1>c DEF Current
<1>1. ASSUME NEW t \in Threads, Sync(t) PROVE MonthInYear'
  <2>f. ASSUME NEW id \in Nat, Found(t, id, AfterYear(t)), UNCHANGED todo
        PROVE  pc'[t] \in {"month", "makeMonth"} =>
                 MonthOf[Current(t)'] # None /\ loc'[t].spot \in Nat
    BY <1>t, <1>c, <2>f DEF Found, Goto, AfterYear, Locals
  <2>1. CASE LookAtFile(t) \/ EndSync(t) \/ InsertRow(t) \/ PlaceRow(t) \/ MakeMonth(t)
    <3>1. pc'[t] \notin {"month", "makeMonth"}
      BY <1>t, <2>1 DEF LookAtFile, EndSync, InsertRow, PlaceRow, MakeMonth, Tick, Found, Finish,
                        Goto
    <3> QED
      BY <1>1, <1>m, <3>1, SyncIsMine
  <2>2. CASE FindYear(t)
    <3>1. UNCHANGED todo
      BY <2>2 DEF FindYear
    <3>2. CASE Goto(t, "makeYear")
      <4>1. pc'[t] = "makeYear"
        BY <1>t, <3>2 DEF Goto
      <4> QED
        BY <1>1, <1>m, <4>1, SyncIsMine
    <3>3. CASE \E x \in folders : Found(t, x.id, AfterYear(t))
      <4>1. \E id \in Nat : Found(t, id, AfterYear(t))
        BY <3>3 DEF TypeOK, Folders
      <4> QED
        BY <1>1, <1>m, <2>f, <3>1, <4>1, SyncIsMine
    <3> QED
      BY <2>2, <3>2, <3>3 DEF FindYear, Named
  <2>3. CASE MakeYear(t)
    <3>1. UNCHANGED todo /\ Found(t, lastFolder + 1, AfterYear(t))
      BY <2>3 DEF MakeYear
    <3> QED
      BY <1>1, <1>m, <1>t, <2>f, <3>1, SyncIsMine
  <2>4. CASE FindMonth(t)
    <3>1. UNCHANGED todo /\ pc[t] = "month"
      BY <2>4 DEF FindMonth
    <3>2. pc'[t] = "insert" \/ (pc'[t] = "makeMonth" /\ loc'[t] = loc[t])
      BY <1>t, <2>4 DEF FindMonth, Found, Goto
    <3> QED
      BY <1>1, <1>m, <1>c, <3>1, <3>2, SyncIsMine DEF MonthInYear
  <2> QED
    BY <1>1, <2>1, <2>2, <2>3, <2>4 DEF Sync
<1>2. ASSUME NEW t \in Threads, Edit(t) PROVE MonthInYear'
  <2>1. pc'[t] \notin {"month", "makeMonth"}
    BY <1>t, <1>2 DEF Edit, MoveRow, EndMove, Unlink, DeleteRow, CountReports, CountFolders,
                      DropFolder, Prune, Finish, Goto
  <2> QED
    BY <1>2, <1>m, <2>1, EditIsMine
<1>3. ASSUME NEW t \in Threads, StartSync(t) \/ StartMove(t) \/ StartDelete(t) PROVE MonthInYear'
  BY <1>3, <1>m, StartIsMine
<1>4. CASE Operators \/ Generate
  BY <1>4, NobodyMoves DEF MonthInYear, Current
<1>5. CASE Restart
  BY <1>5 DEF Restart, MonthInYear
<1> QED
  BY <1>1, <1>2, <1>3, <1>4, <1>5 DEF Next

LEMMA TablesInvInit == Init => TablesInv
<1> SUFFICES ASSUME Init PROVE TablesInv
  OBVIOUS
<1>1. Blank \in Locals
  BY DEF Blank, Locals, Ids
<1>2. TypeOK
  BY <1>1 DEF Init, TypeOK, SchemaHolds, Searching
<1>3. MainAlone /\ PruneTarget /\ MonthInYear
  <2>1. Boot \in Threads /\ \A t \in Requests : t \in Threads /\ t # Boot
    BY FileAssumption DEF Threads
  <2> QED
    BY <2>1 DEF Init, MainAlone, PruneTarget, MonthInYear, Searching, Pruning, IsFolder, Blank
<1> QED
  BY <1>2, <1>3 DEF TablesInv

LEMMA TablesInvStep == TablesInv /\ [Next]_vars => TablesInv'
<1> SUFFICES ASSUME TablesInv, [Next]_vars PROVE TablesInv'
  OBVIOUS
<1>t. TypeOK /\ MainAlone /\ PruneTarget /\ MonthInYear
  BY DEF TablesInv
<1>1. CASE Next
  <2>1. TypeOK'
    <3>1. TableType' /\ ThreadType' /\ RestType'
      BY <1>1, <1>t, TableStep, ThreadStep, RestStep
    <3> QED
      BY <3>1 DEF TypeOK, TableType, ThreadType, RestType
  <2>2. MainAlone' /\ PruneTarget' /\ MonthInYear'
    BY <1>1, <1>t, MainAloneStep, PruneTargetStep, MonthInYearStep
  <2> QED
    BY <2>1, <2>2 DEF TablesInv
<1>2. CASE UNCHANGED vars
  <2>1. TypeOK'
    BY <1>2, <1>t DEF TypeOK, SchemaHolds, vars, files, tables, bounds, history
  <2>2. UNCHANGED <<pc, todo, loc, boot, folders>>
    BY <1>2 DEF vars, tables
  <2>3. MainAlone' /\ PruneTarget' /\ MonthInYear'
    BY <1>t, <2>2 DEF MainAlone, PruneTarget, MonthInYear, IsFolder, Folder, Current
  <2> QED
    BY <2>1, <2>3 DEF TablesInv
<1> QED
  BY <1>1, <1>2

LEMMA TablesInvHolds == Spec => []TablesInv
  BY TablesInvInit, TablesInvStep, PTL DEF Spec

\* The tables of the index keep their schema through every interleaving of the requests:
\* ids and file names stay unique and no reference dangles, although a folder found by one
\* statement may be deleted before another one stores it.
THEOREM TypeCorrect == Spec => []TypeOK
<1>1. TablesInv => TypeOK
  BY DEF TablesInv
<1> QED
  BY <1>1, TablesInvHolds, PTL

-----------------------------------------------------------------------------
(* Pruning takes empty folders only.                                       *)

\* What a thread that prunes knows of its folder.
Spared(t) ==
  /\ pc[t] \in {"children", "drop"} =>
       \A r \in rows : r.folder = loc[t].target => <<"report", r.id>> \in late[t]
  /\ pc[t] = "drop" =>
       \A x \in folders : x.parent = loc[t].target => <<"folder", x.id>> \in late[t]

LEMMA SparedIs ==
  /\ PruneSpares <=> \A t \in Threads : Spared(t)
  /\ PruneSpares' <=> \A t \in Threads : Spared(t)'
  BY DEF PruneSpares, Spared, Reports, Children

\* A thread still knows it when what is new in its folder is remembered as late.
LEMMA SparedKept ==
  ASSUME NEW s \in Threads, Spared(s), pc'[s] = pc[s], loc'[s].target = loc[s].target,
         late[s] \subseteq late'[s],
         pc[s] \in {"children", "drop"} => \A q \in rows' : q.folder = loc[s].target =>
           \/ <<"report", q.id>> \in late'[s]
           \/ \E r \in rows : r.id = q.id /\ r.folder = q.folder,
         pc[s] = "drop" => \A y \in folders' : y.parent = loc[s].target =>
           \/ <<"folder", y.id>> \in late'[s]
           \/ \E x \in folders : x.id = y.id /\ x.parent = y.parent
  PROVE  Spared(s)'
<1>1. ASSUME pc[s] \in {"children", "drop"}, NEW q \in rows', q.folder = loc[s].target
      PROVE  <<"report", q.id>> \in late'[s]
  BY <1>1 DEF Spared
<1>2. ASSUME pc[s] = "drop", NEW y \in folders', y.parent = loc[s].target
      PROVE  <<"folder", y.id>> \in late'[s]
  BY <1>2 DEF Spared
<1> QED
  BY <1>1, <1>2 DEF Spared

\* What Arrives remembers.
LEMMA ArrivesIsLate ==
  ASSUME TypeOK, NEW kind, NEW id, NEW folder, Arrives(kind, id, folder), NEW s \in Threads
  PROVE  /\ late[s] \subseteq late'[s]
         /\ kind = "report" /\ loc[s].target = folder /\ pc[s] \in {"children", "drop"} =>
              <<kind, id>> \in late'[s]
         /\ kind = "folder" /\ loc[s].target = folder /\ pc[s] = "drop" =>
              <<kind, id>> \in late'[s]
  BY DEF Arrives, TypeOK

\* Deleting a folder puts nothing into another.
LEMMA DeletePutsNothing ==
  ASSUME TypeOK, NEW id \in Nat, DeleteFolderRow(id)
  PROVE  /\ \A q \in rows' : q.folder # None => q \in rows
         /\ \A y \in folders' : y.parent # None => y \in folders
<1> DEFINE F == folders \ Folder(id)
<1>1. /\ rows' = Refile(rows, {r \in rows : r.folder = id}, None)
      /\ folders' = Lift(F, id)
  BY DeleteFolderRowIs
<1>2. rows \in SUBSET Rows /\ F \in SUBSET Folders /\ None \in Ids
  BY DEF Ids, TypeOK
<1>3. \A q \in rows' : \E r \in rows :
           (r \in {p \in rows : p.folder = id} => q.folder = None)
           /\ (r \notin {p \in rows : p.folder = id} => q = r)
  BY <1>1, <1>2, RefileFacts
<1>4. \A y \in folders' : \E x \in F :
        (x.parent = id => y.parent = None) /\ (x.parent # id => y = x)
  BY <1>1, <1>2, LiftFacts
<1> QED
  BY <1>3, <1>4

LEMMA PruneSparesStep == TablesInv /\ PruneSpares /\ [Next]_vars => PruneSpares'
<1> SUFFICES ASSUME TablesInv, PruneSpares, [Next]_vars, NEW s \in Threads PROVE Spared(s)'
  BY SparedIs
<1>t. TypeOK /\ MainAlone /\ PruneTarget /\ None \notin Nat /\ Spared(s)
  BY FileAssumption, SparedIs DEF TablesInv
<1>n. pc[s] \in {"children", "drop"} => loc[s].target # None
  BY <1>t DEF PruneTarget, Pruning
<1>v. ASSUME pc'[s] \notin {"children", "drop"} PROVE Spared(s)'
  BY <1>v DEF Spared
<1>1. ASSUME NEW t \in Threads, Sync(t) PROVE Spared(s)'
  <2>m. Mine(t) /\ pc[t] \in Searching
    BY <1>1, <1>t, SyncIsMine
  <2>1. CASE s = t
    <3>1. pc'[s] \in Searching \cup {"idle"}
      BY <1>1, <1>t, <2>1, <2>m DEF Sync, LookAtFile, EndSync, FindYear, MakeYear, FindMonth,
                      MakeMonth, InsertRow, PlaceRow, Tick, Found, Finish, Goto, AfterYear,
                      Searching, TypeOK
    <3> QED
      BY <1>v, <3>1 DEF Searching
  <2>2. CASE s # t
    <3>1. pc'[s] = pc[s] /\ loc'[s] = loc[s]
      BY <2>2, <2>m DEF Mine
    <3>2. CASE MakeYear(t)
      <4>1. NewFolder(YearOf[Current(t)], None) /\ UNCHANGED <<rows, late>>
        BY <3>2 DEF MakeYear, history
      <4>2. \A y \in folders' : y \in folders \/ y.parent = None
        BY <4>1 DEF NewFolder
      <4> QED
        BY <1>t, <1>n, <3>1, <4>1, <4>2, SparedKept
    <3>3. CASE MakeMonth(t)
      <4>1. UNCHANGED rows
        BY <3>3 DEF MakeMonth
      <4>2. CASE IsFolder(loc[t].spot)
        <5>1. /\ NewFolder(MonthOf[Current(t)], loc[t].spot)
              /\ Arrives("folder", lastFolder + 1, loc[t].spot)
          BY <3>3, <4>2 DEF MakeMonth
        <5>2. \A y \in folders' :
                y \in folders \/ (y.id = lastFolder + 1 /\ y.parent = loc[t].spot)
          BY <5>1 DEF NewFolder
        <5>3. /\ late[s] \subseteq late'[s]
              /\ loc[s].target = loc[t].spot /\ pc[s] = "drop" =>
                   <<"folder", lastFolder + 1>> \in late'[s]
          BY <1>t, <5>1, ArrivesIsLate
        <5> QED
          BY <1>t, <3>1, <4>1, <5>2, <5>3, SparedKept
      <4>3. CASE ~IsFolder(loc[t].spot)
        <5>1. UNCHANGED <<folders, late>>
          BY <3>3, <4>3 DEF MakeMonth
        <5> QED
          BY <1>t, <3>1, <4>1, <5>1, SparedKept
      <4> QED
        BY <4>2, <4>3
    <3>4. CASE InsertRow(t)
      <4>1. UNCHANGED folders
        BY <3>4 DEF InsertRow
      <4>2. CASE RowOf(Current(t)) = {} /\ IsFolder(loc[t].spot)
        <5>1. /\ rows' = rows \cup {[id |-> lastRow + 1, file |-> Current(t),
                                     folder |-> loc[t].spot]}
              /\ Arrives("report", lastRow + 1, loc[t].spot)
          BY <3>4, <4>2 DEF InsertRow
        <5>2. \A q \in rows' :
                q \in rows \/ (q.id = lastRow + 1 /\ q.folder = loc[t].spot)
          BY <5>1
        <5>3. /\ late[s] \subseteq late'[s]
              /\ loc[s].target = loc[t].spot /\ pc[s] \in {"children", "drop"} =>
                   <<"report", lastRow + 1>> \in late'[s]
          BY <1>t, <5>1, ArrivesIsLate
        <5> QED
          BY <1>t, <3>1, <4>1, <5>2, <5>3, SparedKept
      <4>3. CASE ~(RowOf(Current(t)) = {} /\ IsFolder(loc[t].spot))
        <5>1. UNCHANGED <<rows, late>>
          BY <3>4, <4>3 DEF InsertRow
        <5> QED
          BY <1>t, <3>1, <4>1, <5>1, SparedKept
      <4> QED
        BY <4>2, <4>3
    <3>5. CASE PlaceRow(t)
      <4>1. boot = "place"
        BY <3>5 DEF PlaceRow, Placing
      <4>2. pc[s] \in Searching \cup {"idle"}
        BY <1>t, <4>1 DEF MainAlone, Threads
      <4> QED
        BY <1>v, <3>1, <4>2 DEF Searching
    <3>6. CASE LookAtFile(t) \/ EndSync(t) \/ FindYear(t) \/ FindMonth(t)
      <4>1. UNCHANGED <<rows, folders, late>>
        BY <3>6 DEF LookAtFile, EndSync, FindYear, FindMonth, tables, history
      <4> QED
        BY <1>t, <3>1, <4>1, SparedKept
    <3> QED
      BY <1>1, <3>2, <3>3, <3>4, <3>5, <3>6 DEF Sync
  <2> QED
    BY <2>1, <2>2
<1>2. ASSUME NEW t \in Threads, Edit(t) PROVE Spared(s)'
  <2>m. Mine(t)
    BY <1>2, <1>t, EditIsMine
  <2>p. pc \in [Threads -> Places] /\ loc \in [Threads -> Locals]
    BY <1>t DEF TypeOK, Places
  <2>f. ASSUME NEW id, Prune(t, id), UNCHANGED folders, \A q \in rows' : q \in rows
        PROVE  Spared(s)'
    <3>1. CASE s = t
      <4>1. pc'[t] \in {"idle", "count"}
        BY <2>p, <2>f DEF Prune, Finish, Goto
      <4> QED
        BY <1>v, <3>1, <4>1
    <3>2. CASE s # t
      <4>1. late'[s] = late[s] /\ pc'[s] = pc[s] /\ loc'[s] = loc[s]
        BY <1>t, <2>f, <2>m, <3>2 DEF Prune, Mine, TypeOK
      <4> QED
        BY <1>t, <2>f, <4>1, SparedKept
    <3> QED
      BY <3>1, <3>2
  <2>1. CASE MoveRow(t)
    <3>1. UNCHANGED folders
      BY <2>1 DEF MoveRow
    <3>2. CASE s = t
      <4>1. pc'[t] \in {"idle", "moved"}
        BY <2>p, <2>1 DEF MoveRow, Finish, Goto
      <4> QED
        BY <1>v, <3>2, <4>1
    <3>3. CASE s # t /\ IsFolder(loc[t].dest)
      <4> DEFINE id == loc[t].row.id
      <4>1. rows' = Refile(rows, {r \in rows : r.id = id}, loc[t].dest)
        BY <2>1, <3>3, PutInRefiles DEF MoveRow
      <4>2. \A q \in rows' : \E r \in rows : q.id = r.id /\
              (r \in {p \in rows : p.id = id} => q.folder = loc[t].dest)
              /\ (r \notin {p \in rows : p.id = id} => q = r)
        <5>1. loc[t].dest \in Ids /\ rows \in SUBSET Rows
          BY <1>t DEF TypeOK, Locals
        <5> QED
          BY <4>1, <5>1, RefileFacts
      <4>3. IF \E r \in rows : r.id = id THEN Arrives("report", id, loc[t].dest)
                                         ELSE UNCHANGED late
        BY <2>1, <3>3 DEF MoveRow
      <4> HIDE DEF id
      <4>4. CASE \E r \in rows : r.id = id
        <5>1. /\ late[s] \subseteq late'[s]
              /\ loc[s].target = loc[t].dest /\ pc[s] \in {"children", "drop"} =>
                   <<"report", id>> \in late'[s]
          BY <1>t, <4>3, <4>4, ArrivesIsLate
        <5>2. \A q \in rows' : q \in rows \/ (q.id = id /\ q.folder = loc[t].dest)
          BY <4>2
        <5> QED
          BY <1>t, <2>m, <3>1, <3>3, <5>1, <5>2, SparedKept DEF Mine
      <4>5. CASE ~ \E r \in rows : r.id = id
        <5>1. late' = late /\ \A q \in rows' : q \in rows
          BY <4>2, <4>3, <4>5
        <5> QED
          BY <1>t, <2>m, <3>1, <3>3, <5>1, SparedKept DEF Mine
      <4> QED
        BY <4>4, <4>5
    <3>4. CASE s # t /\ ~IsFolder(loc[t].dest)
      <4>1. UNCHANGED <<rows, late>>
        BY <2>1, <3>4 DEF MoveRow
      <4> QED
        BY <1>t, <2>m, <3>1, <3>4, <4>1, SparedKept DEF Mine
    <3> QED
      BY <3>2, <3>3, <3>4
  <2>2. CASE EndMove(t) \/ DeleteRow(t)
    <3>1. (\E id : Prune(t, id)) /\ UNCHANGED folders /\ \A q \in rows' : q \in rows
      BY <2>2 DEF EndMove, DeleteRow, tables
    <3> QED
      BY <2>f, <3>1
  <2>3. CASE Unlink(t)
    <3>1. UNCHANGED <<rows, folders, late, loc>> /\ pc'[t] = "delete"
      BY <2>3, <2>p DEF Unlink, tables, Goto
    <3>2. CASE s = t
      BY <1>v, <3>1, <3>2
    <3>3. CASE s # t
      BY <1>t, <2>m, <3>1, <3>3, SparedKept DEF Mine
    <3> QED
      BY <3>2, <3>3
  <2>4. CASE CountReports(t)
    <3>1. UNCHANGED <<rows, folders, late>>
      BY <2>4 DEF CountReports, tables, history
    <3>2. CASE s = t
      <4>1. CASE Finish(t)
        BY <1>v, <2>p, <3>2, <4>1 DEF Finish, Goto
      <4>2. CASE ~Finish(t)
        <5>1. Reports(loc[t].target) = {} /\ loc'[t].target = loc[t].target
              /\ pc'[t] = "children"
          BY <2>4, <2>p, <4>2 DEF CountReports, Locals, Goto
        <5> QED
          BY <3>1, <3>2, <5>1 DEF Spared, Reports
      <4> QED
        BY <4>1, <4>2
    <3>3. CASE s # t
      BY <1>t, <2>m, <3>1, <3>3, SparedKept DEF Mine
    <3> QED
      BY <3>2, <3>3
  <2>5. CASE CountFolders(t)
    <3>1. UNCHANGED <<rows, folders>>
      BY <2>5 DEF CountFolders, tables
    <3>2. CASE Prune(t, None)
      BY <2>f, <3>1, <3>2
    <3>3. CASE ~Prune(t, None)
      <4>1. /\ Children(loc[t].target) = {} /\ UNCHANGED <<loc, late>>
            /\ pc[t] = "children" /\ pc'[t] = "drop"
        BY <2>5, <2>p, <3>3 DEF CountFolders, Goto
      <4>2. CASE s = t
        BY <1>t, <3>1, <4>1, <4>2 DEF Spared, Children
      <4>3. CASE s # t
        BY <1>t, <2>m, <3>1, <4>1, <4>3, SparedKept DEF Mine
      <4> QED
        BY <4>2, <4>3
    <3> QED
      BY <3>2, <3>3
  <2>6. CASE DropFolder(t)
    <3>1. DeleteFolderRow(loc[t].target) /\ loc[t].target \in Nat /\ Prune(t, loc[t].above)
      BY <1>t, <2>6 DEF DropFolder, PruneTarget, Pruning
    <3>2. /\ \A q \in rows' : q.folder # None => q \in rows
          /\ \A y \in folders' : y.parent # None => y \in folders
      BY <1>t, <3>1, DeletePutsNothing
    <3>3. CASE s = t
      <4>1. pc'[t] \in {"idle", "count"}
        BY <2>p, <3>1 DEF Prune, Finish, Goto
      <4> QED
        BY <1>v, <3>3, <4>1
    <3>4. CASE s # t
      <4>1. late'[s] = late[s] /\ pc'[s] = pc[s] /\ loc'[s] = loc[s]
        BY <1>t, <2>m, <3>1, <3>4 DEF Prune, Mine, TypeOK
      <4> QED
        BY <1>t, <1>n, <3>2, <4>1, SparedKept
    <3> QED
      BY <3>3, <3>4
  <2> QED
    BY <1>2, <2>1, <2>2, <2>3, <2>4, <2>5, <2>6 DEF Edit
<1>3. ASSUME NEW t \in Threads, StartSync(t) \/ StartMove(t) \/ StartDelete(t)
      PROVE  Spared(s)'
  <2>1. Mine(t) /\ UNCHANGED <<rows, folders>> /\ pc'[t] \in {"look", "move", "unlink"}
    BY <1>3, <1>t, StartIsMine DEF tables
  <2>2. UNCHANGED late
    BY <1>3 DEF StartSync, StartMove, StartDelete, StartEdit, history
  <2>3. CASE s = t
    BY <1>v, <2>1, <2>3
  <2>4. CASE s # t
    BY <1>t, <2>1, <2>2, <2>4, SparedKept DEF Mine
  <2> QED
    BY <2>3, <2>4
<1>4. CASE CreateFolder
  <2>1. PICK name, parent : NewFolder(name, parent) /\ Arrives("folder", lastFolder + 1, parent)
    BY <1>4, Zenon DEF CreateFolder
  <2>2. UNCHANGED <<rows, pc, loc>>
    BY <1>4 DEF CreateFolder
  <2>3. \A y \in folders' : y \in folders \/ (y.id = lastFolder + 1 /\ y.parent = parent)
    BY <2>1 DEF NewFolder
  <2>4. /\ late[s] \subseteq late'[s]
        /\ loc[s].target = parent /\ pc[s] = "drop" => <<"folder", lastFolder + 1>> \in late'[s]
    BY <1>t, <2>1, ArrivesIsLate
  <2> QED
    BY <1>t, <2>2, <2>3, <2>4, SparedKept
<1>5. CASE UpdateFolder
  <2>1. PICK x \in folders : \E name, parent :
          /\ folders' = (folders \ {x}) \cup {[x EXCEPT !.name = name, !.parent = parent]}
          /\ Arrives("folder", x.id, parent)
    BY <1>5, Zenon DEF UpdateFolder
  <2>2. PICK name, parent :
          /\ folders' = (folders \ {x}) \cup {[x EXCEPT !.name = name, !.parent = parent]}
          /\ Arrives("folder", x.id, parent)
    BY <2>1, Zenon
  <2>3. UNCHANGED <<rows, pc, loc>>
    BY <1>5 DEF UpdateFolder
  <2>4. \A y \in folders' : y \in folders \/ (y.id = x.id /\ y.parent = parent)
    BY <1>t, <2>2 DEF TypeOK, Folders
  <2>5. /\ late[s] \subseteq late'[s]
        /\ loc[s].target = parent /\ pc[s] = "drop" => <<"folder", x.id>> \in late'[s]
    BY <1>t, <2>2, ArrivesIsLate
  <2> QED
    BY <1>t, <2>3, <2>4, <2>5, SparedKept
<1>6. CASE DeleteFolder
  <2>1. PICK x \in folders : DeleteFolderRow(x.id)
    BY <1>6 DEF DeleteFolder
  <2>2. UNCHANGED <<pc, loc, late>>
    BY <1>6 DEF DeleteFolder, history
  <2>3. /\ \A q \in rows' : q.folder # None => q \in rows
        /\ \A y \in folders' : y.parent # None => y \in folders
    BY <1>t, <2>1, DeletePutsNothing DEF TypeOK, Folders
  <2> QED
    BY <1>t, <1>n, <2>2, <2>3, SparedKept
<1>7. CASE Generate \/ UNCHANGED vars
  <2>1. UNCHANGED <<rows, folders, pc, loc, late>>
    BY <1>7 DEF Generate, tables, history, vars
  <2> QED
    BY <1>t, <2>1, SparedKept
<1>8. CASE Restart
  <2>1. pc'[s] \in {"look", "idle"}
    BY <1>8 DEF Restart
  <2> QED
    BY <1>v, <2>1
<1> QED
  BY <1>1, <1>2, <1>3, <1>4, <1>5, <1>6, <1>7, <1>8 DEF Next, Operators

\* A prune deletes a folder, and then the one above, only when nothing was in it while the
\* prune counted: whatever it takes along came in afterwards.
THEOREM PrunesSpare == Spec => []PruneSpares
<1>1. Init => PruneSpares
  BY DEF Init, PruneSpares
<1> QED
  BY <1>1, TablesInvHolds, PruneSparesStep, PTL DEF Spec

-----------------------------------------------------------------------------
(* Every report in the list has its file.                                  *)

\* Rows are the same reports, whatever their folders.
SameReports ==
  /\ \A q \in rows' : \E r \in rows : q.id = r.id /\ q.file = r.file
  /\ \A r \in rows : \E q \in rows' : q.id = r.id /\ q.file = r.file
  /\ lastRow' = lastRow

LEMMA RefiledReports ==
  ASSUME TypeOK, NEW S, NEW to \in Ids, rows' = Refile(rows, S, to), UNCHANGED lastRow
  PROVE  SameReports
<1>1. rows \in SUBSET Rows
  BY DEF TypeOK
<1>2. /\ \A q \in rows' : \E r \in rows : q.id = r.id /\ q.file = r.file
      /\ \A r \in rows : \E q \in rows' : q.id = r.id /\ q.file = r.file
  BY <1>1, RefileFacts
<1> QED
  BY <1>2 DEF SameReports

LEMMA DeletedFolderReports ==
  ASSUME TypeOK, NEW id \in Nat, DeleteFolderRow(id)
  PROVE  SameReports
<1>1. rows' = Refile(rows, {r \in rows : r.folder = id}, None) /\ UNCHANGED lastRow
  BY DeleteFolderRowIs
<1>2. None \in Ids
  BY DEF Ids
<1> QED
  BY <1>1, <1>2, RefiledReports

\* Reports are added by InsertRow and taken by DeleteRow only.
LEMMA ReportsStay ==
  ASSUME TablesInv, [Next]_vars
  PROVE  SameReports \/ \E t \in Threads : InsertRow(t) \/ DeleteRow(t)
<1>t. TypeOK /\ PruneTarget
  BY DEF TablesInv
<1>u. ASSUME UNCHANGED <<rows, lastRow>> PROVE SameReports
  BY <1>u DEF SameReports
<1>1. ASSUME NEW t \in Threads, Sync(t), ~InsertRow(t) PROVE SameReports
  <2>1. CASE PlaceRow(t)
    <3>1. rows' = Refile(rows, {r \in rows : r.file = Current(t)}, loc[t].spot)
          /\ UNCHANGED lastRow
      BY <2>1, Zenon DEF PlaceRow, Refile
    <3>2. loc[t].spot \in Ids
      BY <1>t DEF TypeOK, Locals
    <3> QED
      BY <1>t, <3>1, <3>2, RefiledReports
  <2>2. CASE ~PlaceRow(t)
    BY <1>1, <1>u, <2>2 DEF Sync, LookAtFile, EndSync, FindYear, MakeYear, FindMonth, MakeMonth,
                            tables
  <2> QED
    BY <2>1, <2>2
<1>2. ASSUME NEW t \in Threads, Edit(t), ~DeleteRow(t) PROVE SameReports
  <2>1. CASE MoveRow(t) /\ IsFolder(loc[t].dest)
    <3>1. rows' = Refile(rows, {r \in rows : r.id = loc[t].row.id}, loc[t].dest)
          /\ UNCHANGED lastRow
      BY <2>1, PutInRefiles DEF MoveRow
    <3>2. loc[t].dest \in Ids
      BY <1>t DEF TypeOK, Locals
    <3> QED
      BY <1>t, <3>1, <3>2, RefiledReports
  <2>2. CASE DropFolder(t)
    <3>1. DeleteFolderRow(loc[t].target) /\ loc[t].target \in Nat
      BY <1>t, <2>2 DEF DropFolder, PruneTarget, Pruning
    <3> QED
      BY <1>t, <3>1, DeletedFolderReports
  <2>3. CASE ~(MoveRow(t) /\ IsFolder(loc[t].dest)) /\ ~DropFolder(t)
    BY <1>2, <1>u, <2>3 DEF Edit, MoveRow, EndMove, Unlink, CountReports, CountFolders, tables
  <2> QED
    BY <2>1, <2>2, <2>3
<1>3. ASSUME NEW t \in Threads, StartSync(t) \/ StartMove(t) \/ StartDelete(t) PROVE SameReports
  BY <1>3, <1>t, <1>u, StartIsMine DEF tables
<1>4. CASE DeleteFolder
  <2>1. PICK x \in folders : DeleteFolderRow(x.id)
    BY <1>4 DEF DeleteFolder
  <2>2. x.id \in Nat
    BY <1>t DEF TypeOK, Folders
  <2> QED
    BY <1>t, <2>1, <2>2, DeletedFolderReports
<1>5. CASE CreateFolder \/ UpdateFolder \/ Generate \/ Restart \/ UNCHANGED vars
  BY <1>5, <1>u DEF CreateFolder, UpdateFolder, Generate, Restart, vars, tables
<1> QED
  BY <1>1, <1>2, <1>3, <1>4, <1>5 DEF Next, Operators

\* The files change when one is generated or unlinked, and the excuses at an unlink or a
\* restart.
LEMMA FilesStay ==
  ASSUME TypeOK, [Next]_vars
  PROVE  \/ UNCHANGED <<disk, made, excused>>
         \/ Generate \/ Restart \/ \E t \in Threads : Unlink(t)
<1>1. ASSUME NEW t \in Threads, Sync(t) PROVE UNCHANGED <<disk, made, excused>>
  BY <1>1 DEF Sync, LookAtFile, EndSync, FindYear, MakeYear, FindMonth, MakeMonth, InsertRow,
              PlaceRow, files, history
<1>2. ASSUME NEW t \in Threads, Edit(t), ~Unlink(t) PROVE UNCHANGED <<disk, made, excused>>
  BY <1>2 DEF Edit, MoveRow, EndMove, DeleteRow, CountReports, CountFolders, DropFolder, files,
              history
<1>3. ASSUME NEW t \in Threads, StartSync(t) \/ StartMove(t) \/ StartDelete(t)
      PROVE  UNCHANGED <<disk, made, excused>>
  BY <1>3 DEF StartSync, StartMove, StartDelete, StartEdit, files, history
<1>4. CASE Operators
  BY <1>4, Zenon DEF Operators, CreateFolder, UpdateFolder, DeleteFolder, files, history
<1>5. CASE UNCHANGED vars
  BY <1>5 DEF vars, files, history
<1> QED
  BY <1>1, <1>2, <1>3, <1>4, <1>5 DEF Next

\* A file on disk, or excused, stays there but when it is unlinked.
LEMMA FilesGrow ==
  ASSUME TypeOK, [Next]_vars
  PROVE  /\ made \subseteq made'
         /\ excused \subseteq excused'
         /\ \A f \in disk \ disk' : \E t \in Threads : Unlink(t) /\ f = loc[t].row.file
         /\ \A f \in disk' \ disk : f \in made' \ made
<1>1. CASE Generate
  BY <1>1 DEF Generate, history
<1>2. CASE Restart
  BY <1>2 DEF Restart, files
<1>3. ASSUME NEW t \in Threads, Unlink(t)
      PROVE  made = made' /\ excused \subseteq excused' /\ disk' = disk \ {loc[t].row.file}
  BY <1>3 DEF Unlink
<1> QED
  BY <1>1, <1>2, <1>3, FilesStay

\* A thread's request goes on when its thread does not move.
LEMMA RequestStays ==
  ASSUME TablesInv, RequestFiles, [Next]_vars, NEW s \in Threads,
         pc'[s] = pc[s], loc'[s] = loc[s]
  PROVE  RequestOf(s)'
<1>t. TypeOK /\ RequestOf(s)
  BY DEF TablesInv, RequestFiles
<1>g. /\ made \subseteq made' /\ disk \subseteq made
      /\ \A f \in disk' \ disk : f \notin made
  BY <1>t, FilesGrow DEF TypeOK
<1>r. pc[s] \in Requesting => loc[s].row.id \in Nat /\ lastRow \in Nat
  BY <1>t DEF TypeOK, Requesting, Rows
<1>1. ASSUME pc[s] = "delete" PROVE loc[s].row.file \notin disk'
  BY <1>t, <1>g, <1>1 DEF RequestOf, Requesting
<1>2. ASSUME pc[s] = "unlink", loc[s].row.file \in disk' PROVE loc[s].row.file \in disk
  BY <1>t, <1>g, <1>2 DEF RequestOf, Requesting
<1>3. CASE SameReports
  BY <1>t, <1>g, <1>1, <1>2, <1>3 DEF SameReports, RequestOf
<1>4. ASSUME NEW t \in Threads, InsertRow(t) PROVE RequestOf(s)'
  <2>1. \/ UNCHANGED <<rows, lastRow>>
        \/ /\ rows' = rows \cup {[id |-> lastRow + 1, file |-> Current(t), folder |-> loc[t].spot]}
           /\ lastRow' = lastRow + 1
    BY <1>4 DEF InsertRow
  <2>2. rows \subseteq rows' /\ (lastRow' = lastRow \/ lastRow' = lastRow + 1)
        /\ \A q \in rows' : q \in rows \/ q.id = lastRow + 1
    BY <2>1
  <2>3. pc[s] \in Requesting =>
          /\ loc[s].row.id <= lastRow' /\ loc[s].row.file \in made'
          /\ \A r \in rows' : r.id = loc[s].row.id => r.file = loc[s].row.file
    BY <1>t, <1>g, <1>r, <2>2 DEF RequestOf
  <2>4. pc[s] = "unlink" /\ loc[s].row.file \in disk' =>
          \E r \in rows' : r.id = loc[s].row.id /\ r.file = loc[s].row.file
    BY <1>t, <1>2, <2>2 DEF RequestOf
  <2> QED
    BY <1>1, <2>3, <2>4 DEF RequestOf
<1>5. ASSUME NEW t \in Threads, DeleteRow(t) PROVE RequestOf(s)'
  <2>1. /\ rows' = {r \in rows : r.id # loc[t].row.id} /\ UNCHANGED lastRow
        /\ pc[t] = "delete"
    BY <1>5 DEF DeleteRow
  <2>2. /\ loc[t].row.file \notin disk
        /\ \A r \in rows : r.id = loc[t].row.id => r.file = loc[t].row.file
    BY <2>1 DEF RequestFiles, RequestOf, Requesting
  <2>3. pc[s] \in Requesting =>
          /\ loc[s].row.id <= lastRow' /\ loc[s].row.file \in made'
          /\ \A r \in rows' : r.id = loc[s].row.id => r.file = loc[s].row.file
    BY <1>t, <1>g, <2>1 DEF RequestOf
  <2>4. ASSUME pc[s] = "unlink", loc[s].row.file \in disk'
        PROVE  \E r \in rows' : r.id = loc[s].row.id /\ r.file = loc[s].row.file
    <3>1. PICK r \in rows : r.id = loc[s].row.id /\ r.file = loc[s].row.file
      BY <1>t, <1>2, <2>4 DEF RequestOf
    <3>2. r.id # loc[t].row.id
      BY <1>2, <2>2, <2>4, <3>1
    <3> QED
      BY <2>1, <3>1, <3>2
  <2> QED
    BY <1>1, <2>3, <2>4 DEF RequestOf
<1> QED
  BY <1>3, <1>4, <1>5, ReportsStay

LEMMA RequestFilesStep ==
  ASSUME TablesInv, MadeFiles, RequestFiles, [Next]_vars
  PROVE  RequestFiles'
<1> SUFFICES ASSUME NEW s \in Threads PROVE RequestOf(s)'
  BY DEF RequestFiles
<1>t. TypeOK /\ RequestOf(s) /\ pc \in [Threads -> Places] /\ loc \in [Threads -> Locals]
  BY DEF TablesInv, RequestFiles, TypeOK, Places
<1>v. ASSUME pc'[s] \notin Requesting PROVE RequestOf(s)'
  BY <1>v DEF RequestOf, Requesting
<1>o. ASSUME NEW t \in Threads \ {s}, Mine(t) PROVE RequestOf(s)'
  BY <1>o, RequestStays DEF Mine
<1>1. ASSUME NEW t \in Threads, Sync(t) PROVE RequestOf(s)'
  <2>1. CASE t = s
    <3>1. pc'[t] \in Searching \cup {"idle"}
      BY <1>1, <1>t, SyncIsMine DEF Sync, LookAtFile, EndSync, FindYear, MakeYear, FindMonth,
                      MakeMonth, InsertRow, PlaceRow, Tick, Found, Finish, Goto, AfterYear,
                      Searching
    <3> QED
      BY <1>v, <2>1, <3>1 DEF Searching, Requesting
  <2> QED
    BY <1>1, <1>t, <1>o, <2>1, SyncIsMine
<1>2. ASSUME NEW t \in Threads, Edit(t) PROVE RequestOf(s)'
  <2>1. CASE t # s
    BY <1>2, <1>t, <1>o, <2>1, EditIsMine
  <2>2. CASE MoveRow(s)
    <3>1. CASE IsFolder(loc[s].dest)
      <4>1. pc[s] = "move" /\ pc'[s] = "moved" /\ loc'[s] = loc[s] /\ UNCHANGED made
        BY <1>t, <2>2, <3>1 DEF MoveRow, Goto, files
      <4>2. SameReports
        <5>1. rows' = Refile(rows, {r \in rows : r.id = loc[s].row.id}, loc[s].dest)
              /\ UNCHANGED lastRow
          BY <2>2, <3>1, PutInRefiles DEF MoveRow
        <5>2. loc[s].dest \in Ids
          BY <1>t DEF Locals
        <5> QED
          BY <1>t, <5>1, <5>2, RefiledReports
      <4> QED
        BY <1>t, <4>1, <4>2 DEF SameReports, RequestOf, Requesting
    <3>2. CASE ~IsFolder(loc[s].dest)
      BY <1>t, <1>v, <2>2, <3>2 DEF MoveRow, Finish, Goto, Requesting
    <3> QED
      BY <3>1, <3>2
  <2>3. CASE Unlink(s)
    <3>1. /\ pc[s] = "unlink" /\ pc'[s] = "delete" /\ loc'[s] = loc[s] /\ UNCHANGED <<made, tables>>
          /\ loc[s].row.file \notin disk'
      BY <1>t, <2>3 DEF Unlink, Goto
    <3> QED
      BY <1>t, <3>1 DEF RequestOf, Requesting, tables
  <2>4. CASE EndMove(s) \/ DeleteRow(s) \/ CountReports(s) \/ CountFolders(s) \/ DropFolder(s)
    <3>1. pc'[s] \in {"idle", "count", "children", "drop"}
      BY <1>t, <2>4 DEF EndMove, DeleteRow, CountReports, CountFolders, DropFolder, Prune,
                        Finish, Goto
    <3> QED
      BY <1>v, <3>1 DEF Requesting
  <2> QED
    BY <1>2, <2>1, <2>2, <2>3, <2>4 DEF Edit
<1>3. ASSUME NEW t \in Threads, StartSync(t) \/ StartMove(t) \/ StartDelete(t)
      PROVE  RequestOf(s)'
  <2>1. CASE t # s
    BY <1>3, <1>t, <1>o, <2>1, StartIsMine
  <2>2. CASE StartSync(s)
    BY <1>t, <1>v, <2>2 DEF StartSync, Goto, Requesting
  <2>3. CASE StartMove(s) \/ StartDelete(s)
    <3>1. PICK label, id : label \in {"move", "unlink"} /\ StartEdit(s, label, id)
      BY <2>3, EditStarts
    <3>2. PICK r \in rows : loc' = [loc EXCEPT ![s].row = r, ![s].dest = id]
      BY <3>1 DEF StartEdit
    <3>3. loc'[s].row = r /\ pc'[s] = label /\ UNCHANGED <<files, tables>>
      BY <1>t, <3>1, <3>2 DEF StartEdit, Goto, Locals
    <3>4. r.id <= lastRow /\ r.file \in made /\ \A q \in rows : q.id = r.id => q.file = r.file
      BY <1>t DEF TypeOK, SchemaHolds, MadeFiles
    <3>5. label \in {"move", "unlink"}
      BY <3>1
    <3> QED
      BY <3>3, <3>4, <3>5 DEF RequestOf, Requesting, files, tables
  <2> QED
    BY <1>3, <2>1, <2>2, <2>3
<1>4. CASE Operators \/ Generate \/ UNCHANGED vars
  <2>1. UNCHANGED <<pc, loc>>
    BY <1>4, NobodyMoves DEF vars
  <2> QED
    BY <2>1, RequestStays
<1>5. CASE Restart
  BY <1>5, <1>v DEF Restart, Requesting
<1> QED
  BY <1>1, <1>2, <1>3, <1>4, <1>5 DEF Next

LEMMA MadeFilesStep ==
  ASSUME TablesInv, MadeFiles, [Next]_vars
  PROVE  MadeFiles'
<1>t. TypeOK /\ todo \in [Threads -> SUBSET Files]
  BY DEF TablesInv, TypeOK
<1>g. made \subseteq made' /\ disk \subseteq made
  BY <1>t, FilesGrow DEF TypeOK
<1>1. \A r \in rows' : r.file \in made'
  <2>1. CASE SameReports
    BY <1>g, <2>1 DEF SameReports, MadeFiles
  <2>2. ASSUME NEW t \in Threads, InsertRow(t) PROVE \A r \in rows' : r.file \in made'
    <3>1. pc[t] = "insert"
      BY <2>2 DEF InsertRow
    <3>2. Current(t) \in made
      BY <1>t, <3>1, CurrentIsFile DEF TypeOK, Searching, MadeFiles
    <3>3. \A q \in rows' : q \in rows \/ q.file = Current(t)
      BY <2>2 DEF InsertRow
    <3> QED
      BY <1>g, <3>2, <3>3 DEF MadeFiles
  <2>3. ASSUME NEW t \in Threads, DeleteRow(t) PROVE \A r \in rows' : r.file \in made'
    BY <1>g, <2>3 DEF DeleteRow, MadeFiles
  <2> QED
    BY <2>1, <2>2, <2>3, ReportsStay
<1>2. ASSUME NEW s \in Threads PROVE todo'[s] \subseteq made'
  <2>1. ASSUME NEW t \in Threads, Sync(t), t = s PROVE todo'[s] \subseteq made
    <3>1. CASE EndSync(s) /\ s = Boot /\ boot = "sync"
      <4>1. todo'[s] = {r.file : r \in Reports(None)}
        BY <1>t, <3>1 DEF EndSync
      <4> QED
        BY <4>1 DEF Reports, MadeFiles
    <3>2. CASE ~(EndSync(s) /\ s = Boot /\ boot = "sync")
      <4>1. todo'[s] \subseteq todo[s]
        BY <1>t, <2>1, <3>2 DEF Sync, LookAtFile, EndSync, FindYear, MakeYear, FindMonth,
             MakeMonth, InsertRow, PlaceRow, Tick
      <4> QED
        BY <4>1 DEF MadeFiles
    <3> QED
      BY <3>1, <3>2
  <2>2. ASSUME NEW t \in Threads, Edit(t) PROVE UNCHANGED todo
    BY <2>2 DEF Edit, MoveRow, EndMove, Unlink, DeleteRow, CountReports, CountFolders, DropFolder
  <2>3. ASSUME NEW t \in Threads, StartSync(t) \/ StartMove(t) \/ StartDelete(t), t = s
        PROVE  todo'[s] \subseteq made
    BY <1>t, <1>g, <2>3 DEF StartSync, StartMove, StartDelete, StartEdit, MadeFiles
  <2>4. ASSUME NEW t \in Threads \ {s}, Mine(t) PROVE todo'[s] = todo[s]
    BY <2>4 DEF Mine
  <2>5. Restart => todo'[s] \subseteq made
    BY <1>g DEF Restart
  <2>6. Operators \/ Generate \/ UNCHANGED vars => UNCHANGED todo
    BY NobodyMoves DEF vars
  <2>7. todo[s] \subseteq made
    BY DEF MadeFiles
  <2>8. todo'[s] \subseteq made \/ todo'[s] = todo[s]
    <3>1. ASSUME NEW t \in Threads, Sync(t) PROVE todo'[s] \subseteq made \/ todo'[s] = todo[s]
      BY <1>t, <2>1, <2>4, <3>1, SyncIsMine
    <3>2. ASSUME NEW t \in Threads, StartSync(t) \/ StartMove(t) \/ StartDelete(t)
          PROVE  todo'[s] \subseteq made \/ todo'[s] = todo[s]
      BY <1>t, <2>3, <2>4, <3>2, StartIsMine
    <3> QED
      BY <2>2, <2>5, <2>6, <3>1, <3>2 DEF Next
  <2> QED
    BY <1>g, <2>7, <2>8
<1> QED
  BY <1>1, <1>2 DEF MadeFiles

\* A thread that does not move goes on with the same file.
LEMMA SameIndexing ==
  ASSUME NEW s \in Threads, pc'[s] = pc[s], todo'[s] = todo[s], s = Boot => UNCHANGED boot
  PROVE  Indexing(s)' = Indexing(s) /\ Current(s)' = Current(s)
  BY DEF Indexing, Placing, Current

LEMMA BootStays ==
  ASSUME NEW t \in Threads \ {Boot}, Sync(t) \/ Edit(t)
  PROVE  UNCHANGED boot
  BY DEF Sync, LookAtFile, EndSync, FindYear, MakeYear, FindMonth, MakeMonth, InsertRow, PlaceRow,
         Edit, MoveRow, EndMove, Unlink, DeleteRow, CountReports, CountFolders, DropFolder

LEMMA IndexedFilesStep ==
  ASSUME TablesInv, IndexedFiles, [Next]_vars
  PROVE  IndexedFiles'
<1> SUFFICES ASSUME NEW s \in Threads, Indexing(s)' PROVE Current(s)' \in disk' \cup excused'
  BY DEF IndexedFiles
<1>t. TypeOK /\ MainAlone /\ pc \in [Threads -> Places]
  BY DEF TablesInv, TypeOK, Places
<1>p. pc'[s] \in Searching \ {"look"}
  BY DEF Indexing
\* The file is excused when it is unlinked under the sync.
<1>k. ASSUME Indexing(s), UNCHANGED todo \/ todo'[s] = todo[s]
      PROVE  Current(s)' \in disk' \cup excused'
  <2>1. Current(s)' = Current(s) /\ Current(s) \in disk \cup excused
    BY <1>k DEF Current, IndexedFiles
  <2>2. CASE Current(s) \in excused
    BY <1>t, <2>1, <2>2, FilesGrow
  <2>3. CASE Current(s) \in disk' \ excused
    BY <2>1, <2>3
  <2>4. CASE Current(s) \in disk \ disk'
    <3>1. PICK t \in Threads : Unlink(t) /\ Current(s) = loc[t].row.file
      BY <1>t, <2>4, FilesGrow
    <3>2. s \in Syncs /\ pc[s] # "look"
      BY <1>k DEF Indexing, Syncs
    <3>3. excused' = excused \cup {loc[t].row.file}
      BY <3>1, <3>2 DEF Unlink
    <3> QED
      BY <2>1, <3>1, <3>3
  <2> QED
    BY <2>1, <2>2, <2>3, <2>4
<1>o. ASSUME NEW t \in Threads \ {s}, Mine(t), s = Boot => UNCHANGED boot
      PROVE  Current(s)' \in disk' \cup excused'
  <2>1. pc'[s] = pc[s] /\ todo'[s] = todo[s]
    BY <1>o DEF Mine
  <2> QED
    BY <1>k, <1>o, <2>1, SameIndexing
<1>1. ASSUME NEW t \in Threads, Sync(t) PROVE Current(s)' \in disk' \cup excused'
  <2>1. CASE t # s
    BY <1>1, <1>t, <1>o, <2>1, SyncIsMine, BootStays
  <2>2. CASE LookAtFile(s)
    <3>1. pc[s] = "look" /\ UNCHANGED <<boot, disk>>
      BY <2>2 DEF LookAtFile, files
    <3>2. CASE Tick(s)
      BY <1>t, <1>p, <3>2 DEF Tick, Goto
    <3>3. CASE ~Tick(s)
      <4>1. ~Placing(s)
        BY <3>1 DEF Indexing, Placing
      <4>2. UNCHANGED todo /\ Current(s) \in disk
        BY <2>2, <3>3, <4>1 DEF LookAtFile
      <4> QED
        BY <3>1, <4>2 DEF Current
    <3> QED
      BY <3>2, <3>3
  <2>3. CASE FindYear(s) \/ MakeYear(s) \/ FindMonth(s) \/ MakeMonth(s)
    <3>1. UNCHANGED <<todo, boot>> /\ pc[s] \in Searching \ {"look"}
      BY <2>3 DEF FindYear, MakeYear, FindMonth, MakeMonth, Searching
    <3>2. Indexing(s)
      BY <3>1 DEF Indexing, Placing
    <3> QED
      BY <1>k, <3>1, <3>2
  <2>4. CASE EndSync(s) \/ InsertRow(s) \/ PlaceRow(s)
    <3>1. pc'[s] \in {"look", "idle"}
      BY <1>t, <2>4 DEF EndSync, InsertRow, PlaceRow, Tick, Finish, Goto
    <3> QED
      BY <1>p, <3>1 DEF Searching
  <2> QED
    BY <1>1, <2>1, <2>2, <2>3, <2>4 DEF Sync
<1>2. ASSUME NEW t \in Threads, Edit(t) PROVE Current(s)' \in disk' \cup excused'
  <2>1. CASE t = s
    <3>1. pc'[s] \notin Searching
      BY <1>t, <1>2, <2>1 DEF Edit, MoveRow, EndMove, Unlink, DeleteRow, CountReports,
                     CountFolders, DropFolder, Prune, Finish, Goto, Searching
    <3> QED
      BY <1>p, <3>1
  <2>2. CASE t # s
    <3>1. t # Boot
      BY <1>t, <1>2, EditIsMine DEF MainAlone, Searching
    <3> QED
      BY <1>t, <1>2, <1>o, <2>2, <3>1, EditIsMine, BootStays
  <2> QED
    BY <2>1, <2>2
<1>3. ASSUME NEW t \in Threads, StartSync(t) \/ StartMove(t) \/ StartDelete(t)
      PROVE  Current(s)' \in disk' \cup excused'
  <2>1. CASE t = s
    BY <1>3, <1>p, <1>t, <2>1, StartIsMine DEF Searching
  <2>2. CASE t # s
    BY <1>3, <1>t, <1>o, <2>2, StartIsMine
  <2> QED
    BY <2>1, <2>2
<1>4. CASE Operators \/ Generate \/ UNCHANGED vars
  <2>1. UNCHANGED <<pc, todo, boot>>
    BY <1>4, NobodyMoves DEF vars
  <2> QED
    BY <1>k, <2>1, SameIndexing
<1>5. CASE Restart
  BY <1>5, <1>p DEF Restart, Searching
<1> QED
  BY <1>1, <1>2, <1>3, <1>4, <1>5 DEF Next

LEMMA RowsHaveFilesStep ==
  ASSUME TablesInv, FilesInv, [Next]_vars
  PROVE  RowsHaveFiles'
<1>t. TypeOK /\ MadeFiles /\ IndexedFiles /\ RequestFiles /\ RowsHaveFiles
      /\ pc \in [Threads -> Places]
  BY DEF TablesInv, FilesInv, TypeOK, Places
<1>g. /\ excused \subseteq excused'
      /\ \A f \in disk \ disk' : \E t \in Threads : Unlink(t) /\ f = loc[t].row.file
  BY <1>t, FilesGrow
<1> DEFINE Deleting(id) == \E t \in Threads : pc[t] = "delete" /\ loc[t].row.id = id
           Excuse(r) == r.file \in disk' \cup excused' \/ Deleting(r.id)'
\* A row that is still there has its file, or its deletion has begun.
<1>1. ASSUME NEW r \in rows, NEW q \in rows', q.id = r.id, q.file = r.file
      PROVE  Excuse(q)
  <2>1. CASE r.file \in excused \cup (disk \cap disk')
    BY <1>1, <1>g, <2>1
  <2>2. CASE r.file \in disk \ disk'
    <3>1. PICK t \in Threads : Unlink(t) /\ r.file = loc[t].row.file
      BY <1>g, <2>2
    <3>2. pc[t] = "unlink" /\ pc'[t] = "delete" /\ loc'[t] = loc[t]
      BY <1>t, <3>1 DEF Unlink, Goto
    <3>3. PICK p \in rows : p.id = loc[t].row.id /\ p.file = loc[t].row.file
      BY <1>t, <2>2, <3>1, <3>2 DEF RequestFiles, RequestOf
    <3>4. p = r
      BY <1>t, <3>1, <3>3 DEF TypeOK, SchemaHolds
    <3> QED
      BY <1>1, <3>2, <3>3, <3>4
  <2>3. CASE Deleting(r.id) /\ r.file \notin disk \cup excused
    <3>1. PICK t \in Threads : pc[t] = "delete" /\ loc[t].row.id = r.id
      BY <2>3
    <3>2. CASE pc'[t] = pc[t] /\ loc'[t] = loc[t]
      BY <1>1, <3>1, <3>2
    <3>3. CASE DeleteRow(t)
      BY <1>1, <3>1, <3>3 DEF DeleteRow
    <3>4. CASE Restart
      <4>1. r.file = loc[t].row.file
        BY <1>t, <3>1 DEF RequestFiles, RequestOf, Requesting
      <4>2. loc[t].row.file \in excused'
        BY <3>1, <3>4 DEF Restart
      <4> QED
        BY <1>1, <4>1, <4>2
    <3>5. ASSUME NEW u \in Threads \ {t}, Mine(u) PROVE pc'[t] = pc[t] /\ loc'[t] = loc[t]
      BY <3>5 DEF Mine
    <3>6. CASE Operators \/ Generate \/ UNCHANGED vars
      BY <1>1, <3>1, <3>6, NobodyMoves DEF vars
    <3>7. ASSUME NEW u \in Threads, Sync(u) PROVE pc'[t] = pc[t] /\ loc'[t] = loc[t]
      <4>1. u # t /\ Mine(u)
        BY <1>t, <3>1, <3>7, SyncIsMine DEF Searching
      <4> QED
        BY <3>5, <4>1
    <3>8. ASSUME NEW u \in Threads, StartSync(u) \/ StartMove(u) \/ StartDelete(u)
          PROVE  pc'[t] = pc[t] /\ loc'[t] = loc[t]
      <4>1. u # t /\ Mine(u)
        BY <1>t, <3>1, <3>8, StartIsMine
      <4> QED
        BY <3>5, <4>1
    <3>9. ASSUME NEW u \in Threads, Edit(u)
          PROVE  (pc'[t] = pc[t] /\ loc'[t] = loc[t]) \/ DeleteRow(t)
      <4>1. CASE u # t
        BY <1>t, <3>5, <3>9, <4>1, EditIsMine
      <4>2. CASE u = t
        BY <3>1, <3>9, <4>2 DEF Edit, MoveRow, EndMove, Unlink, CountReports, CountFolders,
                                DropFolder
      <4> QED
        BY <4>1, <4>2
    <3> QED
      BY <3>2, <3>3, <3>4, <3>6, <3>7, <3>8, <3>9 DEF Next
  <2> QED
    BY <1>t, <2>1, <2>2, <2>3 DEF RowsHaveFiles
<1> HIDE DEF Excuse
<1>2. \A q \in rows' : Excuse(q)
  <2>1. CASE SameReports
    BY <1>1, <2>1 DEF SameReports
  <2>2. ASSUME NEW t \in Threads, InsertRow(t) PROVE \A q \in rows' : Excuse(q)
    <3>1. \A q \in rows' : q \in rows \/ q.file = Current(t)
      BY <2>2 DEF InsertRow
    <3>2. Current(t) \in disk' \cup excused'
      <4>1. Indexing(t) /\ UNCHANGED <<disk, excused>>
        BY <2>2 DEF InsertRow, Indexing, Searching, files
      <4> QED
        BY <1>t, <4>1 DEF IndexedFiles
    <3> QED
      BY <1>1, <3>1, <3>2 DEF Excuse
  <2>3. ASSUME NEW t \in Threads, DeleteRow(t) PROVE \A q \in rows' : Excuse(q)
    <3>1. \A q \in rows' : q \in rows
      BY <2>3 DEF DeleteRow
    <3> QED
      BY <1>1, <3>1
  <2> QED
    BY <2>1, <2>2, <2>3, ReportsStay
<1> QED
  BY <1>2 DEF RowsHaveFiles, Excuse

LEMMA FilesInvHolds == Spec => []FilesInv
<1>1. Init => FilesInv
  <2> SUFFICES ASSUME Init PROVE FilesInv
    OBVIOUS
  <2>1. IndexedFiles /\ RequestFiles
    <3>1. \A t \in Threads : pc[t] \in {"look", "idle"}
      BY DEF Init
    <3> QED
      BY <3>1 DEF IndexedFiles, RequestFiles, RequestOf, Requesting, Indexing, Searching
  <2> QED
    BY <2>1 DEF Init, FilesInv, MadeFiles, RowsHaveFiles
<1>2. TablesInv /\ FilesInv /\ [Next]_vars => FilesInv'
  BY MadeFilesStep, IndexedFilesStep, RequestFilesStep, RowsHaveFilesStep DEF FilesInv
<1> QED
  BY <1>1, <1>2, TablesInvHolds, PTL DEF Spec

\* A report whose file is gone is not listed, although a deletion takes the file and the
\* row in two steps and every listing indexes what it finds: except while the deletion is
\* under way, when a restart cut it short, or when a sync had begun to index the file.
THEOREM ReportsHaveFiles == Spec => []RowsHaveFiles
<1>1. FilesInv => RowsHaveFiles
  BY DEF FilesInv
<1> QED
  BY <1>1, FilesInvHolds, PTL

-----------------------------------------------------------------------------
(* Syncs one after the other share folders.                                *)

LEMMA PeriodsDiffer ==
  /\ \A name \in Months : name \notin Years /\ name # None
  /\ None \notin Nat
  BY FileAssumption DEF Years, Months

\* Where the folders no operator has touched come from: they were there, they have come
\* up when the folder above was deleted, or a sync has made them.
CameUp(y) ==
  \E x \in Own : y.id = x.id /\ y.name = x.name /\ x.parent # None /\ y.parent = None
MadeYear(y) ==
  \E t \in Threads : /\ MakeYear(t)
                     /\ y = [id |-> lastFolder + 1, name |-> YearOf[Current(t)], parent |-> None]
MadeMonth(y) ==
  \E t \in Threads : /\ MakeMonth(t)
                     /\ y = [id |-> lastFolder + 1, name |-> MonthOf[Current(t)],
                             parent |-> loc[t].spot]

LEMMA DeleteBringsUp ==
  ASSUME TypeOK, NEW id \in Nat, DeleteFolderRow(id), UNCHANGED handmade, NEW y \in Own'
  PROVE  y \in Own \/ CameUp(y)
<1> DEFINE F == folders \ Folder(id)
<1>1. folders' = Lift(F, id) /\ y \in folders' /\ y.id \notin handmade
  BY DeleteFolderRowIs DEF Own
<1>2. F \in SUBSET Folders
  BY DEF TypeOK
<1>3. PICK x \in F : y.id = x.id /\ y.name = x.name /\ (x.parent = id => y.parent = None)
                     /\ (x.parent # id => y = x)
  BY <1>1, <1>2, LiftFacts
<1>4. x \in Own
  BY <1>1, <1>3 DEF Own
<1> QED
  BY <1>3, <1>4, PeriodsDiffer DEF CameUp

LEMMA OwnFolders ==
  ASSUME TypeOK, PruneTarget, [Next]_vars, NEW y \in Own'
  PROVE  y \in Own \/ CameUp(y) \/ MadeYear(y) \/ MadeMonth(y)
<1>u. ASSUME UNCHANGED <<folders, handmade>> PROVE y \in Own
  BY <1>u DEF Own
<1>1. ASSUME NEW t \in Threads, Sync(t) PROVE y \in Own \/ MadeYear(y) \/ MadeMonth(y)
  <2>1. CASE MakeYear(t)
    <3>1. /\ UNCHANGED handmade
          /\ folders' = folders \cup {[id |-> lastFolder + 1, name |-> YearOf[Current(t)],
                                       parent |-> None]}
      BY <2>1 DEF MakeYear, NewFolder, history
    <3> QED
      BY <2>1, <3>1 DEF Own, MadeYear
  <2>2. CASE MakeMonth(t)
    <3>1. /\ UNCHANGED handmade
          /\ \/ UNCHANGED folders
             \/ folders' = folders \cup {[id |-> lastFolder + 1, name |-> MonthOf[Current(t)],
                                          parent |-> loc[t].spot]}
      BY <2>2 DEF MakeMonth, NewFolder
    <3> QED
      BY <2>2, <3>1 DEF Own, MadeMonth
  <2>3. CASE ~MakeYear(t) /\ ~MakeMonth(t)
    <3>1. UNCHANGED <<folders, handmade>>
      BY <1>1, <2>3 DEF Sync, LookAtFile, EndSync, FindYear, FindMonth, InsertRow, PlaceRow,
                        tables, history
    <3> QED
      BY <1>u, <3>1
  <2> QED
    BY <2>1, <2>2, <2>3
<1>2. ASSUME NEW t \in Threads, Edit(t) PROVE y \in Own \/ CameUp(y)
  <2>1. CASE DropFolder(t)
    <3>1. DeleteFolderRow(loc[t].target) /\ UNCHANGED handmade /\ loc[t].target \in Nat
      BY <2>1 DEF DropFolder, PruneTarget, Pruning
    <3> QED
      BY <3>1, DeleteBringsUp
  <2>2. CASE ~DropFolder(t)
    <3>1. UNCHANGED <<folders, handmade>>
      BY <1>2, <2>2 DEF Edit, MoveRow, EndMove, Unlink, DeleteRow, CountReports, CountFolders,
                        tables, history
    <3> QED
      BY <1>u, <3>1
  <2> QED
    BY <2>1, <2>2
<1>3. ASSUME NEW t \in Threads, StartSync(t) \/ StartMove(t) \/ StartDelete(t) PROVE y \in Own
  BY <1>3, <1>u DEF StartSync, StartMove, StartDelete, StartEdit, tables, history
<1>4. CASE CreateFolder
  <2>1. PICK name, parent : NewFolder(name, parent)
    BY <1>4, Zenon DEF CreateFolder
  <2>2. handmade' = handmade \cup {lastFolder + 1}
    BY <1>4 DEF CreateFolder
  <2> QED
    BY <2>1, <2>2 DEF NewFolder, Own
<1>5. CASE UpdateFolder
  <2>1. PICK x \in folders : \E name, parent :
          /\ folders' = (folders \ {x}) \cup {[x EXCEPT !.name = name, !.parent = parent]}
          /\ handmade' = handmade \cup {x.id}
    BY <1>5, Zenon DEF UpdateFolder
  <2>2. PICK name, parent :
          folders' = (folders \ {x}) \cup {[x EXCEPT !.name = name, !.parent = parent]}
    BY <2>1, Zenon
  <2>3. handmade' = handmade \cup {x.id}
    BY <2>1
  <2> QED
    BY <2>2, <2>3 DEF Own, TypeOK, Folders
<1>6. CASE DeleteFolder
  <2>1. PICK x \in folders : DeleteFolderRow(x.id)
    BY <1>6 DEF DeleteFolder
  <2>2. x.id \in Nat /\ UNCHANGED handmade
    BY <1>6 DEF DeleteFolder, history, TypeOK, Folders
  <2> QED
    BY <2>1, <2>2, DeleteBringsUp
<1>7. CASE Generate \/ Restart \/ UNCHANGED vars
  BY <1>7, <1>u DEF Generate, Restart, vars, tables, history
<1> QED
  BY <1>1, <1>2, <1>3, <1>4, <1>5, <1>6, <1>7 DEF Next, Operators

LEMMA FolderKindsStep ==
  ASSUME TablesInv, FolderKinds, [Next]_vars
  PROVE  FolderKinds'
<1> SUFFICES ASSUME NEW y \in Own'
             PROVE  (y.name \in Years /\ y.parent = None) \/ y.name \in Months
  BY DEF FolderKinds
<1>t. TypeOK /\ PruneTarget /\ MonthInYear
  BY DEF TablesInv
<1>1. CASE y \in Own \/ CameUp(y)
  BY <1>1 DEF FolderKinds, CameUp
<1>2. CASE MadeYear(y)
  <2>1. PICK t \in Threads : MakeYear(t) /\ y.name = YearOf[Current(t)] /\ y.parent = None
    BY <1>2 DEF MadeYear
  <2>2. Current(t) \in Files
    BY <1>t, <2>1, CurrentIsFile DEF MakeYear, TypeOK, Searching
  <2> QED
    BY <2>1, <2>2 DEF Years
<1>3. CASE MadeMonth(y)
  <2>1. PICK t \in Threads : MakeMonth(t) /\ y.name = MonthOf[Current(t)]
    BY <1>3 DEF MadeMonth
  <2>2. Current(t) \in Files
    BY <1>t, <2>1, CurrentIsFile DEF MakeMonth, TypeOK, Searching
  <2>3. MonthOf[Current(t)] # None
    BY <1>t, <2>1 DEF MakeMonth, MonthInYear
  <2> QED
    BY <2>1, <2>2, <2>3 DEF Months
<1> QED
  BY <1>t, <1>1, <1>2, <1>3, OwnFolders

\* A folder that two syncs were about to make stays one.
LEMMA RacedStays ==
  ASSUME [Next]_vars
  PROVE  raced \subseteq raced'
<1>1. ASSUME NEW t \in Threads, Sync(t) PROVE raced \subseteq raced'
  BY <1>1 DEF Sync, LookAtFile, EndSync, FindYear, MakeYear, FindMonth, MakeMonth, InsertRow,
              PlaceRow, Race, history
<1>2. ASSUME NEW t \in Threads, Edit(t) PROVE UNCHANGED raced
  BY <1>2 DEF Edit, MoveRow, EndMove, Unlink, DeleteRow, CountReports, CountFolders, DropFolder,
              history
<1>3. ASSUME NEW t \in Threads, StartSync(t) \/ StartMove(t) \/ StartDelete(t)
      PROVE  UNCHANGED raced
  BY <1>3 DEF StartSync, StartMove, StartDelete, StartEdit, history
<1>4. CASE Operators \/ Generate \/ Restart \/ UNCHANGED vars
  BY <1>4, Zenon DEF Operators, CreateFolder, UpdateFolder, DeleteFolder, Generate, Restart, vars,
                     history
<1> QED
  BY <1>1, <1>2, <1>3, <1>4 DEF Next

LEMMA FoldersUniqueStep ==
  ASSUME TablesInv, FolderKinds, MakingFirst, FoldersUnique, [Next]_vars
  PROVE  FoldersUnique'
<1>t. TypeOK /\ PruneTarget /\ MonthInYear
  BY DEF TablesInv
<1> DEFINE Filing(z) == z.parent = None => z.name \in Years
           Place(z)  == <<z.name, z.parent>>
<1>u. ASSUME NEW x \in Own, NEW y \in Own, x.name = y.name, x.parent = y.parent, Filing(x),
             Place(x) \notin raced
      PROVE  x = y
  BY <1>u DEF FoldersUnique, Own, Years
\* A folder that has come up is a month's.
<1>1. ASSUME NEW y, CameUp(y) PROVE ~Filing(y)
  <2>1. PICK x \in Own : y.name = x.name /\ x.parent # None /\ y.parent = None
    BY <1>1 DEF CameUp
  <2>2. x.name \in Months
    BY <2>1 DEF FolderKinds
  <2> QED
    BY <2>1, <2>2, PeriodsDiffer
\* A sync that makes a folder no two were about to make makes the first one.
<1>2. ASSUME NEW y, MadeYear(y) \/ MadeMonth(y), Place(y) \notin raced, NEW x \in Own
      PROVE  Place(x) # Place(y)
  <2>1. PICK t \in Threads : Place(y) \in Making(t)
    BY <1>2 DEF MadeYear, MadeMonth, MakeYear, MakeMonth, Making
  <2> QED
    BY <1>2, <2>1 DEF MakingFirst
<1>4. ASSUME NEW x, NEW y, MadeYear(x), MadeYear(y), x.name = y.name PROVE x = y
  BY <1>4 DEF MadeYear
<1>5. ASSUME NEW x, NEW y, MadeMonth(x), MadeMonth(y), x.name = y.name, x.parent = y.parent
      PROVE  x = y
  BY <1>5 DEF MadeMonth
<1>6. ASSUME NEW x, NEW y, MadeYear(x), MadeMonth(y) PROVE x.parent # y.parent
  <2>1. x.parent = None
    BY <1>6 DEF MadeYear
  <2>2. y.parent \in Nat
    BY <1>t, <1>6 DEF MadeMonth, MonthInYear, MakeMonth
  <2> QED
    BY <2>1, <2>2, PeriodsDiffer
<1>7. ASSUME NEW x \in Own', NEW y \in Own', x.name = y.name, x.parent = y.parent,
             Filing(x), Place(x) \notin raced'
      PROVE  x = y
  <2>1. Filing(y) /\ Place(x) = Place(y) /\ Place(x) \notin raced
    BY <1>7, RacedStays
  <2>2. (x \in Own \/ MadeYear(x) \/ MadeMonth(x)) /\ (y \in Own \/ MadeYear(y) \/ MadeMonth(y))
    BY <1>t, <1>1, <1>7, <2>1, OwnFolders
  <2> HIDE DEF Place, Filing
  <2>3. CASE x \in Own /\ y \in Own
    BY <1>u, <1>7, <2>1, <2>3
  <2>4. CASE x \in Own /\ (MadeYear(y) \/ MadeMonth(y))
    BY <1>2, <2>1, <2>4
  <2>5. CASE y \in Own /\ (MadeYear(x) \/ MadeMonth(x))
    BY <1>2, <2>1, <2>5
  <2>6. CASE (MadeYear(x) \/ MadeMonth(x)) /\ (MadeYear(y) \/ MadeMonth(y))
    BY <1>4, <1>5, <1>6, <1>7, <2>6
  <2> QED
    BY <2>2, <2>3, <2>4, <2>5, <2>6
<1> QED
  BY <1>7 DEF FoldersUnique, Own, Years

\* A sync that is about to make a folder was so before the step, or has just not found it.
LEMMA MakingIsOld ==
  ASSUME TypeOK, [Next]_vars, NEW s \in Threads, pc'[s] \in {"makeYear", "makeMonth"}
  PROVE  \/ pc'[s] = pc[s] /\ todo'[s] = todo[s] /\ loc'[s] = loc[s]
         \/ /\ FindYear(s) /\ Named(YearOf[Current(s)], None) = {} /\ pc'[s] = "makeYear"
            /\ Race(s, YearOf[Current(s)], None)
         \/ /\ FindMonth(s) /\ Named(MonthOf[Current(s)], loc[s].spot) = {}
            /\ pc'[s] = "makeMonth" /\ loc'[s] = loc[s]
            /\ Race(s, MonthOf[Current(s)], loc[s].spot)
<1>t. pc \in [Threads -> Places]
  BY DEF TypeOK, Places
<1> DEFINE Same == pc'[s] = pc[s] /\ todo'[s] = todo[s] /\ loc'[s] = loc[s]
<1>o. ASSUME NEW t \in Threads \ {s}, Mine(t) PROVE Same
  BY <1>o DEF Mine
<1>1. ASSUME NEW t \in Threads, Sync(t)
      PROVE  \/ Same
             \/ FindYear(s) /\ Named(YearOf[Current(s)], None) = {} /\ pc'[s] = "makeYear"
                /\ Race(s, YearOf[Current(s)], None)
             \/ FindMonth(s) /\ Named(MonthOf[Current(s)], loc[s].spot) = {}
                /\ pc'[s] = "makeMonth" /\ loc'[s] = loc[s]
                /\ Race(s, MonthOf[Current(s)], loc[s].spot)
  <2>1. CASE t # s
    BY <1>1, <1>o, <2>1, SyncIsMine
  <2>2. CASE LookAtFile(s) \/ EndSync(s) \/ MakeYear(s) \/ MakeMonth(s) \/ InsertRow(s)
             \/ PlaceRow(s)
    <3>1. pc[s] \notin {"makeYear", "makeMonth"} \/ MakeYear(s) \/ MakeMonth(s)
      BY <2>2 DEF LookAtFile, EndSync, InsertRow, PlaceRow
    <3>2. pc'[s] \notin {"makeYear", "makeMonth"}
      BY <1>t, <2>2 DEF LookAtFile, EndSync, MakeYear, MakeMonth, InsertRow, PlaceRow, Tick,
                        Found, Finish, Goto, AfterYear
    <3> QED
      BY <3>2
  <2>3. CASE FindYear(s)
    <3>1. /\ Named(YearOf[Current(s)], None) = {} /\ pc'[s] = "makeYear"
          /\ Race(s, YearOf[Current(s)], None)
      BY <1>t, <2>3 DEF FindYear, Found, Goto, AfterYear
    <3> QED
      BY <2>3, <3>1
  <2>4. CASE FindMonth(s)
    <3>1. /\ Named(MonthOf[Current(s)], loc[s].spot) = {} /\ pc'[s] = "makeMonth"
          /\ loc'[s] = loc[s] /\ Race(s, MonthOf[Current(s)], loc[s].spot)
      BY <1>t, <2>4 DEF FindMonth, Found, Goto
    <3> QED
      BY <2>4, <3>1
  <2> QED
    BY <1>1, <2>1, <2>2, <2>3, <2>4 DEF Sync
<1>2. ASSUME NEW t \in Threads, Edit(t) PROVE Same
  <2>1. CASE t = s
    <3>1. pc'[s] \notin {"makeYear", "makeMonth"}
      BY <1>t, <1>2, <2>1 DEF Edit, MoveRow, EndMove, Unlink, DeleteRow, CountReports,
                     CountFolders, DropFolder, Prune, Finish, Goto
    <3> QED
      BY <3>1
  <2> QED
    BY <1>2, <1>o, <2>1, EditIsMine
<1>3. ASSUME NEW t \in Threads, StartSync(t) \/ StartMove(t) \/ StartDelete(t) PROVE Same
  <2>1. t # s
    BY <1>3, StartIsMine
  <2> QED
    BY <1>3, <1>o, <2>1, StartIsMine
<1>4. CASE Operators \/ Generate \/ UNCHANGED vars
  BY <1>4, NobodyMoves DEF vars
<1>5. CASE Restart
  BY <1>5 DEF Restart
<1> QED
  BY <1>1, <1>2, <1>3, <1>4, <1>5 DEF Next

\* The same of the folders it is about to make: one it has just not found was in nobody's
\* hands, or is now raced for.
LEMMA MakingStep ==
  ASSUME TypeOK, [Next]_vars, NEW s \in Threads, NEW place \in Making(s)', place \notin raced'
  PROVE  \/ place \in Making(s)
         \/ /\ FindYear(s) \/ FindMonth(s)
            /\ \A t \in Threads \ {s} : place \notin Making(t)
            /\ \A x \in folders' : <<x.name, x.parent>> # place
<1>1. pc'[s] \in {"makeYear", "makeMonth"}
  BY DEF Making
<1>2. CASE pc'[s] = pc[s] /\ todo'[s] = todo[s] /\ loc'[s] = loc[s]
  BY <1>1, <1>2 DEF Making, Current
<1>3. CASE /\ FindYear(s) /\ Named(YearOf[Current(s)], None) = {} /\ pc'[s] = "makeYear"
           /\ Race(s, YearOf[Current(s)], None)
  <2>1. folders' = folders /\ Current(s)' = Current(s)
    BY <1>3 DEF FindYear, tables, Current
  <2>2. place = <<YearOf[Current(s)], None>>
    BY <1>3, <2>1 DEF Making
  <2>3. \A t \in Threads \ {s} : place \notin Making(t)
    BY <1>3, <2>2 DEF Race
  <2>4. \A x \in folders' : <<x.name, x.parent>> # place
    BY <1>3, <2>1, <2>2 DEF Named
  <2> QED
    BY <1>3, <2>3, <2>4
<1>4. CASE /\ FindMonth(s) /\ Named(MonthOf[Current(s)], loc[s].spot) = {}
           /\ pc'[s] = "makeMonth" /\ loc'[s] = loc[s]
           /\ Race(s, MonthOf[Current(s)], loc[s].spot)
  <2>1. folders' = folders /\ Current(s)' = Current(s)
    BY <1>4 DEF FindMonth, tables, Current
  <2>2. place = <<MonthOf[Current(s)], loc[s].spot>>
    BY <1>4, <2>1 DEF Making
  <2>3. \A t \in Threads \ {s} : place \notin Making(t)
    BY <1>4, <2>2 DEF Race
  <2>4. \A x \in folders' : <<x.name, x.parent>> # place
    BY <1>4, <2>1, <2>2 DEF Named
  <2> QED
    BY <1>4, <2>3, <2>4
<1> QED
  BY <1>1, <1>2, <1>3, <1>4, MakingIsOld

LEMMA MakingFirstStep ==
  ASSUME TablesInv, TablesInv', FolderKinds, MakingFirst, [Next]_vars
  PROVE  MakingFirst'
<1>t. /\ TypeOK /\ PruneTarget /\ MonthInYear /\ TypeOK' /\ MonthInYear'
      /\ pc \in [Threads -> Places]
  BY DEF TablesInv, TypeOK, Places
<1> SUFFICES ASSUME NEW s \in Threads, NEW place \in Making(s)', place \notin raced'
             PROVE  /\ \A t \in Threads \ {s} : place \notin Making(t)'
                    /\ \A y \in Own' : <<y.name, y.parent>> # place
  BY DEF MakingFirst
<1>r. place \notin raced
  BY RacedStays
<1>1. \/ place \in Making(s)
      \/ /\ FindYear(s) \/ FindMonth(s)
         /\ \A t \in Threads \ {s} : place \notin Making(t)
         /\ \A x \in folders' : <<x.name, x.parent>> # place
  BY <1>t, MakingStep
\* While one thread looks, no other does.
<1>l. ASSUME NEW t \in Threads \ {s}, FindYear(s) \/ FindMonth(s) PROVE ~FindYear(t) /\ ~FindMonth(t)
  <2>1. Sync(s) /\ pc'[s] # pc[s]
    <3>1. FindYear(s) => pc'[s] # "year"
      BY <1>t DEF FindYear, Found, Goto, AfterYear
    <3>2. FindMonth(s) => pc'[s] # "month"
      BY <1>t DEF FindMonth, Found, Goto
    <3> QED
      BY <1>l, <3>1, <3>2 DEF Sync, FindYear, FindMonth
  <2>2. SUFFICES ASSUME FindYear(t) \/ FindMonth(t) PROVE FALSE
    OBVIOUS
  <2>3. Sync(t)
    BY <2>2 DEF Sync
  <2> QED
    BY <1>t, <2>1, <2>3, SyncIsMine DEF Mine
<1>2. ASSUME NEW t \in Threads \ {s} PROVE place \notin Making(t)'
  <2> SUFFICES ASSUME place \in Making(t)' PROVE FALSE
    OBVIOUS
  <2>1. \/ place \in Making(t)
        \/ /\ FindYear(t) \/ FindMonth(t)
           /\ \A r \in Threads \ {t} : place \notin Making(r)
    BY <1>t, MakingStep
  <2>2. CASE place \in Making(s)
    BY <1>r, <2>1, <2>2 DEF MakingFirst
  <2>3. CASE /\ FindYear(s) \/ FindMonth(s)
             /\ \A r \in Threads \ {s} : place \notin Making(r)
    BY <1>l, <2>1, <2>3
  <2> QED
    BY <1>1, <2>2, <2>3
<1>3. ASSUME NEW y \in Own' PROVE <<y.name, y.parent>> # place
  <2>0. y \in folders'
    BY DEF Own
  <2>1. CASE place \notin Making(s)
    BY <1>1, <2>0, <2>1
  <2> SUFFICES ASSUME place \in Making(s), <<y.name, y.parent>> = place PROVE FALSE
    BY <2>1
  <2>2. CASE y \in Own
    BY <1>r, <2>2 DEF MakingFirst
  <2>3. CASE CameUp(y)
    <3>1. y.name \in Months /\ y.parent = None
      BY <2>3 DEF CameUp, FolderKinds
    <3>2. CASE pc[s] = "makeYear"
      <4>1. Current(s) \in Files /\ y.name = YearOf[Current(s)]
        BY <1>t, <3>2, CurrentIsFile DEF Making, TypeOK, Searching
      <4> QED
        BY <3>1, <4>1, PeriodsDiffer DEF Years
    <3>3. CASE pc[s] = "makeMonth"
      BY <1>t, <3>1, <3>3, PeriodsDiffer DEF Making, MonthInYear
    <3> QED
      BY <3>2, <3>3 DEF Making
  <2>4. CASE MadeYear(y) \/ MadeMonth(y)
    <3>1. PICK t \in Threads : (MakeYear(t) \/ MakeMonth(t)) /\ place \in Making(t)
      BY <2>4 DEF MadeYear, MadeMonth, MakeYear, MakeMonth, Making
    <3>2. t = s
      BY <1>r, <3>1 DEF MakingFirst
    <3>3. pc'[s] \notin {"makeYear", "makeMonth"}
      BY <1>t, <3>1, <3>2 DEF MakeYear, MakeMonth, Found, Goto, AfterYear
    <3> QED
      BY <3>3 DEF Making
  <2> QED
    BY <1>t, <2>2, <2>3, <2>4, OwnFolders
<1> QED
  BY <1>2, <1>3

LEMMA FoldersInvHolds == Spec => []FoldersInv
<1>1. Init => FoldersInv
  <2> SUFFICES ASSUME Init PROVE FoldersInv
    OBVIOUS
  <2>1. Own = {} /\ \A t \in Threads : Making(t) = {}
    BY DEF Init, Own, Making
  <2> QED
    BY <2>1 DEF FoldersInv, FolderKinds, MakingFirst, FoldersUnique, Own
<1>2. TablesInv /\ TablesInv' /\ FoldersInv /\ [Next]_vars => FoldersInv'
  BY FolderKindsStep, MakingFirstStep, FoldersUniqueStep DEF FoldersInv
<1> QED
  BY <1>1, <1>2, TablesInvHolds, PTL DEF Spec

\* Two statements look for a folder and make it, with no lock; still a year has one folder
\* at the root, and a month one in the folder of its year, unless two syncs were between
\* the two statements for that folder at once, or an operator made or changed it.
THEOREM FoldersAreUnique == Spec => []FoldersUnique
<1>1. FoldersInv => FoldersUnique
  BY DEF FoldersInv
<1> QED
  BY <1>1, FoldersInvHolds, PTL

-----------------------------------------------------------------------------
(* Reports are filed by their period.                                      *)

\* Folders get ids in turn, and names that only operators change.
LEMMA OwnNamesStay ==
  ASSUME TypeOK, PruneTarget, [Next]_vars
  PROVE  /\ lastFolder <= lastFolder' /\ lastFolder' \in Nat
         /\ \A y \in Own' : \/ \E x \in Own : x.id = y.id /\ x.name = y.name
                            \/ y.id = lastFolder + 1
<1>t. lastFolder \in Nat
  BY DEF TypeOK
<1>1. ASSUME NEW y \in Own'
      PROVE (\E x \in Own : x.id = y.id /\ x.name = y.name) \/ y.id = lastFolder + 1
  BY OwnFolders DEF CameUp, MadeYear, MadeMonth
<1>2. lastFolder' = lastFolder \/ lastFolder' = lastFolder + 1
  <2>1. ASSUME NEW t \in Threads, Sync(t) PROVE lastFolder' \in {lastFolder, lastFolder + 1}
    BY <2>1 DEF Sync, LookAtFile, EndSync, FindYear, MakeYear, FindMonth, MakeMonth, InsertRow,
                PlaceRow, NewFolder, tables
  <2>2. ASSUME NEW t \in Threads, Edit(t) PROVE lastFolder' = lastFolder
    BY <2>2 DEF Edit, MoveRow, EndMove, Unlink, DeleteRow, CountReports, CountFolders, DropFolder,
                DeleteFolderRow, tables
  <2>3. ASSUME NEW t \in Threads, StartSync(t) \/ StartMove(t) \/ StartDelete(t)
        PROVE  lastFolder' = lastFolder
    BY <2>3, StartIsMine DEF tables
  <2>4. CASE CreateFolder
    BY <2>4, Zenon DEF CreateFolder, NewFolder
  <2>5. CASE UpdateFolder \/ DeleteFolder \/ Generate \/ Restart \/ UNCHANGED vars
    BY <2>5, Zenon DEF UpdateFolder, DeleteFolder, DeleteFolderRow, Generate, Restart, vars, tables
  <2> QED
    BY <2>1, <2>2, <2>3, <2>4, <2>5 DEF Next, Operators
<1> QED
  BY <1>t, <1>1, <1>2

LEMMA SpotStep ==
  ASSUME TablesInv, SpotInv, [Next]_vars
  PROVE  SpotInv'
<1> SUFFICES ASSUME NEW s \in Threads PROVE SpotOf(s)'
  BY DEF SpotInv, SpotOf
<1>t. /\ TypeOK /\ PruneTarget /\ MonthInYear /\ SpotOf(s)
      /\ pc \in [Threads -> Places] /\ loc \in [Threads -> Locals] /\ lastFolder \in Nat
      /\ \A t \in Threads : loc[t].spot \in Nat \cup {None}
  BY DEF TablesInv, TypeOK, Places, SpotInv, SpotOf, Locals, Ids
<1>n. /\ lastFolder <= lastFolder' /\ lastFolder' \in Nat
      /\ \A y \in Own' : \/ \E x \in Own : x.id = y.id /\ x.name = y.name
                         \/ y.id = lastFolder + 1
  BY <1>t, OwnNamesStay
<1>v. ASSUME pc'[s] \notin {"month", "makeMonth", "insert"} PROVE SpotOf(s)'
  BY <1>v DEF SpotOf
<1>k. ASSUME pc'[s] = pc[s], todo'[s] = todo[s], loc'[s] = loc[s] PROVE SpotOf(s)'
  <2>1. Current(s)' = Current(s)
    BY <1>k DEF Current
  <2>2. ASSUME pc[s] \in {"month", "makeMonth", "insert"}, loc[s].spot # None
        PROVE  loc[s].spot <= lastFolder' /\ loc[s].spot # lastFolder + 1
    BY <1>t, <1>n, <2>2 DEF SpotOf
  <2>3. ASSUME pc[s] = "insert", loc[s].spot # None, NEW y \in Own', y.id = loc[s].spot
        PROVE  y.name = Period(Current(s))
    BY <1>t, <1>n, <2>2, <2>3 DEF SpotOf
  <2> QED
    BY <1>k, <2>1, <2>2, <2>3 DEF SpotOf
<1>o. ASSUME NEW t \in Threads \ {s}, Mine(t) PROVE SpotOf(s)'
  BY <1>k, <1>o DEF Mine
\* The folder found is there, with the name looked for.
<1>f. ASSUME NEW x \in folders, NEW label, Found(s, x.id, label), UNCHANGED <<folders, lastFolder, todo>>,
             label = "insert" => x.name = Period(Current(s))
      PROVE  SpotOf(s)'
  <2>1. Current(s)' = Current(s) /\ pc'[s] = label /\ loc'[s].spot = x.id
    BY <1>t, <1>f DEF Current, Found, Goto, Locals
  <2>2. x.id <= lastFolder /\ \A y \in folders : y.id = x.id => y = x
    BY <1>t DEF TypeOK, SchemaHolds
  <2> QED
    BY <1>f, <2>1, <2>2 DEF SpotOf, Own
\* The folder made has the name looked for.
<1>g. ASSUME NEW name, NEW parent, NewFolder(name, parent), NEW label, UNCHANGED todo,
             Found(s, lastFolder + 1, label), label = "insert" => name = Period(Current(s))
      PROVE  SpotOf(s)'
  <2>1. /\ Current(s)' = Current(s) /\ pc'[s] = label /\ loc'[s].spot = lastFolder + 1
        /\ lastFolder' = lastFolder + 1
    BY <1>t, <1>g DEF Current, Found, Goto, Locals, NewFolder
  <2>2. \A x \in folders : x.id \in Nat /\ x.id <= lastFolder
    BY <1>t DEF TypeOK, SchemaHolds, Folders
  <2>3. \A y \in folders' : y.id = lastFolder + 1 => y.name = name
    BY <1>t, <1>g, <2>2 DEF NewFolder
  <2> QED
    BY <1>t, <1>g, <2>1, <2>3 DEF SpotOf, Own
<1>y. AfterYear(s) = "insert" => YearOf[Current(s)] = Period(Current(s))
  BY DEF AfterYear, Period
<1>1. ASSUME NEW t \in Threads, Sync(t) PROVE SpotOf(s)'
  <2>1. CASE t # s
    BY <1>1, <1>t, <1>o, <2>1, SyncIsMine
  <2>2. CASE LookAtFile(s)
    <3>1. loc'[s].spot = None
      BY <1>t, <2>2 DEF LookAtFile, Locals
    <3> QED
      BY <3>1 DEF SpotOf
  <2>3. CASE EndSync(s) \/ InsertRow(s) \/ PlaceRow(s)
    <3>1. pc'[s] \in {"look", "idle"}
      BY <1>t, <2>3 DEF EndSync, InsertRow, PlaceRow, Tick, Finish, Goto
    <3> QED
      BY <1>v, <3>1
  <2>4. CASE FindYear(s)
    <3>1. UNCHANGED <<folders, lastFolder, todo>>
      BY <2>4 DEF FindYear, tables
    <3>2. CASE Goto(s, "makeYear")
      BY <1>t, <1>v, <3>2 DEF Goto
    <3>3. CASE \E x \in Named(YearOf[Current(s)], None) : Found(s, x.id, AfterYear(s))
      <4>1. PICK x \in folders : x.name = YearOf[Current(s)] /\ Found(s, x.id, AfterYear(s))
        BY <3>3 DEF Named
      <4> QED
        BY <1>f, <1>y, <3>1, <4>1
    <3> QED
      BY <2>4, <3>2, <3>3 DEF FindYear
  <2>5. CASE MakeYear(s)
    <3>1. /\ NewFolder(YearOf[Current(s)], None) /\ UNCHANGED todo
          /\ Found(s, lastFolder + 1, AfterYear(s))
      BY <2>5 DEF MakeYear
    <3> QED
      BY <1>g, <1>y, <3>1
  <2>6. CASE FindMonth(s)
    <3>1. UNCHANGED <<folders, lastFolder, todo>> /\ MonthOf[Current(s)] = Period(Current(s))
          /\ pc[s] = "month"
      BY <1>t, <2>6 DEF FindMonth, tables, MonthInYear, Period
    <3>2. CASE Goto(s, "makeMonth") /\ UNCHANGED loc
      <4>1. pc'[s] = "makeMonth" /\ loc'[s] = loc[s]
        BY <1>t, <3>2 DEF Goto
      <4> QED
        BY <1>t, <3>1, <4>1 DEF SpotOf
    <3>3. CASE \E x \in Named(MonthOf[Current(s)], loc[s].spot) : Found(s, x.id, "insert")
      <4>1. PICK x \in folders : x.name = MonthOf[Current(s)] /\ Found(s, x.id, "insert")
        BY <3>3 DEF Named
      <4> QED
        BY <1>f, <3>1, <4>1
    <3> QED
      BY <2>6, <3>2, <3>3 DEF FindMonth
  <2>7. CASE MakeMonth(s)
    <3>1. UNCHANGED todo /\ MonthOf[Current(s)] = Period(Current(s))
      BY <1>t, <2>7 DEF MakeMonth, MonthInYear, Period
    <3>2. CASE IsFolder(loc[s].spot)
      <4>1. /\ NewFolder(MonthOf[Current(s)], loc[s].spot)
            /\ Found(s, lastFolder + 1, "insert")
        BY <2>7, <3>2 DEF MakeMonth
      <4> QED
        BY <1>g, <3>1, <4>1
    <3>3. CASE ~IsFolder(loc[s].spot)
      <4>1. loc'[s].spot = None
        BY <1>t, <2>7, <3>3 DEF MakeMonth, Found, Locals
      <4> QED
        BY <4>1 DEF SpotOf
    <3> QED
      BY <3>2, <3>3
  <2> QED
    BY <1>1, <2>1, <2>2, <2>3, <2>4, <2>5, <2>6, <2>7 DEF Sync
<1>2. ASSUME NEW t \in Threads, Edit(t) PROVE SpotOf(s)'
  <2>1. CASE t = s
    <3>1. pc'[s] \notin Searching
      BY <1>t, <1>2, <2>1 DEF Edit, MoveRow, EndMove, Unlink, DeleteRow, CountReports,
                     CountFolders, DropFolder, Prune, Finish, Goto, Searching
    <3> QED
      BY <1>v, <3>1 DEF Searching
  <2> QED
    BY <1>2, <1>t, <1>o, <2>1, EditIsMine
<1>3. ASSUME NEW t \in Threads, StartSync(t) \/ StartMove(t) \/ StartDelete(t) PROVE SpotOf(s)'
  BY <1>3, <1>t, <1>v, <1>o, StartIsMine
<1>4. CASE Operators \/ Generate \/ UNCHANGED vars
  BY <1>4, <1>k, NobodyMoves DEF vars
<1>5. CASE Restart
  BY <1>5, <1>v DEF Restart
<1> QED
  BY <1>1, <1>2, <1>3, <1>4, <1>5 DEF Next

LEMMA SpotInvHolds == Spec => []SpotInv
<1>1. Init => SpotInv
  BY DEF Init, SpotInv, SpotOf
<1> QED
  BY <1>1, SpotStep, TablesInvHolds, PTL DEF Spec

\* The step of FiledByPeriod.
FilesByPeriod ==
  \A t \in Threads : pc[t] = "insert" /\ pc'[t] # "insert" =>
    \A r \in rows' \ rows : r.folder \notin handmade \cup {None} =>
      \E x \in folders' :
        /\ x.id = r.folder
        /\ x.name = IF MonthOf[r.file] = None THEN YearOf[r.file] ELSE MonthOf[r.file]

LEMMA FilesByPeriodStep ==
  ASSUME TablesInv, SpotInv, Next
  PROVE  FilesByPeriod
<1> SUFFICES ASSUME NEW s \in Threads, pc[s] = "insert", pc'[s] # "insert", NEW r \in rows' \ rows,
                    r.folder \notin handmade \cup {None}
             PROVE  \E x \in folders' : x.id = r.folder /\ x.name = Period(r.file)
  BY DEF FilesByPeriod, Period
<1>t. TypeOK /\ MainAlone /\ PruneTarget
  BY DEF TablesInv
\* The report is stored in the folder found, and that is there.
<1>k. ASSUME r.folder = loc[s].spot, r.file = Current(s), IsFolder(loc[s].spot), UNCHANGED folders
      PROVE  \E x \in folders' : x.id = r.folder /\ x.name = Period(r.file)
  <2>1. PICK x \in folders : x.id = loc[s].spot
    BY <1>k DEF IsFolder, Folder
  <2>2. x \in Own /\ loc[s].spot # None
    BY <1>k, <2>1 DEF Own
  <2> QED
    BY <1>k, <2>1, <2>2 DEF SpotInv, SpotOf
<1>1. ASSUME NEW t \in Threads, Sync(t)
      PROVE  \E x \in folders' : x.id = r.folder /\ x.name = Period(r.file)
  <2>1. t = s
    BY <1>1, <1>t, SyncIsMine DEF Mine
  <2>2. CASE InsertRow(s)
    <3>1. IsFolder(loc[s].spot)
      BY <2>2 DEF InsertRow
    <3>2. UNCHANGED folders /\ r \in {[id |-> lastRow + 1, file |-> Current(s),
                                       folder |-> loc[s].spot]}
      BY <2>2 DEF InsertRow
    <3> QED
      BY <1>k, <3>1, <3>2
  <2>3. CASE PlaceRow(s)
    <3>1. IsFolder(loc[s].spot) /\ UNCHANGED folders
      BY <1>t, <2>3 DEF PlaceRow, Placing, MainAlone
    <3>2. PICK q \in rows :
            r = IF q.file = Current(s) THEN [q EXCEPT !.folder = loc[s].spot] ELSE q
      BY <2>3 DEF PlaceRow
    <3>3. r = [q EXCEPT !.folder = loc[s].spot] /\ q.file = Current(s) /\ q \in Rows
      BY <1>t, <3>2 DEF TypeOK
    <3>4. r.folder = loc[s].spot /\ r.file = Current(s)
      BY <3>3 DEF Rows
    <3> QED
      BY <1>k, <3>1, <3>4
  <2>4. CASE LookAtFile(s) \/ EndSync(s) \/ FindYear(s) \/ MakeYear(s) \/ FindMonth(s)
             \/ MakeMonth(s)
    BY <2>4 DEF LookAtFile, EndSync, FindYear, MakeYear, FindMonth, MakeMonth
  <2> QED
    BY <1>1, <2>1, <2>2, <2>3, <2>4 DEF Sync
<1>2. ASSUME NEW t \in Threads, Edit(t) PROVE FALSE
  <2>1. t # s
    BY <1>2, <1>t, EditIsMine
  <2> QED
    BY <1>2, <1>t, <2>1, EditIsMine DEF Mine
<1>3. ASSUME NEW t \in Threads, StartSync(t) \/ StartMove(t) \/ StartDelete(t) PROVE FALSE
  <2>1. t # s
    BY <1>3, <1>t, StartIsMine
  <2> QED
    BY <1>3, <1>t, <2>1, StartIsMine DEF Mine
<1>4. ~(Operators \/ Generate)
  BY NobodyMoves
<1>5. ~Restart
  BY DEF Restart, tables
<1> QED
  BY <1>1, <1>2, <1>3, <1>4, <1>5 DEF Next

\* A folder chosen by one statement is stored by a later one: the report is then in the
\* folder of its month, or of its year, unless an operator has changed that folder.
THEOREM ReportsAreFiledByPeriod == Spec => FiledByPeriod
<1>1. TablesInv /\ SpotInv /\ [Next]_vars => [FilesByPeriod]_vars
  BY FilesByPeriodStep
<1>2. Spec => [][FilesByPeriod]_vars
  BY <1>1, TablesInvHolds, SpotInvHolds, PTL DEF Spec
<1> QED
  BY <1>2, Zenon DEF FiledByPeriod, FilesByPeriod

-----------------------------------------------------------------------------
(* The backfill leaves no report with a period without a folder.           *)

LEMMA BackfillStep ==
  ASSUME TablesInv, BackfillInv, [Next]_vars
  PROVE  BackfillInv'
<1>t. /\ TypeOK /\ MainAlone /\ MonthInYear /\ Boot \in Threads
      /\ pc \in [Threads -> Places] /\ loc \in [Threads -> Locals]
      /\ todo \in [Threads -> SUBSET Files] /\ lastFolder + 1 \in Nat
  BY DEF TablesInv, TypeOK, Places, Threads
<1>d. CASE boot = "done"
  <2>1. ASSUME NEW t \in Threads, Sync(t) PROVE boot' = "done"
    <3>1. t # Boot
      BY <1>t, <1>d, <2>1, SyncIsMine DEF MainAlone, Searching
    <3> QED
      BY <1>d, <2>1, <3>1, BootStays
  <2>2. ASSUME NEW t \in Threads, Edit(t) PROVE boot' = "done"
    BY <1>d, <2>2 DEF Edit, MoveRow, EndMove, Unlink, DeleteRow, CountReports, CountFolders, DropFolder
  <2>3. ASSUME NEW t \in Threads, StartSync(t) \/ StartMove(t) \/ StartDelete(t) PROVE boot' = "done"
    BY <1>d, <1>t, <2>3, StartIsMine
  <2>4. CASE Operators \/ Generate \/ UNCHANGED vars
    BY <1>d, <2>4, NobodyMoves DEF vars, BackfillInv
  <2>5. CASE Restart
    BY <2>5 DEF Restart, BackfillInv
  <2> QED
    BY <2>1, <2>2, <2>3, <2>4, <2>5 DEF Next, BackfillInv
<1>s. CASE boot # "done" /\ Sync(Boot)
  <2>c. UNCHANGED todo => Current(Boot)' = Current(Boot)
    BY DEF Current
  \* Steps of the search, which leave the reports and the list as they are.
  <2>k. ASSUME UNCHANGED <<rows, todo, boot>>,
               pc'[Boot] = "insert" =>
                 (YearOf[Current(Boot)] # None => loc'[Boot].spot # None)
        PROVE  BackfillInv'
    BY <2>c, <2>k DEF BackfillInv
  <2>1. CASE LookAtFile(Boot)
    <3>1. CASE boot = "place"
      <4>1. /\ UNCHANGED <<rows, todo, boot>>
            /\ Goto(Boot, IF YearOf[Current(Boot)] = None THEN "insert" ELSE "year")
        BY <2>1, <3>1 DEF LookAtFile, Placing, tables
      <4>2. pc'[Boot] = IF YearOf[Current(Boot)] = None THEN "insert" ELSE "year"
        BY <1>t, <4>1 DEF Goto
      <4> QED
        BY <2>k, <4>1, <4>2
    <3>2. CASE boot # "place"
      BY <2>1, <3>2 DEF LookAtFile, BackfillInv
    <3> QED
      BY <3>1, <3>2
  <2>2. CASE EndSync(Boot)
    <3>1. CASE boot = "sync"
      <4>1. /\ UNCHANGED rows /\ pc'[Boot] = "look"
            /\ todo'[Boot] = {r.file : r \in Reports(None)}
        BY <1>t, <2>2, <3>1 DEF EndSync, tables
      <4> QED
        BY <4>1 DEF BackfillInv, Reports
    <3>2. CASE boot # "sync"
      BY <2>2, <3>2 DEF EndSync, BackfillInv
    <3> QED
      BY <3>1, <3>2
  <2>3. CASE FindYear(Boot) \/ FindMonth(Boot)
    <3>1. UNCHANGED <<rows, todo, boot>>
      BY <2>3 DEF FindYear, FindMonth, tables
    <3>2. \/ \E x \in folders : loc'[Boot].spot = x.id
          \/ pc'[Boot] \in {"makeYear", "makeMonth"}
      BY <1>t, <2>3 DEF FindYear, FindMonth, Named, Found, Goto, Locals
    <3>3. \A x \in folders : x.id # None
      BY <1>t, PeriodsDiffer DEF TypeOK, Folders
    <3> QED
      BY <2>k, <3>1, <3>2, <3>3
  <2>4. CASE MakeYear(Boot) \/ MakeMonth(Boot)
    <3>1. UNCHANGED <<rows, todo, boot>>
      BY <2>4 DEF MakeYear, MakeMonth
    <3>2. IsFolder(loc[Boot].spot)
      BY <1>t, <1>s DEF MainAlone
    <3>3. \E label : Found(Boot, lastFolder + 1, label)
      BY <2>4, <3>2 DEF MakeYear, MakeMonth
    <3>4. loc'[Boot].spot = lastFolder + 1
      BY <1>t, <3>3 DEF Found, Locals
    <3> QED
      BY <1>t, <2>k, <3>1, <3>4, PeriodsDiffer
  <2>5. CASE InsertRow(Boot)
    BY <1>s, <2>5 DEF InsertRow, Placing, BackfillInv
  <2>6. CASE PlaceRow(Boot)
    <3>1. /\ boot = "place" /\ boot' = boot /\ pc[Boot] = "insert" /\ loc' = loc
          /\ todo'[Boot] = todo[Boot] \ {Current(Boot)} /\ pc'[Boot] = "look"
          /\ rows' = Refile(rows, {r \in rows : r.file = Current(Boot)}, loc[Boot].spot)
      <4>1. rows' = Refile(rows, {r \in rows : r.file = Current(Boot)}, loc[Boot].spot)
        BY <2>6, Zenon DEF PlaceRow, Refile
      <4> QED
        BY <1>t, <2>6, <4>1 DEF PlaceRow, Placing, Tick, Goto
    <3>2. rows \in SUBSET Rows /\ loc[Boot].spot \in Ids
      BY <1>t DEF TypeOK, Locals
    <3>3. \A q \in rows' : \E r \in rows : q.file = r.file
            /\ (r \in {p \in rows : p.file = Current(Boot)} => q.folder = loc[Boot].spot)
            /\ (r \notin {p \in rows : p.file = Current(Boot)} => q = r)
      BY <3>1, <3>2, RefileFacts
    <3>4. ASSUME NEW q \in rows', q.folder = None, YearOf[q.file] # None
          PROVE  q.file \in todo'[Boot]
      <4>1. PICK r \in rows : q.file = r.file
              /\ (r.file = Current(Boot) => q.folder = loc[Boot].spot)
              /\ (r.file # Current(Boot) => q = r)
        BY <3>3
      <4>2. r.file # Current(Boot)
        BY <3>1, <3>4, <4>1 DEF BackfillInv
      <4> QED
        BY <3>1, <3>4, <4>1, <4>2 DEF BackfillInv
    <3> QED
      BY <3>1, <3>4 DEF BackfillInv
  <2> QED
    BY <1>s, <2>1, <2>2, <2>3, <2>4, <2>5, <2>6 DEF Sync
<1>r. CASE Restart
  BY <1>r DEF Restart, BackfillInv
<1>u. CASE UNCHANGED vars
  BY <1>u DEF vars, tables, BackfillInv, Current
<1>o. ASSUME boot # "done", NEW t \in Threads,
             (Sync(t) /\ t # Boot) \/ Edit(t) \/ StartSync(t) \/ StartMove(t) \/ StartDelete(t)
      PROVE  FALSE
  <2>1. t # Boot => pc[t] = "idle"
    BY <1>t, <1>o DEF MainAlone, Threads
  <2>2. ~(StartSync(t) \/ StartMove(t) \/ StartDelete(t))
    BY <1>o, <1>t, StartIsMine
  <2>3. pc[Boot] \in Searching
    BY <1>t, <1>o DEF MainAlone
  <2> QED
    BY <1>o, <1>t, <2>1, <2>2, <2>3, SyncIsMine, EditIsMine DEF Searching
<1> QED
  BY <1>d, <1>s, <1>r, <1>u, <1>o, NobodyMoves DEF Next

\* The step of BackfillComplete.
Backfills ==
  boot = "place" /\ boot' = "done" => \A r \in rows' : YearOf[r.file] # None => r.folder # None

LEMMA BackfillsStep ==
  ASSUME TablesInv, BackfillInv, Next
  PROVE  Backfills
<1> SUFFICES ASSUME boot = "place", boot' = "done"
             PROVE  \A r \in rows' : YearOf[r.file] # None => r.folder # None
  BY DEF Backfills
<1>t. TypeOK /\ MainAlone /\ Boot \in Threads
  BY DEF TablesInv, Threads
<1>1. ASSUME NEW t \in Threads, Sync(t) PROVE EndSync(Boot)
  <2>1. t = Boot
    BY <1>1, BootStays
  <2>2. ~InsertRow(Boot)
    BY DEF InsertRow, Placing
  <2> QED
    BY <1>1, <2>1, <2>2 DEF Sync, LookAtFile, FindYear, MakeYear, FindMonth, MakeMonth, PlaceRow
<1>2. ASSUME NEW t \in Threads, Edit(t) PROVE FALSE
  BY <1>2 DEF Edit, MoveRow, EndMove, Unlink, DeleteRow, CountReports, CountFolders, DropFolder
<1>3. ASSUME NEW t \in Threads, StartSync(t) \/ StartMove(t) \/ StartDelete(t) PROVE FALSE
  BY <1>3, <1>t, StartIsMine
<1>4. EndSync(Boot)
  BY <1>1, <1>2, <1>3, NobodyMoves DEF Next, Restart
<1>5. todo[Boot] = {} /\ UNCHANGED rows
  BY <1>4 DEF EndSync, tables
<1> QED
  BY <1>5 DEF BackfillInv

\* When main starts to serve after a backfill, every report that has a period has a folder,
\* whatever requests, prunes and stops have left behind.
THEOREM BackfillIsComplete == Spec => BackfillComplete
<1>1. Init => BackfillInv
  BY DEF Init, BackfillInv
<1>2. TablesInv /\ BackfillInv /\ [Next]_vars => BackfillInv'
  BY BackfillStep
<1>3. TablesInv /\ BackfillInv /\ [Next]_vars => [Backfills]_vars
  BY BackfillsStep
<1>4. Spec => [][Backfills]_vars
  BY <1>1, <1>2, <1>3, TablesInvHolds, PTL DEF Spec
<1> QED
  BY <1>4, Zenon DEF BackfillComplete, Backfills
=============================================================================
