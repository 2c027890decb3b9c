------------------------------- MODULE Universe -------------------------------
(***************************************************************************)
(* The universe file: the refresh job of services/universe_manager.py and  *)
(* the operators' additions and removals of services/universe_admin.py,    *)
(* which all read the file, change what they read and replace the file     *)
(* (core/utils.py), without a lock.                                        *)
(*                                                                         *)
(* The scheduler runs one refresh at a time (module Scheduler); every      *)
(* request to the API has a thread of its own.  A restart ends them all;   *)
(* a temporary file it leaves behind has a name nobody uses again.         *)
(***************************************************************************)
EXTENDS UniverseSelection

CONSTANTS
  Threads,       \* requests to the API that may be under way
  Job,           \* the refresh
  Requests,      \* the additions and removals operators ask for
  Etfs,          \* universe_etf_symbols, distinct
  Offers,        \* what discovery may answer for a category
  Picks,         \* what the final selection request may answer
  FirstFiles,    \* what the file may hold at the start
  NoFile,
  MaxWriters     \* bound: requests and refreshes in a behaviour

Writers  == Threads \cup {Job}
Contents == [Categories -> Seq(Symbols)]
Edits    == [op : {"add", "remove"}, category : Categories, symbol : Symbols]

ASSUME WriterAssumption ==
  /\ IsFiniteSet(Threads) /\ Job \notin Threads
  /\ NoFile \notin Contents /\ FirstFiles \subseteq Contents \cup {NoFile}
  /\ Etfs \in Seq(Symbols) /\ DistinctSymbols(Etfs)
  /\ Offers \in [Categories -> SUBSET Seq(Symbols)]
  /\ \A picks \in Picks : picks \in Seq(ToSet(picks))
  /\ Requests # {} /\ Requests \subseteq Edits /\ MaxWriters \in Nat

VARIABLES
  file,      \* what readers of UNIVERSE_FILE get
  version,   \* how many times the file has been replaced
  temp,      \* the temporary file of each writer
  pc,        \* where each writer is
  base,      \* what it read
  baseAt,    \* the version it read
  edit,      \* what the request of a thread asks for
  offered,   \* what discovery answered the refresh, by category
  payload,   \* the rows the refresh still considers, by category
  reviewed,  \* those it asked a dossier for
  got,       \* its selection
  kept,      \* the categories it leaves as they were
  stands,    \* the answered edits nothing has superseded (see StandingEdits)
  started,
  connected  \* whether the process has a client for the broker

store   == <<file, version, stands>>
refresh == <<offered, payload, reviewed, got, kept>>
vars    == <<store, temp, pc, base, baseAt, edit, refresh, started, connected>>

NoSymbols == [c \in Categories |-> <<>>]
Nothing   == [c \in Categories |-> {}]
Free      == [op |-> "free", at |-> 0]

Stages == {"discover", "enrich", "stock", "crypto", "inject"}

TypeOK ==
  /\ file \in Contents \cup {NoFile} /\ version \in Nat
  /\ temp \in [Writers -> Contents \cup {NoFile}]
  /\ pc \in [Writers -> {"idle", "read", "write", "replace"} \cup Stages]
  /\ \A t \in Threads : pc[t] \notin Stages
  /\ base \in [Writers -> Contents] /\ baseAt \in [Writers -> Nat]
  /\ edit \in [Threads -> Edits]
  /\ offered \in Contents /\ payload \in Contents /\ got \in Contents
  /\ reviewed \in [Categories -> SUBSET Symbols] /\ kept \subseteq Categories
  /\ stands \in [Categories -> [Symbols -> [op : {"free", "add", "remove"}, at : Nat]]]
  /\ started \in Nat /\ connected \in BOOLEAN
  /\ \A w \in Writers : pc[w] = "replace" => temp[w] \in Contents

-----------------------------------------------------------------------------
(* Reading and replacing the file.                                         *)

\* read_universe_file: a file that is not there reads as an empty universe.
ReadFile == IF file = NoFile THEN NoSymbols ELSE file

Added(u, c, s)   == [u EXCEPT ![c] = Append(@, s)]
Removed(u, c, s) == [u EXCEPT ![c] = Without(@, {s})]
Edited(u, e) == IF e.op = "add" THEN Added(u, e.category, e.symbol)
                                ELSE Removed(u, e.category, e.symbol)

\* What an edit promises of the symbol it names.
Holds(u, op, c, s) == IF op = "add" THEN s \in ToSet(u[c]) ELSE s \notin ToSet(u[c])

\* (mutant) the name of the temporary file is the same for every writer
WriteSharedTemp(w, u) ==
  /\ temp' = [v \in Writers |-> IF v = w \/ temp[v] # NoFile THEN u ELSE NoFile]
  /\ pc' = [pc EXCEPT ![w] = "replace"]
  /\ UNCHANGED <<store, base, baseAt, edit, refresh, started, connected>>

\* write_universe_file: first the temporary file, whose name is the writer's own...
WriteTemp(w, u) ==
  /\ temp' = [temp EXCEPT ![w] = u]
  /\ pc' = [pc EXCEPT ![w] = "replace"]
  /\ UNCHANGED <<store, base, baseAt, edit, refresh, started, connected>>

\* ... which then takes the place of the old one.
ReplaceFile(w) ==
  /\ file' = temp[w]
  /\ version' = version + 1
  /\ temp' = [temp EXCEPT ![w] = NoFile]
  /\ pc' = [pc EXCEPT ![w] = "idle"]

-----------------------------------------------------------------------------
(* Additions and removals.                                                 *)

\* A request whose symbol, category and, for an addition, quote and instrument pass
\* the validation.  Any other answers 400 and touches nothing; without a broker no
\* addition passes.
AskEdit(t, e) ==
  /\ pc[t] = "idle" /\ started < MaxWriters
  /\ e.op = "add" => connected
  /\ pc' = [pc EXCEPT ![t] = "read"]
  /\ edit' = [edit EXCEPT ![t] = e]
  /\ started' = started + 1
  /\ UNCHANGED <<store, temp, base, baseAt, refresh, connected>>

\* An edit that finds its work done answers without writing.
ReadForEdit(t) ==
  LET e == edit[t] IN
  /\ pc[t] = "read"
  /\ IF Holds(ReadFile, e.op, e.category, e.symbol)
     THEN /\ stands' = [stands EXCEPT ![e.category][e.symbol] = [op |-> e.op, at |-> version]]
          /\ pc' = [pc EXCEPT ![t] = "idle"]
          /\ UNCHANGED <<base, baseAt>>
     ELSE /\ base' = [base EXCEPT ![t] = ReadFile]
          /\ baseAt' = [baseAt EXCEPT ![t] = version]
          /\ pc' = [pc EXCEPT ![t] = "write"]
          /\ UNCHANGED stands
  /\ UNCHANGED <<file, version, temp, edit, refresh, started, connected>>

WriteEdit(t) == pc[t] = "write" /\ WriteTemp(t, Edited(base[t], edit[t]))

\* A writer replaces what was published since it read; older edits are in what it read.
ReplaceByEdit(t) ==
  LET e == edit[t] IN
  /\ pc[t] = "replace"
  /\ ReplaceFile(t)
  /\ stands' = [c \in Categories |-> [s \in Symbols |->
       IF c = e.category /\ s = e.symbol THEN [op |-> e.op, at |-> version + 1]
       ELSE IF stands[c][s].at <= baseAt[t] THEN stands[c][s] ELSE Free]]
  /\ UNCHANGED <<base, baseAt, edit, refresh, started, connected>>

-----------------------------------------------------------------------------
(* The refresh.                                                            *)

\* A refresh reads the file and, with a broker, asks it what there is.  Without one it
\* has nothing for either category, and goes on to the ETFs and to the file.
StartRefresh ==
  /\ pc[Job] = "idle" /\ started < MaxWriters
  /\ pc' = [pc EXCEPT ![Job] = IF connected THEN "discover" ELSE "inject"]
  /\ base' = [base EXCEPT ![Job] = ReadFile]
  /\ baseAt' = [baseAt EXCEPT ![Job] = version]
  /\ offered' = NoSymbols /\ payload' = NoSymbols /\ reviewed' = Nothing
  /\ got' = NoSymbols /\ kept' = {}
  /\ started' = started + 1
  /\ UNCHANGED <<store, temp, edit, connected>>

\* Discovery answers nothing for a category when the search route answers 404 or no
\* instrument type matches.
Discovered(c) == Offers[c] \cup {<<>>}
Discover ==
  /\ pc[Job] = "discover"
  /\ \E stocks \in Discovered("STOCK"), coins \in Discovered("CRYPTO") :
       offered' = [c \in Categories |-> IF c = "STOCK" THEN stocks ELSE coins]
  /\ payload' = [c \in Categories |-> CheapShortlist(c, offered'[c], ToSet(base[Job][c]))]
  /\ pc' = [pc EXCEPT ![Job] = "enrich"]
  /\ UNCHANGED <<store, temp, base, baseAt, edit, reviewed, got, kept, started, connected>>

\* The bars of each symbol are a request of their own, whose failure leaves its row
\* without metrics.
BarsArrive == SUBSET (ToSet(payload["STOCK"]) \cup ToSet(payload["CRYPTO"]))
Enrich ==
  /\ pc[Job] = "enrich"
  /\ \E priced \in BarsArrive :
       payload' = [c \in Categories |->
                     Prefiltered(c, payload[c], ToSet(base[Job][c]), priced)]
  /\ pc' = [pc EXCEPT ![Job] = "stock"]
  /\ UNCHANGED <<store, temp, base, baseAt, edit, offered, reviewed, got, kept, started, connected>>

\* (mutant) a category discovery has nothing for is selected from nothing
KeepCategoryEmpty(c) ==
  /\ payload[c] = <<>>
  /\ got' = [got EXCEPT ![c] = <<>>]
  /\ kept' = kept \cup {c}
  /\ UNCHANGED reviewed

\* A category discovery has nothing for keeps its symbols.
KeepCategory(c) ==
  /\ payload[c] = <<>>
  /\ got' = [got EXCEPT ![c] = base[Job][c]]
  /\ kept' = kept \cup {c}
  /\ UNCHANGED reviewed

\* Each dossier is a request of its own that may fail; so may the final request, which
\* otherwise answers what it likes.
DossierAnswers(asked) == SUBSET asked
FinalAnswers == Picks \cup {<<>>}
ChooseCategory(c) ==
  LET asked == ToSet(DossierCandidates(c, payload[c])) IN
  /\ payload[c] # <<>>
  /\ \E answered \in DossierAnswers(asked), picks \in FinalAnswers :
       got' = [got EXCEPT ![c] = SelectCategory(c, payload[c], answered, picks)]
  /\ reviewed' = [reviewed EXCEPT ![c] = asked]
  /\ UNCHANGED kept

Select(c, at, next) ==
  /\ pc[Job] = at
  /\ KeepCategory(c) \/ ChooseCategory(c)
  /\ pc' = [pc EXCEPT ![Job] = next]
  /\ UNCHANGED <<store, temp, base, baseAt, edit, offered, payload, started, connected>>

SelectStocks == Select("STOCK", "stock", "crypto")
SelectCoins  == Select("CRYPTO", "crypto", "inject")

\* Any exception on the way keeps both categories.
GiveUp ==
  /\ pc[Job] \in Stages \ {"inject"}
  /\ got' = base[Job] /\ kept' = Categories
  /\ pc' = [pc EXCEPT ![Job] = "inject"]
  /\ UNCHANGED <<store, temp, base, baseAt, edit, offered, payload, reviewed, started, connected>>

\* An ETF is left out only when the broker knows it is not one of its instruments: by
\* its ticker, and then by a search.  Without a broker none is left out.
UnknownEtfs == IF connected THEN SUBSET ToSet(Etfs) ELSE {{}}
InjectEtfs ==
  /\ pc[Job] = "inject"
  /\ \E unknown \in UnknownEtfs :
       got' = [got EXCEPT !["STOCK"] = @ \o Without(Etfs, unknown \cup ToSet(@))]
  /\ pc' = [pc EXCEPT ![Job] = "write"]
  /\ UNCHANGED <<store, temp, base, baseAt, edit, offered, payload, reviewed, kept, started, connected>>

WriteRefresh == pc[Job] = "write" /\ WriteTemp(Job, got)

\* Of the edits it read, it preserves those in a category it kept, unless they removed
\* an ETF.
Preserved(c, s) ==
  /\ c \in kept /\ stands[c][s].at <= baseAt[Job]
  /\ ~(stands[c][s].op = "remove" /\ c = "STOCK" /\ s \in ToSet(Etfs))
ReplaceByRefresh ==
  /\ pc[Job] = "replace"
  /\ ReplaceFile(Job)
  /\ stands' = [c \in Categories |-> [s \in Symbols |->
                  IF Preserved(c, s) THEN stands[c][s] ELSE Free]]
  /\ UNCHANGED <<base, baseAt, edit, refresh, started, connected>>

\* (mutant) the temporary files are swept away under their writers
RestartSweeps ==
  /\ \E w \in Writers : pc[w] # "idle"
  /\ temp' = [w \in Writers |-> NoFile]
  /\ UNCHANGED <<store, pc, base, baseAt, edit, refresh, started, connected>>

\* The process stops between any two steps.  The next one has a client for the broker
\* if it finds the account's keys when it starts.
Restart ==
  /\ pc' = [w \in Writers |-> "idle"]
  /\ temp' = [w \in Writers |-> NoFile]
  /\ connected' \in BOOLEAN
  /\ UNCHANGED <<store, base, baseAt, edit, refresh, started>>

-----------------------------------------------------------------------------
Init ==
  /\ file \in FirstFiles /\ version = 0
  /\ temp = [w \in Writers |-> NoFile]
  /\ pc = [w \in Writers |-> "idle"]
  /\ base = [w \in Writers |-> NoSymbols] /\ baseAt = [w \in Writers |-> 0]
  /\ edit = [t \in Threads |-> CHOOSE e \in Requests : TRUE]
  /\ offered = NoSymbols /\ payload = NoSymbols /\ reviewed = Nothing
  /\ got = NoSymbols /\ kept = {}
  /\ stands = [c \in Categories |-> [s \in Symbols |-> Free]]
  /\ started = 0 /\ connected \in BOOLEAN

EditStep(t) ==
  \/ \E e \in Requests : AskEdit(t, e)
  \/ ReadForEdit(t) \/ WriteEdit(t) \/ ReplaceByEdit(t)
RefreshStep ==
  \/ StartRefresh \/ Discover \/ Enrich \/ SelectStocks \/ SelectCoins
  \/ GiveUp \/ InjectEtfs \/ WriteRefresh \/ ReplaceByRefresh

Next == (\E t \in Threads : EditStep(t)) \/ RefreshStep \/ Restart
Spec == Init /\ [][Next]_vars

-----------------------------------------------------------------------------
(* Properties.                                                             *)

\* Edits and refreshes overlap freely, and one may undo another; but an edit that was
\* answered stays in effect in the file until a writer that had read the file before
\* the edit replaces it, the opposite edit is answered, or a refresh selects anew.
StandingEdits ==
  \A c \in Categories, s \in Symbols :
    stands[c][s].op # "free" => Holds(ReadFile, stands[c][s].op, c, s)

Selected == pc[Job] \in {"inject", "write", "replace"}

\* Whatever the models answer, a selection names only symbols that discovery offered
\* this time, that the category had, or that are listed ETFs, none of them twice; and
\* one that discovery offered and the category did not have has passed the filter.
SelectionSound ==
  Selected =>
    \A c \in Categories :
      LET had == ToSet(base[Job][c])
          etf == IF c = "STOCK" THEN ToSet(Etfs) ELSE {} IN
      /\ ToSet(got[c]) \subseteq had \cup (ToSet(offered[c]) \cap Clean) \cup etf
      /\ DistinctSymbols(base[Job][c]) => DistinctSymbols(got[c])

\* However many dossiers fail and whatever the final request answers, a category that
\* is selected anew gets the required number of symbols, or all there are after the
\* prefilter; it is never left empty by a bad answer.
SelectionFills ==
  pc[Job] = "inject" =>
    \A c \in Categories \ kept : Len(got[c]) = Least(Required[c], Len(payload[c]))

\* Of the symbols discovery offers, those the category already has are reviewed before
\* any other, even when they no longer pass the filters: a symbol nobody had gets a
\* dossier only if every one of them got one.
IncumbentsFirst ==
  Selected =>
    \A c \in Categories \ kept :
      \/ reviewed[c] \subseteq ToSet(base[Job][c])
      \/ ToSet(offered[c]) \cap ToSet(base[Job][c]) \subseteq reviewed[c]

\* While there is a broker, a discovery that answers nothing, or a failure anywhere in
\* the selection, does not take the symbols of a category away: a refresh never
\* publishes an empty category where it read a filled one.
NeverWiped ==
  [][\A c \in Categories :
       connected /\ pc[Job] = "replace" /\ pc'[Job] = "idle" /\ file' # file /\ Required[c] > 0
         => (base[Job][c] # <<>> => file'[c] # <<>>)]_vars
=============================================================================
