----------------------------- MODULE ClientStore -----------------------------
(***************************************************************************)
(* What the console remembers across a reload of the page                  *)
(* (src/client/src: hooks/useDiagnostics.ts, and state:                    *)
(* monitorDiagnosticsPersistence.ts, indexedDbStore.ts,                    *)
(* monitorSessionHistory.ts, monitorLiveCanPersistence.ts).                *)
(*                                                                         *)
(* Three lists are shown, kept in one record, and loaded when the page     *)
(* opens; every change of a list after that saves the record.  A save is   *)
(* written to IndexedDB, and to localStorage when that fails.  The page    *)
(* may be closed at any moment, with saves on their way.                   *)
(***************************************************************************)
EXTENDS Integers, Sequences, SequencesExt

CONSTANTS
  Cap,           \* entries a list keeps, by list (20, 20 and 400)
  SaveCap,       \* entries the record keeps, by list (200, 200 and 400)
  Entries,       \* bound on the entries ever added
  Faults         \* bound on the failures of IndexedDB

SavedLists == {"history", "frameSnapshots", "archive"}

\* The record keeps all that a list may hold.
ASSUME CapsAssumption ==
  \A l \in SavedLists : Cap[l] \in Nat /\ SaveCap[l] \in Nat /\ Cap[l] <= SaveCap[l]

VARIABLES
  shown,         \* the lists of the page, Closed when there is none
  hydrated,      \* hasHydratedDiagnostics
  saves,         \* the records on their way to the store, oldest first
  db,            \* the record in IndexedDB, Nothing when there is none
  local,         \* the record in localStorage
  added,         \* entries added so far
  faults,        \* failures of IndexedDB so far
  ended,         \* where the last save ended: "db", "local" or "nowhere"
  failedLoad,    \* history: the page was loaded without the record in IndexedDB
  feed,          \* the live frames of the page, counted from the first
  session,       \* the live frames in their own database
  timer          \* whether the save of the live frames waits for its 500 ms
kept == <<shown, hydrated, saves, db, local, ended, failedLoad>>
live == <<feed, session, timer>>
storeVars == <<kept, live, added, faults>>

Nothing == [l \in {} |-> <<>>]
Closed == Nothing
EmptyLists == [l \in SavedLists |-> <<>>]
First(s, n) == SubSeq(s, 1, IF Len(s) < n THEN Len(s) ELSE n)

StoreInit ==
  /\ shown = Closed /\ hydrated = FALSE /\ saves = <<>>
  /\ db = Nothing /\ local = Nothing
  /\ added = 0 /\ faults = 0 /\ ended = "nowhere" /\ failedLoad = FALSE
  /\ feed = 0 /\ session = 0 /\ timer = FALSE

-----------------------------------------------------------------------------

\* What of a record is written, and what is believed of one that is read.
sanitizeState(record) == [l \in SavedLists |-> First(record[l], SaveCap[l])]

addEntry(list, entry, cap) == First(<<entry>> \o list, cap)
addHistoryEntry(list, entry) == addEntry(list, entry, Cap["history"])
addFrameSnapshot(list, entry) == addEntry(list, entry, Cap["frameSnapshots"])
pushDiagnosticsArchive(list, entry) == addEntry(list, entry, Cap["archive"])

\* What a reading of the store returns: localStorage answers for a database
\* that is empty or fails to open.
readIndexedDbRecord(fails) == IF fails THEN Nothing ELSE db
loadLocalFirst(fails) ==                   \* mutant: the fallback is asked first
  LET found == IF local # Nothing THEN local ELSE readIndexedDbRecord(fails)
  IN IF found = Nothing THEN Nothing ELSE sanitizeState(found)
loadPersistedDiagnosticsState(fails) ==
  LET indexed == readIndexedDbRecord(fails)
      found   == IF indexed # Nothing THEN indexed ELSE local
  IN IF found = Nothing THEN Nothing ELSE sanitizeState(found)

MayFail(fails) == /\ fails => faults < Faults
                  /\ faults' = IF fails THEN faults + 1 ELSE faults

\* The page opens with empty lists and starts to load.
Open ==
  /\ shown = Closed
  /\ shown' = EmptyLists /\ hydrated' = FALSE /\ failedLoad' = FALSE
  /\ UNCHANGED <<saves, db, local, ended, live, added, faults>>

\* The loaded record replaces what was added meanwhile; the effect of the
\* commit then saves what is shown.
hydrateDiagnostics(fails) ==
  LET persisted == loadPersistedDiagnosticsState(fails)
      lists     == IF persisted = Nothing THEN shown ELSE persisted
  IN /\ shown # Closed /\ ~hydrated
     /\ MayFail(fails)
     /\ shown' = lists /\ hydrated' = TRUE /\ failedLoad' = (fails /\ db # Nothing)
     /\ saves' = Append(saves, sanitizeState(lists))
     /\ UNCHANGED <<db, local, ended, live, added>>

\* A change of a list is saved, once the lists are loaded.
ShowSavesAtOnce(l, list) ==                \* mutant: not only once they are loaded
  /\ shown # Closed /\ added < Entries
  /\ added' = added + 1
  /\ shown' = [shown EXCEPT ![l] = list]
  /\ saves' = Append(saves, sanitizeState(shown'))
  /\ UNCHANGED <<hydrated, db, local, ended, failedLoad, live, faults>>
Show(l, list) ==
  /\ shown # Closed /\ added < Entries
  /\ added' = added + 1
  /\ shown' = [shown EXCEPT ![l] = list]
  /\ saves' = IF hydrated THEN Append(saves, sanitizeState(shown')) ELSE saves
  /\ UNCHANGED <<hydrated, db, local, ended, failedLoad, live, faults>>
PushHistory == Show("history", addHistoryEntry(shown["history"], added))
SaveSnapshot == Show("frameSnapshots", addFrameSnapshot(shown["frameSnapshots"], added))
PushArchive == Show("archive", pushDiagnosticsArchive(shown["archive"], added))

\* Writes to IndexedDB happen in the order of the saves; one that fails is
\* written to localStorage, unless that refuses it as well.
writeIndexedDbRecord == db' = saves[1] /\ ended' = "db" /\ UNCHANGED local
saveToLocalStorage ==
  /\ UNCHANGED db
  /\ \/ local' = saves[1] /\ ended' = "local"
     \/ ended' = "nowhere" /\ UNCHANGED local
savePersistedDiagnosticsState(fails) ==
  /\ saves # <<>>
  /\ MayFail(fails)
  /\ saves' = Tail(saves)
  /\ IF fails THEN saveToLocalStorage ELSE writeIndexedDbRecord
  /\ UNCHANGED <<shown, hydrated, failedLoad, live, added>>

\* A change of the live frames starts their timer anew; when it ends they are
\* saved, unless IndexedDB fails, and no page ever loads them.
FeedChanges ==
  /\ shown # Closed /\ added < Entries
  /\ added' = added + 1
  /\ feed' = feed + 1 /\ timer' = TRUE
  /\ UNCHANGED <<kept, session, faults>>
saveLiveCanFramesToIndexedDb(fails) ==
  /\ timer /\ MayFail(fails)
  /\ timer' = FALSE
  /\ session' = IF fails THEN session ELSE feed
  /\ UNCHANGED <<kept, feed, added>>

\* The page is closed or reloaded: what was not written is gone.
Close ==
  /\ shown # Closed
  /\ shown' = Closed /\ hydrated' = FALSE /\ saves' = <<>> /\ failedLoad' = FALSE
  /\ feed' = 0 /\ timer' = FALSE
  /\ UNCHANGED <<db, local, ended, session, added, faults>>

StoreNext ==
  \/ Open
  \/ \E fails \in BOOLEAN : hydrateDiagnostics(fails)
  \/ PushHistory
  \/ SaveSnapshot
  \/ PushArchive
  \/ \E fails \in BOOLEAN : savePersistedDiagnosticsState(fails)
  \/ FeedChanges
  \/ \E fails \in BOOLEAN : saveLiveCanFramesToIndexedDb(fails)
  \/ Close

StoreSpec == StoreInit /\ [][StoreNext]_storeVars

-----------------------------------------------------------------------------

\* A reload restores all three lists as they are shown once the saves are
\* written, when the last one reached IndexedDB, or localStorage while IndexedDB
\* holds no record, whatever failed before.  A save that fell back to localStorage
\* beside an older record in IndexedDB is not among these (FallbackRestores).
ReloadRestores ==
  (hydrated /\ saves = <<>> /\ (ended = "db" \/ (ended = "local" /\ db = Nothing)))
     => loadPersistedDiagnosticsState(FALSE) = shown

\* A list keeps another when it is that list with entries added in front, as
\* far as its capacity holds them; a record keeps another list by list.
KeepsList(new, old, cap) ==
  \E k \in 0..cap : /\ Len(new) = IF k + Len(old) < cap THEN k + Len(old) ELSE cap
                    /\ \A i \in 1..Len(new) : i > k => new[i] = old[i - k]
KeepsAll(new, old) ==
  old = Nothing \/ (new # Nothing /\ \A l \in SavedLists : KeepsList(new[l], old[l], Cap[l]))
Reloaded == loadPersistedDiagnosticsState(FALSE)

\* No step of a page, a save or a reload takes an entry from the record a reload
\* finds, but for those its newer entries push out: not a save that fails beside
\* an older record, nor one after it, nor a page closed before its lists were
\* loaded.  A page that could not read the record in IndexedDB is excepted: it
\* starts without that record and saves over it (EntriesArePersistent).
SavesKeepEntries == [][~failedLoad => KeepsAll(Reloaded', Reloaded)]_storeVars

\* CHANGELOG.md: "IndexedDB persistence for monitor diagnostics + live CAN frames
\* with localStorage fallback".  What is shown is restored wherever it was written;
FallbackRestores == (hydrated /\ saves = <<>> /\ ended # "nowhere") => Reloaded = shown
\* and an entry of the record stays in it, whatever failed to be read.
EntriesArePersistent == [][KeepsAll(Reloaded', Reloaded)]_storeVars
===============================================================================
