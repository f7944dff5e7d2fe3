---------------------------- MODULE DexWebStore -----------------------------
(***************************************************************************)
(* The local project store: DexWebObjectStore in                           *)
(* projectconfig/dexweb_store.py, with the refresh of provider.py above it *)
(* and the Dex Web process beside it.                                      *)
(*                                                                         *)
(* Connection heads live in the memory of one process.  Dex Web, another   *)
(* process, saves authorizations to a private file, which the store reads  *)
(* before every access to a head; it writes refreshed material back to the *)
(* file.  The store's asyncio lock does not exclude Dex Web, so a write    *)
(* back is three steps here: the head is written, the file is read again,  *)
(* the file is replaced.  No other task runs between them.                 *)
(***************************************************************************)
EXTENDS Integers

CONSTANTS
    Connections,    \* the connections of the file
    Tasks,          \* tasks of the application that resolve credentials
    None,           \* no value
    MaxSaves,       \* bound on the authorizations Dex Web saves
    MaxRefreshes,   \* bound on the generations of one authorization
    MaxRevision     \* bound on the revision a refresh is admitted at

ASSUME DexWebAssumption == {MaxSaves, MaxRefreshes, MaxRevision} \subseteq Nat

VARIABLES
    file,        \* connections.json: the material of each connection, or None
    saves,       \* how many authorizations Dex Web has saved
    head,        \* the connection heads in memory, None before the first import
    imported,    \* _imported: the material whose digest the store remembers
    writing,     \* the write back in progress, under _lock
    isBehind,    \* connections whose last write back was given up
    task         \* what each task is doing

vars == <<file, saves, head, imported, writing, isBehind, task>>

\* The material of the saves-th authorization after so many refreshes. Its digest
\* tells two materials apart exactly when they differ.
Materials == [saved : 0..MaxSaves, refreshes : 0..MaxRefreshes]

IdleTask == [pc |-> "idle", connection |-> None, head |-> None, material |-> None]

\* The revision also stands for the fence and the attempt of an admission: every
\* admission has its own.
Statuses == {"READY", "REFRESHING", "REAUTHORIZATION_REQUIRED"}

Heads == [revision : Nat, status : Statuses, material : Materials]

Files == [Connections -> Materials \union {None}]

\* A write back: its connection, and the file once it was read again.
WriteBacks == [connection : Connections, file : Files \union {None}]

\* None is no value of any kind.
ASSUME DistinctAssumption ==
    None \notin Connections \union Tasks \union Materials \union Heads \union Files \union WriteBacks

\* initialize runs before the application registers: its import is the first step.
Init ==
    /\ file = [k \in Connections |-> [saved |-> 0, refreshes |-> 0]]
    /\ saves = 0
    /\ head = [k \in Connections |-> None]
    /\ imported = [k \in Connections |-> None]
    /\ writing = None
    /\ isBehind = {}
    /\ task = [t \in Tasks |-> IdleTask]
-----------------------------------------------------------------------------
(* _sync: every connection whose material in the file is not the one last  *)
(* imported replaces the credential, which ends any exchange under way.    *)

IsChanged(k) == file[k] # None /\ file[k] # imported[k]

replace_credential(k) ==
    [revision |-> IF head[k] = None THEN 1 ELSE head[k].revision + 1,
     status |-> "READY", material |-> file[k]]

SyncedHead(k) == IF IsChanged(k) THEN replace_credential(k) ELSE head[k]

SyncedImports == [k \in Connections |-> IF IsChanged(k) THEN file[k] ELSE imported[k]]

SyncedHeads == [k \in Connections |-> SyncedHead(k)]

StillBehind == {k \in isBehind : ~IsChanged(k)}

IsUnlocked == writing = None

\* The import that initialize and every access to a head begin with.
sync ==
    /\ IsUnlocked
    /\ head' = SyncedHeads
    /\ imported' = SyncedImports
    /\ isBehind' = StillBehind

\* compare_and_swap_object: the write back of READY material follows under the lock.
WriteHead(k, updated) ==
    /\ IsUnlocked
    /\ head' = [SyncedHeads EXCEPT ![k] = updated]
    /\ imported' = SyncedImports
    /\ isBehind' = StillBehind
    /\ writing' = IF updated.status = "READY" /\ updated.material # imported'[k]
                  THEN [connection |-> k, file |-> None]
                  ELSE None

Becomes(t, k) == task' = [task EXCEPT ![t] = k]

\* initialize, on the first start and after a crash.
initialize ==
    /\ \E k \in Connections : head[k] = None /\ file[k] # None
    /\ sync
    /\ UNCHANGED <<file, saves, writing, task>>
-----------------------------------------------------------------------------
(* A refresh (resolve_with_refresh), as far as it touches the head.        *)

ReadHead(t) ==
    /\ task[t].pc = "idle"
    /\ sync
    /\ \E k \in Connections :
          /\ head'[k] # None
          /\ Becomes(t, [pc |-> "read", connection |-> k, head |-> head'[k], material |-> None])
    /\ UNCHANGED <<file, saves, writing>>

Updated(h, status, material) ==
    [revision |-> h.revision + 1, status |-> status, material |-> material]

\* The head differs from the one the caller read: the exchange is given up.
LoseConflict(t) ==
    /\ sync
    /\ Becomes(t, IdleTask)
    /\ UNCHANGED <<file, saves, writing>>

admit_refresh(t) ==
    LET k == task[t].connection
    IN  /\ task[t].pc = "read"
        /\ task[t].head.status = "READY"
        /\ task[t].head.revision <= MaxRevision
        /\ IF SyncedHead(k) = task[t].head
           THEN /\ WriteHead(k, Updated(task[t].head, "REFRESHING", task[t].head.material))
                /\ Becomes(t, [task[t] EXCEPT !.pc = "admitted", !.head = head'[k]])
                /\ UNCHANGED <<file, saves>>
           ELSE LoseConflict(t)

\* The provider (external) answers with rotated material; it needs no lock.
ProviderRotates(t) ==
    /\ task[t].pc = "admitted"
    /\ task[t].head.material.refreshes < MaxRefreshes
    /\ Becomes(t, [task[t] EXCEPT !.pc = "refreshed",
                      !.material = [task[t].head.material EXCEPT !.refreshes = @ + 1]])
    /\ UNCHANGED <<file, saves, head, imported, writing, isBehind>>

\* Mutant: the result is published whatever the head says now.
require_admission_Any(t, h) == TRUE

require_admission(t, h) == h.status = "REFRESHING" /\ h.revision = task[t].head.revision

publish_result(t) ==
    LET k == task[t].connection
    IN  /\ task[t].pc = "refreshed"
        /\ IF require_admission(t, SyncedHead(k))
           THEN /\ WriteHead(k, Updated(SyncedHead(k), "READY", task[t].material))
                /\ Becomes(t, IdleTask)
                /\ UNCHANGED <<file, saves>>
           ELSE LoseConflict(t)

\* The provider failed or timed out, and the current authorization is kept, or it
\* refused the authorization, and the connection waits for another one.
finish_exchange(t) ==
    LET k == task[t].connection
    IN  /\ task[t].pc = "admitted"
        /\ IF require_admission(t, SyncedHead(k))
           THEN /\ \E status \in {"READY", "REAUTHORIZATION_REQUIRED"} :
                      WriteHead(k, Updated(SyncedHead(k), status, SyncedHead(k).material))
                /\ Becomes(t, IdleTask)
                /\ UNCHANGED <<file, saves>>
           ELSE LoseConflict(t)

\* recover_or_wait after the deadline of an exchange that left no result. A result that
\* its task stored and did not publish is published here with the same effect as by
\* that task's own, later, publish_result.
recover(t) ==
    LET k == task[t].connection
    IN  /\ task[t].pc = "read"
        /\ task[t].head.status = "REFRESHING"
        /\ IF require_admission(t, SyncedHead(k))
           THEN /\ WriteHead(k, Updated(SyncedHead(k), "READY", SyncedHead(k).material))
                /\ Becomes(t, IdleTask)
                /\ UNCHANGED <<file, saves>>
           ELSE LoseConflict(t)

\* The task is cancelled, or a failure ends it; its admission stays in the head.
Abandon(t) ==
    /\ task[t].pc # "idle"
    /\ IsUnlocked
    /\ Becomes(t, IdleTask)
    /\ UNCHANGED <<file, saves, head, imported, writing, isBehind>>
-----------------------------------------------------------------------------
(* _write_back and _replace_in_file.                                       *)

GiveUpWriteBack ==
    /\ writing' = None
    /\ isBehind' = isBehind \union {writing.connection}
    /\ UNCHANGED <<file, saves, head, imported, task>>

\* "the file holds a newer credential", or the connection is not in the file.
RereadFile ==
    /\ writing # None
    /\ writing.file = None
    /\ IF file[writing.connection] # None /\ file[writing.connection] = imported[writing.connection]
       THEN /\ writing' = [writing EXCEPT !.file = file]
            /\ UNCHANGED <<file, saves, head, imported, isBehind, task>>
       ELSE GiveUpWriteBack

\* Mutant: the written material is not remembered as imported.
ReplaceFile_Forget ==
    LET k == writing.connection
    IN  /\ writing # None
        /\ writing.file # None
        /\ file' = [writing.file EXCEPT ![k] = head[k].material]
        /\ writing' = None
        /\ isBehind' = isBehind \ {k}
        /\ UNCHANGED <<saves, head, imported, task>>

\* Mutant: the material read from the file is written, not the refreshed one.
ReplaceFile_Prior ==
    LET k == writing.connection
    IN  /\ writing # None
        /\ writing.file # None
        /\ file' = writing.file
        /\ imported' = [imported EXCEPT ![k] = head[k].material]
        /\ writing' = None
        /\ isBehind' = isBehind \ {k}
        /\ UNCHANGED <<saves, head, task>>

\* os.replace puts back the whole file as it was read, with the new material.
ReplaceFile ==
    LET k == writing.connection
    IN  /\ writing # None
        /\ writing.file # None
        /\ file' = [writing.file EXCEPT ![k] = head[k].material]
        /\ imported' = [imported EXCEPT ![k] = head[k].material]
        /\ writing' = None
        /\ isBehind' = isBehind \ {k}
        /\ UNCHANGED <<saves, head, task>>

\* The temporary file cannot be written: a warning, and the head stays as it is.
ReplaceFails == writing # None /\ writing.file # None /\ GiveUpWriteBack
-----------------------------------------------------------------------------
(* Dex Web (external), and the crash of the application.                   *)

DexWebSaves ==
    /\ saves < MaxSaves
    /\ saves' = saves + 1
    /\ \E k \in Connections : file' = [file EXCEPT ![k] = [saved |-> saves', refreshes |-> 0]]
    /\ UNCHANGED <<head, imported, writing, isBehind, task>>

DexWebRemoves ==
    /\ \E k \in Connections : file[k] # None /\ file' = [file EXCEPT ![k] = None]
    /\ UNCHANGED <<saves, head, imported, writing, isBehind, task>>

\* Memory is lost, the file is as it was: os.replace is atomic.
Crash ==
    /\ head' = [k \in Connections |-> None]
    /\ imported' = [k \in Connections |-> None]
    /\ writing' = None
    /\ isBehind' = {}
    /\ task' = [t \in Tasks |-> IdleTask]
    /\ UNCHANGED <<file, saves>>

TaskStep(t) ==
    \/ ReadHead(t)
    \/ admit_refresh(t)
    \/ ProviderRotates(t)
    \/ publish_result(t)
    \/ finish_exchange(t)
    \/ recover(t)
    \/ Abandon(t)

Next ==
    \/ initialize
    \/ \E t \in Tasks : TaskStep(t)
    \/ RereadFile
    \/ ReplaceFile
    \/ ReplaceFails
    \/ DexWebSaves
    \/ DexWebRemoves
    \/ Crash

Spec == Init /\ [][Next]_vars
-----------------------------------------------------------------------------
\* Every variable keeps its type.
TypeOK ==
    /\ file \in Files
    /\ saves \in 0..MaxSaves
    /\ head \in [Connections -> Heads \union {None}]
    /\ imported \in [Connections -> Materials \union {None}]
    /\ writing \in WriteBacks \union {None}
    /\ isBehind \subseteq Connections
    /\ task \in [Tasks -> [pc : {"idle", "read", "admitted", "refreshed"},
                           connection : Connections \union {None},
                           head : Heads \union {None},
                           material : Materials \union {None}]]

\* "A newer Dex Web authorization wins the race": once the application works with an
\* authorization, no refresh of an older one that is still under way replaces it.
AuthorizationNeverReverts ==
    [][\A k \in Connections :
          head[k] # None /\ head'[k] # None =>
              head'[k].material.saved >= head[k].material.saved]_vars

\* The store never takes material it wrote back itself for a new authorization, which
\* would end the exchange under way, nor goes back to the file's older material after
\* a write back that was given up: an import is of what Dex Web saved since.
ImportsAreNew ==
    [][\A k \in Connections :
          /\ head[k] # None /\ head'[k] # None
          /\ imported'[k] # imported[k]
          => writing # None \/ file[k].saved > head[k].material.saved]_vars

\* After any sequence of refreshes, conflicts and saves the file holds what a restart
\* needs: the material in use, unless Dex Web saved a newer one, the connection was
\* removed, or its last write back was given up.
FileKeepsCurrentMaterial ==
    \A k \in Connections :
        head[k] # None /\ IsUnlocked /\ k \notin isBehind /\ file[k] # None =>
            file[k] = head[k].material \/ file[k].saved > head[k].material.saved

\* "writes refreshed material back to the 0600 file only while it still holds the
\* prior credential": an authorization Dex Web saved is not replaced by an older one.
SavedAuthorizationKept ==
    [][\A k \in Connections :
          file[k] # None /\ file'[k] # None => file'[k].saved >= file[k].saved]_vars
=============================================================================
