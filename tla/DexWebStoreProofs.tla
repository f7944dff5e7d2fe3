------------------------- MODULE DexWebStoreProofs --------------------------
(***************************************************************************)
(* Proofs about the local project store, for every number of connections,  *)
(* tasks, authorizations, refreshes and crashes.                           *)
(*                                                                         *)
(* The invariant has two sides.  Between the file and the store: material  *)
(* in the file that is not the one last imported is a newer authorization  *)
(* than the one in use, also in the copy of the file that a write back is  *)
(* about to put back.  Between the head and the tasks: revisions only      *)
(* grow, so a task that finds the revision it was admitted at finds the    *)
(* very head it wrote, and what it publishes belongs to the authorization  *)
(* in use.                                                                 *)
(***************************************************************************)
EXTENDS DexWebStore, TLAPS

\* No material is of an authorization that Dex Web has yet to save.
IsDated(material) == material # None => material.saved <= saves

SavesAreDated ==
    \A k \in Connections :
        /\ IsDated(file[k])
        /\ head[k] # None => IsDated(head[k].material)
        /\ writing # None => (writing.file # None => IsDated(writing.file[k]))

\* Material that sync would import is of a newer authorization than the one in use.
IsNews(material, k) ==
    head[k] # None /\ material # None /\ material # imported[k] =>
        material.saved > head[k].material.saved

ChangesAreNews ==
    \A k \in Connections :
        /\ IsNews(file[k], k)
        /\ writing # None =>
              (writing.file # None /\ writing.connection # k => IsNews(writing.file[k], k))

\* The digest remembered is that of the material in use, but for a write back under way
\* or given up.
InUseIsImported ==
    \A k \in Connections :
        head[k] # None /\ k \notin isBehind /\ (writing # None => writing.connection # k) =>
            imported[k] = head[k].material

\* A task at work has a head behind it or the current one, and what the provider gave it
\* belongs to the authorization it started from.
KeepsUp(s, heads) ==
    s.pc # "idle" =>
        /\ s.connection \in Connections /\ s.head \in Heads
        /\ heads[s.connection] # None
        /\ s.head.revision <= heads[s.connection].revision
        /\ s.head.revision = heads[s.connection].revision => s.head = heads[s.connection]
        /\ s.pc = "refreshed" => /\ s.material \in Materials
                                 /\ s.material.saved = s.head.material.saved

StoreType ==
    /\ file \in Files
    /\ saves \in 0..MaxSaves
    /\ head \in [Connections -> Heads \union {None}]
    /\ imported \in [Connections -> Materials \union {None}]
    /\ writing \in WriteBacks \union {None}
    /\ isBehind \subseteq Connections

StoreInv ==
    /\ StoreType
    /\ SavesAreDated
    /\ ChangesAreNews
    /\ InUseIsImported
    /\ writing # None => head[writing.connection] # None

TaskStates == [pc : {"idle", "read", "admitted", "refreshed"}, connection : Connections \union {None},
               head : Heads \union {None}, material : Materials \union {None}]

DexWebInv ==
    /\ StoreInv
    /\ task \in [Tasks -> TaskStates]
    /\ \A t \in Tasks : KeepsUp(task[t], head)

\* Each head is kept, or replaced by one of a higher revision and no older authorization.
Advances(heads, newHeads) ==
    \A k \in Connections :
        heads[k] # None =>
            /\ newHeads[k] # None
            /\ newHeads[k].material.saved >= heads[k].material.saved
            /\ newHeads[k] = heads[k] \/ newHeads[k].revision > heads[k].revision

\* What is imported is news, or was written back.
ImportsNews ==
    \A k \in Connections :
        head[k] # None /\ imported'[k] # imported[k] =>
            writing # None \/ file[k].saved > head[k].material.saved
-----------------------------------------------------------------------------
(* Access to a head.                                                       *)

\* What sync computes: it imports what changed and leaves the rest alone.
LEMMA SyncedTypes ==
    ASSUME StoreInv, NEW k \in Connections
    PROVE  /\ SyncedHead(k) \in Heads \union {None} /\ SyncedHeads[k] = SyncedHead(k)
           /\ SyncedImports[k] \in Materials \union {None}
           /\ file[k] = None \/ (file[k] \in Materials /\ file[k] = SyncedImports[k])
           /\ IsChanged(k) =>
                 /\ SyncedHead(k) \in Heads /\ SyncedHead(k).status = "READY"
                 /\ SyncedHead(k).material = file[k] /\ SyncedImports[k] = file[k]
                 /\ file[k] \in Materials /\ file[k].saved <= saves
                 /\ head[k] # None => /\ SyncedHead(k).revision > head[k].revision
                                      /\ file[k].saved > head[k].material.saved
           /\ ~IsChanged(k) => SyncedHead(k) = head[k] /\ SyncedImports[k] = imported[k]
  <1>1. /\ file[k] \in Materials \union {None} /\ head[k] \in Heads \union {None}
        /\ imported[k] \in Materials \union {None}
    BY DEF StoreInv, StoreType, Files
  <1>2. SyncedHeads[k] = SyncedHead(k) /\ SyncedImports[k] = IF IsChanged(k) THEN file[k] ELSE imported[k]
    BY DEF SyncedHeads, SyncedImports
  <1>3. CASE ~IsChanged(k)
    BY <1>1, <1>2, <1>3 DEF SyncedHead, IsChanged
  <1>4. CASE IsChanged(k)
    <2>1. file[k] \in Materials /\ SyncedHead(k) = replace_credential(k)
      BY <1>1, <1>4 DEF IsChanged, SyncedHead
    <2>2. /\ SyncedHead(k) \in Heads /\ SyncedHead(k).status = "READY" /\ SyncedHead(k).material = file[k]
          /\ head[k] # None => SyncedHead(k).revision > head[k].revision
      BY <1>1, <2>1 DEF replace_credential, Heads, Statuses
    <2>3. file[k].saved <= saves /\ (head[k] # None => file[k].saved > head[k].material.saved)
      BY <1>4, <2>1 DEF StoreInv, SavesAreDated, IsDated, ChangesAreNews, IsNews, IsChanged
    <2> QED BY <1>2, <1>4, <2>1, <2>2, <2>3
  <1> QED BY <1>3, <1>4

\* The import that every access begins with, and nothing more.
LEMMA AccessStep ==
    ASSUME StoreInv, sync, UNCHANGED <<file, saves, writing>>
    PROVE  StoreInv' /\ Advances(head, head') /\ ImportsNews
  <1>1. /\ writing = None /\ writing' = None /\ file' = file /\ saves' = saves
        /\ head' = SyncedHeads /\ imported' = SyncedImports /\ isBehind' = StillBehind
    BY DEF sync, IsUnlocked
  <1>2. StoreType'
    <2>1. head' \in [Connections -> Heads \union {None}]
      BY <1>1, SyncedTypes DEF SyncedHeads
    <2>2. imported' \in [Connections -> Materials \union {None}]
      BY <1>1, SyncedTypes DEF SyncedImports
    <2> QED BY <1>1, <2>1, <2>2 DEF StoreInv, StoreType, StillBehind
  <1>3. SavesAreDated'
    <2> SUFFICES ASSUME NEW k \in Connections, SyncedHead(k) # None
                 PROVE  SyncedHead(k).material # None => SyncedHead(k).material.saved <= saves
      BY <1>1, SyncedTypes DEF SavesAreDated, IsDated, StoreInv
    <2> QED BY SyncedTypes DEF StoreInv, SavesAreDated, IsDated
  <1>4. ChangesAreNews'
    BY <1>1, SyncedTypes DEF ChangesAreNews, IsNews
  <1>5. InUseIsImported'
    <2> SUFFICES ASSUME NEW k \in Connections, SyncedHead(k) # None, k \notin StillBehind
                 PROVE  SyncedImports[k] = SyncedHead(k).material
      BY <1>1, SyncedTypes DEF InUseIsImported
    <2>1. CASE IsChanged(k)
      BY <2>1, SyncedTypes
    <2>2. CASE ~IsChanged(k)
      BY <1>1, <2>2, SyncedTypes DEF StillBehind, StoreInv, InUseIsImported
    <2> QED BY <2>1, <2>2
  <1>6. Advances(head, head')
    <2> SUFFICES ASSUME NEW k \in Connections, head[k] # None
                 PROVE  /\ SyncedHead(k) # None
                        /\ SyncedHead(k).material.saved >= head[k].material.saved
                        /\ SyncedHead(k) = head[k] \/ SyncedHead(k).revision > head[k].revision
      BY <1>1, SyncedTypes DEF Advances
    <2>1. head[k] \in Heads /\ head[k].material.saved \in Nat
      BY DEF StoreInv, StoreType, Heads, Materials
    <2>2. CASE IsChanged(k)
      <3>1. file[k].saved \in Nat
        BY <2>2, SyncedTypes DEF Materials
      <3> QED BY <2>1, <2>2, <3>1, SyncedTypes, DistinctAssumption
    <2>3. CASE ~IsChanged(k)
      BY <2>1, <2>3, SyncedTypes
    <2> QED BY <2>2, <2>3
  <1>7. ImportsNews
    BY <1>1, SyncedTypes DEF ImportsNews
  <1> QED BY <1>1, <1>2, <1>3, <1>4, <1>5, <1>6, <1>7 DEF StoreInv

\* compare_and_swap_object with a head of the next revision: it keeps the authorization,
\* and READY material that is not in the file begins a write back.
LEMMA WriteStep ==
    ASSUME StoreInv, NEW k \in Connections, NEW u \in Heads, WriteHead(k, u), UNCHANGED <<file, saves>>,
           SyncedHead(k) # None,
           u.revision > SyncedHead(k).revision,
           u.material.saved = SyncedHead(k).material.saved,
           u.status = "READY" \/ u.material = SyncedHead(k).material
    PROVE  StoreInv' /\ Advances(head, head') /\ ImportsNews
  <1>1. /\ writing = None /\ file' = file /\ saves' = saves
        /\ head' = [SyncedHeads EXCEPT ![k] = u]
        /\ imported' = SyncedImports /\ isBehind' = StillBehind
        /\ writing' = IF u.status = "READY" /\ u.material # imported'[k]
                      THEN [connection |-> k, file |-> None] ELSE None
    BY DEF WriteHead, IsUnlocked
  <1>2. \A c \in Connections : head'[c] = IF c = k THEN u ELSE SyncedHead(c)
    BY <1>1 DEF SyncedHeads
  <1>3. SyncedHead(k) \in Heads /\ u # None /\ SyncedHead(k).material \in Materials
    BY SyncedTypes, DistinctAssumption DEF Heads
  <1>4. /\ writing' \in WriteBacks \union {None}
        /\ writing' # None => writing'.connection = k /\ writing'.file = None
    BY <1>1 DEF WriteBacks
  <1>5. StoreType'
    <2>1. head' \in [Connections -> Heads \union {None}]
      <3>1. SyncedHeads \in [Connections -> Heads \union {None}]
        BY SyncedTypes DEF SyncedHeads
      <3> QED BY <1>1, <3>1
    <2>2. imported' \in [Connections -> Materials \union {None}]
      BY <1>1, SyncedTypes DEF SyncedImports
    <2> QED BY <1>1, <1>4, <2>1, <2>2 DEF StoreInv, StoreType, StillBehind
  <1>6. SavesAreDated'
    <2>1. ASSUME NEW c \in Connections, SyncedHead(c) # None
          PROVE  SyncedHead(c).material # None => SyncedHead(c).material.saved <= saves
      BY <2>1, SyncedTypes DEF StoreInv, SavesAreDated, IsDated
    <2>2. u.material # None => u.material.saved <= saves
      BY <1>3, <2>1, DistinctAssumption
    <2>3. \A c \in Connections : IsDated(file[c])
      BY DEF StoreInv, SavesAreDated
    <2> QED BY <1>1, <1>2, <1>4, <2>1, <2>2, <2>3 DEF SavesAreDated, IsDated
  <1>7. ChangesAreNews'
    <2>1. \A c \in Connections : file'[c] = None \/ file'[c] = imported'[c]
      BY <1>1, SyncedTypes
    <2> QED BY <1>4, <2>1 DEF ChangesAreNews, IsNews
  <1>8. InUseIsImported'
    <2> SUFFICES ASSUME NEW c \in Connections, head'[c] # None, c \notin StillBehind,
                        writing' # None => writing'.connection # c
                 PROVE  imported'[c] = head'[c].material
      BY <1>1 DEF InUseIsImported
    <2>1. SyncedHead(c) # None => SyncedImports[c] = SyncedHead(c).material
      <3>1. CASE IsChanged(c)
        BY <3>1, SyncedTypes
      <3>2. CASE ~IsChanged(c)
        BY <1>1, <3>2, SyncedTypes DEF StillBehind, StoreInv, InUseIsImported
      <3> QED BY <3>1, <3>2
    <2>2. CASE c # k
      BY <1>1, <1>2, <2>1, <2>2
    <2>3. CASE c = k
      <3>1. writing' = None
        BY <1>4, <2>3
      <3>2. u.status = "READY" => u.material = imported'[k]
        <4>1. [connection |-> k, file |-> None] \in WriteBacks
          BY DEF WriteBacks
        <4> QED BY <1>1, <3>1, <4>1, DistinctAssumption
      <3> QED BY <1>1, <1>2, <2>1, <2>3, <3>2
    <2> QED BY <2>2, <2>3
  <1>9. Advances(head, head')
    <2> SUFFICES ASSUME NEW c \in Connections, head[c] # None
                 PROVE  /\ head'[c] # None
                        /\ head'[c].material.saved >= head[c].material.saved
                        /\ head'[c] = head[c] \/ head'[c].revision > head[c].revision
      BY DEF Advances
    <2>1. head[c] \in Heads /\ head[c].material.saved \in Nat /\ head[c].revision \in Nat
      BY DEF StoreInv, StoreType, Heads, Materials
    <2>2. /\ SyncedHead(c) \in Heads
          /\ SyncedHead(c).material.saved >= head[c].material.saved
          /\ SyncedHead(c) = head[c] \/ SyncedHead(c).revision > head[c].revision
      <3>1. CASE IsChanged(c)
        <4>1. file[c].saved \in Nat
          BY <3>1, SyncedTypes DEF Materials
        <4> QED BY <2>1, <3>1, <4>1, SyncedTypes
      <3>2. CASE ~IsChanged(c)
        BY <2>1, <3>2, SyncedTypes
      <3> QED BY <3>1, <3>2
    <2>3. SyncedHead(c).revision \in Nat /\ u.revision \in Nat
      BY <2>2 DEF Heads
    <2> QED BY <1>2, <1>3, <2>1, <2>2, <2>3, DistinctAssumption
  <1>10. ImportsNews
    BY <1>1, SyncedTypes DEF ImportsNews
  <1>11. writing' # None => head'[writing'.connection] # None
    BY <1>2, <1>3, <1>4
  <1> QED BY <1>5, <1>6, <1>7, <1>8, <1>9, <1>10, <1>11 DEF StoreInv
-----------------------------------------------------------------------------
(* The tasks.                                                              *)

\* A task that does nothing keeps up with heads that only advance.
LEMMA KeepsUpStep ==
    ASSUME NEW s \in TaskStates, NEW heads \in [Connections -> Heads \union {None}],
           NEW newHeads \in [Connections -> Heads \union {None}],
           KeepsUp(s, heads), Advances(heads, newHeads)
    PROVE  KeepsUp(s, newHeads)
  <1> SUFFICES ASSUME s.pc # "idle" PROVE KeepsUp(s, newHeads)
    BY DEF KeepsUp
  <1> DEFINE k == s.connection
  <1>1. k \in Connections /\ s.head \in Heads /\ heads[k] # None /\ newHeads[k] # None
    BY DEF KeepsUp, Advances
  <1>2. s.head.revision \in Nat /\ heads[k].revision \in Nat /\ newHeads[k].revision \in Nat
    BY <1>1 DEF Heads
  <1>3. newHeads[k] = heads[k] \/ newHeads[k].revision > heads[k].revision
    BY <1>1 DEF Advances
  <1>4. /\ s.head.revision <= heads[k].revision
        /\ s.head.revision = heads[k].revision => s.head = heads[k]
    BY DEF KeepsUp
  <1>5. /\ s.head.revision <= newHeads[k].revision
        /\ s.head.revision = newHeads[k].revision => s.head = newHeads[k]
    BY <1>2, <1>3, <1>4
  <1> QED BY <1>1, <1>5 DEF KeepsUp

\* The idle task keeps up with anything.
LEMMA IdleKeepsUp == IdleTask \in TaskStates /\ \A heads : KeepsUp(IdleTask, heads)
  BY DEF IdleTask, TaskStates, KeepsUp

\* One task moves, the others keep up.
LEMMA TasksStep ==
    ASSUME DexWebInv, StoreInv', Advances(head, head'), NEW t \in Tasks, NEW s \in TaskStates,
           Becomes(t, s), KeepsUp(s, head')
    PROVE  DexWebInv'
  <1>1. task' = [task EXCEPT ![t] = s] /\ task \in [Tasks -> TaskStates]
    BY DEF Becomes, DexWebInv
  <1>2. task' \in [Tasks -> TaskStates]
    BY <1>1
  <1>3. head \in [Connections -> Heads \union {None}] /\ head' \in [Connections -> Heads \union {None}]
    BY DEF DexWebInv, StoreInv, StoreType
  <1>4. ASSUME NEW r \in Tasks PROVE KeepsUp(task'[r], head')
    <2>1. CASE r = t
      BY <1>1, <2>1
    <2>2. CASE r # t
      <3>1. task'[r] = task[r] /\ task[r] \in TaskStates /\ KeepsUp(task[r], head)
        BY <1>1, <2>2 DEF DexWebInv
      <3> QED BY <1>3, <3>1, KeepsUpStep
    <2> QED BY <2>1, <2>2
  <1> QED BY <1>2, <1>4 DEF DexWebInv

\* A task whose admission is in the head finds the very head it was admitted with.
LEMMA AdmissionIsCurrent ==
    ASSUME DexWebInv, NEW t \in Tasks, task[t].pc # "idle",
           require_admission(t, SyncedHead(task[t].connection))
    PROVE  /\ task[t].connection \in Connections /\ task[t].head \in Heads
           /\ SyncedHead(task[t].connection) = task[t].head
  <1> DEFINE k == task[t].connection
  <1>1. /\ k \in Connections /\ task[t].head \in Heads
        /\ task[t].head.revision = head[k].revision => task[t].head = head[k]
    BY DEF DexWebInv, KeepsUp
  <1>2. ~IsChanged(k)
    BY <1>1, SyncedTypes DEF require_admission, DexWebInv
  <1>3. SyncedHead(k) = head[k]
    BY <1>1, <1>2, SyncedTypes DEF DexWebInv
  <1> QED BY <1>1, <1>3 DEF require_admission

\* Heads that stay as they are advance.
LEMMA AdvancesSame ==
    ASSUME StoreInv PROVE Advances(head, head)
  BY DEF Advances, StoreInv, StoreType, Heads, Materials

\* An exchange that is given up imports what changed and ends the task.
LEMMA LoseStep ==
    ASSUME DexWebInv, NEW t \in Tasks, LoseConflict(t)
    PROVE  DexWebInv' /\ Advances(head, head') /\ ImportsNews
  <1>1. StoreInv' /\ Advances(head, head') /\ ImportsNews
    BY AccessStep DEF LoseConflict, DexWebInv
  <1> QED BY <1>1, IdleKeepsUp, TasksStep DEF LoseConflict

\* A task that owns the head writes the next one, of the same authorization.
LEMMA OwnerWrites ==
    ASSUME DexWebInv, NEW t \in Tasks, NEW k \in Connections, SyncedHead(k) = task[t].head,
           task[t].head \in Heads, NEW status \in Statuses, NEW material \in Materials,
           material.saved = task[t].head.material.saved,
           status = "READY" \/ material = task[t].head.material,
           WriteHead(k, Updated(task[t].head, status, material)), UNCHANGED <<file, saves>>
    PROVE  /\ StoreInv' /\ Advances(head, head') /\ ImportsNews
           /\ head'[k] = Updated(task[t].head, status, material) /\ head'[k] \in Heads
  <1> DEFINE u == Updated(task[t].head, status, material)
  <1>1. /\ u \in Heads /\ u.status = status /\ u.material = material
        /\ u.revision > task[t].head.revision
    BY DEF Updated, Heads
  <1> HIDE DEF u
  <1>2. SyncedHead(k) # None
    BY DistinctAssumption
  <1>3. StoreInv' /\ Advances(head, head') /\ ImportsNews
    BY <1>1, <1>2, WriteStep DEF DexWebInv, u
  <1>4. head'[k] = u
    BY DEF WriteHead, SyncedHeads, u
  <1> QED BY <1>1, <1>3, <1>4 DEF u

\* Every step of a task keeps the invariant, and moves heads and imports forward only.
LEMMA TaskStepKeeps ==
    ASSUME DexWebInv, NEW t \in Tasks, TaskStep(t)
    PROVE  DexWebInv' /\ Advances(head, head') /\ ImportsNews
  <1> DEFINE k == task[t].connection
  <1>a. task[t] \in TaskStates /\ StoreInv /\ KeepsUp(task[t], head)
    BY DEF DexWebInv
  <1>b. task[t].pc # "idle" => k \in Connections /\ task[t].head \in Heads /\ task[t].head.material \in Materials
    BY <1>a DEF KeepsUp, Heads
  <1>0. ASSUME UNCHANGED <<file, saves, head, imported, writing, isBehind>>
        PROVE  StoreInv' /\ head' = head /\ Advances(head, head') /\ ImportsNews
    <2>1. Advances(head, head')
      BY <1>0, <1>a, AdvancesSame
    <2>2. StoreInv'
      BY <1>0, <1>a DEF StoreInv, StoreType, SavesAreDated, IsDated, ChangesAreNews, IsNews, InUseIsImported
    <2> QED BY <1>0, <2>1, <2>2 DEF ImportsNews
  <1>1. CASE ReadHead(t)
    <2>1. StoreInv' /\ Advances(head, head') /\ ImportsNews
      BY <1>1, <1>a, AccessStep DEF ReadHead
    <2>2. PICK c \in Connections :
             /\ head'[c] # None
             /\ Becomes(t, [pc |-> "read", connection |-> c, head |-> head'[c], material |-> None])
      BY <1>1 DEF ReadHead
    <2>3. head'[c] \in Heads
      BY <2>1, <2>2 DEF StoreInv, StoreType
    <2> DEFINE s == [pc |-> "read", connection |-> c, head |-> head'[c], material |-> None]
    <2>4. s \in TaskStates
      BY <2>3 DEF TaskStates
    <2>5. KeepsUp(s, head')
      BY <2>2, <2>3 DEF KeepsUp, Heads
    <2> HIDE DEF s
    <2> QED BY <2>1, <2>2, <2>4, <2>5, TasksStep DEF s
  <1>2. CASE admit_refresh(t)
    <2>1. CASE SyncedHead(k) # task[t].head
      BY <1>2, <2>1, LoseStep DEF admit_refresh
    <2>2. CASE SyncedHead(k) = task[t].head
      <3>1. /\ WriteHead(k, Updated(task[t].head, "REFRESHING", task[t].head.material))
            /\ Becomes(t, [task[t] EXCEPT !.pc = "admitted", !.head = head'[k]])
            /\ UNCHANGED <<file, saves>> /\ task[t].pc = "read"
        BY <1>2, <2>2 DEF admit_refresh
      <3>2. /\ StoreInv' /\ Advances(head, head') /\ ImportsNews
            /\ head'[k] \in Heads
        BY <1>b, <2>2, <3>1, OwnerWrites DEF Statuses
      <3> DEFINE s == [task[t] EXCEPT !.pc = "admitted", !.head = head'[k]]
      <3>3. /\ s \in TaskStates /\ s.pc = "admitted" /\ s.connection = k /\ s.head = head'[k]
        BY <1>a, <3>2 DEF TaskStates
      <3> HIDE DEF s
      <3>4. KeepsUp(s, head')
        BY <1>b, <3>1, <3>2, <3>3, DistinctAssumption DEF KeepsUp, Heads
      <3> QED BY <3>1, <3>2, <3>3, <3>4, TasksStep DEF s
    <2> QED BY <2>1, <2>2
  <1>3. CASE ProviderRotates(t)
    <2>1. StoreInv' /\ head' = head /\ Advances(head, head') /\ ImportsNews
      BY <1>0, <1>3 DEF ProviderRotates
    <2> DEFINE m == [task[t].head.material EXCEPT !.refreshes = @ + 1]
    <2> DEFINE s == [task[t] EXCEPT !.pc = "refreshed", !.material = m]
    <2>2. task[t].pc = "admitted" /\ task[t].head.material.refreshes < MaxRefreshes /\ Becomes(t, s)
      BY <1>3 DEF ProviderRotates
    <2>3. m \in Materials /\ m.saved = task[t].head.material.saved
      BY <1>b, <2>2, DexWebAssumption DEF Materials
    <2> HIDE DEF m
    <2>4. /\ s \in TaskStates /\ s.pc = "refreshed" /\ s.connection = k /\ s.head = task[t].head
          /\ s.material = m
      BY <1>a, <2>3 DEF TaskStates
    <2> HIDE DEF s
    <2>5. KeepsUp(s, head')
      BY <1>a, <2>1, <2>2, <2>3, <2>4 DEF KeepsUp
    <2> QED BY <2>1, <2>2, <2>4, <2>5, TasksStep
  <1>4. CASE publish_result(t)
    <2>1. CASE ~require_admission(t, SyncedHead(k))
      BY <1>4, <2>1, LoseStep DEF publish_result
    <2>2. CASE require_admission(t, SyncedHead(k))
      <3>1. /\ WriteHead(k, Updated(SyncedHead(k), "READY", task[t].material))
            /\ Becomes(t, IdleTask) /\ UNCHANGED <<file, saves>> /\ task[t].pc = "refreshed"
        BY <1>4, <2>2 DEF publish_result
      <3>2. SyncedHead(k) = task[t].head
        BY <2>2, <3>1, AdmissionIsCurrent
      <3>3. task[t].material \in Materials /\ task[t].material.saved = task[t].head.material.saved
        BY <1>a, <3>1 DEF KeepsUp
      <3>4. StoreInv' /\ Advances(head, head') /\ ImportsNews
        BY <1>b, <3>1, <3>2, <3>3, OwnerWrites DEF Statuses
      <3> QED BY <3>1, <3>4, IdleKeepsUp, TasksStep
    <2> QED BY <2>1, <2>2
  <1>5. CASE finish_exchange(t) \/ recover(t)
    <2>1. CASE ~require_admission(t, SyncedHead(k))
      BY <1>5, <2>1, LoseStep DEF finish_exchange, recover
    <2>2. CASE require_admission(t, SyncedHead(k))
      <3>1. PICK status \in {"READY", "REAUTHORIZATION_REQUIRED"} :
              /\ WriteHead(k, Updated(SyncedHead(k), status, SyncedHead(k).material))
              /\ Becomes(t, IdleTask) /\ UNCHANGED <<file, saves>> /\ task[t].pc # "idle"
        BY <1>5, <2>2 DEF finish_exchange, recover
      <3>2. SyncedHead(k) = task[t].head
        BY <2>2, <3>1, AdmissionIsCurrent
      <3>3. StoreInv' /\ Advances(head, head') /\ ImportsNews
        BY <1>b, <3>1, <3>2, OwnerWrites DEF Statuses, Heads
      <3> QED BY <3>1, <3>3, IdleKeepsUp, TasksStep
    <2> QED BY <2>1, <2>2
  <1>6. CASE Abandon(t)
    <2>1. StoreInv' /\ head' = head /\ Advances(head, head') /\ ImportsNews
      BY <1>0, <1>6 DEF Abandon
    <2> QED BY <1>6, <2>1, IdleKeepsUp, TasksStep DEF Abandon
  <1> QED BY <1>1, <1>2, <1>3, <1>4, <1>5, <1>6 DEF TaskStep
-----------------------------------------------------------------------------
(* The write back, Dex Web and the crash.                                  *)

\* A write back that is given up leaves its connection behind.
LEMMA GiveUpStep ==
    ASSUME StoreInv, writing # None, GiveUpWriteBack
    PROVE  StoreInv' /\ ImportsNews
  <1>1. /\ writing' = None /\ isBehind' = isBehind \union {writing.connection}
        /\ UNCHANGED <<file, saves, head, imported>>
    BY DEF GiveUpWriteBack
  <1>2. writing.connection \in Connections
    BY DEF StoreInv, StoreType, WriteBacks
  <1>3. StoreType' /\ SavesAreDated' /\ ChangesAreNews'
    BY <1>1, <1>2 DEF StoreInv, StoreType, SavesAreDated, IsDated, ChangesAreNews, IsNews
  <1>4. InUseIsImported'
    BY <1>1 DEF StoreInv, InUseIsImported
  <1> QED BY <1>1, <1>3, <1>4 DEF StoreInv, ImportsNews

\* The file is read again, or the write back is given up.
LEMMA RereadStep ==
    ASSUME StoreInv, RereadFile
    PROVE  StoreInv' /\ ImportsNews
  <1>1. CASE GiveUpWriteBack
    BY <1>1, GiveUpStep DEF RereadFile
  <1>2. CASE /\ writing # None /\ writing' = [writing EXCEPT !.file = file]
             /\ UNCHANGED <<file, saves, head, imported, isBehind>>
    <2>1. /\ writing \in WriteBacks /\ file \in Files
          /\ writing' \in WriteBacks /\ writing'.file = file /\ writing'.connection = writing.connection
      BY <1>2 DEF StoreInv, StoreType, WriteBacks
    <2>2. StoreType'
      BY <1>2, <2>1 DEF StoreInv, StoreType
    <2>3. SavesAreDated' /\ ChangesAreNews'
      BY <1>2, <2>1 DEF StoreInv, SavesAreDated, IsDated, ChangesAreNews, IsNews
    <2>4. InUseIsImported'
      BY <1>2, <2>1, DistinctAssumption DEF StoreInv, InUseIsImported
    <2> QED BY <1>2, <2>1, <2>2, <2>3, <2>4 DEF StoreInv, ImportsNews
  <1> QED BY <1>1, <1>2 DEF RereadFile

\* The file is replaced: what it held of other connections comes back as it was read,
\* and was news then if it was not imported.
LEMMA ReplaceStep ==
    ASSUME StoreInv, ReplaceFile
    PROVE  StoreInv' /\ ImportsNews
  <1> DEFINE k == writing.connection
  <1>1. /\ writing # None /\ writing.file # None /\ writing' = None
        /\ file' = [writing.file EXCEPT ![k] = head[k].material]
        /\ imported' = [imported EXCEPT ![k] = head[k].material]
        /\ isBehind' = isBehind \ {k} /\ UNCHANGED <<saves, head>>
    BY DEF ReplaceFile
  <1>2. writing.file \in Files /\ k \in Connections
    BY <1>1 DEF StoreInv, StoreType, WriteBacks
  <1>3. head[k] # None /\ head[k].material \in Materials
    BY <1>1, <1>2 DEF StoreInv, StoreType, Heads
  <1>4. /\ file'[k] = head[k].material /\ imported'[k] = head[k].material
        /\ \A c \in Connections : c # k => file'[c] = writing.file[c] /\ imported'[c] = imported[c]
    BY <1>1, <1>2 DEF Files, StoreInv, StoreType
  <1>5. StoreType'
    <2>1. file' \in Files
      BY <1>1, <1>2, <1>3 DEF Files
    <2>2. imported' \in [Connections -> Materials \union {None}]
      BY <1>1, <1>2, <1>3 DEF StoreInv, StoreType
    <2> QED BY <1>1, <2>1, <2>2 DEF StoreInv, StoreType
  <1>6. SavesAreDated'
    BY <1>1, <1>2, <1>3, <1>4 DEF StoreInv, SavesAreDated, IsDated
  <1>7. ChangesAreNews'
    BY <1>1, <1>2, <1>4 DEF StoreInv, ChangesAreNews, IsNews
  <1>8. InUseIsImported'
    BY <1>1, <1>2, <1>4 DEF StoreInv, InUseIsImported
  <1> QED BY <1>1, <1>5, <1>6, <1>7, <1>8 DEF StoreInv, ImportsNews

\* Dex Web saves an authorization of its own, newer than any before, or removes one.
LEMMA DexWebStepKeeps ==
    ASSUME StoreInv, DexWebSaves \/ DexWebRemoves
    PROVE  StoreInv' /\ ImportsNews
  <1>1. UNCHANGED <<head, imported, writing, isBehind>>
    BY DEF DexWebSaves, DexWebRemoves
  <1>2. saves \in Nat /\ saves' \in 0..MaxSaves /\ saves' >= saves
    BY DexWebAssumption DEF DexWebSaves, DexWebRemoves, StoreInv, StoreType
  <1>3. PICK k \in Connections :
           /\ \A c \in Connections : c # k => file'[c] = file[c]
           /\ \/ file'[k] = None
              \/ file'[k] \in Materials /\ file'[k].saved = saves' /\ saves' = saves + 1
           /\ file' \in Files
    <2>1. CASE DexWebSaves
      <3>1. PICK k \in Connections : file' = [file EXCEPT ![k] = [saved |-> saves', refreshes |-> 0]]
        BY <2>1 DEF DexWebSaves
      <3>2. [saved |-> saves', refreshes |-> 0] \in Materials
        BY <1>2, DexWebAssumption DEF Materials
      <3> QED BY <2>1, <3>1, <3>2 DEF DexWebSaves, StoreInv, StoreType, Files
    <2>2. CASE DexWebRemoves
      <3>1. PICK k \in Connections : file' = [file EXCEPT ![k] = None]
        BY <2>2 DEF DexWebRemoves
      <3> QED BY <3>1 DEF StoreInv, StoreType, Files
    <2> QED BY <2>1, <2>2
  <1>4. ASSUME NEW c \in Connections, head[c] # None
        PROVE  head[c].material.saved \in Nat /\ head[c].material.saved <= saves
    <2>1. head[c].material \in Materials /\ head[c].material # None
      BY <1>4, DistinctAssumption DEF StoreInv, StoreType, Heads
    <2> QED BY <1>4, <2>1 DEF StoreInv, SavesAreDated, IsDated, Materials
  <1>5. StoreType'
    BY <1>1, <1>2, <1>3 DEF StoreInv, StoreType
  <1>6. SavesAreDated'
    <2>1. ASSUME NEW m \in Materials \union {None}, IsDated(m) PROVE m # None => m.saved <= saves'
      BY <1>2, <2>1 DEF IsDated, Materials
    <2>2. ASSUME NEW c \in Connections PROVE file'[c] # None => file'[c].saved <= saves'
      <3>1. file[c] \in Materials \union {None} /\ IsDated(file[c])
        BY DEF StoreInv, StoreType, Files, SavesAreDated
      <3>2. CASE c # k
        BY <1>3, <2>1, <3>1, <3>2
      <3>3. CASE c = k
        BY <1>2, <1>3, <3>3
      <3> QED BY <3>2, <3>3
    <2>3. ASSUME NEW c \in Connections, writing # None, writing.file # None
          PROVE  writing.file[c] # None => writing.file[c].saved <= saves'
      <3>1. writing.file[c] \in Materials \union {None} /\ IsDated(writing.file[c])
        BY <2>3 DEF StoreInv, StoreType, WriteBacks, Files, SavesAreDated
      <3> QED BY <2>1, <3>1
    <2>4. ASSUME NEW c \in Connections, head[c] # None
          PROVE  head[c].material # None => head[c].material.saved <= saves'
      BY <1>2, <1>4, <2>4
    <2> QED BY <1>1, <2>2, <2>3, <2>4 DEF SavesAreDated, IsDated
  <1>7. ChangesAreNews'
    <2>1. ASSUME NEW c \in Connections, head[c] # None, file'[c] # None, file'[c] # imported[c]
          PROVE  file'[c].saved > head[c].material.saved
      <3>1. CASE c # k
        BY <1>3, <2>1, <3>1 DEF StoreInv, ChangesAreNews, IsNews
      <3>2. CASE c = k
        BY <1>2, <1>3, <1>4, <2>1, <3>2
      <3> QED BY <3>1, <3>2
    <2> QED BY <1>1, <2>1 DEF StoreInv, ChangesAreNews, IsNews
  <1>8. InUseIsImported'
    BY <1>1 DEF StoreInv, InUseIsImported
  <1> QED BY <1>1, <1>5, <1>6, <1>7, <1>8 DEF StoreInv, ImportsNews

\* A crash forgets everything but the file.
LEMMA CrashStep ==
    ASSUME DexWebInv, Crash
    PROVE  DexWebInv' /\ \A k \in Connections : head'[k] = None
  <1>1. /\ head' = [k \in Connections |-> None] /\ imported' = [k \in Connections |-> None]
        /\ writing' = None /\ isBehind' = {} /\ task' = [t \in Tasks |-> IdleTask]
        /\ UNCHANGED <<file, saves>>
    BY DEF Crash
  <1>2. StoreInv'
    BY <1>1 DEF DexWebInv, StoreInv, StoreType, SavesAreDated, IsDated, ChangesAreNews, IsNews,
                InUseIsImported
  <1>3. task' \in [Tasks -> TaskStates] /\ \A t \in Tasks : KeepsUp(task'[t], head')
    BY <1>1, IdleKeepsUp
  <1> QED BY <1>1, <1>2, <1>3 DEF DexWebInv
-----------------------------------------------------------------------------
\* Nothing is imported and no task runs at first.
LEMMA DexWebInit == Init => DexWebInv
  <1> SUFFICES ASSUME Init PROVE DexWebInv
    OBVIOUS
  <1>1. [saved |-> 0, refreshes |-> 0] \in Materials
    BY DexWebAssumption DEF Materials
  <1>2. StoreType
    BY <1>1, DexWebAssumption DEF Init, StoreType, Files
  <1>3. SavesAreDated /\ ChangesAreNews /\ InUseIsImported
    BY DEF Init, SavesAreDated, IsDated, ChangesAreNews, IsNews, InUseIsImported
  <1>4. task \in [Tasks -> TaskStates] /\ \A t \in Tasks : KeepsUp(task[t], head)
    BY IdleKeepsUp DEF Init
  <1> QED BY <1>2, <1>3, <1>4 DEF Init, DexWebInv, StoreInv

\* Every step keeps the invariant; but for a crash, it moves heads and imports forward only.
LEMMA DexWebStep ==
    ASSUME DexWebInv, [Next]_vars
    PROVE  /\ DexWebInv'
           /\ \/ Advances(head, head') /\ ImportsNews
              \/ \A k \in Connections : head'[k] = None
  <1>a. StoreInv
    BY DEF DexWebInv
  <1>1. CASE \E t \in Tasks : TaskStep(t)
    BY <1>1, TaskStepKeeps
  <1>2. CASE Crash
    BY <1>2, CrashStep
  <1>3. ASSUME StoreInv', Advances(head, head'), task' = task PROVE DexWebInv'
    <2>1. head \in [Connections -> Heads \union {None}] /\ head' \in [Connections -> Heads \union {None}]
      BY <1>3, <1>a DEF StoreInv, StoreType
    <2> QED BY <1>3, <2>1, KeepsUpStep DEF DexWebInv
  <1>4. CASE initialize
    BY <1>a, <1>3, <1>4, AccessStep DEF initialize
  <1>5. CASE RereadFile \/ ReplaceFile \/ ReplaceFails \/ DexWebSaves \/ DexWebRemoves
    <2>1. StoreInv' /\ ImportsNews
      BY <1>a, <1>5, RereadStep, ReplaceStep, GiveUpStep, DexWebStepKeeps DEF ReplaceFails
    <2>2. head' = head /\ task' = task
      BY <1>5 DEF RereadFile, ReplaceFile, ReplaceFails, GiveUpWriteBack, DexWebSaves, DexWebRemoves
    <2> QED BY <1>a, <1>3, <2>1, <2>2, AdvancesSame
  <1>6. CASE UNCHANGED vars
    <2>1. StoreInv'
      BY <1>a, <1>6 DEF vars, StoreInv, StoreType, SavesAreDated, IsDated, ChangesAreNews, IsNews,
                        InUseIsImported
    <2>2. head' = head /\ task' = task /\ ImportsNews
      BY <1>6 DEF vars, ImportsNews
    <2> QED BY <1>a, <1>3, <2>1, <2>2, AdvancesSame
  <1> QED BY <1>1, <1>2, <1>4, <1>5, <1>6 DEF Next

\* The inductive invariant of the local store holds in every behaviour.
THEOREM DexWebInvariant == Spec => []DexWebInv
  <1>1. DexWebInv /\ [Next]_vars => DexWebInv'
    BY DexWebStep
  <1> QED BY <1>1, DexWebInit, PTL DEF Spec

\* A restart finds the material in use in the file, unless Dex Web saved a newer one, the
\* connection was removed, or its last write back was given up: for every sequence of
\* refreshes, conflicts, saves of Dex Web in the middle of a write back, and crashes.
THEOREM FileIsCurrent == Spec => []FileKeepsCurrentMaterial
  <1>1. DexWebInv => FileKeepsCurrentMaterial
    BY DEF DexWebInv, StoreInv, ChangesAreNews, IsNews, InUseIsImported, FileKeepsCurrentMaterial,
           IsUnlocked
  <1> QED BY <1>1, DexWebInvariant, PTL

\* Once the application works with an authorization, no refresh of an older one that is
\* still under way replaces it, and neither does an import.
THEOREM NewerAuthorizationWins == Spec => AuthorizationNeverReverts
  <1>1. ASSUME DexWebInv, [Next]_vars
        PROVE  [\A k \in Connections :
                   head[k] # None /\ head'[k] # None =>
                       head'[k].material.saved >= head[k].material.saved]_vars
    BY <1>1, DexWebStep DEF Advances
  <1> QED BY <1>1, DexWebInvariant, PTL DEF Spec, AuthorizationNeverReverts

\* The store imports only what Dex Web saved since: never its own write back, nor the
\* file's older material after a write back that was given up.
THEOREM OnlyNewsIsImported == Spec => ImportsAreNew
  <1>1. ASSUME DexWebInv, [Next]_vars
        PROVE  [\A k \in Connections :
                   /\ head[k] # None /\ head'[k] # None
                   /\ imported'[k] # imported[k]
                   => writing # None \/ file[k].saved > head[k].material.saved]_vars
    BY <1>1, DexWebStep DEF ImportsNews
  <1> QED BY <1>1, DexWebInvariant, PTL DEF Spec, ImportsAreNew
=============================================================================
