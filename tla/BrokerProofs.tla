---------------------------- MODULE BrokerProofs ----------------------------
(***************************************************************************)
(* Proofs about projectconfig/broker.py: the scope token of                *)
(* CredentialBrokerClient (BrokerToken) and the cache of SharedConnection. *)
(*                                                                         *)
(* One renewal is enough to survive one token rotation, for every number   *)
(* of concurrent reads and of rotations.  Because _get_token and           *)
(* _renew_token share a lock that a renewal keeps until it has the new     *)
(* token, a cached token other than the one a read was refused with was    *)
(* renewed after that read took its own, so it is at least the token that  *)
(* was published when the read began.                                      *)
(*                                                                         *)
(* The cache only moves forward, and a refused call with it, for every     *)
(* number of calls, resolutions and renewals and every size of the table.  *)
(* Only the holder of the lock replaces the cached credential, so an       *)
(* answer is at least as recent as the credential it replaces, and the     *)
(* revision a forced read names is still the cached one when its answer    *)
(* arrives.  What a call holds is never ahead of the cache, and its entry  *)
(* in the table, while it lasts, names what it holds.                      *)
(***************************************************************************)
EXTENDS BrokerToken, SharedConnection, FiniteSetTheorems, WellFoundedInduction, TLAPS

\* The initial state satisfies the invariant.
LEMMA InitToken == TokenInit => TokenInv
  BY TokenAssumption
  DEF TokenInit, TokenInv, TokenTypeOK, LockIsHeld, RenewalsAreRecent, SurvivesRotation, NewRead, Tokens

\* A rotation step of the platform keeps the invariant.
LEMMA PlatformStep ==
    ASSUME TokenInv, PublishToken \/ RevokeToken
    PROVE  TokenInv'
  <1> USE DEF TokenInv, TokenTypeOK, Tokens
  <1>1. CASE PublishToken
    <2>1. TokenTypeOK'
      BY <1>1, TokenAssumption DEF PublishToken
    <2>2. LockIsHeld'
      BY <1>1 DEF PublishToken, LockIsHeld
    <2>3. RenewalsAreRecent'
      BY <1>1 DEF PublishToken, RenewalsAreRecent
    <2>4. SurvivesRotation'
      BY <1>1 DEF PublishToken, SurvivesRotation
    <2> QED BY <2>1, <2>2, <2>3, <2>4
  <1>2. CASE RevokeToken
    BY <1>2 DEF RevokeToken, LockIsHeld, RenewalsAreRecent, SurvivesRotation
  <1> QED BY <1>1, <1>2

\* A step of one read keeps every variable's type.
LEMMA ReadKeepsType ==
    ASSUME TokenInv, NEW r \in Reads,
           BeginRead(r) \/ TokenStep(r) \/ RequestStep(r) \/ ReadFails(r)
    PROVE  TokenTypeOK'
  <1> USE DEF TokenInv, TokenTypeOK, GoesTo
  <1>1. CASE BeginRead(r)
    BY <1>1, TokenAssumption DEF BeginRead, Tokens
  <1>2. CASE TokenStep(r)
    BY <1>2 DEF TokenStep, GetCachedToken, StartTokenRead, UseNewerToken, StartRenewal
  <1>3. CASE FinishTokenRead(r) \/ PostAccepted(r) \/ PostRefused(r) \/ ReadReference(r)
    BY <1>3 DEF FinishTokenRead, PostAccepted, PostRefused, ReadReference
  <1>4. CASE FinishRenewal(r)
    BY <1>4 DEF FinishRenewal
  <1>5. CASE ReadFails(r)
    BY <1>5 DEF ReadFails
  <1> QED BY <1>1, <1>2, <1>3, <1>4, <1>5 DEF RequestStep

\* A step of one read keeps the lock's discipline.
LEMMA ReadKeepsLock ==
    ASSUME TokenInv, NEW r \in Reads,
           BeginRead(r) \/ TokenStep(r) \/ RequestStep(r) \/ ReadFails(r)
    PROVE  LockIsHeld'
  <1> USE TokenAssumption DEF TokenInv, TokenTypeOK, LockIsHeld, GoesTo
  <1>1. CASE BeginRead(r)
    BY <1>1 DEF BeginRead
  <1>2. CASE TokenStep(r)
    BY <1>2 DEF TokenStep, GetCachedToken, StartTokenRead, UseNewerToken, StartRenewal
  <1>3. CASE FinishTokenRead(r) \/ PostAccepted(r) \/ PostRefused(r) \/ ReadReference(r)
    BY <1>3 DEF FinishTokenRead, PostAccepted, PostRefused, ReadReference
  <1>4. CASE FinishRenewal(r)
    BY <1>4 DEF FinishRenewal
  <1>5. CASE ReadFails(r)
    BY <1>5 DEF ReadFails
  <1> QED BY <1>1, <1>2, <1>3, <1>4, <1>5 DEF RequestStep

\* A step of one read keeps renewed tokens recent, and rejects only what a second
\* rotation overtook.
LEMMA ReadKeepsRecent ==
    ASSUME TokenInv, NEW r \in Reads,
           BeginRead(r) \/ TokenStep(r) \/ RequestStep(r) \/ ReadFails(r)
    PROVE  RenewalsAreRecent' /\ SurvivesRotation'
  <1> USE TokenAssumption
      DEF TokenInv, TokenTypeOK, LockIsHeld, RenewalsAreRecent, SurvivesRotation, GoesTo, Tokens
  <1>1. CASE BeginRead(r)
    BY <1>1 DEF BeginRead
  <1>2. CASE GetCachedToken(r)
    BY <1>2 DEF GetCachedToken
  <1>3. CASE StartTokenRead(r)
    BY <1>3 DEF StartTokenRead
  <1>4. CASE FinishTokenRead(r)
    BY <1>4 DEF FinishTokenRead
  <1>5. CASE PostAccepted(r)
    BY <1>5 DEF PostAccepted
  <1>6. CASE PostRefused(r)
    <2>1. read[r].token < head
      <3>1. read[r].token \notin accepted /\ head \in accepted
        BY <1>6 DEF PostRefused
      <3>2. head \in Int /\ read[r].token \in Int /\ read[r].token <= head
        OBVIOUS
      <3>3. read[r].token # head
        BY <3>1, Zenon
      <3> HIDE DEF TokenInv, TokenTypeOK, LockIsHeld, RenewalsAreRecent, SurvivesRotation, GoesTo, Tokens
      <3> QED BY <3>2, <3>3
    <2>2. CASE read[r].pc = "post"
      BY <1>6, <2>1, <2>2 DEF PostRefused
    <2>3. CASE read[r].pc = "repost"
      <3>1. read[r].begun < head
        BY <2>1, <2>3
      <3>2. read' = [read EXCEPT ![r].pc = "refused"] /\ UNCHANGED <<head, accepted, token, reference, tokenLock>>
        BY <1>6, <2>3 DEF PostRefused
      <3>3. RenewalsAreRecent'
        BY <3>2
      <3>4. SurvivesRotation'
        BY <3>1, <3>2
      <3> QED BY <3>3, <3>4
    <2> QED BY <1>6, <2>2, <2>3 DEF PostRefused
  <1>7. CASE UseNewerToken(r)
    BY <1>7 DEF UseNewerToken
  <1>8. CASE StartRenewal(r)
    BY <1>8 DEF StartRenewal
  <1>9. CASE ReadReference(r)
    BY <1>9 DEF ReadReference
  <1>10. CASE FinishRenewal(r)
    BY <1>10 DEF FinishRenewal
  <1>11. CASE ReadFails(r)
    BY <1>11 DEF ReadFails
  <1> QED
    BY <1>1, <1>2, <1>3, <1>4, <1>5, <1>6, <1>7, <1>8, <1>9, <1>10, <1>11
    DEF TokenStep, RequestStep

\* TokenInv is inductive.
LEMMA TokenStepInv == TokenInv /\ [TokenNext]_tokenVars => TokenInv'
  <1> SUFFICES ASSUME TokenInv, [TokenNext]_tokenVars PROVE TokenInv'
    OBVIOUS
  <1>1. CASE UNCHANGED tokenVars
    BY <1>1 DEF tokenVars, TokenInv, TokenTypeOK, LockIsHeld, RenewalsAreRecent, SurvivesRotation
  <1>2. CASE PublishToken \/ RevokeToken
    BY <1>2, PlatformStep
  <1>3. ASSUME NEW r \in Reads, BeginRead(r) \/ TokenStep(r) \/ RequestStep(r) \/ ReadFails(r)
        PROVE  TokenInv'
    BY <1>3, ReadKeepsType, ReadKeepsLock, ReadKeepsRecent DEF TokenInv
  <1> QED BY <1>1, <1>2, <1>3 DEF TokenNext

\* The invariant of the broker token holds in every behaviour.
THEOREM TokenInvariant == TokenSpec => []TokenInv
  BY InitToken, TokenStepInv, PTL DEF TokenSpec

\* The variables of the broker token keep their types.
THEOREM TokenTypeCorrect == TokenSpec => []TokenTypeOK
  <1>1. TokenInv => TokenTypeOK
    BY DEF TokenInv
  <1> QED BY <1>1, TokenInvariant, PTL

\* A read is rejected for its token only when the platform rotated during the read,
\* for every number of reads, renewals and rotations.
THEOREM RotationSurvived == TokenSpec => []SurvivesRotation
  <1>1. TokenInv => SurvivesRotation
    BY DEF TokenInv
  <1> QED BY <1>1, TokenInvariant, PTL
-----------------------------------------------------------------------------
(* The cache of one shared connection.                                     *)

\* An answer on its way is not older than the credential it will replace.
AnswerIsFresh(c) ==
    /\ ~IsReading(c) => call[c].answer = None
    /\ call[c].answer # None =>
          /\ call[c].answer.revision <= broker.revision
          /\ cache # None => cache.revision <= call[c].answer.revision

\* A call asks before it has the lock, and then looks at the clock.
AsksFirst(c) ==
    /\ call[c].pc = "waiting" => call[c].asked <= now
    /\ call[c].pc = "reading" => call[c].asked <= call[c].started

\* The cache is not older than what any call was given.
HeldIsBehind(c) ==
    /\ call[c].held # None => cache # None /\ call[c].held.revision <= cache.revision
    /\ call[c].outcome = "served" => call[c].held # None
    /\ call[c].pc \in {"rejected", "rereading"} => call[c].outcome = "served"

\* The table names what the call holds.
EntryAgrees(c) ==
    HasEntry(c) => call[c].held # None /\ issued[c].revision = call[c].held.revision

\* A forced read names the cached revision, and the one its call holds if the table knows it.
RejectedIsCached(c) ==
    call[c].pc = "rereading" =>
        /\ cache # None /\ call[c].rejected = cache.revision
        /\ HasEntry(c) => call[c].rejected = call[c].held.revision

CallInv(c) ==
    /\ AnswerIsFresh(c)
    /\ AsksFirst(c)
    /\ HeldIsBehind(c)
    /\ EntryAgrees(c)
    /\ RejectedIsCached(c)

Tables == [Calls -> Entries \union {None}]

\* Places in the order are numbered from one.
IsInOrder(table) == \A c \in Keys(table) : table[c].position <= Cardinality(Keys(table))

FitsTable(table) == IsInOrder(table) /\ Cardinality(Keys(table)) <= IssuedLimit

LockSpansReads == \A c \in Calls : IsReading(c) <=> lock = c

CacheInv ==
    /\ TypeOK
    /\ LockSpansReads
    /\ FitsTable(issued)
    /\ cache # None => cache.revision <= broker.revision
    /\ \A c \in Calls : CallInv(c)

\* Whatever its keys, a table has finitely many.
LEMMA KeysAreFinite ==
    ASSUME NEW keys \in SUBSET Calls
    PROVE  IsFiniteSet(keys) /\ Cardinality(keys) \in Nat
  <1>1. IsFiniteSet(Calls)
    BY SharedAssumption
  <1>2. IsFiniteSet(keys)
    BY <1>1, FS_Subset
  <1> QED BY <1>2, FS_CardinalityType

\* A table reduced to some keys has those keys, with the entries they had but for the place.
LEMMA KeepingKeeps ==
    ASSUME NEW table \in Tables, NEW keys \in SUBSET Keys(table)
    PROVE  /\ Keeping(table, keys) \in Tables
           /\ Keys(Keeping(table, keys)) = keys
           /\ \A c \in keys :
                 /\ Keeping(table, keys)[c].revision = table[c].revision
                 /\ Keeping(table, keys)[c].at = table[c].at
                 /\ Keeping(table, keys)[c].position =
                       Cardinality({d \in keys : table[d].position <= table[c].position})
  <1> DEFINE new == Keeping(table, keys)
             Upto(c) == Cardinality({d \in keys : table[d].position <= table[c].position})
  <1>1. ASSUME NEW c \in keys
        PROVE  /\ table[c] \in Entries
               /\ new[c] = [table[c] EXCEPT !.position = Upto(c)]
    BY DEF Keys, Tables, Keeping
  <1>2. ASSUME NEW c \in keys PROVE Upto(c) \in Nat
    <2>1. {d \in keys : table[d].position <= table[c].position} \in SUBSET Calls
      BY DEF Keys
    <2> QED BY <2>1, KeysAreFinite
  <1>3. ASSUME NEW c \in keys
        PROVE  /\ new[c] \in Entries
               /\ new[c].revision = table[c].revision
               /\ new[c].at = table[c].at
               /\ new[c].position = Upto(c)
    <2> HIDE DEF Upto, new
    <2> QED BY <1>1, <1>2 DEF Entries
  <1>4. ASSUME NEW c \in Calls, c \notin keys PROVE new[c] = None
    BY <1>4 DEF Keeping
  <1>5. None \notin Entries
    BY DistinctAssumption
  <1>6. new \in Tables
    <2>1. \A c \in Calls : new[c] \in Entries \union {None}
      BY <1>3, <1>4
    <2>2. new = [c \in Calls |-> new[c]]
      BY DEF Keeping
    <2> HIDE DEF new
    <2> QED BY <2>1, <2>2 DEF Tables
  <1>7. Keys(new) = keys
    <2> HIDE DEF new
    <2> QED BY <1>3, <1>4, <1>5 DEF Keys
  <1> QED BY <1>3, <1>6, <1>7

\* An assignment to the dict adds its key, at the end if it is new.
LEMMA WithEntryAdds ==
    ASSUME issued \in Tables, NEW c \in Calls, NEW revision \in 1..MaxRevision, NEW t \in Times
    PROVE  LET all == WithEntry(c, revision, t) IN
           /\ all \in Tables
           /\ Keys(all) = Keys(issued) \union {c}
           /\ all[c].revision = revision /\ all[c].at = t
           /\ ~HasEntry(c) => all[c].position = Cardinality(Keys(issued)) + 1
           /\ HasEntry(c) => all[c].position = issued[c].position
           /\ \A d \in Calls \ {c} : all[d] = issued[d]
  <1> DEFINE all == WithEntry(c, revision, t)
             place == IF HasEntry(c) THEN issued[c].position ELSE Cardinality(Keys(issued)) + 1
             entry == [revision |-> revision, at |-> t, position |-> place]
  <1>1. all = [issued EXCEPT ![c] = entry]
    BY DEF WithEntry
  <1>2. place \in Nat
    <2>1. Cardinality(Keys(issued)) \in Nat
      BY KeysAreFinite DEF Keys
    <2>2. HasEntry(c) => issued[c] \in Entries
      BY DEF HasEntry, Tables
    <2>3. HasEntry(c) => issued[c].position \in Nat
      BY <2>2 DEF Entries
    <2> QED BY <2>1, <2>3
  <1>3. entry \in Entries /\ entry.revision = revision /\ entry.at = t /\ entry.position = place
    <2> HIDE DEF place
    <2> QED BY <1>2 DEF Entries
  <1>4. all \in Tables /\ all[c] = entry /\ \A d \in Calls \ {c} : all[d] = issued[d]
    <2> HIDE DEF entry, all
    <2> QED BY <1>1, <1>3 DEF Tables
  <1>5. Keys(all) = Keys(issued) \union {c}
    <2> HIDE DEF all, entry
    <2> QED BY <1>3, <1>4, DistinctAssumption DEF Keys
  <1> QED BY <1>3, <1>4, <1>5

IsLast(c, table) ==
    /\ c \in Keys(table)
    /\ \A d \in Keys(table) \ {c} : table[d].position < table[c].position

\* Reducing a table renumbers the places without changing the order.
LEMMA KeepingOrder ==
    ASSUME NEW table \in Tables, NEW keys \in SUBSET Keys(table)
    PROVE  /\ IsInOrder(Keeping(table, keys))
           /\ \A c \in keys : IsLast(c, table) => IsLast(c, Keeping(table, keys))
  <1> DEFINE new == Keeping(table, keys)
             Ahead(c) == {d \in keys : table[d].position <= table[c].position}
  <1>1. /\ Keys(new) = keys
        /\ \A c \in keys : new[c].position = Cardinality(Ahead(c))
    BY KeepingKeeps
  <1>2. IsFiniteSet(keys) /\ Cardinality(keys) \in Nat
    BY KeysAreFinite DEF Keys
  <1>3. ASSUME NEW c \in keys
        PROVE  /\ Cardinality(Ahead(c)) \in Nat
               /\ Cardinality(Ahead(c)) <= Cardinality(keys)
               /\ Cardinality(Ahead(c)) = Cardinality(keys) => Ahead(c) = keys
    <2>1. Ahead(c) \in SUBSET keys /\ Ahead(c) \in SUBSET Calls
      BY DEF Keys
    <2>2. Cardinality(Ahead(c)) \in Nat
      BY <2>1, KeysAreFinite
    <2> HIDE DEF Ahead
    <2> QED BY <2>1, <2>2, <1>2, FS_Subset
  <1>4. IsInOrder(new)
    <2> HIDE DEF new, Ahead
    <2> QED BY <1>1, <1>3 DEF IsInOrder
  <1>5. ASSUME NEW c \in keys, IsLast(c, table) PROVE IsLast(c, new)
    <2>1. \A d \in keys : table[d].position \in Nat
      <3>1. \A d \in keys : table[d] \in Entries
        BY DEF Tables, Keys
      <3> QED BY <3>1 DEF Entries
    <2>2. Ahead(c) = keys
      BY <1>5, <2>1 DEF IsLast
    <2>3. ASSUME NEW d \in keys \ {c} PROVE Cardinality(Ahead(d)) < Cardinality(Ahead(c))
      <3>1. c \notin Ahead(d)
        BY <1>5, <2>1 DEF IsLast
      <3> HIDE DEF Ahead
      <3> QED BY <3>1, <2>2, <1>2, <1>3
    <2> HIDE DEF new, Ahead
    <2> QED BY <1>1, <2>3 DEF IsLast
  <1> QED BY <1>4, <1>5

Smaller == {p \in Nat \X Nat : p[1] < p[2]}

\* Every set of natural numbers that is not empty has a least element.
LEMMA LeastNatural ==
    ASSUME NEW S \in SUBSET Nat, S # {}
    PROVE  \E n \in S : \A m \in S : n <= m
  <1>1. IsWellFoundedOn(Smaller, Nat)
    BY NatLessThanWellFounded DEF Smaller, OpToRel
  <1>2. PICK n \in S : \A m \in S : ~(<<m, n>> \in Smaller)
    BY <1>1, WFMin
  <1>3. ASSUME NEW m \in S, m < n PROVE <<m, n>> \in Smaller
    <2>1. <<m, n>> \in Nat \X Nat /\ <<m, n>>[1] = m /\ <<m, n>>[2] = n
      OBVIOUS
    <2>2. <<m, n>>[1] < <<m, n>>[2]
      BY <1>3
    <2> QED BY <2>1, <2>2, Zenon DEF Smaller
  <1>4. ASSUME NEW m \in S PROVE n <= m
    <2>1. m \in Nat /\ n \in Nat
      OBVIOUS
    <2>2. ~(m < n)
      BY <1>2, <1>3
    <2> HIDE DEF Smaller
    <2> QED BY <2>1, <2>2
  <1> QED BY <1>4

\* The first key of a table that has one does not stay: one key fewer, but not the last one.
LEMMA FirstKeyGoes ==
    ASSUME NEW table \in Tables, Keys(table) # {}
    PROVE  /\ LaterKeys(table) \in SUBSET Keys(table)
           /\ Cardinality(LaterKeys(table)) + 1 <= Cardinality(Keys(table))
           /\ \A c \in Keys(table) : IsLast(c, table) /\ Keys(table) # {c} => c \in LaterKeys(table)
  <1> DEFINE keys == Keys(table)
             places == {table[c].position : c \in keys}
  <1>1. \A c \in keys : table[c].position \in Nat
    <2>1. \A c \in keys : table[c] \in Entries
      BY DEF Tables, Keys
    <2> QED BY <2>1 DEF Entries
  <1>2. PICK n \in places : \A m \in places : n <= m
    <2>1. places \in SUBSET Nat /\ places # {}
      BY <1>1
    <2> QED BY <2>1, LeastNatural
  <1>3. PICK first \in keys : table[first].position = n
    BY <1>2
  <1>4. first \notin LaterKeys(table)
    BY <1>1, <1>2, <1>3 DEF LaterKeys
  <1>5. LaterKeys(table) \in SUBSET keys
    BY DEF LaterKeys
  <1>6. /\ IsFiniteSet(keys) /\ Cardinality(keys) \in Nat
        /\ Cardinality(LaterKeys(table)) \in Nat
    <2>1. keys \in SUBSET Calls /\ LaterKeys(table) \in SUBSET Calls
      BY <1>5 DEF Keys
    <2>2. \A k \in SUBSET Calls : IsFiniteSet(k) /\ Cardinality(k) \in Nat
      BY KeysAreFinite
    <2> QED BY <2>1, <2>2
  <1>7. Cardinality(LaterKeys(table)) + 1 <= Cardinality(keys)
    <2>1. /\ Cardinality(LaterKeys(table)) <= Cardinality(keys)
          /\ Cardinality(keys) = Cardinality(LaterKeys(table)) => keys = LaterKeys(table)
      BY <1>5, <1>6, FS_Subset
    <2> QED BY <2>1, <1>3, <1>4, <1>6
  <1>8. ASSUME NEW c \in keys, IsLast(c, table), keys # {c} PROVE c \in LaterKeys(table)
    <2>1. PICK d \in keys \ {c} : TRUE
      BY <1>8
    <2> QED BY <1>8, <2>1 DEF IsLast, LaterKeys
  <1> QED BY <1>5, <1>7, <1>8

\* record_issued stores the revision it is given, or drops it, and leaves the entries of
\* other calls or drops them.
LEMMA RecordedIsTrue ==
    ASSUME issued \in Tables, NEW c \in Calls, NEW revision \in 1..MaxRevision, NEW t \in Times
    PROVE  LET new == record_issued(c, revision, t) IN
           /\ new \in Tables
           /\ new[c] # None => new[c].revision = revision
           /\ \A d \in Calls \ {c} :
                 new[d] # None => issued[d] # None /\ new[d].revision = issued[d].revision
  <1> DEFINE all == WithEntry(c, revision, t)
             recent == IF IsOver(all) THEN Keeping(all, RecentKeys(all, t)) ELSE all
             new == IF IsOver(recent) THEN Keeping(recent, LaterKeys(recent)) ELSE recent
             Stems(table, from) ==
                 /\ table \in Tables
                 /\ \A d \in Calls :
                       table[d] # None => from[d] # None /\ table[d].revision = from[d].revision
  <1>1. /\ all \in Tables /\ all[c].revision = revision
        /\ \A d \in Calls \ {c} : all[d] = issued[d]
    BY WithEntryAdds
  <1>2. ASSUME NEW table \in Tables, NEW keys \in SUBSET Keys(table)
        PROVE  Stems(Keeping(table, keys), table)
    <2>1. /\ Keeping(table, keys) \in Tables
          /\ Keys(Keeping(table, keys)) = keys
          /\ \A d \in keys : Keeping(table, keys)[d].revision = table[d].revision
      BY KeepingKeeps
    <2> QED BY <2>1 DEF Keys
  <1> HIDE DEF all
  <1>3. Stems(recent, all)
    <2>1. RecentKeys(all, t) \in SUBSET Keys(all)
      BY DEF RecentKeys
    <2> HIDE DEF Stems
    <2>2. Stems(Keeping(all, RecentKeys(all, t)), all)
      BY <1>1, <1>2, <2>1
    <2>3. Stems(all, all)
      BY <1>1 DEF Stems
    <2> QED BY <2>2, <2>3
  <1> HIDE DEF recent
  <1>4. Stems(new, recent)
    <2>0. recent \in Tables
      BY <1>3
    <2>1. LaterKeys(recent) \in SUBSET Keys(recent)
      BY DEF LaterKeys
    <2> HIDE DEF Stems
    <2>2. Stems(Keeping(recent, LaterKeys(recent)), recent)
      BY <2>0, <1>2, <2>1
    <2>3. Stems(recent, recent)
      BY <2>0 DEF Stems
    <2> QED BY <2>2, <2>3
  <1>5. record_issued(c, revision, t) = new
    BY DEF record_issued, new, recent, all
  <1> HIDE DEF new
  <1>6. /\ new \in Tables
        /\ new[c] # None => new[c].revision = revision
        /\ \A d \in Calls \ {c} :
              new[d] # None => issued[d] # None /\ new[d].revision = issued[d].revision
    BY <1>1, <1>3, <1>4
  <1> QED BY <1>5, <1>6

\* record_issued keeps the table within its limit, and unless entries are dropped at once
\* the entry it adds is not the one it drops.
LEMMA RecordedFits ==
    ASSUME issued \in Tables, FitsTable(issued),
           NEW c \in Calls, NEW revision \in 1..MaxRevision, NEW t \in Times
    PROVE  /\ FitsTable(record_issued(c, revision, t))
           /\ Retention > 0 => record_issued(c, revision, t)[c] # None
  <1> DEFINE all == WithEntry(c, revision, t)
             recent == IF IsOver(all) THEN Keeping(all, RecentKeys(all, t)) ELSE all
             new == IF IsOver(recent) THEN Keeping(recent, LaterKeys(recent)) ELSE recent
             size == Cardinality(Keys(issued))
  <1>1. /\ all \in Tables
        /\ Keys(all) = Keys(issued) \union {c}
        /\ all[c].at = t
        /\ ~HasEntry(c) => all[c].position = size + 1
        /\ HasEntry(c) => all[c].position = issued[c].position
        /\ \A d \in Calls \ {c} : all[d] = issued[d]
    BY WithEntryAdds
  <1>2. /\ IsFiniteSet(Keys(issued)) /\ size \in Nat /\ size <= IssuedLimit
        /\ c \in Keys(issued) <=> HasEntry(c)
        /\ IssuedLimit \in Nat \ {0} /\ Retention \in Nat /\ t \in Nat
    BY KeysAreFinite, SharedAssumption DEF Keys, HasEntry, FitsTable, Times
  <1>3. Cardinality(Keys(all)) = IF HasEntry(c) THEN size ELSE size + 1
    <2> HIDE DEF all
    <2> QED BY <1>1, <1>2, FS_AddElement
  <1>4. \A d \in Keys(issued) : issued[d].position \in Nat /\ issued[d].position <= size
    <2>1. \A d \in Keys(issued) : issued[d] \in Entries
      BY DEF Keys, Tables
    <2> QED BY <2>1 DEF Entries, FitsTable, IsInOrder
  <1> HIDE DEF all, size
  <1>5. IsInOrder(all)
    BY <1>1, <1>2, <1>3, <1>4 DEF IsInOrder, Keys
  <1>6. ~HasEntry(c) => IsLast(c, all)
    BY <1>1, <1>2, <1>4 DEF IsLast, Keys
  <1>7. IsOver(all) => ~HasEntry(c)
    BY <1>2, <1>3 DEF IsOver
  <1>8. RecentKeys(all, t) \in SUBSET Keys(all)
    BY DEF RecentKeys
  <1>9. /\ recent \in Tables /\ IsInOrder(recent)
        /\ Keys(recent) \in SUBSET Keys(all)
        /\ Retention > 0 => c \in Keys(recent)
        /\ IsOver(all) /\ c \in Keys(recent) => IsLast(c, recent)
    <2>1. CASE IsOver(all)
      <3>1. /\ Keeping(all, RecentKeys(all, t)) \in Tables
            /\ Keys(Keeping(all, RecentKeys(all, t))) = RecentKeys(all, t)
        BY <1>1, <1>8, KeepingKeeps
      <3>2. /\ IsInOrder(Keeping(all, RecentKeys(all, t)))
            /\ \A d \in RecentKeys(all, t) : IsLast(d, all) => IsLast(d, Keeping(all, RecentKeys(all, t)))
        BY <1>1, <1>8, KeepingOrder
      <3>3. Retention > 0 => c \in RecentKeys(all, t)
        BY <1>1, <1>2 DEF RecentKeys
      <3>4. recent = Keeping(all, RecentKeys(all, t))
        BY <2>1
      <3> HIDE DEF recent
      <3> QED BY <3>1, <3>2, <3>3, <3>4, <1>6, <1>7, <1>8
    <2>2. CASE ~IsOver(all)
      BY <2>2, <1>1, <1>5
    <2> QED BY <2>1, <2>2
  <1>10. IsOver(recent) => IsOver(all)
    <2>1. CASE IsOver(all)
      BY <2>1
    <2>2. CASE ~IsOver(all)
      BY <2>2
    <2> QED BY <2>1, <2>2
  <1> HIDE DEF recent
  <1>11. /\ IsFiniteSet(Keys(recent)) /\ Cardinality(Keys(recent)) \in Nat
         /\ Cardinality(Keys(recent)) <= IssuedLimit + 1
    <2>1. IsFiniteSet(Keys(all)) /\ Cardinality(Keys(all)) \in Nat
      BY KeysAreFinite DEF Keys
    <2>2. IsFiniteSet(Keys(recent)) /\ Cardinality(Keys(recent)) \in Nat
      BY KeysAreFinite DEF Keys
    <2>3. Cardinality(Keys(recent)) <= Cardinality(Keys(all))
      BY <1>9, <2>1, FS_Subset
    <2> QED BY <2>1, <2>2, <2>3, <1>2, <1>3
  <1>12. FitsTable(new) /\ (Retention > 0 => c \in Keys(new))
    <2>1. CASE IsOver(recent)
      <3>1. Cardinality(Keys(recent)) > IssuedLimit
        BY <2>1 DEF IsOver
      <3>2. Keys(recent) # {} /\ Keys(recent) # {c}
        BY <3>1, <1>2, <1>11, FS_EmptySet, FS_Singleton
      <3>3. /\ LaterKeys(recent) \in SUBSET Keys(recent)
            /\ Cardinality(LaterKeys(recent)) + 1 <= Cardinality(Keys(recent))
            /\ \A d \in Keys(recent) : IsLast(d, recent) /\ Keys(recent) # {d} => d \in LaterKeys(recent)
        BY <1>9, <3>2, FirstKeyGoes
      <3>4. /\ Keys(Keeping(recent, LaterKeys(recent))) = LaterKeys(recent)
            /\ IsInOrder(Keeping(recent, LaterKeys(recent)))
        BY <1>9, <3>3, KeepingKeeps, KeepingOrder
      <3>5. Cardinality(LaterKeys(recent)) \in Nat
        BY KeysAreFinite DEF LaterKeys, Keys
      <3>6. Retention > 0 => c \in LaterKeys(recent)
        BY <1>9, <1>10, <2>1, <3>2, <3>3
      <3>7. new = Keeping(recent, LaterKeys(recent))
        BY <2>1
      <3> HIDE DEF new
      <3> QED BY <3>1, <3>3, <3>4, <3>5, <3>6, <3>7, <1>2, <1>11 DEF FitsTable
    <2>2. CASE ~IsOver(recent)
      <3>1. Cardinality(Keys(recent)) <= IssuedLimit
        BY <2>2, <1>2, <1>11 DEF IsOver
      <3> QED BY <2>2, <3>1, <1>9 DEF FitsTable
    <2> QED BY <2>1, <2>2
  <1>13. record_issued(c, revision, t) = new
    BY DEF record_issued, new, recent, all
  <1> HIDE DEF new
  <1> QED BY <1>12, <1>13 DEF Keys
-----------------------------------------------------------------------------
(* A step of one call, seen from the others.                               *)

\* The cache stays, or the call that read the broker moves it forward.
CacheMoves(c) ==
    /\ cache' \in Credentials \union {None}
    /\ \/ cache' = cache
       \/ /\ IsReading(c) /\ cache' # None
          /\ cache # None => cache.revision <= cache'.revision

EntriesStay(c) ==
    \A d \in Calls \ {c} :
        issued'[d] # None => issued[d] # None /\ issued'[d].revision = issued[d].revision

GoodStep(c) ==
    /\ call' \in [Calls -> CallStates]
    /\ \A d \in Calls \ {c} : call'[d] = call[d]
    /\ issued' \in Tables /\ FitsTable(issued') /\ EntriesStay(c)
    /\ CacheMoves(c)
    /\ broker' \in Credentials /\ broker.revision <= broker'.revision
    /\ cache' # None => cache'.revision <= broker'.revision
    /\ nextReadAfter' \in Nat /\ resolves' \in [Calls -> 0..MaxResolves] /\ now' = now
    /\ lock' \in Calls \union {None}
    /\ IsReading(c)' <=> lock' = c
    /\ \A d \in Calls \ {c} : lock' = d <=> lock = d
    /\ CallInv(c)'

\* Credentials have numbers as revisions, and are not None.
LEMMA CredentialFields ==
    ASSUME NEW k \in Credentials
    PROVE  k # None /\ k.revision \in 1..MaxRevision /\ k.revision \in Nat
  BY DistinctAssumption, SharedAssumption DEF Credentials

\* The invariant of a call survives the steps of the others.
LEMMA OthersStay ==
    ASSUME CacheInv, NEW c \in Calls, NEW d \in Calls \ {c}, GoodStep(c)
    PROVE  CallInv(d)'
  <1> USE DEF CacheInv
  <1>0. /\ call'[d] = call[d] /\ now' = now /\ CallInv(d)
        /\ IsReading(d)' <=> IsReading(d)
        /\ issued'[d] # None => issued[d] # None /\ issued'[d].revision = issued[d].revision
    BY DEF GoodStep, EntriesStay, IsReading
  <1>1. /\ call[d] \in CallStates
        /\ call[d].answer \in Credentials \union {None}
        /\ call[d].held \in Credentials \union {None}
        /\ cache \in Credentials \union {None} /\ cache' \in Credentials \union {None}
        /\ broker \in Credentials /\ broker' \in Credentials
    BY DEF TypeOK, GoodStep, CacheMoves, CallStates
  <1>2. /\ broker.revision <= broker'.revision
        /\ cache # None => cache' # None /\ cache.revision <= cache'.revision
        /\ IsReading(d) => cache' = cache
    <2>1. ~(IsReading(c) /\ IsReading(d))
      BY DEF LockSpansReads
    <2>2. cache # None => cache.revision \in Nat
      BY <1>1, CredentialFields
    <2> QED BY <2>1, <2>2 DEF GoodStep, CacheMoves
  <1>3. /\ call[d].answer # None => call[d].answer.revision \in Nat
        /\ call[d].held # None => call[d].held.revision \in Nat
        /\ cache # None => cache.revision \in Nat
        /\ cache' # None => cache'.revision \in Nat
        /\ broker.revision \in Nat /\ broker'.revision \in Nat
    BY <1>1, CredentialFields
  <1>4. AnswerIsFresh(d)'
    BY <1>0, <1>2, <1>3 DEF CallInv, AnswerIsFresh
  <1>5. AsksFirst(d)'
    BY <1>0 DEF CallInv, AsksFirst
  <1>6. HeldIsBehind(d)'
    BY <1>0, <1>2, <1>3 DEF CallInv, HeldIsBehind
  <1>7. EntryAgrees(d)'
    BY <1>0 DEF CallInv, EntryAgrees, HasEntry
  <1>8. RejectedIsCached(d)'
    BY <1>0, <1>2 DEF CallInv, RejectedIsCached, HasEntry, IsReading
  <1> QED BY <1>4, <1>5, <1>6, <1>7, <1>8 DEF CallInv

\* Hence a good step of a call preserves the invariant of all.
LEMMA GoodStepKeeps ==
    ASSUME CacheInv, NEW c \in Calls, GoodStep(c)
    PROVE  CacheInv'
  <1>1. TypeOK'
    BY DEF GoodStep, CacheMoves, CacheInv, TypeOK, Tables
  <1>2. LockSpansReads'
    <2> SUFFICES ASSUME NEW d \in Calls PROVE IsReading(d)' <=> lock' = d
      BY DEF LockSpansReads
    <2>1. CASE d = c
      BY <2>1 DEF GoodStep
    <2>2. CASE d # c
      <3>1. IsReading(d)' <=> IsReading(d)
        BY <2>2 DEF GoodStep, IsReading
      <3> QED BY <2>2, <3>1 DEF GoodStep, CacheInv, LockSpansReads
    <2> QED BY <2>1, <2>2
  <1>3. \A d \in Calls : CallInv(d)'
    <2> SUFFICES ASSUME NEW d \in Calls PROVE CallInv(d)'
      OBVIOUS
    <2>1. CASE d = c
      BY <2>1 DEF GoodStep
    <2>2. CASE d # c
      BY <2>2, OthersStay
    <2> QED BY <2>1, <2>2
  <1>4. FitsTable(issued)' /\ (cache' # None => cache'.revision <= broker'.revision)
    BY DEF GoodStep, FitsTable, IsInOrder, Keys
  <1> QED BY <1>1, <1>2, <1>3, <1>4 DEF CacheInv

\* What is known of a call before its step.
LEMMA CallFields ==
    ASSUME CacheInv, NEW c \in Calls
    PROVE  /\ call[c] \in CallStates /\ CallInv(c)
           /\ call[c].started \in Times /\ call[c].started \in Nat /\ now \in Times /\ now \in Nat
           /\ call[c].answer \in Credentials \union {None}
           /\ call[c].held \in Credentials \union {None}
           /\ call[c].held # None => call[c].held.revision \in Nat
           /\ call[c].answer # None => call[c].answer.revision \in Nat
           /\ cache \in Credentials \union {None}
           /\ cache # None => cache.revision \in 1..MaxRevision /\ cache.revision \in Nat
           /\ broker \in Credentials /\ broker.revision \in Nat
           /\ call[c].asked \in Times /\ call[c].asked \in Nat
           /\ MaxTime \in Nat /\ 0 \in Times
  <1>1. /\ call[c] \in CallStates /\ CallInv(c) /\ now \in Times
        /\ cache \in Credentials \union {None} /\ broker \in Credentials
    BY DEF CacheInv, TypeOK
  <1>2. /\ call[c].started \in Times /\ call[c].asked \in Times
        /\ call[c].answer \in Credentials \union {None}
        /\ call[c].held \in Credentials \union {None}
    BY <1>1 DEF CallStates
  <1>3. MaxTime \in Nat
    BY SharedAssumption
  <1>4. 0 \in Times /\ now \in Nat /\ call[c].started \in Nat /\ call[c].asked \in Nat
    BY <1>1, <1>2, <1>3 DEF Times
  <1> QED BY <1>1, <1>2, <1>3, <1>4, CredentialFields

\* What a resolution that ends does besides its answer.
Around(c) ==
    /\ CacheMoves(c)
    /\ cache' # None => cache'.revision <= broker.revision
    /\ nextReadAfter' \in Nat /\ resolves' \in [Calls -> 0..MaxResolves]
    /\ Release(c) \/ (lock' = lock /\ ~IsReading(c))
    /\ broker' = broker /\ now' = now

Ended(credential, how) ==
    [pc |-> "idle", asked |-> 0, started |-> 0, rejected |-> 0, answer |-> None,
     held |-> credential, outcome |-> how]

\* A call starts anew but for what it holds and how its resolution ended.
LEMMA NewCallEnded ==
    ASSUME NEW credential, NEW how
    PROVE  [NewCall EXCEPT !.held = credential, !.outcome = how] = Ended(credential, how)
  <1> DEFINE q == [NewCall EXCEPT !.held = credential]
  <1>1. q = Ended(credential, "none")
    BY DEF NewCall, Ended
  <1>2. [q EXCEPT !.outcome = how] = Ended(credential, how)
    <2> HIDE DEF q
    <2> QED BY <1>1 DEF Ended
  <1>3. [NewCall EXCEPT !.held = credential, !.outcome = how] = [q EXCEPT !.outcome = how]
    BY DEF NewCall
  <1> QED BY <1>2, <1>3

\* A call that ends without reading or holding the lock is in order when what it holds is.
LEMMA EndIsGood ==
    ASSUME CacheInv, NEW c \in Calls, Around(c),
           NEW credential \in Credentials \union {None}, NEW how \in {"served", "failed"},
           Becomes(c, Ended(credential, how)),
           credential # None => cache' # None /\ credential.revision <= cache'.revision,
           how = "served" => credential # None,
           issued' \in Tables, FitsTable(issued'), EntriesStay(c),
           issued'[c] # None => credential # None /\ issued'[c].revision = credential.revision
    PROVE  GoodStep(c)
  <1> DEFINE k == Ended(credential, how)
  <1>0. 0 \in Times /\ broker \in Credentials /\ broker.revision \in Nat
    BY CallFields
  <1>1. k \in CallStates
    BY <1>0, SharedAssumption DEF Ended, CallStates
  <1>2. /\ call' \in [Calls -> CallStates] /\ call'[c] = k
        /\ \A d \in Calls \ {c} : call'[d] = call[d]
    <2> HIDE DEF k
    <2>1. call' = [call EXCEPT ![c] = k]
      BY DEF Becomes, k
    <2> QED BY <2>1, <1>1 DEF CacheInv, TypeOK
  <1>3. /\ k.pc = "idle" /\ k.answer = None /\ k.held = credential /\ k.outcome = how
    BY DEF Ended
  <1> HIDE DEF k
  <1>4. ~IsReading(c)'
    BY <1>2, <1>3 DEF IsReading
  <1>5. /\ lock' \in Calls \union {None} /\ lock' # c
        /\ \A d \in Calls \ {c} : lock' = d <=> lock = d
    BY SharedAssumption DEF Around, Release, CacheInv, TypeOK, LockSpansReads
  <1>6. CallInv(c)'
    <2>1. AnswerIsFresh(c)' /\ AsksFirst(c)'
      BY <1>2, <1>3, <1>4 DEF AnswerIsFresh, AsksFirst
    <2>2. HeldIsBehind(c)'
      BY <1>2, <1>3 DEF HeldIsBehind
    <2>3. EntryAgrees(c)' /\ RejectedIsCached(c)'
      BY <1>2, <1>3 DEF EntryAgrees, HasEntry, RejectedIsCached
    <2> QED BY <2>1, <2>2, <2>3 DEF CallInv
  <1> QED BY <1>0, <1>2, <1>4, <1>5, <1>6 DEF GoodStep, Around

\* The call is served the credential in the cache.
LEMMA ServeIsGood ==
    ASSUME CacheInv, NEW c \in Calls, Around(c), NEW t \in Times,
           cache' # None, Serve(c, cache', t)
    PROVE  GoodStep(c) /\ call'[c] = Ended(cache', "served")
                       /\ (Retention > 0 => issued'[c] # None)
  <1>0. cache' \in Credentials
    BY DEF Around, CacheMoves
  <1>1. cache'.revision \in 1..MaxRevision /\ cache'.revision \in Nat
    BY <1>0, CredentialFields
  <1>2. Becomes(c, Ended(cache', "served"))
    BY NewCallEnded DEF Serve, Becomes
  <1>3. issued' = record_issued(c, cache'.revision, t)
    BY DEF Serve
  <1>4. issued \in Tables /\ FitsTable(issued)
    BY DEF CacheInv, TypeOK, Tables
  <1>5. /\ issued' \in Tables
        /\ issued'[c] # None => issued'[c].revision = cache'.revision
        /\ EntriesStay(c)
    BY <1>1, <1>3, <1>4, RecordedIsTrue DEF EntriesStay
  <1>6. FitsTable(issued') /\ (Retention > 0 => issued'[c] # None)
    BY <1>1, <1>3, <1>4, RecordedFits
  <1>7. call'[c] = Ended(cache', "served")
    <2>1. call \in [Calls -> CallStates] /\ call' = [call EXCEPT ![c] = Ended(cache', "served")]
      BY <1>2 DEF Becomes, CacheInv, TypeOK
    <2> QED BY <2>1
  <1>8. GoodStep(c)
    BY <1>0, <1>1, <1>2, <1>5, <1>6, EndIsGood
  <1> QED BY <1>6, <1>7, <1>8

\* The resolution ends with an error, and the call holds what it held.
LEMMA FailIsGood ==
    ASSUME CacheInv, NEW c \in Calls, Around(c), Fail(c)
    PROVE  GoodStep(c) /\ call'[c] = Ended(call[c].held, "failed")
  <1>1. Becomes(c, Ended(call[c].held, "failed")) /\ issued' = issued
    BY NewCallEnded DEF Fail, Becomes
  <1>2. issued \in Tables /\ FitsTable(issued)
    BY DEF CacheInv, TypeOK, Tables
  <1>3. EntriesStay(c)
    BY <1>1 DEF EntriesStay
  <1>4. /\ call[c].held \in Credentials \union {None}
        /\ HeldIsBehind(c) /\ EntryAgrees(c)
        /\ call[c].held # None => call[c].held.revision \in Nat
        /\ cache # None => cache.revision \in Nat
    BY CallFields DEF CallInv
  <1>5. cache' # None => cache'.revision \in Nat
    BY CredentialFields DEF Around, CacheMoves
  <1>6. call[c].held # None => cache' # None /\ call[c].held.revision <= cache'.revision
    BY <1>4, <1>5 DEF HeldIsBehind, Around, CacheMoves
  <1>7. issued'[c] # None => call[c].held # None /\ issued'[c].revision = call[c].held.revision
    BY <1>1, <1>4 DEF EntryAgrees, HasEntry
  <1>8. call'[c] = Ended(call[c].held, "failed")
    <2>1. call \in [Calls -> CallStates] /\ call' = [call EXCEPT ![c] = Ended(call[c].held, "failed")]
      BY <1>1 DEF Becomes, CacheInv, TypeOK
    <2> QED BY <2>1
  <1>9. GoodStep(c)
    BY <1>1, <1>2, <1>3, <1>4, <1>6, <1>7, EndIsGood
  <1> QED BY <1>8, <1>9

\* A call that goes on to state k while cache, table and clock stay.
GoesOn(c, k) ==
    /\ call' = [call EXCEPT ![c] = k] /\ k \in CallStates
    /\ k.held = call[c].held /\ k.outcome = call[c].outcome
    /\ resolves' \in [Calls -> 0..MaxResolves]
    /\ UNCHANGED <<cache, nextReadAfter, issued, now>>

\* What a call holds, and its entry, stay in order while it goes on.
LEMMA GoingOnIsGood ==
    ASSUME CacheInv, NEW c \in Calls, NEW k, GoesOn(c, k),
           broker' \in Credentials, broker.revision <= broker'.revision,
           lock' \in Calls \union {None}, IsReading(c)' <=> lock' = c,
           \A d \in Calls \ {c} : lock' = d <=> lock = d,
           k.pc \in {"rejected", "rereading"} => k.outcome = "served",
           AnswerIsFresh(c)', AsksFirst(c)', RejectedIsCached(c)'
    PROVE  GoodStep(c)
  <1>1. /\ call' \in [Calls -> CallStates] /\ call'[c] = k
        /\ \A d \in Calls \ {c} : call'[d] = call[d]
    BY DEF GoesOn, CacheInv, TypeOK
  <1>2. HeldIsBehind(c) /\ EntryAgrees(c)
    BY DEF CacheInv, CallInv
  <1>3. HeldIsBehind(c)'
    BY <1>1, <1>2 DEF GoesOn, HeldIsBehind
  <1>4. EntryAgrees(c)'
    BY <1>1, <1>2 DEF GoesOn, EntryAgrees, HasEntry
  <1>5. issued' \in Tables /\ FitsTable(issued') /\ EntriesStay(c) /\ CacheMoves(c)
    BY DEF GoesOn, CacheInv, TypeOK, Tables, EntriesStay, CacheMoves
  <1>6. /\ cache' # None => cache'.revision <= broker'.revision
        /\ nextReadAfter' \in Nat /\ resolves' \in [Calls -> 0..MaxResolves] /\ now' = now
    <2>1. /\ broker.revision \in Nat /\ broker'.revision \in Nat
          /\ cache # None => cache.revision \in Nat
      BY CallFields, CredentialFields
    <2> QED BY <2>1 DEF GoesOn, CacheInv, TypeOK
  <1> QED BY <1>1, <1>3, <1>4, <1>5, <1>6 DEF GoodStep, CallInv

\* A call that waits for the lock.
LEMMA TurnIsGood ==
    ASSUME CacheInv, NEW c \in Calls, NEW k \in CallStates,
           call[c].pc = "idle", k.pc \in {"waiting", "rejected"},
           k.pc = "rejected" => call[c].outcome = "served",
           k.pc = "waiting" => k.asked = now,
           k.answer = call[c].answer, k.held = call[c].held, k.outcome = call[c].outcome,
           call' = [call EXCEPT ![c] = k],
           resolves' \in [Calls -> 0..MaxResolves],
           UNCHANGED <<cache, lock, nextReadAfter, issued, broker, now>>
    PROVE  GoodStep(c) /\ call'[c].pc = k.pc
  <1>0. call[c] \in CallStates /\ now \in Nat /\ broker \in Credentials /\ broker.revision \in Nat /\ AnswerIsFresh(c)
    BY CallFields DEF CallInv
  <1>3. GoesOn(c, k) /\ call'[c] = k
    BY DEF GoesOn, CacheInv, TypeOK
  <1>4. ~IsReading(c)' /\ ~IsReading(c)
    BY <1>3 DEF IsReading
  <1>5. AnswerIsFresh(c)' /\ AsksFirst(c)' /\ RejectedIsCached(c)'
    BY <1>0, <1>3, <1>4 DEF AnswerIsFresh, AsksFirst, RejectedIsCached, IsReading
  <1>6. lock' \in Calls \union {None} /\ lock' # c
    BY <1>4 DEF CacheInv, TypeOK, LockSpansReads
  <1> QED BY <1>0, <1>3, <1>4, <1>5, <1>6, GoingOnIsGood

\* A call that takes the lock and asks the broker.
LEMMA StartIsGood ==
    ASSUME CacheInv, NEW c \in Calls, NEW k, GoesOn(c, k), ~IsReading(c),
           k.pc \in {"reading", "rereading"}, k.started = now, k.answer = call[c].answer,
           k.pc = "reading" => call[c].pc = "waiting" /\ k.asked = call[c].asked,
           k.pc = "rereading" =>
               /\ k.outcome = "served" /\ cache # None /\ k.rejected = cache.revision
               /\ HasEntry(c) => k.rejected = k.held.revision,
           lock = None, lock' = c, broker' = broker
    PROVE  GoodStep(c)
  <1>0. /\ broker \in Credentials /\ broker.revision \in Nat /\ AnswerIsFresh(c) /\ AsksFirst(c)
        /\ now \in Nat
    BY CallFields DEF CallInv
  <1>1. call'[c] = k
    BY DEF GoesOn, CacheInv, TypeOK
  <1>2. IsReading(c)'
    BY <1>1 DEF IsReading
  <1>3. AnswerIsFresh(c)'
    BY <1>0, <1>1, <1>2 DEF AnswerIsFresh
  <1>4. AsksFirst(c)'
    BY <1>0, <1>1 DEF AsksFirst, GoesOn
  <1>5. RejectedIsCached(c)'
    BY <1>1 DEF RejectedIsCached, GoesOn, HasEntry
  <1>6. \A d \in Calls \ {c} : lock' = d <=> lock = d
    BY SharedAssumption
  <1> QED BY <1>0, <1>2, <1>3, <1>4, <1>5, <1>6, GoingOnIsGood

\* resolve before it asks for the lock.
LEMMA ResolveIsGood ==
    ASSUME CacheInv, NEW c \in Calls, resolve(c)
    PROVE  /\ GoodStep(c)
           /\ Served(c)' /\ Retention > 0 => issued'[c] # None
  <1>0. /\ now \in Times /\ cache \in Credentials \union {None}
        /\ resolves' \in [Calls -> 0..MaxResolves]
        /\ ~IsReading(c)
    BY SharedAssumption DEF CacheInv, TypeOK, resolve, IsReading
  <1>1. CASE IsUsableAtOnce
    <2>1. Around(c) /\ cache' # None /\ Serve(c, cache', now)
      BY <1>0, <1>1 DEF resolve, Around, CacheMoves, CacheInv, TypeOK, IsUsableAtOnce
    <2> QED BY <1>0, <2>1, ServeIsGood
  <1>2. CASE ~IsUsableAtOnce
    <2> DEFINE k == [call[c] EXCEPT !.pc = "waiting", !.asked = now]
    <2>1. call[c] \in CallStates
      BY CallFields
    <2>2. /\ k \in CallStates /\ k.pc = "waiting" /\ k.asked = now /\ k.answer = call[c].answer
          /\ k.held = call[c].held /\ k.outcome = call[c].outcome
      BY <1>0, <2>1 DEF CallStates
    <2>3. call' = [call EXCEPT ![c] = k]
      BY <1>2 DEF resolve, Becomes
    <2> HIDE DEF k
    <2>4. GoodStep(c) /\ call'[c].pc = "waiting"
      BY <1>0, <1>2, <2>2, <2>3, TurnIsGood DEF resolve
    <2> QED BY <2>4 DEF Served
  <1> QED BY <1>1, <1>2

\* A refused call comes back.
LEMMA RejectionIsGood ==
    ASSUME CacheInv, NEW c \in Calls, resolve_after_rejection(c)
    PROVE  GoodStep(c) /\ ~Served(c)'
  <1>0. resolves' \in [Calls -> 0..MaxResolves]
    BY SharedAssumption DEF CacheInv, TypeOK, resolve_after_rejection
  <1> DEFINE k == [call[c] EXCEPT !.pc = "rejected"]
  <1>1. call[c] \in CallStates
    BY CallFields
  <1>2. /\ k \in CallStates /\ k.pc = "rejected" /\ k.answer = call[c].answer
        /\ k.held = call[c].held /\ k.outcome = call[c].outcome
    BY <1>1 DEF CallStates
  <1>3. call' = [call EXCEPT ![c] = k]
    BY DEF resolve_after_rejection, Becomes
  <1> HIDE DEF k
  <1>4. GoodStep(c) /\ call'[c].pc = "rejected"
    BY <1>0, <1>2, <1>3, TurnIsGood DEF resolve_after_rejection
  <1> QED BY <1>4 DEF Served

\* A call whose resolution ends as the code's last test decides.
LEMMA ServeUnlessExpiredIsGood ==
    ASSUME CacheInv, NEW c \in Calls, Around(c), NEW t \in Times, ServeUnlessExpired(c, cache', t)
    PROVE  /\ GoodStep(c)
           /\ Served(c)' =>
                 /\ call'[c] = Ended(cache', "served") /\ cache' # None /\ ~is_expired(cache', t)
                 /\ Retention > 0 => issued'[c] # None
  <1>1. CASE Fail(c)
    <2>1. GoodStep(c) /\ call'[c] = Ended(call[c].held, "failed")
      BY <1>1, FailIsGood
    <2> QED BY <2>1 DEF Served, Ended
  <1>2. CASE cache' # None /\ ~is_expired(cache', t) /\ Serve(c, cache', t)
    BY <1>2, ServeIsGood
  <1> QED BY <1>1, <1>2 DEF ServeUnlessExpired

\* A renewal of the broker has the next revision.
LEMMA RenewalIsNewer ==
    ASSUME CacheInv, Renews
    PROVE  broker' \in Credentials /\ broker.revision <= broker'.revision
  <1>1. /\ broker \in Credentials /\ now \in Times /\ now \in 0..MaxTime
        /\ {Lifetime, MaxTime, MaxRevision} \subseteq Nat
    BY SharedAssumption DEF CacheInv, TypeOK, Times
  <1>2. PICK issuedAt \in {None, now}, expiresAt \in {None, now + Lifetime} :
           broker' = [broker EXCEPT !.revision = @ + 1, !.issuedAt = issuedAt, !.expiresAt = expiresAt]
    BY DEF Renews
  <1>3. /\ broker.revision + 1 \in 1..MaxRevision /\ issuedAt \in Times \union {None}
        /\ expiresAt \in 0..(MaxTime + Lifetime) \union {None}
    BY <1>1 DEF Renews, Credentials
  <1>4. broker' \in Credentials /\ broker'.revision = broker.revision + 1
    BY <1>1, <1>2, <1>3 DEF Credentials
  <1> QED BY <1>1, <1>4 DEF Credentials

\* resolve with the lock.
LEMMA EnterResolveIsGood ==
    ASSUME CacheInv, NEW c \in Calls, EnterResolve(c)
    PROVE  /\ GoodStep(c)
           /\ Served(c)' => /\ call'[c] = Ended(cache', "served") /\ ~is_expired(cache', now)
                            /\ cache' # None
                            /\ Retention > 0 => issued'[c] # None
  <1>0. /\ now \in Times /\ call[c] \in CallStates /\ call[c].pc = "waiting" /\ ~IsReading(c)
    BY CallFields DEF EnterResolve, IsReading
  <1>1. CASE NeedsRead
    <2> DEFINE k == [call[c] EXCEPT !.pc = "reading", !.started = now]
    <2>1. /\ k \in CallStates /\ k.pc = "reading" /\ k.started = now /\ k.answer = call[c].answer
          /\ k.asked = call[c].asked
          /\ k.held = call[c].held /\ k.outcome = call[c].outcome
      BY <1>0 DEF CallStates
    <2>2. /\ call' = [call EXCEPT ![c] = k] /\ lock = None /\ lock' = c /\ broker' = broker
          /\ UNCHANGED <<cache, nextReadAfter, issued, resolves, now>>
      BY <1>1 DEF EnterResolve, Becomes, IsLockFree
    <2> HIDE DEF k
    <2>3. GoesOn(c, k) /\ call'[c] = k
      BY <2>1, <2>2 DEF GoesOn, CacheInv, TypeOK
    <2>4. GoodStep(c)
      BY <1>0, <2>1, <2>2, <2>3, StartIsGood
    <2> QED BY <2>1, <2>3, <2>4 DEF Served
  <1>2. CASE ~NeedsRead
    <2>1. Around(c) /\ ServeUnlessExpired(c, cache', now)
      BY <1>0, <1>2 DEF EnterResolve, Around, CacheMoves, CacheInv, TypeOK
    <2> QED BY <1>0, <2>1, ServeUnlessExpiredIsGood
  <1> QED BY <1>1, <1>2

\* The answer of a read, stored with the time of its arrival.
LEMMA AnswerStored ==
    ASSUME CacheInv, NEW c \in Calls, IsReading(c), call[c].answer # None,
           cache' = [call[c].answer EXCEPT !.readAt = now],
           Release(c), UNCHANGED <<nextReadAfter, resolves, broker, now>>
    PROVE  Around(c) /\ cache' # None /\ cache'.revision = call[c].answer.revision
  <1>0. /\ call[c].answer \in Credentials /\ now \in Times /\ AnswerIsFresh(c)
    BY CallFields DEF CallInv
  <1>1. cache' \in Credentials /\ cache'.revision = call[c].answer.revision
    BY <1>0 DEF Credentials
  <1>2. cache' # None
    BY <1>1, CredentialFields
  <1>3. CacheMoves(c) /\ cache'.revision <= broker.revision
    BY <1>0, <1>1, <1>2 DEF CacheMoves, AnswerIsFresh
  <1> QED BY <1>1, <1>2, <1>3 DEF Around, CacheInv, TypeOK

\* A broker read of resolve that is answered.
LEMMA ReadSucceedsIsGood ==
    ASSUME CacheInv, NEW c \in Calls, ReadSucceeds(c)
    PROVE  /\ GoodStep(c)
           /\ Served(c)' => /\ call'[c] = Ended(cache', "served") /\ cache' # None
                            /\ ~is_expired(cache', call[c].started)
                            /\ Retention > 0 => issued'[c] # None
  <1>1. Around(c)
    BY AnswerStored DEF ReadSucceeds, IsReading
  <1>2. call[c].started \in Times
    BY CallFields
  <1> QED BY <1>1, <1>2, ServeUnlessExpiredIsGood DEF ReadSucceeds

\* A broker read of resolve that finds the broker unavailable.
LEMMA ReadUnavailableIsGood ==
    ASSUME CacheInv, NEW c \in Calls, ReadUnavailable(c)
    PROVE  /\ GoodStep(c)
           /\ Served(c)' => /\ call'[c] = Ended(cache', "served") /\ cache' # None
                            /\ ~is_expired(cache', call[c].started)
                            /\ Retention > 0 => issued'[c] # None
  <1>1. call[c].started \in Times /\ call[c].started \in Nat /\ Backoff \in Nat
    BY CallFields, SharedAssumption
  <1>2. Around(c) /\ cache' = cache
    BY <1>1 DEF ReadUnavailable, Around, CacheMoves, CacheInv, TypeOK
  <1>3. ServeUnlessExpired(c, cache', call[c].started)
    BY <1>2 DEF ReadUnavailable
  <1> QED BY <1>1, <1>2, <1>3, ServeUnlessExpiredIsGood

\* Any other error, or a cancellation.
LEMMA AbortIsGood ==
    ASSUME CacheInv, NEW c \in Calls, Abort(c)
    PROVE  GoodStep(c) /\ ~Served(c)'
  <1>1. Around(c)
    BY DEF Abort, Around, CacheMoves, CacheInv, TypeOK
  <1>2. GoodStep(c) /\ call'[c] = Ended(call[c].held, "failed")
    BY <1>1, FailIsGood DEF Abort
  <1> QED BY <1>2 DEF Served, Ended

\* The broker answers a read, renewing the credential first if it was told that it is
\* rejected.
LEMMA AnswerIsGood ==
    ASSUME CacheInv, NEW c \in Calls, BrokerAnswers(c)
    PROVE  GoodStep(c) /\ call'[c].pc = call[c].pc
  <1> DEFINE k == [call[c] EXCEPT !.answer = broker']
  <1>0. /\ call[c] \in CallStates /\ IsReading(c) /\ broker \in Credentials /\ broker.revision \in Nat
        /\ CallInv(c)
        /\ cache # None => cache.revision \in Nat
    BY CallFields DEF BrokerAnswers, IsReading
  <1>1. broker' \in Credentials /\ broker.revision <= broker'.revision
    <2>1. CASE UNCHANGED broker
      BY <2>1, <1>0
    <2>2. CASE Renews
      BY <2>2, RenewalIsNewer
    <2> QED BY <2>1, <2>2 DEF BrokerAnswers
  <1>2. /\ k \in CallStates /\ k.pc = call[c].pc /\ k.started = call[c].started /\ k.answer = broker'
        /\ k.asked = call[c].asked
        /\ k.held = call[c].held /\ k.outcome = call[c].outcome /\ k.rejected = call[c].rejected
    BY <1>0, <1>1 DEF CallStates
  <1>3. call' = [call EXCEPT ![c] = k] /\ UNCHANGED <<cache, lock, nextReadAfter, issued, resolves, now>>
    BY DEF BrokerAnswers, Becomes
  <1> HIDE DEF k
  <1>4. GoesOn(c, k) /\ call'[c] = k
    BY <1>2, <1>3 DEF GoesOn, CacheInv, TypeOK
  <1>5. IsReading(c)' /\ lock = c
    BY <1>0, <1>2, <1>4 DEF IsReading, CacheInv, LockSpansReads
  <1>6. AnswerIsFresh(c)'
    <2>1. broker'.revision \in Nat /\ (cache # None => cache.revision <= broker.revision)
      BY <1>1, CredentialFields DEF CacheInv
    <2> QED BY <1>0, <1>1, <1>2, <1>3, <1>4, <1>5, <2>1 DEF AnswerIsFresh
  <1>7. AsksFirst(c)'
    BY <1>0, <1>2, <1>3, <1>4 DEF AsksFirst, CallInv
  <1>8. RejectedIsCached(c)' /\ (k.pc \in {"rejected", "rereading"} => k.outcome = "served")
    BY <1>0, <1>2, <1>3, <1>4 DEF RejectedIsCached, HeldIsBehind, CallInv, HasEntry
  <1>9. lock' = lock /\ lock' \in Calls \union {None}
    BY <1>3, <1>5
  <1>10. GoodStep(c)
    BY <1>1, <1>4, <1>5, <1>6, <1>7, <1>8, <1>9, GoingOnIsGood
  <1> QED BY <1>2, <1>4, <1>10

\* resolve_after_rejection with the lock: what it serves at once is newer than what the
\* call holds.
LEMMA EnterRejectionIsGood ==
    ASSUME CacheInv, NEW c \in Calls, EnterRejection(c)
    PROVE  /\ GoodStep(c)
           /\ Served(c)' => /\ call'[c].held.revision > call[c].held.revision
                            /\ call'[c] = Ended(cache', "served")
                            /\ Retention > 0 => issued'[c] # None
  <1>0. /\ now \in Times /\ call[c] \in CallStates /\ call[c].pc = "rejected" /\ ~IsReading(c)
        /\ HeldIsBehind(c) /\ EntryAgrees(c)
        /\ cache \in Credentials \union {None}
        /\ call[c].held # None => call[c].held.revision \in Nat
    BY CallFields DEF EnterRejection, IsReading, CallInv
  <1>1. /\ call[c].outcome = "served" /\ call[c].held # None
        /\ cache # None /\ call[c].held.revision <= cache.revision
        /\ cache.revision \in Nat /\ cache.revision \in 1..MaxRevision
    BY <1>0, CredentialFields DEF HeldIsBehind
  <1>2. RejectedRevision(c) = IF HasEntry(c) THEN call[c].held.revision ELSE cache.revision
    BY <1>0, <1>1 DEF RejectedRevision, EntryAgrees
  <1>3. CASE IsSuperseded(RejectedRevision(c))
    <2>1. cache.revision > call[c].held.revision
      BY <1>0, <1>1, <1>2, <1>3 DEF IsSuperseded
    <2>2. Around(c) /\ cache' # None /\ cache' = cache /\ Serve(c, cache', now)
      BY <1>0, <1>1, <1>3 DEF EnterRejection, Around, CacheMoves, CacheInv, TypeOK
    <2>3. GoodStep(c) /\ call'[c] = Ended(cache', "served") /\ (Retention > 0 => issued'[c] # None)
      BY <1>0, <2>2, ServeIsGood
    <2>4. call'[c].held = cache
      BY <2>2, <2>3 DEF Ended
    <2> QED BY <2>1, <2>3, <2>4
  <1>4. CASE ~IsSuperseded(RejectedRevision(c))
    <2> DEFINE k == [call[c] EXCEPT !.pc = "rereading", !.started = now, !.rejected = RejectedRevision(c)]
    <2>0. RejectedRevision(c) = cache.revision
      BY <1>1, <1>4 DEF IsSuperseded
    <2>1. RejectedRevision(c) \in 0..MaxRevision
      BY <1>1, <2>0
    <2>2. /\ k \in CallStates /\ k.pc = "rereading" /\ k.started = now /\ k.answer = call[c].answer
          /\ k.held = call[c].held /\ k.outcome = call[c].outcome /\ k.rejected = RejectedRevision(c)
      BY <1>0, <2>1 DEF CallStates
    <2>3. /\ call' = [call EXCEPT ![c] = k] /\ lock = None /\ lock' = c /\ broker' = broker
          /\ UNCHANGED <<cache, nextReadAfter, issued, resolves, now>>
      BY <1>4 DEF EnterRejection, Becomes, IsLockFree
    <2> HIDE DEF k
    <2>4. GoesOn(c, k) /\ call'[c] = k
      BY <2>2, <2>3 DEF GoesOn, CacheInv, TypeOK
    <2>5. HasEntry(c) => k.rejected = k.held.revision
      BY <1>2, <2>2
    <2>6. GoodStep(c)
      BY <1>0, <1>1, <2>0, <2>2, <2>3, <2>4, <2>5, StartIsGood
    <2> QED BY <2>2, <2>4, <2>6 DEF Served
  <1> QED BY <1>3, <1>4

\* A forced read that is answered: the call gets a newer revision or an error.
LEMMA RereadIsGood ==
    ASSUME CacheInv, NEW c \in Calls, RereadSucceeds(c)
    PROVE  /\ GoodStep(c)
           /\ Served(c)' => /\ call'[c].held.revision > call[c].held.revision
                            /\ call'[c] = Ended(cache', "served")
                            /\ Retention > 0 => issued'[c] # None
  <1>0. /\ call[c].pc = "rereading" /\ IsReading(c) /\ call[c].started \in Times
        /\ HeldIsBehind(c) /\ AnswerIsFresh(c) /\ RejectedIsCached(c)
        /\ call[c].held # None => call[c].held.revision \in Nat
        /\ call[c].answer # None /\ call[c].answer.revision \in Nat
        /\ cache # None => cache.revision \in Nat
    BY CallFields DEF RereadSucceeds, IsReading, CallInv
  <1>1. Around(c) /\ cache' # None /\ cache'.revision = call[c].answer.revision
    BY <1>0, AnswerStored DEF RereadSucceeds
  <1>2. /\ cache # None /\ call[c].rejected = cache.revision
        /\ call[c].held # None /\ call[c].held.revision <= cache.revision
        /\ cache.revision <= cache'.revision
    BY <1>0, <1>1 DEF RejectedIsCached, HeldIsBehind, AnswerIsFresh
  <1>3. CASE cache'.revision = call[c].rejected
    <2>1. GoodStep(c) /\ call'[c] = Ended(call[c].held, "failed")
      BY <1>1, <1>3, FailIsGood DEF RereadSucceeds
    <2> QED BY <2>1 DEF Served, Ended
  <1>4. CASE cache'.revision # call[c].rejected
    <2>1. /\ GoodStep(c) /\ call'[c] = Ended(cache', "served")
          /\ Retention > 0 => issued'[c] # None
      BY <1>0, <1>1, <1>4, ServeIsGood DEF RereadSucceeds
    <2>2. call'[c].held = cache'
      BY <2>1 DEF Ended
    <2>3. cache'.revision > call[c].held.revision
      BY <1>0, <1>1, <1>2, <1>4
    <2> QED BY <2>1, <2>2, <2>3
  <1> QED BY <1>3, <1>4
-----------------------------------------------------------------------------
IsStepOf(c) == resolve(c) \/ resolve_after_rejection(c) \/ CallStep(c)

\* Every step of a call is good.
LEMMA StepIsGood ==
    ASSUME CacheInv, NEW c \in Calls, IsStepOf(c)
    PROVE  GoodStep(c)
  BY ResolveIsGood, RejectionIsGood, EnterResolveIsGood, AnswerIsGood, ReadSucceedsIsGood,
     ReadUnavailableIsGood, EnterRejectionIsGood, RereadIsGood, AbortIsGood
  DEF IsStepOf, CallStep

\* The first state satisfies the invariant.
LEMMA CacheInit == Init => CacheInv
  <1> SUFFICES ASSUME Init PROVE CacheInv
    OBVIOUS
  <1>0. 0 \in Times /\ 1 \in 1..MaxRevision /\ 0 \in 0..MaxRevision /\ Lifetime \in 0..(MaxTime + Lifetime)
    BY SharedAssumption DEF Times
  <1>1. TypeOK
    <2>1. broker \in Credentials
      BY <1>0 DEF Init, Credentials
    <2>2. NewCall \in CallStates
      BY <1>0 DEF NewCall, CallStates
    <2> QED BY <1>0, <2>1, <2>2, SharedAssumption DEF Init, TypeOK
  <1>2. FitsTable(issued)
    <2>1. Keys(issued) = {}
      BY DEF Init, Keys
    <2> QED BY <2>1, FS_EmptySet, SharedAssumption DEF FitsTable, IsInOrder
  <1>3. ASSUME NEW c \in Calls PROVE CallInv(c) /\ ~IsReading(c) /\ lock # c
    <2>1. call[c] = NewCall /\ issued[c] = None
      BY DEF Init
    <2>2. call[c].pc = "idle" /\ call[c].answer = None /\ call[c].held = None /\ call[c].outcome = "none"
      BY <2>1 DEF NewCall
    <2>3. ~IsReading(c) /\ lock # c
      BY <2>2, SharedAssumption DEF IsReading, Init
    <2> QED BY <2>1, <2>2, <2>3
            DEF CallInv, AnswerIsFresh, AsksFirst, HeldIsBehind, EntryAgrees, HasEntry, RejectedIsCached
  <1>4. cache = None
    BY DEF Init
  <1> QED BY <1>1, <1>2, <1>3, <1>4 DEF CacheInv, LockSpansReads

\* Steps of the broker and of the clock preserve the invariant.
LEMMA EnvironmentKeeps ==
    ASSUME CacheInv, BrokerRenews \/ Tick
    PROVE  CacheInv'
  <1>1. /\ UNCHANGED <<cache, lock, nextReadAfter, issued, call, resolves>>
        /\ broker' \in Credentials /\ broker.revision <= broker'.revision
        /\ now' \in Times /\ now <= now'
    <2>1. CASE BrokerRenews
      <3>1. now \in Times /\ now \in Nat
        BY SharedAssumption DEF CacheInv, TypeOK, Times
      <3> QED BY <2>1, <3>1, RenewalIsNewer DEF BrokerRenews
    <2>2. CASE Tick
      <3>1. broker \in Credentials /\ broker.revision \in Nat /\ now \in 0..MaxTime /\ MaxTime \in Nat
        BY CredentialFields, SharedAssumption DEF CacheInv, TypeOK, Times
      <3> QED BY <2>2, <3>1 DEF Tick, Times
    <2> QED BY <2>1, <2>2
  <1>2. TypeOK' /\ LockSpansReads'
    BY <1>1 DEF CacheInv, TypeOK, LockSpansReads, IsReading
  <1>3. FitsTable(issued)'
    BY <1>1 DEF CacheInv, FitsTable, IsInOrder, Keys
  <1>4. broker.revision \in Nat /\ broker'.revision \in Nat /\ now \in Nat /\ now' \in Nat
    BY <1>1, CredentialFields, SharedAssumption DEF CacheInv, TypeOK, Times
  <1>5. cache' # None => cache'.revision <= broker'.revision
    BY <1>1, <1>4, CredentialFields DEF CacheInv, TypeOK
  <1>6. ASSUME NEW c \in Calls PROVE CallInv(c)'
    <2>0. CallInv(c) /\ call[c].asked \in Nat /\ (call[c].answer # None => call[c].answer.revision \in Nat)
      BY CallFields
    <2>1. AnswerIsFresh(c)'
      BY <1>1, <1>4, <2>0 DEF CallInv, AnswerIsFresh, IsReading
    <2>2. AsksFirst(c)'
      BY <1>1, <1>4, <2>0 DEF CallInv, AsksFirst, IsReading
    <2>3. HeldIsBehind(c)' /\ EntryAgrees(c)' /\ RejectedIsCached(c)'
      BY <1>1, <2>0 DEF CallInv, HeldIsBehind, EntryAgrees, HasEntry, RejectedIsCached
    <2> QED BY <2>1, <2>2, <2>3 DEF CallInv
  <1> QED BY <1>2, <1>3, <1>5, <1>6 DEF CacheInv

\* Every step preserves the invariant.
LEMMA CacheStep == ASSUME CacheInv, [Next]_vars PROVE CacheInv'
  <1>1. CASE UNCHANGED vars
    BY <1>1 DEF vars, CacheInv, TypeOK, LockSpansReads, IsReading, FitsTable, IsInOrder, Keys, CallInv,
                AnswerIsFresh, AsksFirst, HeldIsBehind, EntryAgrees, HasEntry, RejectedIsCached
  <1>2. ASSUME NEW c \in Calls, IsStepOf(c) PROVE CacheInv'
    BY <1>2, StepIsGood, GoodStepKeeps
  <1>3. CASE BrokerRenews \/ Tick
    BY <1>3, EnvironmentKeeps
  <1> QED BY <1>1, <1>2, <1>3 DEF Next, IsStepOf

\* The invariant of the cache holds in every behaviour, for every number of calls.
THEOREM CacheInvariant == Spec => []CacheInv
  <1>1. CacheInv /\ [Next]_vars => CacheInv'
    BY CacheStep
  <1> QED BY <1>1, CacheInit, PTL DEF Spec

\* Every variable of SharedConnection keeps its type.
THEOREM SharedTypeCorrect == Spec => []TypeOK
  BY CacheInvariant, PTL DEF CacheInv

\* _issued_by_call never outgrows its limit, however many calls the process makes and
\* whether or not the retention has passed for any of them.
THEOREM TableIsBounded == Spec => [](Cardinality(Keys(issued)) <= IssuedLimit)
  <1>1. CacheInv => Cardinality(Keys(issued)) <= IssuedLimit
    BY DEF CacheInv, FitsTable
  <1> QED BY <1>1, CacheInvariant, PTL

\* resolve_after_rejection names to the broker only the revision its own call holds, and
\* only while that is still the cached one, as long as the table knows the call.
THEOREM ForcedReadIsJustified == Spec => []ForcedReadJustified
  <1>1. CacheInv => ForcedReadJustified
    BY DEF CacheInv, CallInv, RejectedIsCached, ForcedReadJustified
  <1> QED BY <1>1, CacheInvariant, PTL

\* No step replaces the cached credential by an older revision: the lock of
\* SharedConnection spans the broker read.
THEOREM CacheMovesForward == Spec => RevisionNeverGoesBack
  <1>1. ASSUME CacheInv, [Next]_vars PROVE [cache # None => cache'.revision >= cache.revision]_vars
    <2>0. cache # None => cache.revision \in Nat
      BY <1>1, CredentialFields DEF CacheInv, TypeOK
    <2>1. ASSUME cache' = cache PROVE cache # None => cache'.revision >= cache.revision
      BY <2>0, <2>1
    <2>2. ASSUME NEW c \in Calls, IsStepOf(c) PROVE cache # None => cache'.revision >= cache.revision
      <3>1. CacheMoves(c)
        BY <1>1, <2>2, StepIsGood DEF GoodStep
      <3>2. cache' # None => cache'.revision \in Nat
        BY <3>1, CredentialFields DEF CacheMoves
      <3> QED BY <2>0, <2>1, <3>1, <3>2 DEF CacheMoves
    <2>3. CASE BrokerRenews \/ Tick
      BY <2>1, <2>3 DEF BrokerRenews, Tick
    <2> QED BY <1>1, <2>2, <2>3 DEF Next, IsStepOf
  <1> QED BY <1>1, CacheInvariant, PTL DEF Spec, RevisionNeverGoesBack

\* Only a step of a call itself changes what that call is doing.
LEMMA OwnStep ==
    ASSUME CacheInv, Next, NEW c \in Calls
    PROVE  IsStepOf(c) \/ call'[c] = call[c]
  <1>1. ASSUME NEW d \in Calls, d # c, IsStepOf(d) PROVE call'[c] = call[c]
    BY <1>1, StepIsGood DEF GoodStep
  <1>2. CASE BrokerRenews \/ Tick
    BY <1>2 DEF BrokerRenews, Tick
  <1> QED BY <1>1, <1>2 DEF Next, IsStepOf

\* A call the provider refused is served a newer revision than the one it holds or fails,
\* also when resolve_after_rejection has to guess because the table dropped its entry.
THEOREM RefusedCallMovesForward == Spec => RejectionMovesForward
  <1>1. ASSUME CacheInv, Next, NEW c \in Calls, call[c].pc \in {"rejected", "rereading"}, Served(c)'
        PROVE  call'[c].held.revision > call[c].held.revision
    <2>1. call'[c] # call[c]
      BY <1>1 DEF Served
    <2>2. IsStepOf(c)
      BY <1>1, <2>1, OwnStep
    <2>3. EnterRejection(c) \/ RereadSucceeds(c) \/ BrokerAnswers(c) \/ Abort(c)
      BY <1>1, <2>2 DEF IsStepOf, CallStep, resolve, resolve_after_rejection, EnterResolve,
                        ReadSucceeds, ReadUnavailable
    <2>4. ~BrokerAnswers(c)
      BY <1>1, AnswerIsGood DEF Served
    <2>5. ~Abort(c)
      BY <1>1, AbortIsGood
    <2> QED BY <1>1, <2>3, <2>4, <2>5, EnterRejectionIsGood, RereadIsGood
  <1>2. ASSUME CacheInv, [Next]_vars
        PROVE  [\A c \in Calls :
                  /\ call[c].pc \in {"rejected", "rereading"}
                  /\ Served(c)'
                  => call'[c].held.revision > call[c].held.revision]_vars
    BY <1>1, <1>2
  <1> QED BY <1>2, CacheInvariant, PTL DEF Spec, RejectionMovesForward

\* What resolve serves, after any wait for the lock and for the broker, had not expired when
\* the call asked for it, for any lifetime, back-off and duration of a read.
THEOREM ServesAliveWhenAsked == Spec => AliveWhenAsked
  <1>1. ASSUME CacheInv, Next, NEW c \in Calls, call[c].pc \in {"waiting", "reading"}, Served(c)'
        PROVE  call'[c].held.expiresAt = None \/ call'[c].held.expiresAt > call[c].asked
    <2>1. call'[c] # call[c]
      BY <1>1 DEF Served
    <2>2. IsStepOf(c)
      BY <1>1, <2>1, OwnStep
    <2>3. EnterResolve(c) \/ ReadSucceeds(c) \/ ReadUnavailable(c) \/ BrokerAnswers(c) \/ Abort(c)
      BY <1>1, <2>2 DEF IsStepOf, CallStep, resolve, resolve_after_rejection, EnterRejection,
                        RereadSucceeds
    <2>4. ~BrokerAnswers(c)
      BY <1>1, AnswerIsGood DEF Served
    <2>5. ~Abort(c)
      BY <1>1, AbortIsGood
    <2>6. now \in Nat /\ call[c].started \in Nat /\ call[c].asked \in Nat /\ AsksFirst(c)
      BY <1>1, CallFields DEF CallInv
    <2>7. /\ call'[c] = Ended(cache', "served") /\ cache' # None
          /\ \E t \in Nat : call[c].asked <= t /\ ~is_expired(cache', t)
      <3>1. CASE EnterResolve(c)
        <4>1. /\ call'[c] = Ended(cache', "served") /\ cache' # None /\ ~is_expired(cache', now)
          BY <1>1, <3>1, EnterResolveIsGood
        <4>2. call[c].asked <= now
          BY <2>6, <3>1 DEF EnterResolve, AsksFirst
        <4> QED BY <2>6, <4>1, <4>2
      <3>2. CASE ReadSucceeds(c) \/ ReadUnavailable(c)
        <4>1. /\ call'[c] = Ended(cache', "served") /\ cache' # None
              /\ ~is_expired(cache', call[c].started)
          BY <1>1, <3>2, ReadSucceedsIsGood, ReadUnavailableIsGood
        <4>2. call[c].asked <= call[c].started
          BY <2>6, <3>2 DEF ReadSucceeds, ReadUnavailable, AsksFirst
        <4> QED BY <2>6, <4>1, <4>2
      <3> QED BY <2>3, <2>4, <2>5, <3>1, <3>2
    <2>8. cache' \in Credentials
      BY <1>1, <2>2, <2>7, StepIsGood DEF GoodStep, CacheMoves
    <2>9. cache'.expiresAt = None \/ cache'.expiresAt \in Nat
      <3>1. cache'.expiresAt \in 0..(MaxTime + Lifetime) \union {None}
        BY <2>8 DEF Credentials
      <3> QED BY <3>1, SharedAssumption
    <2>10. call'[c].held = cache'
      BY <2>7 DEF Ended
    <2> QED BY <2>6, <2>7, <2>9, <2>10 DEF is_expired
  <1>2. ASSUME CacheInv, [Next]_vars
        PROVE  [\A c \in Calls :
                  /\ call[c].pc \in {"waiting", "reading"}
                  /\ Served(c)'
                  => call'[c].held.expiresAt = None \/ call'[c].held.expiresAt > call[c].asked]_vars
    BY <1>1, <1>2
  <1> QED BY <1>2, CacheInvariant, PTL DEF Spec, AliveWhenAsked

\* The call's entry names the credential it has just been given.
OwnRevision(c) ==
    call'[c] # call[c] /\ Served(c)' =>
        HasEntry(c)' /\ issued'[c].revision = call'[c].held.revision

\* _record_issued never drops the entry it has just added, even when the table was full
\* of recent calls: a call that is refused right away is recognised by its own revision.
THEOREM OwnRevisionIsRecorded ==
    ASSUME Retention > 0
    PROVE  Spec => [][\A c \in Calls : OwnRevision(c)]_vars
  <1>1. ASSUME CacheInv, Next, NEW c \in Calls, call'[c] # call[c], Served(c)'
        PROVE  HasEntry(c)' /\ issued'[c].revision = call'[c].held.revision
    <2>1. IsStepOf(c)
      BY <1>1, OwnStep
    <2>2. EntryAgrees(c)'
      BY <1>1, <2>1, StepIsGood DEF GoodStep, CallInv
    <2>3. ~resolve_after_rejection(c)
      BY <1>1, RejectionIsGood
    <2>4. ~Abort(c)
      BY <1>1, AbortIsGood
    <2>5. ~BrokerAnswers(c)
      BY <1>1, AnswerIsGood DEF Served, BrokerAnswers
    <2>6. issued'[c] # None
      BY <1>1, <2>1, <2>3, <2>4, <2>5, ResolveIsGood, EnterResolveIsGood, ReadSucceedsIsGood,
         ReadUnavailableIsGood, EnterRejectionIsGood, RereadIsGood
      DEF IsStepOf, CallStep
    <2> QED BY <2>2, <2>6 DEF EntryAgrees, HasEntry
  <1>2. ASSUME CacheInv, [Next]_vars PROVE [\A c \in Calls : OwnRevision(c)]_vars
    BY <1>1, <1>2 DEF OwnRevision
  <1> QED BY <1>2, CacheInvariant, PTL DEF Spec
=============================================================================
