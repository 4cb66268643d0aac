---------------------------- MODULE OwnershipProofs ----------------------------
(***************************************************************************)
(* Proofs about who may do what between processes: the schema lock and the *)
(* session leases, the capture lease and the watcher, the commands to the  *)
(* process that owns a session, and the companion panes, for any number of *)
(* processes, sessions, files, releases, requests and panes.               *)
(***************************************************************************)
EXTENDS MCOwnership, TLAPS, WellFoundedInduction

-----------------------------------------------------------------------------
(* The schema lock                                                         *)

SharedStages == {"open_first", "open_again", "ready"}
ExclusiveStages ==
  {"recheck", "backup", "migrate", "adopt_open", "adopt_backup", "adopt_migrate", "adopt_finish"}

\* The locks are held exactly in the stages that need them, and exclude each other.
SchemaLocks ==
  /\ \A p \in SlProcs : /\ p \in slShared <=> slStage[p] \in SharedStages
                        /\ p \in slExclusive <=> slStage[p] \in ExclusiveStages
  /\ slExclusive # {} => slShared = {}
  /\ \A p, q \in slExclusive : p = q

\* What a process that migrates knows of the database stays true until it has migrated.
SchemaKnown ==
  \A p \in SlProcs :
    /\ slStage[p] \in {"backup", "adopt_backup", "migrate", "adopt_migrate"} =>
         slDatabase < SlSupported[p]
    /\ slStage[p] \in {"migrate", "adopt_migrate"} => slDatabase = 0 \/ slDatabase \in slBackups

SchemaInv == L!TypeOK /\ SchemaLocks /\ SchemaKnown /\ L!StoreKeepsSchema

LEMMA SchemaInit == L!Init => SchemaInv
BY SchemaAssumption DEF L!Init, SchemaInv, L!TypeOK, SchemaLocks, SchemaKnown,
   L!StoreKeepsSchema, L!Stages, SharedStages, ExclusiveStages

\* A process that gives up drops its leases.
LEMMA SchemaFail ==
  ASSUME SchemaInv, NEW p \in SlProcs, L!Fail(p), slStarts' = slStarts PROVE SchemaInv'
BY SchemaAssumption DEF SchemaInv, L!Fail, L!Goto, L!Release, L!TypeOK, SchemaLocks, SchemaKnown,
   L!StoreKeepsSchema, L!Stages, SharedStages, ExclusiveStages

LEMMA SchemaShared ==
  ASSUME SchemaInv, NEW p \in SlProcs, NEW next \in {"open_first", "open_again"},
         slStage[p] \in {"first", "again", "follow"},
         L!AcquireShared(p, next), slStarts' = slStarts
  PROVE  SchemaInv'
<1>1. CASE L!Fail(p)
  BY <1>1, SchemaFail
<1>2. CASE ~L!Fail(p)
  BY <1>2, SchemaAssumption DEF SchemaInv, L!AcquireShared, L!SharedFree, L!Goto, L!TypeOK,
     SchemaLocks, SchemaKnown, L!StoreKeepsSchema, L!Stages, SharedStages, ExclusiveStages
<1> QED BY <1>1, <1>2

LEMMA SchemaStep == ASSUME SchemaInv, [Next]_vars PROVE SchemaInv'
<1> USE SchemaAssumption
<1>1. CASE UNCHANGED slVars
  BY <1>1 DEF slVars, SchemaInv, L!TypeOK, SchemaLocks, SchemaKnown, L!StoreKeepsSchema
<1>2. ASSUME NEW p \in SlProcs, L!Start(p) \/ L!Step(p) \/ L!Exit(p) PROVE SchemaInv'
  <2>1. CASE L!Start(p)
    BY <2>1 DEF L!Start, L!Goto, SchemaInv, L!TypeOK, SchemaLocks, SchemaKnown,
       L!StoreKeepsSchema, L!Stages, SharedStages, ExclusiveStages
  <2>2. CASE L!First(p) \/ L!Again(p) \/ L!Follow(p)
    BY <2>2, SchemaShared DEF L!First, L!Again, L!Follow
  <2>3. CASE L!Fail(p) /\ slStarts' = slStarts
    BY <2>3, SchemaFail
  <2> SUFFICES ASSUME ~(L!Fail(p) /\ slStarts' = slStarts) PROVE SchemaInv'
    BY <2>3
  <2> USE DEF SchemaInv, L!TypeOK, SchemaLocks, SchemaKnown, L!StoreKeepsSchema, L!Stages,
          SharedStages, ExclusiveStages, L!Goto, L!Release
  <2>4. CASE L!OpenFirst(p)
    <3>1. L!TypeOK'
      BY <2>4 DEF L!OpenFirst, L!Opens, L!MigrationRequired
    <3>2. SchemaLocks'
      BY <2>4 DEF L!OpenFirst, L!Opens, L!MigrationRequired
    <3>3. SchemaKnown'
      BY <2>4 DEF L!OpenFirst, L!Opens, L!MigrationRequired
    <3>4. L!StoreKeepsSchema'
      BY <2>4 DEF L!OpenFirst, L!Opens, L!MigrationRequired
    <3> QED BY <3>1, <3>2, <3>3, <3>4
  <2>5. CASE L!RequireExclusive(p)
    <3>1. L!TypeOK'
      BY <2>5 DEF L!RequireExclusive, L!AcquireExclusive, L!ExclusiveFree
    <3>2. SchemaLocks'
      BY <2>5 DEF L!RequireExclusive, L!AcquireExclusive, L!ExclusiveFree
    <3>3. SchemaKnown'
      BY <2>5 DEF L!RequireExclusive, L!AcquireExclusive, L!ExclusiveFree
    <3>4. L!StoreKeepsSchema'
      BY <2>5 DEF L!RequireExclusive, L!AcquireExclusive, L!ExclusiveFree
    <3> QED BY <3>1, <3>2, <3>3, <3>4
  <2>6. CASE L!Recheck(p)
    <3>1. L!TypeOK'
      BY <2>6 DEF L!Recheck, L!Opens, L!MigrationRequired
    <3>2. SchemaLocks'
      BY <2>6 DEF L!Recheck, L!Opens, L!MigrationRequired
    <3>3. SchemaKnown'
      BY <2>6 DEF L!Recheck, L!Opens, L!MigrationRequired
    <3>4. L!StoreKeepsSchema'
      BY <2>6 DEF L!Recheck, L!Opens, L!MigrationRequired
    <3> QED BY <3>1, <3>2, <3>3, <3>4
  <2>7. CASE L!Backup(p)
    BY <2>7 DEF L!Backup
  <2>8. CASE L!Migrate(p)
    <3>0. /\ slDatabase' = SlSupported[p] /\ SlSupported[p] \in Nat
          /\ slStage' = [slStage EXCEPT ![p] = "again"]
          /\ slShared' \subseteq slShared /\ slExclusive' \subseteq slExclusive
          /\ slBackups' = slBackups /\ slStarts' = slStarts
      BY <2>8 DEF L!Migrate, L!ApplyMigrations
    <3>1. L!TypeOK'
      BY <3>0
    <3>2. SchemaLocks'
      BY <2>8 DEF L!Migrate, L!ApplyMigrations
    <3>3. SchemaKnown'
      BY <2>8 DEF L!Migrate, L!ApplyMigrations
    <3>4. L!StoreKeepsSchema'
      BY <2>8 DEF L!Migrate, L!ApplyMigrations
    <3> QED BY <3>1, <3>2, <3>3, <3>4
  <2>9. CASE L!OpenAgain(p)
    BY <2>9 DEF L!OpenAgain, L!Opens
  <2>10. CASE L!Adopt(p)
    BY <2>10 DEF L!Adopt, L!AcquireExclusive, L!ExclusiveFree
  <2>11. CASE L!AdoptOpen(p)
    <3>1. L!TypeOK'
      BY <2>11 DEF L!AdoptOpen, L!Opens, L!MigrationRequired
    <3>2. SchemaLocks'
      BY <2>11 DEF L!AdoptOpen, L!Opens, L!MigrationRequired
    <3>3. SchemaKnown'
      BY <2>11 DEF L!AdoptOpen, L!Opens, L!MigrationRequired
    <3>4. L!StoreKeepsSchema'
      BY <2>11 DEF L!AdoptOpen, L!Opens, L!MigrationRequired
    <3> QED BY <3>1, <3>2, <3>3, <3>4
  <2>12. CASE L!AdoptMigrate(p)
    <3>0. /\ slDatabase' = SlSupported[p] /\ SlSupported[p] \in Nat
          /\ slStage' = [slStage EXCEPT ![p] = "adopt_finish"]
          /\ slShared' = slShared /\ slExclusive' = slExclusive
          /\ slBackups' = slBackups /\ slStarts' = slStarts
      BY <2>12 DEF L!AdoptMigrate, L!ApplyMigrations
    <3>1. L!TypeOK'
      BY <3>0
    <3>2. SchemaLocks'
      BY <2>12 DEF L!AdoptMigrate, L!ApplyMigrations
    <3>3. SchemaKnown'
      BY <2>12 DEF L!AdoptMigrate, L!ApplyMigrations
    <3>4. L!StoreKeepsSchema'
      BY <2>12 DEF L!AdoptMigrate, L!ApplyMigrations
    <3> QED BY <3>1, <3>2, <3>3, <3>4
  <2>13. CASE L!AdoptFinish(p)
    <3>1. L!TypeOK'
      BY <2>13 DEF L!AdoptFinish
    <3>2. SchemaLocks'
      BY <2>13 DEF L!AdoptFinish
    <3>3. SchemaKnown'
      BY <2>13 DEF L!AdoptFinish
    <3>4. L!StoreKeepsSchema'
      BY <2>13 DEF L!AdoptFinish
    <3> QED BY <3>1, <3>2, <3>3, <3>4
  <2>14. CASE L!Exit(p)
    BY <2>14 DEF L!Exit
  <2> QED BY <1>2, <2>1, <2>2, <2>4, <2>5, <2>6, <2>7, <2>8, <2>9, <2>10, <2>11, <2>12, <2>13,
             <2>14 DEF L!Step
<1> QED BY <1>1, <1>2 DEF Next, vars, L!Next, SchemaLockNext, SessionLeaseNext, CaptureLaneNext,
           ScreenshotWatcherNext, SessionsNext, CompanionNext, ControlNext

-----------------------------------------------------------------------------
(* Session leases                                                          *)

Written(s) == S!Info(s, FALSE)
Published(s) == S!Info(s, TRUE)
InfoState == [session : SeSessions, control : BOOLEAN]
EntryState == [instance : SeInstances, info : InfoState]
Owning == {"purge", "write", "held", "bound", "published", "dropped", "closing"}

LeaseTypes ==
  /\ seStage \in [SeInstances -> {"idle", "try", "retry", "dead"} \cup Owning]
  /\ seSession \in [SeInstances -> SeSessions \cup {"none"}]
  /\ seLocked \in [SeSessions -> SUBSET SeInstances]
  /\ seProbed \in [SeSessions -> SUBSET SeInstances]
  /\ seMetadata \in [SeInstances -> InfoState \cup {S!NoInfo}]
  /\ seSocket \subseteq SeInstances
  /\ seScan \in [SeInstances -> SUBSET EntryState]
  /\ seDoomed \in [SeInstances -> SUBSET EntryState]
  /\ seScans \in 0 .. SeMaxScans
  /\ seReturned \subseteq SeInstances

\* The lock of a session is held by the instance that is between taking and giving it back.
LocksHeld ==
  \A i \in SeInstances :
    /\ seStage[i] \in Owning => seSession[i] \in SeSessions /\ seLocked[seSession[i]] = {i}
    /\ seStage[i] \in {"try", "retry"} => seSession[i] \in SeSessions

\* What a scan has read of an instance that gave no lease back is what it holds, and so is
\* an entry with an endpoint, which only a served session has: what such an entry names is
\* found unlocked only once the instance is gone.
Begun(i, s) ==
  /\ seStage[i] \in {"held", "bound", "published", "dropped", "closing", "dead"}
  /\ seSession[i] = s
Current(i, info) ==
  seMetadata[i] = info \/ (i \in seReturned /\ seMetadata[i] = S!NoInfo)
ReadKnown(i, info) ==
  /\ info.control \/ i \notin seReturned => Begun(i, info.session)
  /\ info.control => seStage[i] \in {"published", "closing", "dead"}
MetadataKnown ==
  \A i \in SeInteractive :
    /\ seMetadata[i] # S!NoInfo =>
         /\ Begun(i, seMetadata[i].session)
         /\ seStage[i] \in {"held", "bound", "published", "dead"}
         /\ seMetadata[i].control => seStage[i] \in {"published", "dead"}
    /\ seStage[i] \in {"held", "bound"} => Current(i, Written(seSession[i]))
    /\ seStage[i] = "published" => Current(i, Published(seSession[i]))
    /\ seStage[i] \in {"bound", "published"} => i \in seSocket
    /\ \A j \in SeInstances :
         /\ \A e \in seScan[j] : e.instance = i => ReadKnown(i, e.info)
         /\ \A e \in seDoomed[j] :
              e.instance = i /\ (e.info.control \/ i \notin seReturned) => seStage[i] = "dead"

LeaseInv == LeaseTypes /\ LocksHeld /\ MetadataKnown

LEMMA LeaseInit == S!Init => LeaseInv
BY LeaseAssumption DEF S!Init, LeaseInv, LeaseTypes, LocksHeld, MetadataKnown, Begun, Current, ReadKnown,
   Owning, S!NoInfo, S!Info, S!None

\* What the metadata of an instance can be.
LEMMA InfoTypes ==
  /\ S!NoInfo \notin InfoState
  /\ \A s \in SeSessions :
       /\ Written(s) \in InfoState /\ Written(s).session = s /\ ~Written(s).control
       /\ Published(s) \in InfoState /\ Published(s).session = s /\ Published(s).control
BY LeaseAssumption DEF S!NoInfo, S!Info, S!None, InfoState, Written, Published

LEMMA LeaseStep == ASSUME LeaseInv, [Next]_vars PROVE LeaseInv'
<1> USE LeaseAssumption DEF LeaseInv
<1>1. CASE UNCHANGED seVars
  BY <1>1 DEF seVars, LeaseTypes, LocksHeld, MetadataKnown, Begun, Current, ReadKnown
<1>2. ASSUME NEW k \in SeInstances, NEW s \in SeSessions, S!Open(k, s) PROVE LeaseInv'
  <2>1. LeaseTypes'
    BY <1>2 DEF S!Open, S!Goto, S!scanning, LeaseTypes, Owning
  <2>2. LocksHeld'
    BY <1>2 DEF S!Open, S!Goto, S!scanning, LeaseTypes, LocksHeld, Owning
  <2>3. MetadataKnown'
    BY <1>2 DEF S!Open, S!Goto, S!scanning, S!None, LeaseTypes, MetadataKnown, Begun, Current, ReadKnown,
       EntryState,
       InfoState
  <2> QED BY <2>1, <2>2, <2>3
<1>3. ASSUME NEW k \in SeInstances, S!TryLock(k) PROVE LeaseInv'
  <2>1. LeaseTypes'
    BY <1>3, InfoTypes DEF S!TryLock, S!Goto, S!scanning, S!Free, LeaseTypes, LocksHeld, Owning,
       EntryState
  <2>2. LocksHeld'
    <3>1. /\ UNCHANGED seSession
          /\ seSession[k] \in SeSessions
          /\ seStage[k] \in {"try", "retry"}
      BY <1>3 DEF S!TryLock, LocksHeld
    <3>2. CASE S!Free(seSession[k])
      <4>1. /\ seLocked[seSession[k]] = {}
            /\ seLocked' = [seLocked EXCEPT ![seSession[k]] = {k}]
            /\ seStage' = [seStage EXCEPT ![k] = "purge"]
        BY <1>3, <3>2 DEF S!TryLock, S!Goto, S!Free
      <4> QED BY <3>1, <4>1 DEF LeaseTypes, LocksHeld, Owning
    <3>3. CASE ~S!Free(seSession[k])
      <4>1. /\ seLocked' = seLocked
            /\ \A i \in SeInstances \ {k} : seStage'[i] = seStage[i]
            /\ seStage'[k] \in {"retry", "idle"}
        BY <1>3, <3>3 DEF S!TryLock, S!Goto, LeaseTypes
      <4> QED BY <3>1, <4>1 DEF LeaseTypes, LocksHeld, Owning
    <3> QED BY <3>2, <3>3
  <2>3. MetadataKnown'
    <3>1. /\ UNCHANGED <<seSession, seMetadata, seSocket, seScan, seDoomed, seReturned>>
          /\ seStage[k] \in {"try", "retry"}
          /\ \A i \in SeInstances \ {k} : seStage'[i] = seStage[i]
      BY <1>3 DEF S!TryLock, S!Goto, S!scanning, LeaseTypes
    <3>2. seStage'[k] \in {"purge", "retry", "idle"}
      BY <1>3 DEF S!TryLock, S!Goto, LeaseTypes
    <3>3. ASSUME NEW i \in SeInteractive PROVE MetadataKnown!(i)'
      <4>1. CASE i = k
        BY <3>1, <3>2, <4>1 DEF MetadataKnown, Begun, Current, ReadKnown
      <4>2. CASE i # k
        BY <3>1, <4>2 DEF MetadataKnown, Begun, Current, ReadKnown
      <4> QED BY <4>1, <4>2
    <3> QED BY <3>3 DEF MetadataKnown
  <2> QED BY <2>1, <2>2, <2>3
<1>4. ASSUME NEW k \in SeInstances, S!PurgeMetadata(k) PROVE LeaseInv'
  <2>1. LeaseTypes'
    BY <1>4, InfoTypes DEF S!PurgeMetadata, S!Goto, S!scanning, S!RemoveEntries, S!Entries,
       S!Entry, LeaseTypes, LocksHeld, Owning, EntryState
  <2>2. LocksHeld'
    BY <1>4 DEF S!PurgeMetadata, S!Goto, S!scanning, S!RemoveEntries, S!Entries, S!Entry,
       LeaseTypes, LocksHeld, Owning
  <2>3. MetadataKnown'
    <3> DEFINE Gone == {e \in S!Entries : e.info.session = seSession[k]}
    <3>1. seStage[k] = "purge" /\ seStage' = [seStage EXCEPT ![k] = "write"]
      BY <1>4 DEF S!PurgeMetadata, S!Goto
    <3>2. UNCHANGED <<seSession, seLocked, seScan, seDoomed, seReturned>>
      BY <1>4 DEF S!PurgeMetadata, S!scanning
    <3>3. ASSUME NEW e \in Gone, e.instance \in SeInteractive
          PROVE  seStage[e.instance] = "dead"
      <4>1. PICK j \in SeInstances : seMetadata[j] # S!NoInfo /\ e = S!Entry(j)
        BY DEF S!Entries
      <4>2. e.instance = j /\ seMetadata[j].session = seSession[k]
        BY <4>1 DEF S!Entry
      <4>3. seStage[j] \in {"held", "bound", "published", "dead"} /\ seSession[j] = seSession[k]
        BY <3>3, <4>1, <4>2 DEF MetadataKnown, Begun
      <4>4. seStage[j] \in Owning => seLocked[seSession[j]] = {j} /\ seLocked[seSession[k]] = {k}
        BY <3>1 DEF LocksHeld, Owning
      <4> QED BY <3>1, <4>2, <4>3, <4>4 DEF Owning
    <3>4. ASSUME NEW i \in SeInteractive
          PROVE  /\ \/ seMetadata'[i] = seMetadata[i]
                    \/ seMetadata'[i] = S!NoInfo /\ seStage[i] = "dead"
                 /\ i \in seSocket => i \in seSocket' \/ seStage[i] = "dead"
      <4>1. /\ seMetadata'[i] = IF \E e \in Gone : e.instance = i THEN S!NoInfo ELSE seMetadata[i]
            /\ seSocket' = seSocket \ {e.instance : e \in {f \in Gone : f.info.control}}
        BY <1>4 DEF S!PurgeMetadata, S!RemoveEntries
      <4> HIDE DEF Gone
      <4> QED BY <3>3, <4>1
    <3> QED BY <3>1, <3>2, <3>4 DEF LeaseTypes, MetadataKnown, Begun, Current, ReadKnown
  <2> QED BY <2>1, <2>2, <2>3
<1>5. ASSUME NEW k \in SeInstances, S!WriteMetadata(k) PROVE LeaseInv'
  <2>1. LeaseTypes'
    <3>1. Written(seSession[k]) \in InfoState
      BY <1>5, InfoTypes DEF Written, S!WriteMetadata, LocksHeld, Owning
    <3>2. seMetadata' \in [SeInstances -> InfoState \cup {S!NoInfo}]
      BY <1>5, <3>1 DEF Written, S!WriteMetadata, LeaseTypes
    <3>3. seStage' \in [SeInstances -> {"idle", "try", "retry", "dead"} \cup Owning]
      BY <1>5 DEF Written, S!WriteMetadata, S!Goto, LeaseTypes, Owning
    <3>4. seLocked' \in [SeSessions -> SUBSET SeInstances]
      <4>1. seLocked' = seLocked \/ seLocked' = [seLocked EXCEPT ![seSession[k]] = @ \ {k}]
        BY <1>5 DEF S!WriteMetadata, S!Unlock
      <4> QED BY <4>1 DEF LeaseTypes
    <3> QED BY <1>5, <3>2, <3>3, <3>4 DEF Written, S!WriteMetadata, S!scanning, LeaseTypes
  <2>2. LocksHeld'
    <3>1. CASE UNCHANGED seLocked
      BY <1>5, <3>1 DEF Written, S!WriteMetadata, S!Goto, S!scanning, S!Unlock, LeaseTypes, LocksHeld, Owning
    <3>2. CASE S!Unlock(k) /\ S!Goto(k, "idle")
      BY <1>5, <3>2 DEF Written, S!WriteMetadata, S!Goto, S!scanning, S!Unlock, LeaseTypes, LocksHeld, Owning
    <3> QED BY <1>5, <3>1, <3>2 DEF Written, S!WriteMetadata
  <2>3. MetadataKnown'
    <3>1. CASE UNCHANGED seLocked
      <4>1. /\ seSession[k] \in SeSessions
            /\ seMetadata' = [seMetadata EXCEPT ![k] = Written(seSession[k])]
            /\ seStage' = [seStage EXCEPT ![k] = "held"]
            /\ seStage[k] = "write"
            /\ UNCHANGED <<seSession, seSocket, seScan, seDoomed, seReturned>>
        BY <1>5, <3>1 DEF Written, S!WriteMetadata, S!Goto, S!Unlock, S!scanning, LocksHeld, Owning,
       LeaseTypes
      <4>2. Written(seSession[k]).session = seSession[k] /\ ~Written(seSession[k]).control
        BY <4>1, InfoTypes
      <4>3. seMetadata'[k] = Written(seSession[k])
        BY <4>1 DEF LeaseTypes
      <4> QED BY <4>1, <4>2, <4>3 DEF LeaseTypes, MetadataKnown, Begun, Current, ReadKnown
    <3>2. CASE S!Unlock(k) /\ S!Goto(k, "idle") /\ UNCHANGED seMetadata
      <4>1. /\ seStage[k] = "write" /\ seStage' = [seStage EXCEPT ![k] = "idle"]
            /\ UNCHANGED <<seSession, seMetadata, seSocket, seScan, seDoomed, seReturned>>
        BY <1>5, <3>2 DEF S!WriteMetadata, S!Goto, S!scanning
      <4> QED BY <4>1 DEF LeaseTypes, MetadataKnown, Begun, Current, ReadKnown
    <3> QED BY <1>5, <3>1, <3>2 DEF Written, S!WriteMetadata
  <2> QED BY <2>1, <2>2, <2>3
<1>6. ASSUME NEW k \in SeInstances, S!Bind(k) PROVE LeaseInv'
  <2>1. LeaseTypes'
    BY <1>6, InfoTypes DEF S!Bind, S!Goto, S!scanning, LeaseTypes, LocksHeld, Owning, EntryState
  <2>2. LocksHeld'
    BY <1>6 DEF S!Bind, S!Goto, S!scanning, LeaseTypes, LocksHeld, Owning
  <2>3. MetadataKnown'
    BY <1>6, InfoTypes DEF S!Bind, S!Goto, S!scanning, LeaseTypes, LocksHeld, Owning,
       MetadataKnown, Begun, Current, ReadKnown, EntryState
  <2> QED BY <2>1, <2>2, <2>3
<1>7. ASSUME NEW k \in SeInstances, S!PublishControl(k) PROVE LeaseInv'
  <2>1. LeaseTypes'
    <3>1. Published(seSession[k]) \in InfoState
      BY <1>7, InfoTypes DEF Published, S!PublishControl, LocksHeld, Owning
    <3> QED BY <1>7, <3>1 DEF Published, S!PublishControl, S!Goto, S!scanning, LeaseTypes, Owning
  <2>2. LocksHeld'
    BY <1>7 DEF Published, S!PublishControl, S!Goto, S!scanning, LeaseTypes, LocksHeld, Owning
  <2>3. MetadataKnown'
    <3>1. /\ seSession[k] \in SeSessions
          /\ seMetadata' = [seMetadata EXCEPT ![k] = Published(seSession[k])]
          /\ seStage' = [seStage EXCEPT ![k] = "published"]
          /\ seStage[k] = "bound"
          /\ UNCHANGED <<seSession, seSocket, seScan, seDoomed, seReturned>>
      BY <1>7 DEF Published, S!PublishControl, S!Goto, S!scanning, LocksHeld, Owning
    <3>2. Published(seSession[k]).session = seSession[k]
      BY <3>1, InfoTypes
    <3>3. seMetadata'[k] = Published(seSession[k])
      BY <3>1 DEF LeaseTypes
    <3> QED BY <3>1, <3>2, <3>3 DEF LeaseTypes, MetadataKnown, Begun, Current, ReadKnown
  <2> QED BY <2>1, <2>2, <2>3
<1>8. ASSUME NEW k \in SeInstances, S!DropMetadata(k) PROVE LeaseInv'
  <2>1. LeaseTypes'
    BY <1>8, InfoTypes DEF S!DropMetadata, S!Dropping, S!Goto, S!scanning, LeaseTypes, LocksHeld, Owning,
       EntryState
  <2>2. LocksHeld'
    BY <1>8 DEF S!DropMetadata, S!Dropping, S!Goto, S!scanning, LeaseTypes, LocksHeld, Owning
  <2>3. MetadataKnown'
    BY <1>8, InfoTypes DEF S!DropMetadata, S!Dropping, S!Goto, S!scanning, LeaseTypes, LocksHeld, Owning,
       MetadataKnown, Begun, Current, ReadKnown, EntryState
  <2> QED BY <2>1, <2>2, <2>3
<1>9. ASSUME NEW k \in SeInstances, S!DropLock(k) PROVE LeaseInv'
  <2>1. LeaseTypes'
    BY <1>9, InfoTypes DEF S!DropLock, S!Goto, S!scanning, S!Unlock, LeaseTypes, LocksHeld,
       Owning, EntryState
  <2>2. LocksHeld'
    BY <1>9 DEF S!DropLock, S!Goto, S!scanning, S!Unlock, LeaseTypes, LocksHeld, Owning
  <2>3. MetadataKnown'
    BY <1>9, InfoTypes DEF S!DropLock, S!Goto, S!scanning, S!Unlock, LeaseTypes, LocksHeld,
       Owning, MetadataKnown, Begun, Current, ReadKnown, EntryState
  <2> QED BY <2>1, <2>2, <2>3
<1>10. ASSUME NEW k \in SeInstances, S!Crash(k) PROVE LeaseInv'
  <2>1. LeaseTypes'
    BY <1>10, InfoTypes DEF S!Crash, S!Goto, S!scanning, S!Unlock, LeaseTypes, LocksHeld, Owning,
       EntryState
  <2>2. LocksHeld'
    BY <1>10 DEF S!Crash, S!Goto, S!scanning, S!Unlock, LeaseTypes, LocksHeld, Owning
  <2>3. MetadataKnown'
    BY <1>10, InfoTypes DEF S!Crash, S!Goto, S!scanning, S!Unlock, LeaseTypes, LocksHeld, Owning,
       MetadataKnown, Begun, Current, ReadKnown, EntryState
  <2> QED BY <2>1, <2>2, <2>3
<1>11. ASSUME NEW k \in SeInstances, S!ReadMetadata(k) PROVE LeaseInv'
  <2>1. LeaseTypes'
    <3>1. S!Entries \subseteq EntryState
      BY DEF S!Entries, S!Entry, EntryState, LeaseTypes
    <3> QED BY <1>11, <3>1 DEF S!ReadMetadata, S!leases, LeaseTypes
  <2>2. LocksHeld'
    BY <1>11 DEF S!ReadMetadata, S!Goto, S!scanning, S!Entries, S!Entry, S!leases, LeaseTypes,
       LocksHeld, Owning
  <2>3. MetadataKnown'
    BY <1>11, InfoTypes DEF S!ReadMetadata, S!Goto, S!scanning, S!Entries, S!Entry, S!leases,
       LeaseTypes, LocksHeld, Owning, MetadataKnown, Begun, Current, ReadKnown, EntryState
  <2> QED BY <2>1, <2>2, <2>3
<1>12. ASSUME NEW k \in SeInstances, S!Probe(k) PROVE LeaseInv'
  <2>1. LeaseTypes'
    <3>1. PICK e \in seScan[k] :
            /\ seScan' = [seScan EXCEPT ![k] = @ \ {e}]
            /\ \/ /\ seProbed' = [seProbed EXCEPT ![e.info.session] = @ \cup {k}]
                  /\ seDoomed' = [seDoomed EXCEPT ![k] = @ \cup {e}]
               \/ UNCHANGED <<seProbed, seDoomed>>
      BY <1>12 DEF S!Probe
    <3>2. e \in EntryState /\ UNCHANGED <<seStage, seSession, seLocked, seMetadata, seSocket, seReturned, seScans>>
      BY <1>12 DEF S!Probe, S!leases, LeaseTypes
    <3> QED BY <3>1, <3>2 DEF LeaseTypes
  <2>2. LocksHeld'
    BY <1>12 DEF S!Probe, S!Goto, S!scanning, S!leases, LeaseTypes, LocksHeld, Owning
  <2>3. MetadataKnown'
    <3>1. PICK e \in seScan[k] :
            /\ seScan' = [seScan EXCEPT ![k] = @ \ {e}]
            /\ \/ /\ seLocked[e.info.session] = {}
                  /\ seDoomed' = [seDoomed EXCEPT ![k] = @ \cup {e}]
               \/ seDoomed' = seDoomed
      BY <1>12 DEF S!Probe
    <3>2. UNCHANGED <<seStage, seSession, seMetadata, seSocket, seReturned>>
      BY <1>12 DEF S!Probe, S!leases
    <3>3. ASSUME seLocked[e.info.session] = {}, e.instance \in SeInteractive,
                 e.info.control \/ e.instance \notin seReturned
          PROVE  seStage[e.instance] = "dead"
      <4>1. Begun(e.instance, e.info.session)
        BY <3>3 DEF MetadataKnown, ReadKnown
      <4>2. e.info.session \in SeSessions
        BY DEF LeaseTypes, EntryState, InfoState
      <4> QED BY <3>3, <4>1, <4>2, LeaseAssumption DEF Begun, LocksHeld, Owning
    <3>4. \A j \in SeInstances : seScan'[j] \subseteq seScan[j]
      BY <3>1 DEF LeaseTypes
    <3>5. \A j \in SeInstances : \A d \in seDoomed'[j] :
            d.instance \in SeInteractive /\ (d.info.control \/ d.instance \notin seReturned)
              => seStage[d.instance] = "dead"
      BY <3>1, <3>3 DEF LeaseTypes, MetadataKnown
    <3> QED BY <3>2, <3>4, <3>5 DEF MetadataKnown, Begun, Current, ReadKnown
  <2> QED BY <2>1, <2>2, <2>3
<1>13. ASSUME NEW k \in SeInstances, S!Unprobe(k) PROVE LeaseInv'
  <2>1. LeaseTypes'
    BY <1>13, InfoTypes DEF S!Unprobe, S!Goto, S!scanning, S!leases, LeaseTypes, LocksHeld,
       Owning, EntryState
  <2>2. LocksHeld'
    BY <1>13 DEF S!Unprobe, S!Goto, S!scanning, S!leases, LeaseTypes, LocksHeld, Owning
  <2>3. MetadataKnown'
    BY <1>13, InfoTypes DEF S!Unprobe, S!Goto, S!scanning, S!leases, LeaseTypes, LocksHeld,
       Owning, MetadataKnown, Begun, Current, ReadKnown, EntryState
  <2> QED BY <2>1, <2>2, <2>3
<1>14. ASSUME NEW k \in SeInstances, S!RemoveStale(k) PROVE LeaseInv'
  <2>1. LeaseTypes'
    BY <1>14, InfoTypes DEF S!RemoveStale, S!Goto, S!scanning, S!RemoveEntries, LeaseTypes,
       LocksHeld, Owning, EntryState
  <2>2. LocksHeld'
    BY <1>14 DEF S!RemoveStale, S!Goto, S!scanning, S!RemoveEntries, LeaseTypes, LocksHeld, Owning
  <2>3. MetadataKnown'
    BY <1>14, InfoTypes DEF S!RemoveStale, S!Goto, S!scanning, S!RemoveEntries, LeaseTypes,
       LocksHeld, Owning, MetadataKnown, Begun, Current, ReadKnown, EntryState
  <2> QED BY <2>1, <2>2, <2>3
<1> QED BY <1>1, <1>2, <1>3, <1>4, <1>5, <1>6, <1>7, <1>8, <1>9, <1>10, <1>11, <1>12, <1>13, <1>14
       DEF Next, vars, S!Next, SchemaLockNext, SessionLeaseNext, CaptureLaneNext,
           ScreenshotWatcherNext, SessionsNext, CompanionNext, ControlNext

\* Leases of the store and of sessions, for every number of processes and releases: no store
\* is open while another release migrates it, every migration follows a backup, a session has
\* one owner and whoever looks for it finds it.
THEOREM OwnersAreKnown == Spec => []LeasesSafe
<1>1. Init => SchemaInv /\ LeaseInv
  BY SchemaInit, LeaseInit DEF Init
<1>2. SchemaInv /\ LeaseInv => LeasesSafe
  <2> SUFFICES ASSUME SchemaInv, LeaseInv PROVE LeasesSafe
    OBVIOUS
  <2>1. L!SchemaLockSafe
    BY DEF SchemaInv, L!SchemaLockSafe, SchemaKnown, L!MigratesBackedUp
  <2>2. S!TypeOK
    BY InfoTypes DEF LeaseInv, LeaseTypes, S!TypeOK, Owning, S!None, InfoState
  <2>3. S!OwnerDiscoverable
    <3>1. ASSUME NEW i \in SeInteractive, seStage[i] \in {"held", "bound"}
          PROVE  Written(seSession[i]) = S!Info(seSession[i], seStage[i] = "published")
      <4>1. (seStage[i] = "published") = FALSE
        BY <3>1
      <4> QED BY <4>1 DEF Written, S!Info
    <3>2. ASSUME NEW i \in SeInteractive, seStage[i] = "published"
          PROVE  Published(seSession[i]) = S!Info(seSession[i], seStage[i] = "published")
      <4>1. (seStage[i] = "published") = TRUE
        BY <3>2
      <4> QED BY <4>1 DEF Published, S!Info
    <3> QED BY <3>1, <3>2, LeaseAssumption
            DEF LeaseInv, LocksHeld, MetadataKnown, Current, S!OwnerDiscoverable, Owning
  <2> QED BY <2>1, <2>2, <2>3 DEF LeasesSafe, S!SessionLeaseSafe
<1> QED BY <1>1, <1>2, SchemaStep, LeaseStep, PTL DEF Spec

-----------------------------------------------------------------------------
(* The watcher                                                             *)

WatcherTypes ==
  /\ waDisk \in [WaFiles -> 0 .. WaMaxWrites + 1]
  /\ waChanged \in [WaFiles -> Nat]
  /\ waNow \in 0 .. WaMaxTime
  /\ waMode \in {"off", "on", "final"}
  /\ waBaseline \subseteq WaFiles
  /\ DOMAIN waPending \subseteq WaFiles
  /\ DOMAIN waDelivered \subseteq WaFiles

\* No clock runs ahead, and a candidate that still looks as it did when it was last looked at
\* has not changed since then: the contents of one identity never come back.
ClockKnown == \A f \in WaFiles : waChanged[f] <= waNow
PendingKnown ==
  \A f \in DOMAIN waPending :
    /\ waPending[f].seen \in Nat /\ waPending[f].since \in Nat
    /\ waPending[f].seen <= waDisk[f]
    /\ waPending[f].since <= waNow
    /\ waPending[f].seen = waDisk[f] => waChanged[f] <= waPending[f].since

WatcherInv == WatcherTypes /\ ClockKnown /\ PendingKnown /\ W!DeliveredStable

LEMMA WatcherInit == W!Init => WatcherInv
<1> SUFFICES ASSUME W!Init PROVE WatcherInv
  OBVIOUS
<1>1. DOMAIN waPending = {} /\ DOMAIN waDelivered = {}
  BY DEF W!Init
<1> QED BY <1>1, WatcherAssumption DEF W!Init, WatcherInv, WatcherTypes, ClockKnown, PendingKnown,
           W!DeliveredStable

\* What was seen by a scan is at rest since the time it remembers.
LEMMA ObservedKnown ==
  ASSUME WatcherInv
  PROVE  /\ DOMAIN W!Observed \subseteq WaFiles \ waBaseline
         /\ \A f \in DOMAIN W!Observed :
              /\ W!Observed[f].seen = waDisk[f] /\ W!Observed[f].since \in Nat
              /\ waChanged[f] <= W!Observed[f].since /\ W!Observed[f].since <= waNow
<1>1. PICK keep : /\ keep \subseteq WaFiles \ waBaseline
                  /\ W!Observed = [f \in keep |-> W!Observe(f, waPending)]
  BY DEF W!Observed, W!ScanCheap
<1>2. ASSUME NEW f \in keep
      PROVE  /\ W!Observe(f, waPending).seen = waDisk[f] /\ W!Observe(f, waPending).since \in Nat
             /\ waChanged[f] <= W!Observe(f, waPending).since
             /\ W!Observe(f, waPending).since <= waNow
  BY <1>1, WatcherAssumption
     DEF W!Observe, WatcherInv, WatcherTypes, ClockKnown, PendingKnown
<1> QED BY <1>1, <1>2

LEMMA ReconcileKnown ==
  ASSUME WatcherInv, W!Reconcile, UNCHANGED <<waDisk, waChanged, waNow, waBaseline>>,
         waMode' \in {"off", "on", "final"}
  PROVE  WatcherInv'
<1> DEFINE seen == W!Observed
           ready == W!ReadyAt(seen)
<1>1. /\ waPending' = [f \in DOMAIN seen \ ready |-> seen[f]]
      /\ waDelivered' = [f \in DOMAIN waDelivered \cup ready |->
                           IF f \in ready THEN waNow - waChanged[f] ELSE waDelivered[f]]
  BY DEF W!Reconcile, W!Restricted
<1>2. ready \subseteq DOMAIN seen /\ \A f \in ready : waNow - seen[f].since >= WaDebounce
  BY DEF W!ReadyAt
<1>3. /\ DOMAIN seen \subseteq WaFiles \ waBaseline
      /\ \A f \in DOMAIN seen :
           /\ seen[f].seen = waDisk[f] /\ seen[f].since \in Nat
           /\ waChanged[f] <= seen[f].since /\ seen[f].since <= waNow
  BY ObservedKnown
<1> HIDE DEF seen, ready
<1>4. WatcherTypes' /\ ClockKnown'
  BY <1>1, <1>2, <1>3 DEF WatcherInv, WatcherTypes, ClockKnown
<1>5. PendingKnown'
  BY <1>1, <1>3 DEF WatcherInv, WatcherTypes, PendingKnown
<1>6. ASSUME NEW f \in ready PROVE waNow - waChanged[f] >= WaDebounce
  BY <1>2, <1>3, WatcherAssumption DEF WatcherInv, WatcherTypes
<1>7. W!DeliveredStable'
  BY <1>1, <1>2, <1>3, <1>6 DEF WatcherInv, W!DeliveredStable
<1> QED BY <1>4, <1>5, <1>7 DEF WatcherInv

LEMMA WatcherStep == ASSUME WatcherInv, [Next]_vars PROVE WatcherInv'
<1> USE WatcherAssumption
<1>1. CASE UNCHANGED waVars
  BY <1>1 DEF waVars, WatcherInv, WatcherTypes, ClockKnown, PendingKnown, W!DeliveredStable
<1>2. ASSUME NEW f \in WaFiles, NEW good \in BOOLEAN, W!Appear(f, good) PROVE WatcherInv'
  BY <1>2 DEF W!Appear, WatcherInv, WatcherTypes, ClockKnown, PendingKnown, W!DeliveredStable
<1>3. ASSUME NEW f \in WaFiles, NEW good \in BOOLEAN, W!Rewrite(f, good) PROVE WatcherInv'
  BY <1>3 DEF W!Rewrite, WatcherInv, WatcherTypes, ClockKnown, PendingKnown, W!DeliveredStable
<1>4. ASSUME NEW f \in WaFiles, W!Vanish(f) PROVE WatcherInv'
  BY <1>4 DEF W!Vanish, W!Gone, WatcherInv, WatcherTypes, ClockKnown, PendingKnown,
     W!DeliveredStable
<1>5. CASE W!Tick
  BY <1>5 DEF W!Tick, WatcherInv, WatcherTypes, ClockKnown, PendingKnown, W!DeliveredStable
<1>6. CASE W!Start
  <2>1. DOMAIN waPending' = {} /\ DOMAIN waDelivered' = {}
    BY <1>6 DEF W!Start
  <2> QED BY <1>6, <2>1 DEF W!Start, W!world, W!ScanCheap, WatcherInv, WatcherTypes, ClockKnown,
             PendingKnown, W!DeliveredStable
<1>7. CASE W!Poll \/ W!FinalReconcile
  BY <1>7, ReconcileKnown DEF W!Poll, W!FinalReconcile, W!world
<1>8. CASE W!Close
  <2>1. DOMAIN waPending' = {}
    BY <1>8 DEF W!Close
  <2> QED BY <1>8, <2>1 DEF W!Close, W!world, WatcherInv, WatcherTypes, ClockKnown, PendingKnown,
             W!DeliveredStable
<1> QED BY <1>1, <1>2, <1>3, <1>4, <1>5, <1>6, <1>7, <1>8
       DEF Next, vars, W!Next, SchemaLockNext, SessionLeaseNext, CaptureLaneNext,
           ScreenshotWatcherNext, SessionsNext, CompanionNext, ControlNext

-----------------------------------------------------------------------------
(* The capture lease                                                       *)

ResultKinds == {"started", "candidates", "conflict", "stopped", "failed"}
ResultState == [kind : ResultKinds, drain : BOOLEAN, who : CaProcs \cup {"none"}]
RuntimeState ==
  [lease : BOOLEAN, draining : BOOLEAN, stopping : BOOLEAN, delivery : CaProcs \cup {"none"}]

CaptureTypes ==
  /\ K!TypeOK
  /\ caRuntime \in [CaProcs -> RuntimeState]
  /\ caResults \in [CaProcs -> Seq(ResultState)]
  /\ caAsked \in [CaProcs -> CaProcs \cup {"none"}]

CaptureInv == CaptureTypes /\ K!LeasesNeverOverlap

\* Where a queue of results hands a lease over.
Starts(s) == {i \in DOMAIN s : s[i].kind = "started"}

LEMMA StartsAppend ==
  ASSUME NEW s \in Seq(ResultState), NEW r \in ResultState
  PROVE  /\ Append(s, r) \in Seq(ResultState)
         /\ r.kind # "started" => Starts(Append(s, r)) = Starts(s)
         /\ r.kind = "started" => Starts(Append(s, r)) = Starts(s) \cup {Len(s) + 1}
BY DEF Starts

LEMMA StartsTail ==
  ASSUME NEW s \in Seq(ResultState), s # <<>>, \A i, j \in Starts(s) : i = j
  PROVE  /\ Tail(s) \in Seq(ResultState) /\ Head(s) \in ResultState
         /\ \A i, j \in Starts(Tail(s)) : i = j
         /\ Head(s).kind = "started" => Starts(s) # {} /\ Starts(Tail(s)) = {}
         /\ Head(s).kind # "started" => (Starts(Tail(s)) = {} <=> Starts(s) = {})
<1>1. Tail(s) \in Seq(ResultState) /\ Head(s) \in ResultState /\ Head(s) = s[1]
      /\ Len(Tail(s)) = Len(s) - 1 /\ Len(s) \in Nat \ {0}
  OBVIOUS
<1>2. \A i \in 1 .. Len(s) - 1 : Tail(s)[i] = s[i + 1]
  OBVIOUS
<1>3. \A i \in Starts(Tail(s)) : i \in Nat \ {0} /\ i + 1 \in Starts(s)
  BY <1>1, <1>2 DEF Starts
<1>4. \A i \in Starts(s) : i # 1 => i - 1 \in Starts(Tail(s))
  BY <1>1, <1>2 DEF Starts
<1>5. Head(s).kind = "started" <=> 1 \in Starts(s)
  BY <1>1 DEF Starts
<1>6. \A i, j \in Starts(Tail(s)) : i = j
  BY <1>3
<1>7. ASSUME Head(s).kind = "started" PROVE Starts(Tail(s)) = {}
  BY <1>3, <1>5, <1>7
<1>8. ASSUME Head(s).kind # "started" PROVE Starts(Tail(s)) = {} <=> Starts(s) = {}
  BY <1>3, <1>4, <1>5, <1>8
<1> QED BY <1>1, <1>5, <1>6, <1>7, <1>8

LEMMA TailDiffers == ASSUME NEW D, NEW s \in Seq(D), s # <<>> PROVE Tail(s) # s
<1>1. PICK n \in Nat : Len(s) = n /\ Len(Tail(s)) = n - 1
  OBVIOUS
<1>2. n - 1 # n
  OBVIOUS
<1> QED BY <1>1, <1>2, Zenon

\* What one step of process p has to establish.
LEMMA LeaseEffect ==
  ASSUME K!LeasesNeverOverlap, NEW p \in CaProcs,
         \A q \in CaProcs \ {p} :
           /\ caPhase'[q] = caPhase[q]
           /\ caResults'[q] = caResults[q]
           /\ caRuntime'[q] = caRuntime[q]
           /\ q \in caHolder' <=> q \in caHolder,
         \A a, b \in caHolder' : a = b,
         caPhase'[p] # "dead" =>
           /\ \A i, j \in Starts(caResults'[p]) : i = j
           /\ caRuntime'[p].lease => Starts(caResults'[p]) = {}
           /\ p \in caHolder' <=> (caRuntime'[p].lease \/ Starts(caResults'[p]) # {})
  PROVE  K!LeasesNeverOverlap'
BY DEF K!LeasesNeverOverlap, K!StartedResults, Starts, K!Alive

\* Nothing about the lease changes, and nobody comes back from the dead.
LEMMA LeaseQuiet ==
  ASSUME K!LeasesNeverOverlap, caHolder' = caHolder, caResults' = caResults,
         \A p \in CaProcs : /\ caPhase'[p] # "dead" => caPhase[p] # "dead"
                            /\ caRuntime'[p].lease = caRuntime[p].lease
  PROVE  K!LeasesNeverOverlap'
BY DEF K!LeasesNeverOverlap, K!StartedResults, K!Alive

LEMMA CaptureInit == K!Init => CaptureInv
<1> SUFFICES ASSUME K!Init PROVE CaptureInv
  OBVIOUS
<1>1. CaptureTypes
  BY DEF K!Init, CaptureTypes, K!TypeOK, K!NoRuntime, K!None, RuntimeState
<1>2. \A p \in CaProcs : K!StartedResults(p) = {} /\ caRuntime[p].lease = FALSE
  BY DEF K!Init, K!StartedResults, K!NoRuntime
<1>3. caHolder = {}
  BY DEF K!Init
<1> QED BY <1>1, <1>2, <1>3 DEF CaptureInv, K!LeasesNeverOverlap

\* Steps that touch neither the lease nor the results: only the owner's own state is typed anew.
LEMMA CaptureQuiet ==
  ASSUME CaptureInv, NEW p \in CaProcs,
         K!Toggle(p) \/ K!AutoPause(p) \/ K!ChooseTakeover(p) \/ K!CompleteSave(p) \/ K!Wake(p)
  PROVE  CaptureInv'
<1> USE DEF CaptureInv
<1>0. UNCHANGED <<caHolder, caResults, caRuntime>>
  BY DEF K!Toggle, K!AutoPause, K!ChooseTakeover, K!CompleteSave, K!Wake, K!lane
<1>1. /\ caPhase[p] # "dead"
      /\ \/ UNCHANGED caPhase
         \/ caPhase' = [caPhase EXCEPT ![p] = "drain"]
  BY DEF K!Toggle, K!AutoPause, K!ChooseTakeover, K!CompleteSave, K!Wake, K!Set
<1>2. K!LeasesNeverOverlap'
  BY <1>0, <1>1, LeaseQuiet DEF CaptureTypes, K!TypeOK
<1>3. caInbox' \in [CaProcs -> {"off", "starting", "listening", "stopping", "releasing", "paused"}]
  BY DEF K!Toggle, K!AutoPause, K!ChooseTakeover, K!CompleteSave, K!Wake, K!Set, CaptureTypes,
     K!TypeOK
<1>4. caSave' \in [CaProcs -> {K!None, "in_flight", "ready"}]
  BY DEF K!Toggle, K!AutoPause, K!ChooseTakeover, K!CompleteSave, K!Wake, K!Set, CaptureTypes,
     K!TypeOK
<1>5. caDialog' \in [CaProcs -> CaProcs \cup {K!None}]
  BY DEF K!Toggle, K!AutoPause, K!ChooseTakeover, K!CompleteSave, K!Wake, K!Set, CaptureTypes,
     K!TypeOK
<1>6. UNCHANGED <<caWorker, caWatching, caAsked>>
  BY DEF K!Toggle, K!AutoPause, K!ChooseTakeover, K!CompleteSave, K!Wake, K!lane
<1> QED BY <1>0, <1>1, <1>2, <1>3, <1>4, <1>5, <1>6 DEF CaptureTypes, K!TypeOK

LEMMA RuntimeTypes ==
  ASSUME NEW c \in RuntimeState, NEW d \in CaProcs \cup {"none"}
  PROVE  /\ [c EXCEPT !.delivery = d] \in RuntimeState
         /\ [c EXCEPT !.delivery = d].lease = c.lease
         /\ [c EXCEPT !.delivery = d, !.stopping = TRUE] \in RuntimeState
         /\ [c EXCEPT !.delivery = d, !.stopping = TRUE].lease = c.lease
         /\ [c EXCEPT !.draining = TRUE] \in RuntimeState
         /\ [c EXCEPT !.draining = TRUE].lease = c.lease
         /\ [c EXCEPT !.lease = TRUE, !.stopping = FALSE] \in RuntimeState
         /\ [c EXCEPT !.lease = TRUE, !.stopping = FALSE].lease = TRUE
         /\ [c EXCEPT !.draining = FALSE, !.lease = FALSE] \in RuntimeState
         /\ [c EXCEPT !.draining = FALSE, !.lease = FALSE].lease = FALSE
         /\ [c EXCEPT !.lease = FALSE, !.draining = FALSE, !.stopping = FALSE] \in RuntimeState
         /\ [c EXCEPT !.lease = FALSE, !.draining = FALSE, !.stopping = FALSE].lease = FALSE
BY DEF RuntimeState

LEMMA CaptureTakeover ==
  ASSUME CaptureInv, NEW p \in CaProcs, K!QueueTakeover(p) \/ K!CompleteTakeover(p)
  PROVE  CaptureInv'
<1> USE DEF CaptureInv
<1>0. UNCHANGED <<caHolder, caResults, caPhase, caInbox, caSave, caDialog, caWatching>>
  BY DEF K!QueueTakeover, K!CompleteTakeover
<1>1. PICK d \in CaProcs \cup {"none"} :
        \/ caRuntime' = caRuntime
        \/ caRuntime' = [caRuntime EXCEPT ![p] = [caRuntime[p] EXCEPT !.delivery = d]]
        \/ caRuntime' = [caRuntime EXCEPT ![p] = [caRuntime[p] EXCEPT !.delivery = d, !.stopping = TRUE]]
  <2>1. CASE K!QueueTakeover(p)
    <3>1. caAsked[p] \in CaProcs \cup {"none"}
      BY DEF CaptureTypes
    <3>2. caRuntime' = caRuntime \/ caRuntime' = [caRuntime EXCEPT ![p].delivery = caAsked[p]]
      BY <2>1 DEF K!QueueTakeover
    <3>3. [caRuntime EXCEPT ![p].delivery = caAsked[p]]
            = [caRuntime EXCEPT ![p] = [caRuntime[p] EXCEPT !.delivery = caAsked[p]]]
      BY DEF CaptureTypes
    <3> QED BY <3>1, <3>2, <3>3
  <2>2. CASE K!CompleteTakeover(p)
    <3>2. \/ caRuntime' = [caRuntime EXCEPT ![p].delivery = "none"]
          \/ caRuntime' = [caRuntime EXCEPT ![p].delivery = "none", ![p].stopping = TRUE]
      BY <2>2 DEF K!CompleteTakeover, K!None
    <3>3. /\ [caRuntime EXCEPT ![p].delivery = "none"]
               = [caRuntime EXCEPT ![p] = [caRuntime[p] EXCEPT !.delivery = "none"]]
          /\ [caRuntime EXCEPT ![p].delivery = "none", ![p].stopping = TRUE]
               = [caRuntime EXCEPT ![p] = [caRuntime[p] EXCEPT !.delivery = "none", !.stopping = TRUE]]
      BY DEF CaptureTypes
    <3> QED BY <3>2, <3>3
  <2> QED BY <2>1, <2>2
<1>2. /\ caRuntime' \in [CaProcs -> RuntimeState]
      /\ \A q \in CaProcs : caRuntime'[q].lease = caRuntime[q].lease
  <2>1. caRuntime \in [CaProcs -> RuntimeState] /\ caRuntime[p] \in RuntimeState
    BY DEF CaptureTypes
  <2>2. PICK c \in RuntimeState : /\ c.lease = caRuntime[p].lease
                                 /\ caRuntime' = [caRuntime EXCEPT ![p] = c]
    <3>1. caRuntime = [caRuntime EXCEPT ![p] = caRuntime[p]]
      BY <2>1
    <3>2. CASE caRuntime' = caRuntime
      BY <2>1, <3>1, <3>2
    <3>3. CASE caRuntime' = [caRuntime EXCEPT ![p] = [caRuntime[p] EXCEPT !.delivery = d]]
      <4> DEFINE c == [caRuntime[p] EXCEPT !.delivery = d]
      <4>1. c \in RuntimeState /\ c.lease = caRuntime[p].lease /\ caRuntime' = [caRuntime EXCEPT ![p] = c]
        BY <2>1, <3>3, RuntimeTypes
      <4> HIDE DEF c
      <4> QED BY <4>1
    <3>4. CASE caRuntime' =
                 [caRuntime EXCEPT ![p] = [caRuntime[p] EXCEPT !.delivery = d, !.stopping = TRUE]]
      <4> DEFINE c == [caRuntime[p] EXCEPT !.delivery = d, !.stopping = TRUE]
      <4>1. c \in RuntimeState /\ c.lease = caRuntime[p].lease /\ caRuntime' = [caRuntime EXCEPT ![p] = c]
        BY <2>1, <3>4, RuntimeTypes
      <4> HIDE DEF c
      <4> QED BY <4>1
    <3> QED BY <1>1, <3>2, <3>3, <3>4
  <2> QED BY <2>1, <2>2
<1>3. caWorker' \in [CaProcs -> {"idle", "ask", "await", "refused"}]
  <2>1. ASSUME K!QueueTakeover(p)
        PROVE  \/ caWorker' = caWorker
               \/ \E r \in CaProcs : \E v \in {"await", "refused", caWorker[r]} :
                    caWorker' = [caWorker EXCEPT ![r] = v]
    <3>1. caAsked[p] \in CaProcs
      BY <2>1 DEF K!QueueTakeover, CaptureTypes, K!None
    <3> DEFINE r == caAsked[p]
    <3>2. \/ caWorker' = caWorker
          \/ caWorker' = [caWorker EXCEPT ![r] = "await"]
          \/ caWorker' = [caWorker EXCEPT ![r] = IF @ = "ask" THEN "refused" ELSE @]
      BY <2>1 DEF K!QueueTakeover, K!Set
    <3>3. [caWorker EXCEPT ![r] = IF @ = "ask" THEN "refused" ELSE @]
            \in {[caWorker EXCEPT ![r] = "refused"], [caWorker EXCEPT ![r] = caWorker[r]]}
      OBVIOUS
    <3> HIDE DEF r
    <3> QED BY <3>1, <3>2, <3>3 DEF r
  <2>2. K!CompleteTakeover(p) => caWorker' = caWorker
    BY DEF K!CompleteTakeover
  <2> QED BY <2>1, <2>2 DEF CaptureTypes, K!TypeOK
<1>4. caAsked' \in [CaProcs -> CaProcs \cup {"none"}]
  <2>1. caAsked' = caAsked \/ caAsked' = [caAsked EXCEPT ![p] = "none"]
    BY DEF K!QueueTakeover, K!CompleteTakeover, K!Set, K!None
  <2> QED BY <2>1 DEF CaptureTypes
<1>5. K!LeasesNeverOverlap'
  BY <1>0, <1>2, LeaseQuiet
<1> QED BY <1>0, <1>2, <1>3, <1>4, <1>5 DEF CaptureTypes, K!TypeOK

\* Steps of the worker: one more result, and the lease with it when the result hands it over.
LEMMA WorkerEffect ==
  ASSUME CaptureInv, NEW p \in CaProcs, NEW r \in ResultState,
         caPhase[p] # "dead", UNCHANGED <<caPhase, caRuntime>>,
         caResults' = [caResults EXCEPT ![p] = Append(@, r)],
         \/ r.kind # "started" /\ caHolder' = caHolder
         \/ r.kind = "started" /\ caHolder = {} /\ caHolder' = {p}
  PROVE  K!LeasesNeverOverlap' /\ caResults' \in [CaProcs -> Seq(ResultState)]
<1> USE DEF CaptureInv
<1>1. caResults'[p] = Append(caResults[p], r)
      /\ \A q \in CaProcs \ {p} : caResults'[q] = caResults[q]
  BY DEF CaptureTypes
<1>2. caResults[p] \in Seq(ResultState)
  BY DEF CaptureTypes
<1>3. caResults' \in [CaProcs -> Seq(ResultState)]
  BY <1>1, <1>2, StartsAppend DEF CaptureTypes
<1>4. /\ \A i, j \in Starts(caResults[p]) : i = j
      /\ caRuntime[p].lease => Starts(caResults[p]) = {}
      /\ p \in caHolder <=> (caRuntime[p].lease \/ Starts(caResults[p]) # {})
      /\ \A a, b \in caHolder : a = b
  BY DEF K!LeasesNeverOverlap, K!StartedResults, Starts, K!Alive
<1>5. CASE r.kind # "started"
  <2>1. Starts(caResults'[p]) = Starts(caResults[p])
    BY <1>1, <1>2, <1>5, StartsAppend
  <2>2. caHolder' = caHolder
    BY <1>5
  <2>3. /\ \A q \in CaProcs \ {p} : /\ caPhase'[q] = caPhase[q]
                                   /\ caResults'[q] = caResults[q]
                                   /\ caRuntime'[q] = caRuntime[q]
                                   /\ q \in caHolder' <=> q \in caHolder
        /\ \A a, b \in caHolder' : a = b
        /\ \A i, j \in Starts(caResults'[p]) : i = j
        /\ caRuntime'[p].lease => Starts(caResults'[p]) = {}
        /\ p \in caHolder' <=> (caRuntime'[p].lease \/ Starts(caResults'[p]) # {})
    BY <1>1, <1>4, <2>1, <2>2
  <2> QED BY <1>3, <2>3, LeaseEffect
<1>6. CASE r.kind = "started"
  <2>1. Starts(caResults'[p]) = {Len(caResults[p]) + 1} /\ caRuntime[p].lease = FALSE
    BY <1>1, <1>2, <1>4, <1>6, StartsAppend DEF CaptureTypes, RuntimeState
  <2>2. caHolder = {} /\ caHolder' = {p}
    BY <1>6
  <2>3. /\ \A q \in CaProcs \ {p} : /\ caPhase'[q] = caPhase[q]
                                   /\ caResults'[q] = caResults[q]
                                   /\ caRuntime'[q] = caRuntime[q]
                                   /\ q \in caHolder' <=> q \in caHolder
        /\ \A a, b \in caHolder' : a = b
        /\ caRuntime'[p].lease = FALSE
        /\ \A i, j \in Starts(caResults'[p]) : i = j
        /\ Starts(caResults'[p]) # {}
        /\ p \in caHolder'
    BY <1>1, <2>1, <2>2
  <2> QED BY <1>3, <2>3, LeaseEffect
<1> QED BY <1>5, <1>6

\* The results a worker publishes, except the conflict, are plain values.
ResStarted == K!Result("started", FALSE, K!None)
ResFailed == K!Result("failed", FALSE, K!None)
ResDrained == K!Result("failed", TRUE, K!None)
ResStopped == K!Result("stopped", FALSE, K!None)
ResCandidates == K!Result("candidates", FALSE, K!None)
ResConflict(who) == K!Result("conflict", FALSE, who)

LEMMA ResultTypes ==
  /\ ResStarted \in ResultState /\ ResStarted.kind = "started"
  /\ ResFailed \in ResultState /\ ResFailed.kind = "failed"
  /\ ResDrained \in ResultState /\ ResDrained.kind = "failed"
  /\ ResStopped \in ResultState /\ ResStopped.kind = "stopped"
  /\ ResCandidates \in ResultState /\ ResCandidates.kind = "candidates"
  /\ \A who \in CaProcs \cup {"none"} :
       ResConflict(who) \in ResultState /\ ResConflict(who).kind = "conflict"
BY DEF ResStarted, ResFailed, ResDrained, ResStopped, ResCandidates, ResConflict, K!Result,
   ResultState, ResultKinds, K!None

\* A worker that finds the lease free takes it, or fails and says so.
LEMMA CaptureStarts ==
  ASSUME CaptureInv, NEW p \in CaProcs, caPhase[p] # "dead", K!Acquire(p), K!StartOwned(p),
         UNCHANGED K!owner
  PROVE  /\ K!LeasesNeverOverlap' /\ caResults' \in [CaProcs -> Seq(ResultState)]
         /\ caWatching' \in [CaProcs -> BOOLEAN] /\ caHolder' \subseteq CaProcs
<1>1. caHolder = {} /\ UNCHANGED <<caPhase, caRuntime>>
  BY DEF K!Acquire, K!owner
<1>2. \/ caHolder' = caHolder \cup {p} /\ caResults' = [caResults EXCEPT ![p] = Append(@, ResStarted)]
      \/ caHolder' = caHolder /\ caResults' = [caResults EXCEPT ![p] = Append(@, ResFailed)]
  BY DEF K!StartOwned, K!Publish, ResStarted, ResFailed
<1>3. caWatching' \in [CaProcs -> BOOLEAN]
  BY DEF K!StartOwned, K!Set, CaptureInv, CaptureTypes, K!TypeOK
<1>4. caHolder' \subseteq CaProcs
  BY <1>1, <1>2
<1> QED BY <1>1, <1>2, <1>3, <1>4, ResultTypes, WorkerEffect

\* What a worker's step leaves to be typed.
LEMMA WorkerTypes ==
  ASSUME CaptureInv, UNCHANGED K!owner,
         K!LeasesNeverOverlap', caResults' \in [CaProcs -> Seq(ResultState)],
         caWatching' \in [CaProcs -> BOOLEAN], caHolder' \subseteq CaProcs,
         caWorker' \in [CaProcs -> {"idle", "ask", "await", "refused"}],
         caAsked' \in [CaProcs -> CaProcs \cup {"none"}]
  PROVE  CaptureInv'
BY DEF CaptureInv, CaptureTypes, K!TypeOK, K!owner

LEMMA CaptureWorker ==
  ASSUME CaptureInv, NEW p \in CaProcs,
         \/ K!Enable(p) \/ K!Disable(p) \/ K!TakeOver(p) \/ K!TakeOverFails(p)
         \/ K!TakeOverAcquires(p) \/ K!Poll(p)
  PROVE  CaptureInv'
<1>0. caPhase[p] # "dead" /\ UNCHANGED K!owner
  BY DEF K!Enable, K!Disable, K!TakeOver, K!TakeOverFails, K!TakeOverAcquires, K!Poll, K!Next0,
     K!Alive
<1>1. UNCHANGED <<caPhase, caRuntime>>
  BY <1>0 DEF K!owner
<1>2. caWatching' \in [CaProcs -> BOOLEAN]
  <2>1. \/ caWatching' = caWatching
        \/ caWatching' = [caWatching EXCEPT ![p] = TRUE]
        \/ caWatching' = [caWatching EXCEPT ![p] = FALSE]
    <3>1. CASE K!Enable(p)
      BY <3>1 DEF K!Enable, K!StartOwned, K!Set
    <3>2. CASE K!Disable(p) \/ K!TakeOver(p) \/ K!TakeOverFails(p) \/ K!Poll(p)
      BY <3>2 DEF K!Disable, K!TakeOver, K!TakeOverFails, K!Poll, K!Set
    <3>3. CASE K!TakeOverAcquires(p)
      BY <3>3 DEF K!TakeOverAcquires, K!StartOwned, K!Set
    <3> QED BY <3>1, <3>2, <3>3
  <2> QED BY <2>1 DEF CaptureInv, CaptureTypes, K!TypeOK
<1>3. caWorker' \in [CaProcs -> {"idle", "ask", "await", "refused"}]
  <2>1. \/ caWorker' = caWorker
        \/ caWorker' = [caWorker EXCEPT ![p] = "ask"]
        \/ caWorker' = [caWorker EXCEPT ![p] = "idle"]
    BY DEF K!Enable, K!Disable, K!TakeOver, K!TakeOverFails, K!TakeOverAcquires, K!Poll, K!Set
  <2> QED BY <2>1 DEF CaptureInv, CaptureTypes, K!TypeOK
<1>4. caAsked' \in [CaProcs -> CaProcs \cup {"none"}]
  <2>1. caAsked' = caAsked \/ \E who : caAsked' = [caAsked EXCEPT ![who] = p]
    BY DEF K!Enable, K!Disable, K!TakeOver, K!TakeOverFails, K!TakeOverAcquires, K!Poll, K!Set
  <2> QED BY <2>1 DEF CaptureInv, CaptureTypes
<1> DEFINE Goal == /\ K!LeasesNeverOverlap' /\ caResults' \in [CaProcs -> Seq(ResultState)]
                   /\ caHolder' \subseteq CaProcs
<1>5. ASSUME UNCHANGED <<caResults, caHolder>> PROVE Goal
  BY <1>1, <1>5, LeaseQuiet DEF CaptureInv, CaptureTypes, K!TypeOK
<1>6. ASSUME NEW r \in ResultState, r.kind # "started", UNCHANGED caHolder, K!Publish(p, r)
      PROVE  Goal
  BY <1>0, <1>1, <1>6, WorkerEffect DEF K!Publish, CaptureInv, CaptureTypes, K!TypeOK
<1>7. ASSUME K!Acquire(p), K!StartOwned(p) PROVE Goal
  BY <1>0, <1>7, CaptureStarts
<1>8. Goal
  <2>1. CASE K!Enable(p)
    <3>1. ASSUME NEW who \in caHolder \cup {K!None}, K!Publish(p, K!Result("conflict", FALSE, who)),
                 UNCHANGED caHolder
          PROVE  Goal
      <4>1. who \in CaProcs \cup {"none"} /\ K!Publish(p, ResConflict(who))
        BY <3>1 DEF CaptureInv, CaptureTypes, K!TypeOK, K!None, ResConflict
      <4> QED BY <1>6, <3>1, <4>1, ResultTypes
    <3>2. \/ UNCHANGED <<caResults, caHolder>>
          \/ K!Acquire(p) /\ K!StartOwned(p)
          \/ /\ \E who \in caHolder \cup {K!None} : K!Publish(p, K!Result("conflict", FALSE, who))
             /\ UNCHANGED caHolder
      BY <2>1, Zenon DEF K!Enable
    <3> HIDE DEF Goal
    <3> QED BY <1>5, <1>7, <3>1, <3>2, Zenon
  <2>2. CASE K!Disable(p)
    <3>1. /\ K!Publish(p, ResStopped) \/ K!Publish(p, ResDrained)
          /\ UNCHANGED caHolder
      BY <2>2, Zenon DEF K!Disable, ResStopped, ResDrained
    <3> QED BY <1>6, <3>1, ResultTypes
  <2>3. CASE K!TakeOver(p) \/ K!TakeOverFails(p) \/ K!Poll(p)
    <3>1. /\ UNCHANGED caResults \/ K!Publish(p, ResFailed) \/ K!Publish(p, ResCandidates)
          /\ UNCHANGED caHolder
      BY <2>3 DEF K!TakeOver, K!TakeOverFails, K!Poll, ResFailed, ResCandidates
    <3> QED BY <1>5, <1>6, <3>1, ResultTypes
  <2>4. CASE K!TakeOverAcquires(p)
    BY <1>7, <2>4 DEF K!TakeOverAcquires
  <2> QED BY <2>1, <2>2, <2>3, <2>4
<1> QED BY <1>0, <1>2, <1>3, <1>4, <1>8, WorkerTypes

\* A process dies: it gives its lock back and is never looked at again.
LEMMA CaptureCrash == ASSUME CaptureInv, NEW p \in CaProcs, K!Crash(p) PROVE CaptureInv'
<1> USE DEF CaptureInv
<1>1. /\ caPhase' = [caPhase EXCEPT ![p] = "dead"]
      /\ caHolder' = caHolder \ {p}
      /\ caWatching' = [caWatching EXCEPT ![p] = FALSE]
      /\ UNCHANGED <<caResults, caRuntime, caInbox, caSave, caDialog, caWorker, caAsked>>
  BY DEF K!Crash, K!Set
<1>2. CaptureTypes'
  BY <1>1 DEF CaptureTypes, K!TypeOK
<1>3. caPhase'[p] = "dead" /\ \A q \in CaProcs \ {p} : caPhase'[q] = caPhase[q]
  BY <1>1 DEF CaptureTypes, K!TypeOK
<1>4. \A a, b \in caHolder' : a = b
  BY <1>1 DEF K!LeasesNeverOverlap
<1> QED BY <1>1, <1>2, <1>3, <1>4, LeaseEffect

\* The owner applies results and gives its lease back.
LEMMA OwnerEffect ==
  ASSUME CaptureInv, NEW p \in CaProcs, NEW c \in RuntimeState,
         caPhase[p] # "dead", caPhase' \in [CaProcs -> {"input", "drain", "dead"}],
         \A q \in CaProcs \ {p} : caPhase'[q] = caPhase[q],
         caRuntime' = [caRuntime EXCEPT ![p] = c],
         \/ /\ caResults' = caResults
            /\ c.lease = caRuntime[p].lease /\ caHolder' = caHolder
         \/ /\ caResults' = caResults
            /\ c.lease = FALSE /\ caHolder' = IF caRuntime[p].lease THEN caHolder \ {p} ELSE caHolder
         \/ /\ caResults[p] # <<>> /\ caResults' = [caResults EXCEPT ![p] = Tail(caResults[p])]
            /\ Head(caResults[p]).kind # "started"
            /\ c.lease = caRuntime[p].lease /\ caHolder' = caHolder
         \/ /\ caResults[p] # <<>> /\ caResults' = [caResults EXCEPT ![p] = Tail(caResults[p])]
            /\ Head(caResults[p]).kind # "started"
            /\ c.lease = FALSE /\ caHolder' = IF caRuntime[p].lease THEN caHolder \ {p} ELSE caHolder
         \/ /\ caResults[p] # <<>> /\ caResults' = [caResults EXCEPT ![p] = Tail(caResults[p])]
            /\ Head(caResults[p]).kind = "started"
            /\ c.lease = TRUE /\ caHolder' = caHolder
  PROVE  /\ K!LeasesNeverOverlap' /\ caResults' \in [CaProcs -> Seq(ResultState)]
         /\ caRuntime' \in [CaProcs -> RuntimeState] /\ caHolder' \subseteq CaProcs
<1> USE DEF CaptureInv
<1>1. /\ caResults[p] \in Seq(ResultState) /\ caRuntime[p] \in RuntimeState
      /\ caRuntime'[p] = c /\ \A q \in CaProcs \ {p} : caRuntime'[q] = caRuntime[q]
      /\ caRuntime' \in [CaProcs -> RuntimeState]
  BY DEF CaptureTypes
<1>2. /\ \A i, j \in Starts(caResults[p]) : i = j
      /\ caRuntime[p].lease => Starts(caResults[p]) = {}
      /\ p \in caHolder <=> (caRuntime[p].lease \/ Starts(caResults[p]) # {})
      /\ \A a, b \in caHolder : a = b
  BY DEF K!LeasesNeverOverlap, K!StartedResults, Starts, K!Alive
<1>3. caHolder' \subseteq caHolder /\ \A q \in CaProcs \ {p} : q \in caHolder' <=> q \in caHolder
  OBVIOUS
<1>4. /\ caResults' \in [CaProcs -> Seq(ResultState)]
      /\ \A q \in CaProcs \ {p} : caResults'[q] = caResults[q]
  <2>1. CASE caResults' = caResults
    BY <2>1 DEF CaptureTypes
  <2>2. CASE caResults[p] # <<>> /\ caResults' = [caResults EXCEPT ![p] = Tail(caResults[p])]
    <3>1. Tail(caResults[p]) \in Seq(ResultState)
      BY <1>1, <2>2
    <3> QED BY <2>2, <3>1 DEF CaptureTypes
  <2> QED BY <2>1, <2>2
<1>5. /\ \A i, j \in Starts(caResults'[p]) : i = j
      /\ c.lease => Starts(caResults'[p]) = {}
      /\ p \in caHolder' <=> (c.lease \/ Starts(caResults'[p]) # {})
  <2>1. CASE caResults' = caResults
    <3>1. \/ c.lease = caRuntime[p].lease /\ caHolder' = caHolder
          \/ c.lease = FALSE /\ caHolder' = IF caRuntime[p].lease THEN caHolder \ {p} ELSE caHolder
          \/ caResults[p] # <<>> /\ caResults = [caResults EXCEPT ![p] = Tail(caResults[p])]
      BY <2>1
    <3>2. ~(caResults[p] # <<>> /\ caResults = [caResults EXCEPT ![p] = Tail(caResults[p])])
      <4> SUFFICES ASSUME caResults[p] # <<>>,
                          caResults = [caResults EXCEPT ![p] = Tail(caResults[p])]
                   PROVE  FALSE
        OBVIOUS
      <4>1. caResults[p] = Tail(caResults[p])
        BY DEF CaptureTypes
      <4> QED BY <1>1, <4>1, TailDiffers
    <3>3. \/ (c.lease <=> caRuntime[p].lease) /\ caHolder' = caHolder
          \/ ~c.lease /\ caRuntime[p].lease /\ caHolder' = caHolder \ {p}
          \/ ~c.lease /\ ~caRuntime[p].lease /\ caHolder' = caHolder
      BY <3>1, <3>2
    <3> QED BY <1>2, <2>1, <3>3
  <2>2. CASE caResults[p] # <<>> /\ caResults' = [caResults EXCEPT ![p] = Tail(caResults[p])]
    <3>1. caResults'[p] = Tail(caResults[p]) /\ caResults' # caResults
      <4>1. caResults'[p] = Tail(caResults[p])
        BY <2>2 DEF CaptureTypes
      <4> QED BY <1>1, <2>2, <4>1, TailDiffers
    <3>2. /\ \A i, j \in Starts(caResults'[p]) : i = j
          /\ Head(caResults[p]).kind = "started" =>
               Starts(caResults[p]) # {} /\ Starts(caResults'[p]) = {}
          /\ Head(caResults[p]).kind # "started" =>
               (Starts(caResults'[p]) = {} <=> Starts(caResults[p]) = {})
      <4>1. \A i, j \in Starts(caResults[p]) : i = j
        BY <1>2
      <4>2. caResults[p] \in Seq(ResultState) /\ caResults[p] # <<>>
        BY <1>1, <2>2
      <4> QED BY <3>1, <4>1, <4>2, StartsTail
    <3>3. \/ /\ Head(caResults[p]).kind # "started"
             /\ \/ c.lease = caRuntime[p].lease /\ caHolder' = caHolder
                \/ /\ c.lease = FALSE
                   /\ caHolder' = IF caRuntime[p].lease THEN caHolder \ {p} ELSE caHolder
          \/ Head(caResults[p]).kind = "started" /\ c.lease = TRUE /\ caHolder' = caHolder
      BY <2>2, <3>1
    <3>4. \/ /\ Head(caResults[p]).kind # "started"
             /\ \/ (c.lease <=> caRuntime[p].lease) /\ caHolder' = caHolder
                \/ ~c.lease /\ caRuntime[p].lease /\ caHolder' = caHolder \ {p}
                \/ ~c.lease /\ ~caRuntime[p].lease /\ caHolder' = caHolder
          \/ Head(caResults[p]).kind = "started" /\ c.lease /\ caHolder' = caHolder
      BY <3>3
    <3> QED BY <1>2, <3>2, <3>4
  <2> QED BY <2>1, <2>2
<1>8. caHolder' \subseteq CaProcs
  BY <1>3 DEF CaptureTypes, K!TypeOK
<1>9. K!LeasesNeverOverlap'
  BY <1>1, <1>2, <1>3, <1>4, <1>5, LeaseEffect
<1> QED BY <1>1, <1>4, <1>8, <1>9

\* What the owner's steps leave to be typed.
LEMMA OwnerTypes ==
  ASSUME CaptureInv, UNCHANGED <<caWorker, caWatching, caAsked>>,
         caPhase' \in [CaProcs -> {"input", "drain", "dead"}],
         caInbox' \in [CaProcs -> {"off", "starting", "listening", "stopping", "releasing", "paused"}],
         caSave' \in [CaProcs -> {K!None, "in_flight", "ready"}],
         caDialog' \in [CaProcs -> CaProcs \cup {K!None}],
         K!LeasesNeverOverlap', caResults' \in [CaProcs -> Seq(ResultState)],
         caRuntime' \in [CaProcs -> RuntimeState], caHolder' \subseteq CaProcs
  PROVE  CaptureInv'
BY DEF CaptureInv, CaptureTypes, K!TypeOK

\* The forms in which the owner's runtime changes.
LEMMA RuntimeForms ==
  ASSUME CaptureInv, NEW p \in CaProcs
  PROVE  /\ caRuntime = [caRuntime EXCEPT ![p] = caRuntime[p]]
         /\ [caRuntime EXCEPT ![p].lease = TRUE, ![p].stopping = FALSE]
              = [caRuntime EXCEPT ![p] = [caRuntime[p] EXCEPT !.lease = TRUE, !.stopping = FALSE]]
         /\ [caRuntime EXCEPT ![p].draining = TRUE]
              = [caRuntime EXCEPT ![p] = [caRuntime[p] EXCEPT !.draining = TRUE]]
         /\ [caRuntime EXCEPT ![p].draining = FALSE, ![p].lease = FALSE]
              = [caRuntime EXCEPT ![p] = [caRuntime[p] EXCEPT !.draining = FALSE, !.lease = FALSE]]
         /\ [caRuntime EXCEPT ![p].lease = FALSE, ![p].draining = FALSE, ![p].stopping = FALSE]
              = [caRuntime EXCEPT ![p] =
                   [caRuntime[p] EXCEPT !.lease = FALSE, !.draining = FALSE, !.stopping = FALSE]]
<1>1. caRuntime \in [CaProcs -> RuntimeState]
  BY DEF CaptureInv, CaptureTypes
<1>2. caRuntime = [caRuntime EXCEPT ![p] = caRuntime[p]]
  BY <1>1
<1>3. [caRuntime EXCEPT ![p].lease = TRUE, ![p].stopping = FALSE]
        = [caRuntime EXCEPT ![p] = [caRuntime[p] EXCEPT !.lease = TRUE, !.stopping = FALSE]]
  BY <1>1
<1>4. [caRuntime EXCEPT ![p].draining = TRUE]
        = [caRuntime EXCEPT ![p] = [caRuntime[p] EXCEPT !.draining = TRUE]]
  BY <1>1
<1>5. [caRuntime EXCEPT ![p].draining = FALSE, ![p].lease = FALSE]
        = [caRuntime EXCEPT ![p] = [caRuntime[p] EXCEPT !.draining = FALSE, !.lease = FALSE]]
  BY <1>1
<1>6. [caRuntime EXCEPT ![p].lease = FALSE, ![p].draining = FALSE, ![p].stopping = FALSE]
        = [caRuntime EXCEPT ![p] =
             [caRuntime[p] EXCEPT !.lease = FALSE, !.draining = FALSE, !.stopping = FALSE]]
  BY <1>1
<1> QED BY <1>2, <1>3, <1>4, <1>5, <1>6

LEMMA CaptureSettle == ASSUME CaptureInv, NEW p \in CaProcs, K!Settle(p) PROVE CaptureInv'
<1>1. /\ caPhase[p] # "dead" /\ caPhase' = [caPhase EXCEPT ![p] = "input"]
      /\ UNCHANGED <<caSave, caWorker, caWatching, caResults, caAsked>>
  BY DEF K!Settle, K!Set
<1>2. /\ caPhase' \in [CaProcs -> {"input", "drain", "dead"}]
      /\ \A q \in CaProcs \ {p} : caPhase'[q] = caPhase[q]
  BY <1>1 DEF CaptureInv, CaptureTypes, K!TypeOK
<1>3. caInbox' \in [CaProcs -> {"off", "starting", "listening", "stopping", "releasing", "paused"}]
  <2>1. \/ caInbox' = caInbox
        \/ caInbox' = [caInbox EXCEPT ![p] = IF caPause[p] THEN "paused" ELSE "off"]
    BY DEF K!Settle, K!ReleaseLease, K!Set
  <2> QED BY <2>1 DEF CaptureInv, CaptureTypes, K!TypeOK
<1>4. caDialog' \in [CaProcs -> CaProcs \cup {K!None}]
  <2>1. caDialog' = caDialog \/ caDialog' = [caDialog EXCEPT ![p] = K!None]
    BY DEF K!Settle, K!ReleaseLease, K!Set
  <2> QED BY <2>1 DEF CaptureInv, CaptureTypes, K!TypeOK
<1>5. caSave' \in [CaProcs -> {K!None, "in_flight", "ready"}]
  BY <1>1 DEF CaptureInv, CaptureTypes, K!TypeOK
<1>6. PICK c \in RuntimeState :
        /\ caRuntime' = [caRuntime EXCEPT ![p] = c]
        /\ \/ c.lease = caRuntime[p].lease /\ caHolder' = caHolder
           \/ c.lease = FALSE /\ caHolder' = IF caRuntime[p].lease THEN caHolder \ {p} ELSE caHolder
  <2>0. caRuntime[p] \in RuntimeState
    BY DEF CaptureInv, CaptureTypes
  <2>1. CASE UNCHANGED <<caHolder, caRuntime>>
    BY <2>0, <2>1, RuntimeForms
  <2>2. CASE K!ReleaseLease(p)
    <3> DEFINE c == [caRuntime[p] EXCEPT !.lease = FALSE, !.draining = FALSE, !.stopping = FALSE]
    <3>1. c \in RuntimeState /\ c.lease = FALSE
      BY <2>0, RuntimeTypes
    <3>2. caRuntime' = [caRuntime EXCEPT ![p] = c]
      BY <2>2, RuntimeForms DEF K!ReleaseLease
    <3>3. caHolder' = IF caRuntime[p].lease THEN caHolder \ {p} ELSE caHolder
      BY <2>2 DEF K!ReleaseLease
    <3> HIDE DEF c
    <3> QED BY <3>1, <3>2, <3>3
  <2> QED BY <2>1, <2>2 DEF K!Settle
<1>7. /\ K!LeasesNeverOverlap' /\ caResults' \in [CaProcs -> Seq(ResultState)]
      /\ caRuntime' \in [CaProcs -> RuntimeState] /\ caHolder' \subseteq CaProcs
  BY <1>1, <1>2, <1>6, OwnerEffect
<1> QED BY <1>1, <1>2, <1>3, <1>4, <1>5, <1>7, OwnerTypes

LEMMA CaptureApply == ASSUME CaptureInv, NEW p \in CaProcs, K!ApplyResult(p) PROVE CaptureInv'
<1> DEFINE r == Head(caResults[p])
<1>1. /\ caPhase[p] # "dead" /\ caResults[p] # <<>>
      /\ caResults' = [caResults EXCEPT ![p] = Tail(caResults[p])]
      /\ UNCHANGED <<caPhase, caWorker, caWatching, caAsked>>
  BY DEF K!ApplyResult, K!Set
<1>2. /\ caPhase' \in [CaProcs -> {"input", "drain", "dead"}]
      /\ \A q \in CaProcs \ {p} : caPhase'[q] = caPhase[q]
  BY <1>1 DEF CaptureInv, CaptureTypes, K!TypeOK
<1>3. \/ r.kind = "started" /\ K!Started(p) /\ UNCHANGED caHolder
      \/ r.kind = "candidates" /\ K!Candidates(p) /\ UNCHANGED caHolder
      \/ r.kind = "conflict" /\ K!Conflict(p, r.who) /\ UNCHANGED caHolder
      \/ r.kind = "stopped" /\ K!Stopped(p) /\ UNCHANGED caHolder
      \/ r.kind = "failed" /\ K!FailedResult(p, r.drain)
  BY DEF K!ApplyResult
<1>4. r \in ResultState /\ r.who \in CaProcs \cup {"none"}
  <2>1. caResults[p] \in Seq(ResultState)
    BY DEF CaptureInv, CaptureTypes
  <2>2. r \in ResultState
    BY <1>1, <2>1
  <2> QED BY <2>2 DEF ResultState
<1> HIDE DEF r
<1>5. caInbox' \in [CaProcs -> {"off", "starting", "listening", "stopping", "releasing", "paused"}]
  <2>1. \/ caInbox' = caInbox
        \/ \E v \in {"listening", "off", "paused", "releasing"} : caInbox' = [caInbox EXCEPT ![p] = v]
    BY <1>3 DEF K!Started, K!Candidates, K!Conflict, K!Failed, K!Stopped, K!FailedResult, K!Set
  <2> QED BY <2>1 DEF CaptureInv, CaptureTypes, K!TypeOK
<1>6. caSave' \in [CaProcs -> {K!None, "in_flight", "ready"}]
  <2>1. caSave' = caSave \/ caSave' = [caSave EXCEPT ![p] = "in_flight"]
    BY <1>3 DEF K!Started, K!Candidates, K!Conflict, K!Failed, K!Stopped, K!FailedResult, K!Set
  <2> QED BY <2>1 DEF CaptureInv, CaptureTypes, K!TypeOK
<1>7. caDialog' \in [CaProcs -> CaProcs \cup {K!None}]
  <2>1. \/ caDialog' = caDialog
        \/ \E v \in {K!None, r.who} : caDialog' = [caDialog EXCEPT ![p] = v]
    BY <1>3 DEF K!Started, K!Candidates, K!Conflict, K!Failed, K!Stopped, K!FailedResult, K!Set
  <2> QED BY <1>4, <2>1 DEF CaptureInv, CaptureTypes, K!TypeOK, K!None
<1>8. PICK c \in RuntimeState :
        /\ caRuntime' = [caRuntime EXCEPT ![p] = c]
        /\ \/ r.kind # "started" /\ c.lease = caRuntime[p].lease /\ caHolder' = caHolder
           \/ /\ r.kind # "started" /\ c.lease = FALSE
              /\ caHolder' = IF caRuntime[p].lease THEN caHolder \ {p} ELSE caHolder
           \/ r.kind = "started" /\ c.lease = TRUE /\ caHolder' = caHolder
  <2>0. caRuntime[p] \in RuntimeState
    BY DEF CaptureInv, CaptureTypes
  <2>1. CASE r.kind # "started" /\ UNCHANGED <<caHolder, caRuntime>>
    BY <2>0, <2>1, RuntimeForms
  <2>2. CASE /\ r.kind # "started" /\ UNCHANGED caHolder
             /\ caRuntime' = [caRuntime EXCEPT ![p].draining = TRUE]
    <3> DEFINE c == [caRuntime[p] EXCEPT !.draining = TRUE]
    <3>1. c \in RuntimeState /\ c.lease = caRuntime[p].lease
      BY <2>0, RuntimeTypes
    <3>2. caRuntime' = [caRuntime EXCEPT ![p] = c]
      BY <2>2, RuntimeForms
    <3> HIDE DEF c
    <3> QED BY <2>2, <3>1, <3>2
  <2>3. CASE /\ r.kind # "started"
             /\ caHolder' = IF caRuntime[p].lease THEN caHolder \ {p} ELSE caHolder
             /\ caRuntime' = [caRuntime EXCEPT ![p].draining = FALSE, ![p].lease = FALSE]
    <3> DEFINE c == [caRuntime[p] EXCEPT !.draining = FALSE, !.lease = FALSE]
    <3>1. c \in RuntimeState /\ c.lease = FALSE
      BY <2>0, RuntimeTypes
    <3>2. caRuntime' = [caRuntime EXCEPT ![p] = c]
      BY <2>3, RuntimeForms
    <3> HIDE DEF c
    <3> QED BY <2>3, <3>1, <3>2
  <2>4. CASE r.kind = "started" /\ UNCHANGED caHolder /\ K!Started(p)
    <3> DEFINE c == [caRuntime[p] EXCEPT !.lease = TRUE, !.stopping = FALSE]
    <3>1. c \in RuntimeState /\ c.lease = TRUE
      BY <2>0, RuntimeTypes
    <3>2. caRuntime' = [caRuntime EXCEPT ![p] = c]
      BY <2>4, RuntimeForms DEF K!Started
    <3> HIDE DEF c
    <3> QED BY <2>4, <3>1, <3>2
  <2>5. CASE r.kind = "candidates" /\ K!Candidates(p) /\ UNCHANGED caHolder
    BY <2>1, <2>5 DEF K!Candidates
  <2>6. CASE r.kind = "conflict" /\ K!Conflict(p, r.who) /\ UNCHANGED caHolder
    BY <2>1, <2>6 DEF K!Conflict
  <2>7. CASE r.kind = "stopped" /\ K!Stopped(p) /\ UNCHANGED caHolder
    BY <2>2, <2>7 DEF K!Stopped
  <2>8. CASE r.kind = "failed" /\ K!FailedResult(p, r.drain)
    BY <2>2, <2>3, <2>8 DEF K!FailedResult
  <2> QED BY <1>3, <2>4, <2>5, <2>6, <2>7, <2>8
<1>9. /\ K!LeasesNeverOverlap' /\ caResults' \in [CaProcs -> Seq(ResultState)]
      /\ caRuntime' \in [CaProcs -> RuntimeState] /\ caHolder' \subseteq CaProcs
  BY <1>1, <1>2, <1>8, OwnerEffect DEF r
<1> QED BY <1>1, <1>2, <1>5, <1>6, <1>7, <1>9, OwnerTypes

LEMMA CaptureStep == ASSUME CaptureInv, [Next]_vars PROVE CaptureInv'
<1>1. CASE UNCHANGED caVars
  BY <1>1 DEF caVars, CaptureInv, CaptureTypes, K!TypeOK, K!LeasesNeverOverlap, K!StartedResults,
     K!Alive
<1>2. CASE K!Next
  BY <1>2, CaptureQuiet, CaptureTakeover, CaptureApply, CaptureSettle, CaptureWorker, CaptureCrash
     DEF K!Next
<1> QED BY <1>1, <1>2
       DEF Next, vars, SchemaLockNext, SessionLeaseNext, CaptureLaneNext, ScreenshotWatcherNext,
           SessionsNext, CompanionNext, ControlNext

\* Screenshots, for every number of processes and files: the capture lease is never handed to
\* two processes or twice to one, however results, takeovers and crashes interleave, and a file
\* goes out only after it was left alone for the whole debounce interval.
THEOREM CaptureIsExclusive == Spec => []ScreenshotsSafe
<1>1. Init => CaptureInv /\ WatcherInv
  BY CaptureInit, WatcherInit DEF Init
<1>2. CaptureInv /\ WatcherInv => ScreenshotsSafe
  BY DEF CaptureInv, CaptureTypes, K!CaptureLaneSafe, WatcherInv, WatcherTypes, W!TypeOK, W!Gone,
     W!ScreenshotWatcherSafe, ScreenshotsSafe
<1> QED BY <1>1, <1>2, CaptureStep, WatcherStep, PTL DEF Spec

-----------------------------------------------------------------------------
(* Commands to a live owner                                                *)

\* The command's own state.
CommandAnswers == {"none", "accepted", "conflict", "refused", "busy", "unknown", "storage_failed"}
CommandState == [pc : {"idle", "direct", "acquire", "leased", "waiting", "done"},
                 request : CoRequests \cup {O!NoRequest}, tries : 0..CoMaxTries,
                 answer : CommandAnswers]
Asked(c) == coClient[c].tries >= 1
CommandsFine ==
  /\ coClient \in [CoClients -> CommandState]
  /\ \A c \in CoClients : coClient[c].pc # "idle" <=> Asked(c)
  /\ \A c \in CoClients : Asked(c) => coClient[c].request \in CoRequests
  /\ \A c \in CoClients : coClient[c].pc = "leased" => coLease = c

\* What travels: an envelope carries what its command asks for.  The retried save of the user
\* has no command and is no try of one.
Envelopes == [client : CoClients \cup {"none"}, try : Nat, request : CoRequests]
Genuine(e) ==
  e.try >= 1 => /\ e.client \in CoClients /\ Asked(e.client)
                /\ e.request = coClient[e.client].request
Connections == [client : CoClients, try : Nat \ {0}]
LaneRequests == [kind : {"lookup", "commit", "retry"}, envelope : Envelopes, sequence : Nat]
LaneAnswers == [kind : {"lookup", "commit"}, envelope : Envelopes, sequence : Nat,
                answer : CommandAnswers \cup {"recorded"}]
Batches == [sequence : Nat, request : CoRequests]
BacklogFine ==
  coBacklog \in Seq(Connections) /\ \A i \in 1 .. Len(coBacklog) : Asked(coBacklog[i].client)
InboxFine ==
  coInbox \in Seq(Envelopes) /\ \A i \in 1 .. Len(coInbox) : Genuine(coInbox[i])
LaneFine ==
  coLane \in Seq(LaneRequests) /\ \A i \in 1 .. Len(coLane) : Genuine(coLane[i].envelope)
ResultsFine ==
  coResults \in Seq(LaneAnswers) /\ \A i \in 1 .. Len(coResults) : Genuine(coResults[i].envelope)
ServerFine ==
  \/ coServer = <<>>
  \/ \E e \in Envelopes : coServer = <<e>> /\ Genuine(e) /\ e.try >= 1
QueuesFine == BacklogFine /\ InboxFine /\ LaneFine /\ ResultsFine /\ ServerFine

\* The owner holds the lease, and a process that is gone has left nothing in its memory.
OwnerFine ==
  /\ coOwner \in {"off", "live", "quitting"} /\ coLease \in CoClients \cup {"none", "owner"}
  /\ coOwner # "off" <=> coLease = "owner"
  /\ coOwner = "off" => /\ coInbox = <<>> /\ coLane = <<>> /\ coResults = <<>> /\ coServer = <<>>
                        /\ coRetained = {} /\ coMem = <<>> /\ coAwaited = {} /\ coFailed = 0

\* Nothing is twice in the store under one identity, and only a history move, which names nothing
\* of what it acts on, is twice on the board.
Boards ==
  /\ coMem \in Seq(CoRequests) /\ coLog \in Seq(CoRequests)
  /\ coAwaited \subseteq 1 .. Len(coMem) /\ coFailed \in coAwaited \cup {0}
  /\ \A i, j \in 1 .. Len(coLog) : coLog[i].op = coLog[j].op => i = j
  /\ \A i, j \in 1 .. Len(coMem) : coMem[i] = coMem[j] => i = j \/ coMem[i].family = "history"

\* What the owner need not wait for: it is stored at its place, or it repeats a stored move.
Kept(s) ==
  /\ s \in 1 .. Len(coMem)
  /\ \/ s \in 1 .. Len(coLog)
     \/ coMem[s].family = "history" /\ \E j \in 1 .. Len(coLog) : coLog[j] = coMem[s]

\* The store holds a prefix of the owner's board; what it lacks is awaited.
OwnerAhead ==
  coOwner # "off" => /\ Len(coLog) <= Len(coMem)
                     /\ \A i \in 1 .. Len(coLog) : coMem[i] = coLog[i]
                     /\ \A i \in 1 .. Len(coMem) : i \in coAwaited \/ Kept(i)

\* A batch is committed under the sequence its request has on the board, and a good answer tells
\* of what is kept.
OnBoard(s, r) == s \in 1 .. Len(coMem) /\ coMem[s] = r
Fits(q) == q.kind = "commit" => OnBoard(q.sequence, q.envelope.request)
Truthful(q) ==
  /\ q.kind = "commit" /\ q.answer \in {"recorded", "accepted"} =>
       Kept(q.sequence) /\ \E j \in 1 .. Len(coLog) : coLog[j] = q.envelope.request
  /\ q.kind = "lookup" => q.answer # "recorded"
  /\ q.kind = "lookup" /\ q.answer = "accepted" =>
       \E j \in 1 .. Len(coLog) : coLog[j] = q.envelope.request
Flights ==
  /\ \A i \in 1 .. Len(coLane) : Fits(coLane[i])
  /\ \A x \in coRetained : x \in Batches /\ OnBoard(x.sequence, x.request)
  /\ \A i \in 1 .. Len(coResults) : Truthful(coResults[i])

ControlInv == /\ CommandsFine /\ QueuesFine /\ OwnerFine
              /\ Boards /\ OwnerAhead /\ Flights /\ O!AcceptedIsRecorded

LEMMA ControlInit == ASSUME O!Init PROVE ControlInv
<1>1. /\ coClient = [c \in CoClients |-> O!Idle]
      /\ coLease = "none" /\ coOwner = "off" /\ coBacklog = <<>> /\ coServer = <<>> /\ coInbox = <<>>
      /\ coLane = <<>> /\ coRetained = {} /\ coResults = <<>> /\ coMem = <<>> /\ coAwaited = {}
      /\ coFailed = 0 /\ coLog = <<>>
  BY DEF O!Init, O!None
<1>2. O!Idle \in CommandState /\ O!Idle.pc = "idle" /\ O!Idle.tries = 0
  BY ControlAssumption DEF O!Idle, CommandState, CommandAnswers, O!None
<1>3. CommandsFine /\ O!AcceptedIsRecorded
  BY <1>1, <1>2 DEF CommandsFine, Asked, O!AcceptedIsRecorded
<1>4. QueuesFine
  BY <1>1 DEF QueuesFine, BacklogFine, InboxFine, LaneFine, ResultsFine, ServerFine
<1>5. OwnerFine /\ Boards /\ OwnerAhead
  BY <1>1 DEF OwnerFine, Boards, OwnerAhead
<1>6. Flights
  BY <1>1 DEF Flights
<1> QED BY <1>3, <1>4, <1>5, <1>6 DEF ControlInv

-----------------------------------------------------------------------------
(* What a step may do to the commands                                      *)

\* Each command stays, or stops waiting with a true answer.
Settles ==
  /\ coClient' \in [CoClients -> CommandState]
  /\ \A c \in CoClients :
       \/ coClient'[c] = coClient[c]
       \/ /\ coClient[c].pc = "waiting" /\ coClient'[c].pc = "done"
          /\ coClient'[c].request = coClient[c].request /\ coClient'[c].tries = coClient[c].tries
          /\ coClient'[c].answer = "accepted" => coClient[c].request \in O!Range(coLog)

\* What a command asked for it goes on asking for.
Steady ==
  \A c \in CoClients : Asked(c) => Asked(c)' /\ coClient'[c].request = coClient[c].request

\* Nothing is taken from the store.
LogGrows == O!Range(coLog) \subseteq O!Range(coLog')

LEMMA SettlesKeeps ==
  ASSUME ControlInv, Settles, LogGrows,
         \A c \in CoClients : coClient[c].pc = "leased" => coLease' = coLease
  PROVE  CommandsFine' /\ Steady /\ O!AcceptedIsRecorded'
<1> USE DEF ControlInv, Asked
<1>1. Steady
  BY DEF Settles, Steady
<1>2. \A c \in CoClients : coClient'[c].pc # "idle" <=> coClient'[c].tries >= 1
  BY DEF Settles, CommandsFine
<1>3. \A c \in CoClients : coClient'[c].tries >= 1 => coClient'[c].request \in CoRequests
  BY DEF Settles, CommandsFine
<1>4. \A c \in CoClients : coClient'[c].pc = "leased" => coLease' = c
  BY DEF Settles, CommandsFine
<1>5. O!AcceptedIsRecorded'
  BY DEF Settles, O!AcceptedIsRecorded, LogGrows
<1> QED BY <1>1, <1>2, <1>3, <1>4, <1>5 DEF CommandsFine, Settles

\* A command that gives up or is told something.
LEMMA FinishSettles ==
  ASSUME ControlInv, NEW c \in CoClients, NEW answer \in CommandAnswers, coClient[c].pc = "waiting",
         answer = "accepted" => coClient[c].request \in O!Range(coLog), coClient' = O!Finish(c, answer)
  PROVE  Settles
<1>1. coClient \in [CoClients -> CommandState]
  BY DEF ControlInv, CommandsFine
<1>2. coClient' = [coClient EXCEPT ![c] = [coClient[c] EXCEPT !.pc = "done", !.answer = answer]]
  BY <1>1 DEF O!Finish, CommandState
<1>3. /\ [coClient[c] EXCEPT !.pc = "done", !.answer = answer] \in CommandState
      /\ coClient'[c].pc = "done" /\ coClient'[c].answer = answer
      /\ coClient'[c].request = coClient[c].request /\ coClient'[c].tries = coClient[c].tries
  BY <1>1, <1>2 DEF CommandState
<1> QED BY <1>1, <1>2, <1>3 DEF Settles

\* The owner's answer, when its connection is the one being served.
LEMMA AnsweredSettles ==
  ASSUME ControlInv, NEW e \in Envelopes, Genuine(e), NEW answer \in CommandAnswers,
         answer = "accepted" => e.request \in O!Range(coLog), O!Answered(e, answer)
  PROVE  Settles /\ (coServer' = coServer \/ coServer' = <<>>)
<1>1. coClient \in [CoClients -> CommandState]
  BY DEF ControlInv, CommandsFine
<1>2. CASE UNCHANGED <<coServer, coClient>>
  BY <1>1, <1>2 DEF Settles
<1>3. CASE /\ coServer # <<>> /\ coServer[1].client = e.client /\ coServer[1].try = e.try
           /\ coServer' = <<>>
           /\ coClient' = IF O!Waits(e) THEN O!Finish(e.client, answer) ELSE coClient
  <2>1. e.try >= 1
    <3>1. PICK f \in Envelopes : coServer = <<f>> /\ f.try >= 1
      BY <1>3 DEF ControlInv, QueuesFine, ServerFine
    <3> QED BY <1>3, <3>1
  <2>2. e.client \in CoClients /\ e.request = coClient[e.client].request
    BY <2>1 DEF Genuine
  <2>3. CASE ~O!Waits(e)
    BY <1>1, <1>3, <2>3 DEF Settles
  <2>4. CASE O!Waits(e)
    <3>1. coClient[e.client].pc = "waiting" /\ coClient' = O!Finish(e.client, answer)
      BY <1>3, <2>4 DEF O!Waits
    <3> QED BY <1>3, <2>2, <3>1, FinishSettles
  <2> QED BY <2>3, <2>4
<1> QED BY <1>2, <1>3 DEF O!Answered

\* What was genuine stays so.
LEMMA GenuineKeeps ==
  ASSUME NEW e \in Envelopes, Genuine(e), Steady PROVE Genuine(e)'
BY DEF Genuine, Steady, Asked, Envelopes

LEMMA BacklogKeeps == ASSUME BacklogFine, Steady, UNCHANGED coBacklog PROVE BacklogFine'
<1>1. \A i \in 1 .. Len(coBacklog) : coClient'[coBacklog[i].client].tries >= 1
  <2> TAKE i \in 1 .. Len(coBacklog)
  <2>1. coBacklog[i] \in Connections
    BY DEF BacklogFine
  <2>2. coBacklog[i].client \in CoClients /\ Asked(coBacklog[i].client)
    BY <2>1 DEF BacklogFine, Connections
  <2> QED BY <2>2 DEF Steady, Asked
<1> QED BY <1>1 DEF BacklogFine, Asked

LEMMA InboxKeeps == ASSUME InboxFine, Steady, UNCHANGED coInbox PROVE InboxFine'
<1>1. \A i \in 1 .. Len(coInbox) : Genuine(coInbox[i])'
  <2> TAKE i \in 1 .. Len(coInbox)
  <2>1. PICK e \in Envelopes : e = coInbox[i]
    BY DEF InboxFine
  <2>2. Genuine(e)'
    BY <2>1, GenuineKeeps DEF InboxFine
  <2> QED BY <2>1, <2>2 DEF Genuine
<1> QED BY <1>1 DEF InboxFine

LEMMA LaneKeeps == ASSUME LaneFine, Steady, UNCHANGED coLane PROVE LaneFine'
<1>1. \A i \in 1 .. Len(coLane) : Genuine(coLane[i].envelope)'
  <2> TAKE i \in 1 .. Len(coLane)
  <2>1. coLane[i] \in LaneRequests
    BY DEF LaneFine
  <2>2. PICK e \in Envelopes : e = coLane[i].envelope
    BY <2>1 DEF LaneRequests
  <2>3. Genuine(e)'
    BY <2>2, GenuineKeeps DEF LaneFine
  <2> QED BY <2>2, <2>3 DEF Genuine
<1> QED BY <1>1 DEF LaneFine

LEMMA ResultsKeep == ASSUME ResultsFine, Steady, UNCHANGED coResults PROVE ResultsFine'
<1>1. \A i \in 1 .. Len(coResults) : Genuine(coResults[i].envelope)'
  <2> TAKE i \in 1 .. Len(coResults)
  <2>1. coResults[i] \in LaneAnswers
    BY DEF ResultsFine
  <2>2. PICK e \in Envelopes : e = coResults[i].envelope
    BY <2>1 DEF LaneAnswers
  <2>3. Genuine(e)'
    BY <2>2, GenuineKeeps DEF ResultsFine
  <2> QED BY <2>2, <2>3 DEF Genuine
<1> QED BY <1>1 DEF ResultsFine

LEMMA ServerKeeps ==
  ASSUME ServerFine, Steady, coServer' = coServer \/ coServer' = <<>> PROVE ServerFine'
<1>1. CASE coServer' = <<>>
  BY <1>1 DEF ServerFine
<1>2. ASSUME NEW e \in Envelopes, coServer = <<e>>, coServer' = coServer, Genuine(e), e.try >= 1
      PROVE  ServerFine'
  BY <1>2, GenuineKeeps DEF ServerFine
<1> QED BY <1>1, <1>2 DEF ServerFine

-----------------------------------------------------------------------------
(* The commands' own steps                                                 *)

\* A matching receipt is the request itself.
LEMMA ReplayMatches ==
  ASSUME ControlInv, NEW r \in CoRequests, O!Recorded(r.op)
  PROVE  /\ O!MatchReplay(r) \in {"accepted", "conflict"}
         /\ O!MatchReplay(r) = "accepted" => \E i \in 1 .. Len(coLog) : coLog[i] = r
<1>1. coLog \in Seq(CoRequests)
  BY DEF ControlInv, Boards
<1>2. O!Receipt(r.op) \in DOMAIN coLog
  BY DEF O!Recorded, O!Receipt
<1>3. PICK i \in 1 .. Len(coLog) : i = O!Receipt(r.op)
  BY <1>1, <1>2
<1>4. ASSUME O!Fingerprint(coLog[i]) = O!Fingerprint(r) PROVE coLog[i] = r
  <2>1. coLog[i] \in CoRequests
    BY <1>1
  <2>2. coLog[i].op = r.op /\ coLog[i].family = r.family /\ coLog[i].args = r.args
    BY <1>4 DEF O!Fingerprint
  <2>3. /\ coLog[i] = [op |-> coLog[i].op, family |-> coLog[i].family, args |-> coLog[i].args]
        /\ r = [op |-> r.op, family |-> r.family, args |-> r.args]
    BY <2>1, ControlAssumption
  <2> QED BY <2>2, <2>3
<1> QED BY <1>3, <1>4 DEF O!MatchReplay

\* A command begins or tries again: its request stays what it was.
LEMMA ControlBegin == ASSUME ControlInv, NEW c \in CoClients, O!Begin(c) PROVE ControlInv'
<1>1. /\ coClient[c].pc = "idle" \/ (coClient[c].pc = "done" /\ coClient[c].answer \in O!Retryable)
      /\ coClient[c].tries < CoMaxTries
      /\ UNCHANGED <<coLease, coOwner, coServer, coInbox, coLane, coRetained, coResults, coMem, coAwaited,
                     coFailed, coLog>>
  BY DEF O!Begin, O!ownerVars
<1>2. PICK r \in CoRequests, pc \in {"waiting", "direct"} :
        /\ coClient[c].pc = "done" => r = coClient[c].request
        /\ coClient' = [coClient EXCEPT ![c] =
             [pc |-> pc, request |-> r, tries |-> coClient[c].tries + 1, answer |-> "none"]]
        /\ coBacklog' = coBacklog
             \/ coBacklog' = Append(coBacklog, [client |-> c, try |-> coClient[c].tries + 1])
  BY DEF O!Begin, O!OwnerFound, O!Sent, O!None
<1>3. coClient \in [CoClients -> CommandState] /\ coClient[c].tries \in 0 .. CoMaxTries
  BY DEF ControlInv, CommandsFine, CommandState
<1>4. /\ coClient'[c] = [pc |-> pc, request |-> r, tries |-> coClient[c].tries + 1, answer |-> "none"]
      /\ \A d \in CoClients \ {c} : coClient'[d] = coClient[d]
  BY <1>2, <1>3
<1>5. /\ coClient'[c].pc \in {"waiting", "direct"} /\ coClient'[c].request = r
      /\ coClient'[c].tries = coClient[c].tries + 1 /\ coClient'[c].answer = "none"
      /\ coClient[c].tries + 1 \in 1 .. CoMaxTries
  BY <1>1, <1>3, <1>4, ControlAssumption
<1>6. coClient' \in [CoClients -> CommandState]
  <2>1. coClient'[c] \in CommandState
    BY <1>4, <1>5 DEF CommandState, CommandAnswers
  <2> QED BY <1>2, <1>3, <1>4, <2>1
<1>7. Steady
  BY <1>1, <1>2, <1>4, <1>5 DEF ControlInv, CommandsFine, Steady, Asked
<1>8. CommandsFine'
  BY <1>1, <1>4, <1>5, <1>6 DEF ControlInv, CommandsFine, Asked
<1>9. O!AcceptedIsRecorded'
  BY <1>1, <1>4, <1>5 DEF ControlInv, O!AcceptedIsRecorded
<1>10. BacklogFine'
  <2>1. CASE coBacklog' = coBacklog
    BY <1>7, <2>1, BacklogKeeps DEF ControlInv, QueuesFine
  <2>2. CASE coBacklog' = Append(coBacklog, [client |-> c, try |-> coClient[c].tries + 1])
    <3>1. coBacklog \in Seq(Connections)
      BY DEF ControlInv, QueuesFine, BacklogFine
    <3>0. coClient[c].tries + 1 \in Nat \ {0}
      BY <1>3, ControlAssumption
    <3>2. PICK n \in Connections : n = [client |-> c, try |-> coClient[c].tries + 1]
      BY <3>0 DEF Connections
    <3>3. n.client = c
      BY <3>2
    <3>4. coBacklog' = Append(coBacklog, n) /\ coBacklog' \in Seq(Connections)
      BY <2>2, <3>1, <3>2
    <3>5. \A i \in 1 .. Len(coBacklog') : coClient'[coBacklog'[i].client].tries >= 1
      <4> TAKE i \in 1 .. Len(coBacklog')
      <4>1. CASE i = Len(coBacklog) + 1
        BY <1>5, <3>1, <3>3, <3>4, <4>1
      <4>2. CASE i # Len(coBacklog) + 1
        <5>1. i \in 1 .. Len(coBacklog) /\ coBacklog'[i] = coBacklog[i]
          BY <3>1, <3>4, <4>2
        <5>2. coBacklog[i] \in Connections
          BY <3>1, <5>1
        <5>3. coBacklog[i].client \in CoClients /\ Asked(coBacklog[i].client)
          BY <5>1, <5>2 DEF Connections, ControlInv, QueuesFine, BacklogFine
        <5> QED BY <1>7, <5>1, <5>3 DEF Steady, Asked
      <4> QED BY <4>1, <4>2
    <3> QED BY <3>4, <3>5 DEF BacklogFine, Asked
  <2> QED BY <1>2, <2>1, <2>2
<1>13. QueuesFine'
  BY <1>1, <1>7, <1>10, InboxKeeps, LaneKeeps, ResultsKeep, ServerKeeps DEF ControlInv, QueuesFine
<1>11. OwnerFine' /\ Boards' /\ OwnerAhead'
  BY <1>1 DEF ControlInv, OwnerFine, Boards, OwnerAhead, Kept
<1>12. Flights'
  BY <1>1 DEF ControlInv, Flights, Fits, OnBoard, Kept, Truthful
<1> QED BY <1>8, <1>9, <1>11, <1>12, <1>13 DEF ControlInv

\* The command without an owner: only the one that holds the lease changes the store.
LEMMA ControlDirect == ASSUME ControlInv, NEW c \in CoClients, O!DirectStep(c) PROVE ControlInv'
<1>1. /\ UNCHANGED <<coOwner, coBacklog, coServer, coInbox, coLane, coRetained, coResults, coMem, coAwaited,
                     coFailed>>
      /\ coClient[c].pc \in {"direct", "acquire", "leased"}
  BY DEF O!DirectStep, O!DirectLookup, O!DirectAcquire, O!DirectApply, O!ownerVars
<1>2. coClient \in [CoClients -> CommandState] /\ coClient[c] \in CommandState
  BY DEF ControlInv, CommandsFine
<1>3. Asked(c) /\ coClient[c].request \in CoRequests
  BY <1>1 DEF ControlInv, CommandsFine
<1> DEFINE r == coClient[c].request
<1>4. coLog \in Seq(CoRequests)
  BY DEF ControlInv, Boards
\* What such a step does.
<1>5. /\ \E pc \in {"acquire", "leased", "done"}, a \in CommandAnswers :
           /\ coClient' = [coClient EXCEPT ![c] = [coClient[c] EXCEPT !.pc = pc, !.answer = a]]
           /\ pc = "leased" => coLease' = c
           /\ pc = "done" /\ a = "accepted" => r \in O!Range(coLog')
      /\ \/ UNCHANGED coLease
         \/ coLease = "none" /\ coLease' = c
         \/ coLease = c /\ coLease' = "none"
      /\ coLog' = coLog \/ (coLease = c /\ ~O!Recorded(r.op) /\ coLog' = Append(coLog, r))
  <2>1. ASSUME NEW a \in CommandAnswers, coClient' = O!Finish(c, a)
        PROVE  coClient' = [coClient EXCEPT ![c] = [coClient[c] EXCEPT !.pc = "done", !.answer = a]]
    BY <1>2, <2>1 DEF O!Finish, CommandState
  <2>2. ASSUME NEW pc \in {"acquire", "leased"}, coClient' = [coClient EXCEPT ![c].pc = pc]
        PROVE  /\ coClient' = [coClient EXCEPT ![c] =
                     [coClient[c] EXCEPT !.pc = pc, !.answer = coClient[c].answer]]
               /\ coClient[c].answer \in CommandAnswers
    <3>1. coClient[c].answer \in CommandAnswers
      BY <1>2 DEF CommandState
    <3>2. [coClient[c] EXCEPT !.pc = pc, !.answer = coClient[c].answer] = [coClient[c] EXCEPT !.pc = pc]
      BY <1>2 DEF CommandState
    <3> QED BY <2>2, <3>1, <3>2
  <2>3. O!Recorded(r.op) => /\ O!MatchReplay(r) \in {"accepted", "conflict"}
                            /\ O!MatchReplay(r) = "accepted" => r \in O!Range(coLog)
    BY <1>3, <1>4, ReplayMatches DEF O!Range
  <2>4. CASE O!DirectLookup(c)
    <3>1. CASE O!Recorded(r.op) /\ coClient' = O!Finish(c, O!MatchReplay(r))
      <4>1. O!MatchReplay(r) \in CommandAnswers
        BY <2>3, <3>1 DEF CommandAnswers
      <4> QED BY <2>1, <2>3, <2>4, <3>1, <4>1 DEF O!DirectLookup
    <3>2. CASE coClient' = [coClient EXCEPT ![c].pc = "acquire"]
      BY <2>2, <2>4, <3>2 DEF O!DirectLookup
    <3> QED BY <2>4, <3>1, <3>2 DEF O!DirectLookup
  <2>5. CASE O!DirectAcquire(c)
    <3>1. CASE coLease = "none" /\ coLease' = c /\ coClient' = [coClient EXCEPT ![c].pc = "leased"]
      BY <2>2, <2>5, <3>1 DEF O!DirectAcquire
    <3>2. CASE coClient' = O!Finish(c, "busy") /\ UNCHANGED coLease
      <4>1. "busy" \in CommandAnswers
        BY DEF CommandAnswers
      <4> QED BY <2>1, <2>5, <3>2, <4>1 DEF O!DirectAcquire
    <3> QED BY <2>5, <3>1, <3>2 DEF O!DirectAcquire, O!None
  <2>6. CASE O!DirectApply(c)
    <3>1. coLease = c /\ coLease' = "none"
      BY <2>6 DEF O!DirectApply, O!None, ControlInv, CommandsFine
    <3>2. CASE O!Recorded(r.op) /\ coClient' = O!Finish(c, O!MatchReplay(r)) /\ UNCHANGED coLog
      <4>1. O!MatchReplay(r) \in CommandAnswers
        BY <2>3, <3>2 DEF CommandAnswers
      <4> QED BY <2>1, <2>3, <3>1, <3>2, <4>1
    <3>3. CASE coClient' = O!Finish(c, "refused") /\ UNCHANGED coLog
      <4>1. "refused" \in CommandAnswers
        BY DEF CommandAnswers
      <4> QED BY <2>1, <3>1, <3>3, <4>1
    <3>4. CASE ~O!Recorded(r.op) /\ coLog' = Append(coLog, r) /\ coClient' = O!Finish(c, "accepted")
      <4>1. "accepted" \in CommandAnswers
        BY DEF CommandAnswers
      <4>2. Len(coLog) + 1 \in DOMAIN coLog' /\ coLog'[Len(coLog) + 1] = r
        BY <1>3, <1>4, <3>4
      <4>3. r \in O!Range(coLog')
        BY <4>2 DEF O!Range
      <4> QED BY <2>1, <3>1, <3>4, <4>1, <4>3
    <3>5. CASE coClient' = O!Finish(c, "storage_failed") /\ UNCHANGED coLog
      <4>1. "storage_failed" \in CommandAnswers
        BY DEF CommandAnswers
      <4> QED BY <2>1, <3>1, <3>5, <4>1
    <3> QED BY <2>6, <3>2, <3>3, <3>4, <3>5 DEF O!DirectApply
  <2> QED BY <2>4, <2>5, <2>6 DEF O!DirectStep
<1> HIDE DEF r
<1>6. PICK pc \in {"acquire", "leased", "done"}, a \in CommandAnswers :
        /\ coClient' = [coClient EXCEPT ![c] = [coClient[c] EXCEPT !.pc = pc, !.answer = a]]
        /\ pc = "leased" => coLease' = c
        /\ pc = "done" /\ a = "accepted" => r \in O!Range(coLog')
  BY <1>5
<1>7. /\ [coClient[c] EXCEPT !.pc = pc, !.answer = a] \in CommandState
      /\ coClient' \in [CoClients -> CommandState]
      /\ coClient'[c].pc = pc /\ coClient'[c].answer = a
      /\ coClient'[c].request = r /\ coClient'[c].tries = coClient[c].tries
      /\ \A d \in CoClients \ {c} : coClient'[d] = coClient[d]
  BY <1>2, <1>6 DEF CommandState, r
<1>8. Steady
  BY <1>7 DEF Steady, Asked, r
<1>9. LogGrows /\ coLog' \in Seq(CoRequests)
  <2>1. CASE coLog' = coLog
    BY <1>4, <2>1 DEF LogGrows
  <2>2. CASE coLog' = Append(coLog, r)
    <3>1. /\ coLog' \in Seq(CoRequests) /\ DOMAIN coLog \subseteq DOMAIN coLog'
          /\ \A i \in DOMAIN coLog : coLog'[i] = coLog[i]
      BY <1>3, <1>4, <2>2 DEF r
    <3> QED BY <3>1 DEF LogGrows, O!Range
  <2> QED BY <1>5, <2>1, <2>2
<1>10. CommandsFine'
  <2>1. \A d \in CoClients : coClient'[d].pc # "idle" <=> coClient'[d].tries >= 1
    BY <1>1, <1>6, <1>7 DEF ControlInv, CommandsFine, Asked
  <2>2. \A d \in CoClients : coClient'[d].tries >= 1 => coClient'[d].request \in CoRequests
    BY <1>3, <1>7 DEF ControlInv, CommandsFine, Asked, r
  <2>3. ASSUME NEW d \in CoClients, coClient'[d].pc = "leased" PROVE coLease' = d
    <3>1. CASE d = c
      BY <1>6, <1>7, <2>3, <3>1
    <3>2. CASE d # c
      <4>1. coLease = d
        BY <1>7, <2>3, <3>2 DEF ControlInv, CommandsFine
      <4> QED BY <1>5, <3>2, <4>1, ControlAssumption
    <3> QED BY <3>1, <3>2
  <2> QED BY <1>7, <2>1, <2>2, <2>3 DEF CommandsFine, Asked
<1>11. O!AcceptedIsRecorded'
  BY <1>6, <1>7, <1>9 DEF ControlInv, O!AcceptedIsRecorded, LogGrows
<1>12. QueuesFine'
  BY <1>1, <1>8, BacklogKeeps, InboxKeeps, LaneKeeps, ResultsKeep, ServerKeeps DEF ControlInv, QueuesFine
<1>13. OwnerFine'
  BY <1>1, <1>5, ControlAssumption DEF ControlInv, OwnerFine
<1>14. coLog' = coLog \/ coOwner = "off"
  BY <1>5, ControlAssumption DEF ControlInv, OwnerFine
<1>15. Boards'
  <2>1. CASE coLog' = coLog
    BY <1>1, <2>1 DEF ControlInv, Boards
  <2>2. CASE ~O!Recorded(r.op) /\ coLog' = Append(coLog, r)
    <3>1. \A i \in 1 .. Len(coLog) : coLog[i].op # r.op
      BY <1>4, <2>2 DEF O!Recorded
    <3>2. \A i, j \in 1 .. Len(coLog) : coLog[i].op = coLog[j].op => i = j
      BY DEF ControlInv, Boards
    <3>3. \A i, j \in 1 .. Len(coLog') : coLog'[i].op = coLog'[j].op => i = j
      <4>1. /\ Len(coLog') = Len(coLog) + 1 /\ coLog'[Len(coLog) + 1] = r /\ Len(coLog) \in Nat
            /\ \A i \in 1 .. Len(coLog) : coLog'[i] = coLog[i]
        BY <1>3, <1>4, <2>2 DEF r
      <4> HIDE <2>2
      <4> QED BY <3>1, <3>2, <4>1
    <3> QED BY <1>1, <1>9, <3>3 DEF ControlInv, Boards
  <2> QED BY <1>5, <2>1, <2>2
<1>16. OwnerAhead'
  BY <1>1, <1>14 DEF ControlInv, OwnerAhead, Kept
<1>17. Flights'
  <2>1. CASE coLog' = coLog
    BY <1>1, <2>1 DEF ControlInv, Flights, Fits, OnBoard, Kept, Truthful
  <2>2. CASE coOwner = "off"
    <3>1. coLane' = <<>> /\ coResults' = <<>> /\ coRetained' = {}
      BY <1>1, <2>2 DEF ControlInv, OwnerFine
    <3> QED BY <3>1 DEF Flights
  <2> QED BY <1>14, <2>1, <2>2
<1> QED BY <1>10, <1>11, <1>12, <1>13, <1>15, <1>16, <1>17 DEF ControlInv

-----------------------------------------------------------------------------
(* The owner's queues                                                      *)

LEMMA TailOf ==
  ASSUME NEW Elem, NEW s \in Seq(Elem), s # <<>>
  PROVE  /\ Tail(s) \in Seq(Elem) /\ Len(Tail(s)) = Len(s) - 1 /\ Len(s) \in Nat \ {0}
         /\ Head(s) = s[1] /\ Head(s) \in Elem
         /\ \A i \in 1 .. Len(Tail(s)) : i + 1 \in 1 .. Len(s) /\ Tail(s)[i] = s[i + 1]
OBVIOUS

LEMMA AppendOf ==
  ASSUME NEW Elem, NEW s \in Seq(Elem), NEW x \in Elem
  PROVE  /\ Append(s, x) \in Seq(Elem) /\ Len(Append(s, x)) = Len(s) + 1 /\ Len(s) \in Nat
         /\ Append(s, x)[Len(s) + 1] = x
         /\ \A i \in 1 .. Len(s) : Append(s, x)[i] = s[i]
OBVIOUS

LEMMA InboxTail ==
  ASSUME InboxFine, Steady, coInbox # <<>>, coInbox' = Tail(coInbox)
  PROVE  InboxFine' /\ Head(coInbox) \in Envelopes /\ Genuine(Head(coInbox))
<1>1. coInbox \in Seq(Envelopes)
  BY DEF InboxFine
<1>2. /\ coInbox' \in Seq(Envelopes) /\ Head(coInbox) \in Envelopes /\ Head(coInbox) = coInbox[1]
      /\ Len(coInbox) \in Nat \ {0}
      /\ \A i \in 1 .. Len(coInbox') : i + 1 \in 1 .. Len(coInbox) /\ coInbox'[i] = coInbox[i + 1]
  BY <1>1, TailOf
<1>3. Genuine(Head(coInbox))
  BY <1>2 DEF InboxFine
<1>4. \A i \in 1 .. Len(coInbox') : Genuine(coInbox[i])'
  <2> TAKE i \in 1 .. Len(coInbox')
  <2>1. PICK e \in Envelopes : e = coInbox[i + 1] /\ e = coInbox'[i] /\ Genuine(e)
    BY <1>1, <1>2 DEF InboxFine
  <2>2. Genuine(e)'
    BY <2>1, GenuineKeeps
  <2> QED BY <2>1, <2>2 DEF Genuine
<1> QED BY <1>2, <1>3, <1>4 DEF InboxFine

LEMMA InboxAppend ==
  ASSUME InboxFine, Steady, NEW e \in Envelopes, Genuine(e)', coInbox' = Append(coInbox, e)
  PROVE  InboxFine'
<1>1. coInbox \in Seq(Envelopes)
  BY DEF InboxFine
<1>2. /\ coInbox' \in Seq(Envelopes) /\ Len(coInbox') = Len(coInbox) + 1 /\ Len(coInbox) \in Nat
      /\ coInbox'[Len(coInbox) + 1] = e
      /\ \A i \in 1 .. Len(coInbox) : coInbox'[i] = coInbox[i]
  BY <1>1, AppendOf
<1>3. \A i \in 1 .. Len(coInbox') : Genuine(coInbox[i])'
  <2> TAKE i \in 1 .. Len(coInbox')
  <2>1. CASE i = Len(coInbox) + 1
    BY <1>2, <2>1 DEF Genuine
  <2>2. CASE i \in 1 .. Len(coInbox)
    <3>1. PICK f \in Envelopes : f = coInbox[i] /\ f = coInbox'[i] /\ Genuine(f)
      BY <1>1, <1>2, <2>2 DEF InboxFine
    <3>2. Genuine(f)'
      BY <3>1, GenuineKeeps
    <3> QED BY <3>1, <3>2 DEF Genuine
  <2> QED BY <1>2, <2>1, <2>2
<1> QED BY <1>2, <1>3 DEF InboxFine

LEMMA BacklogTail ==
  ASSUME BacklogFine, Steady, coBacklog # <<>>, coBacklog' = Tail(coBacklog)
  PROVE  BacklogFine' /\ Head(coBacklog) \in Connections /\ Asked(Head(coBacklog).client)
<1>1. coBacklog \in Seq(Connections)
  BY DEF BacklogFine
<1>2. /\ coBacklog' \in Seq(Connections) /\ Head(coBacklog) \in Connections
      /\ Head(coBacklog) = coBacklog[1] /\ Len(coBacklog) \in Nat \ {0}
      /\ \A i \in 1 .. Len(coBacklog') : i + 1 \in 1 .. Len(coBacklog) /\ coBacklog'[i] = coBacklog[i + 1]
  BY <1>1, TailOf
<1>3. Asked(Head(coBacklog).client)
  BY <1>2 DEF BacklogFine
<1>4. \A i \in 1 .. Len(coBacklog') : coClient'[coBacklog'[i].client].tries >= 1
  <2> TAKE i \in 1 .. Len(coBacklog')
  <2>1. PICK b \in Connections : b = coBacklog'[i] /\ Asked(b.client)
    BY <1>1, <1>2 DEF BacklogFine
  <2>2. b.client \in CoClients
    BY <2>1 DEF Connections
  <2> QED BY <2>1, <2>2 DEF Steady, Asked
<1> QED BY <1>2, <1>3, <1>4 DEF BacklogFine, Asked

LEMMA LaneTail ==
  ASSUME LaneFine, Steady, coLane # <<>>, coLane' = Tail(coLane)
  PROVE  LaneFine' /\ Head(coLane) \in LaneRequests /\ Genuine(Head(coLane).envelope)
<1>1. coLane \in Seq(LaneRequests)
  BY DEF LaneFine
<1>2. /\ coLane' \in Seq(LaneRequests) /\ Head(coLane) \in LaneRequests /\ Head(coLane) = coLane[1]
      /\ Len(coLane) \in Nat \ {0}
      /\ \A i \in 1 .. Len(coLane') : i + 1 \in 1 .. Len(coLane) /\ coLane'[i] = coLane[i + 1]
  BY <1>1, TailOf
<1>3. Genuine(Head(coLane).envelope)
  BY <1>2 DEF LaneFine
<1>4. \A i \in 1 .. Len(coLane') : Genuine(coLane[i].envelope)'
  <2> TAKE i \in 1 .. Len(coLane')
  <2>1. PICK q \in LaneRequests : q = coLane'[i] /\ Genuine(q.envelope)
    BY <1>1, <1>2 DEF LaneFine
  <2>2. PICK e \in Envelopes : e = q.envelope
    BY <2>1 DEF LaneRequests
  <2>3. Genuine(e)'
    BY <2>1, <2>2, GenuineKeeps
  <2> QED BY <2>1, <2>2, <2>3 DEF Genuine
<1> QED BY <1>2, <1>3, <1>4 DEF LaneFine

LEMMA LaneAppend ==
  ASSUME LaneFine, Steady, NEW q \in LaneRequests, Genuine(q.envelope), coLane' = Append(coLane, q)
  PROVE  LaneFine'
<1>1. coLane \in Seq(LaneRequests)
  BY DEF LaneFine
<1>2. /\ coLane' \in Seq(LaneRequests) /\ Len(coLane') = Len(coLane) + 1 /\ Len(coLane) \in Nat
      /\ coLane'[Len(coLane) + 1] = q
      /\ \A i \in 1 .. Len(coLane) : coLane'[i] = coLane[i]
  BY <1>1, AppendOf
<1>3. \A i \in 1 .. Len(coLane') : Genuine(coLane[i].envelope)'
  <2> TAKE i \in 1 .. Len(coLane')
  <2>1. PICK p \in LaneRequests : p = coLane'[i] /\ Genuine(p.envelope)
    BY <1>1, <1>2 DEF LaneFine
  <2>2. PICK e \in Envelopes : e = p.envelope
    BY <2>1 DEF LaneRequests
  <2>3. Genuine(e)'
    BY <2>1, <2>2, GenuineKeeps
  <2> QED BY <2>1, <2>2, <2>3 DEF Genuine
<1> QED BY <1>2, <1>3 DEF LaneFine

LEMMA ResultsTail ==
  ASSUME ResultsFine, Steady, coResults # <<>>, coResults' = Tail(coResults)
  PROVE  ResultsFine'
<1>1. coResults \in Seq(LaneAnswers)
  BY DEF ResultsFine
<1>2. /\ coResults' \in Seq(LaneAnswers)
      /\ \A i \in 1 .. Len(coResults') : i + 1 \in 1 .. Len(coResults) /\ coResults'[i] = coResults[i + 1]
  BY <1>1, TailOf
<1>4. \A i \in 1 .. Len(coResults') : Genuine(coResults[i].envelope)'
  <2> TAKE i \in 1 .. Len(coResults')
  <2>1. PICK q \in LaneAnswers : q = coResults'[i] /\ Genuine(q.envelope)
    BY <1>1, <1>2 DEF ResultsFine
  <2>2. PICK e \in Envelopes : e = q.envelope
    BY <2>1 DEF LaneAnswers
  <2>3. Genuine(e)'
    BY <2>1, <2>2, GenuineKeeps
  <2> QED BY <2>1, <2>2, <2>3 DEF Genuine
<1> QED BY <1>2, <1>4 DEF ResultsFine

LEMMA ResultsAppend ==
  ASSUME ResultsFine, Steady, NEW q \in LaneAnswers, Genuine(q.envelope), coResults' = Append(coResults, q)
  PROVE  ResultsFine'
<1>1. coResults \in Seq(LaneAnswers)
  BY DEF ResultsFine
<1>2. /\ coResults' \in Seq(LaneAnswers) /\ Len(coResults') = Len(coResults) + 1 /\ Len(coResults) \in Nat
      /\ coResults'[Len(coResults) + 1] = q
      /\ \A i \in 1 .. Len(coResults) : coResults'[i] = coResults[i]
  BY <1>1, AppendOf
<1>3. \A i \in 1 .. Len(coResults') : Genuine(coResults[i].envelope)'
  <2> TAKE i \in 1 .. Len(coResults')
  <2>1. PICK p \in LaneAnswers : p = coResults'[i] /\ Genuine(p.envelope)
    BY <1>1, <1>2 DEF ResultsFine
  <2>2. PICK e \in Envelopes : e = p.envelope
    BY <2>1 DEF LaneAnswers
  <2>3. Genuine(e)'
    BY <2>1, <2>2, GenuineKeeps
  <2> QED BY <2>1, <2>2, <2>3 DEF Genuine
<1> QED BY <1>2, <1>3 DEF ResultsFine

-----------------------------------------------------------------------------
(* The owner's steps                                                       *)

\* Where neither the board nor the store changes, what is on its way stays true.
LEMMA BoardsKeep ==
  ASSUME ControlInv, Settles, UNCHANGED <<coLease, coOwner, coMem, coAwaited, coLog>>,
         coFailed' = coFailed \/ coFailed' = 0
  PROVE  CommandsFine' /\ Steady /\ O!AcceptedIsRecorded' /\ Boards' /\ OwnerAhead'
<1>1. LogGrows
  BY DEF LogGrows
<1>2. CommandsFine' /\ Steady /\ O!AcceptedIsRecorded'
  BY <1>1, SettlesKeeps
<1> QED BY <1>2 DEF ControlInv, Boards, OwnerAhead, Kept

\* The board and the store only grow at their ends; what travels stays true.
Extends(a, b) == Len(a) <= Len(b) /\ \A i \in 1 .. Len(a) : b[i] = a[i]
Growing == /\ coLog' \in Seq(CoRequests) /\ coMem' \in Seq(CoRequests)
           /\ Extends(coLog, coLog') /\ Extends(coMem, coMem')

LEMMA KeptKeeps == ASSUME Boards, Growing, NEW s, Kept(s) PROVE Kept(s)'
BY DEF Kept, Boards, Growing, Extends

LEMMA FitsKeeps ==
  ASSUME Boards, Growing PROVE /\ \A q : Fits(q) => Fits(q)'
                               /\ \A x : OnBoard(x.sequence, x.request) => OnBoard(x.sequence, x.request)'
BY DEF Fits, OnBoard, Boards, Growing, Extends

LEMMA TruthfulKeeps == ASSUME Boards, Growing, NEW q, Truthful(q) PROVE Truthful(q)'
<1>1. Kept(q.sequence) => Kept(q.sequence)'
  BY KeptKeeps
<1>2. ASSUME NEW r, \E j \in 1 .. Len(coLog) : coLog[j] = r
      PROVE  \E j \in 1 .. Len(coLog') : coLog'[j] = r
  BY <1>2 DEF Boards, Growing, Extends
<1> QED BY <1>1, <1>2 DEF Truthful

\* The command's or the server's patience ends.
LEMMA ControlTimeouts ==
  ASSUME ControlInv, (\E c \in CoClients : O!ClientTimeout(c)) \/ O!ServerTimeout
  PROVE  ControlInv'
<1>1. UNCHANGED <<coLease, coOwner, coBacklog, coInbox, coLane, coRetained, coResults, coMem, coAwaited,
                 coFailed, coLog>>
  BY DEF O!ClientTimeout, O!ServerTimeout, O!ownerVars
<1>2. Settles /\ (coServer' = coServer \/ coServer' = <<>>)
  <2>1. ASSUME NEW c \in CoClients, O!ClientTimeout(c) PROVE Settles /\ coServer' = coServer
    <3>1. coClient[c].pc = "waiting" /\ coClient' = O!Finish(c, "busy") /\ coServer' = coServer
      BY <2>1 DEF O!ClientTimeout
    <3>2. "busy" \in CommandAnswers /\ "busy" # "accepted"
      BY DEF CommandAnswers
    <3> QED BY <3>1, <3>2, FinishSettles
  <2>2. CASE O!ServerTimeout
    <3>1. PICK e \in Envelopes : coServer = <<e>> /\ Genuine(e)
      BY <2>2 DEF O!ServerTimeout, ControlInv, QueuesFine, ServerFine
    <3>2. O!Answered(e, "unknown")
      BY <2>2, <3>1 DEF O!ServerTimeout
    <3>3. "unknown" \in CommandAnswers /\ "unknown" # "accepted"
      BY DEF CommandAnswers
    <3> QED BY <3>1, <3>2, <3>3, AnsweredSettles
  <2> QED BY <2>1, <2>2
<1>3. CommandsFine' /\ Steady /\ O!AcceptedIsRecorded' /\ Boards' /\ OwnerAhead'
  BY <1>1, <1>2, BoardsKeep
<1>4. QueuesFine'
  BY <1>1, <1>2, <1>3, BacklogKeeps, InboxKeeps, LaneKeeps, ResultsKeep, ServerKeeps DEF ControlInv, QueuesFine
<1>5. OwnerFine'
  BY <1>1, <1>2 DEF ControlInv, OwnerFine
<1>6. Flights'
  BY <1>1 DEF ControlInv, Flights, Fits, OnBoard, Kept, Truthful
<1> QED BY <1>3, <1>4, <1>5, <1>6 DEF ControlInv

\* A connection is accepted: the envelope takes the request its command carries.
LEMMA ControlAccept == ASSUME ControlInv, O!Accept PROVE ControlInv'
<1>1. /\ coOwner # "off" /\ coServer = <<>> /\ coBacklog # <<>> /\ coBacklog' = Tail(coBacklog)
      /\ UNCHANGED <<coLease, coOwner, coLane, coRetained, coResults, coMem, coAwaited, coFailed, coLog>>
  BY DEF O!Accept
<1> DEFINE h == Head(coBacklog)
<1>2. h \in Connections /\ Asked(h.client)
  <2>1. coBacklog \in Seq(Connections) /\ \A i \in 1 .. Len(coBacklog) : Asked(coBacklog[i].client)
    BY DEF ControlInv, QueuesFine, BacklogFine
  <2>2. Head(coBacklog) = coBacklog[1] /\ Len(coBacklog) \in Nat \ {0} /\ Head(coBacklog) \in Connections
    BY <1>1, <2>1, TailOf
  <2>3. 1 \in 1 .. Len(coBacklog)
    BY <2>2
  <2> QED BY <2>1, <2>2, <2>3
<1> HIDE DEF h
<1>3. PICK e : e = [client |-> h.client, try |-> h.try, request |-> coClient[h.client].request]
  OBVIOUS
<1>4. h.client \in CoClients /\ h.try \in Nat \ {0}
  BY <1>2 DEF Connections
<1>5. coClient[h.client].request \in CoRequests
  BY <1>2, <1>4 DEF ControlInv, CommandsFine
<1>6. /\ e \in Envelopes /\ e.client = h.client /\ e.try = h.try /\ e.try >= 1
      /\ e.request = coClient[h.client].request
  BY <1>3, <1>4, <1>5 DEF Envelopes
<1>7. Genuine(e)
  BY <1>2, <1>4, <1>6 DEF Genuine
<1>8. \/ coInbox' = Append(coInbox, e) /\ coServer' = <<e>> /\ UNCHANGED coClient
      \/ /\ coClient' = IF O!Waits(e) THEN O!Finish(e.client, "busy") ELSE coClient
         /\ UNCHANGED <<coInbox, coServer>>
  BY <1>3 DEF O!Accept, O!Envelope, h
<1>9. coClient \in [CoClients -> CommandState]
  BY DEF ControlInv, CommandsFine
<1>10. Settles
  <2>1. CASE UNCHANGED coClient
    BY <1>9, <2>1 DEF Settles
  <2>2. CASE O!Waits(e) /\ coClient' = O!Finish(e.client, "busy")
    <3>1. coClient[e.client].pc = "waiting" /\ e.client \in CoClients
      BY <1>4, <1>6, <2>2 DEF O!Waits
    <3>2. "busy" \in CommandAnswers /\ "busy" # "accepted"
      BY DEF CommandAnswers
    <3> QED BY <2>2, <3>1, <3>2, FinishSettles
  <2> QED BY <1>8, <2>1, <2>2
<1>11. CommandsFine' /\ Steady /\ O!AcceptedIsRecorded' /\ Boards' /\ OwnerAhead'
  BY <1>1, <1>10, BoardsKeep
<1>12. Genuine(e)'
  BY <1>6, <1>7, <1>11, GenuineKeeps
<1>13. BacklogFine' /\ LaneFine' /\ ResultsFine'
  BY <1>1, <1>11, BacklogTail, LaneKeeps, ResultsKeep DEF ControlInv, QueuesFine
<1>14. InboxFine' /\ ServerFine'
  <2>1. CASE coInbox' = Append(coInbox, e) /\ coServer' = <<e>>
    <3>1. InboxFine'
      BY <1>6, <1>11, <1>12, <2>1, InboxAppend DEF ControlInv, QueuesFine
    <3>2. ServerFine'
      BY <1>6, <1>12, <2>1 DEF ServerFine
    <3> QED BY <3>1, <3>2
  <2>2. CASE UNCHANGED <<coInbox, coServer>>
    BY <1>11, <2>2, InboxKeeps, ServerKeeps DEF ControlInv, QueuesFine
  <2> QED BY <1>8, <2>1, <2>2
<1>15. OwnerFine'
  BY <1>1 DEF ControlInv, OwnerFine
<1>16. Flights'
  BY <1>1 DEF ControlInv, Flights, Fits, OnBoard, Kept, Truthful
<1> QED BY <1>11, <1>13, <1>14, <1>15, <1>16 DEF ControlInv, QueuesFine

\* A lookup joins the lane, or the owner refuses.
LEMMA ControlQueue == ASSUME ControlInv, O!QueueLookup PROVE ControlInv'
<1>1. /\ coOwner # "off" /\ coInbox # <<>> /\ coInbox' = Tail(coInbox)
      /\ UNCHANGED <<coLease, coOwner, coBacklog, coRetained, coResults, coMem, coAwaited, coFailed, coLog>>
  BY DEF O!QueueLookup
<1>2. coClient \in [CoClients -> CommandState]
  BY DEF ControlInv, CommandsFine
<1>3. PICK e \in Envelopes : e = Head(coInbox) /\ Genuine(e)
  <2>1. coInbox \in Seq(Envelopes) /\ \A i \in 1 .. Len(coInbox) : Genuine(coInbox[i])
    BY DEF ControlInv, QueuesFine, InboxFine
  <2>2. Head(coInbox) = coInbox[1] /\ Len(coInbox) \in Nat \ {0} /\ Head(coInbox) \in Envelopes
    BY <1>1, <2>1, TailOf
  <2>3. 1 \in 1 .. Len(coInbox)
    BY <2>2
  <2> QED BY <2>1, <2>2, <2>3
<1>4. PICK q : q = [kind |-> "lookup", envelope |-> e, sequence |-> 0]
  OBVIOUS
<1>5. q \in LaneRequests /\ q.kind = "lookup" /\ q.envelope = e /\ q.sequence = 0
  BY <1>4 DEF LaneRequests
<1>6. \/ coLane' = Append(coLane, q) /\ UNCHANGED <<coServer, coClient>>
      \/ O!Answered(e, "busy") /\ UNCHANGED coLane
  BY <1>3, <1>4 DEF O!QueueLookup
<1>7. Settles /\ (coServer' = coServer \/ coServer' = <<>>)
  <2>1. CASE UNCHANGED <<coServer, coClient>>
    BY <1>2, <2>1 DEF Settles
  <2>2. CASE O!Answered(e, "busy")
    <3>1. "busy" \in CommandAnswers /\ "busy" # "accepted"
      BY DEF CommandAnswers
    <3> QED BY <1>3, <2>2, <3>1, AnsweredSettles
  <2> QED BY <1>6, <2>1, <2>2
<1>8. CommandsFine' /\ Steady /\ O!AcceptedIsRecorded' /\ Boards' /\ OwnerAhead'
  BY <1>1, <1>7, BoardsKeep
<1>9. LaneFine'
  <2>1. CASE coLane' = Append(coLane, q)
    BY <1>3, <1>5, <1>8, <2>1, LaneAppend DEF ControlInv, QueuesFine
  <2>2. CASE UNCHANGED coLane
    BY <1>8, <2>2, LaneKeeps DEF ControlInv, QueuesFine
  <2> QED BY <1>6, <2>1, <2>2
<1>10. QueuesFine'
  BY <1>1, <1>7, <1>8, <1>9, BacklogKeeps, InboxTail, ResultsKeep, ServerKeeps DEF ControlInv, QueuesFine
<1>11. OwnerFine'
  BY <1>1 DEF ControlInv, OwnerFine
<1>12. Flights'
  <2>1. CASE UNCHANGED coLane
    BY <1>1, <2>1 DEF ControlInv, Flights, Fits, OnBoard, Kept, Truthful
  <2>2. CASE coLane' = Append(coLane, q)
    <3>1. /\ Len(coLane') = Len(coLane) + 1 /\ Len(coLane) \in Nat /\ coLane'[Len(coLane) + 1] = q
          /\ \A i \in 1 .. Len(coLane) : coLane'[i] = coLane[i]
      BY <1>5, <2>2, AppendOf DEF ControlInv, QueuesFine, LaneFine
    <3>2. \A i \in 1 .. Len(coLane') : Fits(coLane[i])'
      BY <1>1, <1>5, <3>1 DEF ControlInv, Flights, Fits, OnBoard
    <3> QED BY <1>1, <3>2 DEF ControlInv, Flights, OnBoard, Kept, Truthful
  <2> QED BY <1>6, <2>1, <2>2
<1> QED BY <1>8, <1>10, <1>11, <1>12 DEF ControlInv

\* A set of natural numbers has a least one.
LEMMA LeastNatural ==
  ASSUME NEW T \in SUBSET Nat, T # {} PROVE \E m \in T : \A k \in T : m <= k
<1>1. PICK m \in T : \A k \in T : ~(<<k, m>> \in OpToRel(<, Nat))
  BY NatLessThanWellFounded, WFMin
<1>2. \A k \in T : <<k, m>> \in Nat \X Nat
  OBVIOUS
<1>3. \A k \in T : k < m => <<k, m>> \in OpToRel(<, Nat)
  BY <1>2 DEF OpToRel
<1>4. \A k \in T : ~(k < m)
  BY <1>1, <1>3
<1> QED BY <1>4

\* The head of the lane.
LEMMA LaneHead ==
  ASSUME ControlInv, coLane # <<>>
  PROVE  Head(coLane) \in LaneRequests /\ Genuine(Head(coLane).envelope) /\ Fits(Head(coLane))
<1>1. /\ coLane \in Seq(LaneRequests)
      /\ \A i \in 1 .. Len(coLane) : Genuine(coLane[i].envelope) /\ Fits(coLane[i])
  BY DEF ControlInv, QueuesFine, LaneFine, Flights
<1>2. Head(coLane) = coLane[1] /\ Len(coLane) \in Nat \ {0} /\ Head(coLane) \in LaneRequests
  BY <1>1, TailOf
<1>3. 1 \in 1 .. Len(coLane)
  BY <1>2
<1> QED BY <1>1, <1>2, <1>3

\* What is left of the lane when its head is done.
LEMMA LaneRest ==
  ASSUME ControlInv, Growing, Steady, coLane # <<>>, coLane' = Tail(coLane)
  PROVE  LaneFine' /\ \A i \in 1 .. Len(coLane') : Fits(coLane[i])'
<1>1. \A i \in 1 .. Len(coLane') : i + 1 \in 1 .. Len(coLane) /\ coLane'[i] = coLane[i + 1]
  BY TailOf DEF ControlInv, QueuesFine, LaneFine
<1>2. \A i \in 1 .. Len(coLane') : Fits(coLane[i])'
  <2> TAKE i \in 1 .. Len(coLane')
  <2>1. PICK q : q = coLane[i + 1] /\ q = coLane'[i] /\ Fits(q)
    BY <1>1 DEF ControlInv, Flights
  <2>2. Fits(q)'
    BY <2>1, FitsKeeps DEF ControlInv
  <2> QED BY <2>1, <2>2 DEF Fits, OnBoard
<1> QED BY <1>2, LaneTail DEF ControlInv, QueuesFine

\* An answer joins the others.
LEMMA ResultsJoin ==
  ASSUME ControlInv, Growing, Steady, NEW x \in LaneAnswers, Genuine(x.envelope), Truthful(x)',
         coResults' = Append(coResults, x)
  PROVE  ResultsFine' /\ \A i \in 1 .. Len(coResults') : Truthful(coResults[i])'
<1>1. ResultsFine'
  BY ResultsAppend DEF ControlInv, QueuesFine
<1>2. /\ Len(coResults') = Len(coResults) + 1 /\ Len(coResults) \in Nat
      /\ coResults'[Len(coResults) + 1] = x
      /\ \A i \in 1 .. Len(coResults) : coResults'[i] = coResults[i]
  BY AppendOf DEF ControlInv, QueuesFine, ResultsFine
<1>3. \A i \in 1 .. Len(coResults') : Truthful(coResults[i])'
  <2> TAKE i \in 1 .. Len(coResults')
  <2>1. CASE i = Len(coResults) + 1
    BY <1>2, <2>1 DEF Truthful, Kept
  <2>2. CASE i \in 1 .. Len(coResults)
    <3>1. PICK y : y = coResults[i] /\ y = coResults'[i] /\ Truthful(y)
      BY <1>2, <2>2 DEF ControlInv, Flights
    <3>2. Truthful(y)'
      BY <3>1, TruthfulKeeps DEF ControlInv
    <3> QED BY <3>1, <3>2 DEF Truthful, Kept
  <2> QED BY <1>2, <2>1, <2>2
<1> QED BY <1>1, <1>3

\* One batch in one transaction: at most one request more in the store, at its place.
LEMMA CommitEffect ==
  ASSUME ControlInv, coOwner # "off", NEW e \in Envelopes, NEW s \in Nat, OnBoard(s, e.request),
         O!CommitBatch(e, s), UNCHANGED <<coMem, coOwner, coAwaited, coFailed>>
  PROVE  /\ \E x \in LaneAnswers : /\ coResults' = Append(coResults, x) /\ x.envelope = e
                                   /\ Truthful(x)'
         /\ Boards' /\ OwnerAhead' /\ Growing /\ LogGrows
         /\ \A y \in coRetained' : y \in Batches /\ OnBoard(y.sequence, y.request)
<1>1. PICK r \in CoRequests : r = e.request
  BY DEF Envelopes
<1>2. /\ coLog \in Seq(CoRequests) /\ coMem \in Seq(CoRequests) /\ Len(coLog) \in Nat /\ Len(coMem) \in Nat
      /\ Len(coLog) <= Len(coMem) /\ \A i \in 1 .. Len(coLog) : coMem[i] = coLog[i]
      /\ s \in 1 .. Len(coMem) /\ coMem[s] = r
  BY <1>1 DEF ControlInv, Boards, OwnerAhead, OnBoard
<1>3. O!Recorded(r.op) => /\ O!MatchReplay(r) \in {"accepted", "conflict"}
                          /\ O!MatchReplay(r) = "accepted" => \E i \in 1 .. Len(coLog) : coLog[i] = r
  BY ReplayMatches
<1>4. PICK a \in CommandAnswers \cup {"recorded"} :
        /\ coResults' = Append(coResults, [kind |-> "commit", envelope |-> e, sequence |-> s, answer |-> a])
        /\ a = "accepted" => \E i \in 1 .. Len(coLog) : coLog[i] = r
        /\ \/ coLog' = coLog /\ a # "recorded"
           \/ /\ coLog' = Append(coLog, r) /\ a = "recorded"
              /\ ~O!Recorded(r.op) /\ s = Len(coLog) + 1
  <2> USE DEF CommandAnswers
  <2>1. CASE O!Recorded(r.op)
    <3>1. O!CommitOutcome(r, s) = O!MatchReplay(r)
      BY <2>1 DEF O!CommitOutcome
    <3> QED BY <1>1, <1>3, <2>1, <3>1 DEF O!CommitBatch, O!Reply
  <2>2. CASE ~O!Recorded(r.op) /\ s = Len(coLog) + 1
    <3>1. O!CommitOutcome(r, s) = "recorded"
      BY <2>2 DEF O!CommitOutcome
    <3> QED BY <1>1, <2>2, <3>1 DEF O!CommitBatch, O!Reply
  <2>3. CASE ~O!Recorded(r.op) /\ s # Len(coLog) + 1
    <3>1. O!CommitOutcome(r, s) = "conflict"
      BY <2>3 DEF O!CommitOutcome
    <3> QED BY <1>1, <2>3, <3>1 DEF O!CommitBatch, O!Reply
  <2> QED BY <2>1, <2>2, <2>3
<1>5. PICK x \in LaneAnswers : x = [kind |-> "commit", envelope |-> e, sequence |-> s, answer |-> a]
  BY DEF LaneAnswers
<1>6. coResults' = Append(coResults, x) /\ x.envelope = e /\ x.kind = "commit" /\ x.sequence = s /\ x.answer = a
  BY <1>4, <1>5
<1>7. Growing
  <2>1. CASE coLog' = coLog
    BY <1>2, <2>1 DEF Growing, Extends
  <2>2. CASE coLog' = Append(coLog, r)
    BY <1>2, <2>2, AppendOf DEF Growing, Extends
  <2> QED BY <1>4, <2>1, <2>2
<1>8. LogGrows
  BY <1>2, <1>7 DEF LogGrows, Growing, Extends, O!Range
<1>9. \A i \in 1 .. Len(coMem) : Kept(i) => Kept(i)'
  BY <1>7, KeptKeeps DEF ControlInv
<1>10. /\ coLog' \in Seq(CoRequests) /\ Len(coLog') \in Nat
       /\ \A i, j \in 1 .. Len(coLog') : coLog'[i].op = coLog'[j].op => i = j
       /\ Len(coLog') <= Len(coMem) /\ \A i \in 1 .. Len(coLog') : coMem[i] = coLog'[i]
  <2>1. \A i, j \in 1 .. Len(coLog) : coLog[i].op = coLog[j].op => i = j
    BY DEF ControlInv, Boards
  <2>2. CASE coLog' = coLog
    BY <1>2, <2>1, <2>2
  <2>3. CASE coLog' = Append(coLog, r) /\ ~O!Recorded(r.op) /\ s = Len(coLog) + 1
    <3>1. \A i \in 1 .. Len(coLog) : coLog[i].op # r.op
      BY <1>2, <2>3 DEF O!Recorded
    <3>2. /\ coLog' \in Seq(CoRequests) /\ Len(coLog') = Len(coLog) + 1 /\ coLog'[Len(coLog) + 1] = r
          /\ \A i \in 1 .. Len(coLog) : coLog'[i] = coLog[i]
      BY <1>2, <2>3, AppendOf
    <3>3. \A i, j \in 1 .. Len(coLog') : coLog'[i].op = coLog'[j].op => i = j
      <4> SUFFICES ASSUME NEW i \in 1 .. Len(coLog'), NEW j \in 1 .. Len(coLog'),
                          coLog'[i].op = coLog'[j].op
                   PROVE  i = j
        OBVIOUS
      <4>1. /\ i = Len(coLog) + 1 \/ (i \in 1 .. Len(coLog) /\ coLog'[i] = coLog[i])
            /\ j = Len(coLog) + 1 \/ (j \in 1 .. Len(coLog) /\ coLog'[j] = coLog[j])
        BY <1>2, <3>2
      <4> QED BY <2>1, <3>1, <3>2, <4>1
    <3>4. coMem[s] = r /\ s = Len(coLog) + 1 /\ Len(coLog') <= Len(coMem)
      BY <1>2, <2>3, <3>2
    <3>5. \A i \in 1 .. Len(coLog') : coMem[i] = coLog'[i]
      <4> TAKE i \in 1 .. Len(coLog')
      <4>1. i = Len(coLog) + 1 \/ (i \in 1 .. Len(coLog) /\ coLog'[i] = coLog[i])
        BY <1>2, <3>2
      <4> QED BY <1>2, <3>2, <3>4, <4>1
    <3> QED BY <1>2, <3>2, <3>3, <3>4, <3>5
  <2> QED BY <1>4, <2>2, <2>3
<1>11. Boards'
  BY <1>10 DEF ControlInv, Boards
<1>12. OwnerAhead'
  <2>1. \A i \in 1 .. Len(coMem) : i \in coAwaited \/ Kept(i)'
    BY <1>9 DEF ControlInv, OwnerAhead
  <2> QED BY <1>10, <2>1 DEF OwnerAhead, Kept
<1>13. Truthful(x)'
  <2>1. ASSUME a \in {"recorded", "accepted"}
        PROVE  Kept(s)' /\ \E j \in 1 .. Len(coLog') : coLog'[j] = r
    <3>1. CASE a = "accepted"
      <4>1. PICK j \in 1 .. Len(coLog) : coLog[j] = r
        BY <1>4, <3>1
      <4>2. j \in 1 .. Len(coLog') /\ coLog'[j] = r
        BY <1>2, <1>7, <1>10, <4>1 DEF Growing, Extends
      <4>3. j \in 1 .. Len(coMem) /\ coMem[j] = coMem[s]
        BY <1>2, <4>1
      <4>4. j = s \/ coMem[s].family = "history"
        BY <1>2, <4>3 DEF ControlInv, Boards
      <4>5. Kept(s)'
        BY <1>2, <4>2, <4>4 DEF Kept
      <4> QED BY <4>2, <4>5
    <3>2. CASE a = "recorded"
      <4>1. s \in 1 .. Len(coLog') /\ coLog'[s] = r
        BY <1>2, <1>4, <3>2, AppendOf
      <4> QED BY <1>2, <4>1 DEF Kept
    <3> QED BY <2>1, <3>1, <3>2
  <2> QED BY <1>1, <1>6, <2>1 DEF Truthful, Kept
<1>14. \A y \in coRetained' : y \in Batches /\ OnBoard(y.sequence, y.request)
  <2>1. PICK b \in Batches : b = [sequence |-> s, request |-> e.request]
    BY <1>1 DEF Batches
  <2>2. coRetained' \subseteq coRetained \cup {b}
    BY <2>1 DEF O!CommitBatch
  <2>3. b.sequence = s /\ b.request = e.request
    BY <2>1
  <2> QED BY <2>1, <2>2, <2>3 DEF ControlInv, Flights
<1> QED BY <1>6, <1>7, <1>8, <1>11, <1>12, <1>13, <1>14

\* A transaction of the worker.
LEMMA ControlWorker == ASSUME ControlInv, O!Worker PROVE ControlInv'
<1>1. /\ coOwner # "off" /\ coLane # <<>>
      /\ UNCHANGED <<coClient, coLease, coOwner, coBacklog, coServer, coInbox, coMem, coAwaited, coFailed>>
  BY DEF O!Worker
<1>2. PICK q \in LaneRequests : q = Head(coLane)
  BY <1>1, LaneHead
<1>3. /\ Genuine(q.envelope) /\ Fits(q) /\ q.envelope \in Envelopes /\ q.sequence \in Nat
  BY <1>1, <1>2, LaneHead DEF LaneRequests
<1>4. Settles
  BY <1>1 DEF Settles, ControlInv, CommandsFine
<1>5. Steady
  BY <1>1 DEF Steady, Asked
<1>6. coLog \in Seq(CoRequests) /\ coMem \in Seq(CoRequests)
  BY DEF ControlInv, Boards
<1>7. UNCHANGED coLog => Growing /\ LogGrows /\ Boards' /\ OwnerAhead'
  BY <1>1, <1>6 DEF Growing, Extends, LogGrows, ControlInv, Boards, OwnerAhead, Kept
\* Every step of the worker gives one true answer; all else is as it was or in order.
<1>8. ASSUME NEW x \in LaneAnswers, coResults' = Append(coResults, x), Genuine(x.envelope), Truthful(x)',
             Boards', OwnerAhead', Growing, LogGrows,
             \A y \in coRetained' : y \in Batches /\ OnBoard(y.sequence, y.request),
             LaneFine', \A i \in 1 .. Len(coLane') : Fits(coLane[i])'
      PROVE  ControlInv'
  <2>1. CommandsFine' /\ Steady /\ O!AcceptedIsRecorded'
    BY <1>1, <1>4, <1>8, SettlesKeeps
  <2>2. ResultsFine' /\ \A i \in 1 .. Len(coResults') : Truthful(coResults[i])'
    BY <1>5, <1>8, ResultsJoin
  <2>3. QueuesFine'
    BY <1>1, <1>8, <2>1, <2>2, BacklogKeeps, InboxKeeps, ServerKeeps DEF ControlInv, QueuesFine
  <2>4. OwnerFine'
    BY <1>1 DEF ControlInv, OwnerFine
  <2>5. Flights'
    BY <1>1, <1>8, <2>2 DEF Flights, OnBoard
  <2> QED BY <1>8, <2>1, <2>3, <2>4, <2>5 DEF ControlInv
<1>9. CASE O!WorkerLookup(q)
  <2>1. PICK r \in CoRequests : r = q.envelope.request
    BY <1>3 DEF Envelopes
  <2>2. /\ q.kind = "lookup" /\ coLane' = Tail(coLane) /\ UNCHANGED <<coRetained, coLog>>
        /\ coResults' = O!Reply("lookup", q.envelope, 0, IF O!Recorded(r.op) THEN O!MatchReplay(r) ELSE "none")
    BY <1>9, <2>1 DEF O!WorkerLookup
  <2>3. PICK a \in CommandAnswers :
          /\ coResults' = Append(coResults, [kind |-> "lookup", envelope |-> q.envelope, sequence |-> 0, answer |-> a])
          /\ a = "accepted" => \E i \in 1 .. Len(coLog) : coLog[i] = r
    BY <2>2, ReplayMatches DEF CommandAnswers, O!Reply
  <2>4. PICK x \in LaneAnswers : x = [kind |-> "lookup", envelope |-> q.envelope, sequence |-> 0, answer |-> a]
    BY <1>3 DEF LaneAnswers
  <2>5. /\ coResults' = Append(coResults, x) /\ x.envelope = q.envelope /\ x.kind = "lookup"
        /\ x.answer = a /\ a # "recorded"
    BY <2>3, <2>4 DEF CommandAnswers
  <2>6. Truthful(x)'
    BY <2>1, <2>2, <2>3, <2>5 DEF Truthful
  <2>7. LaneFine' /\ \A i \in 1 .. Len(coLane') : Fits(coLane[i])'
    BY <1>1, <1>5, <1>7, <2>2, LaneRest
  <2>8. \A y \in coRetained' : y \in Batches /\ OnBoard(y.sequence, y.request)
    BY <2>2 DEF ControlInv, Flights
  <2>9. Boards' /\ OwnerAhead' /\ Growing /\ LogGrows
    BY <1>7, <2>2
  <2> QED BY <1>3, <1>8, <2>5, <2>6, <2>7, <2>8, <2>9
<1>10. CASE O!WorkerCommit(q)
  <2>1. /\ q.kind = "commit" /\ coLane' = Tail(coLane) /\ O!CommitBatch(q.envelope, q.sequence)
        /\ OnBoard(q.sequence, q.envelope.request)
    BY <1>3, <1>10 DEF O!WorkerCommit, Fits
  <2>2. /\ \E x \in LaneAnswers : coResults' = Append(coResults, x) /\ x.envelope = q.envelope /\ Truthful(x)'
        /\ Boards' /\ OwnerAhead' /\ Growing /\ LogGrows
        /\ \A y \in coRetained' : y \in Batches /\ OnBoard(y.sequence, y.request)
    BY <1>1, <1>3, <2>1, CommitEffect
  <2>3. LaneFine' /\ \A i \in 1 .. Len(coLane') : Fits(coLane[i])'
    BY <1>1, <1>5, <2>1, <2>2, LaneRest
  <2> QED BY <1>3, <1>8, <2>2, <2>3
<1>11. CASE O!WorkerRetry(q) /\ O!RetainedFrom(q.sequence) = {}
  <2>1. /\ q.kind = "retry" /\ coLane' = Tail(coLane) /\ UNCHANGED <<coRetained, coLog>>
        /\ coResults' = O!Reply("commit", q.envelope, q.sequence, "storage_failed")
    BY <1>11 DEF O!WorkerRetry
  <2>2. PICK x \in LaneAnswers :
          x = [kind |-> "commit", envelope |-> q.envelope, sequence |-> q.sequence, answer |-> "storage_failed"]
    BY <1>3 DEF LaneAnswers, CommandAnswers
  <2>3. /\ coResults' = Append(coResults, x) /\ x.envelope = q.envelope /\ x.kind = "commit"
        /\ x.answer = "storage_failed"
    BY <2>1, <2>2 DEF O!Reply
  <2>4. Truthful(x)'
    BY <2>3 DEF Truthful
  <2>5. LaneFine' /\ \A i \in 1 .. Len(coLane') : Fits(coLane[i])'
    BY <1>1, <1>5, <1>7, <2>1, LaneRest
  <2>6. \A y \in coRetained' : y \in Batches /\ OnBoard(y.sequence, y.request)
    BY <2>1 DEF ControlInv, Flights
  <2>7. Boards' /\ OwnerAhead' /\ Growing /\ LogGrows
    BY <1>7, <2>1
  <2> QED BY <1>3, <1>8, <2>3, <2>4, <2>5, <2>6, <2>7
<1>12. CASE O!WorkerRetry(q) /\ O!RetainedFrom(q.sequence) # {}
  <2>1. PICK y \in coRetained : y = O!NextRetained(q.sequence)
    <3>1. \E y \in O!RetainedFrom(q.sequence) :
            \A z \in O!RetainedFrom(q.sequence) : y.sequence <= z.sequence
      <4>1. \A z \in coRetained : z.sequence \in Nat
        BY DEF ControlInv, Flights, Batches
      <4>2. \A z \in O!RetainedFrom(q.sequence) : z \in coRetained
        BY DEF O!RetainedFrom
      <4> DEFINE N == {z.sequence : z \in O!RetainedFrom(q.sequence)}
      <4>3. N # {} /\ N \subseteq Nat
        BY <1>12, <4>1, <4>2
      <4>4. PICK n \in N : \A m \in N : n <= m
        <5> HIDE DEF N
        <5> QED BY <4>3, LeastNatural
      <4> QED BY <4>4
    <3>2. O!NextRetained(q.sequence) \in O!RetainedFrom(q.sequence)
      BY <3>1 DEF O!NextRetained
    <3> QED BY <3>2 DEF O!RetainedFrom
  <2>2. /\ q.kind = "retry" /\ O!CommitBatch(O!Nobody(y.request), y.sequence)
        /\ \/ coLane' = [coLane EXCEPT ![1].sequence = y.sequence + 1]
           \/ coLane' = Tail(coLane)
    BY <1>12, <2>1 DEF O!WorkerRetry
  <2>3. y \in Batches /\ OnBoard(y.sequence, y.request)
    BY DEF ControlInv, Flights
  <2>4. PICK e \in Envelopes : e = O!Nobody(y.request)
    BY <2>3 DEF Envelopes, Batches, O!Nobody, O!None
  <2>5. e.try = 0 /\ e.request = y.request
    BY <2>4 DEF O!Nobody
  <2>6. Genuine(e) /\ y.sequence \in Nat
    BY <2>3, <2>5 DEF Genuine, Batches
  <2>7. /\ \E x \in LaneAnswers : coResults' = Append(coResults, x) /\ x.envelope = e /\ Truthful(x)'
        /\ Boards' /\ OwnerAhead' /\ Growing /\ LogGrows
        /\ \A z \in coRetained' : z \in Batches /\ OnBoard(z.sequence, z.request)
    BY <1>1, <2>2, <2>3, <2>4, <2>5, <2>6, CommitEffect
  <2>8. LaneFine' /\ \A i \in 1 .. Len(coLane') : Fits(coLane[i])'
    <3>1. CASE coLane' = Tail(coLane)
      BY <1>1, <1>5, <2>7, <3>1, LaneRest
    <3>2. CASE coLane' = [coLane EXCEPT ![1].sequence = y.sequence + 1]
      <4>1. coLane \in Seq(LaneRequests) /\ coLane[1] = q /\ 1 \in 1 .. Len(coLane)
        BY <1>1, <1>2, TailOf DEF ControlInv, QueuesFine, LaneFine
      <4> DEFINE n == y.sequence + 1
      <4>0. n \in Nat
        BY <2>6
      <4>2. PICK p \in LaneRequests : p = [q EXCEPT !.sequence = n]
        <5> HIDE DEF n
        <5>1. [q EXCEPT !.sequence = n] \in LaneRequests
          BY <4>0 DEF LaneRequests
        <5> QED BY <5>1
      <4>3. p.kind = "retry" /\ p.envelope = q.envelope
        <5> HIDE DEF n
        <5> QED BY <2>2, <4>2 DEF LaneRequests
      <4>4. /\ coLane' \in Seq(LaneRequests) /\ Len(coLane') = Len(coLane) /\ coLane'[1] = p
            /\ \A i \in 1 .. Len(coLane) : i # 1 => coLane'[i] = coLane[i]
        BY <3>2, <4>1, <4>2
      <4>5. \A i \in 1 .. Len(coLane') : Genuine(coLane[i].envelope)' /\ Fits(coLane[i])'
        <5> TAKE i \in 1 .. Len(coLane')
        <5>0. i \in 1 .. Len(coLane) /\ coLane'[i] \in LaneRequests
          BY <4>4
        <5>1. coLane'[i].envelope \in Envelopes /\ coLane'[i].envelope = coLane[i].envelope
          <6>1. CASE i = 1
            BY <4>1, <4>3, <4>4, <5>0, <6>1 DEF LaneRequests
          <6>2. CASE i # 1
            BY <4>4, <5>0, <6>2 DEF LaneRequests
          <6> QED BY <6>1, <6>2
        <5>2. Genuine(coLane[i].envelope)'
          <6>1. PICK f \in Envelopes : f = coLane[i].envelope /\ f = coLane'[i].envelope /\ Genuine(f)
            BY <4>4, <5>1 DEF ControlInv, QueuesFine, LaneFine
          <6>2. Genuine(f)'
            BY <1>5, <6>1, GenuineKeeps
          <6> QED BY <6>1, <6>2 DEF Genuine
        <5>3. Fits(coLane[i])'
          <6>1. CASE i = 1
            BY <4>3, <4>4, <6>1 DEF Fits
          <6>2. CASE i # 1
            BY <1>1, <4>4, <6>2 DEF ControlInv, Flights, Fits, OnBoard
          <6> QED BY <6>1, <6>2
        <5> QED BY <5>2, <5>3
      <4> QED BY <4>4, <4>5 DEF LaneFine
    <3> QED BY <2>2, <3>1, <3>2
  <2> QED BY <1>8, <2>6, <2>7, <2>8
<1> QED BY <1>2, <1>9, <1>10, <1>11, <1>12 DEF O!Worker

\* The head of the results, and what is left of them.
LEMMA ResultsHead ==
  ASSUME ControlInv, coResults # <<>>
  PROVE  /\ Head(coResults) \in LaneAnswers /\ Genuine(Head(coResults).envelope)
         /\ Truthful(Head(coResults))
<1>1. /\ coResults \in Seq(LaneAnswers)
      /\ \A i \in 1 .. Len(coResults) : Genuine(coResults[i].envelope) /\ Truthful(coResults[i])
  BY DEF ControlInv, QueuesFine, ResultsFine, Flights
<1>2. Head(coResults) = coResults[1] /\ Len(coResults) \in Nat \ {0} /\ Head(coResults) \in LaneAnswers
  BY <1>1, TailOf
<1>3. 1 \in 1 .. Len(coResults)
  BY <1>2
<1> QED BY <1>1, <1>2, <1>3

LEMMA ResultsRest ==
  ASSUME ControlInv, Growing, coResults # <<>>, coResults' = Tail(coResults)
  PROVE  \A i \in 1 .. Len(coResults') : Truthful(coResults[i])'
<1>1. \A i \in 1 .. Len(coResults') : i + 1 \in 1 .. Len(coResults) /\ coResults'[i] = coResults[i + 1]
  BY TailOf DEF ControlInv, QueuesFine, ResultsFine
<1> TAKE i \in 1 .. Len(coResults')
<1>2. PICK y : y = coResults[i + 1] /\ y = coResults'[i] /\ Truthful(y)
  BY <1>1 DEF ControlInv, Flights
<1>3. Truthful(y)'
  BY <1>2, TruthfulKeeps DEF ControlInv
<1> QED BY <1>2, <1>3 DEF Truthful, Kept

\* A request that names what it changes is not applied twice to one board.
LEMMA NamedOnce ==
  ASSUME NEW r \in CoRequests, NEW board \in Seq(CoRequests), O!Reduces(board, r)
  PROVE  \A i \in 1 .. Len(board) : board[i] = r => r.family = "history"
<1> SUFFICES ASSUME NEW i \in 1 .. Len(board), board[i] = r, r.family # "history" PROVE FALSE
  OBVIOUS
<1>1. i \in DOMAIN board
  OBVIOUS
<1>2. r.family \in {"create", "remove", "transform"}
  BY ControlAssumption
<1>3. CASE r.family = "create"
  BY <1>1, <1>3 DEF O!Reduces, O!CanCreate
<1>4. CASE r.family = "remove"
  BY <1>1, <1>4 DEF O!Reduces, O!CanRemove
<1>5. CASE r.family = "transform"
  BY <1>1, <1>5 DEF O!Reduces, O!CanTransform
<1> QED BY <1>2, <1>3, <1>4, <1>5

\* A request applied to the board is awaited from then on.
LEMMA MemApplies ==
  ASSUME ControlInv, NEW r \in CoRequests, O!Reduces(coMem, r), coMem' = Append(coMem, r),
         coAwaited' = coAwaited \cup {Len(coMem) + 1}, UNCHANGED coLog, coOwner # "off", coOwner' # "off",
         coFailed' = coFailed \/ coFailed' = Len(coMem) + 1
  PROVE  /\ Boards' /\ OwnerAhead' /\ Growing
         /\ Len(coMem) + 1 \in 1 .. Len(coMem') /\ coMem'[Len(coMem) + 1] = r
<1> DEFINE n == Len(coMem) + 1
<1>1. coMem \in Seq(CoRequests) /\ coLog \in Seq(CoRequests)
  BY DEF ControlInv, Boards
<1>2. /\ coMem' \in Seq(CoRequests) /\ Len(coMem') = n /\ Len(coMem) \in Nat /\ coMem'[n] = r
      /\ \A i \in 1 .. Len(coMem) : coMem'[i] = coMem[i]
  BY <1>1, AppendOf
<1>3. \A i \in 1 .. Len(coMem) : coMem[i] = r => r.family = "history"
  BY <1>1, NamedOnce
<1>4. coAwaited \subseteq 1 .. Len(coMem) /\ coFailed \in coAwaited \cup {0}
  BY DEF ControlInv, Boards
<1>5. Growing
  BY <1>1, <1>2 DEF Growing, Extends
<1>6. Boards'
  <2>1. \A i, j \in 1 .. Len(coMem') : coMem'[i] = coMem'[j] => i = j \/ coMem'[i].family = "history"
    <3>1. \A i, j \in 1 .. Len(coMem) : coMem[i] = coMem[j] => i = j \/ coMem[i].family = "history"
      BY DEF ControlInv, Boards
    <3> QED BY <1>2, <1>3, <3>1
  <2>2. coAwaited' \subseteq 1 .. Len(coMem')
    <3>1. 1 .. Len(coMem) \subseteq 1 .. Len(coMem') /\ n \in 1 .. Len(coMem')
      BY <1>2
    <3> QED BY <1>4, <3>1
  <2>3. coFailed' \in coAwaited' \cup {0}
    BY <1>4
  <2> QED BY <1>2, <2>1, <2>2, <2>3 DEF ControlInv, Boards
<1>7. OwnerAhead'
  <2>1. \A i \in 1 .. Len(coMem) : i \in coAwaited' \/ Kept(i)'
    <3> TAKE i \in 1 .. Len(coMem)
    <3>1. i \in coAwaited \/ Kept(i)
      BY DEF ControlInv, OwnerAhead
    <3> QED BY <1>5, <3>1, KeptKeeps DEF ControlInv
  <2>2. \A i \in 1 .. Len(coMem') : i \in coAwaited' \/ Kept(i)'
    BY <1>2, <2>1
  <2>3. /\ Len(coLog) <= Len(coMem) /\ Len(coLog) \in Nat
        /\ \A i \in 1 .. Len(coLog) : coMem[i] = coLog[i]
    BY <1>1 DEF ControlInv, OwnerAhead
  <2>4. Len(coLog') <= Len(coMem') /\ \A i \in 1 .. Len(coLog') : coMem'[i] = coLog'[i]
    BY <1>2, <2>3
  <2> QED BY <2>2, <2>4 DEF OwnerAhead, Kept
<1>8. n \in 1 .. Len(coMem')
  BY <1>2
<1> QED BY <1>2, <1>5, <1>6, <1>7, <1>8

\* A lookup is answered, or its request applied to the board and sent to be stored, or, where the
\* lane is full, shown as a failed save.
LEMMA ControlLookup == ASSUME ControlInv, O!CompleteLookup PROVE ControlInv'
<1>1. /\ coOwner # "off" /\ coResults # <<>> /\ coResults' = Tail(coResults)
      /\ UNCHANGED <<coLease, coBacklog, coInbox, coRetained, coLog>>
  BY DEF O!CompleteLookup
<1>2. PICK h \in LaneAnswers : h = Head(coResults)
  BY <1>1, ResultsHead
<1>3. /\ Genuine(h.envelope) /\ Truthful(h) /\ h.kind = "lookup"
      /\ h.envelope \in Envelopes /\ h.answer \in CommandAnswers \cup {"recorded"}
  BY <1>1, <1>2, ResultsHead DEF LaneAnswers, O!CompleteLookup
<1>4. PICK e \in Envelopes : e = h.envelope /\ Genuine(e)
  BY <1>3
<1>5. PICK r \in CoRequests : r = e.request
  BY <1>4 DEF Envelopes
<1>6. LogGrows /\ coLog \in Seq(CoRequests) /\ coMem \in Seq(CoRequests)
  BY <1>1 DEF LogGrows, ControlInv, Boards
\* However the commands and the queues end up.
<1>7. ASSUME Settles, coServer' = coServer \/ coServer' = <<>>, Boards', OwnerAhead', Growing,
             coOwner' \in {coOwner, "live"},
             UNCHANGED coLane \/ \E q \in LaneRequests : /\ coLane' = Append(coLane, q)
                                                         /\ Genuine(q.envelope) /\ Fits(q)'
      PROVE  ControlInv'
  <2>1. CommandsFine' /\ Steady /\ O!AcceptedIsRecorded'
    BY <1>1, <1>6, <1>7, SettlesKeeps
  <2>2. LaneFine' /\ \A i \in 1 .. Len(coLane') : Fits(coLane[i])'
    <3>1. CASE UNCHANGED coLane
      <4>1. ASSUME NEW i \in 1 .. Len(coLane') PROVE Fits(coLane[i])'
        <5>1. PICK y : y = coLane[i] /\ y = coLane'[i] /\ Fits(y)
          BY <3>1, <4>1 DEF ControlInv, Flights
        <5>2. Fits(y)'
          BY <1>7, <5>1, FitsKeeps DEF ControlInv
        <5> QED BY <5>1, <5>2 DEF Fits, OnBoard
      <4> QED BY <2>1, <3>1, <4>1, LaneKeeps DEF ControlInv, QueuesFine
    <3>2. ASSUME NEW q \in LaneRequests, coLane' = Append(coLane, q), Genuine(q.envelope), Fits(q)'
          PROVE  LaneFine' /\ \A i \in 1 .. Len(coLane') : Fits(coLane[i])'
      <4>1. LaneFine'
        BY <2>1, <3>2, LaneAppend DEF ControlInv, QueuesFine
      <4>2. /\ Len(coLane') = Len(coLane) + 1 /\ Len(coLane) \in Nat /\ coLane'[Len(coLane) + 1] = q
            /\ \A i \in 1 .. Len(coLane) : coLane'[i] = coLane[i]
        BY <3>2, AppendOf DEF ControlInv, QueuesFine, LaneFine
      <4>3. ASSUME NEW i \in 1 .. Len(coLane') PROVE Fits(coLane[i])'
        <5>1. CASE i = Len(coLane) + 1
          BY <3>2, <4>2, <5>1 DEF Fits, OnBoard
        <5>2. CASE i \in 1 .. Len(coLane)
          <6>1. PICK y : y = coLane[i] /\ y = coLane'[i] /\ Fits(y)
            BY <4>2, <5>2 DEF ControlInv, Flights
          <6>2. Fits(y)'
            BY <1>7, <6>1, FitsKeeps DEF ControlInv
          <6> QED BY <6>1, <6>2 DEF Fits, OnBoard
        <5> QED BY <4>2, <5>1, <5>2
      <4> QED BY <4>1, <4>3
    <3> QED BY <1>7, <3>1, <3>2
  <2>3. QueuesFine'
    BY <1>1, <1>7, <2>1, <2>2, BacklogKeeps, InboxKeeps, ResultsTail, ServerKeeps DEF ControlInv, QueuesFine
  <2>4. OwnerFine'
    BY <1>1, <1>7 DEF ControlInv, OwnerFine
  <2>5. \A x \in coRetained' : x \in Batches /\ OnBoard(x.sequence, x.request)'
    BY <1>1, <1>7, FitsKeeps DEF ControlInv, Flights
  <2>6. Flights'
    BY <1>1, <1>7, <2>2, <2>5, ResultsRest DEF Flights
  <2> QED BY <1>7, <2>1, <2>3, <2>4, <2>6 DEF ControlInv
<1>8. CASE ~(h.answer = "none" /\ coFailed = 0 /\ O!Reduces(coMem, r))
  <2>1. PICK a \in CommandAnswers : /\ O!Answered(e, a) /\ UNCHANGED <<coMem, coAwaited, coLane, coOwner, coFailed>>
                                    /\ a = "accepted" => e.request \in O!Range(coLog)
    <3>1. /\ O!Answered(e, IF h.answer = "none" THEN "refused" ELSE h.answer)
          /\ UNCHANGED <<coMem, coAwaited, coLane, coOwner, coFailed>>
      BY <1>2, <1>4, <1>5, <1>8 DEF O!CompleteLookup
    <3>2. CASE h.answer = "none"
      BY <3>1, <3>2 DEF CommandAnswers
    <3>3. CASE h.answer # "none"
      <4>1. h.answer \in CommandAnswers /\ (h.answer = "accepted" => e.request \in O!Range(coLog))
        BY <1>3, <1>4, <1>6 DEF Truthful, O!Range
      <4> QED BY <3>1, <3>3, <4>1
    <3> QED BY <3>2, <3>3
  <2>2. Settles /\ (coServer' = coServer \/ coServer' = <<>>)
    BY <1>4, <2>1, AnsweredSettles
  <2>3. Boards' /\ OwnerAhead' /\ Growing
    BY <1>1, <1>6, <2>1 DEF ControlInv, Boards, OwnerAhead, Kept, Growing, Extends
  <2> QED BY <1>7, <2>1, <2>2, <2>3
<1>9. CASE h.answer = "none" /\ coFailed = 0 /\ O!Reduces(coMem, r)
  <2> DEFINE n == Len(coMem) + 1
  <2>1. /\ coMem' = Append(coMem, r) /\ coAwaited' = coAwaited \cup {n}
        /\ \/ /\ coFailed' = n /\ coOwner' = "live" /\ O!Answered(e, "storage_failed") /\ UNCHANGED coLane
           \/ /\ coLane' = Append(coLane, [kind |-> "commit", envelope |-> e, sequence |-> n])
              /\ UNCHANGED <<coServer, coClient, coOwner, coFailed>>
    BY <1>2, <1>4, <1>5, <1>9 DEF O!CompleteLookup, O!ApplyMutation
  <2>2. /\ Boards' /\ OwnerAhead' /\ Growing
        /\ n \in 1 .. Len(coMem') /\ coMem'[n] = r /\ n \in Nat
    <3>1. coOwner' # "off" /\ (coFailed' = coFailed \/ coFailed' = n)
      BY <1>1, <2>1
    <3>2. n \in Nat
      BY <1>6
    <3> HIDE DEF n
    <3>3. /\ Boards' /\ OwnerAhead' /\ Growing /\ n \in 1 .. Len(coMem') /\ coMem'[n] = r
      BY <1>1, <1>9, <2>1, <3>1, MemApplies DEF n
    <3> QED BY <3>2, <3>3
  <2> HIDE DEF n
  <2>3. CASE /\ coFailed' = n /\ coOwner' = "live" /\ O!Answered(e, "storage_failed") /\ UNCHANGED coLane
    <3>1. "storage_failed" \in CommandAnswers /\ "storage_failed" # "accepted"
      BY DEF CommandAnswers
    <3>2. Settles /\ (coServer' = coServer \/ coServer' = <<>>)
      BY <1>4, <2>3, <3>1, AnsweredSettles
    <3> QED BY <1>7, <2>2, <2>3, <3>2
  <2>4. CASE /\ coLane' = Append(coLane, [kind |-> "commit", envelope |-> e, sequence |-> n])
             /\ UNCHANGED <<coServer, coClient, coOwner, coFailed>>
    <3>1. PICK q \in LaneRequests : q = [kind |-> "commit", envelope |-> e, sequence |-> n]
      BY <2>2 DEF LaneRequests
    <3>2. q.kind = "commit" /\ q.envelope = e /\ q.sequence = n /\ coLane' = Append(coLane, q)
      BY <2>4, <3>1
    <3>3. Fits(q)'
      BY <1>5, <2>2, <3>2 DEF Fits, OnBoard
    <3>4. Settles
      BY <2>4 DEF Settles, ControlInv, CommandsFine
    <3> QED BY <1>4, <1>7, <2>2, <2>4, <3>2, <3>3, <3>4
  <2> QED BY <2>1, <2>3, <2>4
<1> QED BY <1>8, <1>9

\* A commit's result: what is kept is no longer awaited, and a failure is shown.
LEMMA ControlCommit == ASSUME ControlInv, O!CompleteCommit PROVE ControlInv'
<1>1. /\ coOwner # "off" /\ coResults # <<>> /\ coResults' = Tail(coResults)
      /\ UNCHANGED <<coLease, coBacklog, coInbox, coLane, coRetained, coMem, coLog>>
  BY DEF O!CompleteCommit
<1>2. PICK h \in LaneAnswers : h = Head(coResults)
  BY <1>1, ResultsHead
<1>3. /\ Genuine(h.envelope) /\ Truthful(h) /\ h.kind = "commit"
  BY <1>1, <1>2, ResultsHead DEF O!CompleteCommit
<1>4. PICK e \in Envelopes : e = h.envelope /\ Genuine(e)
  BY <1>3 DEF LaneAnswers
<1> DEFINE good == h.answer \in {"recorded", "accepted"}
<1>5. /\ O!Answered(e, IF good THEN "accepted" ELSE "storage_failed")
      /\ coOwner' = coOwner \/ coOwner' = "live"
      /\ coAwaited' = coAwaited \/ (good /\ coAwaited' = coAwaited \ {h.sequence})
      /\ coFailed' = 0 \/ coFailed' \in coAwaited' \/ UNCHANGED <<coAwaited, coFailed>>
  BY <1>2, <1>4 DEF O!CompleteCommit
<1>6. coMem \in Seq(CoRequests) /\ coLog \in Seq(CoRequests)
  BY DEF ControlInv, Boards
<1>7. good => Kept(h.sequence) /\ e.request \in O!Range(coLog)
  BY <1>3, <1>4, <1>6 DEF Truthful, O!Range
<1>8. Settles /\ (coServer' = coServer \/ coServer' = <<>>)
  <2>1. CASE good
    <3>1. O!Answered(e, "accepted") /\ "accepted" \in CommandAnswers
      BY <1>5, <2>1 DEF CommandAnswers
    <3> QED BY <1>4, <1>7, <2>1, <3>1, AnsweredSettles
  <2>2. CASE ~good
    <3>1. O!Answered(e, "storage_failed") /\ "storage_failed" \in CommandAnswers
          /\ "storage_failed" # "accepted"
      BY <1>5, <2>2 DEF CommandAnswers
    <3> QED BY <1>4, <3>1, AnsweredSettles
  <2> QED BY <2>1, <2>2
<1>9. LogGrows /\ Growing
  BY <1>1, <1>6 DEF LogGrows, Growing, Extends
<1>10. CommandsFine' /\ Steady /\ O!AcceptedIsRecorded'
  BY <1>1, <1>8, <1>9, SettlesKeeps
<1>11. QueuesFine'
  BY <1>1, <1>8, <1>10, BacklogKeeps, InboxKeeps, LaneKeeps, ResultsTail, ServerKeeps DEF ControlInv, QueuesFine
<1>12. OwnerFine'
  BY <1>1, <1>5 DEF ControlInv, OwnerFine
<1>13. Boards'
  BY <1>1, <1>5 DEF ControlInv, Boards
<1>14. OwnerAhead'
  BY <1>1, <1>5, <1>7 DEF ControlInv, OwnerAhead, Kept
<1>15. Flights'
  <2>1. \A i \in 1 .. Len(coResults') : Truthful(coResults[i])'
    BY <1>1, <1>9, ResultsRest
  <2> QED BY <1>1, <2>1 DEF ControlInv, Flights, Fits, OnBoard
<1> QED BY <1>10, <1>11, <1>12, <1>13, <1>14, <1>15 DEF ControlInv

\* The user retries the failed save.
LEMMA ControlRetry == ASSUME ControlInv, O!RetrySave PROVE ControlInv'
<1>1. /\ coOwner = "live" /\ coFailed # 0 /\ coFailed' = 0
      /\ UNCHANGED <<coClient, coLease, coOwner, coBacklog, coServer, coInbox, coRetained, coResults, coMem,
                     coAwaited, coLog>>
  BY DEF O!RetrySave
<1>2. coMem \in Seq(CoRequests) /\ coFailed \in 1 .. Len(coMem)
  BY <1>1 DEF ControlInv, Boards
<1>3. coMem[coFailed] \in CoRequests /\ coFailed \in Nat
  BY <1>2
<1>4. PICK e \in Envelopes : e = O!Nobody(coMem[coFailed])
  BY <1>3 DEF Envelopes, O!Nobody, O!None
<1>5. e.try = 0
  BY <1>4 DEF O!Nobody
<1>6. PICK q \in LaneRequests : q = [kind |-> "retry", sequence |-> coFailed, envelope |-> e]
  BY <1>3 DEF LaneRequests
<1>7. q.kind = "retry" /\ q.envelope = e
  BY <1>6
<1>8. coLane' = Append(coLane, q)
  BY <1>4, <1>6 DEF O!RetrySave
<1>9. Settles
  BY <1>1 DEF Settles, ControlInv, CommandsFine
<1>10. CommandsFine' /\ Steady /\ O!AcceptedIsRecorded' /\ Boards' /\ OwnerAhead'
  BY <1>1, <1>9, BoardsKeep
<1>11. LaneFine'
  BY <1>5, <1>7, <1>8, <1>10, LaneAppend DEF ControlInv, QueuesFine, Genuine
<1>12. QueuesFine'
  BY <1>1, <1>10, <1>11, BacklogKeeps, InboxKeeps, ResultsKeep, ServerKeeps DEF ControlInv, QueuesFine
<1>13. OwnerFine'
  BY <1>1 DEF ControlInv, OwnerFine
<1>14. /\ Len(coLane') = Len(coLane) + 1 /\ Len(coLane) \in Nat /\ coLane'[Len(coLane) + 1] = q
       /\ \A i \in 1 .. Len(coLane) : coLane'[i] = coLane[i]
  BY <1>8, AppendOf DEF ControlInv, QueuesFine, LaneFine
<1>15. \A i \in 1 .. Len(coLane') : Fits(coLane[i])'
  BY <1>1, <1>7, <1>14 DEF ControlInv, Flights, Fits, OnBoard
<1>16. Flights'
  BY <1>1, <1>15 DEF ControlInv, Flights, OnBoard, Kept, Truthful
<1> QED BY <1>10, <1>12, <1>13, <1>16 DEF ControlInv

\* The owner starts with the board the store has, and leaves nothing when it is gone.
LEMMA ControlStart == ASSUME ControlInv, O!StartOwner PROVE ControlInv'
<1>1. /\ coOwner = "off" /\ coLease = "none" /\ coOwner' = "live" /\ coLease' = "owner" /\ coMem' = coLog
      /\ UNCHANGED <<coClient, coBacklog, coServer, coInbox, coLane, coRetained, coResults,
                     coAwaited, coFailed, coLog>>
  BY DEF O!StartOwner, O!None
<1>2. /\ coLane = <<>> /\ coRetained = {} /\ coResults = <<>> /\ coAwaited = {} /\ coFailed = 0
  BY <1>1 DEF ControlInv, OwnerFine
<1>3. \A c \in CoClients : coClient[c].pc # "leased"
  BY <1>1, ControlAssumption DEF ControlInv, CommandsFine
<1>4. CommandsFine' /\ O!AcceptedIsRecorded' /\ Steady
  BY <1>1, <1>3 DEF ControlInv, CommandsFine, Asked, Steady, O!AcceptedIsRecorded
<1>5. QueuesFine'
  BY <1>1, <1>4, BacklogKeeps, InboxKeeps, LaneKeeps, ResultsKeep, ServerKeeps DEF ControlInv, QueuesFine
<1>6. OwnerFine'
  BY <1>1 DEF OwnerFine
<1>7. coLog \in Seq(CoRequests) /\ Len(coLog) \in Nat
  BY DEF ControlInv, Boards
<1>8. Boards' /\ OwnerAhead'
  <2>1. \A i, j \in 1 .. Len(coLog) : coLog[i] = coLog[j] => i = j
    BY DEF ControlInv, Boards
  <2> QED BY <1>1, <1>2, <1>7, <2>1 DEF ControlInv, Boards, OwnerAhead, Kept
<1>9. Flights'
  BY <1>1, <1>2 DEF Flights
<1> QED BY <1>4, <1>5, <1>6, <1>8, <1>9 DEF ControlInv

LEMMA ControlGone == ASSUME ControlInv, coOwner # "off", O!Gone PROVE ControlInv'
<1>1. /\ coOwner' = "off" /\ coLease' = "none" /\ coBacklog' = <<>> /\ coServer' = <<>> /\ coInbox' = <<>>
      /\ coLane' = <<>> /\ coRetained' = {} /\ coResults' = <<>> /\ coMem' = <<>>
      /\ coAwaited' = {} /\ coFailed' = 0 /\ coClient' = O!Disconnected /\ UNCHANGED coLog
  BY DEF O!Gone, O!None
<1>2. coClient \in [CoClients -> CommandState]
  BY DEF ControlInv, CommandsFine
<1>3. Settles
  <2>1. \A c \in CoClients : coClient'[c] = IF coClient[c].pc = "waiting"
          THEN [coClient[c] EXCEPT !.pc = "done", !.answer = "busy"] ELSE coClient[c]
    BY <1>1 DEF O!Disconnected
  <2>2. \A c \in CoClients : coClient'[c] \in CommandState
    BY <1>2, <2>1 DEF CommandState, CommandAnswers
  <2>3. coClient' \in [CoClients -> CommandState]
    BY <1>1, <2>2 DEF O!Disconnected
  <2>4. \A c \in CoClients : coClient[c].pc = "waiting" =>
          /\ coClient'[c].pc = "done" /\ coClient'[c].answer = "busy"
          /\ coClient'[c].request = coClient[c].request /\ coClient'[c].tries = coClient[c].tries
    BY <1>2, <2>1 DEF CommandState
  <2> QED BY <2>1, <2>3, <2>4 DEF Settles
<1>4. \A c \in CoClients : coClient[c].pc # "leased"
  BY ControlAssumption DEF ControlInv, CommandsFine, OwnerFine
<1>5. LogGrows
  BY <1>1 DEF LogGrows
<1>6. CommandsFine' /\ O!AcceptedIsRecorded'
  BY <1>3, <1>4, <1>5, SettlesKeeps
<1>7. QueuesFine'
  BY <1>1 DEF QueuesFine, BacklogFine, InboxFine, LaneFine, ResultsFine, ServerFine
<1>8. OwnerFine' /\ Boards' /\ OwnerAhead'
  BY <1>1 DEF ControlInv, OwnerFine, Boards, OwnerAhead, Kept
<1>9. Flights'
  BY <1>1 DEF Flights
<1> QED BY <1>6, <1>7, <1>8, <1>9 DEF ControlInv

LEMMA ControlQuit == ASSUME ControlInv, O!Quit \/ UNCHANGED coVars PROVE ControlInv'
<1>1. /\ UNCHANGED <<coClient, coLease, coBacklog, coServer, coInbox, coLane, coRetained, coResults, coMem,
                     coAwaited, coFailed, coLog>>
      /\ coOwner' = coOwner \/ (coOwner = "live" /\ coOwner' = "quitting")
  BY DEF O!Quit, O!ownerVars, coVars
<1>2. CommandsFine' /\ O!AcceptedIsRecorded' /\ Steady
  BY <1>1 DEF ControlInv, CommandsFine, Asked, Steady, O!AcceptedIsRecorded
<1>3. QueuesFine'
  BY <1>1, <1>2, BacklogKeeps, InboxKeeps, LaneKeeps, ResultsKeep, ServerKeeps DEF ControlInv, QueuesFine
<1>4. OwnerFine' /\ Boards' /\ OwnerAhead'
  BY <1>1 DEF ControlInv, OwnerFine, Boards, OwnerAhead, Kept
<1>5. Flights'
  BY <1>1 DEF ControlInv, Flights, Fits, OnBoard, Kept, Truthful
<1> QED BY <1>2, <1>3, <1>4, <1>5 DEF ControlInv

LEMMA ControlStep == ASSUME ControlInv, [Next]_vars PROVE ControlInv'
<1>1. CASE UNCHANGED coVars
  BY <1>1, ControlQuit
<1>2. CASE O!Next
  BY <1>2, ControlBegin, ControlDirect, ControlTimeouts, ControlAccept, ControlQueue, ControlWorker,
     ControlLookup, ControlCommit, ControlStart, ControlRetry, ControlQuit, ControlGone
     DEF O!Next, O!OwnerStep, O!Exit, O!Crash
<1> QED BY <1>1, <1>2 DEF vars, Next, SchemaLockNext, SessionLeaseNext, CaptureLaneNext,
          ScreenshotWatcherNext, SessionsNext, CompanionNext, ControlNext

\* A command that is told its request was accepted finds it in the store, however often and on
\* whichever way it was tried; the store holds the first operations of the owner's board, and the
\* owner waits for every other one but the repeat of a stored history move
\* (runner/owner_control, application/service): for any commands, requests, retries, restarts,
\* full lanes and failing commits.
THEOREM AcceptedIsKept == Spec => []ControlSafe
<1>1. Init => ControlInv
  BY ControlInit DEF Init
<1>2. ControlInv /\ [Next]_vars => ControlInv'
  BY ControlStep
<1>3. ControlInv => ControlSafe
  <2> SUFFICES ASSUME ControlInv PROVE O!ControlSafe
    BY DEF ControlSafe
  <2>1. O!TypeOK
    <3>1. \A c \in CoClients : coClient[c].tries \in 0 .. CoMaxTries
      BY DEF ControlInv, CommandsFine, CommandState
    <3>2. \A i \in DOMAIN coLog : coLog[i] \in CoRequests
      BY DEF ControlInv, Boards
    <3> QED BY <3>1, <3>2 DEF O!TypeOK, O!None, ControlInv, OwnerFine, Boards
  <2>2. O!BoardIsDurable
    <3> SUFFICES ASSUME coOwner # "off"
                 PROVE  /\ Len(coLog) <= Len(coMem) /\ \A i \in 1 .. Len(coLog) : coLog[i] = coMem[i]
                        /\ \A i \in DOMAIN coMem : i \in coAwaited \/ O!Stored(i)
      BY DEF O!BoardIsDurable
    <3>1. /\ coMem \in Seq(CoRequests) /\ coLog \in Seq(CoRequests) /\ Len(coLog) <= Len(coMem)
          /\ \A i \in 1 .. Len(coLog) : coMem[i] = coLog[i]
          /\ \A i \in 1 .. Len(coMem) : i \in coAwaited \/ Kept(i)
      BY DEF ControlInv, Boards, OwnerAhead
    <3>2. \A i \in 1 .. Len(coMem) : Kept(i) => O!Stored(i)
      BY <3>1 DEF Kept, O!Stored, O!Range
    <3> QED BY <3>1, <3>2
  <2> QED BY <2>1, <2>2 DEF O!ControlSafe, ControlInv
<1> QED BY <1>1, <1>2, <1>3, PTL DEF Spec

-----------------------------------------------------------------------------
(* The companion                                                            *)

HeRunning == {"launcher", "proqi"}
HePrograms == {"agent", "launcher", "proqi", "shell", "other"}
HeNames == HeSessions \cup {"none"}

\* Panes keep their shape.  A pane started by the plugin was opened by a toggle and runs, and a
\* launcher has published nothing.
PaneFine(p) ==
  /\ hePane[p] = [tab |-> hePane[p].tab, program |-> hePane[p].program, session |-> hePane[p].session,
                  plugin |-> hePane[p].plugin, leased |-> hePane[p].leased]
  /\ hePane[p].tab \in HeTabs /\ hePane[p].program \in HePrograms
  /\ hePane[p].plugin \in BOOLEAN
  /\ hePane[p].plugin = TRUE => p \in heOpened /\ hePane[p].program \in HeRunning
  /\ hePane[p].program = "launcher" => hePane[p].leased = FALSE
PanesFine ==
  /\ "none" \notin DOMAIN hePane
  /\ \A p \in DOMAIN hePane : PaneFine(p)

\* The records name panes that toggles opened.
RecordsFine ==
  /\ DOMAIN heRecord = HeTabs /\ heOpened \subseteq HeFresh
  /\ \A t \in HeTabs :
       /\ heRecord[t] = [pane |-> heRecord[t].pane, session |-> heRecord[t].session]
       /\ heRecord[t].pane \in heOpened \cup {"none"} /\ heRecord[t].session \in HeNames

\* What the running toggle carries.
HeLater == {"focus", "close", "saveClosed", "session", "others", "open", "save", "replace"}
ToggleFine ==
  \/ heToggle = H!Idle
  \/ /\ heToggle.pc = "plan"
     /\ heToggle = [pc |-> "plan", tab |-> heToggle.tab, focused |-> heToggle.focused,
                    seen |-> heToggle.seen]
     /\ heToggle.tab \in HeTabs
  \/ /\ heToggle.pc \in HeLater
     /\ heToggle = H!Toggle(heToggle.pc, heToggle.tab, heToggle.pane, heToggle.session,
                            heToggle.dead, heToggle.beside)
     /\ heToggle.tab \in HeTabs
     /\ heToggle.session \in HeNames /\ heToggle.dead \in heOpened \cup {"none"}
     /\ heToggle.pc \in {"close", "saveClosed"} => heToggle.pane = heRecord[heToggle.tab].pane
     /\ heToggle.pc = "save" => heToggle.pane \in heOpened

\* A companion: a pane of the plugin (PaneFine: it runs).
Companion(p) == p \in DOMAIN hePane /\ hePane[p].plugin = TRUE

\* A toggle that has probed its tab has seen each companion of it, or knows there is none.
TabKnown ==
  \A p \in DOMAIN hePane : Companion(p) /\ heToggle.pc # "idle" =>
    (hePane[p].tab = heToggle.tab =>
      /\ heToggle.pc = "plan" =>
           p \in DOMAIN heToggle.seen /\ heToggle.seen[p].presence \in {"present", "unknown"}
      /\ heToggle.pc \notin {"session", "others", "open"}
      /\ heToggle.pc = "save" => p = heToggle.pane)

\* Every companion is on record, or about to be.
OnRecord(p) ==
  \/ heRecord[hePane[p].tab] = [pane |-> p, session |-> hePane[p].session]
  \/ heToggle.pc = "save" /\ p = heToggle.pane
Recorded ==
  heUnsaved = FALSE =>
    /\ \A p \in DOMAIN hePane : Companion(p) => OnRecord(p)
    /\ heToggle.pc = "saveClosed" =>
         \A p \in DOMAIN hePane : Companion(p) => hePane[p].tab # heToggle.tab
    /\ heToggle.pc = "open" =>
         \A p \in DOMAIN hePane : Companion(p) => hePane[p].session # heToggle.session
    /\ heToggle.pc = "save" =>
         /\ heToggle.pane \in DOMAIN hePane /\ Companion(heToggle.pane) =>
             hePane[heToggle.pane].tab = heToggle.tab /\ hePane[heToggle.pane].session = heToggle.session

\* Two companions are in two tabs, and of two sessions unless a record was lost.
Alone ==
  \A p, q \in DOMAIN hePane : Companion(p) /\ Companion(q) /\ p # q =>
    /\ hePane[p].tab # hePane[q].tab
    /\ hePane[p].session = hePane[q].session => heUnsaved = TRUE

CompanionInv ==
  PanesFine /\ RecordsFine /\ ToggleFine /\ TabKnown /\ Recorded /\ Alone /\ heUnsaved \in BOOLEAN

LEMMA CompanionInit == ASSUME H!Init PROVE CompanionInv
<1>1. /\ hePane = [p \in {HeAgent[t] : t \in HeTabs} |->
                    H!Pane(CHOOSE t \in HeTabs : HeAgent[t] = p, "agent", "none", FALSE, FALSE)]
      /\ heRecord = [t \in HeTabs |-> H!NoRecord] /\ heToggle = H!Idle
      /\ heOpened = {} /\ heUnsaved = FALSE
  BY DEF H!Init
<1>2. ASSUME NEW p \in DOMAIN hePane
      PROVE  /\ \E t \in HeTabs : hePane[p] = [tab |-> t, program |-> "agent", session |-> "none",
                                              plugin |-> FALSE, leased |-> FALSE]
             /\ p # "none"
  <2>1. PICK t \in HeTabs : p = HeAgent[t]
    BY <1>1, Zenon
  <2>2. (CHOOSE u \in HeTabs : HeAgent[u] = p) \in HeTabs
    BY <2>1, Zenon
  <2>3. hePane[p] = H!Pane(CHOOSE u \in HeTabs : HeAgent[u] = p, "agent", "none", FALSE, FALSE)
    BY <1>1
  <2> QED BY <2>1, <2>2, <2>3, CompanionAssumption DEF H!Pane
<1>3. PanesFine
  <2>1. ASSUME NEW p \in DOMAIN hePane PROVE PaneFine(p)
    <3>1. PICK t \in HeTabs : hePane[p] = [tab |-> t, program |-> "agent", session |-> "none",
                                          plugin |-> FALSE, leased |-> FALSE]
      BY <1>2, <2>1
    <3>2. hePane[p].plugin = FALSE
      BY <3>1
    <3>3. hePane[p].plugin \in BOOLEAN
      BY <3>2
    <3> QED BY <3>1, <3>2, <3>3 DEF PaneFine, HePrograms
  <2>2. "none" \notin DOMAIN hePane
    BY <1>2
  <2> QED BY <2>1, <2>2 DEF PanesFine
<1>4. \A p : ~Companion(p)
  BY <1>2 DEF Companion
<1>5. RecordsFine
  BY <1>1 DEF RecordsFine, H!NoRecord, HeNames
<1> QED BY <1>1, <1>3, <1>4, <1>5 DEF CompanionInv, ToggleFine, TabKnown, Recorded, Alone, H!Idle

-----------------------------------------------------------------------------
(* The companion: the host's panes                                          *)

\* No companion appears or moves.
CompanionsKept ==
  \A p : Companion(p)' =>
    /\ Companion(p) /\ hePane'[p].tab = hePane[p].tab /\ hePane'[p].session = hePane[p].session

LEMMA PanesShrink ==
  ASSUME PanesFine, NEW p, hePane' = H!Without(p), heOpened' = heOpened
  PROVE  /\ PanesFine' /\ CompanionsKept /\ p \notin DOMAIN hePane'
         /\ DOMAIN hePane' \subseteq DOMAIN hePane
<1>1. /\ DOMAIN hePane' = DOMAIN hePane \ {p} /\ \A q \in DOMAIN hePane' : hePane'[q] = hePane[q]
  BY DEF H!Without, H!Live
<1>2. ASSUME NEW q \in DOMAIN hePane' PROVE PaneFine(q)'
  BY <1>1, <1>2 DEF PanesFine, PaneFine
<1> QED BY <1>1, <1>2 DEF PanesFine, CompanionsKept, Companion

\* Something else runs in a pane, or it is leased or not.
LEMMA PanesTurn ==
  ASSUME PanesFine, NEW p \in DOMAIN hePane, heOpened' = heOpened,
         NEW program \in HePrograms, NEW s, NEW plugin \in BOOLEAN, NEW leased,
         hePane' = [hePane EXCEPT ![p] = H!Pane(hePane[p].tab, program, s, plugin, leased)],
         plugin = TRUE => hePane[p].plugin = TRUE /\ program \in HeRunning /\ s = hePane[p].session,
         program = "launcher" => leased = FALSE
  PROVE  PanesFine' /\ CompanionsKept
<1>1. /\ DOMAIN hePane' = DOMAIN hePane /\ \A q \in DOMAIN hePane \ {p} : hePane'[q] = hePane[q]
      /\ hePane'[p] = [tab |-> hePane[p].tab, program |-> program, session |-> s, plugin |-> plugin,
                       leased |-> leased]
  BY DEF H!Pane, PanesFine
<1>2. PaneFine(p)'
  BY <1>1 DEF PanesFine, PaneFine
<1>3. ASSUME NEW q \in DOMAIN hePane \ {p} PROVE PaneFine(q)'
  BY <1>1, <1>3 DEF PanesFine, PaneFine
<1>4. CompanionsKept
  BY <1>1 DEF CompanionsKept, Companion
<1> QED BY <1>1, <1>2, <1>3, <1>4 DEF PanesFine

\* The programs in the panes do not wait for the toggle.
LEMMA ProgramsKeep ==
  ASSUME CompanionInv, UNCHANGED <<heRecord, heToggle, heOpened, heUnsaved>>, PanesFine',
         CompanionsKept
  PROVE  CompanionInv'
<1>1. /\ RecordsFine' /\ ToggleFine' /\ heUnsaved' \in BOOLEAN
  BY DEF CompanionInv, RecordsFine, ToggleFine
<1>2. TabKnown'
  BY DEF CompanionInv, TabKnown, CompanionsKept, Companion
<1>3. Recorded'
  BY DEF CompanionInv, Recorded, CompanionsKept, Companion, OnRecord
<1>4. Alone'
  BY DEF CompanionInv, Alone, CompanionsKept, Companion
<1> QED BY <1>1, <1>2, <1>3, <1>4 DEF CompanionInv

LEMMA CompanionEnvironment == ASSUME CompanionInv, H!Environment PROVE CompanionInv'
<1>0. PanesFine /\ UNCHANGED <<heRecord, heToggle, heOpened, heUnsaved>>
  BY DEF CompanionInv, H!Environment
<1>1. CASE UNCHANGED hePane
  <2>1. PanesFine' /\ CompanionsKept
    BY <1>0, <1>1 DEF PanesFine, PaneFine, CompanionsKept, Companion
  <2> QED BY <2>1, <1>0, ProgramsKeep
<1>2. CASE \E p \in DOMAIN hePane : hePane' = H!Without(p)
  BY <1>0, <1>2, PanesShrink, ProgramsKeep
<1>3. ASSUME NEW p \in DOMAIN hePane, H!Launch(p) \/ H!Publish(p) \/ H!Expire(p) \/ H!End(p)
             \/ H!RunInShell(p)
      PROVE  CompanionInv'
  <2>0. PaneFine(p) /\ hePane[p].plugin \in BOOLEAN
    BY <1>0 DEF PanesFine, PaneFine
  <2>1. CASE hePane' = H!Without(p)
    BY <2>1, <1>2
  <2>2. CASE H!Launch(p) /\ hePane' # H!Without(p)
    <3>1. /\ hePane[p].program = "launcher"
          /\ hePane' = [hePane EXCEPT ![p] = H!Pane(hePane[p].tab, "proqi", hePane[p].session,
                                                    hePane[p].plugin, FALSE)]
      BY <2>2 DEF H!Launch, H!Becomes
    <3>2. PanesFine' /\ CompanionsKept
      BY <3>1, <2>0, <1>0, PanesTurn DEF HePrograms, HeRunning
    <3> QED BY <3>2, <1>0, ProgramsKeep
  <2>3. CASE H!Publish(p)
    <3>1. hePane' = [hePane EXCEPT ![p] = H!Pane(hePane[p].tab, "proqi", hePane[p].session,
                                                 hePane[p].plugin, TRUE)]
      BY <2>3 DEF H!Publish, H!Becomes
    <3>2. PanesFine' /\ CompanionsKept
      BY <3>1, <2>0, <1>0, PanesTurn DEF HePrograms, HeRunning
    <3> QED BY <3>2, <1>0, ProgramsKeep
  <2>4. CASE H!Expire(p)
    <3>1. /\ hePane[p].program # "proqi" /\ hePane[p].leased # FALSE
          /\ hePane' = [hePane EXCEPT ![p] = H!Pane(hePane[p].tab, hePane[p].program, "none",
                                                    hePane[p].plugin, FALSE)]
      BY <2>4 DEF H!Expire, H!Becomes
    <3>2. hePane[p].plugin # TRUE /\ hePane[p].program \in HePrograms
      BY <3>1, <2>0 DEF PaneFine, HeRunning
    <3>3. PanesFine' /\ CompanionsKept
      BY <3>1, <3>2, <2>0, <1>0, PanesTurn
    <3> QED BY <3>3, <1>0, ProgramsKeep
  <2>5. CASE H!End(p) /\ hePane' # H!Without(p)
    <3>1. hePane' = [hePane EXCEPT ![p] = H!Pane(hePane[p].tab, "shell", "none", FALSE, hePane[p].leased)]
      BY <2>5 DEF H!End, H!Becomes
    <3>2. PanesFine' /\ CompanionsKept
      BY <3>1, <1>0, PanesTurn DEF HePrograms
    <3> QED BY <3>2, <1>0, ProgramsKeep
  <2>6. CASE H!RunInShell(p)
    <3>1. PICK program \in HePrograms, s \in HeNames :
            /\ hePane' = [hePane EXCEPT ![p] = H!Pane(hePane[p].tab, program, s, hePane[p].plugin,
                                                      hePane[p].leased)]
            /\ program # "launcher"
      BY <2>6 DEF H!RunInShell, H!Becomes, HePrograms, HeNames
    <3>2. hePane[p].plugin # TRUE
      BY <2>6, <2>0 DEF H!RunInShell, PaneFine, HeRunning
    <3>3. PanesFine' /\ CompanionsKept
      BY <3>1, <3>2, <2>0, <1>0, PanesTurn
    <3> QED BY <3>3, <1>0, ProgramsKeep
  <2> QED BY <1>3, <2>1, <2>2, <2>3, <2>4, <2>5, <2>6
<1> QED BY <1>1, <1>3 DEF H!Environment, H!Live

-----------------------------------------------------------------------------
(* The companion: the steps of a toggle                                     *)

\* A toggle that ends leaves every companion on record, or says that it could not.
LEMMA ToggleEnds ==
  ASSUME CompanionInv, heToggle' = H!Idle, UNCHANGED <<heRecord, heOpened>>, PanesFine',
         CompanionsKept, heUnsaved' \in BOOLEAN,
         heUnsaved' = FALSE => heUnsaved = FALSE /\ heToggle.pc # "save"
  PROVE  CompanionInv'
<1>1. RecordsFine' /\ ToggleFine' /\ TabKnown'
  BY DEF CompanionInv, RecordsFine, ToggleFine, TabKnown, H!Idle
<1>2. Recorded'
  BY DEF CompanionInv, Recorded, CompanionsKept, Companion, OnRecord, H!Idle
<1>3. Alone'
  BY DEF CompanionInv, Alone, CompanionsKept, Companion
<1> QED BY <1>1, <1>2, <1>3 DEF CompanionInv

\* Where the panes stay as they are.
LEMMA PanesSame ==
  ASSUME PanesFine, UNCHANGED <<hePane, heOpened>> PROVE PanesFine' /\ CompanionsKept
BY DEF PanesFine, PaneFine, CompanionsKept, Companion

\* What a toggle that planned carries, and how it goes on.
LEMMA ToggleCarries ==
  ASSUME ToggleFine, heToggle.pc \in HeLater
  PROVE  /\ heToggle = H!Toggle(heToggle.pc, heToggle.tab, heToggle.pane, heToggle.session,
                                heToggle.dead, heToggle.beside)
         /\ heToggle.tab \in HeTabs
         /\ heToggle.session \in HeNames /\ heToggle.dead \in heOpened \cup {"none"}
         /\ heToggle.pc \in {"close", "saveClosed"} => heToggle.pane = heRecord[heToggle.tab].pane
BY DEF ToggleFine, HeLater, H!Idle

LEMMA ToggleTurns ==
  ASSUME ToggleFine, heToggle.pc \in HeLater, NEW pc, heToggle' = [heToggle EXCEPT !.pc = pc]
  PROVE  /\ heToggle' = H!Toggle(pc, heToggle.tab, heToggle.pane, heToggle.session, heToggle.dead,
                                 heToggle.beside)
         /\ heToggle'.pc = pc /\ heToggle'.tab = heToggle.tab /\ heToggle'.pane = heToggle.pane
         /\ heToggle'.session = heToggle.session /\ heToggle'.dead = heToggle.dead
         /\ heToggle'.beside = heToggle.beside
BY ToggleCarries DEF H!Toggle

\* A probe never takes a companion for something else.
LEMMA CompanionSeen ==
  ASSUME PanesFine, NEW p, Companion(p), NEW silent
  PROVE  H!Presence(p, silent) \in {"present", "unknown"}
<1>1. p \in DOMAIN hePane /\ hePane[p].program \in HeRunning
  BY DEF PanesFine, PaneFine, Companion
<1>2. H!Classified(p, silent).kind \in {"proqi", "launcher", "unknown"}
  BY <1>1 DEF H!Classified, H!Live, HeRunning
<1> QED BY <1>1, <1>2 DEF H!Presence, HeRunning

LEMMA CompanionBegin ==
  ASSUME CompanionInv, NEW t \in HeTabs, H!Begin(t) PROVE CompanionInv'
<1>0. /\ UNCHANGED <<hePane, heRecord, heOpened, heUnsaved>> /\ heToggle = H!Idle
      /\ PanesFine' /\ CompanionsKept
  BY PanesSame DEF CompanionInv, H!Begin
<1>1. PICK silent, focused, seen :
        /\ heToggle' = [pc |-> "plan", tab |-> t, focused |-> focused, seen |-> seen]
        /\ seen = [p \in H!InTab(t) |-> [presence |-> H!Presence(p, silent),
                                         agent |-> hePane[p].program = "agent"]]
  BY DEF H!Begin
<1>2. ToggleFine'
  BY <1>1 DEF ToggleFine
<1>3. TabKnown'
  <2> SUFFICES ASSUME NEW p \in DOMAIN hePane, Companion(p), hePane[p].tab = t
               PROVE  p \in DOMAIN seen /\ seen[p].presence \in {"present", "unknown"}
    BY <1>0, <1>1 DEF TabKnown, Companion
  <2>1. p \in H!InTab(t)
    BY DEF H!InTab, H!Live
  <2>2. H!Presence(p, silent) \in {"present", "unknown"}
    BY CompanionSeen DEF CompanionInv
  <2> QED BY <2>1, <2>2, <1>1
<1>4. heToggle.pc = "idle" /\ heToggle'.pc = "plan"
  BY <1>0, <1>1 DEF H!Idle
<1>5. Recorded'
  BY <1>0, <1>4 DEF CompanionInv, Recorded, Companion, OnRecord
<1>6. RecordsFine' /\ Alone'
  BY <1>0 DEF CompanionInv, RecordsFine, Alone, Companion
<1> QED BY <1>0, <1>2, <1>3, <1>5, <1>6 DEF CompanionInv

\* The plans: nothing, a focus, the recorded pane's closing, or an opening in a tab where all
\* that was seen is absent or the recorded pane that now shows a shell.
LEMMA Plans ==
  ASSUME NEW r, NEW process
  PROVE  \/ H!PlanToggle(r, process) = H!Idle
         \/ \E q : H!PlanToggle(r, process) = H!Toggle("focus", heToggle.tab, q, "none", "none", "none")
         \/ H!PlanToggle(r, process) = H!Toggle("close", heToggle.tab, r.pane, r.session, "none", "none")
         \/ \E s \in {r.session, "none"}, dead \in {r.pane, "none"} : \E beside :
              /\ H!PlanToggle(r, process) = H!Toggle("session", heToggle.tab, "none", s, dead, beside)
              /\ dead # "none" => process.kind = "shell"
              /\ \A p \in DOMAIN heToggle.seen :
                   heToggle.seen[p].presence \in {"present", "unknown"} => p = dead
<1> DEFINE state == H!RecordState(r, process)
           focused == heToggle.focused
           present == {p \in H!Seen : heToggle.seen[p].presence = "present"}
           dead == IF state = "dead" THEN r.pane ELSE "none"
           unclear == {p \in H!Seen : heToggle.seen[p].presence = "unknown"} \ {dead}
           plan == H!PlanToggle(r, process)
<1>1. state = "dead" => process.kind = "shell"
  BY DEF H!RecordState
<1>2. H!ReturnFocus = H!Idle \/ \E q : H!ReturnFocus = H!Toggle("focus", heToggle.tab, q, "none", "none", "none")
  BY DEF H!ReturnFocus, H!ToFocus, H!Gone
<1>3. plan = CASE state = "live" /\ r.pane = focused ->
                    H!Toggle("close", heToggle.tab, r.pane, r.session, "none", "none")
               [] state \in {"live", "unknown"} /\ r.pane # focused -> H!ToFocus(r.pane)
               [] state = "unknown" /\ r.pane = focused -> H!ReturnFocus
               [] state \notin {"live", "unknown"} /\ focused \in present -> H!ReturnFocus
               [] state \notin {"live", "unknown"} /\ focused \notin present /\ present # {} ->
                    H!ToFocus(CHOOSE p \in present : TRUE)
               [] state \notin {"live", "unknown"} /\ present = {} /\ unclear # {} -> H!Idle
               [] OTHER -> H!Toggle("session", heToggle.tab, "none",
                             IF state \in {"dead", "closed"} THEN r.session ELSE "none", dead,
                             IF dead = focused THEN H!ReplacementTarget(dead) ELSE focused)
  BY DEF H!PlanToggle, H!Gone
<1>4. PICK chosen : chosen = CHOOSE p \in present : TRUE
  OBVIOUS
<1>5. \A q : H!ToFocus(q) = H!Toggle("focus", heToggle.tab, q, "none", "none", "none")
  BY DEF H!ToFocus, H!Gone
<1> HIDE DEF state, focused, present, dead, unclear, plan
<1>6. CASE state \in {"live", "unknown"}
  BY <1>2, <1>3, <1>5, <1>6 DEF plan
<1>7. CASE state \notin {"live", "unknown"} /\ (focused \in present \/ present # {} \/ unclear # {})
  BY <1>2, <1>3, <1>4, <1>5, <1>7 DEF plan
<1>8. CASE state \notin {"live", "unknown"} /\ present = {} /\ unclear = {}
  <2>1. plan = H!Toggle("session", heToggle.tab, "none",
                        IF state \in {"dead", "closed"} THEN r.session ELSE "none", dead,
                        IF dead = focused THEN H!ReplacementTarget(dead) ELSE focused)
    BY <1>3, <1>8
  <2>2. PICK s, beside : /\ s = IF state \in {"dead", "closed"} THEN r.session ELSE "none"
                         /\ beside = IF dead = focused THEN H!ReplacementTarget(dead) ELSE focused
    OBVIOUS
  <2>3. s \in {r.session, "none"} /\ dead \in {r.pane, "none"} /\ (dead # "none" => process.kind = "shell")
    BY <2>2, <1>1 DEF dead
  <2>4. \A p \in DOMAIN heToggle.seen :
          heToggle.seen[p].presence \in {"present", "unknown"} => p = dead
    BY <1>8 DEF present, unclear, H!Seen
  <2> QED BY <2>1, <2>2, <2>3, <2>4 DEF plan
<1> QED BY <1>6, <1>7, <1>8

LEMMA CompanionPlan == ASSUME CompanionInv, H!Plan PROVE CompanionInv'
<1>0. /\ UNCHANGED <<hePane, heRecord, heOpened, heUnsaved>> /\ heToggle.pc = "plan"
      /\ PanesFine' /\ CompanionsKept
  BY PanesSame DEF CompanionInv, H!Plan
<1>1. PICK silent, r, process :
        /\ r = heRecord[heToggle.tab] /\ process = H!Classified(r.pane, silent)
        /\ heToggle' = H!PlanToggle(r, process)
  BY DEF H!Plan
<1>2. /\ heToggle.tab \in HeTabs /\ r.pane \in heOpened \cup {"none"} /\ r.session \in HeNames
  BY <1>0, <1>1 DEF CompanionInv, ToggleFine, RecordsFine, H!Idle, HeLater
<1>3. RecordsFine' /\ Alone'
  BY <1>0 DEF CompanionInv, RecordsFine, Alone, Companion
<1>4. CASE heToggle' = H!Idle
  BY <1>0, <1>4, ToggleEnds DEF CompanionInv
<1>5. CASE \/ \E q : heToggle' = H!Toggle("focus", heToggle.tab, q, "none", "none", "none")
           \/ heToggle' = H!Toggle("close", heToggle.tab, r.pane, r.session, "none", "none")
  <2>1. PICK pc \in {"focus", "close"}, s \in {"none", r.session} : \E q :
          /\ heToggle' = H!Toggle(pc, heToggle.tab, q, s, "none", "none")
          /\ pc = "close" => q = r.pane
    BY <1>5
  <2>2. /\ heToggle'.pc = pc /\ heToggle'.tab = heToggle.tab /\ heToggle'.session = s
        /\ heToggle'.dead = "none" /\ pc = "close" => heToggle'.pane = r.pane
    BY <2>1 DEF H!Toggle
  <2>3. ToggleFine'
    BY <2>1, <2>2, <1>0, <1>1, <1>2 DEF ToggleFine, HeLater, HeNames, H!Toggle
  <2>4. TabKnown' /\ Recorded'
    BY <2>2, <1>0 DEF CompanionInv, TabKnown, Recorded, Companion, OnRecord
  <2> QED BY <2>3, <2>4, <1>0, <1>3 DEF CompanionInv
<1>6. CASE \E s \in {r.session, "none"}, dead \in {r.pane, "none"} : \E beside :
              /\ heToggle' = H!Toggle("session", heToggle.tab, "none", s, dead, beside)
              /\ dead # "none" => process.kind = "shell"
              /\ \A p \in DOMAIN heToggle.seen :
                   heToggle.seen[p].presence \in {"present", "unknown"} => p = dead
  <2>1. PICK s \in {r.session, "none"}, dead \in {r.pane, "none"} : \E beside :
              /\ heToggle' = H!Toggle("session", heToggle.tab, "none", s, dead, beside)
              /\ dead # "none" => process.kind = "shell"
              /\ \A p \in DOMAIN heToggle.seen :
                   heToggle.seen[p].presence \in {"present", "unknown"} => p = dead
    BY <1>6
  <2>2. /\ heToggle'.pc = "session" /\ heToggle'.tab = heToggle.tab /\ heToggle'.session = s
        /\ heToggle'.dead = dead
    BY <2>1 DEF H!Toggle
  <2>3. ToggleFine'
    BY <2>1, <2>2, <1>0, <1>1, <1>2 DEF ToggleFine, HeLater, HeNames, H!Toggle
  <2>4. ASSUME NEW p \in DOMAIN hePane, Companion(p), hePane[p].tab = heToggle.tab PROVE FALSE
    <3>1. p = dead /\ p # "none" /\ hePane[p].program \in HeRunning
      BY <2>1, <2>4, <1>0 DEF CompanionInv, TabKnown, PanesFine, PaneFine, Companion
    <3>2. H!Classified(p, silent).kind = "shell"
      BY <3>1, <2>1, <1>1
    <3> QED BY <3>1, <3>2 DEF H!Classified, H!Live, HeRunning
  <2>5. TabKnown' /\ Recorded'
    BY <2>2, <2>4, <1>0 DEF CompanionInv, TabKnown, Recorded, Companion, OnRecord
  <2> QED BY <2>3, <2>5, <1>0, <1>3 DEF CompanionInv
<1> QED BY <1>1, <1>4, <1>5, <1>6, Plans

LEMMA CompanionFocus == ASSUME CompanionInv, H!FocusPane PROVE CompanionInv'
<1>1. /\ UNCHANGED <<hePane, heRecord, heOpened, heUnsaved>> /\ heToggle' = H!Idle
      /\ heToggle.pc = "focus"
  BY DEF H!FocusPane
<1> QED BY <1>1, PanesSame, ToggleEnds DEF CompanionInv

\* Who is on record in the tab whose recorded pane was closed is that pane.
LEMMA CompanionClose == ASSUME CompanionInv, H!ClosePane PROVE CompanionInv'
<1>0. /\ UNCHANGED <<heRecord, heOpened, heUnsaved>> /\ heToggle.pc = "close"
      /\ heToggle' = [heToggle EXCEPT !.pc = "saveClosed"] /\ hePane' = H!Without(heToggle.pane)
  BY DEF H!ClosePane
<1>1. heToggle.pc \in HeLater /\ ToggleFine /\ PanesFine
  BY <1>0 DEF CompanionInv, HeLater
<1>2. PICK q : q = heToggle.pane
  OBVIOUS
<1>3. PanesFine' /\ CompanionsKept /\ q \notin DOMAIN hePane'
  BY <1>0, <1>1, <1>2, PanesShrink
<1>4. /\ heToggle' = H!Toggle("saveClosed", heToggle.tab, heToggle.pane, heToggle.session,
                              heToggle.dead, heToggle.beside)
      /\ heToggle'.pc = "saveClosed" /\ heToggle'.tab = heToggle.tab /\ heToggle'.pane = heToggle.pane
      /\ heToggle'.session = heToggle.session /\ heToggle'.dead = heToggle.dead
      /\ heToggle'.beside = heToggle.beside
  BY <1>0, <1>1, ToggleTurns
<1>5. /\ heToggle.tab \in HeTabs
      /\ heToggle.session \in HeNames /\ heToggle.dead \in heOpened \cup {"none"}
      /\ heToggle.pane = heRecord[heToggle.tab].pane
  BY <1>0, <1>1, ToggleCarries
<1>6. ToggleFine'
  BY <1>0, <1>4, <1>5 DEF ToggleFine, HeLater
<1>7. RecordsFine' /\ Alone'
  BY <1>0, <1>3 DEF CompanionInv, RecordsFine, Alone, Companion, CompanionsKept
<1>8. TabKnown'
  BY <1>4 DEF TabKnown
<1>9. Recorded'
  <2> SUFFICES ASSUME heUnsaved = FALSE, NEW p, Companion(p)'
               PROVE  OnRecord(p)' /\ hePane'[p].tab # heToggle.tab
    BY <1>0, <1>4 DEF Recorded
  <2>1. /\ Companion(p) /\ hePane'[p].tab = hePane[p].tab /\ hePane'[p].session = hePane[p].session
        /\ p # q
    BY <1>3 DEF CompanionsKept, Companion
  <2>2. heRecord[hePane[p].tab] = [pane |-> p, session |-> hePane[p].session]
    BY <2>1, <1>0 DEF CompanionInv, Recorded, OnRecord, Companion
  <2>3. hePane[p].tab # heToggle.tab
    BY <2>1, <2>2, <1>2, <1>5
  <2> QED BY <2>1, <2>2, <2>3, <1>0 DEF OnRecord
<1> QED BY <1>0, <1>3, <1>6, <1>7, <1>8, <1>9 DEF CompanionInv

LEMMA CompanionSaveClosed == ASSUME CompanionInv, H!SaveClosed PROVE CompanionInv'
<1>0. /\ UNCHANGED <<hePane, heOpened, heUnsaved>> /\ heToggle.pc = "saveClosed" /\ heToggle' = H!Idle
      /\ heRecord' = [heRecord EXCEPT ![heToggle.tab] = [pane |-> "none", session |-> heToggle.session]]
  BY DEF H!SaveClosed, H!Gone
<1>1. heToggle.tab \in HeTabs /\ heToggle.session \in HeNames
  BY <1>0, ToggleCarries DEF CompanionInv, HeLater
<1>2. /\ DOMAIN heRecord' = HeTabs
      /\ heRecord'[heToggle.tab] = [pane |-> "none", session |-> heToggle.session]
      /\ \A t \in HeTabs \ {heToggle.tab} : heRecord'[t] = heRecord[t]
  BY <1>0, <1>1 DEF CompanionInv, RecordsFine
<1>3. RecordsFine'
  BY <1>0, <1>1, <1>2 DEF CompanionInv, RecordsFine
<1>4. PanesFine' /\ ToggleFine' /\ TabKnown' /\ Alone'
  BY <1>0, PanesSame DEF CompanionInv, ToggleFine, TabKnown, Alone, Companion, H!Idle
<1>5. Recorded'
  <2> SUFFICES ASSUME heUnsaved = FALSE, NEW p \in DOMAIN hePane, Companion(p)
               PROVE  heRecord'[hePane[p].tab] = [pane |-> p, session |-> hePane[p].session]
    BY <1>0 DEF Recorded, OnRecord, Companion, H!Idle
  <2>1. hePane[p].tab # heToggle.tab /\ hePane[p].tab \in HeTabs
    BY <1>0 DEF CompanionInv, Recorded, PanesFine, PaneFine
  <2>2. heRecord[hePane[p].tab] = [pane |-> p, session |-> hePane[p].session]
    BY <1>0 DEF CompanionInv, Recorded, OnRecord
  <2> QED BY <2>1, <2>2, <1>2
<1> QED BY <1>0, <1>3, <1>4, <1>5 DEF CompanionInv

LEMMA CompanionChoose == ASSUME CompanionInv, H!ChooseSession PROVE CompanionInv'
<1>0. /\ UNCHANGED <<hePane, heRecord, heOpened, heUnsaved>> /\ heToggle.pc = "session"
      /\ PanesFine' /\ CompanionsKept
  BY PanesSame DEF CompanionInv, H!ChooseSession
<1>1. /\ heToggle.tab \in HeTabs /\ heToggle.session \in HeNames
      /\ heToggle.dead \in heOpened \cup {"none"}
  BY <1>0, ToggleCarries DEF CompanionInv, HeLater
<1>2. CASE heToggle' = H!Idle
  BY <1>0, <1>2, ToggleEnds DEF CompanionInv
<1>3. CASE heToggle' # H!Idle
  <2>1. PICK s \in HeNames :
          heToggle' = H!Toggle("others", heToggle.tab, "none", s, heToggle.dead, heToggle.beside)
    BY <1>1, <1>3, CompanionAssumption DEF H!ChooseSession, HeNames, H!Gone
  <2>2. /\ heToggle'.pc = "others" /\ heToggle'.tab = heToggle.tab /\ heToggle'.session = s
        /\ heToggle'.dead = heToggle.dead
    BY <2>1 DEF H!Toggle
  <2>3. ToggleFine'
    BY <2>1, <2>2, <1>0, <1>1 DEF ToggleFine, HeLater, H!Toggle
  <2>4. TabKnown' /\ Recorded'
    BY <2>2, <1>0 DEF CompanionInv, TabKnown, Recorded, Companion, OnRecord
  <2>5. RecordsFine' /\ Alone'
    BY <1>0 DEF CompanionInv, RecordsFine, Alone, Companion
  <2> QED BY <2>3, <2>4, <2>5, <1>0 DEF CompanionInv
<1> QED BY <1>2, <1>3

\* A companion of the session in another tab is on record there, and the probe of its pane
\* tells that it runs or tells nothing.
LEMMA CompanionAsks == ASSUME CompanionInv, H!AskOthers PROVE CompanionInv'
<1>0. /\ UNCHANGED <<hePane, heRecord, heOpened, heUnsaved>> /\ heToggle.pc = "others"
      /\ PanesFine' /\ CompanionsKept
  BY PanesSame DEF CompanionInv, H!AskOthers
<1>1. heToggle.pc \in HeLater /\ ToggleFine
  BY <1>0 DEF CompanionInv, HeLater
<1>2. CASE heToggle' = H!Idle
  BY <1>0, <1>2, ToggleEnds DEF CompanionInv
<1>3. CASE heToggle' # H!Idle
  <2>1. PICK silent : /\ ~H!OtherTabBlocks(heToggle.tab, heToggle.session, silent)
                      /\ heToggle' = [heToggle EXCEPT !.pc = "open"]
    BY <1>3 DEF H!AskOthers
  <2>2. /\ heToggle' = H!Toggle("open", heToggle.tab, heToggle.pane, heToggle.session,
                                heToggle.dead, heToggle.beside)
        /\ heToggle'.pc = "open" /\ heToggle'.tab = heToggle.tab /\ heToggle'.pane = heToggle.pane
        /\ heToggle'.session = heToggle.session /\ heToggle'.dead = heToggle.dead
        /\ heToggle'.beside = heToggle.beside
    BY <2>1, <1>1, ToggleTurns
  <2>3. ToggleFine'
    BY <2>2, <1>0, <1>1, ToggleCarries DEF ToggleFine, HeLater
  <2>4. ASSUME heUnsaved = FALSE, NEW p \in DOMAIN hePane, Companion(p),
               hePane[p].session = heToggle.session
        PROVE  FALSE
    <3>1. /\ hePane[p].tab \in HeTabs /\ hePane[p].program \in HeRunning /\ p # "none"
      BY <2>4 DEF CompanionInv, PanesFine, PaneFine, Companion
    <3>2. hePane[p].tab # heToggle.tab
      BY <2>4, <1>0 DEF CompanionInv, TabKnown
    <3>3. heRecord[hePane[p].tab] = [pane |-> p, session |-> heToggle.session]
      BY <2>4, <1>0 DEF CompanionInv, Recorded, OnRecord
    <3>4. \/ H!Classified(p, silent).kind \in {"launcher", "unknown"}
          \/ H!Classified(p, silent).kind = "proqi" /\ H!Classified(p, silent).session = heToggle.session
      BY <2>4, <3>1 DEF H!Classified, H!Live, HeRunning
    <3>5. H!OtherTabBlocks(heToggle.tab, heToggle.session, silent)
      BY <3>1, <3>2, <3>3, <3>4 DEF H!OtherTabBlocks, H!Gone
    <3> QED BY <3>5, <2>1
  <2>5. Recorded'
    BY <2>2, <2>4, <1>0 DEF CompanionInv, Recorded, Companion, OnRecord
  <2>6. TabKnown'
    BY <2>2, <1>0 DEF CompanionInv, TabKnown, Companion
  <2>7. RecordsFine' /\ Alone'
    BY <1>0 DEF CompanionInv, RecordsFine, Alone, Companion
  <2> QED BY <2>3, <2>5, <2>6, <2>7, <1>0 DEF CompanionInv
<1> QED BY <1>2, <1>3

LEMMA CompanionOpens == ASSUME CompanionInv, H!OpenBeside PROVE CompanionInv'
<1>0. UNCHANGED <<heRecord, heUnsaved>> /\ heToggle.pc = "open"
  BY DEF H!OpenBeside
<1>1. CASE heToggle' = H!Idle /\ UNCHANGED <<hePane, heOpened>>
  <2>1. PanesFine' /\ CompanionsKept
    BY <1>1, PanesSame DEF CompanionInv
  <2> QED BY <2>1, <1>0, <1>1, ToggleEnds DEF CompanionInv
<1>2. CASE ~(heToggle' = H!Idle /\ UNCHANGED <<hePane, heOpened>>)
  <2>1. PICK p \in HeFresh \ (heOpened \cup DOMAIN hePane) :
          /\ hePane' = [q \in DOMAIN hePane \cup {p} |-> IF q = p
                THEN H!Pane(heToggle.tab, "launcher", heToggle.session, TRUE, FALSE) ELSE hePane[q]]
          /\ heOpened' = heOpened \cup {p}
          /\ heToggle' = H!Toggle("save", heToggle.tab, p, heToggle.session, heToggle.dead, heToggle.beside)
    BY <1>2 DEF H!OpenBeside, H!Live
  <2>2. /\ heToggle.tab \in HeTabs /\ heToggle.session \in HeNames
        /\ heToggle.dead \in heOpened \cup {"none"}
    BY <1>0, ToggleCarries DEF CompanionInv, HeLater
  <2>3. /\ heToggle'.pc = "save" /\ heToggle'.tab = heToggle.tab /\ heToggle'.pane = p
        /\ heToggle'.session = heToggle.session /\ heToggle'.dead = heToggle.dead
    BY <2>1 DEF H!Toggle
  <2>4. /\ DOMAIN hePane' = DOMAIN hePane \cup {p} /\ p \notin DOMAIN hePane
        /\ \A q \in DOMAIN hePane : hePane'[q] = hePane[q]
        /\ hePane'[p] = [tab |-> heToggle.tab, program |-> "launcher", session |-> heToggle.session,
                         plugin |-> TRUE, leased |-> FALSE]
    BY <2>1 DEF H!Pane
  <2>5. PanesFine'
    <3>1. PaneFine(p)'
      <4>1. hePane'[p].plugin = TRUE
        BY <2>4
      <4>2. hePane'[p].plugin \in BOOLEAN
        BY <4>1
      <4>3. /\ hePane'[p].tab = heToggle.tab /\ hePane'[p].program = "launcher"
            /\ hePane'[p].leased = FALSE
            /\ hePane'[p] = [tab |-> hePane'[p].tab, program |-> hePane'[p].program,
                             session |-> hePane'[p].session, plugin |-> hePane'[p].plugin,
                             leased |-> hePane'[p].leased]
        BY <2>4
      <4>4. p \in heOpened'
        BY <2>1
      <4> QED BY <4>1, <4>2, <4>3, <4>4, <2>2 DEF PaneFine, HePrograms, HeRunning
    <3>2. ASSUME NEW q \in DOMAIN hePane PROVE PaneFine(q)'
      BY <2>1, <2>4, <3>2 DEF CompanionInv, PanesFine, PaneFine
    <3> QED BY <3>1, <3>2, <2>4, CompanionAssumption DEF CompanionInv, PanesFine
  <2>6. ToggleFine'
    BY <2>1, <2>2, <2>3 DEF ToggleFine, HeLater, H!Toggle
  <2>7. RecordsFine'
    BY <2>1, <1>0 DEF CompanionInv, RecordsFine
  <2>8. \A q \in DOMAIN hePane : Companion(q)' <=> Companion(q)
    BY <2>4 DEF Companion
  <2>9. \A q \in DOMAIN hePane : Companion(q) => hePane[q].tab # heToggle.tab
    BY <1>0 DEF CompanionInv, TabKnown
  <2>10. TabKnown'
    BY <2>3, <2>4, <2>8, <2>9 DEF TabKnown
  <2>11. Recorded'
    BY <2>3, <2>4, <2>8, <1>0 DEF CompanionInv, Recorded, OnRecord
  <2>12. Alone'
    <3>1. \A q \in DOMAIN hePane : Companion(q) /\ heUnsaved # TRUE =>
            hePane[q].session # heToggle.session
      BY <1>0 DEF CompanionInv, Recorded
    <3>2. \A q, r \in DOMAIN hePane : Companion(q) /\ Companion(r) /\ q # r =>
            /\ hePane[q].tab # hePane[r].tab
            /\ hePane[q].session = hePane[r].session => heUnsaved = TRUE
      BY DEF CompanionInv, Alone
    <3> SUFFICES ASSUME NEW q \in DOMAIN hePane', NEW r \in DOMAIN hePane', Companion(q)',
                        Companion(r)', q # r
                 PROVE  /\ hePane'[q].tab # hePane'[r].tab
                        /\ hePane'[q].session = hePane'[r].session => heUnsaved' = TRUE
      BY DEF Alone
    <3>3. CASE q # p /\ r # p
      BY <3>2, <3>3, <2>4, <2>8, <1>0
    <3>4. CASE q = p \/ r = p
      <4>1. PICK x \in DOMAIN hePane : Companion(x) /\ {q, r} = {p, x}
        BY <3>4, <2>4, <2>8
      <4>2. hePane[x].tab # heToggle.tab /\ (heUnsaved # TRUE => hePane[x].session # heToggle.session)
        BY <4>1, <3>1, <2>9
      <4>3. /\ hePane'[x] = hePane[x] /\ hePane'[p].tab = heToggle.tab
            /\ hePane'[p].session = heToggle.session
        BY <4>1, <2>4
      <4> QED BY <4>1, <4>2, <4>3, <1>0
    <3> QED BY <3>3, <3>4
  <2> QED BY <2>5, <2>6, <2>7, <2>10, <2>11, <2>12, <1>0 DEF CompanionInv
<1> QED BY <1>1, <1>2

LEMMA CompanionSaves == ASSUME CompanionInv, H!SaveOpened PROVE CompanionInv'
<1>0. UNCHANGED <<hePane, heOpened>> /\ heToggle.pc = "save" /\ PanesFine' /\ CompanionsKept
  BY PanesSame DEF CompanionInv, H!SaveOpened
<1>1. CASE heToggle' = H!Idle /\ heUnsaved' = TRUE /\ UNCHANGED heRecord
  BY <1>0, <1>1, ToggleEnds
<1>2. CASE /\ heRecord' = [heRecord EXCEPT ![heToggle.tab] =
                            [pane |-> heToggle.pane, session |-> heToggle.session]]
           /\ heToggle' = [heToggle EXCEPT !.pc = "replace"] /\ UNCHANGED heUnsaved
  <2>1. heToggle.pc \in HeLater /\ ToggleFine
    BY <1>0 DEF CompanionInv, HeLater
  <2>2. /\ heToggle' = H!Toggle("replace", heToggle.tab, heToggle.pane, heToggle.session,
                                heToggle.dead, heToggle.beside)
        /\ heToggle'.pc = "replace" /\ heToggle'.tab = heToggle.tab /\ heToggle'.pane = heToggle.pane
        /\ heToggle'.session = heToggle.session /\ heToggle'.dead = heToggle.dead
        /\ heToggle'.beside = heToggle.beside
    BY <1>2, <2>1, ToggleTurns
  <2>3. /\ heToggle.tab \in HeTabs /\ heToggle.session \in HeNames
        /\ heToggle.dead \in heOpened \cup {"none"} /\ heToggle.pane \in heOpened
    BY <1>0, <2>1, ToggleCarries DEF CompanionInv, ToggleFine, H!Idle
  <2>4. /\ DOMAIN heRecord' = HeTabs
        /\ heRecord'[heToggle.tab] = [pane |-> heToggle.pane, session |-> heToggle.session]
        /\ \A t \in HeTabs \ {heToggle.tab} : heRecord'[t] = heRecord[t]
    BY <1>2, <2>3 DEF CompanionInv, RecordsFine
  <2>5. RecordsFine'
    BY <1>0, <2>3, <2>4 DEF CompanionInv, RecordsFine
  <2>6. ToggleFine'
    BY <1>0, <2>2, <2>3 DEF ToggleFine, HeLater
  <2>7. TabKnown' /\ Alone'
    BY <1>0, <1>2, <2>2 DEF CompanionInv, TabKnown, Alone, Companion
  <2>8. Recorded'
    <3> SUFFICES ASSUME heUnsaved = FALSE, NEW p \in DOMAIN hePane, Companion(p)
                 PROVE  heRecord'[hePane[p].tab] = [pane |-> p, session |-> hePane[p].session]
      <4>1. /\ hePane' = hePane /\ heUnsaved' = heUnsaved /\ heToggle'.pc = "replace"
            /\ \A p \in DOMAIN hePane : Companion(p)' <=> Companion(p)
        BY <1>0, <1>2, <2>2 DEF Companion
      <4> QED BY <4>1 DEF Recorded, OnRecord
    <3>1. hePane[p].tab \in HeTabs
      BY DEF CompanionInv, PanesFine, PaneFine
    <3>2. CASE p = heToggle.pane
      BY <3>2, <2>4, <1>0 DEF CompanionInv, Recorded
    <3>3. CASE p # heToggle.pane
      <4>1. hePane[p].tab # heToggle.tab
        BY <3>3, <1>0 DEF CompanionInv, TabKnown
      <4>2. heRecord[hePane[p].tab] = [pane |-> p, session |-> hePane[p].session]
        BY <3>3 DEF CompanionInv, Recorded, OnRecord
      <4> QED BY <4>1, <4>2, <3>1, <2>4
    <3> QED BY <3>2, <3>3
  <2> QED BY <1>0, <1>2, <2>5, <2>6, <2>7, <2>8 DEF CompanionInv
<1> QED BY <1>1, <1>2 DEF H!SaveOpened

LEMMA CompanionReplaces == ASSUME CompanionInv, H!ReplaceDead PROVE CompanionInv'
<1>0. /\ UNCHANGED <<heRecord, heOpened, heUnsaved>> /\ heToggle.pc = "replace" /\ heToggle' = H!Idle
      /\ hePane' = H!Without(heToggle.dead) \/ UNCHANGED hePane
  BY DEF H!ReplaceDead
<1>1. PICK q : q = heToggle.dead
  OBVIOUS
<1>2. PanesFine' /\ CompanionsKept
  BY <1>0, <1>1, PanesShrink, PanesSame DEF CompanionInv
<1> QED BY <1>0, <1>2, ToggleEnds DEF CompanionInv

LEMMA CompanionDies == ASSUME CompanionInv, H!Die PROVE CompanionInv'
<1>0. /\ UNCHANGED <<hePane, heRecord, heOpened>> /\ heToggle' = H!Idle
      /\ heUnsaved' = (heUnsaved \/ heToggle.pc = "save")
  BY DEF H!Die
<1>1. heUnsaved \in BOOLEAN
  BY DEF CompanionInv
<1>2. heUnsaved' \in BOOLEAN /\ (heUnsaved' = FALSE => heUnsaved = FALSE /\ heToggle.pc # "save")
  BY <1>0, <1>1
<1>3. PanesFine' /\ CompanionsKept
  BY <1>0, PanesSame DEF CompanionInv
<1> QED BY <1>0, <1>2, <1>3, ToggleEnds

LEMMA CompanionStep == ASSUME CompanionInv, [Next]_vars PROVE CompanionInv'
<1>1. CASE UNCHANGED heVars
  <2>1. UNCHANGED <<hePane, heRecord, heToggle, heOpened, heUnsaved>>
    BY <1>1 DEF heVars
  <2>2. PanesFine' /\ CompanionsKept
    BY <2>1, PanesSame DEF CompanionInv
  <2> QED BY <2>1, <2>2, ProgramsKeep
<1>2. CASE H!Next
  BY <1>2, CompanionBegin, CompanionPlan, CompanionFocus, CompanionClose, CompanionSaveClosed,
     CompanionChoose, CompanionAsks, CompanionOpens, CompanionSaves, CompanionReplaces,
     CompanionDies, CompanionEnvironment DEF H!Next
<1> QED BY <1>1, <1>2 DEF Next, vars, SchemaLockNext, SessionLeaseNext, CaptureLaneNext,
           ScreenshotWatcherNext, SessionsNext, CompanionNext, ControlNext

\* What is closed was opened by a toggle, and a pane that is replaced shows a shell.
LEMMA ClosedWasOpened ==
  ASSUME CompanionInv, [Next]_vars
  PROVE
    [\A p \in heClosed' \ heClosed :
       /\ p \in heOpened
       /\ heToggle.pc = "replace" => hePane[p].program = "shell"]_(H!vars)
<1> SUFFICES ASSUME NEW p \in heClosed' \ heClosed
             PROVE  p \in heOpened /\ (heToggle.pc = "replace" => hePane[p].program = "shell")
  OBVIOUS
<1>1. H!ClosePane \/ H!ReplaceDead
  BY DEF Next, vars, heVars, SchemaLockNext, SessionLeaseNext, CaptureLaneNext,
         ScreenshotWatcherNext, SessionsNext, CompanionNext, ControlNext, H!Next, H!Begin, H!Plan,
         H!FocusPane, H!SaveClosed, H!ChooseSession, H!AskOthers, H!OpenBeside, H!SaveOpened, H!Die,
         H!Environment
<1>2. CASE H!ClosePane
  <2>1. heToggle.pc = "close" /\ p = heToggle.pane /\ p \in DOMAIN hePane
    BY <1>2 DEF H!ClosePane, H!Live
  <2>2. p = heRecord[heToggle.tab].pane /\ heToggle.tab \in HeTabs /\ p # "none"
    BY <2>1, ToggleCarries DEF CompanionInv, HeLater, PanesFine
  <2> QED BY <2>1, <2>2 DEF CompanionInv, RecordsFine
<1>3. CASE H!ReplaceDead
  <2>1. heToggle.pc = "replace" /\ p = heToggle.dead /\ p # "none" /\ hePane[p].program = "shell"
    BY <1>3 DEF H!ReplaceDead, H!StillIdle, H!Gone
  <2> QED BY <2>1, ToggleCarries DEF CompanionInv, HeLater
<1> QED BY <1>1, <1>2, <1>3

LEMMA CompanionInvSafe == ASSUME CompanionInv PROVE H!CompanionSafe
<1>1. H!TypeOK
  BY DEF CompanionInv, H!TypeOK, H!Live, PanesFine, PaneFine, HePrograms, RecordsFine, HeNames,
         ToggleFine, HeLater, H!Idle
<1>2. \A p \in H!Companions : p \in DOMAIN hePane /\ Companion(p)
  BY DEF CompanionInv, H!Companions, H!Live, Companion, PanesFine, PaneFine
<1>3. H!OneCompanion
  BY <1>2 DEF CompanionInv, Alone, H!OneCompanion
<1> QED BY <1>1, <1>3 DEF H!CompanionSafe

\* However toggles, crashes, slow probes, lost records and the programs in the panes interleave
\* (application/companion/toggle), a tab never shows two companions, no session is opened in two
\* tabs unless a record was lost, and a toggle closes only panes that toggles opened, for any
\* tabs, sessions and panes.
THEOREM CompanionIsKept == Spec => CompanionKept
<1>1. Init => CompanionInv
  BY CompanionInit DEF Init
<1>2. Spec => []CompanionInv
  BY <1>1, CompanionStep, PTL DEF Spec
<1>3. CompanionInv => (scene = "companion" => H!CompanionSafe)
  BY CompanionInvSafe
<1> QED BY <1>2, <1>3, ClosedWasOpened, PTL DEF Spec, CompanionKept, H!ClosesOnlyCompanions

================================================================================
