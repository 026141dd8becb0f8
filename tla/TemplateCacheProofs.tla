------------------------ MODULE TemplateCacheProofs ------------------------
(***************************************************************************)
(* The template cache for any keys, templates, clients and number of       *)
(* shards: its inductive invariant, the exclusion of its readers and       *)
(* writers, and that it implements the abstract template store.            *)
(***************************************************************************)
EXTENDS TemplateCache, TLAPS

(* The shard of a key, and its entry, exist. *)
LEMMA ShardExists ==
    ASSUME NEW k \in Keys
    PROVE  /\ Hash[k] \in Hashes
           /\ getShard(Hash[k]) \in Shards
  BY CacheAssumption DEF Hashes, Shards, getShard

(* A client that is in a call has a hash and a shard. *)
LEMMA CallShard ==
    ASSUME LocksHeld, NEW c \in Clients, cpc[c] # "idle"
    PROVE  /\ creq[c].key \in Keys
           /\ creq[c].tpl \in Entries
           /\ HashOf(c) \in Hashes
           /\ ShardOf(c) \in Shards
  BY ShardExists DEF LocksHeld, HashOf, ShardOf

(* What WriteFile writes is a template cache file. *)
LEMMA DiskIsFile ==
    ASSUME NEW null \in BOOLEAN, NEW cache \in [Hashes -> Entries], NEW no \in Nat
    PROVE  /\ Disk(null, cache, no) \in Files
           /\ Disk(null, cache, no).kind = "complete"
           /\ Disk(null, cache, no).null = null
           /\ Disk(null, cache, no).cache = cache
           /\ Disk(null, cache, no).ShardNo = no
  BY DEF Disk, Files

(* The first start establishes the invariant. *)
LEMMA CacheInit == Init => CacheInv
<1> SUFFICES ASSUME Init PROVE CacheInv
    OBVIOUS
<1> USE CacheAssumption
<1>1. TypeOK
  <2>1. file \in Files
    <3>1. CASE file = NoFile
        BY <3>1 DEF Files
    <3>2. ASSUME NEW c \in [Hashes -> Templates \cup {NoTemplate}],
                 file = Disk(FALSE, c, shardNo + 1)
          PROVE  file \in Files
      <4>1. c \in [Hashes -> Entries] /\ shardNo + 1 \in Nat
          BY DEF Entries
      <4>2. FALSE \in BOOLEAN
          OBVIOUS
      <4> QED
          BY Zenon, <3>2, <4>1, <4>2, DiskIsFile
    <3> QED
        BY Zenon, <3>1, <3>2 DEF Init
  <2> QED
    BY <2>1 DEF Init, TypeOK, Empty, NoCall, Calls, Entries
<1>2. LocksHeld
    BY DEF Init, LocksHeld
<1>3. ShardsPresent
    BY DEF Init, ShardsPresent, CacheUsable, Disk, NoFile
<1>4. EntriesKnown
    BY ShardExists DEF Init, EntriesKnown, Known, Empty, Disk, NoFile
<1>5. NothingReturnedYet
    BY DEF Init, NothingReturnedYet
<1> QED
    BY <1>1, <1>2, <1>3, <1>4, <1>5 DEF CacheInv

(* The end of the process keeps the invariant. *)
LEMMA ForgetKeeps == CacheInv /\ Forget => CacheInv'
<1> SUFFICES ASSUME CacheInv, Forget PROVE CacheInv'
    OBVIOUS
<1> USE CacheAssumption
<1>1. TypeOK'
    BY DEF CacheInv, Forget, TypeOK, Empty, NoCall, Calls, Entries
<1>2. LocksHeld'
    BY DEF Forget, LocksHeld
<1>3. ShardsPresent'
    BY DEF CacheInv, Forget, ShardsPresent, CacheUsable
<1>4. EntriesKnown'
    BY ShardExists DEF CacheInv, Forget, EntriesKnown, Known, Empty
<1>5. NothingReturnedYet'
    BY DEF Forget, NothingReturnedYet
<1> QED
    BY <1>1, <1>2, <1>3, <1>4, <1>5 DEF CacheInv

(* Every other step keeps the invariant. *)
LEMMA CacheStep == CacheInv /\ [Next]_vars => CacheInv'
<1> SUFFICES ASSUME CacheInv, [Next]_vars PROVE CacheInv'
    BY ZenonT(60)
<1> USE CacheAssumption
<1> USE DEF CacheInv
<1>1. CASE Start
    BY <1>1 DEF Start, TypeOK, LocksHeld, ShardOf, HashOf, ShardsPresent, CacheUsable,
        EntriesKnown, Known, NothingReturnedYet, cacheVars, lockVars, clientVars, dumpVars
<1>2. CASE GetCache
  <2>1. nilCache' \in BOOLEAN
    <3>1. CASE file.kind = "complete" /\ file.ShardNo = shardNo
      <4>1. file.null \in BOOLEAN
          BY <3>1 DEF TypeOK, Files, NoFile, CutFile
      <4> QED
          BY <1>2, <3>1, <4>1 DEF GetCache
    <3>2. CASE ~(file.kind = "complete" /\ file.ShardNo = shardNo)
        BY Zenon, <1>2, <3>2 DEF GetCache
    <3> QED
        BY <3>1, <3>2
  <2>5. mCache' \in [Hashes -> Entries]
      BY <1>2 DEF GetCache, TypeOK, Files, NoFile, CutFile, Empty, Entries
  <2>6. TypeOK'
      BY <1>2, <2>1, <2>5 DEF GetCache, TypeOK, lockVars, clientVars, dumpVars
  <2>2. LocksHeld'
      BY <1>2 DEF GetCache, LocksHeld, ShardOf, HashOf, lockVars, clientVars, dumpVars
  <2>3. ShardsPresent'
      BY <1>2 DEF GetCache, ShardsPresent, CacheUsable, lockVars, clientVars, dumpVars
  <2>4. EntriesKnown'
      BY <1>2, ShardExists DEF GetCache, EntriesKnown, Known, Empty, lockVars, clientVars, dumpVars
  <2> QED
      BY <1>2, <2>6, <2>2, <2>3, <2>4 DEF GetCache, NothingReturnedYet, clientVars
<1>3. CASE Crash
    BY <1>3, ForgetKeeps DEF Crash
<1>4. CASE Shutdown
  <2> USE DEF cacheVars, lockVars, clientVars
  <2>1. CASE Stop
      BY <2>1 DEF Stop, TypeOK, LocksHeld, ShardOf, HashOf, ShardsPresent, CacheUsable,
          EntriesKnown, Known, NothingReturnedYet
  <2>2. CASE Dump
    <3>1. TypeOK'
        BY ZenonT(60), <2>2 DEF Dump, TypeOK, Empty, Entries
    <3>2. LocksHeld'
        BY <2>2 DEF Dump, LocksHeld, ShardOf, HashOf
    <3>3. ShardsPresent'
        BY <2>2 DEF Dump, ShardsPresent, CacheUsable
    <3>4. EntriesKnown'
        BY Zenon, <2>2, ShardExists DEF Dump, EntriesKnown, Known, Empty
    <3> QED
        BY <2>2, <3>1, <3>2, <3>3, <3>4 DEF Dump, NothingReturnedYet
  <2>3. CASE WriteError
      BY ZenonT(60), <2>3 DEF WriteError, TypeOK, LocksHeld, ShardOf, HashOf, ShardsPresent, CacheUsable,
          EntriesKnown, Known, NothingReturnedYet
  <2>4. CASE WriteOpen
    <3>1. TypeOK'
        BY <2>4 DEF WriteOpen, TypeOK, Files
    <3> QED
        BY Zenon, <2>4, <3>1 DEF WriteOpen, LocksHeld, ShardOf, HashOf, ShardsPresent,
            CacheUsable, EntriesKnown, Known, NothingReturnedYet, CutFile
  <2>5. CASE WriteDone
    <3>1. /\ snap.null \in BOOLEAN
          /\ snap.cache \in [Hashes -> Entries]
        BY DEF TypeOK
    <3>2. /\ file' \in Files
          /\ file'.null = snap.null
          /\ file'.cache = snap.cache
        BY <2>5, <3>1, DiskIsFile DEF WriteDone
    <3>3. TypeOK'
        BY ZenonT(60), <2>5, <3>2 DEF WriteDone, TypeOK
    <3>4. LocksHeld'
        BY <2>5 DEF WriteDone, LocksHeld, ShardOf, HashOf
    <3>5. ShardsPresent'
        BY <2>5, <3>2 DEF WriteDone, ShardsPresent, CacheUsable
    <3>6. EntriesKnown'
        BY <2>5, <3>2 DEF WriteDone, EntriesKnown, Known
    <3> QED
        BY <2>5, <3>3, <3>4, <3>5, <3>6 DEF WriteDone, NothingReturnedYet
  <2>6. CASE Exit
      BY <2>6, ForgetKeeps DEF Exit
  <2>7. ASSUME NEW h \in Hashes, MarshalEntry(h)
        PROVE  CacheInv'
    <3>1. TypeOK'
        BY <2>7 DEF MarshalEntry, TypeOK
    <3>2. LocksHeld'
        BY <2>7 DEF MarshalEntry, LocksHeld, ShardOf, HashOf
    <3>3. ShardsPresent'
        BY <2>7 DEF MarshalEntry, ShardsPresent, CacheUsable, TypeOK
    <3>4. EntriesKnown'
        BY <2>7, ShardExists DEF MarshalEntry, EntriesKnown, Known, TypeOK
    <3> QED
        BY <2>7, <3>1, <3>2, <3>3, <3>4 DEF MarshalEntry, NothingReturnedYet
  <2>8. ASSUME NEW h \in Hashes, MarshalRace(h)
        PROVE  CacheInv'
    <3>1. TypeOK'
        BY <2>8 DEF MarshalRace, TypeOK, Entries
    <3>2. LocksHeld'
        BY <2>8 DEF MarshalRace, LocksHeld, ShardOf, HashOf
    <3>3. ShardsPresent'
        BY <2>8 DEF MarshalRace, ShardsPresent, CacheUsable, TypeOK
    <3>4. EntriesKnown'
        BY <2>8 DEF MarshalRace, EntriesKnown
    <3> QED
        BY <2>8, <3>1, <3>2, <3>3, <3>4 DEF MarshalRace, NothingReturnedYet
  <2> QED
      BY <1>4, <2>1, <2>2, <2>3, <2>4, <2>5, <2>6, <2>7, <2>8 DEF Shutdown
<1>5. ASSUME NEW c \in Clients, Client(c)
      PROVE  CacheInv'
  <2> USE DEF cacheVars, lockVars, dumpVars
  <2>1. ASSUME NEW k \in Keys, NEW t \in Entries, NEW at \in {"lock", "rlock"},
               at = "lock" => t \in Templates, Call(c, k, t, at)
        PROVE  CacheInv'
    <3>1. TypeOK'
        BY ZenonT(60), <2>1 DEF Call, TypeOK, Calls
    <3>2. LocksHeld'
        BY <2>1 DEF Call, LocksHeld, ShardOf, HashOf, TypeOK
    <3> QED
        BY Zenon, <2>1, <3>1, <3>2 DEF Call, ShardsPresent, CacheUsable, EntriesKnown, Known, NothingReturnedYet
  <2>2. CASE ShardPanic(c)
      BY ZenonT(60), <2>2 DEF ShardPanic, TypeOK, LocksHeld, ShardOf, HashOf, ShardsPresent, CacheUsable,
          EntriesKnown, Known, NothingReturnedYet, clientVars
  <2>3. CASE Lock(c)
    <3>1. ShardOf(c) \in Shards
        BY Zenon, <2>3, CallShard DEF Lock
    <3>2. TypeOK'
        BY ZenonT(60), <2>3, <3>1 DEF Lock, TypeOK
    <3>3. LocksHeld'
        BY <2>3, <3>1 DEF Lock, LocksHeld, ShardOf, HashOf, TypeOK
    <3> QED
        BY <2>3, <3>2, <3>3 DEF Lock, ShardsPresent, CacheUsable, EntriesKnown, Known, NothingReturnedYet
  <2>4. CASE Store(c)
    <3>1. /\ creq[c].key \in Keys
          /\ HashOf(c) \in Hashes
          /\ ShardOf(c) \in Shards
          /\ creq[c].tpl \in Templates
        BY ZenonT(60), <2>4, CallShard DEF Store, LocksHeld
    <3>2. TypeOK'
        BY <2>4, <3>1 DEF Store, TypeOK, Calls, Entries
    <3>3. LocksHeld'
        BY <2>4, <3>1 DEF Store, LocksHeld, ShardOf, HashOf, TypeOK
    <3>4. ShardsPresent'
        BY ZenonT(60), <2>4 DEF Store, ShardsPresent, CacheUsable
    <3>5. EntriesKnown'
        BY <2>4, <3>1, ShardExists DEF Store, EntriesKnown, Known, HashOf, TypeOK
    <3> QED
        BY Zenon, <2>4, <3>2, <3>3, <3>4, <3>5 DEF Store, NothingReturnedYet
  <2>5. CASE RLock(c)
    <3>1. ShardOf(c) \in Shards
        BY Zenon, <2>5, CallShard DEF RLock
    <3>2. TypeOK'
        BY ZenonT(60), <2>5, <3>1 DEF RLock, TypeOK
    <3>3. LocksHeld'
        BY <2>5, <3>1 DEF RLock, LocksHeld, ShardOf, HashOf, TypeOK
    <3> QED
        BY Zenon, <2>5, <3>2, <3>3 DEF RLock, ShardsPresent, CacheUsable, EntriesKnown, Known, NothingReturnedYet
  <2>6. CASE Read(c)
    <3>1. HashOf(c) \in Hashes /\ ShardOf(c) \in Shards
        BY Zenon, <2>6, CallShard DEF Read
    <3>2. TypeOK'
        BY ZenonT(60), <2>6, <3>1 DEF Read, TypeOK, Calls
    <3>3. LocksHeld'
        BY <2>6, <3>1 DEF Read, LocksHeld, ShardOf, HashOf, TypeOK
    <3> QED
        BY <2>6, <3>2, <3>3 DEF Read, ShardsPresent, CacheUsable, EntriesKnown, Known, NothingReturnedYet
  <2> QED
      BY Zenon, <1>5, <2>1, <2>2, <2>3, <2>4, <2>5, <2>6 DEF Client, InsertCall, RetrieveCall, Entries
<1>6. CASE UNCHANGED vars
    BY <1>6 DEF vars, cacheVars, lockVars, clientVars, dumpVars, TypeOK, LocksHeld, ShardOf, HashOf,
        ShardsPresent, CacheUsable, EntriesKnown, Known, NothingReturnedYet
<1> QED
    BY <1>1, <1>2, <1>3, <1>4, <1>5, <1>6 DEF Next
-----------------------------------------------------------------------------
(* The inductive invariant of the cache holds in every state. *)
THEOREM CacheInvariant == Spec => []CacheInv
<1> QED
    BY CacheInit, CacheStep, PTL DEF Spec

(* The variables of the cache keep their types. *)
THEOREM CacheTypes == Spec => []TypeOK
<1>1. CacheInv => TypeOK
    BY ZenonT(60) DEF CacheInv
<1> QED
    BY <1>1, CacheInvariant, PTL

(* The read-write locks of insert and retrieve exclude each other as the   *)
(* maps need it, for any number of goroutines.                             *)
THEOREM CacheExclusion == Spec => []NoMapRace
<1>1. CacheInv => NoMapRace
  <2> SUFFICES ASSUME CacheInv, NEW c \in Clients, NEW d \in Clients, c # d,
                      cpc[c] = "store", cpc[d] \in {"store", "read"},
                      ShardOf(c) = ShardOf(d)
               PROVE  FALSE
      BY DEF NoMapRace
  <2>1. ShardOf(c) \in Shards
      BY CallShard DEF CacheInv
  <2>2. writer[ShardOf(c)] = c /\ readers[ShardOf(c)] = {}
      BY <2>1, CacheAssumption DEF CacheInv, LocksHeld
  <2> QED
      BY <2>2 DEF CacheInv, LocksHeld
<1> QED
    BY <1>1, CacheInvariant, PTL

(* If no signal arrives before run has loaded the cache, then run never    *)
(* goes on with a cache without shards, in this or any later start.        *)
THEOREM CacheAlwaysUsable == Spec => [](LoadsBeforeStop => CacheUsable)
<1>1. CacheInv => (LoadsBeforeStop => CacheUsable)
    BY ZenonT(60) DEF CacheInv, ShardsPresent
<1> QED
    BY <1>1, CacheInvariant, PTL
-----------------------------------------------------------------------------
(* The end of the process is a restart of the abstract store. *)
LEMMA ForgetRestarts == CacheInv /\ Forget => Abstract!StoreRestart
<1> SUFFICES ASSUME CacheInv, Forget PROVE Abstract!StoreRestart
    OBVIOUS
<1> QED
    BY ShardExists DEF Forget, Empty, Abstract!StoreRestart

(* Every step of the cache is a step of the abstract store or leaves it    *)
(* unchanged.                                                              *)
LEMMA StoreStep ==
    ASSUME ~DumpRaces, CacheInv, [Next]_vars
    PROVE  [Abstract!StoreNext]_(Abstract!storeVars)
<1> USE CacheAssumption
<1> DEFINE Same == UNCHANGED Abstract!storeVars
<1>1. ASSUME GetCache PROVE Abstract!StoreNext
  <2>1. got' = [c \in Clients |-> NoTemplate] /\ ever' = ever
      BY ZenonT(60), <1>1 DEF GetCache, CacheInv, NothingReturnedYet, clientVars
  <2>2. \A k \in Keys : mCache'[Hash[k]] \in ever[k] \cup {NoTemplate}
      BY <1>1, ShardExists DEF GetCache, CacheInv, EntriesKnown, Known, Empty
  <2>3. \A k \in Keys : ever[k] \subseteq Templates
      BY ZenonT(60) DEF CacheInv, TypeOK
  <2>4. Abstract!StoreRestart
      BY <2>1, <2>2, <2>3 DEF Abstract!StoreRestart
  <2> QED
      BY <2>4 DEF Abstract!StoreNext
<1>2. ASSUME Forget PROVE Abstract!StoreNext
    BY <1>2, ForgetRestarts DEF Abstract!StoreNext
<1>3. ASSUME NEW c \in Clients, Store(c)
      PROVE  Abstract!StoreNext
  <2>1. /\ creq[c].key \in Keys
        /\ creq[c].tpl \in Templates
        /\ HashOf(c) \in Hashes
      BY Zenon, <1>3, CallShard DEF CacheInv, LocksHeld, Store
  <2>2. PICK key \in Keys, tpl \in Templates : creq[c].key = key /\ creq[c].tpl = tpl
      BY Zenon, <2>1
  <2>3. \A k \in Keys : mCache'[Hash[k]] = IF k = key THEN tpl ELSE mCache[Hash[k]]
      BY Zenon, <1>3, <2>1, <2>2, ShardExists DEF Store, HashOf, CacheInv, TypeOK
  <2>4. Abstract!StoreInsert(key, tpl)
    <3>1. [k \in Keys |-> mCache'[Hash[k]]] = [[k \in Keys |-> mCache[Hash[k]]] EXCEPT ![key] = tpl]
        BY ZenonT(60), <2>3
    <3>2. ever' = [ever EXCEPT ![key] = @ \cup {tpl}] /\ got' = got
        BY <1>3, <2>2 DEF Store
    <3> QED
        BY Zenon, <3>1, <3>2 DEF Abstract!StoreInsert
  <2> QED
      BY Zenon, <2>4 DEF Abstract!StoreNext
<1>4. ASSUME NEW c \in Clients, Read(c)
      PROVE  Abstract!StoreNext
  <2>1. creq[c].key \in Keys
      BY <1>4, CallShard DEF CacheInv, Read
  <2>2. /\ got' = [got EXCEPT ![c] = [k \in Keys |-> mCache[Hash[k]]][creq[c].key]]
        /\ mCache' = mCache
        /\ ever' = ever
      BY Zenon, <1>4, <2>1 DEF Read, cacheVars, HashOf
  <2>3. Abstract!StoreRetrieve(c, creq[c].key)
      BY <2>2 DEF Abstract!StoreRetrieve
  <2> QED
      BY <2>1, <2>3 DEF Abstract!StoreNext
<1>5. ASSUME UNCHANGED <<mCache, ever, got>>
      PROVE  Same
    BY <1>5 DEF Abstract!storeVars
<1>6. ASSUME Start \/ Stop \/ Dump \/ WriteError \/ WriteOpen \/ WriteDone
      PROVE  Same
    BY <1>5, <1>6 DEF Start, Stop, Dump, WriteError, WriteOpen, WriteDone, cacheVars, clientVars
<1>7. ASSUME NEW h \in Hashes, MarshalEntry(h) \/ MarshalRace(h)
      PROVE  Same
    BY ZenonT(60), <1>5, <1>7 DEF MarshalEntry, MarshalRace, cacheVars, clientVars
<1>8. ASSUME NEW c \in Clients, ShardPanic(c) \/ Lock(c) \/ RLock(c)
      PROVE  Same
    BY <1>5, <1>8 DEF ShardPanic, Lock, RLock, cacheVars, clientVars
<1>9. ASSUME NEW c \in Clients, NEW k \in Keys, NEW t, NEW at, Call(c, k, t, at)
      PROVE  Same
    BY <1>5, <1>9 DEF Call, cacheVars
<1>10. ASSUME UNCHANGED vars PROVE Same
    BY ZenonT(60), <1>5, <1>10 DEF vars, cacheVars, clientVars
<1> HIDE DEF Same
<1>11. Abstract!StoreNext \/ Same
    BY <1>1, <1>2, <1>3, <1>4, <1>6, <1>7, <1>8, <1>9, <1>10
       DEF Next, Shutdown, Client, Crash, Exit, InsertCall, RetrieveCall
<1> QED
    BY <1>11 DEF Same

(* Without a dump that races with an insert, the sharded cache with its    *)
(* file implements the abstract template store: a retrieve returns what    *)
(* was inserted last for that exporter and template id, and no restart     *)
(* brings in a template that was not inserted for it.                      *)
THEOREM CacheImplementsStore == ASSUME ~DumpRaces PROVE Spec => ImplementsStore
<1>1. Init => Abstract!StoreInit
    BY ShardExists DEF Init, Empty, Abstract!StoreInit
<1>2. CacheInv /\ [Next]_vars => [Abstract!StoreNext]_(Abstract!storeVars)
    BY StoreStep
<1> QED
    BY <1>1, <1>2, CacheInvariant, PTL DEF Spec, ImplementsStore, Abstract!StoreSpec
-----------------------------------------------------------------------------
(* What json.Marshal has read of a cache with shards is still in the cache, *)
(* unless it was stored over since; WriteFile only begins when all is read, *)
(* and what it has written is what was read.                                *)
SaveInv ==
    /\ proc \in {"down", "start"} => nilCache
    /\ sd \in {"marshal", "write", "done"} /\ ~snap.null =>
         /\ proc \notin {"down", "start"}
         /\ \A h \in Hashes \ (dirty \cup unread) : snap.cache[h] = mCache[h]
    /\ sd \in {"write", "done"} => unread = {}
    /\ sd = "done" => file = Disk(snap.null, snap.cache, shardNo)

(* Every step keeps it, if no insert overlaps the read of its shard. *)
LEMMA SaveStep ==
    ASSUME ~DumpRaces
    PROVE  CacheInv /\ SaveInv /\ [Next]_vars => SaveInv'
<1> SUFFICES ASSUME CacheInv, SaveInv, [Next]_vars PROVE SaveInv'
    OBVIOUS
<1> USE DEF SaveInv, cacheVars, lockVars, clientVars, dumpVars
<1>1. CASE Start
    BY Zenon, <1>1 DEF Start
<1>2. CASE GetCache
    BY Zenon, <1>2 DEF GetCache
<1>3. CASE Forget
    BY <1>3 DEF Forget
<1>4. CASE Stop \/ WriteError
    BY <1>4 DEF Stop, WriteError
<1>5. CASE Dump
  <2>1. unread' = Hashes \/ snap'.null
      BY <1>5 DEF Dump
  <2>2. proc' \in {"down", "start"} => snap'.null
      BY <1>5 DEF Dump
  <2> QED
      BY <1>5, <2>1, <2>2 DEF Dump
<1>6. CASE WriteOpen \/ WriteDone
    BY <1>6 DEF WriteOpen, WriteDone
<1>7. ASSUME NEW h \in Hashes, MarshalEntry(h)
      PROVE  SaveInv'
  <2>1. /\ snap'.null = snap.null
        /\ snap'.cache[h] = mCache[h]
        /\ \A g \in Hashes : g # h => snap'.cache[g] = snap.cache[g]
      BY <1>7 DEF MarshalEntry, CacheInv, TypeOK
  <2> QED
      BY <1>7, <2>1 DEF MarshalEntry
<1>8. ASSUME NEW c \in Clients, Store(c)
      PROVE  SaveInv'
  <2>1. \A g \in Hashes : g # HashOf(c) => mCache'[g] = mCache[g]
      BY <1>8 DEF Store, CacheInv, TypeOK
  <2> QED
      BY <1>8, <2>1 DEF Store
<1>9. ASSUME NEW c \in Clients, ShardPanic(c) \/ Lock(c) \/ RLock(c) \/ Read(c)
      PROVE  SaveInv'
    BY <1>9 DEF ShardPanic, Lock, RLock, Read
<1>10. ASSUME NEW c \in Clients, NEW k, NEW t, NEW at, Call(c, k, t, at)
       PROVE  SaveInv'
    BY <1>10 DEF Call
<1>11. CASE UNCHANGED vars
    BY <1>11 DEF vars
<1> QED
    BY Zenon, <1>1, <1>2, <1>3, <1>4, <1>5, <1>6, <1>7, <1>8, <1>9, <1>10, <1>11
       DEF Next, Shutdown, Client, Crash, Exit, InsertCall, RetrieveCall, MarshalRace

(* A template that is in the cache when Dump is called and stays there is  *)
(* in the file when Dump has written it, whatever is inserted meanwhile    *)
(* and whenever the signal arrived, unless an insert overlaps the read of  *)
(* its shard.                                                              *)
THEOREM CacheSaved == ASSUME ~DumpRaces PROVE Spec => []SavedUnlessStored
<1>1. Init => SaveInv
    BY DEF Init, SaveInv
<1>2. CacheInv /\ SaveInv /\ [Next]_vars => SaveInv'
    BY SaveStep
<1>3. SaveInv => SavedUnlessStored
    BY DEF SaveInv, SavedUnlessStored, Disk
<1> QED
    BY <1>1, <1>2, <1>3, CacheInvariant, PTL DEF Spec
=============================================================================
