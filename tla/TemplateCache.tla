--------------------------- MODULE TemplateCache ---------------------------
(***************************************************************************)
(* The template cache of the IPFIX collector (ipfix/memcache.go): shards   *)
(* of a map behind read-write locks, used by the decoder workers and the   *)
(* RPC goroutine; saved by shutdown and loaded by run (vflow/ipfix.go).    *)
(* The process may be killed at any moment and is started again.           *)
(* The cache of NetFlow v9 (netflow/v9/memcache.go) is the same code.      *)
(*                                                                         *)
(* A key is a pair of exporter address and template id; Hash is FNV-1 of   *)
(* it.  The maps of all shards are one function of the hash, the shard of  *)
(* a hash being its remainder.                                             *)
(***************************************************************************)
EXTENDS Integers, FiniteSets

CONSTANTS
    Keys,             \* pairs of address and template id
    Templates,        \* template records
    NoTemplate,       \* no entry
    TornTemplate,     \* what a read that races with a write may see
    Hash,             \* Hash[k]: the 32-bit hash of a key
    shardNo,          \* the number of shards
    Clients,          \* goroutines that use the cache
    NoClient,
    LoadsBeforeStop,  \* TRUE: no signal arrives while run is before GetCache
    DumpRaces         \* TRUE: json.Marshal may read a map during a write

ASSUME CacheAssumption ==
    /\ shardNo \in Nat \ {0}
    /\ Hash \in [Keys -> Nat]
    /\ \A j, k \in Keys : Hash[j] = Hash[k] => j = k
    /\ NoTemplate \notin Templates
    /\ TornTemplate \notin Templates \cup {NoTemplate}
    /\ NoClient \notin Clients
    /\ LoadsBeforeStop \in BOOLEAN
    /\ DumpRaces \in BOOLEAN

Hashes == {Hash[k] : k \in Keys}
Shards == 0..(shardNo - 1)
Entries == Templates \cup {NoTemplate, TornTemplate}

getShard(h) == h % shardNo

VARIABLES
    proc,      \* "down", "start" (before GetCache), "up"; "panic" or "fatal"
               \* when it died of an index out of range or of the runtime's
               \* check for concurrent use of a map
    nilCache,  \* mCache has no shards at all
    mCache,    \* mCache[h]: the entry of h in the map of shard getShard(h)
    writer, readers,  \* the holders of the lock of each shard
    cpc, creq, \* each client: where it is, and the arguments of its call
    got,       \* what its last retrieve returned
    sd,        \* shutdown: "no", "stop", "marshal", "write", "done",
               \* "failed"
    snap,      \* what json.Marshal has read: no shards, or the entries
    unread,    \* hashes whose entry json.Marshal has yet to read
    file,      \* the template cache file
    dirty,     \* history: hashes stored since Dump was called
    ever       \* history: ever[k], the templates that were stored for k

lockVars == <<writer, readers>>
clientVars == <<cpc, creq, got>>
cacheVars == <<nilCache, mCache>>
dumpVars == <<sd, snap, unread>>
vars == <<proc, cacheVars, lockVars, clientVars, dumpVars, file, dirty, ever>>

Empty == [h \in Hashes |-> NoTemplate]

(* memCacheDisk, as a file: absent, cut short by a crash or an error, or   *)
(* complete; null is a cache without shards.                               *)
Disk(null, cache, no) == [kind |-> "complete", null |-> null, cache |-> cache, ShardNo |-> no]
NoFile == [kind |-> "absent"]
CutFile == [kind |-> "cut"]
Files == {NoFile, CutFile} \cup
         [kind : {"complete"}, null : BOOLEAN, cache : [Hashes -> Entries], ShardNo : Nat]

NoCall == [key |-> NoTemplate, tpl |-> NoTemplate]
Calls == [key : Keys, tpl : Entries] \cup {NoCall}

(* The first start: there is no file, or one of a build with other shards. *)
Init ==
    /\ proc = "down"
    /\ nilCache = TRUE
    /\ mCache = Empty
    /\ writer = [s \in Shards |-> NoClient]
    /\ readers = [s \in Shards |-> {}]
    /\ cpc = [c \in Clients |-> "idle"]
    /\ creq = [c \in Clients |-> NoCall]
    /\ got = [c \in Clients |-> NoTemplate]
    /\ sd = "no"
    /\ snap = [null |-> TRUE, cache |-> Empty]
    /\ unread = {}
    /\ \/ file = NoFile
       \/ \E c \in [Hashes -> Templates \cup {NoTemplate}] : file = Disk(FALSE, c, shardNo + 1)
    /\ dirty = {}
    /\ ever = [k \in Keys |-> {}]

(* The process is gone and with it everything but the file. *)
Forget ==
    /\ proc' = "down"
    /\ nilCache' = TRUE
    /\ mCache' = Empty
    /\ writer' = [s \in Shards |-> NoClient]
    /\ readers' = [s \in Shards |-> {}]
    /\ cpc' = [c \in Clients |-> "idle"]
    /\ creq' = [c \in Clients |-> NoCall]
    /\ got' = [c \in Clients |-> NoTemplate]
    /\ sd' = "no"
    /\ snap' = [null |-> TRUE, cache |-> Empty]
    /\ unread' = {}
    /\ dirty' = {}
    /\ UNCHANGED <<file, ever>>
-----------------------------------------------------------------------------
(* run: the process is started, and somewhat later loads the cache. *)

Start ==
    /\ proc = "down"
    /\ proc' = "start"
    /\ UNCHANGED <<cacheVars, lockVars, clientVars, dumpVars, file, dirty, ever>>

(* Mutants: no shards are made when there is no file to load; the number   *)
(* of shards of the file is not compared.                                  *)
GetCacheNoMake ==
    /\ proc = "start"
    /\ proc' = "up"
    /\ IF file.kind = "complete" /\ file.ShardNo = shardNo
       THEN nilCache' = file.null /\ mCache' = file.cache
       ELSE UNCHANGED cacheVars
    /\ UNCHANGED <<lockVars, clientVars, dumpVars, file, dirty, ever>>

GetCacheAnyShards ==
    /\ proc = "start"
    /\ proc' = "up"
    /\ IF file.kind = "complete"
       THEN nilCache' = file.null /\ mCache' = file.cache
       ELSE nilCache' = FALSE /\ mCache' = Empty
    /\ UNCHANGED <<lockVars, clientVars, dumpVars, file, dirty, ever>>

GetCache ==
    /\ proc = "start"
    /\ proc' = "up"
    /\ IF file.kind = "complete" /\ file.ShardNo = shardNo
       THEN nilCache' = file.null /\ mCache' = file.cache
       ELSE nilCache' = FALSE /\ mCache' = Empty
    /\ UNCHANGED <<lockVars, clientVars, dumpVars, file, dirty, ever>>

(* The process is killed. *)
Crash == proc # "down" /\ Forget
-----------------------------------------------------------------------------
(* insert and retrieve. *)

HashOf(c) == Hash[creq[c].key]
ShardOf(c) == getShard(HashOf(c))

Call(c, k, t, at) ==
    /\ proc = "up"
    /\ cpc[c] = "idle"
    /\ creq' = [creq EXCEPT ![c] = [key |-> k, tpl |-> t]]
    /\ cpc' = [cpc EXCEPT ![c] = at]
    /\ UNCHANGED <<proc, cacheVars, lockVars, got, dumpVars, file, dirty, ever>>

InsertCall(c, k, t) == Call(c, k, t, "lock")
RetrieveCall(c, k) == Call(c, k, NoTemplate, "rlock")

(* getShard indexes a cache without shards. *)
ShardPanic(c) ==
    /\ proc = "up"
    /\ cpc[c] \in {"lock", "rlock"}
    /\ nilCache
    /\ proc' = "panic"
    /\ UNCHANGED <<cacheVars, lockVars, clientVars, dumpVars, file, dirty, ever>>

(* Mutant: insert takes RLock. *)
LockShared(c) ==
    /\ proc = "up"
    /\ cpc[c] = "lock"
    /\ ~nilCache
    /\ writer[ShardOf(c)] = NoClient
    /\ readers' = [readers EXCEPT ![ShardOf(c)] = @ \cup {c}]
    /\ cpc' = [cpc EXCEPT ![c] = "store"]
    /\ UNCHANGED <<proc, cacheVars, writer, creq, got, dumpVars, file, dirty, ever>>

Lock(c) ==
    /\ proc = "up"
    /\ cpc[c] = "lock"
    /\ ~nilCache
    /\ writer[ShardOf(c)] = NoClient
    /\ readers[ShardOf(c)] = {}
    /\ writer' = [writer EXCEPT ![ShardOf(c)] = c]
    /\ cpc' = [cpc EXCEPT ![c] = "store"]
    /\ UNCHANGED <<proc, cacheVars, readers, creq, got, dumpVars, file, dirty, ever>>

(* The map write ends, and the lock is released. *)
Store(c) ==
    /\ proc = "up"
    /\ cpc[c] = "store"
    /\ mCache' = [mCache EXCEPT ![HashOf(c)] = creq[c].tpl]
    /\ ever' = [ever EXCEPT ![creq[c].key] = @ \cup {creq[c].tpl}]
    /\ dirty' = IF sd \in {"no", "stop"} THEN dirty ELSE dirty \cup {HashOf(c)}
    /\ writer' = [writer EXCEPT ![ShardOf(c)] = NoClient]
    /\ cpc' = [cpc EXCEPT ![c] = "idle"]
    /\ creq' = [creq EXCEPT ![c] = NoCall]
    /\ UNCHANGED <<proc, nilCache, readers, got, dumpVars, file>>

RLock(c) ==
    /\ proc = "up"
    /\ cpc[c] = "rlock"
    /\ ~nilCache
    /\ writer[ShardOf(c)] = NoClient
    /\ readers' = [readers EXCEPT ![ShardOf(c)] = @ \cup {c}]
    /\ cpc' = [cpc EXCEPT ![c] = "read"]
    /\ UNCHANGED <<proc, cacheVars, writer, creq, got, dumpVars, file, dirty, ever>>

Read(c) ==
    /\ proc = "up"
    /\ cpc[c] = "read"
    /\ got' = [got EXCEPT ![c] = mCache[HashOf(c)]]
    /\ readers' = [readers EXCEPT ![ShardOf(c)] = @ \ {c}]
    /\ cpc' = [cpc EXCEPT ![c] = "idle"]
    /\ creq' = [creq EXCEPT ![c] = NoCall]
    /\ UNCHANGED <<proc, cacheVars, writer, dumpVars, file, dirty, ever>>

Client(c) ==
    \/ \E k \in Keys, t \in Templates : InsertCall(c, k, t)
    \/ \E k \in Keys : RetrieveCall(c, k)
    \/ ShardPanic(c) \/ Lock(c) \/ Store(c) \/ RLock(c) \/ Read(c)
-----------------------------------------------------------------------------
(* shutdown: a signal, one second of sleep, Dump, the end of main.  The    *)
(* clients go on all the time.                                             *)

Stop ==
    /\ sd = "no"
    /\ proc \in IF LoadsBeforeStop THEN {"up"} ELSE {"start", "up"}
    /\ sd' = "stop"
    /\ UNCHANGED <<proc, cacheVars, lockVars, clientVars, snap, unread, file, dirty, ever>>

(* Mutant: the first shard is left out of memCacheDisk. *)
DumpSecondOn ==
    /\ proc \in {"start", "up"}
    /\ sd = "stop"
    /\ sd' = "marshal"
    /\ snap' = [null |-> nilCache, cache |-> Empty]
    /\ unread' = IF nilCache THEN {} ELSE {h \in Hashes : getShard(h) # 0}
    /\ dirty' = {}
    /\ UNCHANGED <<proc, cacheVars, lockVars, clientVars, file, ever>>

(* Dump is called on the cache as it is, without shards before GetCache. *)
Dump ==
    /\ proc \in {"start", "up"}
    /\ sd = "stop"
    /\ sd' = "marshal"
    /\ snap' = [null |-> nilCache, cache |-> Empty]
    /\ unread' = IF nilCache THEN {} ELSE Hashes
    /\ dirty' = {}
    /\ UNCHANGED <<proc, cacheVars, lockVars, clientVars, file, ever>>

(* json.Marshal reads the maps of the shards without their locks.  If the *)
(* second of sleep before Dump was enough for the insert in progress, it   *)
(* reads the entry as it is ...                                            *)
MarshalEntry(h) ==
    /\ proc \in {"start", "up"}
    /\ sd = "marshal"
    /\ h \in unread
    /\ DumpRaces \/ writer[getShard(h)] = NoClient
    /\ snap' = [snap EXCEPT !.cache[h] = mCache[h]]
    /\ unread' = unread \ {h}
    /\ UNCHANGED <<proc, cacheVars, lockVars, clientVars, sd, file, dirty, ever>>

(* ... and if not, the map is being written: the entry may be missed or    *)
(* half written, or the runtime notices and ends the process.              *)
MarshalRace(h) ==
    /\ DumpRaces
    /\ proc = "up"
    /\ sd = "marshal"
    /\ h \in unread
    /\ writer[getShard(h)] # NoClient
    /\ \/ /\ proc' = "fatal"
          /\ UNCHANGED <<snap, unread>>
       \/ /\ \E t \in {NoTemplate, TornTemplate} : snap' = [snap EXCEPT !.cache[h] = t]
          /\ unread' = unread \ {h}
          /\ UNCHANGED proc
    /\ UNCHANGED <<cacheVars, lockVars, clientVars, sd, file, dirty, ever>>

(* WriteFile cannot open the file, or truncates it ...                     *)
WriteError ==
    /\ proc \in {"start", "up"}
    /\ \/ sd = "marshal" /\ unread = {}
       \/ sd = "write"
    /\ sd' = "failed"
    /\ UNCHANGED <<proc, cacheVars, lockVars, clientVars, snap, unread, file, dirty, ever>>

WriteOpen ==
    /\ proc \in {"start", "up"}
    /\ sd = "marshal"
    /\ unread = {}
    /\ sd' = "write"
    /\ file' = CutFile
    /\ UNCHANGED <<proc, cacheVars, lockVars, clientVars, snap, unread, dirty, ever>>

(* Mutant: the number of shards is left out of memCacheDisk. *)
WriteDoneNoShardNo ==
    /\ proc \in {"start", "up"}
    /\ sd = "write"
    /\ sd' = "done"
    /\ file' = Disk(snap.null, snap.cache, 0)
    /\ UNCHANGED <<proc, cacheVars, lockVars, clientVars, snap, unread, dirty, ever>>

(* ... and writes it.                                                      *)
WriteDone ==
    /\ proc \in {"start", "up"}
    /\ sd = "write"
    /\ sd' = "done"
    /\ file' = Disk(snap.null, snap.cache, shardNo)
    /\ UNCHANGED <<proc, cacheVars, lockVars, clientVars, snap, unread, dirty, ever>>

(* main returns when shutdown and run have returned. *)
Exit == proc = "up" /\ sd \in {"done", "failed"} /\ Forget

Shutdown ==
    \/ Stop \/ Dump \/ WriteError \/ WriteOpen \/ WriteDone \/ Exit
    \/ \E h \in Hashes : MarshalEntry(h) \/ MarshalRace(h)
-----------------------------------------------------------------------------
Next == Start \/ GetCache \/ Crash \/ Shutdown \/ \E c \in Clients : Client(c)

Spec == Init /\ [][Next]_vars
-----------------------------------------------------------------------------
(* The types of the variables. *)
TypeOK ==
    /\ proc \in {"down", "start", "up", "panic", "fatal"}
    /\ nilCache \in BOOLEAN
    /\ mCache \in [Hashes -> Entries]
    /\ writer \in [Shards -> Clients \cup {NoClient}]
    /\ readers \in [Shards -> SUBSET Clients]
    /\ cpc \in [Clients -> {"idle", "lock", "store", "rlock", "read"}]
    /\ creq \in [Clients -> Calls]
    /\ got \in [Clients -> Entries]
    /\ sd \in {"no", "stop", "marshal", "write", "done", "failed"}
    /\ snap \in [null : BOOLEAN, cache : [Hashes -> Entries]]
    /\ unread \subseteq Hashes
    /\ file \in Files
    /\ dirty \subseteq Hashes
    /\ ever \in [Keys -> SUBSET Templates]

(* While insert writes the map of a shard no other insert or retrieve is   *)
(* in that map.                                                            *)
NoMapRace ==
    \A c, d \in Clients :
        c # d /\ cpc[c] = "store" /\ cpc[d] \in {"store", "read"} => ShardOf(c) # ShardOf(d)

(* "Dump saves the current templates to hard disk": a template that is in  *)
(* the cache when Dump is called and stays there is in the file when Dump  *)
(* has written it, whatever is inserted meanwhile.                         *)
SavedUnlessStored ==
    proc = "up" /\ sd = "done" /\ ~snap.null
        => /\ file.kind = "complete" /\ file.ShardNo = shardNo
           /\ \A h \in Hashes \ dirty : file.cache[h] = mCache[h]

(* "GetCache tries to load saved templates otherwise it constructs new     *)
(* empty shards": run never goes on with a cache without shards, which     *)
(* would panic at the first template or data set.                          *)
CacheUsable == proc \in {"up", "panic", "fatal"} => ~nilCache

(* "Dump saves the current templates to hard disk": what json.Marshal has  *)
(* read of an entry is a template or nothing, never one that insert is     *)
(* still writing, and the runtime's check for concurrent use of a map does *)
(* not end the process.                                                    *)
DumpConsistent == proc # "fatal" /\ \A h \in Hashes : snap.cache[h] # TornTemplate

(* The cache implements the abstract template store. *)
Abstract == INSTANCE TemplateStore WITH store <- [k \in Keys |-> mCache[Hash[k]]]

(* A retrieve returns what was inserted last for that exporter and id, and *)
(* no crash, cut file, foreign file or concurrent dump ever brings in a    *)
(* template that was not inserted for it.                                  *)
ImplementsStore == Abstract!StoreSpec
-----------------------------------------------------------------------------
(* The parts of the inductive invariant. *)

(* A client in a map holds the lock of its shard in the mode it needs, and *)
(* a shard with a writer has no readers.                                   *)
LocksHeld ==
    /\ \A c \in Clients :
         /\ cpc[c] # "idle" => creq[c] \in [key : Keys, tpl : Entries]
         /\ cpc[c] \in {"lock", "store"} => creq[c].tpl \in Templates
         /\ cpc[c] = "store" => writer[ShardOf(c)] = c
         /\ cpc[c] = "read" => c \in readers[ShardOf(c)]
    /\ \A s \in Shards : writer[s] # NoClient => readers[s] = {}

(* A loaded file of this build has shards, and so has whatever is dumped. *)
ShardsPresent ==
    LoadsBeforeStop =>
        /\ CacheUsable
        /\ proc \in {"down", "start"} => sd = "no"
        /\ sd \notin {"no", "stop"} => ~snap.null
        /\ file.kind = "complete" /\ file.ShardNo = shardNo => ~file.null

(* Every copy of an entry, in memory, on its way to the file or in it, was *)
(* inserted for its key.                                                   *)
Known(cache) == \A k \in Keys : cache[Hash[k]] \in ever[k] \cup {NoTemplate}

EntriesKnown ==
    ~DumpRaces =>
        /\ Known(mCache)
        /\ Known(snap.cache)
        /\ file.kind = "complete" /\ file.ShardNo = shardNo => Known(file.cache)

NothingReturnedYet == proc \in {"down", "start"} => got = [c \in Clients |-> NoTemplate]

CacheInv ==
    /\ TypeOK
    /\ LocksHeld
    /\ ShardsPresent
    /\ EntriesKnown
    /\ NothingReturnedYet
=============================================================================
