# A TLA+ model of vFlow

vFlow collects IPFIX, NetFlow v9 and sFlow datagrams over UDP, decodes them in
pools of goroutines and hands the result to a message queue.  This directory
holds TLA+ modules for its parts, the TLC configurations that check them on
small instances, and TLAPS proofs of the invariants that matter most.

`PROJECT.json` lists for every definition the lines of the code it models, for
every property a mutation of the model that breaks it, and the hazards of the
code with the properties that cover them.  Paths below are relative to `src/`.

## The system

| part | code | module |
|---|---|---|
| the three collectors: read loop, UDP channel, `sync.Pool`, MQ channel, shutdown | `vflow/ipfix.go`, `netflow_v9.go`, `sflow.go`, `vflow.go` | `Collector` |
| their worker loops | the same files | `IPFIXCollector`, `NetflowV9Collector`, `SFlowCollector` |
| dynamic worker pool: `run`, `dynWorkers` | the same files | `WorkerPool` |
| `main` over the three collectors | `vflow/vflow.go` and the same files | `Main` |
| options, PID file, CPU limit | `vflow/options.go` | `Startup` |
| template cache and its file | `ipfix/memcache.go`, `netflow/v9/memcache.go` | `TemplateCache`, `TemplateStore` |
| template RPC, discovery of other nodes | `ipfix/memcache_rpc.go`, `disc/disc.go` | `TemplateRPC`, `Discovery` |
| decoders and the reader of bytes | `ipfix/decoder.go`, `netflow/v9/decoder.go`, `reader/` | `IPFIXDecoder`, `NetflowV9Decoder`, `Reader` |
| sFlow decoder and packet headers | `sflow/`, `packet/` | `SFlowDecoder`, `Packet` |
| values and JSON | `ipfix/interpret.go`, `ipfix/marshal.go`, `netflow/v9/marshal.go` | `JSONMarshal` |
| mirror dispatcher and senders | `vflow/ipfix_unix.go`, `mirror/` | `MirrorDispatcher` |
| producers for Kafka, NSQ, NATS and a raw socket | `producer/` | `Producer` |
| ClickHouse consumer | `consumers/clickhouse/main.go` | `ClickHouseConsumer` |
| monitor | `monitor/` | `Monitor` |

`main` reads the options, refuses to start beside another vFlow, and starts
`run` of each collector.  `run` starts the workers, the producer, `dynWorkers`
and (IPFIX) the RPC and the mirror dispatcher, then reads datagrams into buffers
of a `sync.Pool` and sends them to the UDP channel.  A worker receives a message,
decodes it with the templates of the cache, marshals it and sends it to the MQ
channel if there is room; a template it misses it asks other nodes for.  A signal
starts `shutdown` of each collector, which sets `stop`, sleeps for a second, saves
the templates and closes the UDP channel.

## The modules

**WorkerPool.**  Quit channels are interchangeable, so the goroutines are
counted by stage (`spawned`, `registering`, in `pool`) and the numbers of the code
stay as they are.  One action per step of `dynWorkers`: the samples, the four
decisions, and for the retirement loop the test of `len(i.pool)`, which also
decrements the counter, apart from the receive.  Reading the counter and starting the
goroutines is one step: a goroutine only adds to the counter, and only one
of an earlier tick can do so between the two, which is what `Settles` is about.

**Collector** holds what the three collectors share; the worker modules extend
it.  A datagram is its number, a buffer a model value, and `mem[b]` the datagram
whose bytes the buffer holds.  A message pairs the buffer with the datagram its
length and address belong to, so a buffer that is reused too early shows up as a
mismatch.  `avail` is what `Get` may return: buffers that were put back, and
buffers nothing refers to (the garbage collector frees them and `New` makes
others).  What `Decode` and `JSONMarshal` do is a choice of the outcomes the loops
tell apart; the modules about them say which outcomes there are.
**IPFIXCollector** adds the mirror: `MirrorCopy` is the `Get`, the copy and the
`select` with `default`; the other end takes messages and puts their buffers back
at any time or never, of which `MirrorDispatcher` is one case.

**Main** keeps of each collector what `main` and the others notice: `run` with its
early returns and fatal exits, the read loop, `shutdown` with the saving of the
templates, and the wait group.  The panic of one goroutine ends all of them.

**Startup** is `GetOptions` step by step for processes that come and go: options
that end the process or do not, the check with `kill -0`, the PID file that is
written over without being truncated or cannot be written, and the CPU limit.  A PID
is its digits; once a process has ended another one, vFlow or not, may get it.  What
the options say is left out.

**TemplateStore** is what a cache promises: a retrieve returns the last
insert for exporter and id; a restart may lose templates or bring back older
ones, but invents none.  **TemplateCache** is the code: shards with read-write
locks, clients that hold them over several steps, a dump that reads entry by
entry without the locks, a file that is truncated and then written, kills at any
moment, and the load at the next start.  The maps of all shards are one function
of the hash.  A dump that reads a map during a write (a data race) may miss the
entry, read it half written (`TornTemplate`) or end the process.

**Discovery** is the table of nodes that say hello, with the age of an entry in
place of its time.  A node is in its own table when `getLocalIPs` does not know the
address it sends from, and then asks itself too.  **TemplateRPC** extends it: the channel with one place for
requests, the goroutine that asks one server after the other, and the others,
who stop, start again with or without their templates, or fall silent.

**Reader** has the position in a datagram and the reads that advance it or fail.
**IPFIXDecoder** and **NetflowV9Decoder** are `Decode` and `decodeSet` over it.  The
datagram is chosen while it is read, so that all datagrams with the given header
fields are covered; of a field the length counts and whether the information
model knows it.  The 16-bit differences of the code are taken modulo 2^16.  Other
workers replace templates in the cache at any time.  **SFlowDecoder** does the same
for samples and records and includes the worker's decision to publish; its ghost
variables follow the lengths of the exporter for as long as they are true, and take
the size of a sample's header from the format, which is four bytes more than the
code reads of an expanded flow sample.
**Packet** is the functions of `packet/` on the number of bytes left.

**JSONMarshal** encodes one message after the other into one buffer, field by
field.  A text is a sequence of the tokens that a reader of JSON tells apart, and
`MessageText` is the reference it is compared with.

**MirrorDispatcher** routes copies to the channels of the two address families;
the senders build a packet from headers and copy, put the buffer back, and send.
Lengths and header sizes are those of the code.

**Producer** is `Run` and `inputMsg` of the four producers with a server that goes
away and comes back.  Of the settings it keeps whether `setup` succeeds with them.  A
connection whose other end is gone takes a write without an error until the end is
noticed; the NATS client keeps messages while it looks for its server.  `Shutdown`, which
vFlow never calls, is there as an exported operation of the package.
**ClickHouseConsumer** has partitions, offsets that are marked and flushed,
batches, commits in goroutines of their own, and crashes.

**Monitor** is one run per line of the crontab: the query, the state file, which is
truncated and written, the comparison and the posting, with overlapping runs,
writes that fail unnoticed, runs that are killed, and vFlow restarting in between.

Parts that share no state are joined into five modules: **Collectors**,
**Decoders**, **Delivery**, **Cluster** and **Process**.  A variable says which part runs,
and the others stay in an initial state.  The properties of the composed runs are
stated there, for any constants, and the proofs are about these modules; an `MC`
module extends one of them and gives only values, initial choices and bounds.

## Assumptions

With names in the modules:

- `CacheAssumption`: the hash is injective on the keys in use.  The code keys its
  maps by the 32-bit hash alone, so two colliding exporters would share an entry.
- `Settles`: goroutines started by one tick of `dynWorkers` have run their first
  statement when the samples of the next are in, about two minutes later.
- `SleepCoversRead`: the second shutdown sleeps outlasts the one-second read
  deadline.  Only the run about the panic assumes it; the others do not.
- `LoadsBeforeStop`: no signal arrives while `run` is before `GetCache`.
- `DumpRaces = FALSE`: the second before `Dump` was enough for the inserts in
  progress.  Inserts between two entries that the dump reads stay possible.
- `Serial`: vFlow processes are started one after the other.
- `MirrorAssumption`: a mirrored datagram is no longer than an IPv4 packet can carry
  in UDP; `DecoderAssumption`: no datagram, length or count exceeds 16 bits.  Both are
  what UDP and the formats allow.

Without a name: `kill` is installed, and every vFlow belongs to the same user; vFlow is
not started twice within a second (the monitor tells runs apart by the second of
their start); the raw socket is TCP, its default; a message is delivered once it is
written to a connection that is whole; Kafka's client gives every message back as
an error that it does not deliver, and NSQ's `Publish` returns after the server's
answer; the IPv6 receiver of the discovery behaves as the IPv4 one, whose code it
repeats.

## What TLC checks

| run | instance | shows |
|---|---|---|
| `worker_pool` | 2 workers, capacity 64, a load on each side of every threshold | the counter is exact, the minimum is kept, neither registration nor retirement blocks, the pool shrinks back when the load stays away |
| `collectors` | each collector with 2 workers, 5 buffers, channels of 1; 3 datagrams (IPFIX with its mirror 2) | no buffer has two users; what is decoded, produced and mirrored is what arrived; no datagram is lost or handled twice; `DecodedCount` is exact |
| `ipfix_live` | 2 datagrams, a producer that takes nothing; a dynamic worker, or a mirror without fairness | every datagram is decoded, a signal ends the process, retiring loses nothing |
| `cache_locks` | 2 clients, 2 keys of one shard, racing dump, signals before `GetCache` | a map being written has no other user |
| `cache_restart` | 1 client, 2 keys, 2 templates, kills, cut and foreign files | implements `TemplateStore`; what stays in the cache during a dump is in the file |
| `decoders` | each decoder on datagrams of three lengths with up to several sets or samples | sets and samples are read from where they begin, only whole templates are cached, a set is read with one template, no record or sample goes missing, errors of NetFlow v9 templates are reported, decoding ends (conditions below) |
| `delivery` | 2 records of 2 fields; 3 messages for each producer; 2 partitions of 2 messages and a crash | queued texts are whole; losses that a call reports are counted; retries end and the raw socket recovers; the consumer stores nothing twice without a crash, and leaves nothing behind |
| `cluster` | 2 peers and 1 template, 1 peer and 2, or 1 of each with the node in its own table; 2 senders, 2 buffers, 3 datagrams | templates are filed under their exporter, missed ones are found, stopped peers forgotten; mirrored packets are what arrived, with true lengths, and are sent |
| `process` | 4 vFlow processes with PIDs of 1 and 2 digits, one of them used twice, and other programs with PIDs of theirs; 2 collectors, enabled or not, with every fatal exit; 2 monitors, 2 runs of vFlow | one instance and a true PID file, for PIDs written in full; `main` returns last, a signal ends the process and saves the templates; rates are of one run of vFlow |
| `ipfix_shutdown_panic` | one worker, `SleepCoversRead` | violated: close of a channel with a blocked sender |
| `cache_early_stop` | 1 client, signals before `GetCache` | violated: a cache without shards is saved, and loaded in the same process or at the next start |
| `cache_dump_race` | 1 client, racing dump | violated: torn entry or end of the process |

The composed runs join properties of several modules under one name:

| run | property | joins |
|---|---|---|
| `collectors` | `SlicesOwned`, `BytesIntact`, `NoDatagramLost` | types and `BufferOwnership`; `PayloadIntact`; `DatagramConserved` and `DecodedCounted`, of each collector |
| `decoders` | `ReadInPlace` | types, `SetsAligned` (IPFIX), `SamplesAligned` and `SamplesComplete` (sFlow) |
| | `NothingMissing` | `RecordsCounted` (IPFIX), `PaddedSetRead` (NetFlow v9) |
| | `TemplatesWhole` | `CachedWhole` (IPFIX), `TemplatesWhole` and `TemplateErrorsReported` (NetFlow v9) |
| `delivery` | `QueuedWhole` | types, `QueuedWhole` and `FailedNotQueued` of `JSONMarshal` |
| | `LossesCounted`, `ProducerGoesOn` | types and `LossesCounted`; `MessageDone`, `Drained` and `Recovers` of `Producer` |
| | `IngestedOnce` | `NoneTwice` and `FlushedOnItsWay` of `ClickHouseConsumer` |
| `cluster` | `PacketsTrue` | types, `SentAsReceived`, `SourceFits` and `LengthsAgree` of `MirrorDispatcher` |
| `process` | `OneNamedInstance` | `OneInstance` and `PIDFileNamesProcess` of `Startup` |

Types of `WorkerPool`, `TemplateCache` and `TemplateRPC` are not in a run: they are proved.

*Bounds.*  Channels of one place are full and empty in every combination, which is
all the code distinguishes.  Two or three datagrams are enough for one to be in a
worker while the next one overwrites a buffer that was put back too early; the
mutations of `Get` and `Put` in `PROJECT.json` are all found with them.  The buffers are as many
as can be in use at once, so `Get` never waits, as in the code.  Capacity 64 lets
the bursts of 30, 40 and 60 be accepted and refused, and 100 be refused.  The
lengths of the decoders' datagrams, sets and fields are chosen so that headers are
cut, sets end before, with and after their last record, and padding is shorter
and longer than four bytes; field counts include zero.  `MaxRecords` only caps a
counter, so an endless loop shows as a cycle.  The mirror has a datagram that
fits into the packet and one that does not.  The clocks of RPC and monitor run for
as long as an entry lives and for one restart.  The PIDs 41, 7, 41 and 52 let a start find
its own PID in the file, write a shorter, an equal and a longer one than it holds, and
leave 71, which another program may have.  Buffers are symmetric in
`collectors`; runs with liveness use no symmetry.

*Deadlock* is checked for `WorkerPool` and `TemplateCache`, which never stop.  It is
not for the others: a decoder is done with its datagram, a process ends, a start
is refused, producer and consumer run out of the bounded number of messages.

*Fairness.*  The Go scheduler runs every runnable goroutine: weak fairness of
readers, workers, dispatcher, senders, producers, and of the wake-up of `shutdown`.
Strong fairness is assumed of three things.  "Some worker in its select takes a waiting
message": `dynWorkers` acts once in two minutes, it cannot retire workers faster
than they select.  Dialling a running peer: not every dial times out.  The passing
of a second, which no event holds up.  In `Main` workers make room in a full
channel, which `ipfix_live` shows of the collector.  In `TemplateRPC` data sets
that need a missed template keep coming.  Nothing is assumed of servers coming back,
of mirror and producer as the collectors see them, of signals, crashes, cron or
`dynWorkers` itself.  In `WorkerPool` the ticker ticks and goroutines run.

*Conditions inside properties.*  Where the code does not give what one would like,
the property names the case and holds outside of it:

- `CachedWhole`: of the scope fields of an options template it says only that there
  are some; `TemplatesWhole`: of templates, not of options templates, which carry
  no field count.
- `ReadInPlace`: of sFlow samples up to the first expanded flow sample, and while the
  exporter's lengths are true.  Of an expanded flow sample the code reads four bytes
  less than it has, so its records and what follows are misread.
- `DecodeEnds`: unless Decode is in a set whose records take no bytes, where it goes on
  for ever, or an sFlow record panics (an extended router record with a length of 8 to
  11, `sflow/flow_sample.go:189`, or a short 802.1Q frame, `packet/ethernet.go:82`), which
  ends the process.
- `PaddedSetRead`, `RecordsCounted`: records longer than four bytes, and for
  NetFlow v9 at most four bytes of padding.
- `FailedNotQueued`: of the last field only.
- `MissedTemplateFound`: other requests do not keep taking the one place of
  `rpcChan`, and no peer fell silent; `StoppedPeerForgotten`: the latter.
- `Mirrored`: of the destination's family, while no sender lost its socket, nothing
  panicked and the channel of the other family is not full.
- `LengthsAgree`: of IPv4 packets; the length of an IPv6 header counts differently.
- `LossesCounted`: of messages lost without an error (`silent`: written to a connection
  before its end was noticed, or in the NATS client when it gave up) no count
  tells.  With Kafka one count stands for two messages, until `inputMsg` returns;
  with the raw socket every attempt counts.
- `Recovers`: of connections whose pipe broke, the error the code looks for.
- `OneNamedInstance`: of processes whose PID was written in full (not in `spoilt`).  After
  a write that failed, or that left digits of a longer PID behind, the file does not
  name the process, and another vFlow may start beside it.  Nothing is said of refusals:
  a start is refused as well when another program has the PID of the file, or the
  starting process itself.
- `FlushedOnItsWay`: without a crash; offsets are flushed before rows are committed.
- `SignalSaves`: of collectors that serve, unless the process dies before.
- `RatesWithinRun`: of rates that are posted.  Once the state file is cut none is.

## What is proved

TLAPS checks the following for every value of the constants: any number of
workers, buffers, datagrams, keys, nodes, partitions, processes, any capacity and any
length.  Each proof shows that an inductive invariant holds initially and is kept by
every action, and derives the property from it.

| module | theorem: property | inductive invariant |
|---|---|---|
| `WorkerPoolProofs` | `PoolTypes`: `TypeOK`; `PoolCounted`: `WorkersCounted`; `PoolMinimumKept`: `MinimumKept`; `PoolRetireNeverBlocks`; `PoolRegisterNeverBlocks` (given `Settles`) | `PoolInv`: the properties together, and `Quiet`, which bounds the counters of `dynWorkers` at each of its places |
| `TemplateCacheProofs` | `CacheTypes`: `TypeOK`; `CacheExclusion`: `NoMapRace`; `CacheAlwaysUsable` (given `LoadsBeforeStop`); `CacheImplementsStore` (given no racing dump) | `CacheInv`: who is in a map holds the lock of its shard, a loaded cache has its shards, every entry in memory, snapshot and file was once inserted for its key |
| | `CacheSaved`: `SavedUnlessStored` (given no racing dump) | `SaveInv`: what the dump has read of a shard is still there unless it was stored over, and the file is written only when all is read |
| `CollectorProofs` | `CollectorsOwnSlices`: `SlicesOwned` of all three collectors | `Typed` (in each of its places a goroutine that should hold a buffer does) with ownership |
| | `CollectorsKeepBytes`: `BytesIntact`; `CollectorsLoseNothing`: `NoDatagramLost`; `CollectorConservesDatagrams`: `DatagramConserved` | on top of ownership: `Conserved` (no datagram is finished before it is read, and it is in one place) and `Counted` (`DecodedCount` is the number of those decoded) |
| `DecoderProofs` | `SetsAndSamplesInPlace`: `ReadInPlace`; `OnlyWholeTemplates`: `TemplatesWhole`; `OneTemplateForASet`: `OneTemplatePerSet` | `DecodersInv`: the position of each reader, the template being read with the specifiers still to come, and the samples still to come |
| | `NoRecordMissing`: `NothingMissing` | `RecordsInv` on top of it: the reader is behind the header of the set, as many records as are counted and the fields of the one in hand |
| | `EveryStepProgresses`: every decode step lowers a rank | `DecodersInv`; the rank is (`Ahead`, `Stage`), for sFlow (`SFlowAhead`, `SFlowStage`) |
| `DeliveryProofs` | `QueuedTextsWhole`: `QueuedWhole` | `EncoderInv`: the buffer holds the records before the one in hand and of that the fields before the one in hand, `err` is that of the last field |
| | `ProducersCountLosses`: `LossesCounted` | `ProducerInv` with `OnePlace`: a message is in the channel, in hand or gone, in order, and what is missed of those gone is in the count |
| | `ConsumerIngestsOnce`: `IngestedOnce` | `ConsumerInv` with `Apart` (no message is twice on its way), `RowsBounded` and `TakenKept` |
| `ClusterProofs` | `TemplatesFromExporters`: `FromItsExporter`; `RPCTypes`: `TypeOK` | `RPCInv`: the answer in hand is one for the request in hand |
| | `MirroredPacketsTrue`: `PacketsTrue` | `MirrorInv` with `BuffersApart` and `BuffersKept`: the buffer of a message on its way is in no other place, and holds its datagram |
| `ProcessProofs` | `MainReturnsLast`: `ReturnsLast` | `MainInv`: the wait group counts the goroutines of `run` and `shutdown` that are started and not done |
| | `StartupOneInstance`: `OneNamedInstance` (given `Serial`, for PIDs of any lengths that anybody gets again) | `StartupInv`: one process starts at a time, the file holds the PID of one past the check if that was written in full, and no second one is about to write |
| | `MonitorRates`: `RatesWithinRun` | `MonitorInv` with `StampsAgree`: answers with one start time are of one run of vFlow, wherever they are kept |

*The store.*  The refinement maps the store's contents to the map entries of the cache,
so that an insert takes place at the write into the map, and start and end of a
process are the abstract restart.

*The collectors.*  The three worker loops differ in where they put a buffer back and
when they count.  `CommonNext` of `CollectorProofs` lists the few kinds of steps that
matter to buffers and datagrams, the lemmas `IPFIXCommon`, `NF9Common` and `SFCommon`
show that each loop takes no others, and the invariants are proved of these.  Ownership
has to come first: that a message still has its bytes follows from nobody else having
its buffer, and only then can a step of one goroutine be shown not to disturb the others.

*The decoders.*  `decodeSet` computes the bytes left in a set as a 16-bit difference, so
a record that overran its set makes it large instead of negative.  As long as
nothing overran, the difference is exact, and skipping it ends where the Length says.
After an overrun the skip would end at the start plus Length plus 2^16, beyond any
datagram, so the read fails and the set has an error.  A template is whole when cached
since at each specifier those read and those to come add up to the counts of its record,
in 16 bits too.  In sFlow the samples read, skipped and still to come add up to the
number in the header.

*Sums and texts.*  Where a record ends is a sum over its fields (`FieldEnds` of `Reader`),
and the reference text is one of any number of parts (`Joins` of `JSONMarshal`).  Both
are recursive functions, and that such a function exists and has its defining equation
is an induction over the length.  `Induction` states induction and recursion with
sets and functions, from the library's fact that `<` on the naturals is well-founded;
`EndsLaw` and `JoinsLaw` are what the proofs about steps use, as hypotheses, and
`EndsOfFields` and `Joining` prove them once.  The rest of `NoRecordMissing` is
arithmetic: `decodeSet` goes on while more than four bytes of the set are left, so
records longer than that are the quotient that the property names.
`QueuedTextsWhole` follows the buffer of `JSONMarshal`: each step appends what turns
one prefix of the reference text into the next, up to the grouping of the
concatenations.

*Ends of loops.*  `EveryStepProgresses` is what `DecodeEnds` rests on besides fairness:
each step lowers a pair of naturals in lexicographic order.  The first number is the
bytes from the start of the record in hand to the end of the datagram, so that it falls
when a record is appended and not while its fields are read; the second counts the
fields to come and orders the ways out of the loops.  The only steps without
it are those inside a record whose template has no bytes, as in `DecodeEnds`.  The
samples and records that an sFlow datagram announces are no part of its rank: bytes end
its loops.  The rank is proved for datagrams and templates of any size; that a
worker that can run does run, and so reaches the end, is left to the run.

Only model-checked: all liveness and the fairness it needs, which with `ENABLED` are out
of the prover's reach, and the three runs that end in a counterexample.  Other workers
of the decoders insert templates of one field, in the runs and in the proofs.

## Where the code disagrees with its own words

Three runs end in a counterexample:

- `ipfix_shutdown_panic`, `vflow/ipfix.go:183`: a reader that waits for room in the
  UDP channel does not look at `stop`; the close makes its send panic.  The
  comment says "stop reading from UDP listener", the log "gracefully".
- `cache_early_stop`, `ipfix/memcache.go:70`: a signal before `GetCache` saves a cache
  without shards; a `GetCache` after that, of the same process if it still gets there or
  of the next start, loads it, and the first use indexes it out of range.
- `cache_dump_race`, `ipfix/memcache.go:130`: `Dump` reads maps without their locks
  while a worker inserts.

The modules also contain the behaviours below, since they are what the code does, except
for the values of options, settings and messages, which are outside of them.  The
properties of the passing runs leave them out, by the conditions above or by the
choice of the instance.

- `ipfix/decoder.go:125`: every error is a `nonfatalError`, so a fatal error does not
  end the message.  `:182`: padding begins a record that goes on into the next set;
  records without bytes keep the loop going.  `:187`: a shadowed `err` hides the
  error of a template record.  `:463`: of several scope fields the last is kept.
- `netflow/v9/decoder.go:441`: records of at most four bytes at the end of a set are
  taken for padding.  `:473`: after five or more bytes of padding the next set can be
  read from the middle.
- `ipfix/marshal.go:75`: a value that cannot be written leaves a field without value
  unless it is the last.  `:171`: an unsigned 64-bit value beyond 2^63 - 1 is printed negative.
- `ipfix/memcache_rpc.go:164`: a peer that accepts and never answers stops the RPC.
  `:171`: an answer replaces a newer template.
- `vflow/ipfix_unix.go:58`: datagrams of the other address family fill a channel no
  sender reads.  `:118`: a datagram of the full size does not fit with its headers,
  and the slice panics.  `mirror/udp.go:53`: IPv6 packets have no UDP checksum.
- `producer/kafka.go:107`: the environment is read when the client is configured already.
  Of the variables that `docs/config.md:118-126` lists only the brokers have an effect,
  the ones for the TLS files (`:123-125`) and for retries have none.  `:218`: of the brokers in
  the environment the last is used, in place of the first of the file.  `:141`: a message
  is dropped when the error of an earlier one is received.
- `producer/rawSocket.go:90`: the message is the format of `Fprintf`, so one with a % is not
  sent as it is.  `:97`: only a broken pipe makes a new connection; what was written
  before the error is lost without a count.
- `vflow/sflow.go:187`: datagrams with counter samples only are not published.
  `sflow/flow_sample.go:177`: the outgoing priority overwrites the incoming one.
  `packet/packet.go:122`: a sampled frame that is not IP drops the datagram.
  `sflow/expanded_flow_sample.go:78`: of the eight bytes of a source four are read.
  `sflow/flow_sample.go:189`, `packet/ethernet.go:82`: slices that panic on short records.
- `vflow/options.go:189`: two processes that start at once both go on.  `:202`: a PID of
  fewer digits leaves digits behind.  `:220`: any process with the old PID counts as
  vFlow, the starting one too.  `:116`: `sflow-type-filter` on the command line is appended
  to that of the file, while `docs/config.md:6` says "the command line would be preferred".
  `:257`: a CPU limit that rounds to zero is no limit.
- `monitor/store/store.go:167`: a state file that was cut is never replaced.
  `monitor/store/tsdb.go:69`: TSDB gets no NetFlow v9 metrics.
- `consumers/clickhouse/main.go:121`: offsets are marked before rows are committed, so a
  crash can lose a batch.

## Not modelled

- `mirror/udp_mirror.go`: nothing in vFlow calls its `Run`.
- `ipfix/rfc5102_model.go`: a table of constants; decoders ask only whether an element
  is in it.
- The consumer that prints to the terminal and the load generators under `stress/`: no state
  outlives a message.
- `allSetIds` of the caches (for error messages), `encodeDataSetFlat` (never called),
  `/sys` of the statistics server (numbers of the runtime), the Windows stub of the mirror (empty).
- Values of options and settings (`vflow/options.go`, `producer/`): of them only whether a start
  succeeds is kept.  Network interfaces and socket options.
- Hash collisions in the template cache: see `CacheAssumption`.
