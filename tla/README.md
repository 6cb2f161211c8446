# A verification development for hadoop-examples

The repository is a collection of small programs around Hadoop: Kafka clients, HBase
clients, MapReduce jobs, Avro scripts with the library they run on, and many SQL and shell
snippets. Most of its 418 files are data or straight-line commands. The parts with logic
of their own, state that outlives a step, and other actors to interleave with are few;
this project models those, checks them with TLC and proves the central results with
TLAPS. The parts that are left out are listed below with the reason.

- `PROJECT.json` lists the components, runs, mutants, the source lines behind each
  definition, the hazards, the findings and the theorems.
- A run: `tlc -config ConsumerShared.cfg MCSimpleConsumer.tla`.
- A proof: `tlapm SimpleConsumerProofs.tla`.

Operators named `X_Something` that precede a definition `X` are mutants: what `X` would be
with a plausible bug. They are used by no specification; each shows that a property notices
the bug.

## 1. Inventory

### 1.1 Kafka (`kafka-examples/src/main/java/hadoop/examples/kafka`)

| part | state | operations | interacts with |
|---|---|---|---|
| `SimpleProducer` | loop counter `ufoId` | `send` per event with a dropped future, the implicit `close` | client accumulator and sender thread, partition leaders |
| `SimpleConsumer` | group id, assignment, positions, the batch being printed | start, subscribe, `poll`, print, auto-commit, close on an `Error` | group coordinator, other processes of the group, log retention |
| `SeekToBeginningListener` | none | `onPartitionsAssigned`: two offset queries, then a seek | called back inside `poll` |
| `AdminClientExamples` | none | prints topics and settings | not modelled: pure I/O |

Hard behaviours: rebalances while a batch is printed; commits that are lost, late, or sent
by an evicted member; crashes between `poll` and commit; retention that overtakes a
position; a callback that fails half-way; several batches in flight with `acks=1` and no
retries. Correct means: nothing is committed that was not printed; a tracked offset does
not move back unless somebody seeks; every retained record gets printed while somebody is up;
`--from-beginning` starts at the beginning; producer events keep their order, and each one
is in its log or was reported as lost.

### 1.2 HBase (`hbase/`)

| part | state | operations |
|---|---|---|
| `apitests/.../HBaseUtility` | connection, table description held between calls, loop counter | `truncateTable`, `checkAndPut`, `blast` |
| `apitests/.../HBaseBlaster` | progress bar | three buttons, on Swing's event thread |
| `apitests/.../CreateTable` | none | exists, disable, delete, create |
| `colfam_flush`, `random_words_python` (Thrift) | the batch, the number of the loop | create the table if it is not there, add to the batch, send it every N rows, print progress |
| `hotSpots/TransactionImporter` (Groovy) | the client's write buffer | put, flush every N, print progress |
| `hbase-sandbox` `StopRowThing` | none | ten puts, three scans |

Hard behaviours: each operation is a sequence of remote calls, any of which may fail, be
interleaved with another process, or be the last before the process dies; the rows of a
batch arrive in any order, and a crash leaves some of them under way. Correct means: a
conditional put never leaves a last name without its first name; truncation ends with an
empty, enabled table and repairs what an earlier failed one left; without failures no table
is lost; `blast` writes all the rows it counted. For the importers: a number in the small
column family tells that the big one has all numbers before it (that is what the example
demonstrates); one run writes a table; progress counts only what is stored; a run that ends
has stored all.

### 1.3 MapReduce (`mr/`, `utils/`)

| part | state | operations |
|---|---|---|
| `yarn_containers/SleepJob`, `SleepJobWithArray` | counts from the command line, record reader's `records` and `emitCount`, the mapper's and reducer's `count` | `getSplits`, `next`, `map`, `getPartition`, `reduce` |
| `kill_job_from_mapper` | none | a map that kills its own job through a `JobClient`, exit code |
| `total_order_partitioner` | static `kv` array, staging directory, partition file, output | two jobs with sampling between them |
| `utils/random_crash/run.sh` | an output directory | four jobs at once |

Hard behaviours: attempts that die half-way and are retried, outputs that get lost after
their map was done, integer arithmetic with remainders and overflow, static state carried
from one record to the next, directories left over by failed runs, several maps killing the
same job. Correct means: a finished map collected each key once whatever attempts came
before, every reducer gets the number of keys it was promised, the exit code tells the
truth, counts are those of this run's input, and parts are in total order.

### 1.4 Avro (`avro/`)

| part | state | operations |
|---|---|---|
| `write_users.py`, `write_bunch_of_users.py`, `read_users.py`, `devices/read_devices.py` | an open file | append all, close; read all |
| `datafile.py` (library copied into the repository) | buffer, block count, file position, file length at opening | create, append, sync, flush, close; open, next, close |
| `schema.py`, `protocol.py` | the table of names, schema objects shared by name | parse, print, default namespaces |
| `io.py` | none | validate, write; read, skip, resolve a writer's schema against a reader's, defaults |
| `ipc.py`, `txipc.py`, `tool.py` | `REMOTE_HASHES` of the process, `remote_protocol` and `send_protocol` of a requestor, `protocol_cache` of a responder, framing buffers | request, respond, handshake, send again, frame and unframe, end of the server |

Hard behaviours: a writer dies with a block in its buffer or half-way through the file; a
reader opens the file while it grows; an append fails after a part of the block was
written. Names that are printed relative to one namespace and parsed relative to another; a
datum that several branches of a union accept; fields to be skipped; blocks with a size.
Caches that outlive a requestor, a server restarted with another protocol, calls of one
requestor that overtake each other, requests that are sent again, frames cut anywhere.
Correct means: flushed data stays readable; a reader sees whole blocks in order and nothing
twice; a file that was whole is read to the end it had. What a header prints parses to the
same schema; what validates and can be encoded is written, and nothing else; a read gives what resolution promises and ends where
the write ended. An answer is read under the schema it was written with; a message is
performed once for each call; every call ends, if no connection is held open for ever.

### 1.5 Everything else

Hive, Impala, Kudu, Spark, Pig, Sqoop, Kite, data engineering, SQL differences, HDFS and
Cloudera Manager/Director: SQL, shell and shell-like Scala and Python run once from top to
bottom, with their logic in the engine. They keep nothing between two steps, and nothing of
theirs could be interleaved but the engine's own work.

### 1.6 Interactions

The programs of different areas do not call one another. Those of one area share a service:
producer and consumers a topic, HBase clients a table, jobs the framework and the file
system, Avro scripts a file, requestors a server. Hence each area has a specification of its
own, in which the shared service is an external module or external actions, and several
instances of the programs run against it. Inside the Avro library the layers do call one
another, and the modules compose as the layers do: `ipc.py` and `txipc.py` (`AvroIPC`) sit on
their framing and HTTP (`AvroFraming`, joined in `AvroTransport`); the reader (`AvroReader`)
on the encoder (`AvroIO`) on the schemas (`AvroSchema`) and the numbers and bytes of the encoding
(`AvroBinary`).

## 2. Plan

The modules in the order in which they matter, which is the order they were written in.

1. `KafkaGroup`, `SimpleConsumer` (composes the processes with the broker),
   `CheckpointedFeed` (abstract), `SimpleConsumerProofs`;
   `SimpleProducer`, `SimpleProducerProofs`.
2. `HBaseTable`, `HBaseUtility`, `HBaseUtilityProofs`; `BulkImport`, `BulkImportProofs`.
3. `SleepJob`, `SleepJobProofs`; `KillJob`, `ProcessLogs`, and `JobProofs` for both.
4. `DataFile`, `DataFileProofs`; `AvroIPC` (abstract calls), `AvroFraming`, `AvroTransport` (the calls over
   HTTP, which implement the abstract ones), `AvroTransportProofs`; `AvroSchema`, `AvroBinary`
   (proofs about it are in `DataFileProofs`), `AvroIO`, `AvroReader`, `AvroExchange`.

Abstract specifications: `CheckpointedFeed` for the consumers of a group; `AvroIPC` for
framed calls; in `AvroExchange` the operator `Resolutions`, schema resolution on data
instead of on bytes.

Proved: what section 5 lists.

## 3. Modules and the code

### 3.1 SimpleProducer

`ufoId` is the loop counter; a key is its number and `PartitionOf` the default partitioner.
`Send` is one round of the loop, `SendFails` one whose `send` throws or returns a failed
future: the code looks at neither. `BeginClose` and `FinishClose` are the implicit close
of try-with-resources, `Crash` the end of the JVM. External: `Drain` (the sender thread),
`LeaderAppends` and `BatchFails` (the broker's answer with `acks=1`, no retries),
`Replicate`, `LeaderFails` (an election that truncates the log to the replicated prefix, which with
`acks=1` takes answered records along: that is what this configuration asks for and no property
is about it, but order and accounting are checked under it).
Record contents are abstracted to their key.

### 3.2 KafkaGroup and SimpleConsumer

`KafkaGroup` is what the consumer needs of a broker, each operator a conjunct of an action
of `SimpleConsumer`: logs with retention, tracked offsets, and a coordinator that goes
through rebalances and fences commits by generation. Which assignment a rebalance chooses
is left open.

A consumer's `pc` follows `startConsuming`: `down`, `subscribed` (constructed and
subscribed), `joining` (in `poll`, without an assignment), `polling`, `printing` (in the
`for` loop). One `poll` of the code is several actions, because other actors act in between:
`Join`/`Rejoin` (with the synchronous commit and the revocation before it),
`ReceiveAssignment` (with the listener), `LookUpPosition`, `OutOfRange`, `ResetToEarliest`,
`ResetToLatest`, `AutoCommit`, `PollReturns`. `PrintRecord` is a round of the loop and
`EndOfBatch` its end. `CloseOnError` is what an `Error` (not an `Exception`, which the loop
catches) does: it leaves try-with-resources, whose `close` commits the current positions.
`Crash` is a kill. A commit is a message (`request`) that is answered, fenced or lost.

Two details come straight from the code. `auto.offset.reset=earliest` is put into the
properties after the consumer copied them, so `LookUpPosition` falls back on the latest
offset for every consumer. And the listener queries both ends of the log for a debug message
before it seeks, so with `ListenerMayFail` the seek can be missing.

`CheckpointedFeed` is the abstract promise: records get handled and stay handled, and a
checkpoint covers handled records only. `Feed == INSTANCE CheckpointedFeed` maps a feed to
a pair of group and partition, `handled` to the offsets printed or passed over, and
`checkpoint` to the tracked offset.

### 3.3 HBaseTable and HBaseUtility

`HBaseTable` is one table: its existence, whether it is enabled, two cells of one row, and
the rows of `blast`. Each administrative call has a guard (`CanDisable` ...) under which it
takes effect, and throws otherwise. In `HBaseUtility` each remote call of an operation is an
action, its `pc` the next call. `CallFails` makes any call throw, with or without having
taken effect, and does what the operation's handler does; `Die` ends the process between
two calls. In `truncateTable` an exception of `disableTable` is printed and the
method goes on, and the message "successfully deleted" is printed after the try block
whatever happened in it. `blast` makes `numRecords - 1` puts, as the loop has it, with the
start time plus the counter as key. `program` says whether the processes are HBaseBlasters
on `testTable` or CreateTables on `test_create_table`: they use different tables.

### 3.4 SleepJob

`conf` is the command line; `SleepCount` computes the counts as `run` does (ceiling of a
quotient, clamped to an int), `emitPerMapTask` and the shares of the records as
`getRecordReader` and `next` do, in 32-bit arithmetic (`Wrap`, its width given by `MaxInt`).
`MapStart` is `configure` and `getRecordReader`, `MapRecord` is `next` followed by `map`,
`MapEnd` the `next` that returns false; `MapFails` what a thrown exception does to the task.
`SleepJobWithArray` allocates its array in `map`; "big" stands for one that does not fit the
container. External: `MapKilled`, `OutputLost`, `ReduceKilled`, the shuffle.

### 3.5 KillJob

One map per line; `Map`, `NewJobClient` and `KillTheJob` are the three stages of
`KillMapper`, the last two with their swallowed exceptions. The application master handles
events in order: a kill it accepted comes before the end of the map that asked for it.

### 3.6 ProcessLogs

`Main` checks nothing itself; the first job is refused if the staging directory is there,
the second if the output is there. `MapLine` is `LogMonthMapper.map` with `getKVPair`, which
fills the static `kv` after resetting it. `Sample` picks `NumReduce - 1` staged keys, or
throws; `Reduce` is one reducer. Neither directory is removed by the program: `RunFails`
leaves what there is, `NewLogs` changes the input between runs, `CleanedByHand` is the
operator. Each attempt has a JVM, and a `kv`, of its own.

### 3.7 DataFile

The file is a sequence of tokens (header, marker; then count, length, datums of two tokens
each, marker, per block), of which other programs see the first `seen`. `CreateFile` and
`OpenWriter` are the two branches of `DataFileWriter.__init__`; `AppendDatum`, `Sync`, `Flush`
(and close) share `WriteBlock`, as the methods share `_write_block`. `Raise` is the exception
for a codec the header does not name, after the count was written. `Spill` is the buffered
file object handing over what was written, token by token; `Abort` an exception of the
script, `Kill` the death of the process. `Nexts` is `next` of the reader: the datum,
`StopIteration`, an exception (`broken`), or a datum that nobody appended. That happens, in
three ways, and `Torn` stands for each such datum:

- At the end of the file a torn string decodes to fewer characters without an exception.
- If a writer dies within a datum and another one appends to the file, the reader takes the
  bytes of the appended block for the rest of the datum (`datafile.py:317-319`, `io.py:226-231`).
  `next` returns a mangled datum or raises, as the bytes will have it; if it returns, it goes on from a
  place where nothing need begin (`Lost`, `at = "lost"`), and anything can come from there.
- `_skip_sync` seeks back by a whole marker even if fewer bytes were read. A block that is not longer
  than a marker is then read over and over again.

A reader opened on a file that was whole never gets into the last two, and one that finds a torn end
has got all whole blocks before it does. `turn` remembers how much the reader had got when it went
`Astray` by either: `ReadersFaithful` says that this much is faithful and has the whole blocks,
and nothing of what comes after, for nothing is true of it. It is about the file the reader was opened
on: once another writer has created the file anew, anything can come (`Current`).

### 3.8 AvroSchema, AvroBinary, AvroIO, AvroReader, AvroExchange

`AvroSchema` is `schema.py` and `protocol.py`: `Parse` and `MakeAvpr` take a JSON value to a
schema or protocol or fail; `PrintSchema` and `PrintProtocol` are the way back. A
constructor that may raise returns a `Made` with the `Names` it leaves, or `Failed`. Python
shares the object of a named type between its uses; a schema here holds a reference, and the
table of names (`defs`) the object's properties. `AvroBinary` is what `BinaryEncoder` and
`BinaryDecoder` of `io.py` do with numbers and bytes, `AvroIO` is `validate` and the rest of
writing, `AvroReader` the rest of decoding, skipping, `match_schemas` and resolution, with positions
in the bytes, so that a reader which loses its place is seen to. Python's types of data are
tags: a `str` and a `unicode` of the same characters are equal but not interchangeable, as
in Python 2. Bytes are scaled: `Group` stands for 128, and the bounds of int and long shrink
with it; variable-length zigzag integers and two's complement bits are computed as the code
does. A float is an integer with a range (`Largest`) and, above `Exact`, a coarser grid, for 4 and for
8 bytes: `WriteFloat` raises for what is out of range and writes the `Nearest` number otherwise,
as `STRUCT_FLOAT.pack` and `STRUCT_DOUBLE.pack` do. Infinities and fractions are left out. `AvroBinary` is proved about; the others are recursive operators and stay with TLC.

`AvroExchange` carries values through them: `OpenWriter` parses and prints into a header,
`WriteDatum` validates and writes, `WriteForeign` writes arrays and maps the way other
languages do (blocks with a size in bytes, external), `OpenReader` parses the header,
`ReadDatum` reads under the same or another schema, `SendProtocol` takes a protocol to the
other side of a handshake. A few traits of the code show up in the properties as conditions:

- `name_ref` compares a type's own namespace property with the default of the printing, which
  is not the default of the parsing. A name survives the header if `Referable` holds.
- A `str` with other than ASCII bytes passes `validate` as a "string", and a number of any size as a
  "float" or "double"; both raise when they are encoded (`io.py:348`, 315, 327), when bytes of the
  datum may have been written. `Encodable` says which data these are; a union takes its last branch
  that validates, so that a number that only a double has room for raises under
  `["double", "float"]`. `ValidatedIsWritten` says that nothing else raises and that none of
  these is written as something else.
- What was written as a float is read as the nearest number it has (`Stored`).
- A reader's field that has no default and that the writer does not have is refused (`NoDefault`), where
  the doc of `read_record` says "unset" (section 4, Findings).
- Two protocols with the same messages print them in the same order (`Items`); the dictionaries of
  Python 2 do not promise that, so the clause of `PrintsBack` on the MD5 of a parsed protocol holds only
  where they do.
- A default is converted but not validated (`SoundDefaults`).

### 3.9 AvroIPC, AvroFraming, AvroTransport

`AvroIPC` is the calls. A protocol stands for its text and its MD5. `Request` is
`BaseRequestor.request` up to the send; `Respond` all of `Responder.respond` with the outcome
of `invoke`; `Receive` is `read_handshake_response` with what follows, one disjunct per
outcome: `Matched`, `ServerDiffers`, `ClientUnknown` (which sends again), `HandshakeFailure`.
A `Requestor` waits for its answer, a `TwistedRequestor` may have several calls under way.
`naming` says which requestors share a transceiver's `remote_name`. `tool` is the message
after which the server of `tool.py` stops. External: `Fail`, `Hang` (a transport that does
neither), `Restart` with any protocol.

The model follows the code where that surprises:

- `remote_name` is the name of the client's own socket (`getsockname`) for the HTTP
  transceiver, a random one for Twisted's. `REMOTE_HASHES` is by that name and outlives the
  requestor; `remote_protocol` is a requestor's. A second requestor under a name that is known sends
  the hash but has no remote protocol, and fails, or has an old one, and misreads: hence
  `Shares` in `ReadAsWritten`. `REMOTE_PROTOCOLS` is only written.
- A system error is encoded into a buffer of its own and never returned (`ipc.py:339-344`):
  the client gets the handshake, or a flag without a value, reads past the end and raises;
  a "null" it reads from nothing. An error the protocol does not declare leaves
  `respond`, and `render_POST` never answers (`dropped`).
- Two first requests of a fresh `TwistedRequestor` may both be answered `NONE`; the second
  answer finds `send_protocol` set and raises "Handshake failure." After a lost
  answer with `send_protocol` set and a restart with another protocol, the requestor stays
  in that state.

- The server of `tool.py` is a serial `HTTPServer` without a timeout (`tool.py:57-70`): it waits for a
  request on the connection it has accepted. An `HTTPTransceiver` connects in its constructor
  (`ipc.py:470`), so one that is not used, like a producer that is paused, keeps the server
  from all others (`Idle`, `Held`).
- That server answers with HTTP/1.0, after which `httplib` closes its connection and has no socket:
  `remote_name` (`ipc.py:474`) then raises an `AttributeError`, in the setters that follow a
  handshake (118-126) as in the next request. To the model this is a call that fails (`Fail`) at that point,
  beside calls that do not, as with a server that keeps connections.

`AvroFraming` has the framed writer, the reader, and `AvroProtocol.dataReceived` as a fold
over chunks. `RequestStreamingProducer` counts the payload against a length that includes
the headers, so that some bodies are longer than declared, which Twisted's agent refuses
(`Fits`); `resumeProducing` passes `self` twice, so that a paused producer stays paused
(`Stall`). `AvroTransport` replaces the delivery of `AvroIPC` by bytes: `Serve` unframes what
`Body` frames and responds; `Deliver` does it for the answer.

### 3.10 BulkImport

Three programs with one loop structure. `numbers` (`colfam_flush/insert_random_words.py`):
`CheckTable`, `CreateTable`; `ImportNumber` is a round of the loop, `BatchPut` the call with the
batch for the big column family and `PutOneRecord` the one after it. `words`
(`random_words_python`): `PushBatch` and `ImportWord`; the first batch sent is empty, and all
mutations of a batch are of one row. `transactions` (`TransactionImporter`): `PutTransaction`,
`Flushed`; two transactions within a millisecond may have one key. `LastBatch` is what
follows the loop. The progress line (`said`) is printed before the call by the Thrift
programs and after it by the Groovy one. External: `Arrive` (rows one by one, in any order),
`Spill` (a full write buffer), `Lose`, `DropTable`: what a refused run asks the operator for,
done when no run is active and nothing is under way.

## 4. Runs

All passing runs finish within five minutes with two workers; deadlock checking is off
because each of these systems may stop (bounds used up, job over, process ended).

| run | shows | bounds | states, time |
|---|---|---|---|
| `producer` | order, accounting, flush on close, termination | 4 events, 2 partitions, 2 batches of a partition in flight, accumulator of 2, 1 leader change | 2 400, 1 s |
| `consumer_shared` | the commit never passes an unprinted record; tracked offsets never go back; `FencedInv` | 2 consumers of one group, 1 partition, 2 records, 3 starts, 1 eviction of a live member | 707 000, 50 s |
| `consumer_from_beginning` | seeks on each assignment; refinement of `CheckpointedFeed`; every record gets printed | a plain and a from-beginning consumer, 2 starts, 2 records, fair | 63 000, 25 s |
| `consumer_not_tracked` | finding: the documented fallback does not happen | 1 fresh group, listener may fail | 400, 1 s |
| `hbase_tables` | the HBase properties of 1.2 | 2 processes, 4 operations, 2 failures, 2 rows per blast over 3 milliseconds | 524 000, 15 s |
| `bulk_import` | the importers' properties of 1.2 | 2 runs, 6 rows, batches of 2, 2 words, the three programs | 1.4 million, 30 s |
| `sleep_job` | exact map output, keys per reducer, the job ends, over nine command lines | up to 2 maps, 3 reducers, 2 kills or lost outputs, 2 attempts | 13 000, 3 s |
| `kill_job` | exit code 0 only without an accepted kill; termination | 3 maps over all inputs, 2 failures, 2 attempts | 51 000, 4 s |
| `process_logs` | exact counts and total order of a run that reports success | 2 splits, 3 inputs, 2 runs, 1 failure, 3 reducers | 4 000, 1 s |
| `data_file` | the data file's properties of 1.4 | 2 writer sessions, 3 datums, 2 per block, 1 reader that gets up to 4, markers of 4 tokens, any number of tokens seen | 1.97 million, 80 s |
| `avro_exchange` | names, validation, encoding and resolution of 1.4 | some 26 field types under 39 readers' schemas, 20 data, nested names in 2 namespaces, 384 protocols; `Group` 4 | 9 000, 5 s |
| `avro_rpc` | the properties of calls of 1.4; refinement of `AvroIPC` | 2 blocking requestors and a Twisted one, 1, 2 and 2 calls, names shared or not, 2 protocols, 1 restart, frames of 6 bytes | 47 000, 100 s |

Each module's `TypeOK` is a conjunct of an invariant that is checked anyway, or proved:
`EventsInOrder`, `BlastKeepsRows`, `SuccessMeansAllHundred`, `PartsInOrder`, `FlushedStays`,
`ValidatedIsWritten`, `ProgressIsStored` and `FencedInv` have it as a conjunct;
section 5 proves those of the consumer, the producer, the table utilities, the importers,
SleepJob, AvroIPC and the data file.

Why the bounds suffice:

- Consumer. The interesting interleavings are between an old owner and a new one of a
  partition: two consumers, one eviction, and a third start for the restart after a crash.
  Partitions interact only through the `poll` that returns several of them and the commit
  that covers several; the invariants were also checked once with two partitions, which takes
  about five minutes and is not part of the runs. What is not bounded, TLAPS proves.
- Producer. Two batches of one partition in flight, of which either fails, need three
  records of one partition or two batches of one record each; four events give both.
- HBase. No operation has more than five calls, and two processes in it at once cover all
  pairs; a third would meet the same table states. Two failures allow one in the operation
  that repairs what the first one left.
- Importers. Six rows in batches of two give a first, a middle and a last batch, and a
  last one that is not full for each program's own end of the loop; a run after one that died, or
  beside it, needs two.
- SleepJob. Line 86 to 97 of the code depends on quotient and remainder; the nine command
  lines have each combination, the two that fail in `configure`, and an array that does not fit. All
  other command lines are the theorem's.
- Data file. A reader changes nothing, so one stands for many. Two sessions give
  every way to append behind what another writer left; blocks of one and two datums occur. A
  marker of 4 tokens is as long as a block of one datum without its marker, so that a reader
  that is sent back by a marker can land on the block before, as it can with 16 bytes; with 2
  tokens it never did. A reader that does would get datums for ever, hence `MaxGot`, one more
  than are ever appended.
- Exchange. Each type meets each other type as writer's and reader's, each in a field that
  is followed by another, which shows a reader that lost its place. With `Group` 4, the data
  have integers of one and of two bytes, negative ones, one above the largest int and one above the
  largest long. The bounds of numbers come in the order they have in the code: exact in a float, int, exact
  in a double, long, the ranges of float and double; the data have numbers that a float
  rounds, that a double rounds, that only a double has room for, and that neither has.
- Calls. Protocols `P` and `Q` differ in each way the code distinguishes: a response that
  is promoted in one direction only, declared errors, a message only one has. A handshake
  takes two requests; two calls of a requestor interleave both with each other and with a
  restart. With frames of 6 bytes requests need one or two buffers, and the producer gets
  some of them wrong.

Symmetry is used for consumers (the shared run, where they are alike) and HBase clients,
never in a run with a liveness property.

### Fairness

- Producer: the JVM schedules the main thread, and the sender thread for every partition; a
  request is answered or times out. Crashes, elections and replication are not fair.
- Consumer: the code's `while (true)` polls forever and catches every exception, hence
  weak fairness of a consumer's loop as a whole; requests end by an answer or a timeout;
  sessions of dead processes run out; a coordinator completes a rebalance once all have
  joined. No process needs to start, and none that is up is evicted fairly.
- SleepJob and KillJob: the framework runs what can run, and the master and the client
  of KillJob go on. Kills, deaths and lost outputs are not fair, and are bounded.
- Calls: per call, the server takes what arrives, the client what is answered, and a
  closed port refuses (`Progress`). The server of `tool.py` is not fair to a call as long as a connection
  on which nothing comes may hold it (`Held`): one that a transceiver opened and no requestor has
  used, or that of a paused producer. Nothing makes a requestor use its connection, so
  `CallsEnd` has the premise that in the end no connection holds the server (`<>[]~Held`);
  without it TLC finds at once that a call waits for ever behind an unused one. The client waits for its
  own answer alone, and the other servers for nothing else (Twisted's takes all connections).
  As `FramingIntact` says what is sent arrives whole, fairness is stated on the steps of
  `AvroIPC`, which spares TLC the framing. A requestor need not make calls, and a lost
  connection, a stall and a restart are not fair.
- The remaining specifications state no fairness and no liveness.

`RecordsGetPrinted` is checked without evictions of processes that are up
(`MaxEvictions = 0`): with one eviction it holds as well but takes three minutes.

### Findings

`consumer_not_tracked` shows that the code does something else than its comment says:
`SimpleConsumer.java:104` puts `auto.offset.reset` into the properties when the consumer has
copied them. More divergences are in the models, as the code has them:

- `SeekToBeginningListener.java:31` queries both ends of the log for a debug message before
  it seeks; if a query fails, the seek announced by the message at `SimpleConsumer.java:106`
  does not happen (`ListenerMayFail`).
- `HBaseUtility.java:91` prints that the table was deleted after a try block in which
  `createTable` may have failed: then the table is lost, against the comment at line 36
  (`CallFails`).
- `datafile.py:300` seeks back by a whole marker, where the comment at line 295 says "seek back
  to where we started": if the file ended within the marker, the reader goes on behind the place
  where it was, and may return datums again (`SkipSync`, `Turned`).
- `io.py:667-669`, in the doc of `read_record`: if a reader's field has no default and the writer
  has no field of its name, "the field's value is unset". Lines 690-693 raise
  `SchemaResolutionException`, for the whole record. `ReadResolves` follows the code there
  (`NoDefault`), and its run has such readers.
- `SleepJob.java:86` multiplies two ints; with `-recordt 0` the count is the largest int, two
  reducers make the product -2, and no reducer gets the keys the comment at line 128 speaks of.
  `EachReducerGetsItsKeys` is checked over command lines whose product does not overflow.

And without a comment that says otherwise: what 3.7 and 3.9 list.

## 5. Proofs

`SimpleConsumerProofs`, `SimpleProducerProofs`, `HBaseUtilityProofs`, `BulkImportProofs`,
`SleepJobProofs`, `JobProofs` (KillJob and ProcessLogs), `DataFileProofs` and
`AvroTransportProofs` hold the theorems.
They hold for all values of the constants that satisfy the assumptions named in the modules
(`GroupAssumption`, `ConsumerAssumption`; `ProducerAssumption`; `TableAssumption`,
`UtilityAssumption`; `ImportAssumption`; `SleepAssumption`; `KillAssumption`; `LogsAssumption`;
`DataFileAssumption`; `IOAssumption`; `IPCAssumption`, `FramingAssumption`, `SizeAssumption`): any number of consumers, groups, partitions, records, crashes and
evictions; any events and leader changes; any clients, rows and failing calls; any runs, rows
and batch size; any set of command lines; any maps and failures; any logs, keys and reducers; any markers, blocks, datums
and writers; any numbers and bytes, and any size of a byte; any requestors, calls, protocols and restarts, any sizes of messages, of a buffer and
of a header.

The library's induction theorems cannot be used here, since they take an operator as a
parameter. Where a proof is by induction over data (the flattened batches of the producer, the
datums of a piece of a file, the bytes of a number, the buffers of a message), `LeastNumber` says that a set of numbers has a least element,
`InductionOnNat` is induction over a set of numbers, and the statement is put as such a set.

**`TypeCorrect` (consumer).** `TypeOK` is inductive by itself. It has to include that a
process that is up, or has a request on the wire, has a group: group ids index the broker's
functions.

**`CommitsCovered`.** `CommitCovered` alone is not inductive: a commit stores positions, so
positions must be covered before they are committed, and a request on the wire must stay
covered while its sender dies. `CoveredInv` adds `PositionCovered` (below what a member
prints next all is covered, and outside the `for` loop the position is what it prints next),
`RequestCovered`, and `OnlyWorkersAssigned`. The step is proved conjunct by conjunct
(`CommitCoveredStep`, `RequestCoveredStep`, `PositionCoveredStep`,
`OnlyWorkersAssignedStep`), each with a case per action; `CoveredGrows` states that what is
covered stays so.

**`Implements`.** Steps that change the tracked offsets map to `Checkpoint`, all others to
`Work` or a stutter; `CommitCovered'` from the invariant gives `Checkpoint` its condition.

**`FencedInvariant` and `OffsetsGrow`.** In a group without from-beginning consumers the
tracked offsets never go back. Nothing in the code compares offsets; it is the generation
that fences. `FencedInv` says, beside the types: a member's generation is not ahead of its
group's, and one outside the loop has none (`GenerationsPast`, `IdleGeneration`); a member
that (re)joins has no request on the wire (`QuietJoin`); a position is not
behind the request its owner sent (`PositionPastRequest`), nor is it, or the request, behind
the tracked offset if the sender owns the partition in the current generation (`NotBehind`,
`RequestNotBehind`); and a consumer that must go on at the latest offset was overtaken by
retention (`LatestOvertaken`), so that the reset moves it forwards. Each has a lemma for its step. The hardest is `NotBehind`, for
the offset it compares with is moved by others: `MovedByOwner` shows that only the owner
moves it, forwards, not past its own position, and with no request left on the wire.

**`TypeCorrect` and `CloseLeavesNothing` (SimpleProducer).** `LogsOK` adds
to the types that what is replicated of a log is no longer than the log. `ToldInv` says that each key the
loop has passed is lost or `Held` by a partition: in its log, in a batch, or in the
accumulator. After `FinishClose` the last two are empty and stay so. The lemmas
`ElementsOf...` say what appending, taking the head and cutting do to a sequence's elements.

**`OrderIsKept` and `NothingVanishes` (SimpleProducer).** Both speak of what a partition has in
its log, in its batches and in the accumulator, joined. `OrderInv` takes the three apart
(`Ordered`): each ascends, and what is in the log is below what waits in batches, and that below
what is buffered. A failed batch takes its keys out of the middle, which leaves the rest in order;
what a send adds is above all, for a key is passed once. `PlacesOK` says that a key is at most in
the places of its partition and neither there nor lost before the loop gets to it. `FlattenIs`,
`FlattenAppend` and `FlattenTail` say what `FlattenSeq` gives for a sequence of batches, one to
which a batch is added, and one whose first batch goes.

**`TypeCorrect`, `LastBesideFirst`, `BlastedRowsAreKept`, `TruncationHeals` and `TableSettles`
(HBaseUtility).** Many actions change the table in few ways: `TableEffect` lists them,
`StepEffect`, `FailEffect` and `BeginEffect` say what a step does to the record of an
operation, and the proofs go along these instead of along the actions. `LastNeedsFirst` is
inductive by itself, since only a conditional put writes the last name and truncation empties
all. `RowsInv` counts the rows of a `blast` under way: what it has put up to its counter is
there, as long as the table is the one it began with. `HealInv` says that a truncation that
is alone with a table finds it, before each of its calls, as the call before has left it
(`Stage`). `SettledInv` says that, as long as nothing has failed, some client is about to
create a table that is gone (`Lasts`) and some client is about to delete one that is disabled
(`Reopens`); it need not be the client that deleted or disabled it.

**`TypeCorrect` and `OutputIsExact` (SleepJob).** The invariant is `ReaderInv`: an attempt
that has read n records has collected the keys `0 .. Emitted(n) - 1`, where `Emitted` is the
closed form `n * q + min(n, r)` of the shares' sum. `ShareStep` and `EmittedStep` show that one
record adds its share, `ShareBound` that no sum passes `emitPerMapTask`, so that the key
counter does not wrap; at `mapSleepCount` records the closed form is `emitPerMapTask`. The
invariant speaks of attempts only, so a retry starts from nothing: this is where a stale
reader would break it.

**`KeysPerReducer` (SleepJob).** `mapSleepCount` maps collect `0 .. emitPerMapTask - 1` each,
and the reducer of a key is its remainder by the number of reducers; `KeysOfRemainder` counts the
numbers below a multiple that have one remainder. The theorem has a hypothesis, `KeysFit`: the
product of the reduce count and the number of reducers is an int. Without it the property is
false (see Findings), and the constants of the run satisfy it.

**`ExitCodeIsTrue` (KillJob).** A map is over only once its kill is with the master, or its
`killJob` threw, or its line was "100"; a master that has a kill lets the job succeed no more.
`KillInv` adds that a running job has attempts left, so that no map is given up silently.

**`CountsOfRunsAreExact` and `OutputIsInTotalOrder` (ProcessLogs).** `LogsInv` follows the lines
of a log to the parts of the output. `StageInv`: an attempt's buffer holds each key as often as
the lines it has mapped do (`OccursAppend`, and `KVPairOfLine`: what is written is the line's own
month and address, whatever `kv` held), and the staging directory as often as the tasks that
have committed do (`OccursConcat`; `Committed` is a set of pairs of a task and a line, so that a
commit adds a disjoint set of the same size). When all have, that is `Hits` (`StagedInv`), for
the input as this run found it. What makes this survive earlier runs is `FilesInv`: no run
gets past its submission unless the staging directory was absent, and then nothing was staged and no
part was there. `PartsInv`: a part is missing or is all that its reducer has to count, and none
is missing from a complete output. The order of the parts comes from `ReducersInOrder`: a key has
at least as many split points at or below it as any smaller key, so only a greater key can go to a
later reducer. Nothing is needed of the split points but that they are keys, so the sampler may
choose any.

**`TypeCorrect`, `CallsArePerformedOnce` and `RequestsAreSentTwice` (AvroIPC).** `CallInv`
relates a call's stage to its counts: a request on its way was not performed, an answer with
a flag was, one without a match was not and its request carried no protocol, and a request
that was sent again carries it. A responder that is given the protocol never answers `NONE`,
which is why nothing is sent a third time, nor sent again once performed. This invariant
needs nothing of the caches: neither what other requestors do to `REMOTE_HASHES` nor what a
restart forgets can break it.

**`AnswersAreReadAsWritten` and `HandshakesAgree` (AvroIPC).** These are about the caches.
`HandshakeInv` says what a requestor knows (`KnowsInv`: alone under its name, the hash it will
send is of its remote protocol; without a restart, it is the server's or none) and what is
under way (`UnderWayInv`: a request without the protocol and an answer to it agree with what their
requestor has recorded since). The hard case is a Twisted requestor: the answer of one call
changes the hash and the remote protocol under another, which is harmless as long as all of them
are the server's, so there both theorems except what happens after a restart.

**`FramedCallsAreCalls` and `FramingStaysIntact` (AvroTransport).** The framing comes first.
`BuffersAre` says where the buffers of a message lie (`At`, with `Covered` bytes of the message before
them) and what their headers name (`Framed`), by induction over their number. `FoldIs` takes
the `FoldLeft` of `TakeBuffers` apart into repeated `TakeBuffer`, and `TakeOne` says what one of these does
to a reader that has taken j buffers (`Taken`): nothing if the next has not come whole, else one
buffer more, or the end. `TakesAll` is the induction over them; that there are rounds enough
is an argument about numbers, since each buffer has a header. `ReadsWhole`, `PiecesAreRead` and
`ProducedIsRead` are what follows for `read_framed_message`, for `dataReceived` with a message in two
pieces, and for the streaming producer, whose declared length must reach behind the header that
ends the message and not behind what it writes (`ProducerFacts`). So `Serve` is `Respond` of the
very request and `Deliver` is `Receive` of the very response (`ServeResponds`, `DeliverReceives`);
`Stall` is `Hang`. The type invariant of `AvroIPC` is needed, for only requests have a size; as it
is inductive for the steps of `AvroIPC`, it is for those over HTTP (`TransportInv`).
`FramedCallsAgree` then has every theorem about calls of calls over HTTP.

**`FlushedBlocksStay` (DataFile).** `FileInv` describes the file: `Headed` (it begins with a whole
header), `Chained` (between two ends there is one whole block after the other), `Neighbours` (a
head is followed by its own tail or by none, so that no piece of a file has a datum that was
not written). Flushed datums are then those up to an end that is seen (`FlushedOK`), and a kill
cuts the file behind what is seen, a spill and a write only add to it. `accepted` follows the
datums of the file and the buffer through `Datums` of an appended block.

**`ReadersAreFaithful` (DataFile).** `ReaderInv`: what the reader got, with what it has decoded in
memory, is the datums up to its position (`FaithfulAt`), until it goes astray; from then on, what
it had got stays a prefix of the datums that are seen. `Follows` says of each outcome of a read that it
keeps that, or goes astray without touching what was got (`FailedFollows`). The step needs `Neighbours`, for a
reader may stand within a block that a dead writer left, and read on into what the next one
appended behind it.

**`SnapshotsAreRead` (DataFile).** The previous invariant says nothing of where the reader is.
`SnapshotInv` does: it is at the start, within a whole block that ends before the length it
took (`Inside`), stopped with just what it wanted, or, on a file that had a torn end, past the
whole blocks with all their datums. `AstrayBehind` adds that a reader went astray only on such a file,
and when it had these datums; the theorem above takes that from here. `Chained` takes it from one block to the next, `IsEOF` stops it
at the length and not at the end the file has by now, and as writers only append behind, `ends`
keeps the blocks it is going to read.

**`LongsAreRead`, `CutLongRaises`, `BitsAreRead`, `BytesAreRead`, `ReadsMoveOn` (AvroBinary).** All
that is read from a file or an answer is read number by number, so each read has to stop where
the write did. `Holds(b, p, w)` says that the bytes w lie at position p of b; what surrounds
them is arbitrary. The theorems hold for any `Group`, any number, and any bytes. Assumed is
`IOAssumption` alone, and for a float that its bits have room for it, which is what `struct`
demands and `FloatAssumption` has of all numbers that `pack` takes. The loops of the code are recursive functions over numbers: `ShiftsAre` and
`NumberIs` show by induction over positions that there is one and only one function that
satisfies the recursion, so that `CHOOSE` has it. `DigitsOf` finds the end of the loop of
`write_long` (shifted, a number that is not 0 gets smaller), `LongWritten` says that of its
bytes the last one alone is without the high bit, from which follow the place where
`read_long` stops and, if that byte is missing, that it raises. `UnzigzagZigzag` takes the
sign through. `ReadsMoveOn` is about bytes that nobody wrote: a length that is negative or too
large still leaves a position behind the start and within the input.

**`SmallTellsOfBig` and `OneRunWrites` (BulkImport, numbers).** `RunInv` follows a run round its
loop: the big cells below its number are in the table or in its batch, then in the table or
under way, then in the table, when the small one is sent. `TableInv` is what
`SmallAfterBig` says, `WriterInv` that no two runs are past `CreateTable`: creation succeeds
once, and the table is dropped only when no run is in its loop.

**`ProgressTellsOfTheTable` and `RunsEndComplete` (BulkImport, all three programs).** `BatchInv`
accounts for each cell a run has made: in the table, in the batch, or on its way; nothing is on
its way in the loop and nothing in the batch outside it. `SaidInv` ties the progress line to
that: the Thrift programs print it before the call and know of it after, so it covers what the
previous batches had. `Bound` says how many cells a batch may hold at a round of the loop:
those since the last full batch, so that all before it have been sent.

Every safety property that a run checks is stated by a theorem, except those of `AvroExchange`.
Out of the prover's reach and left to TLC: the liveness properties (`Terminates`, `RecordsGetPrinted`, `JobEnds`, `TryKillReturns`,
`CallsEnd`), and everything in `AvroSchema`, `AvroIO`, `AvroReader` and `AvroExchange`, which are
recursive operators: what is proved of numbers and bytes is not proved of the schemas and the
data that consist of them.

## 6. What is external, and what is not modelled

External, modelled from how this code uses it and with its documented behaviour in the
versions the build files name: the Kafka broker, coordinator and client internals; HBase's
administration and row calls, its Thrift server and client-side write buffer; the MapReduce
framework (attempts, retries, shuffle, commit, sampling); the buffered file object and the
operating system under Avro; HTTP, the reactor and the agent of Twisted; writers of Avro data
in other languages.

Abstracted throughout: record contents, formatting, logging, option parsing beyond its
effect, Swing layout, metrics, and time (a timeout is an event that may happen). In Avro:
the text of JSON, properties of schemas that are not reserved, the hash function (no two
protocols have one MD5).

Not modelled, each with its reason in `PROJECT.json`:

- `-c` of `TransactionImporter`, which makes the calls of CreateTable (in `HBaseUtility`); the
  importers of `hbase/groovy` and `recordGenerator`, loops of puts without a flush or a
  progress to rely on; the command line of `tool.py`.
- `utils/random_crash/run.sh`: four jobs that race for one output directory. The check and the
  commit are Hadoop's; the script only starts them.
- `LogMonthMapper`'s static `kv` with several maps in one JVM: the model gives an attempt a
  JVM, as the cluster these examples are for does.
- Hive's `incremental_insert` (one query) and Impala's `refresh-and-invalidate` (the cache is
  Impala's); the other components of 1.5. `AppTest` tests the HBase client and Java collections.
