# Verification of the protocols benchmarking tool

The tool measures messaging protocols: a *sender* process sends numbered,
timestamped messages over UDP, TCP, ZeroMQ or MQTT, and a *receiver* process
records when each arrived and writes `packets.csv` (a row per packet) and
`summary.json`. A Python analyzer reads the folders of many runs. Its figures are
worth something only if the tool loses, invents, repeats or mixes up nothing of its
own, in any interleaving of its threads and under anything the network does. That
is what is specified here in TLA+, model-checked with TLC and, for the safety
properties that matter most, proved with TLAPS.

Paths below are relative to the repository. `PROJECT.json` maps each definition to
the lines it models; the definitions keep the names of the code where they can.

## 1. Inventory

| Component | Source | State | Operations |
|---|---|---|---|
| Bounded queue | `include/pbt/core/BoundedBlockingQueue.hpp` | `buf_`, `stopped_`, mutex, condition variable | `try_push`, `pop`, `stop`, `reset`, `size`, `empty` |
| Receiver process | `app/main.cpp` (receiver mode), `src/transport/Receiver.cpp` | sentinel flag and count, overflow count, deadline, `RunResult` | bind, `on_wire_bytes`, wait for sentinel or deadline, stop, finalize, save, unwind |
| Packet processor | `src/metrics/PacketProcessor.cpp` | highest id, last delay, counters, accumulators, reservoir, a `jthread` | `start`, `stop`, `process_loop`, `compute`, `finalize` |
| Packet CSV writer | `src/data/CsvPacketWriter.cpp` | stream buffer, rows since the last flush | `write_row`, `flush`, destructor |
| UDP transport | `src/transport/Udp*.cpp`, `ReassemblyBuffer.cpp` | socket; slots by message id with fragments, count and age; timeout count | `do_send` (fragmentation), `recv_loop`, `insert`, `sweep_expired` |
| TCP transport | `src/transport/Tcp*.cpp` | sockets, accept thread, one detached thread per client | length framing, accept, receive, stop |
| ZeroMQ transport | `src/transport/ZmqTcp*.cpp` | socket and its thread | PUSH/PULL, PUB/SUB, stop |
| MQTT transport | `src/transport/MqttTcp*.cpp` | Paho client, callbacks | connect, publish at a QoS, subscribe, stop |
| Sender process | `app/main.cpp` (sender mode), `src/transport/Sender.cpp` | next id, pacing clock, clock offset | warmup, measurement, burst, `send`, `send_sentinel` |
| SNTP query | `src/sync/NtpSync.cpp` | none kept | query with retries, offset |
| Statistics | `src/metrics/Statistics.cpp`, `WelfordAccumulator.hpp` | running mean and variance | percentiles, jitter, update |
| Run folder | `src/data/DataManager.cpp`, `RunResult.cpp`, `analyzer/.../results.py` | `config.json`, `packets.csv`, `sender_log.csv`, `summary.json` | prepare, save, scan |
| Configuration | `src/core/BenchmarkConfig.cpp`, `app/main.cpp` | the configuration | load, override from the command line, validate |
| Serializers, compressors, payloads | `src/serialization`, `src/compression`, `src/payload` | the index of the next record | `next`, `serialize`, `compress` and their inverses |
| Analyzer front end | `analyzer/src/analyzer` | none | tables and plots |

**How they interact.** In the sender one thread builds each message (serialize,
compress, CRC, 72 bytes of wire header) and calls the transport's `do_send`; after the
last message it sends a *sentinel*, a header without payload that carries the id of
the last message. In the receiver a network thread (of the transport) calls
`on_wire_bytes`, which parses the header, sets two flags for a sentinel and offers a
data packet to the bounded queue. The processing thread pops, computes the row,
writes it and updates the statistics. The main thread polls the sentinel flag until it
is set or the deadline has passed, stops the transport, the queue and the processor,
takes the summary and returns, at which point destructors join the threads. The
processes share only the network, and the file system when they run on one machine.

**What is hard.** `try_push` only tries the lock, so it refuses packets of a queue
that has room. Shutdown is a sequence of requests that join nothing until the
destructors, so that the summary is taken while the other threads run. UDP messages
are cut into fragments that share reassembly slots by id, with 16-bit fragment
numbers, slots that expire, and a sentinel that uses the id of a data message.
Counters are kept against the highest id under loss, repetition and reordering, past
packets that are corrupt or do not decode. All of it must add up in the end.

**What makes each part correct.**

- *Queue*: items leave once and in order; no consumer sleeps while there is an item
  for it; after `stop` each consumer drains the queue and ends.
- *Receiver process*: each packet is dropped and counted, or ends in `packets.csv`; the
  summary claims nothing that did not happen; a sentinel that was handled is reported;
  the process ends and its rows are on disk.
- *Packet processor*: each repetition is flagged, gaps account for what is missing, the
  reservoir is a sample of measured rows, the jitter is against the packet before.
- *UDP*: a message comes out as it went in, once per copy that came in whole; a message
  that came whole does come out.
- *TCP, ZeroMQ, MQTT*: framing survives any split of the stream; the messages of a sender
  come up in order, once, and all of them unless something failed or nobody had
  subscribed; after `stop` at most the message in hand still comes.
- *Sender*: ids are consecutive, the sentinel counts the calls of `send`, each phase
  keeps its schedule behind a slow send, `sender_log.csv` is what left.
- *SNTP*: the offset brings the local clock to the server's, a late answer to an earlier
  attempt is not taken for one to the present attempt, and a query ends.
- *Run folder*: a receiver that nobody disturbed leaves files that are whole and its own,
  and a scan fails over nothing but a file that was torn.
- *Statistics, codecs, configuration*: one pass gives what two would; a payload comes
  back from the wire; `config.json` leads back to the run it came from.

## 2. Modules

| Module | Models | Uses |
|---|---|---|
| `LossyFifo` | what the queue promises (abstract) | |
| `BoundedQueue` | the queue at the grain of its mutex and condition variable | refines `LossyFifo` |
| `ReceiverPipeline` | network, processing and main thread of a receiver | composes `LossyFifo` |
| `WireChannel` | what a receiver may expect of a transport (abstract) | |
| `UdpTransport` | fragmentation, lossy network, reassembly | refines `WireChannel` |
| `TcpTransport`, `ZmqTransport`, `MqttTransport` | the other transports, with the library or broker below them | |
| `Transports` | a run over one of these three | composes them, refines `WireChannel` |
| `PacketProcessor` | `compute` and `process_loop`: counters and statistics | |
| `ProcessorSummary` | `finalize`: the members of `summary.json` | extends `PacketProcessor` and `Statistics` |
| `Statistics` | running moments, percentiles, jitter | |
| `Codec`, `Configuration` | payload files, serializers and compressors; the configuration | |
| `PureFunctions` | one call of any function of the three modules above | composes them |
| `NtpSync` | clock offsets and the delay they correct | |
| `SenderProcess` | the sender mode of main and `Sender::send` | |
| `EndToEnd` | a sender, a stream or datagrams, the counts and deadline of a receiver | extends `SenderProcess` |
| `RunFolder` | the files of a run, written by several processes that may die, and the scan | |
| `MC*` | small instances for TLC; `MCResults` is that of `ProcessorSummary`, `PureFunctions` and `RunFolder` | extends the modules it is about |
| `*Proofs` | the theorems; those of `PureFunctions` are in `PacketProcessorProofs` (statistics, codec) and `RunFolderProofs` (configuration) | extends the module it is about |

### 2.1 `BoundedQueue` and `LossyFifo`

`buf`, `stopped` and `mu` are the members; `pc[t]` is where thread `t` is in a call.
A thread at a point of `Holding` owns the mutex. Each call is an `...Lock` action
and one action for what happens under the lock, which releases it: `PushLock` then
`PushFull` or `PushItem`; `PopLock` then `PopItem`, `PopEnd` or `PopWait`.
`PushContended` is a `try_lock` that fails because another thread, of any kind, is
inside. `PopWait` unlocks and sleeps in one step, as `cv_.wait` does;
`PopRelock` is the return from it, after a notification or spuriously.
`StopSet` and `StopNotify` are two steps since `stop` notifies after its lock's scope.
`accepted`, `removed` and `taken` are history.

`LossyFifo` has no lock: an item is accepted or not, taken in order by one consumer,
and a consumer finishes only on a closed and empty channel. It accepts on a closed
channel since `try_push` does not look at `stopped_`. `ImplementsFifo` is the
refinement, so `ReceiverPipeline` can use `LossyFifo` for the queue.

### 2.2 `ReceiverPipeline`

`net`, `proc` and `main` are the program points of the threads and every access to a
variable two threads share is a step of its own: `NetSetFlag` before `NetSetCount` in
`on_wire_bytes`; `ProcRow`, `ProcCount`, `ProcSample` in an iteration of
`process_loop`; `MainReadSent`, `MainReadOverflow`, `MainFlush`, `MainFinalize`,
`MainPercentiles` in main. `NetRefused` is a queue that is full or whose lock may be
held (`QueueBusy`). `MainJoinReceiver`, `MainJoinProcessor`, `MainCloseCsv` are the
destructors in the order in which main's locals go. `ordered` says which transport it
is: in order, once and without loss, or the network of UDP. `WakesOnStop` says
whether closing a socket wakes a thread blocked on it, which it does on macOS and
does not on Linux. `onDisk` is the number of rows that left the stream's buffer.

One network thread that main joins is modelled, as UDP, ZeroMQ and MQTT have; the
detached client threads of TCP are in `TcpTransport`. A packet here is its id; what the
processor makes of it is in `PacketProcessor`.

### 2.3 `UdpTransport` and `WireChannel`

A wire message is the sequence of its chunks. `Datagram` gives the
`FragmentHeader`, with index and count modulo `FragModulus` (2^16 in the code).
`SendChunk`, `SendFails` and `SendSentinel` are the sender; `Receive` is one turn of
`recv_loop` with all of `insert` and, on a completion, the sweep and the callback
(`FinishSlot`, `OnWire`). A datagram that was sent may be received any number of
times up to `MaxCopies`, at any later time and in any order, or never. `Tick` is the
clock. A message without fragmentation is a message of one chunk: the code sends it
with a fragment header too. `IsData` is the test of `parse_wire` that the wire is as
long as its header announces.

`WireChannel` is what is left of a transport for a receiver: a message handed up was
sent whole, and no more often than the network can copy.

### 2.4 `PacketProcessor`

One step is one iteration of `process_loop`, since the thread alone touches this
state. A packet is its id, the fate of its payload (`decoded`, `corrupt`: the CRC does
not match; `undecodable`: decompression or deserialisation fails) and the delay its
timestamps give. Packets come in any order and number. `Track` is the comparison with
`last_seq_id_`, `Put` is Algorithm R with any draw of the generator, `acc` stands for
the accumulators. `rows` is `packets.csv`, with the packet beside each row.

`ProcessorSummary` adds no step: `Finalize` computes `summary.json` from the state, and
as main calls it after any packet may have been the last, its property is an invariant
of all states.

### 2.5 `NtpSync`

`now` is the time of the SNTP server and a host's `Clock` is ahead of it by its
`skew`. `Ask`, `Receive`, `WaitFails` and `GiveUp` are the loop of `query`; an attempt
has a socket of its own, so that `OwnAnswer` is an answer to the attempt being made.
Requests and answers stay in `flight` for any time and may never arrive.
`NtpToLocal` is the subtraction in 32 bits that brings a timestamp of any NTP era
to local time. `Send` and `Arrive` are one message, stamped by both clocks and
corrected as `compute` does. Time does not pass between two steps of `query` that the
code takes without waiting. The server is external: it answers truthfully, after a
pause.

### 2.6 `TcpTransport`, `ZmqTransport`, `MqttTransport` and `Transports`

All three share the interface of `Sender` and `Receiver`: `at` is the message each sender
sends next, `out` those `do_send` was called for, `done` those it reported as sent,
`handed` what `on_wire_bytes` was called with, `stopped` whether the receiver's `stop`
returned. `Transports` chooses the protocol in its initial state, as the configuration
does, and takes only steps of that one.

- **TCP.** A stream is a sequence of units: the two halves of the length prefix and the
  parts of each message. A send may stop short on a connection that lives on, so that the
  next message is read as the rest of this one; `recv` may end anywhere. `thread[s]` is the
  detached `client_loop` of a connection, which tests `running_` only between messages and
  calls `on_wire_bytes` whatever `stop` did meanwhile. Two of them can be in it at once.
- **ZeroMQ.** The library carries messages of one frame, or of two with a topic, whole
  or not at all, in one bounded queue per sender. PUSH blocks at the bound, PUB drops.
  `loop` is `recv_loop`, which takes the wire from the first frame with PUSH/PULL and from
  the second with PUB/SUB. `AskToStop` and `Close` are two steps of main, with the loop
  running in between; a socket used after `Close` raises an error the loop ends on.
- **MQTT.** Sender and receiver are clients with fixed names, clean sessions and no
  reconnect, so that a second sender takes the connection of the first (`Connect`).
  `publish[s]` follows the delivery token: with QoS 0 the send is done at once, with QoS
  1 or 2 when the broker acknowledged. What arrives with nobody subscribed is `unrouted`.

The libraries, the broker and the kernel's stream are external and are modelled from how
the code uses them.

### 2.7 `SenderProcess` and `EndToEnd`

`pc`, `phase`, `i`, `seqId` and `tStart` are main's; `Take` is the payload source moving on,
which happens before anything can fail; `EncodingFails`, `SendFails` and `SendSucceeds` are
the ends of `Sender::send`. A send that failed may have put its message on the wire all
the same. `Tick` lets time pass while the thread sends or sleeps, and `Pace` returns from
`sleep_until`. `Die` is the process killed at any point, or a start that failed.

`EndToEnd` puts these messages on a stream (in order, once, in time) or on datagrams
(lost, repeated, overtaken) and adds the receiver as far as its counts and deadline go.
Its network thread takes a data message (`ArriveData`), or stores the flag of the sentinel
(`ArriveSentinel`) and then its count (`SetCount`). Its main thread waits (`Patience` is the
sum of the three `uint32_t` of the configuration, `StopWaiting` the sentinel or the
deadline) and then reads what they share one after the other: `ReadSent`, `ReadOverflow`,
and in `Finalize` what the processing thread has counted, with any number of accepted
packets still in the queue. Meanwhile the network thread may take one message more.
`halfRead` marks a run in which main saw the flag and read the count before it was stored.

### 2.8 `RunFolder`

Processes with the same run id and the same names of protocol, serializer and compression
write to the same folder. A file is a sequence of blocks, each with the process that wrote
it; opening truncates, but a process that has the file open goes on at its own offset,
which leaves a `Hole`, or the end of a longer text behind a shorter one. `config.json` and
`summary.json` are opened and written in two steps, and their lengths differ between
processes. `Flush` is `csv_writer.flush()`, after which the processing thread may still
write rows; they are out with `Exit`, which is the join and `~CsvPacketWriter`. `Kill` ends
a process between any two steps, with what is in its stream's buffer. `Scan` is what
`results.py` makes of the folder.

### 2.9 `Statistics`, `Codec`, `Configuration` and `PureFunctions`

Definitions without state. A mean is in units of `1/Scale` with `Scale` a common multiple of
the numbers of samples, so that integer division is exact. `Sorted` says which sample is at
which place: the one that fewer than k are below and k or more are not above. A payload is a
tree of JSON values; CBOR keeps the tree with maps flattened to keys and values in turn,
which is what the decoder's cursor walks over. `encode_value` and `decode_value`, which call
each other's loops to any depth, are functions of the depth: `EncodeValue[d]` and
`DecodeValue[d]` take the values with at most `d` containers within each other (`Json[d]`,
`Cbor[d]`), and `MaxDepth` is the deepest payload there is. In place of booleans and
floating point numbers a null stands for the scalars that come through unchanged. A
configuration is a record, an option or a member of the file a field that may be missing,
and integers wrap at the width of their member. `PureFunctions` calls one function once, on
any small input.

## 3. What the runs check

| Run | Shows |
|---|---|
| `queue` | With two producers, two consumers and a controller no wakeup is lost (`NoLostWakeup`); the queue is a lossy FIFO: no interleaving loses, repeats or overtakes an item; a stop ends every consumer. |
| `receiver` | Packets are accounted for (`EveryPacketAccounted`), the summary never overcounts, what was accepted before the stop is on disk at the exit, a handled sentinel is reported, and the process ends. |
| `udp` | What is accepted is a message as it was cut (`DeliveredIntact`), no more often than its fragments came (`ImplementsChannel`); what came whole is delivered, with the exceptions the property names; an expired message is not received as well. |
| `results` (processor) | Repetitions are flagged across gaps and corrupt packets; `GapsBalance` and `GapsCoverMissing` relate the three counters to the ids; the reservoir, the accumulators, the jitter and the statistics of `summary.json` agree with the rows. |
| `results` (functions) | Over every small input: the running moments are those of two passes, percentiles are in order and within the samples, a payload comes back (with CBOR exactly when no container precedes an item), `config.json` reproduces the configuration and the folder. |
| `results` (folder) | A receiver that was alone and ended leaves its own whole files; a scan fails only over a folder where a process is, or died, between opening and writing `config.json` or `summary.json`, or two had one of them open at once. |
| `clocks` | An offset is off by half the round trip of its own exchange at most, late answers and the end of the NTP era notwithstanding; a query ends; a delay is off by twice the difference of the clocks. |
| `end_to_end` | Ids follow the calls of `send` and the records through failures (`RecordsFollowIds`); the sentinel counts them; the log is what left; the schedule never drifts (`KeepsSchedule`); the loss of `summary.json` is what was lost, refused or left in the queue, less repetitions, and its overflow misses one packet at most, unless main read the count of the sentinel before it was stored (`LossIsWhatIsMissing`); when the sentinel comes before the deadline (`SentinelInTime`). |
| `transports` | Over TCP, ZeroMQ and MQTT a message comes up once (`ImplementsChannel`), in order, whole and without a gap while nothing failed (`FaultlessStreamIsIntact`); at most one of a sender comes after `stop`; what was sent arrives, but for a publisher without a topic (`CompletedArrive`). |

The run `results` has three parts that share no variable: a behaviour is one of the
processor, a call of a function, or the processes on a run folder, and their states add
up. The other parts interact, or need fairness, and have runs of their own.

Five runs check a statement of the documentation or of a comment that the code does
not keep. TLC finds the counterexample.

| Run | Statement | What the code does |
|---|---|---|
| `destruction_order` | "Sequential state — no mutex needed" (`PacketProcessor.hpp`) | the counters and the reservoir are destroyed before the thread that uses them is joined |
| `receiver_linux` | without a sentinel the receiver terminates (`docs/running.md`) | where `close` does not wake a blocked `recv`, the join waits for ever |
| `delay_correction` | the end-to-end delay is corrected for clock differences (`docs/running.md`) | the offsets enter with the wrong sign: between synchronised hosts the difference of the clocks is doubled |
| `summary_jitter` | jitter is the difference between consecutive messages "in sequence order" (`CONTEXT.md`) | `compute` sorts the samples before it takes their jitter, which leaves only their spread |
| `empty_topic` | an empty `zmq_topic` means "subscribe-all" (`docs/running.md`, `CONTEXT.md`) | a publisher without a topic sends one frame, the receiver takes the wire from a second: nothing arrives |

### Other differences between the code and what is written about it

They were met while modelling; the models follow the code.

- `processor.stop()` does not join, so that `finalize` can run before the queue is drained
  and `summary.json` count fewer packets than `packets.csv` has rows
  (`docs/architecture.md` draws it after the loop). `SummaryNeverOvercounts` and `waiting`
  in `EndToEnd` allow for it.
- `RunResult.hpp:13` says `msgs_sent` is missing "if sentinel lost (UDP)": it is missing as
  well when a fragment of the last message still holds the slot the sentinel needs.
- `on_wire_bytes` stores the flag of the sentinel before its count: main may see the flag
  and read a count of zero, and then reports that no message was sent and no loss, although
  the sentinel was received. The next step stores the count, but nobody reads it again.
  `LossIsWhatIsMissing` and `SentinelInTime` name this outcome (`halfRead`);
  `HandledSentinelIsReported` is about sentinels handled in full.
- A packet that does not decode puts a delay of zero into the statistics.
- `docs/running.md:256` says that `packets.csv` excludes the warmup; the code writes all rows,
  and no column of `packets.csv` tells those of the warmup from the others.
- `docs/running.md:179` offers rate 0 as burst mode; it sends no message, and the sentinel
  tells the receiver so (`SentinelCountsAttempts`).
- `docs/analyzer.md` says that a run without `config.json` is shown as incomplete; the scan
  skips it. A file that is not JSON ends the scan of all runs.
- The transport latency and the throughput in `summary.json` are never filled.
- `CborSerializer.cpp` loses the item behind a nested container and wraps integers above the
  signed range (`PayloadComesBack`). It takes JSON text only, but `validate` accepts it with
  YAML and key-value files, of which then every send fails.
- `sender_log.csv` leaves its column `run_id` empty. A receiver records the defaults of
  options only its sender was given.
- A second receiver on the same folder truncates `packets.csv` before its `bind` fails. A
  receiver killed before it saves leaves the `summary.json` of an earlier run beside a new
  `packets.csv`, which the analyzer takes for a complete run; `FinishedRunIsWhole` therefore
  speaks of receivers that ended.

### Bounds, and why they are enough

- `queue`: capacity 2, two calls by each producer and by the controller. Four items
  for a capacity of two make the queue full and empty again; two consumers allow one
  to overtake another that was woken; two calls let a `stop` meet a `reset`.
- `receiver`: two messages, the first of them warmup, four arrivals, capacity 2, a
  flush every two rows. Four arrivals give losses, repetitions, a sentinel that
  overtakes data, a full queue, and rows on both sides of a flush.
- `udp`: two messages of one, three, four or five chunks with fragment numbers modulo
  4, so that messages fit, just fail to fit (a count of zero) and wrap to a count of
  one; two copies of a datagram, five arrivals: a message of three chunks with a
  repetition and a chunk of the other one, which may expire and complete. `Expiry` 0
  makes a slot expire after one tick; only the comparison with the age matters.
- `results`, processor: ids 0 to 3, the first of them warmup, four packets, a reservoir of two. A
  gap of two ids can be filled by a late one and repeated; the reservoir is replaced twice.
- `clocks`: two attempts of two ticks, time up to 5, so that both attempts can time out
  and an answer to the first can come during the second (`MaxTime` is at least the
  length of all attempts); the NTP era ends at time 1; skews of 0 and 5 differ by
  more than two offsets can be wrong.
- `results`, functions: up to five samples of four values, so that percentiles fall on and between
  samples; JSON values two containers deep with up to three items, of which any may be a
  container; integers modulo 8; settings of three members, with numbers at and beyond
  their widths and names that are not known.
- `end_to_end`: five plans of up to four messages, with and without warmup, at one to
  three messages a second and in burst mode, on both kinds of network; a second is three
  ticks and a send takes none or two, which is longer than the interval of the fast plans
  and shorter than that of the slow ones; two records of which any may not encode; one
  failed send, one refused packet, two copies of a datagram, a latency of one. `IdRange` 16
  and `CountRange` 64 stand for 2^64 and 2^32: only burst mode wraps the first.
- `transports`: two senders, the second being the first started again or another run's,
  with two messages of two and one parts; a queue of one; one failure; a length misread
  from a torn stream of up to three; a topic or none on either side; QoS 0 and 1. One
  failure puts a stream out of step, and with the second message the damage shows. QoS 2
  differs from 1 only in what the protocol does to repetitions, which a connection that
  never reconnects does not have.
- `results`, folder: two receivers and a sender; `config.json` of the sender and of one receiver,
  and `summary.json` of this receiver, are two blocks, those of the other receiver one, so
  that a file written over by a shorter one shows; three blocks of `packets.csv`, so that a
  receiver can write over the middle.
- The runs with a counterexample are as small as it allows: `summary_jitter` has three packets
  that all fit the reservoir, `empty_topic` one sender, a queue of one and no failure; the
  others have the bounds of `receiver` and `clocks`.

Deadlock is not checked: a queue nobody stops, processes that ended, a network with
nothing left to deliver and a bounded number of packets, messages or calls are states in
which nothing more happens.

### Fairness

`queue`, `clocks`, `receiver` (with `receiver_linux`) and `transports` (with `empty_topic`)
need it. A thread that can run does (weak fairness of each thread): a queue thread that owns
the mutex goes on, a consumer calls `pop` again as `process_loop` does, main polls and the
clock passes the deadline. Nobody is obliged to call `try_push`, `stop` or `reset`, and no
message is obliged to arrive. In `clocks` the hosts run and time passes, since `recv` has
its timeout; the server and the network owe nothing. Weak fairness of a thread that waits
for the mutex is enough because producers and the controller make a bounded number of calls;
the code has one consumer, so that nobody starves it for ever.

In `transports` the receive threads run, and the library and the broker carry what they
have (weak fairness of each): this is what TCP, ZeroMQ and MQTT promise on a connection that
lives. ZeroMQ takes turns between its connections, which is strong fairness of `RecvFrom`:
a message is received unless the loop stops coming back for one. Nothing makes a sender
send or main stop the receiver, only, once `request_stop` was called, main goes on to
`close`.

## 4. What is proved

The theorems hold for every value of the constants that satisfies the named
assumptions of the modules (`ThreadsAssumption`, `PipelineAssumption`, `UdpAssumption`,
`ProcessorAssumption`, `TransportsAssumption`, `FolderAssumption`,
`SenderAssumption`, ...): non-empty capacities, disjoint sets of threads, model
values that are not numbers. `FewMessages` of `EndToEnd` says that a plan has fewer than
2^64 messages; at the highest rate the configuration can name more would take a century.
(In the sender alone, where burst mode wraps the range in the runs, nothing assumes this.)

- **Queue** (`BoundedQueueProofs`). `TypeCorrect` strengthens `TypeOK` with: a producer
  that is pushing has made a call. Mutual exclusion then gives `FifoCorrect`.
  `StopReaches` and `WakeupsCorrect` rest on the mutex having one owner and on each
  sleeper having gone to sleep on an empty, unstopped queue; the second counts the
  consumers that look with cardinalities: a push adds an item and a looking consumer,
  a pop takes one of each. `QueueImplementsFifo` maps each step to one of
  `LossyFifo` or to a stutter.
- **Receiver** (`ReceiverPipelineProofs`). The invariant `AccountInv` splits what was
  handed to the queue into drops, queue and popped packets, ties popped packets to
  rows and rows to counts at every program point of the processing thread, and bounds
  what main has read by what it read from, which only grows. From it come
  `EveryPacketAccountedAlways`, `SummaryNeverOvercountsAlways` and
  `AcceptedBeforeStopIsSavedAlways`; the last needs that a processing thread ends only
  on a closed queue it has drained. `HandledSentinelIsReportedAlways` is about two states:
  `FlagFirst` says that the flag of the sentinel is set before its count, so that whoever
  sees the count sees the flag; `Reported`, the count in store or already in the result, holds
  once the sentinel is handled and, with the counts of main's way to the exit, from then on.
- **UDP** (`UdpTransportProofs`). `SlotsInv` says that a fragment in a slot is one of
  that message or the sentinel, at its index modulo `FragModulus`; with the length test
  of `parse_wire` this is what keeps messages with wrapped counters out.
  `Budget` bounds the uses of a chunk, in deliveries and in open slots, by its arrivals:
  this gives `DeliveredOncePerCopyAlways`. `UdpImplementsChannel` follows from both.
  `SlotContents` is the converse of `SlotsInv`: what arrived of a message that is not
  delivered, swept or overrun is in its slot. A slot that lacks nothing is delivered in the
  same step (`CompleteDelivers`), hence `CompleteArrivalsAreDeliveredAlways`.
  `TimedOutIsNotReceivedAlways` follows from `Budget`: a sweep and a delivery would use the
  chunks they share twice.
- **Packet processor** (`PacketProcessorProofs`). `OrderInv` says that the highest id is
  among the ids seen and bounds them; `RowsInv` that the id of each decoded row was
  seen. From these come `RepeatsAreFlaggedAlways`; `GapsBalanceAlways` and
  `GapsCoverMissingAlways` count rows and missing ids with cardinalities of finite sets;
  `ReservoirIsASampleAlways` shows that a step offers one value, of the row just
  written, and that it takes at most one place. `BaselineInv` ties `prev_delay` to the last
  measured row that was decoded, for `JitterAgainstPreviousAlways`.
  `AccumulatorsMatchRowsAlways` needs what a sum over a finite set is. The induction is one
  over a set of numbers (`Induction`, proved from the finiteness of intervals, since a
  principle with a predicate for parameter cannot be instantiated); from it come that the
  sum exists, and that an element more adds its value.
- **Statistics** (`PacketProcessorProofs`). A fold is a run of steps (`FoldExists`,
  `AddingRuns`, `WelfordMeasures`), so that `Induction` reaches it. `Balanced` is the
  invariant of Welford's pass: the mean times the number is the sum, and the squares about
  any point are the squares about the mean and the rest (`WelfordStep`); this gives
  `WelfordIsTwoPassAlways`. A sample takes every place (`PlaceIsTaken`), so `Sorted` is in
  order. `JitterOfComputeIsSpread` is the reason for the counterexample of `summary_jitter`, and
  that no samples escape it: over sorted ones the sum of the steps telescopes. `RankOfPlace`
  and `PercentileAround` put a percentile between the two samples around its rank, from which
  `PercentilesInOrderAlways`.
- **Payloads** (`PacketProcessorProofs`). `CborRoundTrip` is by induction over the depth of a
  JSON value, once the recursive functions are shown to be what their definitions choose
  (`LayersExist`, `WalkExists`: values and cursors exist level by level). `Walk` is what the loops
  over an array and over a map have in common. For an array, the walk gives the items back
  exactly if each comes back and none is passed over (`ItemsBack`): a walk that has passed over
  one is too short to catch up, because it never takes more than is left. For a map
  (`MembersBack`) the cursor that has passed over a key takes values for keys from then on, and
  ends with garbage or with a null where a text was. `DecodedAgain` undoes the compressor. From
  these `PayloadComesBackAlways`, for any numbers, words, keys and sizes of the payload files.
  A bound on the depth stays, but it is any number: a file has some depth.
- **Summary** (`PacketProcessorProofs`). Reservoir and recomputation enumerate one set of rows
  while this fits (`Lists`), an enumeration sorts as any other of its set does
  (`SortedOfSet`), and sorting keeps the sum: `SumOfPlaces` fills the set in the order of its
  values. With the accumulators this is `SummaryIsOfMeasuredRowsAlways`. `SummaryAssumption`
  extends the exact means to the capacity of the reservoir.
- **Clocks** (`NtpSyncProofs`). `Asked` and `Stamped` say that an answer a waiting host may
  take was stamped, in local time of the server, after its own request was sent; this
  is where the fresh socket of each attempt and the wrap of the era (`EraIsHarmless`)
  come in. `OffsetError` is the arithmetic of the two ways, `DelayError` adds two offsets.

- **TCP, ZeroMQ, MQTT** (`TransportsProofs`). `TransportsInv` holds the types, a bound on
  what each thread may still hand up after `stop` (`TcpLate`, `ZmqLate`, `MqttLate`: a
  thread that has not handed up its last message has handed up none since), what a publisher
  waits for (`MqttPublished`), and what the frames of a ZeroMQ message are (`ZmqFramed`). It
  gives `AtMostOneAfterStopAlways`. `OrderInv` says for each transport that what was handed
  up, what the receiving thread holds, what is under way and what is still to be sent follow
  each other in the order of the sender: for TCP by the first byte of each message, since a
  torn stream is still read from front to back. Each step either shows nothing, takes a
  message, or hands up one that comes after all others of its sender (`Observed`). From this
  follow `ArrivesInOrderAlways` and, as a message that comes after all others was not handed
  up before, `TransportsImplementChannel`. `FaultlessStreamIsIntactAlways` needs that
  nothing is missing in between. For ZeroMQ and MQTT it is a conservation (`ZmqKept`,
  `MqttKept`): what left is handed up, queued, in a thread's hands, or counted among what
  had no subscriber. For TCP `InStep` says that the bytes read and the bytes under way
  continue the last message handed up without a gap (`Continues`), so that a length is read
  where a length was written.
- **Run folder** (`RunFolderProofs`). The invariant says at each point of a receiver that was
  alone which blocks of `packets.csv` are out, that no other process has the file open to
  write, and that a `config.json` or `summary.json` that is not the whole of one process's
  has a process in the middle of it or was torn. It gives `FinishedRunIsWholeAlways` and
  `ScanSucceedsAlways`.
- **Configuration** (`RunFolderProofs`). `ConfigOK` says that a configuration has all members
  and each is within its width or its names; parsing, a file and an override keep it, and
  of such a configuration every member survives the way through JSON (`ReadBack`). The
  widths have to hold the defaults, the numbers read are any integers. This is
  `RecordedConfigReproducesAlways`.
- **Sender** (`EndToEndProofs`). `Progress` ties `seqId`, the number of attempts and the next
  record to the place of the loops in the two phases; `Successor` is the arithmetic of the
  record index and of the count in 64 bits. A whole run is a run of the sender
  (`RunHasASender`), so that `RecordsFollowIdsAlways` and `SentinelCountsAttemptsAlways`
  hold of it. `Paced` relates the begin of an attempt to the end of the one before and to
  its due time, `Clock` says where the present stands between the two at each program
  point; together `KeepsScheduleAlways`. `LogIsWhatLeftAlways` is inductive with the types:
  a row is added with the attempt and the wire it stands for.
- **Whole run** (`EndToEndProofs`). `NetInv` counts: accepted and refused messages are the
  messages of which a copy arrived (`Got`) and the copies after a first (`Again`), and the
  messages on the wire have different ids below the number of attempts. With what main has
  read at each of its points, and the one message the network thread may take after that (it
  has ended once it did), this is `LossIsWhatIsMissingAlways`, by cardinalities. `Timely`
  bounds how far the schedule of a sender in time is from the connection, `Waited` what a
  receiver that waits has not yet got; the premise `WaitFits` of `SentinelInTime` says that
  the sum of the three `uint32_t` of the wait does not wrap, without which the receiver
  gives up early. From these follows `SentinelInTimeAlways`.

The types of all these modules are proved and not run. So are `FifoOrder`,
`DeliveredOncePerCopy` and `ArrivesInOrder`, which `ImplementsFifo`, `ImplementsChannel` and
`FaultlessStreamIsIntact` of the runs contain, and `StopReachesSleepers`, the safety half of
`StopEndsConsumers`.

**Only model-checked.** Liveness (`StopEndsConsumers`, `ReceiverTerminates`, `QueryEnds`,
`CompletedArrive`), since the prover has no support for fairness, nor for `ENABLED`. Every
invariant that a run finds to hold is proved as well. The refinement of the queue and of the
channels is proved for safety; what is live in them is the liveness just named.

## 5. What is not modelled

- Bytes: the layout of headers, endianness and CRC are taken as right or as failing, the
  text of CSV and JSON files as a sequence of rows or members. Their tests exercise them,
  and no property here depends on the bytes.
- Floating point: rounding in Welford's update and the percentiles, the square root.
- UDP sizes in bytes: a message is a number of chunks. The off-by-a-header of the MTU
  test is in the list of hazards.
- Data races: where the code reads a plain member that another thread writes
  (`finalize`), the model reads whole values.
- What undefined use of an object leads to: a TCP client thread that outlives its
  receiver, a ZeroMQ socket used by two threads. `AtMostOneAfterStop` bounds how late the
  use is; what it does is beyond a model of this kind.
- A key of a JSON object with a NUL in it, which `encode_object` cuts off there.
- A full disk, and network errors the code does not tell from others.
- The analyzer's plots and tables, and the parsing of the command line: input and output
  without state.

## 6. Plan

The components are modelled, checked and, where it pays, proved. What is left: a receiver
with several network threads in `ReceiverPipeline`, for TCP, where each client has a thread
of its own that calls `on_wire_bytes`.
