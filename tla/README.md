# zslay in TLA+

zslay is an allocation-free WebSocket framing library written in Zig, with a C
interface. Its repository also holds an echo server built on that interface, a
client that measures it, scripts that publish the measurements, and a vendored
lint plugin. This directory holds TLA+ models of them, TLC configurations that
check the models on small instances, and TLAPS proofs. Paths below are relative to
the repository; `src/*.zig` are the library's sources.

## The system

| Part | Source | State | Operations | Module |
|---|---|---|---|---|
| Frame codec | `src/frame.zig`, `src/types.zig` | none (pure) | `encode_header`, `decode_header`, `read_length`, `header_bytes_needed`, `get_serialized_size`, `validate_close_payload` | `Frame`, `FrameCodec`, `FrameProofs` |
| Masking | `src/frame.zig` `mask` | none (pure) | word-wise XOR | `Mask`, `BlockProofs` |
| Transmit ring | `src/queue.zig` | `buffer`, `head`, `tail`, `len` | push, pop, front, discard, clear | `Queue`, `Deque`, `BlockProofs` |
| Receive half of `Conn` | `src/event.zig` | parser state, header buffer, decoded header, byte counts, `rx_fragment` | `advance_rx`, `advance_header_read`, `advance_payload_read`, `complete_frame`, `reset_rx` | `Conn`, `ConnRx`, `ConnRxProofs` |
| Transmit half of `Conn` | `src/event.zig` | `tx_queue`, `tx_fragment` | `prepare_frame`, `queue_frame`, `advance_tx*`, `reset_tx` | `Conn`, `ZslaySend`, `ZslaySendProofs` |
| C receive path | `src/c_api.zig` | `rx_stage`, `rx_stage_len`, `rx_stage_off` | `zslay_conn_recv`, `zslay_conn_reset` | `ZslayRecv`, `ZslayRecvProofs` |
| C transmit path | `src/c_api.zig` | `tx_chunk`, `tx_chunk_len/start/sent` | `zslay_conn_send`, `zslay_conn_prepare_frame`, `zslay_conn_queue_frame`, `zslay_conn_reset_tx` | `ZslaySend`, `ZslaySendProofs`, `Handle` |
| C handles | `src/c_api.zig` | `magic`, `callback_state`, `callback_depth` | `zslay_conn_init`, `zslay_conn_deinit`, callbacks, re-entrancy and overlap checks | `Handle`, `HandleInvProofs`, `HandleProofs` |
| Echo server | `benchmarks/echo_server.c` | client table, poll set, buffers of each client | poll loop, accept, handshake, `service_websocket`, retirement | `EchoServer` |
| its parsers | `benchmarks/echo_server.c` | locals of one call | `find_handshake_end` with its caller, `has_token` | `HandshakeEnd`, `HeaderToken` |
| Benchmark client | `scripts/benchmark_echo.py` | counters and window shared by the workers | connect, worker loop, `sample`, exit status | `EchoSample` |
| History publisher | `scripts/benchmark_history.py`, `.github/workflows/benchmark.yml` | files of a checkout, the branch | `publish`, `publish_echo`, fetch, push | `Publish`, `PublishProofs` |
| Lint plugin: types | `.agents/skills/install-anti-slop/assets/anti-slop/` (`shared/`, six rules) | the environment each rule keeps for a file | `Program` handlers, node handlers, alias resolution, dictionary classification | `TypeAliases`, `DictionaryTypes`, `Lint`, `TypeMeaning` |

`MCBlocks` runs the parts that share no state (`Queue`, `Mask`, `FrameCodec`,
`HandshakeEnd`, `HeaderToken`, `EchoSample`) side by side: a behaviour exercises
one of them while the others rest.

The library does no I/O. A native caller asks `Conn` what it wants
(`need_header`, `need_payload`, `emit_frame`; `write_header`,
`write_payload`), moves the bytes and reports how many it moved. The C
interface is such a caller. It reads from and writes to a transport through
callbacks that may move any part of what they are offered, nothing, or fail.
It adds two buffers: `rx_stage`, in which one read may bring the end of one
frame and the start of the next, and `tx_chunk`, in which a client's payload is
masked before it is sent, possibly over several calls.

What is hard in the library is not concurrency but sequences. State survives from call to
call; the transport decides where each call stops; frames are queued, and the
connection reset, between any two calls. Around it there is concurrency: the
server and its peers, the client's workers, publish jobs that stop halfway and
are tried again. `PROJECT.json` lists the hazards with
the line where each bites and the properties that would catch it.

## How the code is modelled

**Headers.** A header on the wire is a record: the 16-bit `FrameHeader`, the
integer in the extended-length bytes, the masking key. A buffer is such a
record together with how many of its bytes are present. The boundaries of the length
encoding (125, 65535, 2^63 - 1, 2^64 - 1) are constants, so that TLC crosses
all of them with payloads of at most seven bytes. Header sizes (2, 4, 10, with
4 more for a key) and the 14-byte stage have their real values. `rsv` stands
for the three reserved bits, which the code only tests together.

**Queue and Deque.** `Queue` has the ring's indices, with the code's own wrap
at each end; its storage starts with any content. `Deque` is the promise: a
bounded double-ended queue that reports what each operation did. Items are read
off the ring from `head` up, `len` of them, and `RingIsDeque` says that the ring
implements the queue under that mapping. `Conn` then uses sequences.

**Mask.** One step is one turn of the word loop or of the tail loop. XOR is the
only operation on the bytes, so a byte is the set of key bytes XORed into it
an odd number of times. The sender's calls cut the payload anywhere; the
receiver's cut it elsewhere and may use words of another size.

**Conn.** The methods of `event.Conn` are operators from state to state and
error. `ConnRx` lets a native caller call the receive methods in any order with
any byte counts; `message` is what that caller holds of an open message.

**ZslayRecv.** One step enters `zslay_conn_recv`, and each further step is one
pass of its loop with the transport's answer; `action = "idle"` between calls.
`position` counts the bytes read from the transport since the current frame
began, so that the model knows where in the frame the next byte really belongs.
`reads` counts the transport reads of the call, and `dropped` records that a failed read has
cost staged bytes (see the findings). A negative result and an over-long
result of a callback have the same effect and are one case.

**ZslaySend.** `QueueFrame` prepares a frame, under this connection's
configuration or under another one's, and queues it. `Enter` and `Pass` are
`zslay_conn_send` and the passes of its loop. The `peer` follows the bytes on the
wire: a byte is told by its frame and its place in it. The peer uses the
library's own receive rules, with the opposite role and the same limits, to
judge each header when it is complete. `content` records which bytes `tx_chunk` really holds
and the offset they were masked for. Each step moves as many bytes as the
transport takes.

No other call of the library interleaves with the passes of a call:
`callback_depth` makes every entry point that changes a connection answer
`ZSLAY_ERR_REENTRANT` in a callback, except preparing and queueing frames from
`on_frame`, which touch only the transmit half. That is why `ZslayRecv` and `ZslaySend` can be separate.
`Handle` checks it (`OneHandleAtATime` in `InUseIsSafe`, `SendsTheHead` in
`QueueIsSafe`).

**Handle.** `stack` holds the library calls in progress, with the callback each
waits for. The application makes any call whenever it runs: between calls, and
in every callback, on the same handle or another. What the code refuses changes
nothing and is no step. What is read and sent is abstracted: a callback
moves something or nothing, a frame has been sent not at all, in part or whole. Storage is
told by addresses, with the code's own range comparisons and its treatment of
an end past the last address. `nodes` is what memory holds of frame nodes; each
write of the library removes the nodes it touches, so a damaged queue shows.
There is one thread, because `zslay.h` asks for calls on a handle to be
serialised and `callback_depth` is thread-local. Three duties of the caller that
the code cannot check are taken for granted: storage that one handle owns is not
offered to another until `zslay_conn_deinit` or a new `zslay_conn_init` gives it back (`FreeFor`), a
queued node was prepared, and the receive chunk is named only while `on_frame`
runs. `zslay_conn_tx_pending` only reads and has no guard; it is no step.

**EchoServer.** A step of the server is one socket call with what follows it up
to the next one; peers connect, send, read and leave between any two steps. The
byte stream is seen in units: a header, a payload byte, a part of the request.
The library's receive stage is there, smaller than the server's own buffer, because
bytes in it are what poll cannot see. `Owed` says what an echo service owes
for a script, without buffers or rounds. `HandshakeEnd` is the search for the
blank line as the request arrives in pieces, and the split between
request and first frames; `HeaderToken` is one turn of `has_token`'s loop per step.

**EchoSample.** A worker gives way at an `await` and nowhere else. A history
variable keeps all round-trip times; the window is compared with it.

**Publish.** A publish is four writes, each of which may be cut off, and the
process may end between any two. A job is tried again in a fresh checkout or in
the one it left behind. The workflow takes any fetch that fails for a missing branch
and starts an orphan history (`benchmark.yml:190`); `Fetch` may do so at any time. `Check` stops
if the contract in the job's sources is not the one the record was measured under.
`Push` does nothing if nothing changed, and fails if the branch is not what was
fetched, as git refuses it. The same code runs for the two suites, core and echo, one after
the other in one checkout. On `main` the workflow's concurrency group
(`benchmark.yml:20`) keeps two of its runs from overlapping; the model does not
use that, so what it shows does not rest on it.

**Lint.** A file is its declarations, signatures, variables and flows of values, over
abstract type and expression trees. `Program` builds the environment each rule
keeps and `Walk` runs the handlers. A variable has a declarator or is the name of a function, a
parameter, or defined several times; a parameter is a name or a rest, default or
property parameter around one; a call names its callee, and
`localFunctionForCall` finds the function. Calls that are arguments or
initializers have no arguments of their own, and there is no computed callee. Files follow each other through
one plugin instance, so an environment kept too long shows. `TypeAliases` and
`DictionaryTypes` translate the two resolvers, which substitute arguments on
the way: the first keeps closures, the second names. `TypeMeaning` is the
reference: it expands every alias with proper scoping and asks of the expanded
type what the rule looks for. The resolvers recurse as the code does; a
recursion of `DictionaryTypes` deeper than `MaxDepth` stands for the `RangeError`
of the real stack.

Definitions that are not cited by any other definition and sit just before a
similar one (`UnrotatedKey`, `RetireKeepsFd`, `ForcePush`, ...) are faulty
variants of it. `PROJECT.json` pairs each property with the variant that
violates it.

## Runs

| Run | Shows | Bounds |
|---|---|---|
| `blocks` | `TailFollowsHead`, `RingIsDeque`: the ring is a bounded deque. `CodecIsExact`: encoder, decoder and byte count describe the same headers. `EveryByteInPlace`, `OnlyTheBuffer`: masking is right under any cut and touches nothing else. `RequestSplitsRight`: the request ends at its first blank line and no byte behind it is lost. `SearchIsRight`: `has_token`. `SampleIsRight`, `EndsHonestly`: the benchmark client | ring of three slots; every length on both sides of each boundary; 17 bytes with words of 4 and 8; every request of eight bytes, some too long; every header value of up to seven characters; two workers, a window of three that wraps |
| `conn_rx` | `RxConsistent`, `FragmentIsMessage`, `FramesFormMessages`, `ErrorsStick` under any order of calls | two configurations, headers of all sizes, legal and not |
| `recv` | `StageIsTrue`: the parser never loses its place, except as in the first finding, and an OK leaves nothing staged. `ReadsAreBounded`, `ErrorsStickUntilReset`, and `FramesEnd`: a frame that has begun ends | seven headers, chunk of two bytes, every cut of the 14-byte stage |
| `send_client` | `FramesLeaveWhole`: whole frames, right bytes, right mask phase, legal sequence, in order; the scratch chunk is never stale | three frames through two slots, chunk of two bytes, three callbacks and six bytes per call |
| `send_server` | `FramesLeaveWhole`, `PendingIsExact`, `FragmentAhead`, `PreparedControlQueues`, `SendBounded`, `EveryFrameLeaves` | the same, unmasked, four bytes per call |
| `handle` | `CallbacksNest`, `InUseIsSafe`: the re-entrancy guards. `QueueIsSafe`: queued frames keep their nodes, their place and their payloads | a client with two slots, a server with one or none, and a slot that may serve either; storage in, beside and across each region |
| `echo` | `EchoesInOrder`: a peer is sent what it is owed and nothing else. `OnlyTheBudgetLeavesInput`: a handler leaves input of a client unread only when every receive call of the round made progress, and in the server's own buffer only after the last round. `BuffersFit`, `TableIsTrue`, and `ClientsComeToAnEnd` | two receive calls per round instead of 64, two rounds; one peer with any of fourteen conversations, or two or three peers for two slots; buffers of a few units, a response longer than a socket buffer |
| `publish` | `PublishConverges`: a publish that succeeds leaves pointers that agree with the records, whatever an earlier attempt left. `BranchIsWhole`, `RecordsStay` | two jobs; two records that claim one ID, of one year or of two years with a contract each; at a time, one checkout with cut-off files and one orphan history beside an existing branch (`OneFailureOfAKind`) |
| `lint` | `AliasesAreTransparent`, `UnknownCannotHide`, `DictionariesAreFound`, `WideningIsFound`: the rules report what the expanded types call for | 5,370 pairs of files: aliases with up to two parameters and defaults, shadowing, interfaces, all forms of parameters, constants that copy each other, names of functions and parameters, type predicates |
| `recv_offset` | violation, first finding | as `recv` |
| `recv_one_read` | violation, second finding | as `recv` |
| `echo_wakeup` | violation, third finding | one peer, two receive calls per round instead of 64 |

The bounds are chosen so that every branch is taken: payloads fall in all
three length classes, a payload spans several chunks, a header several reads, a read
several frames; a ring of two slots is full while a third frame waits; the
message limit (five or six bytes) is met exactly and passed by fragments that
are each legal; the budgets of a call end in the middle of a header and of a
payload. A peer's response blocks half written, a slot is filled after poll
reported events for the table without it, a round ends with input left. `MaxFrames` bounds the frames accepted in one behaviour, resets
included. In `ZslayRecv` the guard of `PayloadFailed` lets a failed read cost
staged bytes at most once between resets. In `echo` two calls
use up a round, and two conversations of frames without an answer use up one
round and all rounds; what the third finding describes happens there too, and
`OnlyTheBudgetLeavesInput` says that nothing else leaves input behind. In `lint`, files are bounded by their shapes, given in
`MCLint`; 20 is far deeper than any of them resolves when it ends.
The run stops after the second file, hence no deadlock check; the blocks of
`blocks` end as well.

**Fairness.** `recv` and `send_server` assume that the caller keeps calling
(weak fairness of entering a call), that a call takes its next pass (the code
runs), and that a transport asked again and again moves at least one byte in
the end (strong fairness: failures and empty answers may come in between, but
not forever). The library promises nothing without these. Pings are queued
finitely often: a caller that queues one before every send call could
hold back the data behind it for ever, because each goes in front of an unsent head.
`echo` assumes that the server's one thread keeps running and that a peer which
has not left reads what it is sent. Nothing is assumed of what peers send: one
that says nothing is closed by the idle timeout.

The byte budget of a send call is a threshold, not a cap: `SendBounded` allows
one header, or one masked chunk on a client, beyond it.

## Findings

1. **Staged bytes lost on a failed read** (`recv_offset`,
   `src/c_api.zig:403-413`). With payload bytes in the stage, `zslay_conn_recv`
   takes them out of it before it asks the transport for the rest of the chunk. If
   that read fails, the call returns `ZSLAY_ERR_CALLBACK`; the bytes are neither
   delivered nor staged any more, and `payload_bytes_processed` does not count
   them. A caller that treats the failure as transient and calls again gets the
   following bytes under the wrong `payload_offset`, unmasked with the wrong
   phase of the key, and the frame runs on into the next one. A connection that is
   closed on any callback error is not affected.
2. **More than one read per call** (`recv_one_read`). The comment on
   `zslay_conn_recv` and `CHANGELOG.md` promise at most one transport read per call. A
   header that arrives in pieces is read in one call with one read per
   piece, followed by one read for the payload. `ReadsAreBounded` is what holds.
3. **The echo server sleeps on staged input** (`echo_wakeup`,
   `benchmarks/echo_server.c:550`). After 64 calls of `zslay_conn_recv` that all
   made progress, `service_websocket` returns if its own `ws_in` is empty, although
   the last answer asked for another call and the library's stage may hold a whole
   frame. The socket is quiet, so poll does not report it. A peer whose 64 empty
   pongs and a message arrive together waits for the echo until it sends
   more or is closed as idle. `zslay.h` says of `ZSLAY_PROGRESS`: "call again to
   continue."

The lint rules have limits that are not findings, because nothing in the
repository promises otherwise. The conditions of the properties in `TypeMeaning`
leave them out, and name them:

- an alias met again inside an argument it was given (`A<A<unknown>>`) is not
  resolved there (`NotNested`);
- a substitution carries a parameter's name into another alias that uses a type
  of that name (`Hygienic`);
- in `dictionary-types.ts`, an argument such as `T | null` whose `T` is also a
  parameter of the alias it is given to is followed without end, and swapped
  arguments (`Pair<U, T>`) read names that are already rebound (`Unmistakable`);
- the same file tells aliases being resolved apart by name only, and consults
  top-level interfaces even where a declaration hides them (`NamesDiffer`);
- a dictionary in parentheses, and a plain use of a generic alias whose default
  makes it one, are reported nowhere (`DictionariesAreFound`);
- `Box<unknown>` as a parameter's type is reported by no rule, hence the condition
  that aliases have no parameters in `UnknownCannotHide`;
- a generic alias as the key of a mapped type is not followed; no such file is generated.

The publisher's conflict check looks for a record's ID under the year of the new record
only. The same ID in another year, which `publish` generates, is published
beside the first one, although `benchmarks/CONTRACT.md:35` calls a conflicting record ID an error;
`RecordsStay` and `BranchIsWhole` hold all the same.

## Proofs

`BlockProofs` proves of the ring, for every capacity (0 included) and every element type:

- `RingInvariant`, `TailIsRedundant`: `TypeOK` and `TailFollowsHead` always
  hold. Together they are inductive. `TailFollowsHead` is the part that relates the
  operations at the two ends: without it nothing says that the slot `pop_back` reads
  is the one `push_back` wrote.
- `RingImplementsDeque`: the ring implements `Deque`, returned values included.
  Under `RingInv`, each operation changes the sequence read off the ring as the
  abstract one does. The lemmas `RingSeq` and `RingEqual` reduce that to
  comparing elements, where the wrap-around is linear arithmetic.

The only assumption is `CapacityAssumption` (`Capacity \in Nat`).

Of masking it proves, for every payload length, every cut into calls and all word
sizes that are multiples of four:

- `MaskingInPlace`: `EveryByteInPlace`; `MaskStaysInBuffer`: `OnlyTheBuffer`.

The inductive invariant adds `WordsAligned` to the property and the type
invariant: as long as the word loop may take another turn, `i` is a multiple of
four. Without it the key of a word would not be known to start at the phase of
its first byte. `MaskAssumption` (word sizes are multiples of the key's length) is
what the comment above the code's choice of `Word` demands; its words have 8 or 4
bytes.

`ConnRxProofs` proves, for every set of headers and configurations, every
length boundary and every byte count a caller reports, all that `conn_rx` checks:

- `RxTypeCorrect`, `RxStaysConsistent`, `FragmentTracksMessage`: `TypeOK`,
  `RxConsistent` and `FragmentIsMessage` always hold.
- `OnlyLegalFrames`: `FramesFormMessages`; `RejectionIsFinal`: `ErrorsStick`.

The inductive invariant `RxInv` adds two facts to the three invariants.
`HeaderWasValidated`: in `read_payload` the decoded header still passes
`validate_incoming_header`, because `rx_fragment` changes only when a frame
completes; without it nothing bounds the message that `complete_frame` commits.
`ClosedIsEmpty`: no length is left over when no message is open; without it a new
message could start above zero. `FrameProofs` holds the lemmas about the methods
of `Conn` that this proof and the next two share, and the vocabulary and lemmas
of the transmit queue (`Waiting`, `Met`, `Chain` and the rest, explained below). They go from the codec
(`DecodeAccepts`: an accepted header is as long as `header_bytes_needed` said)
through the outcomes of `accept_header` and `advance_rx` (`AcceptOutcome`,
`AdvanceOutcome`) to those of the other methods. The assumptions are
`LengthAssumption` (the boundaries are in order) and `RxAssumption`
(configurations as `init` accepts them, headers that fit the wire).

`ZslayRecvProofs` proves, for every configuration, set of headers and chunk size,
and for every way the transport may cut the stream:

- `RecvKeepsItsPlace`: `StageIsTrue`; `RecvReadsAreBounded`: `ReadsAreBounded`;
  `RecvErrorsStick`: `ErrorsStickUntilReset`.

`RecvInv` adds to them what ties the running call to the parser. The parser is
where the pending action says it is (`Parsing`), it is never ahead of the stream,
even after a failed read (`NeverAhead`), every read of a running call brought a header byte
(`EveryReadCounts`), and `ERR_PROTOCOL` is always the answer to the header in
`header_buf` (`ErrorIsHeader`), which is why the next call finds the same error.

`ZslaySendProofs` proves, for every configuration, capacity, chunk size, budget
and set of frames, and whatever the transport takes of each write, every
invariant that the two `send` runs check:

- `FramesStayWhole`: `FramesLeaveWhole`; `PendingStaysExact`: `PendingIsExact`;
  `FragmentStaysAhead`: `FragmentAhead`; `PreparedControlIsQueued`:
  `PreparedControlQueues`; `SendStaysBounded`: `SendBounded`.

A write may finish the head of the queue, which stays in the ring until the next
pass. `SendInv` therefore speaks of the queue as `advance_tx` would leave it. Of
that queue it says that only the head has been begun (`Waiting`), that the peer
holds exactly what has been sent of the head (`Met`), that identities are in
order (`Ordered`), that queued and arrived frames are the accepted ones (`Accounted`), and
that a chain of fragment states leads from the peer's state to `tx_fragment`, one
link per node, each link a header the peer accepts (`Chain`). The chain is what
makes a frame that `queue_frame` validated against `tx_fragment` acceptable to a peer
that has yet to see everything before it; a ping pushed in front of it leaves the chain's
states as they are. `tx_chunk` is bound to the head: what it holds is a part of the head's payload,
masked for its place (`ChunkIsHeads`). That fact survives until the
chunk is sent because no call replaces a head that has been begun. `FragmentAhead`
computes the last link by recursion over the queue; the proof is an induction
over the length of the queue (`SetInduction`, from the least-number principle of
`WellFoundedInduction`). The assumptions are `SendAssumption`,
`LengthAssumption` and `KeyAssumption`.

`HandleProofs` proves, for any number of handles and any layout of memory:

- `CallbacksStayNested`: `CallbacksNest`; `InUseStaysSafe`: `InUseIsSafe`;
  `QueueStaysSafe`: `QueueIsSafe`.

`HandleInv` says what can be in progress: nothing, one call, or `gen_mask` for a frame
that `on_frame` prepares (`Nesting`). It ties `callback_depth` and each
`callback_state` to that, and says that the checks `prepare_frame` made are still
true when `gen_mask` returns (`PreparedStaysAllowed`): they were made before a callback and are relied on after it.
`RingsFit` and `SlotsHold` say that live rings lie apart and that each queued slot
holds a node whose payload is outside the connection and its ring.
`HandleInvProofs` states the invariant and holds the lemmas it needs: the arithmetic
of slots and ranges, and the shapes the stack of calls can take. `HandleProofs` shows that
every step keeps it. `CallbacksNest` counts with `Cardinality`; no more than two
callbacks are ever in progress, so the counts are read off its definition (`SmallCounts`).
`HandleAssumption` places each connection below the last address, and nothing else.

`PublishProofs` proves, for any number of jobs, records, contracts and suites,
all that `publish` checks:

- `PublishAlwaysConverges`: `PublishConverges`; `BranchStaysWhole`:
  `BranchIsWhole`; `RecordsAlwaysStay`: `RecordsStay`.

None of them is inductive: they speak of a finished publish and of the branch,
and the hazard lies in what an attempt that was cut off leaves in the checkout. `PublishInv`
says for each job that its checkout differs from what it fetched only in the
two files of its own record (`Follows`), that the suites before the current one
are published (`Published`), and that what `publish` read and computed before its
first write is still true at each later write (`Underway`): the record and
contract files are missing or right, `entries` sorts the records that will be
there, and `latest` is the first of them. A pushed history is therefore as good as
the one it was fetched from (or the empty one of a failed fetch), which is why `GoodHistory` holds for the branch and for
every base. That a strictly sorted list of the entries exists (`SortedExists`)
is an induction over their number, and rests on the sort key determining the
entry: the date fixes the year, and the year and the ID the path. `RecordAssumption`
(records have an ID, a date and a contract), `SuiteAssumption` (suites have directories of their own) and `FileAssumption` (a
missing or torn file is none that was written) are the assumptions.

Liveness (`FramesEnd`, `EveryFrameLeaves`, `ClientsComeToAnEnd`) is out of the
prover's reach and stays with TLC. So do the lint modules: their resolvers are
RECURSIVE operators over type trees. The properties of `FrameCodec`,
`HandshakeEnd`, `HeaderToken`, `EchoSample` and `EchoServer` are checked by TLC
only. For `EchoServer` an inductive invariant has to follow every field of a client
through every handler, which makes a proof more than twice as long as the longest here.

## Plan

1. `Link`: `ZslaySend` of one endpoint feeding `ZslayRecv` of the other, refining a
   channel that delivers queued messages in order. Today the peer of `ZslaySend`
   stands for the receiver.
2. Proofs for `EchoServer` (any table size and any script).

## Not modelled

- **Library.** UTF-8 validation is a flag of a close payload. Null pointers and
  arguments out of range only make an entry point refuse. Sizes, alignments and
  the ABI version are constants.
- **Echo server.** SHA-1 and base64 are fixed arithmetic; the server's own self
  test compares them with the RFC's example. A request is valid or not:
  `header_value` and the order of the header checks are left out, and so are
  argument parsing and socket set-up.
- **Scripts.** The validators, `compare` and the percentiles are pure functions of
  what they are given; `render_readme` formats a page. `src/bench.zig` divides a
  clock difference by a count.
- **Lint plugin.** Twelve rules are patterns over the syntax around one node or the
  references of one variable, which a model would only repeat.
  `no-widen-then-assert` decides by source positions and by the text of two
  types, which the trees here do not have. Of the modelled rules, conditional types with `infer`,
  the wording of messages, and the search for the function a call or a return
  belongs to are left out.
- **Tooling.** The script that copies the plugin and the hook that puts a
  reminder in front of a session's first shell command.
- Tests and build files are read for intent only.
