# Formal model of debitmetre

debitmetre is a transparent metering proxy in front of the Codex backend. Callers send
requests under `/v1` with a meter key; the gateway forwards them to one fixed upstream,
streams the response back unchanged, and appends one audit record per metered request to a
JSONL file, which `debitmetre summary` aggregates. This directory holds TLA+ modules that
model it, TLC runs on small instances, and TLAPS proofs for all instances.

Paths below are relative to the repository (`src/src/lib.rs` is the crate's `src/lib.rs`).

## 1. Inventory

| Component | State | Operations | Talks to |
|---|---|---|---|
| Token accounting (`usage.rs` 537-640) | none (pure) | `extract_raw_usage`, `canonicalize` | called by the observer |
| Response observer (`usage.rs` 281-535) | the mirrored body, the parsed result | `push`, `finalize`, `parse_mirror` | pushed to by the pump, read by `record_audit` |
| Declared-effort observer (`usage.rs` 160-279, `lib.rs` 534-586) | mirrored request bytes, parsed flag, effort; behind a mutex | `observe`, `finish` | fed by the upstream connection polling the request body; read at finalization |
| Relay (`lib.rs` 305-532, 588-629) | handler future, pump task, bounded channel of 16, drop notification | `send().await` and its branches, the pump loop, `select!`, finalization | upstream (reqwest), server (hyper), audit writer |
| Audit writer (`usage.rs` 642-732) | bounded queue of 2048, one-shot warning flags, the open file | `start`, `try_record`, the writer thread, `drop` | offered to by every lifecycle; appends to the usage file |
| Usage-file reader and summary (`summary.rs`) | totals per machine and model, per effort, coverage, warnings | `read_usage_file`, `accumulate_usage`, `render` | reads the file the writer may be appending to |
| Authentication, routing, headers (`lib.rs` 85-303) | machine keys, fixed upstream base | `router`, key lookup, URL check, header stripping | in front of the relay |
| Startup, configuration, shutdown (`config.rs`, `main.rs` 133-336) | configuration, listener, server task, signal | `load`, open the file, bind, serve, drain, return | owns the gateway, its runtime and the writer |
| Command line (`main.rs` 83-183, `smoke.rs` 105-168) | none | `parse_args`, `parse_smoke` | starts one of the three commands |
| Mock load smoke (`smoke.rs`) | workspace, mock upstream, gateway child, samples | spawn, wait, load, reconcile, clean up | drives a gateway process and an external load generator |

What is hard here, and what would make it wrong:

- **The end of a response body.** The pump, the server's drop of the body and the
  notification race; who is first decides between `completed` and `client_cancelled`, and
  the sender must be dropped neither too early nor too late.
- **A full channel.** The pump waits with a chunk it has already mirrored; the caller may
  leave there.
- **A silent upstream.** Only the stored permit of the notification can end the lifecycle.
- **Dropped futures.** A handler dropped at `send().await` leaves nothing behind.
- **Terminal events.** Several in one stream, with, without or with malformed usage, followed
  by bytes that do not decode.
- **Fallback names and checked arithmetic** of the token counters.
- **A fail-open writer.** Drops under load, short and failed writes, crashes inside a line,
  restarts over the same file.
- **The end of the process.** The server task ends when its connections do; pump tasks are
  detached, requests still arrive on kept-alive connections after the signal, and a stuck file
  system must not hold the exit up.
- **Paths and headers that are not what they seem.** Dot segments that the URL parser resolves
  after the operation was decided, several key or `Connection` lines, unreadable ones.
- **A harness over processes it does not control.** The port it picked may be taken, the gateway
  may still be starting when the run gives up, records may come after they were counted, and the
  load generator may report anything.

`PROJECT.json` lists these as hazards, each at its line, with the properties about it or the reason
why none is.

## 2. Modules

| Module | What it is |
|---|---|
| `Accounting` | counters and quality of one usage object; pure operators |
| `Observer` | a response body to its audit facts; pure operators (extends `Accounting`) |
| `Delivery` | abstract specification: in-order, gap-free, bounded delivery of a body |
| `Lifecycle` | abstract specification: what one request looks like to the rest of the process |
| `Relay` | one accepted request from `send()` to its record (extends `Observer`, implements `Delivery` and `Lifecycle`) |
| `UsageFile` | what the summary counts in a file that may hold torn lines; pure operators |
| `AuditWriter` | queue, writer thread, process and file (extends `UsageFile`) |
| `Summary` | one pass of `summary` over a file that is being appended to (extends `UsageFile`, `Accounting`) |
| `Config`, `Routing` | the configuration file; the verdict on a request; pure operators |
| `Gateway` | one process: startup, connections, a `Lifecycle` per request, one `AuditWriter`, shutdown (extends `Routing`) |
| `CommandLine` | argument lists; pure operators |
| `Smoke` | the smoke command (extends `CommandLine`) |
| `ObserverProofs`, `RelayProofs`, `AuditWriterProofs`, `SummaryProofs`, `GatewayProofs`, `SmokeProofs` | theorems and proofs about the module of that name (`ObserverProofs` about `Accounting` too) |
| `MCObserverProofs`, `RoutingProofs` | theorems about the specifications of `MCObserver` and `MCRouting`, which run the pure operators |
| `MCObserver`, `MCRelay`, `MCSummary`, `MCRouting`, `MCGateway`, `MCSmoke` | small instances for TLC; `AuditWriter` needs none |

Definitions keep the names of the source where there is one (`canonicalize`, `parse_mirror`,
`record_audit`, `try_record`, `write_loop_recv`); `map` in `PROJECT.json` gives the lines.
Operators named `X_something` next to an operator `X` are plausible bugs: each is substituted
for `X` to show that some property notices.

**Accounting.** A JSON object is a function from (dotted) member names to values; whatever is
not an integer in `0..MaxU64` is "not a counter". `FirstPresent` and `FirstCounter` are the
two fallback rules of `extract_raw_usage`; `checked_add` and `checked_sub` keep the width.

**Observer.** A chunk is described by what its bytes add to the body at their place: the SSE
events completed within it, whether the body still decodes, and what the body so far is as one
JSON object. `parse_mirror` runs `observe_event` over the events (`observe_events`, the loop as a
recursive function) and then concludes in the three ways of the code: a terminal event, SSE without one, JSON. The UTF-8 behaviour of
`eventsource-stream` (events before the undecodable byte are emitted, then it stops) is the
library's and is marked external.

**Relay.** Variables are grouped by actor:

| Code | Model |
|---|---|
| the handler's future at `send().await` | `head = "sending"`; `SendOk`, `SendErr`, `DropHandler` are its three exits |
| spawned pump: `stream.next().await` / `tx.send().await` | `pump = "next"` / `"send"`, the chunk in `inhand` |
| outcome settled, `drop(tx)` | `Leave`: one step, there is no await in between |
| `finalize`, `finish`, `record_audit` | `Finalize` |
| `mpsc::channel(16)` | `chan`, `txOpen`, `rxOpen`, `Capacity` |
| `Notify` with its stored permit | `permit` |
| hyper polling, ending or dropping the body | `ServerPull`, `ServerEof`, `ServerLengthReached`, `CallerGone` |
| `RequestMirrorStream` | `ForwardRequestChunk` |

Steps between two awaits are one action, which is how a task of the runtime interleaves with
others. `select!` polls its branches in random order, so when both are ready either may win.
A response either announces its length (`framing = "length"`: the gateway passes
`Content-Length` on, and hyper drops the body once that much is written) or is chunked. A response
without a body (to `HEAD`, or a 204 or 304) is one of length 0: hyper drops its body unpolled, so its
record may be `client_cancelled` like that of any announced length.
`pulled`, `received` and `records` record what happened and are never consulted by the actors, except that
the HTTP client and server compare the amount relayed with an announced length.

**AuditWriter.** The line of a record is three pieces (two halves of the JSON text and the
newline), so a write can stop short inside the text or just before the newline. `start` keeps
the content of the file, `kill` and `exit` lose the queue and the rest of the current line.
`try_record` and the warning after a refused record are separate steps, because tasks
interleave between `try_send` and the atomic swap in `warn_once`. Records, failures, crashes and exits are bounded
by `Record`, `MaxFails`, `MaxKills` and `MaxExits`.

**Summary.** One turn of the loop of `read_usage_file` is one action: `read_until` returns at
a newline or when the file has no more at that moment, so a turn is atomic with respect to the
gateway's writes. Records have the facts the tables need, with usage of the counters' type (in the run, as `canonicalize` makes it).
The gateway's side is reduced to what a reader can see: lines in several writes, each possibly
left unfinished (`AuditWriter` has the causes). `read_fails` is the error return of the open and of
every read. `MaxLines` bounds the lines.

**Lifecycle.** A request is where its task is (`sending`, `pumping`, `closed`, `over`), what its
caller knows (`waiting`, `served`, `left`) and how many records were attempted. Each step is the
set of states it leads to, so that `Gateway` can apply it to one of several requests and combine
it with a step of the writer. The mapping from `Relay` is `lifeBar` at the end of `Relay`.

**Config, Routing.** A path is the sequence of its segments, and `Resolve` is the URL parser's
treatment of dot segments (external); `path_is_preserved` compares its result with the candidate
as the code does. `pass_on` is the loop over header lines, in both directions. A digest is the key it was made from and how it is written, so different keys
never share one. Header lines are in the order in which `HeaderMap` iterates them, which keeps lines
of one name together (`Grouped`) and need not be the order on the wire; `pass_on` keeps that order and
the multiplicity. After the fixed origin a path begins with a slash, so that the URL always parses and
keeps its origin: those two error returns of `route_v1` cannot be reached and have no step.

**Gateway.** `gw` is how far `run_gateway` is, `server` the spawned server task, `conn` the
connections, one request each. `build_gateway` and `W!start` are one step, as are a record's offer
(`W!try_record`) and the lifecycle step it belongs to. `RuntimeDrop` is what happens after `main`
returned: tasks are dropped where they await. `RunsToCompletion` is the one thing the code does
against losing records there: from `drop(tx)` to `record_audit` nothing is awaited that is not
ready (the parse reads from memory), so a worker that is in between finishes first.

**CommandLine, Smoke.** `ParseArgs` is `main`; the steps of `run` up to the spawned gateway are
one action each, and `StepFails` is the `?` of all of them. `Return` leaves `run` and lists the
guards to drop, in the order Rust drops them. The child goes through the startup order of
`Gateway` and may die anywhere; `holder` says who answers on the port; `Reports` are the
documents oha may print. A usage file that cannot be read counts as too few records while `run` waits
(`AuditShort`) and is an error at the second count (`Reread`). `remove_dir_all` is two steps, because a starting gateway can create its
usage file in between.

## 3. Runs

Passing runs:

| Run | Checks | Bounds and why they are enough |
|---|---|---|
| `metering` | buckets add up and `inconsistent` is marked iff the cache buckets exceed the input; no counter is invented or lost to the wrong name; the one-pass parse agrees with definitions over the whole body: last usage wins, incomplete is sticky, later chunks never lose a usage | objects of up to 3 members over all names, values up to and beyond the width (three members are what the input basis relates); bodies of up to 3 chunks: each pair of terminal events, in each order, with something before, between or after |
| `relay` | order, faithful ends, truthful outcomes, cancellation, terminal usage, one record, effort, `RelayInv`, refinement of `Delivery` and of `Lifecycle` | capacity 2 with 4 chunks: a channel that is empty, full, and full with a chunk in hand; four requests and five response heads, two of them without a body |
| `relay_live` | the end of the body does not wait for finalization; a caller that leaves is recorded though the upstream is silent; every metered lifecycle is recorded | capacity 1, 3 chunks of two kinds: the channel is full with a chunk in hand |
| `writer` | file order, nothing vanishes, bounded loss, explained damage, counted stays counted, accepted is settled | 4 records, queue of 2, two failed writes, one crash, one exit: the queue fills, drops two at once and drains, and lines are torn by each cause |
| `summary` | both tables and the coverage are the totals of what was read, nothing finished is missed | 3 of 5 records, each possibly torn at each place, while the file is read: two saturate together, one lacks the input details, one has no usage, one is of another schema |
| `routing` | attribution, metering by what the upstream is asked for, header policy | paths of up to `MaxSegments` of 8 segments: a dot segment before, between and after real ones; up to `MaxKeys` key lines and `MaxHeaders` header lines: two `Connection` lines and a line they nominate |
| `gateway` | nobody is cut by a successful exit, an ended stream was offered to the writer, startup fails closed, finalization never waits for the writer, a signal ends the process | two connections and a queue of one: one request ends while the other is under way, and the queue is full when the second record comes; failed writes are left to `writer` (`MaxFails = 0`) |
| `smoke` | PASS means reconciled, nothing is left behind, a run ends, arguments are honoured | up to 4 arguments after `smoke`: two options with values, repeated or broken anywhere; up to 3 requests where 1 or 2 are asked for: one too few, exact and one too many |

`CHECK_DEADLOCK FALSE` is set because a lifecycle, a body, a file of finitely many records,
a gateway that was told to stop and a smoke run really end.

Runs that refute a sentence of the documentation or of a comment (`findings` quotes it):

| Run | What the counterexample shows |
|---|---|
| `observer_header_model` | a body that is neither SSE nor JSON records no model although the header names one |
| `relay_cancelled` | with a `Content-Length`, a caller that received everything can be recorded as `client_cancelled` |
| `relay_early_cancel` | a caller that leaves before the response head leaves no record |
| `writer_crash` | the first record after a torn line is glued to it and not counted |

**Fairness.** The liveness of `relay_live` is checked under `PolledSpec`, which assumes only
`PumpScheduled` (tokio polls a task that was woken), and names what else it needs as its premise.
`FinalizeReturns`: the parse of the mirror awaits nothing external; `EndReachesCaller` does
without it on purpose, because the caller must not depend on it. `CallerReads`: the caller
keeps reading, so hyper keeps polling the body; a premise only where the property is about
such a caller. `UpstreamEnds`: the upstream answers and its body ends; a premise of
`LifecycleIsRecorded` only, since the gateway sets no timeout and a silent upstream with a
patient caller does last for ever. `WriterScheduled`: the writer thread runs and the file
system answers, successfully or not. `relay_early_cancel` is refuted under all of them
(`FairSpec`). In `Gateway`, `RuntimeScheduled` is tokio polling the tasks it woke, and
`RequestsEnd` is what a graceful drain waits for anyway (upstreams end, callers read, hyper closes
connections that are idle during a shutdown); nothing at all is assumed of the writer thread, which
is the point of `FailOpen` and `DrainEnds`. In `Smoke` the harness runs, clocks reach deadlines,
polls are answered by whoever has the port, and oha exits: the code bounds neither of the last two
(`wait_ready` looks at its deadline between polls only), and nothing is assumed of the gateway.

Two limits are stated in the model rather than refuted, since the documentation leaves room
for them. An upstream error ends a chunked response like a complete one (`ServerEof`: the
channel's error type is `Infallible`), so `EndIsFaithful` promises only that nothing the
upstream yielded is missing. And a cache bucket above the input total is marked `partial`, not
`inconsistent`, while the other bucket is missing (`canonicalize`), so
`OverfullIsInconsistent` speaks of fully reported inputs.

What the models show the code does not promise, and the properties therefore leave out:

- The exit of the process does not wait for the writer thread: what is queued when the runtime is
  gone may be lost. `EndedIsOffered` is about the offer, `AcceptedIsSettled` about a process that
  stays.
- At a graceful shutdown, a request whose caller left, or whose body had an announced length, can
  lose its record: its connection is closed before its pump has finished, and the runtime drops the
  pump. For a stream of unknown length, which model answers are, this cannot happen.
- A signal between the bind and the first poll of the `select!` has its default effect (`Kill`) and
  cuts the requests under way; no property covers that hazard.
- Paths are compared as they are forwarded: `%72esponses` is another path than `responses` to the gateway and is forwarded unmetered; whether
  the upstream treats them alike is not for this model. The caller's query is passed through the
  URL library, which re-encodes some characters.
- Two digests may map to one machine, and a digest of a key with non-ASCII bytes is accepted though
  no request can present it (`to_str`). An unreadable `Connection` line nominates nothing.
- A smoke run that is killed by a signal runs no destructor and leaves its gateway and workspace.

## 4. Proofs

Every invariant below that is called inductive was first checked by TLC as an invariant of the
instance of its run.

**`ObserverProofs`**, about `Accounting`, for every `MaxU64` and every usage object: `RawType`,
`BucketsOfAnyObject`, `OverfullOfAnyObject`. The argument goes through `UncachedIsExact`: the
derived bucket is the exact difference, and missing exactly when the cache buckets exceed the
input, with the case that their sum does not fit a counter treated apart.

And about `Observer`, for every body of any number of chunks and events: `ParsedBody` (what
`parse_mirror` concludes) and `GrowthKeepsUsage` (a metered usage outlives any further chunk). The
loop is a recursive function; `NatInduced` is induction over a *set* of naturals, from the
well-foundedness of `<`, and serves where a rule with a predicate parameter could not be
instantiated. `LoopRuns` gives the loop's successive values, `LoopFacts` the loop invariant (what
was seen so far is what the first `n` events say), `LoopUsage` compares the end of it with the
definition over the whole body (`FinalUsage`, the largest index among the terminal events with
usage).

**`MCObserverProofs`** carries this to the properties of the run `metering`, for any number of chunks
of the kinds in `MCObserver`, any width and any object over the known names: `LastUsageCounts`, `LifecycleOfAnyBody`,
`AccountingOfAnyObject`, `CountersOfAnyObject`, and the action property `UsageOutlivesGrowth`. The
inductive `MirrorInv` says what the mirror may hold and that a result is the parse of it.

**`RelayProofs`**, for every chunk set, request set, response set, capacity and number of chunks:

- `TypeCorrect`: `TypeOK`, which bounds the channel.
- `Invariance`: `TypeOK /\ RelayInv`. None of the properties is inductive alone. `PhaseInv`
  says how handler, pump, channel ends and caller agree (for example, the sender is alive
  exactly while the pump loops); `OrderInv` places every chunk (given, in the channel, in
  hand) and keeps pointwise agreement after the body was dropped; `EndInv` relates the pump's
  local outcome to the end of the stream and to the caller; `RecordInv` says that the record is the
  one due for that outcome and the mirrored body, and `EffortInv` ties the effort to the phases.
  Each part has a step lemma with one case per action.
- `InOrder`, `FaithfulEnd`, `OneRecord`, `CancelledIsAbandoned`: the safety properties of the
  same names in the runs, from `Invariance`.
- `TruthfulOutcome`, `RecordedUsage`: the same with what `ObserverProofs` shows of the parse.
- `EffortFaithful`: the action property about the declared effort.
- `Refinement`: `Spec => D!Spec`, by `DeliveryInit` and `DeliveryStep` under the mapping at the
  end of `Relay`; mirroring, parsing and recording are stuttering steps of `Delivery`.
- `LifecycleRefinement`: `Spec => L!Spec`, by `LifecycleInit` and `LifecycleStep` under `lifeBar`. It
  is what entitles `Gateway` to run a `Lifecycle` per request instead of a `Relay`: chunks are
  stuttering steps, a caller learns of the end before the body is closed only if its length was
  announced, and the record is attempted once, after the body is closed. The step lemma uses
  `Invariance` (the phases and the number of records).

**`AuditWriterProofs`**, for every record set, queue capacity and number of failures, crashes and
exits: `TypeCorrect`, `NothingLost`, `FileInOrder`, `BoundedLoss`, `ExplainedDamage` and the action
property `CountedStays`, all from the inductive `WriterInv`:

- `QueueInv`: the queue is the end of what was accepted, and the current line is that of the last
  record taken from it, so a position in `accepted` stands for the progress of the thread;
- `SettledInv`: what is written or failed is exactly what the thread is done with;
- `OrderInv`, `CurrentInv`, `WholeInv`, `ChainInv`: how the pieces in the file stand to each other:
  in the order of the queue, the current line at the end, a written record whole and in one place,
  no piece without the one before it;
- `BreakInv`: torn lines are counted by the places where the file breaks off inside a line. This is
  what makes the two bounds provable: each written record that is not counted, and each
  unparseable line, is mapped to a break of its own, and injections compare the cardinalities.

**`SummaryProofs`**, for every set of records with any facts, every counter width and a file of any
number of lines: `ExactTotals` and `CompletePass`, from the inductive `SummaryInv`. Neither property
is inductive alone:

- `FileInv`: a line is begun once, so the file holds at most one head of each record, and a record
  met on a new line was not counted before;
- `ReaderInv`: the reader stands between two lines until it has met an unfinished one, so a line is
  judged by the pieces it read and not by a part of them;
- `OpenInv`, `WarningInv`: what was finished at the opening still is, and is counted at the end; the
  warnings are those of the text read.

`OneMoreLine` is the heart of it: read one line further, every earlier line is counted or unparseable
as before, and the new one is judged as in the whole file, whatever is appended later. On the side of
the totals, `CellStep`, `RowStep` and `RowsStep` show that `add`, `accumulate_usage` and the table
take up one record more as the reference definitions do. A cell of those is the number of tokens as
a cardinality (a set of record and number pairs, cut off at `MaxU64`), so it needs no recursion and
no order; saturating after each record and once at the end come to the same.

**`GatewayProofs`**, for every set of connections and every queue capacity: `NoCallerCut`,
`StreamsAreRecorded`, `ClosedByDefault` and `NeverBlocked` from the inductive `GatewayInv`
(`PhaseInv`: the writer and the connections live only within certain phases of `run_gateway`;
`ConnInv`: nothing is owed on a closed connection; `RecordInv`: when a record was offered). And
`WriterRefinement`: `Spec => W!Spec`, so that what is proved of `AuditWriter` holds of the writer
inside the process; the prover cannot cite those theorems through the instance, so they are not
restated. `NeverBlocked` is the safety part of `FailOpen`: what stays with TLC is that a scheduled
step is taken.

**`SmokeProofs`**, for every set of reports and argument list: `PassIsEarned`, `CleanExit`, from the inductive
`SmokeInv`: which guards `run` owns at each step and which of them are left while it returns
(`OwnedInv`), and where the numbers behind a verdict come from (`CountInv`). And the action property
`ArgumentsHonoured`, for argument lists of any length: both walks are recursive functions, and
`SmokeKnows` and `MainKnows` say by induction what they know after `n` arguments (the values given so
far and whether one is due, or an error). `SmokeParsed` and `MainParsed` compare the end of the walk
with the definitions over the whole list; `PathNext` is what the second needs of them, that the
arguments after an odd run of `--config` are exactly the ones a walk takes as paths.

**`RoutingProofs`**: `HeaderPolicy` and `PathPolicy` are about header lists and paths of any length.
The first is by induction over the lines (`PassOneMore`: what one line more adds does not depend on
the others; `PassFilters`, `PassAll`, `PassTwice`). The second is by induction over the segments
(`ResolveFixes`: a dot segment before the end makes the path shorter for good, one at the end leaves
an empty segment, and without any each segment keeps its place, so that the comparison in
`path_is_preserved` finds every rewriting). `ExactAttribution`, `NoWayAround` and `HeadersAsPolicy`
state the properties of the run `routing`, for any `MaxSegments`, `MaxKeys` and `MaxHeaders`, from
the inductive `RoutingInv` (a verdict is the router's for the configuration and request at hand).

Assumptions used, all of them `ASSUME`s of the modules that TLC evaluates in the runs: `Capacity`
and `QueueCapacity` are positive, the bounds are naturals, response heads have their fields, a
request without chunks declares no effort, a chunk's events are a sequence, reported successes,
numbers on the command line and the defaults are naturals, arguments are strings, a record's usage
is missing or of the counters' type (`FactsAssumption`), `Base` has no dot segments, and `None` and `Malformed` are no values of the types they are
told apart from (`NoneAssumption`, `OptionAssumption`, `ObjectAssumption`).

Every invariant and every action property of a passing run is stated by a theorem. Only
model-checked are liveness and fairness, all of section 3's `~>` and `<>` properties, which are out
of the prover's reach. The sentences of the documentation that the four violation runs refute are
of course not proved.

## 5. Not modelled, and the plan

Not modelled: log lines, error wording and report layout; RSS sampling of the smoke command; TLS;
the query string; SHA-256 itself; clocks and event ids; memory use of the mirror; a failing
serialization of a record, which its type excludes; the smoke options `--delay-ms` and `--oha`, while
`--concurrency` stands for `--response-bytes` too. A request chunk of mere white space after the
document, which the effort observer would not miss, is left out too. A connection of
`Gateway` carries one request (a second one on a kept-alive connection is another connection that
was already accepted), and one process at a time writes to the usage file. What tokio, hyper, axum,
reqwest, `url` and `eventsource-stream` do is modelled from how the code uses them and marked
external in `map`.

Work left: two processes appending to one usage file, a hazard of `PROJECT.json` without a property
(it needs interleaved writes of two writers in `AuditWriter`), and a refinement between the gateway's
side of `Summary` and `AuditWriter`, which would let `CompletePass` speak of the writer's own steps.
