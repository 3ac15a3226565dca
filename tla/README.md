# Verification of wrela's concurrent and durable parts

wrela is a compiler for whole-system images: it turns a package of wrela source
into a UEFI image for `aarch64-qemu-virt-uefi`, and its `test` command boots
such an image under QEMU, listens on the serial line and reports which tests
passed. This directory holds TLA+ models of the parts of the program in which
processes, threads, machines and crashes really interact; the TLC configurations
that check the models on small instances; and proofs, checked by TLAPS, that every
safety result of those runs holds for every instance.

    cd tla
    tlc -workers 2 -config slip_link.cfg MCSlipLink    # one run
    tlapm TargetRuntimeProofs.tla                      # one proof module

`PROJECT.json` lists components, runs, mutants, the map from definitions to
source lines, hazards, findings and theorems.

## 1. The system

### Parts

| Part | State it keeps | Operations | Why it is hard |
| --- | --- | --- | --- |
| Target runtime (`runtime.S`) | state words of one image: runtime state, event sequence, declared/started/passed counts, active test, terminal event; a record/replay log with two cursors | `image_enter`, `test_emit`, `test_assertion_fail`, `fatal`, `test_finish`, `image_exit`, `record_event`, `replay_event` | the serial line may stall at any byte; failing paths send several frames and commit afterwards; limits of events and of the log |
| Generated harness (`wrela-semantic-lower`) | its position in a fixed list of calls | calls the runtime around each test body | frames are encoded at compile time, failures at run time |
| Serial transport | sender position; two decoders, each with a mode and an open segment | `.Lslip_send`, `decode_slip`, `LiveSerialObserver` | firmware shares the line; two decoders must agree |
| Test event protocol (`wrela-test-protocol`) | `StreamState` | `decode_and_verify_stream`, `observe` | the legality of an event depends on a dozen fields |
| Host report (`wrela-test-runner`, `wrela-test-model`) | cases, counts, the sealed report | group check, `collect_cases`, `summarize`, `validate_image_events` | four passes must agree; crash and timeout leave prefixes |
| Local executor (`local.rs`) | child, two reader threads, shared budget and flag | `run_program`, `reserve_output`, `terminate` | lock-free budget; exit, deadline, cancel and budget race |
| Scenario session (`local.rs`) | bounded channel, reader and writer threads, observation floor, QMP socket | `drive_scenario`, `pump`, `finish`, `abort`, `request_qmp_shutdown` | back pressure, stale status, deadlines, a monitor that dies |
| Backend process (`local_build.rs`) | child, writer and two bounded readers, private directory | `run_backend_process`, `execute_backend` | three pipes, four ends of the wait |
| Engine protocol and engine (`wrela-driver/engine.rs`, `wrela-compiler/engine.rs`) | sequence numbers, a half-transferred tree, a staging directory, one atomic for completion or late cancel, response quotas | request, tree, late-cancel and response streams; `Stage`; `execute` | frames out of order, partial staging, late cancel racing completion |
| Artifact cache (`wrela-compiler/cache.rs`) | an entry file and staged files in a directory shared by processes | `load`, `store`, `resolve_flow_wir_frame`, deferred stores | replacement between checks, kills and power loss |
| Output publication (`local_build.rs`, `local_test.rs`) | staged and destination names | `publish_build`, `publish_report` | two builds into one directory, failures halfway |
| Format (`local_format.rs`) | lock, staged and rollback files | `publish_changed_sources` | editors, other formatters, failures and kills between two files |
| Incremental analysis (`incremental.rs`, `wrela-hir-lower`, `wrela-sema`) | the last complete revision; snapshots | `analyze`, `restore`, `lower_tracked`, `derive_change_set`, `analyze_tracked` | a reused record or fact may be stale |
| Package loading; toolchain verification; doctor, lint | snapshots of inputs | read, verify | inputs change while they are read |
| The compiler proper (source, syntax, HIR, sema, the WIRs, flow optimisation, machine lowering, LLVM, LLD) | none beyond one call | pure passes over program representations | size, not concurrency |

### How they interact

    generated harness --calls--> runtime.S --bytes--> PL011 --> QEMU stdout
                                    ^  firmware writes to the same line
    QEMU stdout/stderr --pipes--> reader threads --> run_program | drive_scenario
                                                       |            |
                                                       |      LiveSerialObserver, QMP
                                                       v
        decode_slip -> decode_and_verify_stream -> group check -> collect_cases
                    -> summarize -> validate_image_events -> TestReport::passed

    test:   incremental analysis -> backend process -> run_program -> publish_report
    build:  analysis -> cache load -> backend process -> publish_build -> cache store
    engine: client --frames--> CheckRequestStream -> Stage -> execute --frames--> client
                 --late cancel--> LateCancelStream --atomic-->  ^

The guest and the host share only the bytes of the line. On the host the readers
and the caller share an atomic counter, an atomic flag, and for a scenario a
bounded channel. Two commands share only files. A cancellation callback is polled
everywhere.

### What makes each part correct

- Transport: a decoder holds exactly the frames that were sent completely,
  wherever the line stalls and whatever firmware writes around them.
- Runtime: the line carries a gap-free numbered stream; success is reported only
  when it was earned; nothing follows a failure but its terminal event. A replay
  is a prefix of what was recorded and says whether it is all of it.
- Host: exactly the well-formed streams are accepted; the passes agree; a report
  that passes describes a run in which every test passed.
- Executor, session, backend: limits hold, output is never used truncated, every
  call returns, and nothing is left running.
- Engine: a sealed tree is the one the request declared; both sides agree on one
  terminal verdict; a cancellation answered as taken does take effect.
- Cache, publication, format: a hit is what a fresh encoding would give; names
  hold whole files that belong together; a failure puts everything back.
- Incremental analysis: a warm answer is the cold answer.

## 2. The modules

| Module | Models | Extends / uses |
| --- | --- | --- |
| `FrameChannel` | abstract specification of the transport: one frame in flight, delivered whole or not at all | |
| `SlipLink` | sender and both decoders, one byte per step | refines `FrameChannel` |
| `TestEvents` | the events and the reference definition `WellFormed` of a stream | |
| `GuestRuntime` | the test entry points of `runtime.S`, called with anything | `TestEvents` |
| `HostReport` | the four passes over the decoded events | `TestEvents` |
| `TestRun` | harness, runtime, QEMU and host composed | `GuestRuntime`, `HostReport` |
| `ReplayLog` | the record and replay log of `runtime.S` | |
| `LocalExecutor` | `run_program` with its two readers | |
| `BackendProcess` | `run_backend_process` with its three threads | |
| `TestCommand` | one image group of `LocalTestDriver::test`: backend, then executor | `LocalExecutor`, instance of `BackendProcess` |
| `ScenarioSession` | `drive_scenario` and `InteractiveSession` | |
| `QmpShutdown` | `request_qmp_shutdown` against the monitor of QEMU | |
| `EngineRequest` | request and tree streams, and the staging of the tree on disk | |
| `CheckVerdict` | abstract specification: one verdict, one answer to a late cancel | |
| `EngineExecution` | execution, late cancel, response stream and client | refines `CheckVerdict` |
| `ArtifactCache` | one cache key, used by several builds | |
| `OutputPublication` | create-new publication of output files | |
| `LocalBuild` | `LocalBuildDriver::build`: cache, publication and deferred store composed | `ArtifactCache`, instance of `OutputPublication` |
| `FormatPublication` | `publish_changed_sources` | |
| `IncrementalSession` | the session and the two tracked producers it drives | |
| `*Proofs` | proofs about the module in the name; `ScenarioSessionProofs` also about `QmpShutdown`, `EngineExecutionProofs` also about `IncrementalSession`; `TargetRuntimeProofs` about `SlipLink` and `ReplayLog` | those modules, TLAPS |
| `MC*` | instances for TLC | the module named after `MC` |

An operator whose comment begins with "Mutant:" is a plausible wrong version of
the definition below it. It is used by nothing in the specification; put in the
place of that definition it must make a property fail.

### SlipLink

`Put` is one byte accepted by the UART (`.Lpl011_putc`). Both decoders are left
folds over the captured bytes, so their state after a prefix does not depend on
how far the pipe lags: every byte goes to both at once, and `EndOfStream` may
follow any byte. `PutTimeout` is the poll limit of the UART: it may strike at any
byte, and the sender transmits nothing more. `FirmwareByte` may happen whenever
no frame is on the wire; the firmware is not under `src/` and is modelled as an
arbitrary byte of `Noise`. Modes carry the names of the code's flags
(`bMode = "raw"` is `raw_segment`, `"preamble"` is output before the first END).
The CRC and the field layout of a frame are abstracted to membership in `Frames`.

### TestEvents, GuestRuntime, HostReport, TestRun

An event is a record with its sequence number. A message is `None`, the default
text or a user's text, which is what `AssertionFailed` and `TestFinished` are
compared on. `GuestRuntime` has one variable per state word of `runtime.S`.
A call of `test_emit` is one step, because it masks interrupts and sends one
frame; the failing paths take one step per frame, because the line may stall and
the host may stop the guest in between. `HostReport` advances the loops of its
four passes together, one event per step: each pass keeps only state of its own
and reads only the event, so the order between passes cannot matter until
`summarize`, where the order of the checks is the code's. An invocation without
events still goes through every check.

`TestRun` composes them. Its variable `origin` says, once and for all, who makes
the events: the generated `"harness"`, any `"code"` that calls the entry points
as it likes, or a free `"line"` that carries any event at all. So one state space
asks what the runtime guarantees of any caller, what the host guarantees of any
line, and what the two together guarantee of the program. The harness calls the
runtime in the fixed order of `encode_generated_harness`; a test body returns,
fails an assertion (only when it is the only test, as the lowering enforces),
faults on a shift, hits another fatal error, or hangs. QEMU shuts down, dies or is
stopped at its deadline, possibly inside a frame. The history variable `truth`
records how each body really ended; no guard reads it. The bytes below are
replaced by a channel of complete frames plus the flag `partial`, which is what
`SlipLink` is shown to implement.

### ReplayLog

Both entry points mask interrupts for their whole length on the only core that
runs, so a call is one step. A cell of `log` holds which byte of which event was
stored there last: a replay that reads at a wrong offset finds cells that are not
one event. A sum of the code that carries out of its register is one that reaches
`Word`; both places where it is tested are in `Fits`. The history variables `attempted` and
`starts` are read by no guard.

### LocalExecutor, BackendProcess, TestCommand

`LocalExecutor` has one action per atomic step of the readers (`read`, the load,
the compare-exchange with its spurious failures, the store of the flag, the
append) and of the polling loop (cancellation, flag, `try_wait`, deadline). Bytes
are counted. `result` includes the duration check that `run_all` applies to what
`run_program` returns. A reader that gave up closes its pipe, so the child writes
no more to it. Thread creation may fail; other errors of the operating system are
left out.

`BackendProcess` has a pipe of `PipeBytes` in each direction, so the child that
stops reading its request while it fills its own pipes is a reachable state. The
main thread polls cancellation, overflow, timeout and exit in the code's order;
the response is used only after the three joins, and the private directory is
removed last. `TestCommand` runs one after the other with one cancellation flag:
a backend that fails gives the group a failed result without a run, a cancelled
one ends the command.

### ScenarioSession, QmpShutdown

Output is a sequence of tokens, an expectation names one. The reader blocks on a
full channel (`Capacity`), the writer acknowledges, fails, or waits for a guest
that does not read. `pump` is three steps, receiving, finding the channel empty,
polling the exit, because the guest moves in between. Tokens in `Rejected` are
those at which the live observer fails. The budget shared with the stderr reader
is `LocalExecutor`'s subject; here the reader fails after `OutputLimit` tokens.

`QmpShutdown` is the request-shutdown step, which blocks the session: connecting
with retries, the greeting, the two commands with their replies, and the wait for
the exit. A message is two fragments, so a read may end inside one and the line
reader must keep what is left. QEMU is external and does what the code has to
wait for: it listens late or never, sends events, refuses a command, closes the
monitor or exits at any moment.

### EngineRequest, EngineExecution, CheckVerdict

In `EngineRequest` any frame of `Frames` may be delivered at any time, so a lost,
repeated or reordered frame is one whose sequence number is not the expected one.
A digest is the value it digests; a path is its place in the portable order.
Staging creates directories, files and bytes one by one, each of which may fail,
and `Drop` removes exactly what was created.

`EngineExecution` continues with a sealed request. The execution thread, the
control thread and the client share the atomic `completion` or the response
stream; the caller's `is_cancelled` is the flag `host`, and the client has a
cancellation of its own, which poisons its stream (`ClientCancelled`). Assembler and
client each count events, bytes and diagnostics against the quotas of the policy,
and the client the diagnostics that reject; an execution that was not cut off
answers with all its phases and then all its diagnostics (`VerdictIsWhole`). The
transport loses, repeats or exchanges up to `MaxFaults` frames. The refinement maps
`verdict` to the terminal the assembler sealed, or to `"Failed"` for an error
without one.

### ArtifactCache, OutputPublication, LocalBuild

A file is named by the process that made it. `ArtifactCache` separates the
identity check, the read and the second check of `load`, and the write, the sync,
the rename and the directory sync of `store`; an entry may hold anything in
`Foreign` and may be damaged in place; a power loss tears unsynced data and may
undo an unsynced rename. `OutputPublication` stages, links, unstages and reads
back each output; any failure after the staging removes staged and destination
names. `LocalBuild` puts them in the code's order, load, backend, publish, store,
for builds that share the output directory and the key, so that "a frame is
cached only after its publication succeeded" is a statement about both, and one
power loss strikes both.

### FormatPublication

The data of a file is `[text, formatted, file]`: the editor's version, whether it
is formatted, and who made the file (`MetadataSnapshot`: a renamed file has
another inode). Locks are taken in order, then every source is staged and gets a
rollback file, is revalidated, renamed, and put back when a later rename or sync
fails. Each of these is a step that may fail; a formatter may be killed between
any two; an editor writes whenever it likes.

### IncrementalSession

A source revision gives each declaration a content: what it calls, what it
evaluates at compile time, a literal, its visibility and how many HIR records it
lowers to. `LowerCold` and `AnalyzeCold`, what the passes compute from nothing,
are the reference; `lower_tracked`, `derive_change_set` and `analyze_tracked` are
modelled by their reuse decisions, the meter and the cancellation by failures
between the stages of a call. What a file or a declaration leads to, and what a
change affects, is a least closed set (`Closure`): the loops of the code run until
a round adds nothing. A new session may restore a snapshot that pairs the products
of different revisions.

## 3. The runs

| Run | Checks | Distinct states (about) |
| --- | --- | --- |
| `slip_link` | both decoders hold exactly the sent frames and agree on the captured bytes; the link refines `FrameChannel`; the inductive invariant | 5 300 |
| `test_run` | the runtime's own checks keep the stream dense and its terminal events truthful, whatever code calls it; `observe` accepts exactly `WellFormed` and the sealing validator never refuses what the others let through, whatever the line carries; the verdict of a harness is the truth and always comes | 524 000 |
| `replay_log` | a replay is a prefix of what was attempted, the end of it tells a complete log from one that lost events, the log never finds itself corrupt | 25 500 |
| `test_command` | budget and limits, complete output, nothing left behind, the order of the stages, the command ends; the inductive invariant of the executor | 336 000 |
| `scenario` | complete output, expectations met in order, nothing left, every session returns | 90 000 |
| `qmp_shutdown` | reads lose no message, success means the quit was taken, a failure has its cause outside the host, the step ends | 19 500 |
| `engine_request` | a sealed tree is exactly the declared one, an honest stream is taken, streams and staging stay in step, nothing is left | 1 400 |
| `engine_execution` | one verdict on both sides, the client accepts every sealed response, a taken cancel takes effect; refinement of `CheckVerdict` | 1 055 000 |
| `local_build` | the backend gets the right frame, durable and whole entries, outputs that belong together, a frame stored only after its publication, no name replaced | 2 465 000 |
| `format_publication` | sources whole and replaced under their lock only, originals recoverable, failed commits restored, every formatter ends | 76 000 |
| `incremental_session` | what is retained and answered is what a cold session would give; a failed call leaves the retained revision | 105 000 |
| `output_race` | the finding of section 5 | stops at the violation |

Every run but `incremental_session` says `CHECK_DEADLOCK FALSE`, because every one
of these systems ends: the stream is closed, the call has returned, the processor
is halted, the processes have exited. That they do not end too early is the
subject of `Decided`, `CommandReturns`, `SessionReturns`, `ShutdownReturns`,
`CancelTakesEffect` and `FormatterReturns`. A session of incremental analysis
serves requests for ever, and its run checks that it is never stuck.

### Bounds, and why they are enough

- `slip_link`: two frames, so that the state a frame leaves behind meets the next
  one; four noise bytes, enough for a broken magic and an escape code before,
  between and after them; a two-byte magic, so that it can be half matched;
  `FrameLimit` 5, which the longest frame fills exactly. The frames hold both
  escapes, an escape code as plain data and the magic repeated in the payload.
  The proofs remove all of these bounds.
- `test_run`: groups of one and two tests and an unplanned third one; counts one
  past the plan for code, two heartbeat times for the line. The event limits are
  exactly what a harness of two tests needs, so they strike inside failing paths
  of a free caller and one event after a complete run.
- `replay_log`: nine bytes, two for a header, hold the marker and up to three
  small events; payloads of 0, 1, 2 bytes and one whose extent carries past the
  word; four events, so that the log overflows before, at and after each of them;
  destinations smaller than, equal to and larger than a payload. The proofs
  remove these bounds.
- `test_command`: either process can write up to, at and past what is kept of it,
  in chunks of one or two bytes; a pipe holds less than the request and the output
  together; the clock passes the deadline by one tick.
- `scenario`: a channel of one chunk, so the reader blocks; four tokens against
  a limit of three; expect, send, expect, exit covers each kind of step and an
  expectation on either side of an answer.
- `qmp_shutdown`: three events against two messages a phase, reads of three
  fragments against messages of two, so both limits are met and passed and reads
  straddle messages.
- `engine_request`: one honest tree with a nested, an empty and a two-byte file,
  and six requests that misdescribe theirs in one respect each; record indices,
  offsets and sequence numbers reach one past the longest canonical stream. The
  proofs remove these bounds.
- `engine_execution`: quotas that the events reach exactly by count, by bytes and
  by diagnostics, and one beyond each; every kind of outcome of the preflight and
  of the check; an exact late frame and one with a stale sequence number, two of
  them; one transport fault, two frames in flight.
- `local_build`: two builds, of the same or of different frames, one of them over
  the entry limit; one damage, one crash or power loss, one failed operation of
  the publication. A third build would meet the same two states of a shared name,
  mine and another's.
- `format_publication`: two sources, so that one is committed and the next fails;
  two formatters; two failed operations, so that a rollback can fail as well.
- `incremental_session`: four declarations in three files, with sources that
  differ from one another in one literal, reference, visibility or size; two
  requests differ in package, graph or image identity.

### Fairness, and why the code justifies it

`TestCommand`, `LocalExecutor`, `ScenarioSession`: weak fairness of each thread
(the operating system schedules them) and of the clock. A compare-exchange that
keeps being possible succeeds in the end (strong fairness of `ReaderReserve`):
spurious failures are not permanent, and a reader competes only with the other,
whose reservations are finite. Nothing is assumed of a child, which may hang,
print for ever or never read, nor of the caller, who may never cancel; the
writer of a scenario is only assumed to fail once the child is gone.
`QmpShutdown`: the host's loop and the clock; its reads and writes carry socket
timeouts. `TestRun`: the executor's deadline, which `CommandReturns` supports, and
the host's loops, which are bounded; nothing of the guest. `EngineExecution`: the
execution and the control thread run; the transport and the caller may do
nothing. `FormatPublication`: each process that has not been killed runs, for it
never waits for a lock. Safety runs state no fairness.

## 4. What is proved

TLAPS checks every leaf, with Z3, Zenon and LS4. The theorems hold for every value
of the constants that satisfies the named assumptions of the modules; the bounds of
section 3 are gone.

| Proof module | Theorems | Assumptions |
| --- | --- | --- |
| `TargetRuntimeProofs` | `LinkInvariant`, `LiveObserverExact`, `BatchSound`, `BatchExact`, `DecodersAlwaysExact`, `LinkImplementsChannel` about `SlipLink`; `LogInvariant`, `LogSafeHolds`, `ReplayCorrect`, `FrozenHolds` about `ReplayLog` | `SlipBytes`, `MagicBytes`, `FrameShape`, `NoiseOutsideMagic`; `LogAssumption`, `NoneAssumption` |
| `TestCommandProofs` | `ExecutorInvariant`, `BudgetAlwaysKept`, `OutputAlwaysComplete`, `NothingEverLeftBehind`, `CommandInvariant`, `BackendAlwaysWaitedFor`, `CommandKeepsExecutor` | `ExecutorAssumption`, `BackendAssumption` |
| `TestRunProofs` | `RunInvariant`, `GuestAlwaysChecked`, `CasesAlwaysTrue`, `NeverFalsePass`, `DecodeInvariant`, `StreamAlwaysExact`, `HostInvariant`, `HostAlwaysSound`, `FairInvariant`, `RunsAlwaysReported` | `EventAssumption`, `CapacityAssumption`, `PlannedAssumption`, `OptionAssumption` |
| `ScenarioSessionProofs` | `SessionInvariant`, `SessionAlwaysSound`, `ExpectationsAlwaysMet`; `QmpInvariant`, `ShutdownAlwaysSound` about `QmpShutdown` | `SessionAssumption`, `QmpAssumption` |
| `EngineExecutionProofs` | `ExecutionInvariant`, `ExecutionAlwaysAgrees`, `ResponseAlwaysAccepted`, `ExecutionImplementsVerdict`; `IncrementalInvariant`, `WarmAlwaysCold`, `AnswersAlwaysHold`, `PriorAlwaysSurvives` about `IncrementalSession` | `ExecutionAssumption`, `SessionAssumption` of `IncrementalSession` |
| `EngineRequestProofs` | `RequestInvariant`, `RequestAlwaysSound`, `SealedAlwaysDeclared`, `HonestAlwaysTaken` | `RequestAssumption`, `NullAssumption` |
| `LocalBuildProofs` | `BuildInvariant`, `CacheAlwaysSound`, `CacheNeverMisleads`, `OutputsAlwaysSound`, `OutputsNeverReplaced` | `CacheAssumption`, `BuildAssumption` |
| `FormatPublicationProofs` | `FormatInvariant`, `FormatAlwaysSound`, `FailedCommitAlwaysRestores` | `FormatAssumption` |

Apart from the types of the numbers, the assumptions say that the value for
"nothing" (`None`, `Null`) is none of the values it stands beside, and what the
following paragraphs name. Each inductive invariant was first checked by TLC on the
instance of its run.

### TargetRuntimeProofs: the serial link

The assumptions: the four SLIP constants differ and firmware writes no END
(`SlipBytes`); the magic is not empty and contains neither END nor ESC, and every
frame starts with it and is within the limit (`MagicBytes`, `FrameShape`); firmware
never writes the last byte of the magic, a NUL (`NoiseOutsideMagic`).
`LiveObserverExact` and `BatchSound` hold for any firmware output these allow, ESC
included; `BatchExact`, `DecodersAlwaysExact` and `LinkImplementsChannel` under the
further hypothesis `ESC \notin Noise`, which is necessary (section 5).

"The decoders hold what was sent" is not inductive: it says nothing of the open
segment. `LinkInv` adds what a decoder holds at each position of the sender. While
a frame is on the wire, the open segment is exactly the transmitted part of it
(`HoldsTransmitted`), in escape mode precisely when the sender is between ESC and
its code. Otherwise the segment is a proper prefix of the magic, which no
firmware byte completes, or raw. `BatchInv` is weaker than its live counterpart
by one disjunct, the raw segment an ESC leaves behind; without ESC in the noise
that disjunct is empty (`BatchExact`). That the two decoders agree on the captured
bytes, also on a frame cut off at the end, follows from their modes moving in
lockstep. The refinement maps the frame in flight to
`cur`, the delivered frames to `bSegs`, and each byte but the first and the last
of a frame to a stuttering step.

### TargetRuntimeProofs: the replay log

For every buffer that has room for a header, every payload
length, every replay destination and every number of events.
"What is replayed is what was
recorded" says nothing of bytes not yet read, so `LogInv` describes the buffer:
the events taken lie end to end from 0 (`BackToBack`) and each of their bytes is
still there (`BytesKept`); behind them lies the marker exactly when an event was
refused (`MarkerPlaced`), which always fits because events stop a header short of
the end; the read cursor stands behind the last event replayed (`Replaying`). A
record call preserves the bytes below because it writes from the end of the
events on; a replay call finds, at the cursor, the header of the next event, of
the marker, or the end of the log, and these three are told apart by
`MarkerPlaced`. A sum that reaches `Word` is refused before it is compared with the
limit, so the offsets are those of unbounded numbers.

### TestCommandProofs

For every limit, buffer size, pipe, timeout and amount of output. `ExecutorInv` adds
to the budget equation two flows.
`ReaderFlow`: a byte written is kept, held by its reader, or in the pipe, until
the reader is done, and a reader is done only with everything kept or with the
flag set. `CallFlow`: which readers exist at each point of the call, that the
child is gone at each way out, and that output is returned only with the flag
clear and both readers done. Output is complete because the flag is read after
the join; a flag read before it would not do.

For the backend, `StreamFlow` says that the overflow flag is set exactly when a
stream is over its limit and that a reader ends on an empty pipe only; `WaitFlow`
which threads have ended at each point of the wait, so that an accepted response
is one that was read whole after the child ended. `CommandInv` joins both with
the stage of the command: the executor starts only from an accepted backend whose
private directory is gone, and only the caller makes a result "cancelled".
`CommandKeepsExecutor` states the executor's properties of the composed system.

### TestRunProofs

For every number of tests, every event capacity and every order in which code
calls the entry points. `LineFlow` relates the state words of the runtime to the
line: numbers without gaps that continue in the frames a failing path has still to
send (`Numbered`, `FailingPath`), counters that are the cardinalities of the events
sent while generated code runs (`Counted`), nothing after a failed test but the
failing terminal event (`FailedLast`). `CutOff` says who stopped when a frame was
cut off. `TruthFlow` adds how each test body really ended: the frames on the line
and those still to be sent agree with it (`HarnessTrue`), and so does what the
host collected (`ReportTrue`). `NeverFalsePass` needs both halves: a report that
passes has the outcome of every planned test, each from a frame, each frame true.

The host is proved about whatever the line carries. `WellFormed` speaks of a whole
stream, `observe` of one event and a summary; the bridge is `Fits`, which says what
one more event must satisfy for a well-formed stream to stay well formed, so that no
induction over streams is needed: the invariant `DecodeFlow` says that the decoded
stream is well formed and the fields of `StreamState` are its counts, its last
terminal event and the state of each test, and `Decodes` and `Fits` then say the
same (`StreamAlwaysExact`). `CollectFlow` relates the collected cases to the finish
events. `SealFlow` is why the second validator cannot refuse: as long as the stream
belongs to the group, its own fields follow those of the first, with the pending
assertion and the number of active tests in step. `VerdictFlow` is what a verdict
was reached from.

`RunsAlwaysReported` is the other direction: the host is not too strict for the
generated harness. Its only hypothesis beside the assumptions, `LimitSuffices`, is
that the event limit has room for a passing run (two events a test and two more) and
for one failed assertion (five events); the compiler gives a group of n tests
`2n + 3` (`wrela-semantic-lower/src/lib.rs:17187`). `FairFlow` is the inductive
invariant: where the harness is determines which tests have left a trace on the line
and what the counters of the runtime are (`HarnessAt`), so each event of the harness
fits the line (`HarnessEventFits`); the frames of a failing path fit behind it when
the group has one test (`AssertionFits`, `FaultFits`); every prefix of what was sent
and is still to be sent is therefore accepted (`LineFair`), and the host, which reads
a prefix of the line, refuses nothing (`HostFair`). For more than one test a shift
fault leaves the regular runs, as section 5 explains.

### ScenarioSessionProofs

For every script, channel capacity, limit and output. `OutputFlow` places every
token the guest printed: received, in the channel, held by the reader, or still in
the pipe, in this order, with the one token the reader refused when the limit was
exceeded. `CallFlow` says where the caller, the reader and the writer may be
together, so that a session that returned has nothing left running. "The expectations
before this step were met within the tokens below the observation floor" is
inductive, "in the output" is not: the floor is what the next expectation starts
from. That the search of an expectation finds a first match is the well-ordering of
the naturals.

For `request_qmp_shutdown`, `StreamFlow` says that what is buffered and on the wire
is one sequence of alternating halves of messages, whatever the reads cut, and
`PhaseFlow` which answers may lie unread at each phase: none before a command is
sent, at most one after. What lies unread is no longer than the events sent and not
yet counted allow, so that a flood really is `Messages` events. `ResultFlow` gives each end
its cause.

### EngineExecutionProofs

For every policy, every outcome and every number of frames and faults. Parts of
`ExecutionFlow`: the control thread accepts only if its first frame is the Cancel
(`LateFlow`); which of the two threads moved the atomic, and where that leaves the
other (`AtomicFlow`); while no quota, projection or cancellation cut it off, the
events taken and those still queued are the whole of the outcome (`PushFlow`); the
counters of assembler and client are totals over the same events (`TallyFlow`, which
asserts that running totals exist, so that no sum has to be defined by recursion);
the frames on the wire and the client's position are those of the response
(`WireFlow`, `ClientFlow`), in order as long as nothing disturbed them
(`HonestFlow`). `ExecutionImplementsVerdict` is the safety part of the refinement:
the sealing of the terminal is the abstract decision, the control thread's answer
the abstract answer, everything else a stuttering step.

The incremental session is proved about in the second half of the module, for all
sources, packages, graphs and identities that satisfy its `SessionAssumption`
(declarations are dense and ordered by file, contents name declarations only).
`IncrementalFlow`: the session retains nothing or, for some request, exactly what a
cold session would (`ColdState`); a running call holds the cold products of its
request, and its plan is still the one derived from the retained revision. The two
steps that matter are the tracked ones. A file outside `Dependents` does not lead to
a changed file, before or after the edit, so name resolution sees the same
(`UnaffectedLowersTheSame`); a root outside `AffectedDecls` does not lead to a
changed declaration, so its facts are the same (`UnaffectedKeepsFacts`). Both are
instances of one lemma about least closed sets, `UnaffectedLeadsElsewhere`. It needs
the retained uses only, not those of the new revision, as in the code: an edit that
adds a use changes its own file, which is then affected itself.

### EngineRequestProofs

For every set of portable paths, every set of requests and of frames, and every
limit. `RequestAssumption` says that portable paths are distinct and have a
component, and that messages have the fields of their kind; a request may misdescribe
its tree in any way and the frames may come in any order.

`RequestFlow` is the inductive invariant. What a run checks of the state after a
return, "nothing is left" or "the sealed tree is the declared one", says nothing of
a tree that is half transferred, so it adds: which stage and which sealed tree belong
to each phase (`PhaseFlow`); that no running sum is past what was declared
(`WithinDeclared`); that the entries of the stage are exactly what it added to the
directory, each after its parents (`Made` in `StagedTree`), which is why removing
the newest first removes everything, at whatever step an operation failed; and that
stream and stage are at the same byte of the same file, whose data is what was
streamed so far (`InStep`, `ActiveInStep`). Sealing then needs no second look at the
directory: every file it holds is a record of the digest, with the bytes that were
digested.

`HonestAlwaysTaken` is the other direction, that the checks are not too strict.
`HonestFlow` says where a client that describes its tree truthfully is as long as
nothing failed: the frames taken are the first ones of its canonical stream, the
sums are those over the first files (`PathSum`, `ContentSum`, `DirSum`), the
directory holds those files with their parents and nothing else. A place in the
stream belongs to one file and one byte of it (`OnePlace`), which says what the next
frame is (`NextFrame`); that no check refuses that frame is `HonestIsTaken`, because
a sum over the first files is at most the sum over all, which is what the header
declared. Where the frame leads is one lemma a kind (`RecordPlace`, `ChunkPlace`
and their neighbours).

Sums and removal are recursive functions (`Total`, `UnlinkAll`). The induction that
is needed about them is stated of sets and functions, not of operators: a set of
naturals has a least element (`LeastNumber`), so what holds at 0 and carries to the
next number holds up to n (`UpTo`), and a function that follows a recursion up to n
exists (`RecursionExists`).

### LocalBuildProofs

For every set of builds, frames, outputs and foreign entries, and any number of
damages, crashes and failures. `StoreFlow`: a file gets the name of the entry only
when it is whole and synced; `LoadFlow`: what a load has read is what its file holds
unless the stamp has moved, which the second check sees; `QuietFlow`: a load that
nothing disturbs is on its way to the hit. For the outputs, `PublishFlow` says which
destinations may still be a build's own at each step, and `FilesMeet` why two builds
that both succeed cannot have one name each: the one that linked the later name
still looks back at the earlier one. `CommandFlow` is the order between both.
`OutputsNeverReplaced` is an action property of the composed system: a destination
is created when it is free and removed, never overwritten.

### FormatPublicationProofs

For every number of sources and formatters, any edits, failures and kills.
`FormatFlow` says for each formatter which lock and temporary files are its own
(`Owns`), that a rollback file is preserved exactly when the error names it
(`Promises`), which sources are prepared and committed at each step (`Reads`,
`Prepares`, `Commits`), that a source that passed its last look is as it was parsed
or has been edited since (`Sees`), and what of a failed commit is still to be put
back (`Undoes`). A step of one formatter leaves the locks and files of another
alone (`Spares`), which makes the invariant of the others a frame condition. "The
next changed source" and "the last committed source" exist by the well-ordering of
the natural numbers (`LeastElement`, `GreatestElement`).

### Only model-checked

- Liveness under fairness and ENABLED, which are out of this prover's reach:
  `Decided`, `CommandReturns`, `SessionReturns`, `ShutdownReturns`,
  `CancelTakesEffect`, `FormatterReturns`.

Every other property of a passing run is stated by a theorem of the table above.
The violated property of `output_race` is of course none.

No module of this project declares a RECURSIVE operator.

## 5. Finding, and other disagreements met while modelling

`output_race` (`local_build.rs:1190`). When publishing fails, the command removes
the artifact and report paths, whoever created them. Of two builds into one
directory the one that loses the link therefore removes the outputs of the one
that has returned success, although `local_build.rs:1137` says that builds "use
create-new publication". `publish_report` has the same shape.

In the following points the code also does something other than one might expect
of it. No run is about them; the properties are stated so that they hold in spite
of them. How often they happen is not claimed.

- `harness.rs:369`: `decode_slip` interprets ESC before the magic is complete. When
  the last raw byte before a frame is ESC, the frame's opening END is taken for an
  invalid escape and the frame is skipped as raw output; the live observer
  delivers it. `slip_link` therefore has no ESC in `Noise`, and the theorems that
  need this say so.
- `runtime.S:283`: the fault path always sends `RunFinished(0, 1)`. In an image
  with two tests this contradicts the declared count, and the host answers with a
  protocol error instead of a failed test. `RunsAreReported` claims the precise
  report for one selected test only.
- `wrela-test-runner/src/lib.rs:593`: a child is killed when the elapsed time has
  reached the timeout and its duration is measured after that, so `run_all` refuses
  the output of a timed-out run as an executor that exceeded its timeout, unless
  both fall on the same tick.
- `local.rs:1287`: `pump` drains the channel before it polls the exit. Output that
  arrives in between is not looked at before an expectation is judged, so a guest
  that prints the expected text and exits at once may be reported as having
  exited before the step matched.
- `local_format.rs`: an edit saved after the last revalidation of a source is
  overwritten by the rename, and a read error after the commit returns an error
  although the files are published. `FormatInv` is about the edits that the
  revalidation can see.
- `incremental.rs`: when an earlier file grows, reused HIR records no longer have
  their places in the dense arenas; the call answers a request mismatch where a
  cold session would succeed. The retained revision stays as it was, so nothing
  stale is served.

## 6. Not modelled, and why

- The compiler proper, nine tenths of the source lines: parser, HIR, semantic
  analysis, the intermediate representations and their validators, optimisation,
  machine lowering, image report. They are sequential functions from one large
  structure to another, with no state beyond a call, no actor but the caller and
  no fault but a refusal; the interesting inputs are programs, far beyond what can
  be enumerated, and a model of a pass that keeps its case distinctions would be
  the pass again. What of them decides about correctness across calls, the reuse
  decisions, is in `IncrementalSession`. The share of the repository's lines the
  map covers is accordingly small.
- Test discovery and plan, analysis facts, lint, doctor, command line, standard
  library: pure functions of one call, or read-only commands.
- Package loading and input snapshots: a stable read is modelled where a command
  depends on one (`FormatPublication`, `ArtifactCache`), not for itself.
- Toolchain verification, bindings to LLVM and LLD: digests of files and calls
  into libraries.
- The byte codec of a frame, its CRC, digests, evidence, diagnostics' wording.
- Errors of the operating system other than those named above, and the staging of
  process files in the executor.
- Descendants of QEMU or of the backend that inherit the pipes: as invoked,
  neither starts any.

`PROJECT.json` gives the reason for each component.

## 7. Plan

Modelled and checked: every part with interleavings, faults or durable state in
the table of section 1 but package loading. What is left, in this order:

1. Package loading: the identity checks around the reading of a tree, with an
   editor between them.
2. The mailboxes and the scheduler that machine lowering emits for actors, as a
   state machine beside `GuestRuntime`.

Of the proofs, only the liveness properties are left, for a prover that reasons
about fairness.
