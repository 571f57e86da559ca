# Verification of the rust-daq Python client and streaming runtime

This directory holds TLA+ models of the parts of rust-daq that can be checked
with a model checker. It contains the modules, the TLC configurations that
check them on small instances, and TLAPS proofs of their main invariants for
all values of the constants. `PROJECT.json` lists the components, runs,
mutants, source map, findings, hazards and theorems.

In the run tables, a row marked * is a further violation configuration, not
one of the listed runs. Each is kept because it shows a disagreement between
the code and the spec or a comment. `tlc -config X.cfg MC_<Module>`
reproduces it, and the row's one-line account is the finding.

## 1. Inventory

### Parts of the system

| Part | Source | State | Operations | Status |
|---|---|---|---|---|
| FrameStream (stream lifecycle manager) | `clients/python/src/rust_daq/streaming.py` 122-225 | `_max_frames`, `_iterator`, `_frame_count`, `_active`, plus the daemon call it opens | `__init__`, `__aenter__`, `__anext__`, `__aexit__` | modelled: `FrameStream` |
| ParameterSubscription | streaming.py 228-325 | as above, without a cap, plus a filter | same four | modelled: `EventStreams` |
| DeviceStateStream | streaming.py 328-404 | as above, with a snapshot first | same four | modelled: `EventStreams` |
| Frame / ParameterChange decoders | streaming.py 38-119 | none (pure) | `to_numpy`, `old_as_float`, `new_as_float` | partly: `to_numpy` in `PixelDecode` |
| Control client `DaqClient` | `clients/python/daq_client.py` | the gRPC channel | `upload_script`, `start_script`, `get_status`, `stop_script`, `stream_status`, `stream_measurements`, `close` | modelled: the four control calls in `ControlPlane`, the two streams and `close` in `TelemetryFeed` |
| Daemon execution state machine | not under src/ (spec §4.1) | executions: Pending → Running → Completed/Error/Stopped | start, finish, fail, stop | modelled from the spec in `ControlPlane` |
| Daemon telemetry streams | not under src/ (spec §4.2, §5) | open server calls and their buffers | produce, end, fail, release on close | partly: environment of `FrameStream` |
| Example programs | `clients/python/examples/*`, `crates/rust-daq/tests/e2e_test.py` | local variables | upload → start → poll, stream loops | modelled: `BasicUsage`, `TelemetryFeed`, `E2ETest` |
| Python binding scripts | `python/examples/…` | monitor loop, sweep | sample, display, save, Ctrl+C | partly: `PowerMonitor`, `WavelengthSweep` |
| Jupyter integration | `crates/rust-daq/clients/python/src/rust_daq/jupyter.py` | widgets, live plot, scan dict | dashboard, slider and button callbacks, `live_scan_plot` | partly: `NotebookWidgets`, `LiveScan` |
| Tests, benchmarks, search scripts | `python/tests`, `python/benchmarks`, `scripts/…` | none of interest | timing, printing | not modelled (see `PROJECT.json`) |

### How the parts interact

A user task enters a `FrameStream` with `async with`. `__aenter__` asks
`AsyncClient.stream_frames` for an async iterator over a server-streaming
gRPC call. The daemon's camera broadcasts frames into every open call, and
each call has a bounded buffer. Frames are dropped when the consumer is slow
(spec §4.2).

`__anext__` awaits the iterator. It counts the frame, calls `on_frame` and
returns the frame.

`__aexit__` resets the object's fields. It drops the iterator without calling
`aclose()`. The daemon call is released only when asyncio's async-generator
finalizer closes the iterator. That happens once no task holds the iterator:
neither through the object's `_iterator` nor through a suspended `__anext__`.

The same object can be entered again, and each entry opens a new call.
Spec §9 says `close` may be called from any task. So one task can exit the
scope while another is suspended in `__anext__`.

### Hard behaviours

- A check made before an `await` is used after it: `_active` and `_iterator` are read at line 188 and the frame is used at 200-215.
- Two tasks share one stream object (spec §9).
- Frames are dropped when a buffer is full, and the connection can be lost, which fails every open call.
- The server call is released by the garbage collector, not by the code.
- `max_frames` has an edge case: `0` is falsy in Python.

## 2. Plan

Modules, in build order:

1. `FrameStream`, `MC_FrameStream` (done): the lifecycle, the server calls and the finalizer.
2. `Subscription` (done): the abstract promise of a subscription (open, yield at most `limit`, close). `FrameStream` refines it under `Spec`.
3. `ControlPlane`, `MC_ControlPlane` (done): `DaqClient`'s four control calls against the daemon's execution state machine (spec §4.1), with lost requests and lost responses.
4. `BasicUsage`, `MC_BasicUsage` (done): the `basic_usage` program as a caller of `ControlPlane`.
5. `EventStreams`, `MC_EventStreams` (done): `ParameterSubscription` and `DeviceStateStream`, refining `Subscription`, with snapshot-first delivery (section 7).
6. `TelemetryFeed` (done): `stream_status` / `stream_measurements` with their example programs (section 9).
7. `PowerMonitor`, `WavelengthSweep` (done): the two stateful scripts of the Python bindings (sections 10 and 11).
8. `LiveScan`, `NotebookWidgets` (done): the Jupyter scan and widgets (section 12).
9. `E2ETest` (done): the end-to-end test as a caller of `ControlPlane` (section 13).
10. `PixelDecode`, `PixelDecode_proofs` (done): `to_numpy` against spec section 8, with a proof (section 14).
11. `MC_Scripts` (done): the modules of items 6 to 8 checked in one run (section 8).
12. `EventStreams_proofs` (done): `SnapshotFirst` and `TypeOK` for every instance (section 7).
13. `EventStreams_proofs` (done): the refinement to `Subscription` (section 7).
14. `Scripts_proofs` (done): every `MC_Scripts` safety property, for every value of the programs' arguments (section 8).
15. Still to do: `async_acquisition.py`; the float drift of the wavelength grid, which needs 53-bit arithmetic (section 15).

## 3. The `FrameStream` module

### State and actions

| Variable | Code |
|---|---|
| `max_frames[s]` | `self._max_frames` |
| `in_scope[s]` | the object is between `__aenter__` and `__aexit__` |
| `active[s]` | `self._active` |
| `iterator[s]` | `self._iterator` (a call id, or `None`) |
| `frame_count[s]` | `self._frame_count` |
| `awaiting[s]` | the calls on which a task is suspended inside `__anext__` |
| `call[c]` | the daemon call's state: `unissued`, `open`, `ended`, `failed`, `cancelled` |
| `queue[c]` | frames buffered for call `c`, at most `QueueCap` of them |
| `owner[c]` | which object opened call `c` |
| `next_call`, `frame_number` | bounded counters that name calls and frames |

Client actions, one per handler:

- `AEnter` is `__aenter__`.
- `AExit` is `__aexit__`.
- `__anext__` is split at its `await`, because another task or the daemon can act there:
  - `ANextBegin` runs up to the await. That covers the checks at 188-189 and the cap check at 191.
  - It is resumed by `ANextFrame` (lines 200-215), `ANextEnd` (`StopAsyncIteration`) or `ANextError` (an RPC error propagates).

Environment actions, modelled from the spec:

- `Produce` broadcasts a frame and drops it where a buffer is full.
- `ServerEnd` ends a call normally.
- `ConnectionLost` fails every open call.
- `Finalize(c)` is the asyncio finalizer: it closes a call that is open and no longer referenced.

### Two usages

- **`Spec` (single-task).** Each object is used by one task, so `__aexit__` never runs while that object's `__anext__` is suspended.
- **`SpecCrossTask`.** This adds `AExitWhileAwaited`, an exit run by another task during the await.

### Fairness

`WF_vars(Finalize(c))` is assumed. The async-generator finalizer runs as soon
as the last reference is gone (CPython refcounting) and stays enabled until it
runs. No fairness is assumed for the client or the daemon: the user may stop
using a stream at any point.

### Bounds

`MC_FrameStream` uses the following values:

- two objects;
- `MaxCalls = 3`, so an object can be re-entered and the calls of two scopes can coexist;
- caps of `None` or `1`. The violation runs add `0`;
- frames numbered up to 2;
- buffers of one frame, so drops happen.

Every action fires, including a drop, a connection loss, a cap hit and a
finalizer. The counters are bounded by the guards, and that is why the checks
use `CHECK_DEADLOCK FALSE`: the bounded program ends.

### Runs

| Run | Expect | Shows |
|---|---|---|
| `frame_stream_single_task` | pass | Under `Spec`, four properties hold (about 318k distinct states): `TypeOK`, `CapRespected` (count ≤ cap), `NoYieldAfterClose` (a frame is returned only inside its own scope, from its own call), and `CallReleasedAfterExit` (every call opened by a scope that exited is eventually no longer open). |
| (same run) | | `ImplementsSubscription`: with `in_scope`, `frame_count`, `max_frames` mapped to `sub_open`, `yielded`, `limit`, every behaviour of `Spec` is a behaviour of `Subscription!SSpec`. |
| `FrameStreamZeroCap.cfg`* | violation | With `max_frames = 0` a frame is yielded. This is a code bug at line 191. |
| `FrameStreamCapLeak.cfg`* | violation | After the cap is reached the call stays open until the scope exits. Spec §4.3 and §9 ask for an explicit close. |
| (same run) | | `InactiveOnlyWhenEnded`: an object that is in scope and inactive has seen its own call end. |
| `frame_stream_stale_end` | violation | Under `SpecCrossTask` a stale await of the previous scope's call ends and sets `_active = False` on the object's new scope, whose call is still open (line 197). The new scope then yields nothing. |
| `frame_stream_cross_task_close` | violation | Under `SpecCrossTask` a task suspended in `__anext__` returns a frame after another task closed the scope. This contradicts spec §5, "a subscription closed once must never yield again". |

Each property of the passing run has a mutant in `FrameStream.tla` that TLC
must catch:

- an off-by-one in the cap check;
- `__aexit__` not abandoning the pending await;
- `__aexit__` keeping the iterator;
- an off-by-one in call numbering;
- `__aenter__` not resetting `_frame_count` (breaks the refinement);
- `__aexit__` leaving the await pending (breaks `InactiveOnlyWhenEnded`).

## 4. Proofs (`FrameStream_proofs.tla`)

| Theorem | What it proves |
|---|---|
| `TypeCorrect` | `Spec => []TypeOK`. The proof goes through the lemma `TypeStep`, which covers `NextCrossTask` as well. |
| `CapRespectedHolds` | `Spec => []CapRespected`, assuming `0 \notin MaxFramesChoices`. That assumption is exactly the zero-cap finding. |
| `NoYieldAfterCloseHolds` | `Spec => [][YieldInScope]_vars`. |
| `InactiveOnlyWhenEndedHolds` | `Spec => []InactiveOnlyWhenEnded`. It is proved through `EndInv`, which adds two facts: calls above `next_call` are unissued, and an in-scope object's iterator is an issued call. Both are needed for `AEnter`: the fresh call it opens cannot already have ended. |
| `Refinement` | `Spec => ImplementsSubscription`, assuming `0 \notin MaxFramesChoices`. Initial states map to `SInit`; `AEnter`, `ANextFrame` and `AExit` map to `Open`, `Yield` and `Close`, and every other action leaves the mapped variables unchanged (lemma `RefinementStep`, from `IInv`). |

`CapRespected` is not inductive on its own. `ANextFrame` increments the count,
and this is safe only because the pending await was begun below the cap and
in the current scope. The strengthening `CapInv` says three things for every
object:

1. Out of scope, the object has no iterator.
2. A pending await is on the object's current iterator and was begun while the count was below the cap.
3. If capped, the count is at most the cap.

`IInv = TypeOK /\ CapInv` is established by `Init` and preserved by each
action of `Next` (lemma `CapStep`, one case per action). The same invariant
gives `YieldStep`: an `ANextFrame` step resumes on the current iterator of an
object in scope.

What stays with TLC:

- `CallReleasedAfterExit`, which is liveness under fairness;
- everything about `SpecCrossTask`, whose interesting properties fail.

## 5. The `ControlPlane` module

### State and actions

The daemon's state (`daemon`) is modelled from spec §4.1, since the daemon
is not under src/. It consists of the stored `scripts`, the execution table
(`exec_state`, `exec_script`, `requester`) and the id counters.

`lost` counts messages the transport has lost, and is bounded by `MaxLost`.

Each caller has the following state:

- `held_scripts[c]` and `held_execs[c]`: the ids its calls returned;
- `read[c][e]`: the last state `get_status` returned;
- `raised[c]`: whether the last call raised;
- `start_comm_errors[c]`: how many `start_script` calls raised on an `RpcError`.

Each client call (`UploadScript`, `StartScript`, `GetStatus`, `StopScript`)
is one action with three outcomes:

1. the request is lost (an `RpcError`, turned into `RuntimeError`);
2. the daemon acts and the response is lost;
3. the response arrives and the code's success check decides between returning and raising.

`StateCode` is `ExecutionState.Name`'s inverse: `get_status` returns the enum
number, not its name. `Finish(e)` is the daemon completing a running script.

### Runs

| Run | Expect | Shows |
|---|---|---|
| `control_two_callers` | pass | With two callers, two scripts, two executions and one lost message (6.5k distinct states, caller symmetry), three invariants hold: `TypeOK`; `ClientIdsValid` (held ids name daemon objects the caller created); `NoSilentOrphan` (a started execution whose id a caller was not told is matched by a `start_script` error it saw). |
| `control_orphan_execution` | violation | `NoOrphanExecution` fails in 3 steps. The response to a start is lost after the daemon started the execution, so it runs with no caller able to poll or stop it. This is a spec gap at `daq_client.py:73`. |

The mutants are:

- a one-based `StateCode`;
- `upload_script` without the success check;
- `start_script` swallowing the `RpcError`.

No property is stated about the daemon's own execution state machine: it is
modelled from spec §4.1, not from code in this repository, so a property of
it would say nothing about the client. Nor is one stated about what a
`False` from `stop_script` tells a caller whose execution finished just
before the stop (`daq_client.py:132`): the code passes on the daemon's bit,
and the model shows the race but the caller has nothing to compare it with.

### Proofs (`ControlPlane_proofs.tla`)

| Theorem | What it proves |
|---|---|
| `ControlTypeCorrect` | `ControlSpec => []TypeOK`. |
| `ClientIdsValidHolds` | `ControlSpec => []ClientIdsValid`. |
| `NoSilentOrphanHolds` | `ControlSpec => []NoSilentOrphan`. |

Neither property is inductive on its own. A start could hand out an id that
some caller already holds, or that already has a requester. The
strengthening `ExecIdsFresh` closes that gap: every id above `next_exec` has
no requester. `CInv = TypeOK /\ ExecIdsFresh /\ ClientIdsValid /\ NoSilentOrphan`
holds initially, where every `Unheld` set is empty.

`CInv` is preserved by every step (`CInvStep`):

- `GetStatus`, `StopScript` and `Finish` change no id (`CInvFrame`).
- `UploadScript` only adds scripts (`CInvUpload`).
- `StartScript` (`CInvStart`) has three cases:
  - the request is lost, and nothing is created;
  - the response is lost, so the new execution joins `Unheld(c)` and `start_comm_errors[c]` grows by one;
  - the response is delivered, and the id joins `held_execs[c]`.

The proofs hold for any number of callers and any bounds.

## 6. The `BasicUsage` module

`basic_usage.main` is modelled as a single caller `Prog` of `ControlPlane`.
It has a program counter and its locals `script_id`, `exec_id` and
`elapsed`, counted in poll intervals.

Python's `==` is modelled on tagged values (`PyInt`, `PyStr`, `PyEq`), so an
int never equals a str. `Poll` compares the int that `get_status` returns
with `['COMPLETED', 'ERROR']`. `Tick` lets wall-clock time pass during a call.

The run `basic_usage_timeout` (violation) checks
`TimeoutOnlyIfUnfinished`. TLC finds a run in which the last status read was
COMPLETED and the program still reports a timeout. The comparison at line 66
can never succeed.

## 7. The `EventStreams` module

`ParameterSubscription` (streaming.py 228-325) and `DeviceStateStream`
(328-404) share `FrameStream`'s lifecycle, without a cap. They are modelled
together. `ParamSubs` and `DeviceSubs` are two disjoint sets of objects.

- **State.** Per object: `in_scope`, `active`, `iterator`, `count`,
  `include_snapshot` (device streams only) and the history variable
  `first_returned`. Per call: `call`, `queue` and `owner`. Also
  `awaiting`, `next_call` and `produced`.
- **Actions.**
  - `OpenScope` is the common body of the two `__aenter__`s. A device stream
    opened with `include_snapshot` gets a call whose queue starts with the
    snapshot.
  - `Resume` is the common body of the `__anext__`s after the await: it pops
    the queue, counts the event and, for parameters, calls `on_change`, which
    may raise after the count (`ParamANextCallbackRaises`).
  - The other actions are `ANextBegin`, `ANextEnd`, `ANextError`, `AExit` and
    `AExitWhileAwaited`.
  - The daemon side: `ParamChanged` and `DeviceChanged` broadcast an event
    to every open call of the right kind that has room (`Broadcast`);
    `ServerEnd`, `ConnectionLost`, and the finalizer `Finalize`.
- **Fairness.** Weak fairness on `Finalize` only, as for `FrameStream`.

| Run | Expect | Shows |
|---|---|---|
| `event_streams_single_task` | pass | `TypeOK`; `SnapshotFirst`: a device stream opened with `include_snapshot` returns the snapshot before any delta; `ImplementsSubscription`: both classes refine `Subscription` with no limit. About 257k states with `MaxCalls = 3`, `MaxEvents = 2`, `QueueCap = 2`. |
| `event_streams_cross_task_snapshot` | violation | Under `SpecCrossTask` a consumer suspended at line 388 when another task exits and re-enters returns a delta of the old call as the first update of the new scope, before its snapshot. |

The mutants are:

- call numbering off by one (`TypeOK`);
- `__aenter__` not resetting the count (the refinement);
- `__aexit__` leaving the await pending (`SnapshotFirst`).

### Proofs (`EventStreams_proofs.tla`)

| Theorem | What it proves |
|---|---|
| `SnapshotFirstHolds` | `Spec => []SnapshotFirst` for any sets of objects, any `MaxCalls`, `MaxEvents` and `QueueCap`. |
| `TypeOKHolds` | `Spec => []TypeOK` for the same constants. |
| `Refinement` | `Spec => ImplementsSubscription` for the same constants. |

All three theorems follow from `IInvHolds`, `Spec => []IInv`.

`SnapshotFirst` is not inductive. A resume returns the head of a buffer, and
nothing in `SnapshotFirst` says what that head is. `IInv` adds four facts:

1. `OwnIterator`: an object's iterator is an issued call whose owner is that
   object. So no two objects share a call, and a fresh call is nobody's.
2. `AwaitsOwnIterator`: with one task per object, a pending await is on the
   current iterator. `__aexit__` abandons its own task's await.
3. `ScopeHasIterator`: in scope exactly when the iterator is set.
4. `SnapshotAtHead`: until a snapshot-requesting stream has returned an
   update, its buffer starts with the snapshot, or is empty on a call that is
   no longer open.

The step lemmas are:

- one per client action: `OpenScopeStep`, `AExitStep`, `ANextBeginStep`,
  `ResumeStep` and `ANextEndStep`;
- `EnvironmentStep` for the daemon, transport and finalizer. They change
  only calls and buffers, and each of `BroadcastStep`, `ServerEndStep`,
  `ConnectionLostStep` and `FinalizeStep` shows that every buffer keeps its
  head (`KeepsHead`).

The proof needs `None \notin Nat` (`EventStreamsAssumption`).

`AExitWhileAwaited` breaks fact 2: another task's await stays pending on a
call the object no longer holds. This is the
`event_streams_cross_task_snapshot` violation.

The refinement maps `in_scope` to the subscription's open flag, the
count to `yielded`, and every limit to `None`. `RefinementStep` shows:

- `__aenter__` (`OpenScope`) is `Open`;
- `__aexit__` is `Close`;
- every `Resume` is a `Yield`;
- every other step leaves the open flag and the count alone.

`Resume` needs the object in scope. That comes from the invariant
(`ResumeInScope`): the await that resumes is on the current iterator
(fact 2), and an object holds an iterator only in scope (fact 3). Under
`NextCrossTask` this fails. A closed object can still count an event
that another task's await receives.

## 8. The example programs in one run: `MC_Scripts`

The five modules of sections 9 to 12 model separate Python processes or
notebook cells, which share no state. `MC_Scripts` instantiates each of them
with its variables renamed. A behaviour chooses one program in its initial
state (`which`) and runs only that program's `Next`. The others keep one
fixed initial state, so the state count is the sum of the programs' counts
(about 14k), not their product. The programs are:

- `stream_status.py` (`TelemetryFeed!StatusNext`);
- `stream_measurements.py` (`MeasurementNext`);
- `continuous_monitor.py`, `wavelength_sweep.py`, `live_scan_plot` and
  `dashboard`.

The constants of all five are set in `Scripts.cfg`:

- 3 daemon messages;
- window 2, display interval 2, 6 monitor iterations;
- sweeps from {1, 2} to {2, 5} by {0, 1, 2};
- a 4-step scan;
- slider positions {0, 1, 2} and detector values {0, 3}.

The programs' domain assumptions are `ScriptsAssumption`. `NoneAssumption`
says that Python's `None` is not one of the daemon's messages. The only
fairness is weak fairness of the monitor's own steps, as in
`PowerMonitor!Spec`. Each property of the run is the module's own property,
read through the instance.

### Proofs (`Scripts_proofs.tla`)

Each program's property is proved from an inductive invariant over that
program's variables. TLC checked the four invariants on `Scripts.cfg`
before they were proved. A lemma `*Split` shows that a step of the harness
is a step of that program, or leaves its variables alone. So each program is
proved on its own.

| Theorem | Invariant | Why the property alone is not inductive |
|---|---|---|
| `DisplayMatchesPayloadHolds` | `FeedInv` | The next item is the head of the buffer. So the invariant says the status program's buffer holds only status messages, and the measurement program's only payloads. `DisplayOfPayload` computes the branch for each kind. It uses `None \notin Nat`, so 0 and b'' are not None. |
| `MonitorTypeOKHolds`, `WindowIsRecentHolds` | `MonitorInv` | `WindowIsRecent` is inductive with the types, but the SMT backend cannot use its `Len(window) = IF ...` form. `MonitorInv` states min(n, W) as two cases and the `SubSeq` element by element (`LastElems`). `LastElemsIsSubSeq` converts back. `DequeKeepsRecent` is the deque lemma: appending to a maxlen-W deque that holds the last min(n, W) of n readings leaves it holding the last min(n+1, W) of n+1. |
| `PlotMatchesDataHolds`, `ReturnedDataHolds` | `ScanInv` | The plot's x data is the prefix `1..k-1` of the linspace. The dict equals the plot at every label, not only at the loop head. A scan that reaches `finally` without an exception has `k = Steps + 1`. |
| `SavedIsSweepHolds` | `SweepInv` | The property speaks of the final state only. The invariant follows the loop: in the grid loop `wavelengths` is the first `Len(wavelengths)` points of the forward grid, `current` the next one, and the length is at most `(stop - start) \div step + 1`. Once the loop test fails the list is that whole grid (`GridEndArith`), and `ExtendedIsPath` shows that it, with `reversed(wavelengths[:-1])` added when bidirectional, is `Path`. During the point loop `data_points` holds one record per visited index, and `save_data` writes one row per record. |

The two scan theorems assume `DetId # "position"`. With the detector id
"position", the dict's two keys are one list. The violation run
`live_scan_key_clash` shows that `ReturnedData` then fails, and TLC finds
`PlotMatchesData` violated on the same instance. That assumption is the
precondition the code needs, not a restriction of the model.

## 9. The `TelemetryFeed` module

`DaqClient.stream_status` and `stream_measurements` (daq_client.py 134-196)
are modelled with the example programs that drive them:
`stream_status.py` and `stream_measurements.py`. Each program runs a `for`
loop over the generator inside `try / except KeyboardInterrupt / finally
client.close()`.

- **The daemon.** `ServerSend`, `ServerEnd` and `ServerFail` act on one call.
  gRPC delivers the received messages in order, then stops or raises
  `RpcError`.
- **The generator.** `GenStop` is a normal end. `GenCatchRpcError` is the
  `except grpc.RpcError: print; return` of lines 155-157 and 194-196, and it
  ends the loop exactly like `GenStop`.
- **The consumer.** `YieldStatus` and `YieldMeasurement` read one message.
  For measurements, `ConvertMeasurement` is the oneof conversion of lines
  177-191 and `DisplayMeasurement` the display branch of
  `stream_measurements.py` 41-52. `Interrupt` is Ctrl+C and `CloseClient`
  the `finally`.
- **Payloads.** A measurement payload is scalar, image or unset, and its
  value is zero/empty or not. That is the distinction a truthiness test
  would get wrong.

| Run | Expect | Shows |
|---|---|---|
| `scripts` | pass | `DisplayMatchesPayload`: each displayed item takes the branch of its payload kind, scalar 0.0 and empty images included. Mutant: the display tests `data['value']` for truth. |
| `TelemetryFeedFailure.cfg`* | violation | `FailureDistinguishable`: after a broken call the program ends as after a normal end. Spec §7 asks that callers can tell the two apart. |

## 10. The `PowerMonitor` module

`continuous_monitor.py` is modelled: `PowerMonitor` plus the `main` that runs
it.

- **State.** The program counter, `running`, the `window` deque, which has a
  `maxlen` (`DequeAppend`), `total_samples`, `last_display`, whether the loop
  slept since the last read, the exit code, and a history `hist` of kept
  readings.
- **The SIGINT handler.** `HandleInterrupt` can run between any two steps,
  which is where CPython runs handlers.
- **Reads.** `read_power` either returns a reading (`AcquireSample`) or
  raises (`AcquireFails`). In the second case the `except ... continue`
  skips the sleep.
- **Fairness.** Weak fairness on the program's own steps (`MainStep`): it is
  the process's only thread. A hanging `read_power` is not modelled.
- **Bound.** `MaxIterations` bounds the loop; at the bound only an interrupt
  moves on.

| Run | Expect | Shows |
|---|---|---|
| `scripts` | pass | `MonitorTypeOK` (`PowerMonitor`'s `TypeOK`); `WindowIsRecent`: the window is exactly the last `min(total, window_size)` kept readings and `total_samples` counts no failed read; `StopsAfterInterrupt`: once the handler ran, `main` returns. Window 2, interval 2, 6 iterations. |
| `power_monitor_interrupt` | violation | Ctrl+C before the first successful read: `get_statistics` returns `{}`, `stats['total_samples']` raises `KeyError`, and `main` returns 1 ("Monitor failed"). |
| `PowerMonitorRate.cfg`* | violation | A failed read is retried at once, without the sleep, against the docstring's "at a specified sampling rate". |

The mutants are:

- a deque without `maxlen` (`TypeOK`);
- the sample counted before the read (`WindowIsRecent`);
- the loop ignoring `self.running` (`StopsAfterInterrupt`).

## 11. The `WavelengthSweep` module

`wavelength_sweep.py` is modelled: validation, instrument construction, grid
generation, the point loop, `save_data`, and the exit codes 0, 1 and 130.

- **The grid.** `GridLoop` is one turn of the `while current <= stop` loop
  (append `current`, add the step), with `current` a variable (`cur`).
  `GridExtend` is the failed loop test followed by the
  `reversed(wavelengths[:-1])` extension (`ReturnLeg`) of a bidirectional
  scan.
- **Arithmetic.** The model covers integral `--start`, `--stop` and
  `--step`, in whole nanometres. `argparse` makes them floats, and a double
  holds every integer below 2^53 exactly, so the loop's `current += step_nm`
  (line 59) is exact addition in that case and `GridLoop` computes what the
  code computes. A fractional step is not modelled: there the script's grid
  can lose the stop wavelength to rounding (700.0 to 701.0 by 0.1 gives 10
  points, not 11). Checking that needs IEEE doubles, beyond TLC's 32-bit
  integers, so that hazard is only listed.

The run `scripts` (pass) explores start ∈ {1, 2}, stop ∈ {2, 5},
step ∈ {0, 1, 2} and both directions. It checks `SavedIsSweep` against
`Path`, an independent closed form of the up-and-back path: a run that
returns 0 has saved the whole path, with the turning point once. The mutant
`ReturnLegWithTurn` is `reversed(wavelengths)`, which repeats the turning
point. `Scripts_proofs` proves `SavedIsSweep` for all integral arguments
(section 8); it says nothing of a fractional step.

## 12. The Jupyter modules `LiveScan` and `NotebookWidgets`

`LiveScan` models `live_scan_plot` and `LivePlot`:

- **The loop.** A move that may raise (`Move`), a read that may raise
  (`ReadFails`), and the appends, plot update and progress update
  (`ReadAndRecord`).
- **The `finally`.** `Finally` closes the bar if `pbar` is truthy, which for
  tqdm means `total > 0`: with `steps = 0` the bar is left open. It then
  turns interactive mode off for matplotlib.
- **The data dict.** It is a function over `{"position", DetId}`, so a
  detector named `"position"` collapses it to one key, as Python's dict
  literal does.

| Run | Expect | Shows |
|---|---|---|
| `scripts` | pass | `PlotMatchesData`: the plot and the dict stay equal whatever raises; `ReturnedData`: a returned scan holds every position with its reading. Mutants: the loop stopping one point early; the position stored before the read. |
| `live_scan_key_clash` | violation | With `device_id = "position"` the returned data interleaves positions and readings. |

`NotebookWidgets` models `dashboard`, which builds a widget per device in
order (`DevKinds`) and then displays them, and the two callbacks:

- **Slider.** `OnChange` is the slider observer. ipywidgets calls it only
  when the value changes.
- **Read button.** `ClickRead` re-reads the detector (`UpdateValue`).
- **Fallbacks.** `create_motor_slider` falls back to 0.0 when the motor's
  info cannot be read, and `create_detector_display` starts at 0.0.

| Run | Expect | Shows |
|---|---|---|
| `scripts` | pass | The dashboard and its callbacks are explored (every action fires), but no property of them is checked: a successful `on_change` sets the position just before it reports the move (line 371), so a property about that pair would only restate the line. |
| `NotebookWidgetsFallback.cfg`* | violation | `WidgetsShowDeviceState`: a slider built from the fallback shows 0.0 with no error, and a readout whose first read failed shows 0.0 as a reading. |

## 13. The `E2ETest` module

`e2e_test.py` is a caller of `ControlPlane`, like `BasicUsage`. It connects,
uploads, starts and reads the status once. The configuration `E2ETestSuccess.cfg`* (violation)
shows that it prints "completed successfully" with the execution
still RUNNING, or after the status read failed. Spec §8's end-to-end scenario
requires polling to COMPLETED.

## 14. The `PixelDecode` module and its proof

`ToNumpy` is `Frame.to_numpy`:

- `FormatMap` is the item size of each dtype of `format_map`;
- `frombuffer` fails unless the length is a multiple of the item size;
- `reshape` fails unless there are exactly `height * width` elements;
- `pixel_data = None` fails.

The run `pixel_decode` (pass) takes every frame of up to 2×2 pixels, every
buffer of up to 16 bytes and every tag, including one unknown tag. It checks
`DecodeMatchesSpec`, spec §8's decoding property, stated with its own
`BytesPerSample` table. The mutant maps `f32_le` to 2 bytes.

`PixelDecode_proofs.tla` proves `DecodeMatchesSpecHolds`,
`Spec => []DecodeMatchesSpec`, for every `MaxDim` and `MaxLen`:

- `ExactBufferDecodes`: `(n*s) % s = 0` and `(n*s) \div s = n` for each item
  size s. SMT proves it after a case split on s.
- `ToNumpyMeetsSpec`: the decoding property for all naturals `h` and `w`.
- `DInvStep`: the invariant `frame \in Frames /\ DecodeMatchesSpec` is
  preserved by each step.

## 15. What is proved and what is only model-checked

Five modules hold proofs: `FrameStream_proofs`, `ControlPlane_proofs`,
`EventStreams_proofs`, `PixelDecode_proofs` and `Scripts_proofs`. Each proves
its safety invariants as `Spec => []Inv` from an inductive strengthening.
TLC checks each strengthening as an invariant before it is proved.
`FrameStream_proofs` and `EventStreams_proofs` also prove the refinement to
`Subscription`. Every safety invariant and every action property of a
passing run is proved.

`SavedIsSweep` is proved because the grid loop is modelled one turn per
step (`GridLoop`), not as a recursive function, so no induction over data is
needed: the invariant carries the loop's progress. The provers do not find
nonlinear facts about record fields (`a.start + L * a.step`) directly, so
the proof states them once over plain naturals (`OneMoreStep`,
`BelowQuotient`, `LoopTest`) and instantiates them.

The following are checked by TLC only, on the instances of the runs:

- **Liveness.** `CallReleasedAfterExit` and `StopsAfterInterrupt` depend on
  fairness and ENABLED, which TLAPS cannot handle here.

## 16. Not modelled

- **The compiled bindings.** `DataPoint`, `MaiTai` and `Newport1830C` are
  calls that return or raise, and their source is not in the repository.
  `simple_acquisition.py` and the numpy/pandas integrations are straight-line
  code.
- **`async_acquisition.py`.** Three tasks interleave on `asyncio.sleep`, but
  they share no state, and the results carry no wavelength to attribute.
- **Jupyter HTML reprs, `show_devices` and `quick_connect`.** They only
  format or forward.
- **Benchmarks, tests and search scripts.**
- **gRPC transport, channel setup and message encoding.** These are
  abstracted to a call's state and a bounded buffer.
- **Pixel contents.** Only sizes and formats are modelled; the
  byte-to-value conversion is numpy's.
- **Float rounding.** This includes the wavelength grid's drift; see
  section 11.
