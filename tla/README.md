# A verification of moon_cpal's streams

moon_cpal is a MoonBit port of the audio library cpal. A program enumerates
hosts and devices, picks a configuration, builds a stream with a data callback
and an error callback, and then calls `play`, `pause` and `close` on it. Below
that interface each backend is a C file that runs a worker thread (or lets the
operating system call it), talks to an audio interface, and calls back into
MoonBit. That C code is where the program is hard to test: two or three threads
share a few atomics, one condition variable and a device, and what goes wrong
depends on which of two stores another thread sees first. This directory holds
TLA+ models of that code, TLC configurations that check them, and TLAPS proofs
of the safety properties for every value of the parameters.

Contents: [the system](#the-system), [the modules](#the-modules),
[the runs](#the-runs), [bounds](#bounds-and-why-they-are-enough),
[fairness](#fairness), [proofs](#what-is-proved),
[disagreements found](#where-code-and-documents-disagree),
[what is not modelled](#what-is-not-modelled), [plan](#plan).

## The system

| part | source | state it keeps | operations | hard because |
| --- | --- | --- | --- | --- |
| ALSA stream | `alsa/alsa_stream.c` | atomics `running`, `closed`; mutex and condition; the PCM and its buffer; the owner's handle | build, play, pause, close / finalizer; worker: wait, data callback, `writei`/`readi`, recovery | the application drops and prepares the PCM the worker is blocked in |
| JACK stream | `jack/jack_stream.c` | the same atomics, four more set by the server's callbacks, one ring per channel | the same, and the server's process, xrun, sample-rate and shutdown callbacks | three threads; lock-free rings; a stream that ends by itself |
| test host stream | `internal/test_host/null_stream.c` | the same atomics, five atomics of an injected error | the same, and `inject_error` | an error request is five stores against eight worker steps |
| WASAPI stream | `wasapi/wasapi_stream.c` | `running`, `closed`, COM objects, three events | as ALSA, with an initialisation handshake | the device is opened by the worker while the builder waits, and either may fail; a drain loop that looks at no flag |
| CoreAudio stream | `macos/coreaudio_stub.c` | plain `int` flags, audio queue, property listener, the device's sample rate | build, play, pause, close; queue and listener callbacks | callbacks on two system threads, invalidation by one of them, a fixed circle of three buffers |
| construction | the five files above | what was allocated so far | one build per direction | every step may fail after others took resources |
| enumeration | `*_stub.c`, `*/host.mbt` | none that outlives a call; COM, interfaces, lists and strings within one | queries of devices and configurations | every call into the system may fail after others took something; half of the results are interfaces that need each other |
| bridges and wrappers | `*/stream_native.mbt`, `*/stream_callback_bridge.mbt` | an owner object | validation, mapping of error codes | the order of checks |
| core | `core/*.mbt` | none | configuration heuristics, stream time, identifiers, sample formats | integer boundaries, total orders |
| null host, dispatch, API | `null/`, `platform/`, `spec/`, `traits/` | none | forwarding | nothing |

How they interact: `platform/` picks a backend; the backend's MoonBit wrapper
validates the configuration and calls the C build with two closures; the C
stream is owned by a MoonBit external object whose finalizer closes it. From
then on the application thread changes `running` and `closed` and wakes the
worker; the worker looks at both, calls the data callback, moves the samples to
or from the device and reports failures to the error callback. All backends
promise the same thing, which no file states in one place: the lifecycle tests
(`*/stream_lifecycle_test.mbt`, `platform/stream_timing_integration_test.mbt`,
`internal/test_host/stream_timing_test.mbt`) rely on it, and `StreamContract`
writes it down.

What makes each part correct, in a sentence:

* every stream: nothing is called after `close` returned; at most the round
  under way finishes after `pause`; callbacks do not overlap (but for
  the error callback of CoreAudio's listener); `close` returns;
  a stream left playing goes on calling; what the worker uses is released after
  the worker left;
* ALSA: after `pause` the device is silent, however the drop falls into the
  worker's transfer or its recovery from an error;
* JACK: a shutdown or a changed sample rate ends the stream; the look at the
  rings that is taken before the data callback still holds when the samples are
  moved; channels do not drift apart;
* WASAPI: a stream is handed out only with an open device; a build that failed
  on either thread, and close, leave nothing behind; `pause` stops the device;
* test host: an injected error comes once, whole, when it is due, and comes;
* CoreAudio: no buffer leaves the circle of the queue unreported; a stream that
  answered success to `play` and is silent has been reported invalid; nothing is
  freed under the queue or the listener; the wait for a sample rate ends;
* construction and enumeration: whatever call fails, what was taken is released
  once, in an order in which nothing is used after its release;
* core: arithmetic on time stamps is exact or refused, never wrapped; the range
  chosen from a device's list is the first of the greatest that match.

`PROJECT.json` lists every component with its status, and under `hazards` each
place in the code where one of these could break, with the property that
watches it.

## The modules

`StreamContract` is the abstract specification. Its state is what a user can
observe: whether the stream is idle, playing, closing or closed; whether a data
callback is due in the round under way; which callback runs. `OpenRound` is its
only way to a data callback and needs a playing stream. `ContractPromises` says what
that amounts to for a user, once for all backends, and proves it: it adds the
count `late` of the data callbacks begun since the stream last played.

`AlsaStream` models `alsa_thread_main`, `alsa_stream_play`, `alsa_stream_pause`,
`alsa_stream_destroy` and the owner functions around them.

| variable | in the code |
| --- | --- |
| `is_input` | the direction, set by the build: `Init` leaves it open, so one run checks capture and playback |
| `running`, `closed` | the two atomics |
| `handle` | the handle in the owner's payload is not 0 |
| `ret` | what the last owner call answered |
| `app`, `worker` | program counters of the two threads |
| `frames_left` | the local of the I/O loop |
| `pcm`, `level` | the kernel's PCM state and the fill of its ring buffer |

`PlayStore`, `PlayPrepare` and `PlayWake` are the three effects of `play`;
`PauseStore`, `PauseDrop` those of `pause`; `CloseStore` ... `CloseRelease` those of
`destroy`. `Lock`, `TestRunning`, `TestClosed` are the wait loop, one load a
step; `CheckClosed` the load behind it; `Loop`, `IoTransfer` and the error steps
the I/O loop. A transfer may move fewer frames than asked; it blocks when it can
move none. The PCM operations and `HwTick` stand for the kernel and are modelled
from how the file uses them: `prepare` is refused while running, playback starts
when the start threshold is full (two periods, `alsa_configure_sw_params`),
capture starts with its first `readi`, `drop` makes the transfer under way fail.
`AlsaLifecycleTest` puts the calls of `alsa/stream_lifecycle_test.mbt` in place of an
application that may call anything: an output stream is played, paused once a data
callback has begun (`called`), and closed.

`NullStream` models `null_stream.c` the same way, with
`inject_error` as five stores and the delivery as eight worker steps. Request
`r` carries `r` as `op_tag` and as `status`, so a mixture of two requests shows.
`cb_count` is the worker's count of data callbacks. `serial` says whether
the caller waits for each error before it injects the next; `Init` leaves it open too. `windows` says which half of the
file was built, and is as open, so every run checks both. The halves
share the delivery and differ in how the worker sleeps: a condition under a
mutex (`Lock` ... `PaceTimeout`) or one auto-reset event (`event`, `WinTestClosed` ...
`WinPace`), whose worker looks at `closed` before `running` and not again before it
calls back. `MCNullStream` gives the
values of `after_callbacks` for TLC.

`JackStream` models the lifecycle in `jack_stream.c` with the server's four
callbacks. The rings are one flag there, `ready`: whether a round can be served.
`JackRings` opens that flag: the level of every channel's ring, the worker's look
at the rings, its moves frame by frame and channel by channel, and the process
callback channel by channel. The two are separate because they meet at one
point only, `CheckRings`, and the product adds states and no behaviour: a wait or
a callback of the lifecycle never touches a ring, and the worker's round in
`JackRings` can be delayed anywhere.

`WasapiStream` models one stream of `wasapi_stream.c` from `wasapi_stream_new` to
`destroy`. The builder (`New` ... `AwaitWake`) creates the wake event and the
worker and waits for `initialized`; the worker (`ComInit` ... `InitWake`) opens the
device, and on a failure writes `init_hr`, sets `initialized` and signals
(`FailHr`, `FailMark`, `FailWake`, which stand for all twelve places of the code
that do these three things). `held` is the set of what the build acquired and nothing has
released yet, so a leak and a use after release show. The worker's loop is
`Loop` to `IoErrorReturn`, its way out `Stop` to `ReleaseObjects`. `frames` is the
fill of the engine's buffer, `accum` the fill of the callback buffer. `Faults` are
the calls of the audio client in a round that fail, `Engine` the audio engine.

`CoreAudioStream` models one stream of `coreaudio_stub.c`. There is no worker: the
audio queue calls back on a thread of its own (`QueueCall`, `CbTest` ... `ErrorReturn`)
and the hardware layer calls the listener on another (`Notify`, `HalCheck` ...
`ReportReturn`). The build (`RateRead` ... `Prime`) first sets the device's sample
rate, if it captures, and polls for it (`RatePoll`, `Tick`); then it creates queue,
listener and buffers, any of which may fail (`BuildFails`). `queue` and `queued` are the
queue and the buffers in it, `lost` the buffers whose enqueue failed, `registered`
the listener. A failed build leaves the listener behind; `Stray` is its call.

`HostCalls` is about the functions that run on one thread and are gone when they
return: the queries of `wasapi_stub.c`, `alsa_stub.c`, `jack_stub.c` and `coreaudio_stub.c` and the
builds of ALSA, JACK and test host. What can go wrong in them is who holds what:
an interface released twice, a string forgotten on the third of nine error paths,
COM uninitialised under an interface, a ring freed while the server may call
`process`. So each function is its control-flow graph over the resources it
holds, written in the vocabulary of `CallSteps`: `Get` a resource with the help of
others, `Use` some, `Put` what is held (the code tests the pointer) or `Drop` it (the
code does not), `Test`, `Call` another function. `WasapiCalls`, `PosixCalls` and
`CoreAudioCalls` hold the graphs, 44 of them; a label stands for one call or one
`if` and a loop is a cycle. `HostCalls` is the machine that walks them: every `Get`
and `Use` may fail (`Fail`), unless the code does not look. A call of a project
function (`CallFn`) puts the caller on `stack` and walks the callee's graph with what it
takes over, borrows and shares; `Return` goes on in the caller with what came back.
Every function is also walked on its own (`NextCall`), with whatever its contract
lets it be given.

| resource | in the code |
| --- | --- |
| `com` | a `CoInitializeEx` this call made and has to undo |
| `enumerator`, `collection`, `device`, `endpoint`, `client`, `client2`, `props` | COM interfaces: none may outlive `com` |
| `mix`, `idw`, `variant`, `wide`, `tmp`, `string`, `list`, `name`, `hints` ... | memory of COM, of C and of ALSA |
| `id`, `bytes` | MoonBit values the callee has to drop, or hands over |
| `buf` | the growing text of a listing, which several functions share |
| `pcm`, `hw`, `ctl`, `file`, `uid` | device, parameters, card control, file, a retained CFString |
| `stream`, `mutex`, `buffer`, `dataCallback`, `errorCallback`, `thread` | a stream under construction |
| `client`, `ports`, `rings`, `ring1`, `ring2`, `active` | JACK's; `active` is the server's right to call `process` |

Two modules model MoonBit code. `StreamTime` is the arithmetic of `StreamInstant` and
`Duration` (`core/cpal_time.mbt`): constructors on wrapping machine integers, `Add`,
`Sub` and `DurationSince` on big integers with a test of the range, an optional
answer being a set of at most one. Its numbers are 64 bits wide and TLC's are 32,
so it has no run and is proved. `ConfigHeuristics` is the order of
`cmp_default_heuristics` (`Cmp`) and the loop that looks for the greatest range: `offered`
are the ranges of the device, `wanted` what the stream asks of one (nothing for an ALSA
device's default configuration), `at` and `best` the loop's place and its local;
`Take` and `Pass` are the two ways through its body. The loop's inputs are lists of any
length of ranges with any numbers, of which an instance would show little; it too is
proved.

Each stream module ends with a refinement mapping (`Mode`, `Round`, `Busy`) into
`StreamContract` and states `KeepsContract`. WASAPI capture serves a round in bursts, a callback for
every buffer the queued packets fill: its `KeepsContract` allows the extra action
`GoOn` of the contract, which is not part of `CNext`. `ContractPromises`,
`AlsaStreamProofs`, `NullStreamProofs`, `JackStreamProofs`, `JackRingsProofs`,
`WasapiStreamProofs`, `CoreAudioStreamProofs` and `CoreProofs` hold the theorems.

In the stream modules a step is one access to state another thread also uses. What is private to a
thread is folded into the access before it. The mutex is not a variable: the
worker holds it exactly while it is in `testRunning` or `testClosed`, and the
application holds it for one broadcast, so `MutexFree` guards the broadcast.
`pthread_cond_wait` may return without a broadcast (`SpuriousWake`).

Definitions marked "Deviation" are not the code. Each is the definition that
follows it with one plausible mistake in it (a lost wakeup, a missing join, an
off-by-one); putting it in place of the code's definition breaks one of the
properties, which is how we know that the property looks at that code at all.
`PROJECT.json` lists the pairs under `mutants`.

## The runs

| run | shows |
| --- | --- |
| `alsa` | playback and capture, every interleaving of play, pause, close and calls on a closed owner with the worker and a device that faults, overruns and stalls: the contract holds (`KeepsContract`), a paused device is silent (`PausedSilent`), the PCM is released last (`ReleasedUnused`), `close` returns even if the hardware stalls (`CloseReturns`), and a stream left playing on hardware with a clock keeps calling back (`KeepsPlaying`) |
| `alsa_healthy` | violated: under the lifecycle test's own calls and on a device without faults, the worker reports an error |
| `null` | the lifecycle of the test host; the error of the last request is always delivered, also if its stores fall into the delivery of the one before (`Delivered`); for a caller that injects again only after the last error came, at most once (`AtMostOnce`), never torn and never early (`WholeAndDue`) |
| `null_overlap` | violated: the payload of a second `inject_error` during the delivery of the first is delivered twice (`OncePerRequest`) |
| `jack_lifecycle` | the contract, the release order against the server's callbacks, the end of the stream after a shutdown or a new sample rate (`ServerEnds`), `CloseReturns`, `KeepsPlaying` |
| `jack_shutdown` | violated: a shutdown that is never reported |
| `rings` | playback and capture: no sample is dropped or made up by the worker (`NoSampleLost`), channels agree until a process call comes short and are never more than a period apart (`DriftLimited`), the worker is never shut out (`KeepsServing`) |
| `rings_interleaved` | violated: in capture one overflow that hits one channel and not the other leaves their rings a period apart |
| `wasapi` | playback and capture, from the build with a failure at any step to close: the contract (`KeepsContract`), the release order (`ReleasedUnused`), no leak and no stream without an open device (`WholeOrNothing`), build and close return (`CallsReturn`), `PauseStops`, `KeepsPlaying` |
| `wasapi_drain` | violated: more than one data callback begins after `pause` returned |
| `coreaudio` | playback and capture, from the sample rate to close, against queue, listener and every failing call: the contract (`KeepsContract`), nothing freed under a callback (`ReleasedUnused`), no buffer lost without an error (`BuffersAccounted`), a silent stream is reported (`SilentMeansTold`), build and close return (`CallsReturn`), a stream with a buffer left keeps calling back (`KeepsPlaying`) |
| `hostcalls` | every path of 44 native functions, but for the early returns of three on an empty id: what was acquired is released once, a failed call keeps nothing and a successful one what it hands over (`NothingLeaked`); nothing is used, lent or released that is not held or that something held, by the function or a caller, still needs (`UsedWhileHeld`) |

Deadlock is checked in every run but two: a closed owner still answers
calls, so no stream model may stop, and `HostCalls` goes on to the next call. In
`coreaudio` a build may fail, after which nothing more happens, and in `alsa_healthy`
the test ends.

## Bounds, and why they are enough

* ALSA: `Period = 2`, so a ring buffer of four frames. A transfer can be
  complete, partial or blocked; the buffer can be empty, below, at and above
  the start threshold. The properties compare frame counts with 0, a period and
  the buffer only, and the theorems hold for every period. The number of owner
  calls is not bounded, but in `alsa_healthy`, which makes those of the test.
* Test host: two requests (`MaxRequests`) are the fewest that overlap.
  `after_callbacks` is -1 (due at once) or 2; the count of callbacks saturates at
  `MaxAfter = 2`, above which every comparison has the same outcome. `errors`
  saturates at 2, which is enough to tell "twice" from "once". The theorems hold
  for any number of requests and any set of values.
* JACK lifecycle: no bounds, the state space is finite. Xruns and rate changes
  come any number of times, a shutdown comes once, as the server sends it.
* Rings: three channels, so that there is one that is neither first nor last;
  `Period = 2`, so that a process call can come between two frames;
  `Capacity = 15`, the eight periods of `jack_rb_size_bytes` less the slot a JACK
  ring keeps free. The size is not a multiple of the period, as in the code,
  which is why a capture ring can overflow with a frame of room left.
  `rings_interleaved` takes two channels and two periods for a short
  counterexample. The theorems hold for every number of channels, period and
  capacity.
* WASAPI: `FramesPerCb = 2` and `BufferFrames = 3`: a packet can be less than a
  callback buffer, fill it exactly or run over into the next one, and the
  engine's buffer can have room for a callback or not. `late` saturates at 2. The
  theorems hold for every size. Owner calls and failures are not bounded.
* CoreAudio: `Buffers = 3` is the code's own number. `Deadline = 2` ticks are the
  fewest in which the rate can change between two polls; the code's poll sleeps
  10 ms a hundred times. The theorems hold for every number of both.
* `HostCalls` has no parameter and no bound: the graphs are finite and the run
  walks all of them, so it is exhaustive and there is nothing left for a theorem
  to generalise. A JACK stream has two channels there, the fewest with which a
  build fails between two rings.

## Fairness

* The application finishes a call it began (`AppContinue`, weak) and need not
  call anything: play, pause, close and inject are not fair.
* The worker thread is scheduled and user callbacks return (`WorkerStep`, weak).
  A spurious wakeup is not fair.
* ALSA: a transfer that can move frames again and again does in the end
  (`Transfer`, strong). Strong, because the hardware may underrun between two
  chances and disable it for a while; the kernel wakes a blocked writer when
  there is room. A device fault and a transfer of 0 frames are not fair.
* The hardware clock (`HwTick`) and the server's process callback (`Process` of
  `JackStream`) are not fair in the specification, so `CloseReturns` holds with
  stalled hardware. `KeepsPlaying` has their fairness as its premise, for it
  cannot hold otherwise.
* A server that began the shutdown callback finishes it (`ShutdownContinue`).
* WASAPI: `AppContinue` and `WorkerStep` only; failing calls, the engine and the
  size of its packets are not fair. The waits have timeouts in the code, so a wait step is
  always possible. The drain loop ends only if the worker is at times faster
  than the engine: `CloseReturns` and `PauseStops` have that (`Drains`) as their
  premise. The premise of `KeepsPlaying` (`Healthy`) is that the engine goes on,
  that fetching a packet succeeds again and again, and that calls stop failing.
* CoreAudio: a call that began goes on, the clock of the poll ticks, and callbacks
  that began finish (`Build`, `CallContinue`, `Tick`, `CbStep`, `HalStep`, weak). The queue need not call
  back: `KeepsPlaying` has that (`QueueCall`) as its premise. From the system it is taken
  that a queue calls back on one thread and only between start and stop, that a
  synchronous stop and the removal of a listener wait for the call in flight, that
  one thread notifies the listener, and that empty input buffers come only while
  the queue stops.
* `JackRings` is about a stream that plays: `Process` and `Worker` are weakly fair.

## What is proved

All safety properties of the passing runs but `hostcalls`, which has no constants,
are theorems, with the constants unbounded. So are consequences of the contract and
the safety half of every liveness property, which no run states, and the arithmetic and the
order of the core (below). The only assumptions are those named in the modules
(`AlsaAssumption`, `NullAssumption`, `RingAssumption`, `WasapiAssumption`,
`CoreAudioAssumption`: types, a period of at least one frame, a ring or an engine
buffer that holds a period, at least one buffer).

* **`AlsaStreamProofs`.** `TypeOK` is inductive as it stands. `PausedSilent` and
  `ReleasedUnused` are not; `Lifecycle` adds where `closed` and the worker's exit
  stand against the steps of `destroy`, and `Silent` says that between its drop
  and the next play the PCM does not run and no transfer can set it off: a
  worker inside one finds it dropped (the transfer fails), and a worker that has
  prepared it again looks at `running` before its next transfer. `Implements` shows
  `Spec => KeepsContract`: one lemma per actor, each step of which is a step of
  `StreamContract` or a stutter under the mapping.
* **`NullStreamProofs`.** The lifecycle as above. For the injection, `Outstanding`
  says which step of the delivery may be under way while a request is being
  stored, `Payload` which request the loaded values belong to, `Timely` that
  the count has reached the current request's bound. `OnceEach` and `ErrorsWholeAndDue`
  follow. These three hold of a caller that waits (`serial`, which no step changes); for
  one that does not, `null_overlap` refutes `OncePerRequest`.
* **`JackStreamProofs`.** `Lifecycle` relates the client, the server's callbacks
  and the owner's close. A worker that took a shutdown may have left before
  `closed` is set, so its exit does not imply `closed`: the invariant speaks of the
  owner's steps instead.
* **`JackRingsProofs`.** `Enough` counts, per channel, what the worker has still
  to move in its round (`Left`) and says that the ring has it; the process
  callback only adds to it. That is `NoSampleLost`. For the drift, `T(c)` is the
  level of channel `c` as it will be when the worker's round is over; a step of
  the worker changes it by the same amount for every channel, the process
  callback by a period or less for one. `Skew` bounds the distance of two channels,
  with twice a period only between the process call's serving one of them and
  the other (`Mixed`), and `Even` says how they compare before the first short
  call. `DriftIsLimited` reads the two at a point between periods.
* **`WasapiStreamProofs`.** `Lifecycle` ties the handshake together: a worker that
  announced success (`initialized` without `init_failed`) serves until `closed`.
  `Holdings` says for every step of either thread what has been acquired by
  then; `ReleaseIsLast` and `BuildIsWhole` are read off the two.
  `Room` says that a playback callback under way has its frames free in the
  engine, which the engine only increases: without it `TypeOK` is not inductive.
* **`CoreAudioStreamProofs`.** `Circle` counts the buffers: in the queue, lost, or one in
  the callback's hands, for every step of the callback and every state of the
  queue, the build's priming included. `Told` says what a cleared `running` after a
  successful `play` means for the listener's position, and the rest of `IInv` where
  the three threads can be against each other in a build and in a close.
  `BuffersAccounted`, `SilentMeansTold` and the refinement are read off it.
* **`CoreProofs`.** Of `StreamTime`: `FromNanosIsExact` says that the truncating quotient with
  its correction is the division that rounds down, so that `AddIsExact`, `SubIsExact` and
  `DurationSinceIsExact` can say it all at once: the answer is the set of instants (or durations) with
  the exact number of nanoseconds, which has one element or, outside the range, none.
  `DifferenceFits` shows that the guard of `duration_since` never refuses a difference of two
  64-bit numbers. `AddIsUndone` follows. `DurationIsExact` is about the panic for a wrapped sum,
  `InstantIsExact` about carry and borrow, and `BorrowOverflows` about what the borrow does below the
  bound of `InstantIsExact`. Of `ConfigHeuristics`: `HeuristicsAreAnOrder` (total, transitive,
  antisymmetric up to ties), and from it `LoopChoosesGreatest` by the invariant that `best`
  is the first greatest match of the ranges seen so far; `DefaultIsChosenAgain` joins the two
  loops: what was chosen among all ranges is chosen among those that match its own configuration.

Beyond the properties of the runs:

* **What the contract promises** (`ContractPromises`). `ClosedForGood`: a close is never
  undone, and after it returned nothing happens. `OneLateCallback`: at most one data
  callback begins after a pause, a close or the stream's own end and before the
  next play. The argument is that a round is opened only by a playing stream
  and owes one callback (`Owed`); `Budget` says that what came late and what is owed
  make at most one. Through its `Implements`, each backend has both as its own theorem (`NothingAfterClose`,
  `OneLateCallback`). WASAPI implements the contract with bursts, so it has only the
  first from there. `PlaybackOneAfterPause` proves the second for its playback from
  the code's own steps; for capture the run `wasapi_drain` refutes it.
* **No wakeup is lost** (`NoWakeupIsLost` of ALSA, JACK and the test host). `NoLostWakeup` is what
  a missed signal would break: play has returned, or close joins, and the
  worker sleeps. The invariant `Wakeful` says who still owes the worker a wakeup when it
  is about to sleep on an old look at the atomics: a broadcast that needs
  the mutex comes after the worker has gone to sleep; the auto-reset event of the
  other half of the test host stays signalled. In ALSA close must also get the worker out of a transfer: `JoinDropped`.
* **Close is near** (`CloseIsNear` of the same three). `Distance` is a bound on the worker's
  steps to its exit. Once `closed` is stored, every step of the worker
  decreases it and no step of another thread, the device or the server
  increases it. Together with `NoWakeupIsLost` this is `CloseReturns` without its fairness.
  WASAPI's `RoundsAreFinite` is the same for a worker that also opens the device: its
  distance grows with the next round of a stream that is not closed and with the next
  packet of a capture, and never else, so those two are all that can keep a
  build or a close waiting; the first ends with `closed`, the second is the premise `Drains` of the runs.
  CoreAudio has no worker; `ReturnIsNear` measures the call (`Left`): its own steps, the clock's
  ticks and the steps of the callback it waits for (`Awaited`) decrease it, and nothing,
  no new notification and no new callback, increases it.
* **The worker is not shut out** (`NeverShutOut` of the rings). A process call leaves the ring
  it serves ready for the worker unless the worker is moving frames, and a ready
  ring stays so until the worker moves some. The case to argue is
  a capture ring that refused a period, in a ring whose size is no multiple
  of one: `Whole` says that seen between rounds it holds whole periods, so what is
  too full for one has one. This is `KeepsServing` without its fairness.

* **The next round is near** (`NextRoundIsNear` of all five backends). `ToData` is a bound on the steps
  from where the worker is to the next data callback. While the stream plays, every step
  of the worker outside the callback decreases it and no call of the owner, no callback of the
  server and no step of the listener increases it: whatever
  interleaving, a playing stream cannot lose its way. What may keep it waiting is named and is not
  the worker's doing: a transfer that moves nothing or a new XRUN (ALSA), a nap while
  the rings are not ready (JACK), an engine that has not signalled, has no room or has
  recorded nothing, and a call of it that fails (WASAPI). CoreAudio's theorem adds that a running queue holds a buffer to
  call back with unless all were lost (`Unstarved`). This is `KeepsPlaying` without its fairness.
* **What was asked for is near.** `DeliveryIsNear` (test host): the error of the last request
  is at most `27 + 14 * MaxAfter` steps of the playing worker away, and only the next call of `inject_error`
  puts it off. It holds for callers that wait and callers that do not: `Armed` says that its request stays
  pending, or, if its stores fell into the claim of the one before, that the worker has yet to load its payload. `RateChangeIsHeeded` (JACK): an announced
  rate is not forgotten while the stream plays and ends the worker in eleven steps, naps and callbacks
  included; the other half of `ServerEnds`, the shutdown, sets `closed`, so `CloseIsNear` covers it.
  `PauseIsHeeded` (WASAPI): a paused stream's worker stops its client in a bounded number of steps, however its calls
  fail, unless capture fetches one more packet, and a silent stream stays silent. These are `Delivered`,
  `ServerEnds` and `PauseStops` without their fairness.

What stays with TLC: the liveness properties (`CloseReturns`, `KeepsPlaying`,
`CallsReturn`, `Delivered`, `PauseStops`, `ServerEnds`, `KeepsServing`), as liveness under
fairness and that an action is enabled are beyond the prover: that a worker whose distance
shrinks with every step does take these steps is what the runs add; and `NothingLeaked` and
`UsedWhileHeld`, whose run is exhaustive: a proof would list the labels of 44 graphs
once more.

## Where code and documents disagree

Each is a run that TLC must find violated; `PROJECT.json` quotes the lines.

* `alsa_healthy`: the lifecycle test plays, waits for a data callback and pauses. The
  `pause` comes when the worker has looked at `running` and is in its transfer; the
  drop makes `snd_pcm_writei` fail, and the worker reports that as a stream error on
  a device without faults. The test's error callback panics, so the test
  passes as long as this interleaving does not happen.
* `null_overlap`: the wrapper says errors are delivered at most once per request;
  a request stored while the worker claims the one before is delivered in its
  place and again as itself.
* `jack_shutdown`: the shutdown callback sets `shutdown_pending` and then
  `closed`; a worker that has just looked at the first sees the second and leaves
  without a report.
* `rings_interleaved`: in capture jack_process decides per channel whether a period
  fits. A worker that frees a frame between two of the decisions has the first
  channel overflow and the second take its period: the rings are a period apart, and
  once the older frames are read the samples of a frame belong to different
  instants, until another overflow evens them out. A comment says each frame is one
  float per channel in these rings.
* `wasapi_drain`: the capture loop fetches and serves packets until the engine
  has none and looks at `running` only then, so callbacks go on after `pause`. The
  smoke test panics if there is more than one.

Seen and left without a property, because no document promises anything: `play`
stores `running` before it prepares the PCM, so an awake worker may write into
a PCM that is dropped or about to be emptied; a WASAPI `Start` that fails stores
`running = 0` over a `play` that came meanwhile; without memory for the stream
the WASAPI build does not free the endpoint id; `play` on a JACK stream that ended
by itself answers success; JACK's build hands a thread handle that `pthread_create`
refused to fill to `destroy`, which joins it unless it is 0 (the one exception of
`UsedWhileHeld`); a CoreAudio build that fails late unregisters no listener and
releases no sample buffers; one whose format is refused (`ca_make_asbd`, lines 1345 and 1469) keeps
both callbacks, unlike every other failure of it and the rule of line 178; one that succeeds primes the
queue with silence where its comment speaks of the user callback; the sample rate that its poll has seen may change
again before the queue exists; JACK's rings keep their frames across a pause; after
an error or a pause ALSA's capture serves a buffer that is only partly new; a
WASAPI name that grew between the call for its
length and the call for its bytes is answered as zeros; a `StreamInstant` made of
fewer than -1147483648 nanoseconds is 2^32 ns late and, but for one value, not normalised, as the 32-bit
sum of its borrow wraps (`BorrowOverflows`).

## What is not modelled

* Callbacks that call back into their own stream: `close` inside a callback
  joins its own thread.
* Sizes and formats: what a build computes before it calls the system, and what
  the answers of a query say. Of a query only the control flow is modelled.
* Calls the MoonBit wrappers never make: a null result array, a buffer without
  room, an empty id (the C functions test for them).
* CoreAudio's names and manufacturers: whether their strings have to be released
  is a rule of the system and not in the code.
* The pool of sample buffers of a CoreAudio stream, and its callbacks as things to release.
* What `IAudioClient_Stop` answers: the WASAPI worker ignores it, and the model takes it
  for success.
* A JACK port without a buffer, or a channel without a ring: `jack_process` skips them.
* Contents of buffers and rings, and the time stamps handed to callbacks: only how much is
  where. `StreamTime` is their arithmetic; what the streams put into them is not modelled.
* A handle value of a closed event that the system gives to another event while
  `destroy` is about to signal it (`wasapi_stream.c:776`).
* A server that changes its period after the build (the code registers no
  callback for it).
* The MoonBit side of enumeration but for the choice of a range, dispatch, error texts, UTF-8:
  stateless.
* Which formats a backend has a tag for: `ConfigHeuristics` takes any set of them.
* Weak memory: every shared access in the modelled files is a
  sequentially consistent C11 atomic or interlocked operation, is under the
  mutex, or (`init_hr`) is published by one. The exceptions are the pointer
  `audio_event`, which `destroy` reads while the worker may clear it, and CoreAudio's
  `running` and `invalidated_sent`, plain `volatile int`; their loads and stores are
  modelled as whole, before or after each other.

## Plan

What is left, in order of what can go wrong:

1. `Validation` and `Identifiers`: which error a wrong configuration gets, that
   parsing inverts formatting; boundaries of the sample formats.
2. The sizes a build computes at their 32-bit widths, for all five backends, and the
   time stamps of the test host (`null_time_from_frames`).
3. Callbacks that call their own stream, once the repository says what they may do.
