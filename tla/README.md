# A verification project for the DFONE host software

DFONE is an eight-channel radio direction finder. This repository holds the
program on the host computer (`src/host_app/DFONE`); the board's firmware is
elsewhere. The modules here model the host's C++ code in TLA+, check it with
TLC on small instances and prove part of it with TLAPS. Paths below are relative
to `src/host_app/DFONE` unless they begin with `src/`.

## 1. The system

| Component | Code | State | Operations |
|---|---|---|---|
| Session | `src/public/session.cpp`, `public/include/dfone/session.hpp` | the two clients, `config_`, `last_error_` | connect, disconnect, destroy, set_work_mode, configure, five `set_*`, two captures, storage query, record |
| Control client | `src/transport/control_client.cpp` | socket, `connected_`, `next_seq_` | command frame out, response in, 10 s timeout, close on error |
| Data client | `src/transport/stream_client.cpp` | socket, `open_` | one capture packet, or the packets of a recording into a file |
| Wire protocol, sockets | `src/common/include/dfone/internal/*.hpp` | none | packet headers, socket wrappers |
| Maintenance client | `src/public/maintenance.cpp` | endpoint, `last_error_` | board ID, status, read and write the network configuration, firmware update with progress |
| GUI | `user_gui/src/user_gui.cpp` | `AppState` under one mutex: flags, cancels, pending update, snapshots, plot data; one worker thread; the session | frames, buttons, settings, ten kinds of jobs, shutdown |
| GUI display | `user_gui/src/user_gui.cpp` | in `AppState`: last capture, preview, phases, spectrum with its channel and FFT size, DOA window and result; in the UI thread: a `PlotView` per plot, text boxes and their automatic names | store and derive, copy for a frame, edit, zoom, drag, draw, estimate, save |
| Command-line tools | `user_gui/src/user_cli.cpp`, `examples/windows_cli_capture/main.cpp` | options | one pass: read options, connect, set, capture, write, exit |
| MATLAB binding | `matlab/dfone_mex.cpp`, `matlab/+dfone/DfOne.m` | table of handles to sessions, counter, lock; an object's handle | open, close, and the session's calls by handle |
| DOA processing | `factory/src/doa_processing.cpp` | none | input selection, covariance, three methods, peaks, symbol search |
| Signal source | `plutosdr_signal_source` | none of ours | transmits a test waveform |
| Board (external) | not in the repository | settings, recorder, services | executes commands, streams, updates itself |

How they interact. A program (GUI, CLI, MATLAB) calls the session; the session
calls its two clients one after the other in the caller's thread; each client
has a TCP connection of its own to the board. A capture is a command on the
control channel, a packet on the data channel, and then a response on the
control channel; a recording is three commands and then packets until the
announced length has come. The maintenance client opens a third connection, to
another port, for each call. The GUI's two threads share `AppState` under a
mutex, but the session is used *without* it: what keeps two threads out of the
session is `busy` and who may start a job.

What is hard, and what makes each part correct:

- **Channels in step.** Responses carry no check against the command: the host
  takes the next one. A capture that gives up on the data channel leaves a
  response unread. Correct: a response read, a packet returned and a file
  written belong to the call they are returned from, while no exchange was
  abandoned, and afterwards the damage is exactly one unread response each.
- **What the host believes of the board.** `config_` is a cache of the board's
  settings that also labels captures. Timeouts, refusals half way, late
  execution and reconnects make it stale. Correct: it agrees wherever the host
  can know.
- **Descriptors.** Two sockets opened one after the other, closed by errors,
  `disconnect`, reconnect. Correct: each is closed exactly once.
- **GUI threads.** Decisions by stale snapshots, joins under a mutex, flags
  lowered on every exit, cancels reset by a starting job, exceptions. Correct:
  one user of the session, no deadlock, flags mean what they say, a stop stops
  and the window closes.
- **Firmware update.** The board reboots at the end and the connection dies
  with it: is that success? Correct: true only if the script succeeded, and
  true whenever its announcement was read.
- **Network configuration.** What is written must be what is read.
- **Handles.** Objects and scripts hold copies of numbers; sessions go away
  under them, and the MEX file may be cleared and count from 1 again. Correct:
  a handle reaches its own session or none, and every connection can be closed.
- **Display.** The job derives curves while the panel edits the channel and the
  FFT size without the mutex. Correct: a frame draws one capture, and once both
  threads rest the spectrum is the one selected.
- **Views.** Zoom and drag act on a view of data that change between frames.
  Correct: what is drawn exists and fills the view.
- **Estimates.** A gate, a slice, a window and a result, stored in one go after
  the lock was released. Correct: they are of one capture and of the samples
  asked for.
- **Names and numbers typed.** A file must not replace an earlier one; a number
  accepted must be the one typed, whatever the width of `unsigned long`.

`PROJECT.json` lists the components (with what is left out), and the hazards,
each at its line with the properties that would catch it.

## 2. Modules

| Module | Models | Extends or uses |
|---|---|---|
| `SessionAPI` | what a session promises its caller: atomic begin and end of calls | |
| `DfOneSession` | session, both clients, both channels, the board's side | instantiates `SessionAPI` |
| `DfOneSessionMC` | constants for TLC | `DfOneSession` |
| `DfOneSessionProofs` | theorems: types, descriptors, the interface | `DfOneSession` |
| `DfOneSessionChannelProofs` | theorems: what is on the channels | `DfOneSessionProofs` |
| `GuiWorker` | the GUI's threads, jobs and flags | |
| `GuiWorkerMC`, `GuiWorkerProofs` | constants; theorems | `GuiWorker` |
| `NetworkConfig` | the text form of a network configuration, as functions | |
| `NetworkConfigProofs` | lemmas on texts and lines, and that what is written can be read | `NetworkConfig` |
| `MaintenanceAPI` | what a maintenance client promises its caller: work handed over, carried out at most once, and reported | |
| `Maintenance` | the maintenance client and the board's service | `NetworkConfig`; instantiates `MaintenanceAPI` |
| `MaintenanceMC` | constants for TLC | `Maintenance` |
| `MaintenanceProofs` | theorems | `Maintenance`, `NetworkConfigProofs` |
| `MexHandles` | the MATLAB binding's table and its users | |
| `CaptureTool` | the two command-line tools | |
| `HostProgramsMC`, `HostProgramsProofs` | constants; theorems | `MexHandles`, `CaptureTool` |
| `CaptureDisplay` | what the GUI derives and shows of a capture | |
| `PlotView` | a plot's view and its points | |
| `DoaEstimate` | what an estimate is made of | |
| `OutputFiles` | automatic names and baseband saves | |
| `GuiDataMC` | constants for TLC | the four above |
| `GuiDisplayProofs` | theorems | `CaptureDisplay`, `PlotView` |
| `GuiResultsProofs` | theorems | `DoaEstimate`, `OutputFiles` |

### DfOneSession

The host is one sequential process: the manual forbids two threads in one
session and every call blocks. `pc` is where the running call is, `Plan(call)`
the list of its commands and `step` the one being exchanged. The actions follow
the code:

| Actions | Code |
|---|---|
| `SetWorkMode`, `RejectCall`, `BeginCall`, `Disconnect`, `Destroy` | the entry of each public call: `require_connected`, `require_synchronized_mode` |
| `BeginConnect`, `ConnectControl`, `OpenStream`, `OpenStreamFails` | `connect()`: the old connection closed, the control socket, the data socket, each failure |
| `SendFrame`, `SendFrameFails` | `send_command_frame`; a write error closes the channel |
| `ReadCapture`, `ReadDataFails` | `read_capture_packet`, matched by class of packet only |
| `ReadResponseFails`, `CommandRefused`, `NextCommand`, `RecordStarted`, `CallSucceeds` | `read_response` and what each call does next |
| `OpenRecordFile`, `OpenRecordFileFails`, `ReadRecord`, `ReadRecordFails` | `read_record_packets` |
| `Serve...`, `StreamRecord`, `StreamStray`, `Reboot` | the board (external) |

`cmdQ` and `respQ` are the two directions of the control connection, `dataQ` the
data connection, `oldQ` the frames of a closed connection that the board will
still execute. `sockets` counts descriptors the process has open on the board.
`file` is what the output stream of a recording has been handed, `whole` whether
the disk has it: `read_record_packets` returns with the last bytes still in the
stream's buffer, and its destructor writes them or fails unseen, so `Recorded`
chooses `whole` freely in the step that reports success. `RecordingIsOwn` is
about the stream, which is all the code looks at; `RecordingAsDocumented` is
about the disk and is violated.
History variables (`owed`, `adrift`, `known`, `orphans`) are used by properties
only.

Assumed of the board, which is not in the repository: it serves one control
connection at a time and in order (frames of an old one are executed or dropped
before a new one's); it answers each command once, captures with a packet
before the response; a recording ends with its data connection; a reboot
resets its settings. It may refuse, be late without limit, send one packet of a
type nobody expects, and reboot between any two steps.

### GuiWorker

The UI thread goes through frames (`top`, join an idle worker, `draw` where
the snapshot is taken, `events` where the buttons act). A job is a sequence of
steps, each from one locked block to the next, so every interleaving that the
mutex allows is explored and nothing else; `MutexFree` says when the UI holds
the mutex through a join. All jobs share the phases `begin`, `configure`,
`loop`, `take`, `apply`, `capture`, `retry`, `reopen`, `end`, `finish` and differ
by the sets `NeedsConnected`, `Configures`, `Loops`, `Reconnects`, `Marks`. The
four settings of the panel are one, numbered by the order of the user's edits:
"newer" is then a comparison. A session call succeeds, fails, or fails and
closes the session.

What the model shows of the code, beyond the properties that hold:
`shutdown_app`'s cancel is lost when it comes before the first block of a job
(`lostStop`); a loop stopped between losing the connection and its first attempt
to reconnect leaves `connected` true; a reconnect sends the settings of the time
the job was started; an update queued for a loop that ends first, or for a
single estimate that takes none, is applied by a later loop over newer settings
(`leftover`); an exception leaves a `*_running` flag up. The properties name
these exceptions, each with the narrowest condition TLC accepts: they say that
the code goes wrong in no other way, and the hazards concerned say so in a note.
`LiveEditsTaken` is about the setting that reaches the board: an update queued for a
loop is in the session's configuration in the end, or a newer one is, unless the
loop ends first or loses its connection (`retry`), when `reconnect_app_session`
throws the update away. That an update was merely taken from the queue is not
enough.

### Maintenance and NetworkConfig

`Maintenance` has the host (`pc`), the connection (`link`, `up`, `down`) and the
service (`svc`). A call is `Call`, `Connect`, `SendRequest`, then `ReadReply` or,
for an update, `SendChunk` and the event loop (`ReadProgress`, `ReadText`,
`ReadError`, `ConnectionEnds`, `TextCut`). An event is its kind and text in one;
`torn` says that the connection ended inside its text. `Stall` is the 30 s
timeout of a send or a receive. Percentages are the fractions of the code times
a hundred. `NetworkConfig` takes a text as a sequence of tokens: the four
characters the parser looks at (newline, `#`, `=`, blank), its keys and modes,
and the words of the users' values (the constant `Words`).

Assumed of the service: it serves one connection at a time, starts the script
only on a whole package, and the script prints its completion line exactly when
it has succeeded. It may refuse, split that line over two events, be late, lose
power, and reboot before its `DONE` when asked to.

`MaintenanceAPI` is what is left for the caller: `Begin` and `Succeed` or `Fail`
of a call, `Take` of its work by the board (once, and never while older work is
open) and `Settle` (carried out, or dropped). Connections, packages, events and
timeouts are gone; that work may be settled after its call has failed is not. Its
`open` is a service that holds work, its `flashed` the calls whose script has
succeeded; a success (`CarriedOut`) is of the call's own work, and
`get_network_config` returns what the board holds when it returns.

### MexHandles

MATLAB runs one statement at a time, so a command is one step.

| Actions | Code |
|---|---|
| `ObjectOpen`, `ObjectClose`, `ObjectDelete`, `ObjectCall` | the methods of `DfOne.m` with the MEX commands they call (`ObjectOpen` closes first) |
| `ReadHandle` | a script copies an object's `Handle` |
| `ScriptOpen`, `ScriptClose`, `ScriptCall` | `dfone_mex` called directly, with a number |
| `ClearMex` | MATLAB unloads the file, which it may when no lock is held; the next command loads it with an empty table and `next_handle` 1 |
| `NoSlot`, `NoResult` (in the opens) | an allocation fails after `mexLock`, or after the table was filled |

`table`, `next` and `locks` are `sessions()`, `next_handle()` and MATLAB's
count. Sessions are numbered for the properties; a session's call succeeds or
loses a channel, which is all the table depends on.

### CaptureTool

One program with the differences of the two: `Options`, `Sets` (the settings it
sends, in order), `Limit` (the check after `strtoul` or `strtoull`), the default
output. `ReadOption` takes one option (`NumberOption`, `OutputOption`,
`BadOption`, `HelpOption`, `Usage`), then `Connect`, `SetSucceeds` or `SetFails`
along `Sets`, `CaptureSucceeds` or `CaptureFails`, `Write` or `WriteFails`,
`Close`. `Return` is every `return` of `main`: it runs `SessionDisconnectGuard`
in `dfone_cli`, and nothing in the example. `Strto` keeps what the C functions
do: saturate, negate, read an empty text as 0, in the build's width; the cast to
`size_t` in `parse_size` (`user_cli.cpp:57`) is taken for the identity, which it
is in 64-bit builds only. `helped` is set when the program has only shown its
usage and returned 0, on request or for a first argument other than `capture`:
with no other exit code 0 may a capture be missing (`EndsAsReported`). `Close` is
the destructor of the output stream, after the program's test of it: it may leave
a cut file under exit code 0.

### CaptureDisplay

The job: `StoreCapture` and `UpdatePreview` are the two locked blocks of
`store_capture`; `UpdatePreview` keeps the mutex through `ReadSize`,
`WriteSize`, `ReadChannel`, `WriteChannel`, `Transform` and `ComputePhases`. The
UI: `TakeSnapshot` is `snapshot_ui`; the spectrum panel takes no mutex, so its
`ChooseChannel`, `EditSize`, `ReadBack`, `WriteBack` fall between any of the
job's; `RefreshSpectrum` is the update under the mutex after a change. Each read
or write of the shared channel and size is a step.

### PlotView

A view is `of` (the shape of the data it was made for) and two axes. `DrawFrame`
is one frame of one of the three plots: `Stale` resets it to `Fresh`, `Wheels`
zooms about the mouse, `Draggings` moves, a double click resets, each ends in
`Clamped` (`clamp_x_view` and its relatives); `PointsOf` are the indices the
lines are drawn through. `DrawText` is a plot without enough data.

### DoaEstimate

`EstimateUngated`, `EstimateGated` and `Miss` are the three ways through
`capture_and_estimate_doa`. `Starts` are the positions at which a symbol may be
found, `Gated` and `Slice` cut the window, `Prepared` is the part
`prepare_doa_input` takes of it, `Accepted` the estimators' checks and
`PickPeaks` is `find_peaks`. The correlation and the power are chosen freely.

### OutputFiles

`Type`, `Press` (with `PrepareNext`, the automatic name), then `Refused` or
`Open`, `WriteChunk`, `Stop`, `LeaveLoop`, `Close`. `files` are the names opened
so far. The name functions (`Directory`, `StemOf`, `ExtensionOf`,
`Timestamped`, `InBox`) follow the code's text operations on a few units.

A behaviour of `HostProgramsMC` or `GuiDataMC` is of one of its parts: the board
serves one host program at a time, and the parts of the display share nothing
they write.

## 3. Runs

| Run | Question | Bounds | Result |
|---|---|---|---|
| `SessionStream` | Are responses, packets, files, descriptors, settings and labels the caller's own, and is a half-open session silent? | 5 calls, 1 reboot, 1 stray, sequence numbers modulo 5 | holds, 7.4 million states |
| `SessionLive` | Does every call return, each step bringing it nearer, and is the session a `SessionAPI`? | 4 calls | holds |
| `SessionMetadata` | Is a capture labelled with its own rate and LO? (manual:317) | 4 calls of connect, set_sample_rate, capture_iq | violated |
| `SessionRecord` | Is a recording reported done in its file? (manual:568) | 2 calls | violated |
| `SessionKind` | Is a capture of the kind it is marked? (manual:245) | 6 calls | violated |
| `SessionDestructor` | Does the destructor release the sockets? (manual:378) | 3 calls | violated |
| `GuiSafety` | Exclusive session, no deadlock, flags, status, order of edits | 4 jobs of any kind, 2 edits, 1 exception | holds, 6.5 million states |
| `GuiLive` | Do stops (in how many steps), shutdown and live edits take effect? | 2 jobs, 2 edits, 1 exception | holds |
| `MaintenanceRun` | Are results the board's, progress monotone, configurations read back, does every call return, and is all of it a `MaintenanceAPI`? | 2 calls, 2 events of a script, 1 power loss, packages of 2 chunks | holds, 158 thousand states |
| `MaintenanceReboot` | Is a connection that ends after completion no failure? (API_USAGE:341) | 1 call | violated |
| `HostPrograms` | Do handles reach only their own session, and does a tool's end say what it did? | 2 objects, 4 opens, 1 failed allocation, 2 loads; 2 options of 12 numbers, types of 4, 8 and 16 values | holds, 282 thousand states |
| `GuiData` | Is what is shown, drawn, estimated and saved of the right capture, channel, samples and name? | 2 captures of 0, 1 or 5 frames, 3 FFT sizes; data of 0 to 6 points; 2 estimates; 3 files | holds, 720 thousand states |

Why the bounds are enough. Five session calls are connect, a call that goes
wrong, a second that meets what the first has left, a reconnect, and a call on
the new connection; the sequence numbers wrap within them. A second reboot
or stray only repeats the first. Four jobs are a connect, a job that loses the
connection or leaves an update, a second one and the job that meets the rest;
two edits are an older and a newer setting. Two maintenance calls are a write or
an update and the call that meets its consequences, a busy service included; two
events are two percentages out of order, or a percentage and a log text. The
percentages -5 and 130 are outside the range on both sides and, clamped, go back.

Four opens are one for each object, one by the script and one after a clear,
with the counter at 1 again while copies of the first loading remain; a second
failed allocation only adds another lock. The tools' types are scaled: W16, W32
and W64 are 4, 8 and 16 for 2^16, 2^32 and 2^64, `Clocks` 2 for 4, and the
numbers typed are on both sides of each of them and of their negatives; two
options are one overriding the other, or two at once. In `GuiData` a capture may
be shorter than a frame, than a block and than a preview, and FFT sizes lie on
both sides of its length; 2 captures are an old one and a new one. A plot gets
no point, one, fewer than its lines and more, a y range wide and narrow, another
start; the wheel turns at two opposite corners and a drag goes out on both
sides; any number of frames follow each other. Estimates: windows, searches and
counts below, at and above the captures, all four-angle powers of three levels;
two in a row are what a stale hit or window needs. Names: with and without
directory, extension, and room in the box (nine units); three files are a first,
a second under a name made from the first, and one that meets them.

`CHECK_DEADLOCK FALSE` is in every configuration because the bounds on calls end
the behaviours; and the application, the user and the board may do nothing.

### Findings

1. Captures are labelled from `config_`, which is what the host believes: a
   capture after a reconnect is taken at the rate that was set before and
   labelled with the default (`SessionMetadata`). The set was acknowledged and
   `connect()` then reset `config_` without sending the defaults, or its answer
   timed out and the board executed it after the reconnect; both have four calls
   and sixteen states, and TLC prints either.
2. A recording is reported done before its last bytes have left the stream's
   buffer; when the destructor cannot write them, `record_iq` has returned true
   over a cut file (`SessionRecord`).
3. After a capture that gave up, the next can return its packet, of the other
   kind (`SessionKind`).
4. The defaulted destructor closes no socket (`SessionDestructor`).
5. A connection that ends inside a text fails an update already announced
   complete, though one that ends between two events does not
   (`MaintenanceReboot`).

The counterexamples begin in ordinary use, with a board that behaves; 2 needs
a disk that fills up.

Other behaviours the models show; the properties except by name those they are
about:

- `configure` sends all four commands always (`session.cpp:101`), where the manual
  says at :508 that some equal to the last ones are not sent again.
- `write_bytes` looks at its stream before the last flush (`user_cli.cpp:71`), so
  `dfone_cli` exits 0 over a cut file when that flush fails.
- A spectrum narrower than 1 MHz is drawn narrower than its axis
  (`map_plot_point_view`, `user_gui.cpp:1124`).
- An FFT size typed while a job rounds it is used raw: the code's behaviour is
  then undefined (`CaptureDisplay` ends there).
- An automatic name too long for its box becomes the next template, or loses
  its time and is written again (`user_gui.cpp:863`).
- A baseband save that is stopped does not notice that its file failed to close.
- The tools take a negative number as a large one, an empty text as 0, and one
  beyond the type as its largest value.
- The example leaves its channels to the end of the process.
- A failed allocation in `command_open` keeps the MEX file locked for good
  (`dfone_mex.cpp:257`).

### Fairness

Sessions and maintenance calls: weak fairness of the host's own steps and
nothing of the board. It is justified because each socket read and write has a
timeout (10 s, 30 s), so a running call always has a step, `ReadResponseFails`,
`ReplyFails`, `ConnectionEnds` and the like when nothing arrives. GUI: weak
fairness of the UI thread and of the worker thread each, which is the
scheduler's; none of the user, so no property depends on a click; a board that
never returns is allowed.

## 4. Proofs

Every safety property that a passing run checks is proved for every value of the
constants that the named assumptions allow. So are the refinement of
`MaintenanceAPI`, the safety half of that of `SessionAPI`, and the step
properties behind the liveness of a session's calls and of a GUI's stops. What is
left to TLC is liveness under fairness. The `TypeOK` of `GuiWorker` and of
`MexHandles` are proved and in no run.

`DfOneSessionProofs` proves, for every set of requests, all defaults, any
sequence modulus and all bounds, `TypeCorrect` (`TypeOK`), `DescriptorsOwned`
(`SocketsOwned`), `ImplementsAPISafety` (`Spec => API!SafetySpec`, the safety
half of `ImplementsAPI`) and `StepsAreNearer` (`EachStepIsNearer`). The inductive invariant is `SInv`: `TypeOK`,
`CallShape` and `SocketsOwned`. `CallShape` is needed because a call in its
exchange relies on both channels being up (so that an error closes a socket that
exists), on the connection attempt on neither, and on `step` being within
`Plan(call)` (so that the frame sent is a command). The refinement needs
`RequestShape` too: the session stays in synchronized mode, and what is being
connected is a connect call. Each step of the application, the host or the board
then maps to a `Begin`, `Local` or `End` of the interface, or to nothing.
`EachStepIsNearer` is the part of `EveryCallReturns` that a proof can reach: the
steps a call has ahead (`Ahead`: three for each command of its plan not yet
answered, and for a recording one for each unit not yet received) fall with every
step of the host, whatever fails and whatever the board sends, and never below
0. It follows from `SInv`, which keeps `step` within the plan and what was
received below the length asked for. With the fairness named above every call
returns; that the host always has a step until then is ENABLED and stays with
TLC.

`DfOneSessionChannelProofs` proves the properties of the channels' contents:
`ResponsesCounted`, `ResponsesAreOwn`, `ChannelsQuiet`, `CapturesAreOwn`,
`RecordingsAreOwn`, `SettingsAreTheBoards`, `MetadataTrue`, `SilentOnHalfOpen`.
The invariant `XInv` adds to `SInv` one part per place an exchange can be in.
`CountInv` counts responses (frames not yet executed and responses not yet read
are what is owed and the one waited for). `OwnInv` says that while none is owed
the frame or the response on its way is the running command's. `DataInv` says
what the data channel may hold in each phase; for a recording it is the sum of
what has been received, is queued and is still to be sent (the sum is a function
that exists, not a recursion). What `RecordingsAreOwn` concludes is that the output stream
was handed the length asked for, of its own packets; it says nothing of `whole`.
`PacketInv` and `FileInv` follow a packet into the
host. `SettingsInv` says that no frame left anywhere could change a setting that
counts as known, old connections included.

`GuiWorkerProofs` proves `WorkerTypes` (`TypeOK`), `JoinsCannotDeadlock`
(`JoinFindsExit`), `FlagsAreTheJobs` (`FlagsMeanRunning`), `SessionIsExclusive`
(`SessionExclusive`), `StatusIsTrue` (`StatusTrueAfterCapture`), `EditsInOrder`
(`EditsApplyInOrder`) and `StopsAreNear` (`StopIsNear`). The inductive invariant of the first four
is `GInv`: `TypeOK`, `Owner` and `FlagShape`. `Owner` ties `busy` to the worker's
phase (busy exactly until the last locked block) and to the UI's (a join under
the mutex only when not busy, or with no worker); from it exclusion and the
absence of deadlock follow. `FlagShape` says at each phase which flag the job
still holds. `StatusInv` adds which jobs are in which phase and that a job which
has looked at the session (`Looks`) has left the truth in `connected`.
`EditsInv` bounds every setting on its way from below by the session's, except
those in `leftover`, and from above by the user's last edit; before a job has
sent what it was started with (`Unset`), that is the newest there is.
`StopIsNear` says of a loop that was asked to stop after its first block that the
request stays and that the phases still ahead (`StepsLeft`, at most eight) become
fewer with every step of the worker; the proof goes through the phases of each
job, since a stopped loop passes through `loop` or `retry` on its way back, never
beyond.

`MaintenanceProofs` proves `MaintenanceTypes` (`TypeOK`), `ProgressNeverBack`
(`ProgressMonotone`) and `OutcomesAreTheBoards` (`OutcomeIsTheBoards`, whose one half,
`SuccessIsReal`, is also `SuccessesAreReal`), for packages of any size, any
integers as percentages and any numbers of calls, events and power losses. The
inductive invariant is `MInv`: the first properties' state parts with `Exchange`
(a connection exists exactly while a call exchanges, and whatever the service
does while the host is connected it does for the host's own call: this is what
keeps a retry from being told of an older update's success), `Truth` (the
announcement is true in the service, in every event on its way and in
`script_reported_complete`) and `Meter` (what is shown is `last_fraction` or
behind it, and during the upload the part that has been sent). The outcome needs
the converse of `Truth`, `DInv`: once the script has succeeded the announcement
is known, on its way or still to be made (`Told`), unless the call was
disturbed. For that, no script may succeed before the upload is over (`Numbers`,
`Upload`), an event that ends the call must be the service's last and a reported
failure must be one (`Ending`), and a host leaves a script of its own running
only after a disturbance (`Abandoned`).

`MaintenanceImplementsAPI` (`ImplementsMaintenanceAPI`, the whole refinement, which
states no fairness) uses all of these invariants. What maps to a step of the
interface are the begin and the end of a call, the request, and the service's
steps that take or settle work; everything else is hidden (`UnseenStutters`). A
request is sent only to a service at rest and with a number above the last one
(`Exchange`, `Numbers`), so it is a `Take`. A positive answer is the service's last
word on this very call (`Replies`, `ReplyIsReturn`); a success of an update means
a script that is over and has flashed the package (`Truth`, `Numbers`,
`EndIsSucceed`). A call that fails is a `Fail` whatever the board did; a refusal, a
power loss or a service that gives up its connection is a `Settle`. For the
board's steps it is enough that packages and scripts are for updates only
(`Served`).

The theorems rest on the assumption about the service named above: the script
announces its success only when it has succeeded, and one connection is served at
a time. `TypeOK` in these modules also bounds progress to 0..100; its proof is
where the clamping in `report_progress` is used.

`NetworkConfigProofs` proves `ConfigReadsBack`, about the operators alone: for every
configuration whose values the text form can carry (`Clean`: no newline, no `#`,
no blank at an end), with values of any tokens and any length, parsing what was
written gives back what its mode uses of it (`Normal`), and parsing succeeds
exactly when the configuration is `Usable`. The writer puts one line after
another and the reader lets the last line of a key decide, so the proof follows
the writer. `LineMore` says what one line more does to a text of whole lines: the
lines before it read as they did, and there is one more, whose comment and
margins are gone. `ReadsLine` says what that does to every look-up at once:
`Lookup` of the line's key is the line's value, and that of any other key is what
it was; `SettingMore` and `CommentMore` are its two uses. From the empty text,
two comments, the head (`HeadText`) and the addresses of a static configuration
(`AddressText`) give the theorem. No induction over texts is needed: there are at
most eight lines, and `Trim` and `First` are defined by least and greatest
positions, which exist (`MinOfNats`, `MaxOfNats`).

`NetworksReadBack` (`NetworkReadsBack`, in `MaintenanceProofs`) carries this through the
exchange, for any values and any numbers of calls, refusals, late executions and
power losses. `NInv` says that the board's text is what `Serialize` writes of the
configuration it was last given (`StoredText`), that the service serves the very
call the host makes (`Servant`), that an OK on its way to `get_network_config` is
the service's last word and brings the text that is stored, still (`Replies`),
and that after an answered call the service rests (`Answered`): a write executed
late by a call that had given up comes before the next call is served, so what is
read is never about to change.

`HostProgramsProofs` proves `MexTypes`, `ClearingLosesNothing`
(`NoConnectionLost`), `HandlesAreNotReused` (`StaleHandlesRefused`),
`ObjectsOwnTheirSessions` (`ObjectsKeepTheirs`) and `EverySessionReachable`
(`SessionsReachable`), for any objects and bounds. `MexInv` is these with three
parts that make them inductive: a deleted object holds no handle, copies are of
handles already given out (by this loading or an earlier one), and no two
objects hold the same handle unless a script meddles. The locks are counted by
the cardinality of the table.

Of the tools it proves `AcceptedAsTyped` (`NumbersAsTyped`) and
`ToolsEndAsReported` (`EndsAsReported`), for any limits of the types in their
order. `ToolInv` says where a program is by what it has done: the settings sent
before `step`, the file untouched before the capture, no exit code before the
end. `EndsAsReported` says that exit code 0 means a capture, with every setting
acknowledged, and a file that has been begun if one was asked for, unless only
the usage was shown, and that a failure never leaves the whole file; it does not
say that a file begun is whole, which the code does not know.

`GuiDisplayProofs` proves `FramesAreWhole` (`SnapshotsAreWhole`) and
`SpectrumFollowsPanel` (`SpectrumAsSelected`), for captures of any length. The
curves are of one capture outside the job's update (`CurvesAreWhole`); and unless
a new spectrum is due, the copies the job has taken of the channel and size are
the panel's (`Agreement`): every edit makes one due before it is visible as
rest.

Of the plots it proves `ViewsShowTheirData` (`ViewShowsData`), for series of any
length. `ViewsStayInside` is the half about the view (`ViewInside`): a view that
was ever made fits its own data, because whatever the mouse does ends in a clamp,
and clamping puts any axis, even one turned over, inside (`ClampedFits`); and a
view that is kept is of data of the same shape (`PlotInv`). The other half
(`PointsFillView`) follows for every view that fits, since what is drawn are the
points of the frame's view (`DrawnInv`): the points are at most twice `MaxLines`
and one because the strides between them are equal and at least the interval
divided by `MaxLines` (`FewStrides`, `PointsBounded`), and the first and the last
index chosen are beyond the ends of the view or at the ends of the data
(`EndsReached`), the divisions of the code rounded as they are.

`GuiResultsProofs` proves, for any settings, captures and powers,
`EstimatesAreOfTheirWindows` (`EstimateIsOfTheWindow`), by the arithmetic of the
slices (`Extents`, `StartsFit`, and a lemma for each way through
`capture_and_estimate_doa`), and `EstimatesHaveRealPeaks` (`PeaksAreReal`). The
peaks are picked by a fold over the candidates in an order of falling power. The
fold is a recursive definition over sets of positions, so what it yields must be
shown to exist for any number of candidates (`FoldExists`, by
induction stated with the set of numbers for which it does) and to be taken one candidate at a
time (`PicksAreFolded`, `FoldedPrefixes`). What holds of the peaks taken so far
(`TakenOf`) then holds with the next candidate (`TakeStep`): each is a peak,
they fall and are apart, and a candidate left out is near one as high or has
found no room. That the first is the highest of all is `HighestExists`: the
greatest power is a candidate's.

It also proves `FilesAreAsAsked` (`FilesAsAsked`), for texts of any units, boxes of any
size and saves of any length. `NamesInv` has two ideas: a unit of a name that is
a label is the number of a press that has been (`NameTypes`, `FilesAreOlder`), so
that a name with this press's label is no earlier file's (`NamesDiffer`); and the
template of the next name is what the user typed last, or is about to be
(`TemplatesFollow`). `SaveInv` says how far a save is in each phase, which
`SavedFileIsWhole` needs for the bytes still to be written at the close.

The only assumptions are the named ones on the constants, which TLC evaluates in
the runs. (That of `Maintenance` says of a `setnet` request that its configuration
is a record of texts, `Configs`: any text, clean or not.)

Model-checked only: liveness, which with its fairness and ENABLED is out of the
prover's reach: `EveryCallReturns`, `EveryMaintenanceCallReturns`, `StopHonoured`,
`ShutdownTerminates`, `LiveEditsTaken`, and the liveness half of `ImplementsAPI`.
Of `EveryCallReturns` and `StopHonoured` the decreasing measures are proved, as said
above; `EveryMaintenanceCallReturns` has none that the code keeps, because an
update reads events for as long as the script sends them, which only the bound
on events ends. The runs that expect a violation are counterexamples and have
nothing to prove.

## 5. Not modelled

- Floating-point values: covariances, subspaces, correlations, filters, the
  values of spectra and phases. Which samples they are made of is modelled.
- The rest of the GUI's drawing: layout, labels, hover texts, the file picker,
  and `write_capture_file` (one open, one write). Dear ImGui is assumed to report
  an edit of a text box in the frame in which it is made.
- The conversion of MATLAB arrays to and from values.
- Byte layout of frames; the socket wrappers of the two operating systems;
  logging.
- The contents of `last_error()`, of a board ID and of a status text (whether a
  call failed is modelled). `get_board_id` overwrites the caller's value before
  it fails; no program in the repository calls it.
- Undefined behaviour by two data races in the GUI (`record_has_ssd`,
  `doa_center_freq_mhz`): values only displayed or passed on. Those on the FFT
  size and the channel are modelled.
- A second connection opened while the board still holds the first, and a peer
  that sends packets of other types for ever: outside what is known of the board.
- The signal source, which is a laboratory transmitter and shares no code or
  state with the host; vendored code, builds, packages, drivers.

## 6. Plan

Done, in this order: session and channels, GUI threads, maintenance; then the
MATLAB binding, the tools, the GUI's display, views, estimates and files; the
proofs of the session's channels and interface, of the GUI's status and edits,
of the outcome of an update, and of the binding, the tools and the display; then
those of the plots' points, the estimates and their peaks, the files, and the
network configuration; last the interface of the maintenance client and its
refinement, and the measures behind the liveness of calls and stops.

What could be added:
1. Liveness by TLC on larger instances: `SessionLive` with five calls, `GuiLive`
   with three jobs.
2. Larger instances of `GuiSafety` (three edits), which take more than the few
   minutes a run is allowed here.
