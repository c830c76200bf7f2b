------------------------------ MODULE GuiWorker ------------------------------
(***************************************************************************)
(* The threads of the GUI (user_gui.cpp): the UI thread, which draws frame *)
(* after frame and starts at most one job at a time on a worker thread     *)
(* (start_worker), and the job, which owns the session while it runs. They *)
(* share AppState under one mutex; the session is used without it.         *)
(*                                                                         *)
(* A job's step runs from one locked block to the next. The UI decides by  *)
(* the snapshot taken at the start of its frame, which may be stale. A     *)
(* session call succeeds, fails, or fails and closes the session: why is   *)
(* DfOneSession's matter.                                                  *)
(***************************************************************************)
EXTENDS Naturals

CONSTANTS
    UserJobs,   \* the jobs the user starts, a subset of Buttons
    MaxStarts,  \* bound: jobs started
    MaxEdits,   \* bound: settings committed in the settings panel
    MaxThrows   \* bound: exceptions a job ends with

Buttons == {"connect", "update", "ssd", "record", "capture", "save", "cont",
            "doa", "once"}
Jobs == Buttons \cup {"set"}

Flags == {"cont", "save", "doa", "record", "update"}

\* "once" shows the flags of "doa" (doa_running).
Flag(j) == IF j = "once" THEN "doa" ELSE j
Cancels == {"cont", "save", "doa"}
Live == {"cont", "save", "doa"}

NeedsConnected == {"record", "capture", "save", "cont", "doa", "once"}
Configures == {"record", "save", "doa", "once"}
Loops == {"cont", "save", "doa"}
Reconnects == {"cont", "doa"}
\* The jobs whose failures look whether the session was closed.
Marks == {"capture", "save", "cont", "once"}

ASSUME GuiAssumption ==
    /\ UserJobs \subseteq Buttons
    /\ MaxStarts \in Nat /\ MaxEdits \in Nat /\ MaxThrows \in Nat

VARIABLES
    \* the UI thread
    uiPc,      \* where it is in a frame, or in shutdown_app
    snap,      \* AppUiSnapshot of this frame
    edit,      \* the newest setting the user committed, 0 the initial one
    next,      \* the job start_worker is about to launch, its settings
    \* AppState, under the mutex
    busy, connected,
    running,   \* the *_running flags that are set
    cancel,    \* the *_cancel flags that are set
    pend,      \* pending_control_update: an edit, or 0
    \* the worker thread
    joinable,
    wpc,       \* where the job is
    job,       \* it, or the last one
    kept,      \* the settings captured when the user started it
    value,     \* the pending update it took
    ok,        \* what fn returns
    \* app.session
    open,      \* session.connected()
    gain,      \* the setting in its config()
    \* bounds and history
    starts, throws,
    lostStop,  \* a job's first block reset the cancel shutdown_app had set
    leftover   \* the updates queued with no live job, or left by one

uiVars == <<uiPc, snap, edit, next>>
flagVars == <<running, cancel>>
connVars == <<connected, pend, open, gain>>
workVars == <<joinable, job, kept, value>>
histVars == <<starts, throws, lostStop, leftover>>
vars == <<uiVars, busy, flagVars, connVars, workVars, wpc, ok, histVars>>

\* The UI thread holds the mutex while it joins a worker (start_worker,
\* join_worker_if_idle): no locked block of the worker can run then.
Joining == {"idlejoin", "start"}
MutexFree == uiPc \notin Joining

-----------------------------------------------------------------------------
(* Frames of the UI thread *)

\* Faulty variant of BeginFrame: any worker is joined.
BeginFrame_JoinsBusy ==
    /\ uiPc = "top"
    /\ uiPc' = IF joinable THEN "idlejoin" ELSE "draw"
    /\ UNCHANGED <<snap, edit, next, busy, flagVars, connVars, workVars>>
    /\ UNCHANGED <<wpc, ok, histVars>>

BeginFrame ==
    /\ uiPc = "top"
    /\ uiPc' = IF ~busy /\ joinable THEN "idlejoin" ELSE "draw"
    /\ UNCHANGED <<snap, edit, next, busy, flagVars, connVars, workVars>>
    /\ UNCHANGED <<wpc, ok, histVars>>

\* thread::join returns once the worker has left its function.
JoinIdle ==
    /\ uiPc = "idlejoin"
    /\ wpc = "gone"
    /\ joinable' = FALSE
    /\ uiPc' = "draw"
    /\ UNCHANGED <<snap, edit, next, busy, flagVars, connVars>>
    /\ UNCHANGED <<job, kept, value, wpc, ok, histVars>>

TakeSnapshot ==
    /\ uiPc = "draw"
    /\ uiPc' = "events"
    /\ snap' = [busy |-> busy, connected |-> connected, running |-> running]
    /\ UNCHANGED <<edit, next, busy, flagVars, connVars, workVars>>
    /\ UNCHANGED <<wpc, ok, histVars>>

EndFrame ==
    /\ uiPc = "events"
    /\ uiPc' = "top"
    /\ UNCHANGED <<snap, edit, next, busy, flagVars, connVars, workVars>>
    /\ UNCHANGED <<wpc, ok, histVars>>

SnapLive == snap.running \cap Live # {}
\* A job whose flag is a live one does run.
LiveJob == busy /\ Flag(job) \in Live

\* Which buttons the frame enables.
CanStart(j) ==
    /\ ~snap.busy
    /\ j \notin {"connect", "update"} => snap.connected
    /\ CASE j \in {"capture", "save", "record"} ->
                ~SnapLive /\ "record" \notin snap.running
         [] j = "ssd" -> ~SnapLive
         [] j = "cont" -> snap.running \cap {"cont", "record"} = {}
         [] j \in {"doa", "once"} ->
                snap.running \cap (Live \cup {"record"}) = {}
         [] OTHER -> TRUE

\* start_worker up to the join: a second click in the same frame finds busy.
StartWorker(j) ==
    /\ ~busy
    /\ starts < MaxStarts
    /\ starts' = starts + 1
    /\ next' = [job |-> j, settings |-> edit']
    /\ uiPc' = "start"

ClickStart(j) ==
    /\ uiPc = "events"
    /\ j \in UserJobs
    /\ CanStart(j)
    /\ UNCHANGED edit
    /\ StartWorker(j)
    /\ UNCHANGED <<snap, busy, flagVars, connVars, workVars, wpc, ok>>
    /\ UNCHANGED <<throws, lostStop, leftover>>

\* The rest of start_worker, still under the lock.
Launch ==
    /\ uiPc = "start"
    /\ joinable => wpc = "gone"
    /\ joinable' = TRUE
    /\ busy' = TRUE
    /\ job' = next.job
    /\ kept' = next.settings
    /\ wpc' = "begin"
    /\ ok' = TRUE
    /\ uiPc' = "events"
    /\ UNCHANGED <<snap, edit, next, flagVars, connVars, value, histVars>>

ClickStop(f) ==
    /\ uiPc = "events"
    /\ f \in Cancels \cap snap.running
    /\ cancel' = cancel \cup {f}
    /\ UNCHANGED <<uiVars, busy, running, connVars, workVars, wpc, ok, histVars>>

\* Faulty variant of EditSetting: updates are queued for any running job.
EditSetting_QueuesAlways ==
    /\ uiPc = "events"
    /\ edit < MaxEdits
    /\ edit' = edit + 1
    /\ \/ /\ busy /\ snap.connected
          /\ pend' = edit'
          /\ UNCHANGED leftover
          /\ UNCHANGED <<uiPc, next, starts>>
       \/ /\ ~SnapLive /\ ~snap.busy /\ snap.connected
          /\ StartWorker("set")
          /\ UNCHANGED <<pend, leftover>>
    /\ UNCHANGED <<snap, busy, flagVars, connected, open, gain, workVars>>
    /\ UNCHANGED <<wpc, ok, throws, lostStop>>

\* A control of the settings panel is changed: a live job gets it as a
\* pending update, otherwise a worker sets it; with no connection, or while
\* another job runs, only the panel changes.
EditSetting ==
    /\ uiPc = "events"
    /\ edit < MaxEdits
    /\ edit' = edit + 1
    /\ \/ /\ SnapLive /\ snap.connected
          /\ pend' = edit'
          /\ leftover' = IF LiveJob THEN leftover ELSE leftover \cup {edit'}
          /\ UNCHANGED <<uiPc, next, starts>>
       \/ /\ ~(SnapLive /\ snap.connected) /\ ~snap.busy /\ snap.connected
          /\ StartWorker("set")
          /\ UNCHANGED <<pend, leftover>>
       \/ /\ ~(SnapLive /\ snap.connected)
          /\ snap.busy \/ ~snap.connected \/ busy
          /\ UNCHANGED <<uiPc, next, starts, pend, leftover>>
    /\ UNCHANGED <<snap, busy, flagVars, connected, open, gain, workVars>>
    /\ UNCHANGED <<wpc, ok, throws, lostStop>>

\* Faulty variant of ClickDisconnect: busy is not read again under the lock.
ClickDisconnect_NoRecheck ==
    /\ uiPc = "events"
    /\ ~snap.busy
    /\ open' = FALSE /\ connected' = FALSE
    /\ pend' = 0
    /\ UNCHANGED <<uiVars, busy, flagVars, gain, workVars, wpc, ok, histVars>>

ClickDisconnect ==
    /\ uiPc = "events"
    /\ ~snap.busy
    /\ ~busy
    /\ open' = FALSE /\ connected' = FALSE
    /\ pend' = 0
    /\ UNCHANGED <<uiVars, busy, flagVars, gain, workVars, wpc, ok, histVars>>

\* The window is closed: the first block of shutdown_app.
Shutdown ==
    /\ uiPc = "top"
    /\ uiPc' = "shutdown"
    /\ cancel' = Cancels
    /\ UNCHANGED <<snap, edit, next, busy, running, connVars, workVars>>
    /\ UNCHANGED <<wpc, ok, histVars>>

\* Faulty variant of ShutdownEnds: the worker is not joined first.
ShutdownEnds_NoJoin ==
    /\ uiPc = "shutdown"
    /\ open' = FALSE /\ connected' = FALSE
    /\ uiPc' = "closed"
    /\ UNCHANGED <<snap, edit, next, busy, flagVars, pend, gain, workVars>>
    /\ UNCHANGED <<wpc, ok, histVars>>

\* The join, without the mutex, and the last block of shutdown_app.
ShutdownEnds ==
    /\ uiPc = "shutdown"
    /\ joinable => wpc = "gone"
    /\ joinable' = FALSE
    /\ open' = FALSE /\ connected' = FALSE
    /\ uiPc' = "closed"
    /\ UNCHANGED <<snap, edit, next, busy, flagVars, pend, gain>>
    /\ UNCHANGED <<job, kept, value, wpc, ok, histVars>>

-----------------------------------------------------------------------------
(* The job on the worker thread *)

Goto(p) == wpc' = p /\ UNCHANGED ok
Return(r) == wpc' = "finish" /\ ok' = r
LowerFlag == running' = running \ {Flag(job)}

\* mark_disconnected_if_session_closed_locked, for a session left as open'.
MarkDisconnected ==
    IF open' THEN UNCHANGED <<connected, pend>>
             ELSE connected' = FALSE /\ pend' = 0

\* A session call that fails, at once when the session is not connected.
CallFails == open' \in {open, FALSE} /\ UNCHANGED gain

WorkerStep ==
    /\ UNCHANGED <<uiVars, busy, joinable, job, kept, starts, throws>>

Begin ==
    /\ wpc = "begin"
    /\ job \in {"connect", "set", "ssd"}
    /\ Goto(IF job = "connect" THEN "opening" ELSE "setting")
    /\ WorkerStep
    /\ UNCHANGED <<flagVars, connVars, value, lostStop, leftover>>

\* The first locked block of the other jobs.
FirstBlock ==
    /\ wpc = "begin"
    /\ MutexFree
    /\ job \in NeedsConnected \cup {"update"}
    /\ job \in NeedsConnected => connected
    /\ running' = running \cup ({Flag(job)} \ {"capture"})
    /\ cancel' = cancel \ {Flag(job)}
    /\ lostStop' = (lostStop \/ (uiPc = "shutdown" /\ Flag(job) \in cancel))
    /\ Goto(CASE job \in Configures -> "configure"
              [] job = "cont" -> "loop"
              [] job = "update" -> "maintain"
              [] OTHER -> "capture")
    /\ WorkerStep
    /\ UNCHANGED <<connVars, value, leftover>>

NotConnected ==
    /\ wpc = "begin"
    /\ MutexFree
    /\ job \in NeedsConnected
    /\ ~connected
    /\ Return(FALSE)
    /\ WorkerStep
    /\ UNCHANGED <<flagVars, connVars, value, lostStop, leftover>>

\* connect_device: the new session replaces the old one only once it is
\* connected, configured and has told its storage.
ConnectDevice ==
    /\ wpc = "opening"
    /\ \/ /\ MutexFree
          /\ open' = TRUE /\ connected' = TRUE
          /\ gain' = kept
          /\ pend' = 0
          /\ Return(TRUE)
       \/ /\ Return(FALSE)
          /\ UNCHANGED connVars
    /\ WorkerStep
    /\ UNCHANGED <<flagVars, value, lostStop, leftover>>

\* set_reference_clock .. set_rx_gain, refresh_record_storage_status: a
\* failure does not look whether the session was closed.
SetOrRefresh ==
    /\ wpc = "setting"
    /\ \/ /\ open
          /\ gain' = IF job = "set" THEN kept ELSE gain
          /\ Return(TRUE)
          /\ UNCHANGED open
       \/ CallFails /\ Return(FALSE)
    /\ WorkerStep
    /\ UNCHANGED <<flagVars, connected, pend, value, lostStop, leftover>>

\* update_firmware uses a connection of its own.
Maintain ==
    /\ wpc = "maintain"
    /\ MutexFree
    /\ LowerFlag
    /\ \E r \in BOOLEAN : Return(r)
    /\ WorkerStep
    /\ UNCHANGED <<cancel, connVars, value, lostStop, leftover>>

\* save_baseband_iq opens its output before it configures.
OpenOutputFails ==
    /\ wpc = "configure"
    /\ MutexFree
    /\ job = "save"
    /\ LowerFlag
    /\ Return(FALSE)
    /\ WorkerStep
    /\ UNCHANGED <<cancel, connVars, value, lostStop, leftover>>

ConfigureSucceeds ==
    /\ wpc = "configure"
    /\ open
    /\ gain' = kept
    /\ Goto(IF job \in Loops THEN "loop" ELSE "capture")
    /\ WorkerStep
    /\ UNCHANGED <<flagVars, connected, pend, open, value, lostStop, leftover>>

\* A failing call of a job that does not reconnect.
GiveUp ==
    /\ LowerFlag
    /\ IF job \in Marks THEN MarkDisconnected ELSE UNCHANGED <<connected, pend>>
    /\ Return(FALSE)

\* app_session_is_connected, after a failing call.
StillConnected == connected /\ open'

\* Faulty variant of ConfigureFails: the running flag is left up.
ConfigureFails_KeepsFlag ==
    /\ wpc = "configure"
    /\ MutexFree
    /\ CallFails
    /\ Return(FALSE)
    /\ WorkerStep
    /\ UNCHANGED <<running, cancel, connected, pend, value, lostStop, leftover>>

ConfigureFails ==
    /\ wpc = "configure"
    /\ MutexFree
    /\ CallFails
    /\ \/ /\ job = "doa" => StillConnected
          /\ GiveUp
       \/ /\ job = "doa" /\ ~StillConnected
          /\ Goto("retry")
          /\ UNCHANGED <<running, connected, pend>>
    /\ WorkerStep
    /\ UNCHANGED <<cancel, value, lostStop, leftover>>

\* The head of the loop, and the sleep at its end, look at the cancel flag.
CheckCancel ==
    /\ wpc = "loop"
    /\ MutexFree
    /\ IF Flag(job) \in cancel THEN wpc' = "end" /\ ok' = TRUE ELSE Goto("take")
    /\ WorkerStep
    /\ UNCHANGED <<flagVars, connVars, value, lostStop, leftover>>

\* Faulty variant of TakePending: the update is taken and not applied.
TakePending_Drops ==
    /\ wpc = "take"
    /\ MutexFree
    /\ IF pend # 0
       THEN value' = pend /\ pend' = 0
       ELSE UNCHANGED <<value, pend>>
    /\ Goto("capture")
    /\ WorkerStep
    /\ UNCHANGED <<flagVars, connected, open, gain, lostStop, leftover>>

TakePending ==
    /\ wpc = "take"
    /\ MutexFree
    /\ IF pend # 0
       THEN value' = pend /\ pend' = 0 /\ Goto("apply")
       ELSE UNCHANGED <<value, pend>> /\ Goto("capture")
    /\ WorkerStep
    /\ UNCHANGED <<flagVars, connected, open, gain, lostStop, leftover>>

ApplySucceeds ==
    /\ wpc = "apply"
    /\ open
    /\ gain' = value
    /\ Goto("capture")
    /\ WorkerStep
    /\ UNCHANGED <<flagVars, connected, pend, open, value, lostStop, leftover>>

\* The loops that reconnect do so only when the connection is lost.
LoopCallFails ==
    \/ /\ job \notin Reconnects
       /\ GiveUp
    \/ /\ job \in Reconnects /\ StillConnected
       /\ wpc' = "end" /\ ok' = FALSE
       /\ UNCHANGED <<running, connected, pend>>
    \/ /\ job \in Reconnects /\ ~StillConnected
       /\ Goto("retry")
       /\ UNCHANGED <<running, connected, pend>>

ApplyFails ==
    /\ wpc = "apply"
    /\ MutexFree
    /\ CallFails
    /\ LoopCallFails
    /\ WorkerStep
    /\ UNCHANGED <<cancel, value, lostStop, leftover>>

\* What follows a capture: an output that cannot be written, a loop that goes
\* on or, for a save, is complete; an estimate that fails; the end.
AfterCapture ==
    \/ /\ job \in Loops
       /\ Goto("loop")
       /\ UNCHANGED running
    \/ /\ job = "save"
       /\ wpc' = "end" /\ ok' \in BOOLEAN
       /\ UNCHANGED running
    \/ /\ job = "doa"
       /\ wpc' = "end" /\ ok' = FALSE
       /\ UNCHANGED running
    \/ /\ job \in {"capture", "once", "save"}
       /\ LowerFlag
       /\ Return(FALSE)
    \/ /\ job \notin Loops
       /\ LowerFlag
       /\ Return(TRUE)

Capture ==
    /\ wpc = "capture"
    /\ MutexFree
    /\ open
    /\ AfterCapture
    /\ cancel' = IF job = "once" THEN cancel \ {"doa"} ELSE cancel
    /\ WorkerStep
    /\ UNCHANGED <<connVars, value, lostStop, leftover>>

\* Faulty variant of CaptureFails: the job leaves connected as it was.
CaptureFails_NoMark ==
    /\ wpc = "capture"
    /\ MutexFree
    /\ CallFails
    /\ LowerFlag
    /\ Return(FALSE)
    /\ WorkerStep
    /\ UNCHANGED <<cancel, connected, pend, value, lostStop, leftover>>

CaptureFails ==
    /\ wpc = "capture"
    /\ MutexFree
    /\ CallFails
    /\ LoopCallFails
    /\ cancel' = IF job = "once" THEN cancel \ {"doa"} ELSE cancel
    /\ WorkerStep
    /\ UNCHANGED <<value, lostStop, leftover>>

\* Faulty variant of Retry: the cancel flag is not looked at.
Retry_Deaf ==
    /\ wpc = "retry"
    /\ MutexFree
    /\ open' = FALSE /\ connected' = FALSE
    /\ pend' = 0
    /\ Goto("reopen")
    /\ WorkerStep
    /\ UNCHANGED <<flagVars, gain, value, lostStop, leftover>>

\* reconnect_until_ready: every 100 ms it looks at the cancel flag, every
\* second it tries again (reconnect_app_session).
Retry ==
    /\ wpc = "retry"
    /\ MutexFree
    /\ IF Flag(job) \in cancel
       THEN /\ wpc' = "end" /\ ok' = TRUE
            /\ UNCHANGED <<open, connected, pend>>
       ELSE /\ open' = FALSE /\ connected' = FALSE
            /\ pend' = 0
            /\ Goto("reopen")
    /\ WorkerStep
    /\ UNCHANGED <<flagVars, gain, value, lostStop, leftover>>

Reopen ==
    /\ wpc = "reopen"
    /\ MutexFree
    /\ \/ /\ open' = TRUE /\ connected' = TRUE
          /\ gain' = kept
          /\ Goto("loop")
       \/ /\ connected' = FALSE
          /\ Goto("retry")
          /\ UNCHANGED <<open, gain>>
    /\ pend' = 0
    /\ WorkerStep
    /\ UNCHANGED <<flagVars, value, lostStop, leftover>>

\* The last block of a loop.
EndLoop ==
    /\ wpc = "end"
    /\ MutexFree
    /\ LowerFlag
    /\ cancel' = cancel \ {Flag(job)}
    /\ UNCHANGED <<open, gain>>
    /\ IF job = "cont" /\ ~ok THEN MarkDisconnected
                              ELSE UNCHANGED <<connected, pend>>
    /\ Return(ok)
    /\ WorkerStep
    /\ UNCHANGED <<value, lostStop, leftover>>

\* An exception leaves fn wherever it was: start_worker catches it.
Throw ==
    /\ wpc \in {"opening", "setting", "maintain", "configure", "apply",
                "capture", "reopen"}
    /\ throws < MaxThrows
    /\ throws' = throws + 1
    /\ Return(FALSE)
    /\ UNCHANGED <<uiVars, busy, flagVars, connVars, workVars>>
    /\ UNCHANGED <<starts, lostStop, leftover>>

\* The block after fn; the thread itself ends a little later.
Finish ==
    /\ wpc = "finish"
    /\ MutexFree
    /\ busy' = FALSE
    /\ wpc' = "ending"
    /\ leftover' = IF LiveJob THEN leftover \cup ({pend} \ {0}) ELSE leftover
    /\ UNCHANGED <<uiVars, flagVars, connVars, workVars, ok>>
    /\ UNCHANGED <<starts, throws, lostStop>>

Exit ==
    /\ wpc = "ending"
    /\ Goto("gone")
    /\ WorkerStep
    /\ UNCHANGED <<flagVars, connVars, value, lostStop, leftover>>

-----------------------------------------------------------------------------

Init ==
    /\ uiPc = "top"
    /\ snap = [busy |-> FALSE, connected |-> FALSE, running |-> {}]
    /\ edit = 0 /\ next = [job |-> "connect", settings |-> 0]
    /\ busy = FALSE /\ connected = FALSE
    /\ running = {} /\ cancel = {} /\ pend = 0
    /\ joinable = FALSE /\ wpc = "gone" /\ job = "connect"
    /\ kept = 0 /\ value = 0 /\ ok = TRUE
    /\ open = FALSE /\ gain = 0
    /\ starts = 0 /\ throws = 0 /\ lostStop = FALSE /\ leftover = {}

User ==
    \/ \E j \in UserJobs : ClickStart(j)
    \/ \E f \in Cancels : ClickStop(f)
    \/ EditSetting \/ ClickDisconnect \/ Shutdown

UiThread ==
    \/ BeginFrame \/ JoinIdle \/ TakeSnapshot \/ EndFrame
    \/ Launch \/ ShutdownEnds

Worker ==
    \/ Begin \/ FirstBlock \/ NotConnected
    \/ ConnectDevice \/ SetOrRefresh \/ Maintain
    \/ OpenOutputFails \/ ConfigureSucceeds \/ ConfigureFails
    \/ CheckCancel \/ TakePending \/ ApplySucceeds \/ ApplyFails
    \/ Capture \/ CaptureFails \/ Retry \/ Reopen \/ EndLoop
    \/ Throw \/ Finish \/ Exit

Next == User \/ UiThread \/ Worker

\* The scheduler runs both threads: frames are drawn and a running job gets
\* on, every session call being bounded by the sockets' timeouts. The user
\* may do nothing and the board may be away for ever.
Spec == Init /\ [][Next]_vars /\ WF_vars(UiThread) /\ WF_vars(Worker)

-----------------------------------------------------------------------------
(* Properties *)

Phases == {"begin", "opening", "setting", "maintain", "configure", "loop",
           "take", "apply", "capture", "retry", "reopen", "end", "finish",
           "ending", "gone"}
Edits == 0..MaxEdits

\* Every variable keeps its type.
TypeOK ==
    /\ uiPc \in {"top", "idlejoin", "draw", "events", "start", "shutdown",
                 "closed"}
    /\ snap \in [busy : BOOLEAN, connected : BOOLEAN, running : SUBSET Flags]
    /\ edit \in Edits /\ next \in [job : Jobs, settings : Edits]
    /\ busy \in BOOLEAN /\ connected \in BOOLEAN
    /\ running \subseteq Flags /\ cancel \subseteq Cancels /\ pend \in Edits
    /\ joinable \in BOOLEAN /\ wpc \in Phases /\ job \in Jobs
    /\ kept \in Edits /\ value \in Edits /\ ok \in BOOLEAN
    /\ open \in BOOLEAN /\ gain \in Edits
    /\ starts \in 0..MaxStarts /\ throws \in 0..MaxThrows
    /\ lostStop \in BOOLEAN /\ leftover \subseteq Edits

\* The UI thread touches the session or its connected flag only when no job
\* is running, although it decides by a snapshot that may be stale.
SessionExclusive ==
    [][<<open, connected>>' # <<open, connected>> /\ wpc' = wpc
         => wpc \in {"ending", "gone"}]_vars

\* A worker joined under the mutex has left its last locked block: the two
\* threads cannot wait for each other.
JoinFindsExit ==
    uiPc \in Joining /\ joinable => wpc \in {"ending", "gone"}

\* While no job ended with an exception, the only *_running flag up is that
\* of the job that is running: the UI never offers to stop, and is never
\* blocked by, a job that is over.
FlagsMeanRunning ==
    throws = 0 => running \subseteq (IF busy THEN {Flag(job)} ELSE {})

\* After a job that captures, connected is true only of a session that is
\* still open, whatever earlier job lost it. (The other jobs do not look, nor
\* does a save whose output cannot be opened, or a loop stopped between losing
\* the connection and its first attempt to get it back.)
StatusTrueAfterCapture ==
    /\ ~busy /\ connected /\ throws = 0
    /\ job \in {"capture", "once"} \/ (job \in Reconnects /\ ~ok)
    => open

\* A setting never goes back to an older one, except through a reconnection,
\* which sends the settings of the time the job was started, and by an update
\* that was queued for no live job, or that one ended without taking (a single
\* estimate takes none).
EditsApplyInOrder ==
    [][gain' < gain => gain' \in leftover \/ wpc = "reopen"]_vars

\* A job that must end: it is none of the loops, or it is asked to stop.
MustEnd ==
    job \notin Loops \/ Flag(job) \in cancel \/ wpc \in {"finish", "ending", "gone"}

\* The most steps from a phase to the end of a job that must end.
StepsLeft(phase) ==
    CASE phase = "gone" -> 0
      [] phase = "ending" -> 1
      [] phase = "finish" -> 2
      [] phase = "end" -> 3
      [] phase \in {"loop", "retry", "opening", "setting", "maintain"} -> 4
      [] phase \in {"capture", "reopen"} -> 5
      [] phase = "apply" -> 6
      [] phase = "take" -> 7
      [] phase = "configure" -> 8
      [] phase = "begin" -> 9

\* A job asked to stop makes no further round, in whatever phase it is asked:
\* the request is not lost, and each step brings the job nearer to its end.
StopIsNear ==
    [][MustEnd /\ wpc \notin {"begin", "gone"} =>
         MustEnd' /\ (wpc' # wpc => StepsLeft(wpc') < StepsLeft(wpc))]_vars

\* A loop that is asked to stop ends, even while it waits for the board to
\* come back, unless an exception ended it.
StopHonoured ==
    \A f \in Cancels :
        f \in cancel \cap running ~> (f \notin running \/ throws > 0)

\* Closing the window ends the program, whatever job is running, except when
\* the job's first block comes after shutdown_app's cancel and clears it.
ShutdownTerminates == uiPc = "shutdown" ~> (uiPc = "closed" \/ lostStop)

\* A setting changed while a loop runs reaches the board, or a newer one does,
\* unless the loop ends first or loses its connection: reconnect_app_session
\* then throws the pending update away and sends the settings of the start.
LiveEditsTaken ==
    \A e \in 1..MaxEdits :
        (pend = e /\ job \in Loops
            /\ wpc \in {"configure", "loop", "take", "apply", "capture"})
        ~> (gain >= e \/ wpc \in {"retry", "finish", "ending", "gone"})

=============================================================================
