--------------------------- MODULE GuiWorkerProofs ---------------------------
(***************************************************************************)
(* Proofs about GuiWorker, for every value of its constants.               *)
(***************************************************************************)
EXTENDS GuiWorker, TLAPS

\* Who is running: busy is the worker's life up to its last locked block, an
\* unjoinable thread does not exist, and the UI joins under the mutex only
\* when no job is busy.
Owner ==
    /\ busy <=> wpc \notin {"ending", "gone"}
    /\ ~joinable => wpc = "gone"
    /\ uiPc \in Joining => ~busy

\* The phases in which a job has raised no flag, or has lowered it.
Unflagged == {"begin", "opening", "setting", "finish", "ending", "gone"}

\* Without exceptions, a flag is up only in the phases of the job it is of.
FlagShape ==
    throws = 0 => running \subseteq (IF wpc \in Unflagged THEN {}
                                                         ELSE {Flag(job)})

\* The parts of the type invariant, for the steps the provers need them in.
Booleans ==
    /\ busy \in BOOLEAN /\ connected \in BOOLEAN /\ joinable \in BOOLEAN
    /\ ok \in BOOLEAN /\ open \in BOOLEAN /\ lostStop \in BOOLEAN

UiTypes ==
    /\ uiPc \in {"top", "idlejoin", "draw", "events", "start", "shutdown",
                 "closed"}
    /\ snap \in [busy : BOOLEAN, connected : BOOLEAN, running : SUBSET Flags]
    /\ edit \in Edits /\ next \in [job : Jobs, settings : Edits]
    /\ starts \in 0..MaxStarts /\ throws \in 0..MaxThrows

JobTypes ==
    /\ wpc \in Phases /\ job \in Jobs
    /\ kept \in Edits /\ value \in Edits /\ gain \in Edits /\ pend \in Edits
    /\ leftover \subseteq Edits

FlagTypes == running \subseteq Flags /\ cancel \subseteq Cancels

GInv == TypeOK /\ Owner /\ FlagShape

USE GuiAssumption

\* The initial setting, and no pending update, are both 0.
LEMMA ZeroEdit == 0 \in Edits
  BY DEF Edits

\* They are the type invariant.
LEMMA TypeParts == TypeOK <=> Booleans /\ UiTypes /\ JobTypes /\ FlagTypes
  BY DEF TypeOK, Booleans, UiTypes, JobTypes, FlagTypes

\* BeginFrame keeps the inductive invariant.
LEMMA BeginFrameInv ==
    ASSUME GInv, BeginFrame
    PROVE  GInv'
  <1> USE DEF BeginFrame, uiVars, flagVars, connVars, workVars, histVars
  <1>1. TypeOK'
    BY ZeroEdit DEF GInv, TypeOK, Phases, Flags, Cancels, Jobs, Flag
  <1>2. Owner'
    BY DEF GInv, TypeOK, Owner, Joining
  <1>3. FlagShape'
    BY DEF GInv, TypeOK, FlagShape, Unflagged
  <1> QED BY <1>1, <1>2, <1>3 DEF GInv

\* JoinIdle keeps the inductive invariant.
LEMMA JoinIdleInv ==
    ASSUME GInv, JoinIdle
    PROVE  GInv'
  <1> USE DEF JoinIdle, uiVars, flagVars, connVars, workVars, histVars
  <1>1. TypeOK'
    BY ZeroEdit DEF GInv, TypeOK, Phases, Flags, Cancels, Jobs, Flag
  <1>2. Owner'
    BY DEF GInv, TypeOK, Owner, Joining
  <1>3. FlagShape'
    BY DEF GInv, TypeOK, FlagShape, Unflagged
  <1> QED BY <1>1, <1>2, <1>3 DEF GInv

\* TakeSnapshot keeps the inductive invariant.
LEMMA TakeSnapshotInv ==
    ASSUME GInv, TakeSnapshot
    PROVE  GInv'
  <1> USE DEF TakeSnapshot, uiVars, flagVars, connVars, workVars, histVars
  <1>1. TypeOK'
    BY ZeroEdit DEF GInv, TypeOK, Phases, Flags, Cancels, Jobs, Flag
  <1>2. Owner'
    BY DEF GInv, TypeOK, Owner, Joining
  <1>3. FlagShape'
    BY DEF GInv, TypeOK, FlagShape, Unflagged
  <1> QED BY <1>1, <1>2, <1>3 DEF GInv

\* EndFrame keeps the inductive invariant.
LEMMA EndFrameInv ==
    ASSUME GInv, EndFrame
    PROVE  GInv'
  <1> USE DEF EndFrame, uiVars, flagVars, connVars, workVars, histVars
  <1>1. TypeOK'
    BY ZeroEdit DEF GInv, TypeOK, Phases, Flags, Cancels, Jobs, Flag
  <1>2. Owner'
    BY DEF GInv, TypeOK, Owner, Joining
  <1>3. FlagShape'
    BY DEF GInv, TypeOK, FlagShape, Unflagged
  <1> QED BY <1>1, <1>2, <1>3 DEF GInv

\* ClickStart keeps the inductive invariant.
LEMMA ClickStartInv ==
    ASSUME GInv, NEW j \in UserJobs, ClickStart(j)
    PROVE  GInv'
  <1> USE DEF ClickStart, StartWorker, CanStart, uiVars, flagVars, connVars,
       workVars, histVars
  <1>1. TypeOK'
    BY ZeroEdit DEF GInv, TypeOK, Phases, Flags, Cancels, Jobs, Flag
  <1>2. Owner'
    BY DEF GInv, TypeOK, Owner, Joining
  <1>3. FlagShape'
    BY DEF GInv, TypeOK, FlagShape, Unflagged
  <1> QED BY <1>1, <1>2, <1>3 DEF GInv

\* Launch keeps the inductive invariant.
LEMMA LaunchInv ==
    ASSUME GInv, Launch
    PROVE  GInv'
  <1> USE DEF Launch, uiVars, flagVars, connVars, workVars, histVars
  <1>1. TypeOK'
    BY ZeroEdit DEF GInv, TypeOK, Phases, Flags, Cancels, Jobs, Flag
  <1>2. Owner'
    BY DEF GInv, TypeOK, Owner, Joining
  <1>3. FlagShape'
    BY DEF GInv, TypeOK, FlagShape, Unflagged, Owner, Joining
  <1> QED BY <1>1, <1>2, <1>3 DEF GInv

\* ClickStop keeps the inductive invariant.
LEMMA ClickStopInv ==
    ASSUME GInv, NEW f \in Cancels, ClickStop(f)
    PROVE  GInv'
  <1> USE DEF ClickStop, uiVars, flagVars, connVars, workVars, histVars
  <1>1. TypeOK'
    BY ZeroEdit DEF GInv, TypeOK, Phases, Flags, Cancels, Jobs, Flag
  <1>2. Owner'
    BY DEF GInv, TypeOK, Owner, Joining
  <1>3. FlagShape'
    BY DEF GInv, TypeOK, FlagShape, Unflagged
  <1> QED BY <1>1, <1>2, <1>3 DEF GInv

\* EditSetting keeps the inductive invariant.
LEMMA EditSettingInv ==
    ASSUME GInv, EditSetting
    PROVE  GInv'
  <1> USE DEF EditSetting, StartWorker, LiveJob, uiVars, flagVars, connVars,
       workVars, histVars
  <1>1. TypeOK'
    <2>1. Booleans'
      BY TypeParts DEF GInv, Booleans
    <2>2. UiTypes'
      BY TypeParts DEF GInv, UiTypes, Jobs, Edits
    <2>3. JobTypes'
      BY TypeParts DEF GInv, UiTypes, Edits, JobTypes, Phases, Jobs
    <2>4. FlagTypes'
      BY TypeParts DEF GInv, FlagTypes, Flags, Cancels, Flag
    <2> QED
      BY ONLY <2>1, <2>2, <2>3, <2>4
         DEF TypeOK, Booleans, UiTypes, JobTypes, FlagTypes
  <1>2. Owner'
    BY DEF GInv, TypeOK, Owner, Joining
  <1>3. FlagShape'
    BY DEF GInv, TypeOK, FlagShape, Unflagged
  <1> QED BY <1>1, <1>2, <1>3 DEF GInv

\* ClickDisconnect keeps the inductive invariant.
LEMMA ClickDisconnectInv ==
    ASSUME GInv, ClickDisconnect
    PROVE  GInv'
  <1> USE DEF ClickDisconnect, uiVars, flagVars, connVars, workVars, histVars
  <1>1. TypeOK'
    <2>1. Booleans'
      BY TypeParts DEF GInv, Booleans
    <2>2. UiTypes'
      BY TypeParts DEF GInv, UiTypes, Jobs
    <2>3. JobTypes'
      BY ZeroEdit, TypeParts DEF GInv, JobTypes, Phases, Jobs
    <2>4. FlagTypes'
      BY TypeParts DEF GInv, FlagTypes, Flags, Cancels, Flag
    <2> QED
      BY ONLY <2>1, <2>2, <2>3, <2>4
         DEF TypeOK, Booleans, UiTypes, JobTypes, FlagTypes
  <1>2. Owner'
    BY DEF GInv, TypeOK, Owner, Joining
  <1>3. FlagShape'
    BY DEF GInv, TypeOK, FlagShape, Unflagged
  <1> QED BY <1>1, <1>2, <1>3 DEF GInv

\* Shutdown keeps the inductive invariant.
LEMMA ShutdownInv ==
    ASSUME GInv, Shutdown
    PROVE  GInv'
  <1> USE DEF Shutdown, uiVars, flagVars, connVars, workVars, histVars
  <1>1. TypeOK'
    BY ZeroEdit DEF GInv, TypeOK, Phases, Flags, Cancels, Jobs, Flag
  <1>2. Owner'
    BY DEF GInv, TypeOK, Owner, Joining
  <1>3. FlagShape'
    BY DEF GInv, TypeOK, FlagShape, Unflagged
  <1> QED BY <1>1, <1>2, <1>3 DEF GInv

\* ShutdownEnds keeps the inductive invariant.
LEMMA ShutdownEndsInv ==
    ASSUME GInv, ShutdownEnds
    PROVE  GInv'
  <1> USE DEF ShutdownEnds, uiVars, flagVars, connVars, workVars, histVars
  <1>1. TypeOK'
    <2>1. Booleans'
      BY TypeParts DEF GInv, Booleans
    <2>2. UiTypes'
      BY TypeParts DEF GInv, UiTypes, Jobs
    <2>3. JobTypes'
      BY ZeroEdit, TypeParts DEF GInv, JobTypes, Phases, Jobs
    <2>4. FlagTypes'
      BY TypeParts DEF GInv, FlagTypes, Flags, Cancels, Flag
    <2> QED
      BY ONLY <2>1, <2>2, <2>3, <2>4
         DEF TypeOK, Booleans, UiTypes, JobTypes, FlagTypes
  <1>2. Owner'
    BY DEF GInv, TypeOK, Owner, Joining
  <1>3. FlagShape'
    BY DEF GInv, TypeOK, FlagShape, Unflagged
  <1> QED BY <1>1, <1>2, <1>3 DEF GInv

\* Begin keeps the inductive invariant.
LEMMA BeginInv ==
    ASSUME GInv, Begin
    PROVE  GInv'
  <1> USE DEF Begin, WorkerStep, Goto, uiVars, flagVars, connVars, workVars,
       histVars
  <1>1. TypeOK'
    BY ZeroEdit DEF GInv, TypeOK, Phases, Flags, Cancels, Jobs, Flag
  <1>2. Owner'
    BY DEF GInv, TypeOK, Owner, Joining
  <1>3. FlagShape'
    BY DEF GInv, TypeOK, FlagShape, Unflagged
  <1> QED BY <1>1, <1>2, <1>3 DEF GInv

\* FirstBlock keeps the inductive invariant.
LEMMA FirstBlockInv ==
    ASSUME GInv, FirstBlock
    PROVE  GInv'
  <1> USE DEF FirstBlock, WorkerStep, Goto, NeedsConnected, Configures, uiVars,
       flagVars, connVars, workVars, histVars
  <1>1. TypeOK'
    BY ZeroEdit DEF GInv, TypeOK, Phases, Flags, Cancels, Jobs, Flag
  <1>2. Owner'
    BY DEF GInv, TypeOK, Owner, Joining
  <1>3. FlagShape'
    BY DEF GInv, TypeOK, FlagShape, Unflagged
  <1> QED BY <1>1, <1>2, <1>3 DEF GInv

\* NotConnected keeps the inductive invariant.
LEMMA NotConnectedInv ==
    ASSUME GInv, NotConnected
    PROVE  GInv'
  <1> USE DEF NotConnected, WorkerStep, Return, uiVars, flagVars, connVars,
       workVars, histVars
  <1>1. TypeOK'
    <2>1. Booleans'
      BY TypeParts DEF GInv, Booleans
    <2>2. UiTypes'
      BY TypeParts DEF GInv, UiTypes, Jobs
    <2>3. JobTypes'
      BY ZeroEdit, TypeParts DEF GInv, JobTypes, Phases, Jobs
    <2>4. FlagTypes'
      BY TypeParts DEF GInv, FlagTypes, Flags, Cancels, Flag
    <2> QED
      BY ONLY <2>1, <2>2, <2>3, <2>4
         DEF TypeOK, Booleans, UiTypes, JobTypes, FlagTypes
  <1>2. Owner'
    BY DEF GInv, TypeOK, Owner, Joining
  <1>3. FlagShape'
    BY DEF GInv, TypeOK, FlagShape, Unflagged
  <1> QED BY <1>1, <1>2, <1>3 DEF GInv

\* ConnectDevice keeps the inductive invariant.
LEMMA ConnectDeviceInv ==
    ASSUME GInv, ConnectDevice
    PROVE  GInv'
  <1> USE DEF ConnectDevice, WorkerStep, Return, uiVars, flagVars, connVars,
       workVars, histVars
  <1>1. TypeOK'
    <2>1. Booleans'
      BY TypeParts DEF GInv, Booleans
    <2>2. UiTypes'
      BY TypeParts DEF GInv, UiTypes, Jobs
    <2>3. JobTypes'
      BY ZeroEdit, TypeParts DEF GInv, JobTypes, Phases, Jobs
    <2>4. FlagTypes'
      BY TypeParts DEF GInv, FlagTypes, Flags, Cancels, Flag
    <2> QED
      BY ONLY <2>1, <2>2, <2>3, <2>4
         DEF TypeOK, Booleans, UiTypes, JobTypes, FlagTypes
  <1>2. Owner'
    BY DEF GInv, TypeOK, Owner, Joining
  <1>3. FlagShape'
    BY DEF GInv, TypeOK, FlagShape, Unflagged
  <1> QED BY <1>1, <1>2, <1>3 DEF GInv

\* SetOrRefresh keeps the inductive invariant.
LEMMA SetOrRefreshInv ==
    ASSUME GInv, SetOrRefresh
    PROVE  GInv'
  <1> USE DEF SetOrRefresh, WorkerStep, Return, CallFails, uiVars, flagVars,
       connVars, workVars, histVars
  <1>1. TypeOK'
    <2>1. Booleans'
      BY TypeParts DEF GInv, Booleans
    <2>2. UiTypes'
      BY TypeParts DEF GInv, UiTypes, Jobs
    <2>3. JobTypes'
      BY ZeroEdit, TypeParts DEF GInv, JobTypes, Phases, Jobs
    <2>4. FlagTypes'
      BY TypeParts DEF GInv, FlagTypes, Flags, Cancels, Flag
    <2> QED
      BY ONLY <2>1, <2>2, <2>3, <2>4
         DEF TypeOK, Booleans, UiTypes, JobTypes, FlagTypes
  <1>2. Owner'
    BY DEF GInv, TypeOK, Owner, Joining
  <1>3. FlagShape'
    BY DEF GInv, TypeOK, FlagShape, Unflagged
  <1> QED BY <1>1, <1>2, <1>3 DEF GInv

\* Maintain keeps the inductive invariant.
LEMMA MaintainInv ==
    ASSUME GInv, Maintain
    PROVE  GInv'
  <1> USE DEF Maintain, WorkerStep, Return, LowerFlag, uiVars, flagVars,
       connVars, workVars, histVars
  <1>1. TypeOK'
    BY ZeroEdit DEF GInv, TypeOK, Phases, Flags, Cancels, Jobs, Flag
  <1>2. Owner'
    BY DEF GInv, TypeOK, Owner, Joining
  <1>3. FlagShape'
    BY DEF GInv, TypeOK, FlagShape, Unflagged
  <1> QED BY <1>1, <1>2, <1>3 DEF GInv

\* OpenOutputFails keeps the inductive invariant.
LEMMA OpenOutputFailsInv ==
    ASSUME GInv, OpenOutputFails
    PROVE  GInv'
  <1> USE DEF OpenOutputFails, WorkerStep, Return, LowerFlag, uiVars, flagVars,
       connVars, workVars, histVars
  <1>1. TypeOK'
    <2>1. Booleans'
      BY TypeParts DEF GInv, Booleans
    <2>2. UiTypes'
      BY TypeParts DEF GInv, UiTypes, Jobs
    <2>3. JobTypes'
      BY ZeroEdit, TypeParts DEF GInv, JobTypes, Phases, Jobs
    <2>4. FlagTypes'
      BY TypeParts DEF GInv, FlagTypes, Flags, Cancels, Flag
    <2> QED
      BY ONLY <2>1, <2>2, <2>3, <2>4
         DEF TypeOK, Booleans, UiTypes, JobTypes, FlagTypes
  <1>2. Owner'
    BY DEF GInv, TypeOK, Owner, Joining
  <1>3. FlagShape'
    BY DEF GInv, TypeOK, FlagShape, Unflagged
  <1> QED BY <1>1, <1>2, <1>3 DEF GInv

\* ConfigureSucceeds keeps the inductive invariant.
LEMMA ConfigureSucceedsInv ==
    ASSUME GInv, ConfigureSucceeds
    PROVE  GInv'
  <1> USE DEF ConfigureSucceeds, WorkerStep, Goto, uiVars, flagVars, connVars,
       workVars, histVars
  <1>1. TypeOK'
    BY ZeroEdit DEF GInv, TypeOK, Phases, Flags, Cancels, Jobs, Flag
  <1>2. Owner'
    BY DEF GInv, TypeOK, Owner, Joining
  <1>3. FlagShape'
    BY DEF GInv, TypeOK, FlagShape, Unflagged
  <1> QED BY <1>1, <1>2, <1>3 DEF GInv

\* ConfigureFails keeps the inductive invariant.
LEMMA ConfigureFailsInv ==
    ASSUME GInv, ConfigureFails
    PROVE  GInv'
  <1> USE DEF ConfigureFails, WorkerStep, CallFails, GiveUp, MarkDisconnected,
       Return, Goto, LowerFlag, uiVars, flagVars, connVars, workVars, histVars
  <1>1. TypeOK'
    <2>1. Booleans'
      BY TypeParts DEF GInv, Booleans
    <2>2. UiTypes'
      BY TypeParts DEF GInv, UiTypes, Jobs
    <2>3. JobTypes'
      BY ZeroEdit, TypeParts DEF GInv, JobTypes, Phases, Jobs
    <2>4. FlagTypes'
      BY TypeParts DEF GInv, FlagTypes, Flags, Cancels, Flag
    <2> QED
      BY ONLY <2>1, <2>2, <2>3, <2>4
         DEF TypeOK, Booleans, UiTypes, JobTypes, FlagTypes
  <1>2. Owner'
    BY DEF GInv, TypeOK, Owner, Joining
  <1>3. FlagShape'
    BY DEF GInv, TypeOK, FlagShape, Unflagged
  <1> QED BY <1>1, <1>2, <1>3 DEF GInv

\* CheckCancel keeps the inductive invariant.
LEMMA CheckCancelInv ==
    ASSUME GInv, CheckCancel
    PROVE  GInv'
  <1> USE DEF CheckCancel, WorkerStep, Goto, uiVars, flagVars, connVars,
       workVars, histVars
  <1>1. TypeOK'
    <2>1. Booleans'
      BY TypeParts DEF GInv, Booleans
    <2>2. UiTypes'
      BY TypeParts DEF GInv, UiTypes, Jobs
    <2>3. JobTypes'
      BY ZeroEdit, TypeParts DEF GInv, JobTypes, Phases, Jobs
    <2>4. FlagTypes'
      BY TypeParts DEF GInv, FlagTypes, Flags, Cancels, Flag
    <2> QED
      BY ONLY <2>1, <2>2, <2>3, <2>4
         DEF TypeOK, Booleans, UiTypes, JobTypes, FlagTypes
  <1>2. Owner'
    BY DEF GInv, TypeOK, Owner, Joining
  <1>3. FlagShape'
    BY DEF GInv, TypeOK, FlagShape, Unflagged
  <1> QED BY <1>1, <1>2, <1>3 DEF GInv

\* TakePending keeps the inductive invariant.
LEMMA TakePendingInv ==
    ASSUME GInv, TakePending
    PROVE  GInv'
  <1> USE DEF TakePending, WorkerStep, Goto, uiVars, flagVars, connVars,
       workVars, histVars
  <1>1. TypeOK'
    BY ZeroEdit DEF GInv, TypeOK, Phases, Flags, Cancels, Jobs, Flag
  <1>2. Owner'
    BY DEF GInv, TypeOK, Owner, Joining
  <1>3. FlagShape'
    BY DEF GInv, TypeOK, FlagShape, Unflagged
  <1> QED BY <1>1, <1>2, <1>3 DEF GInv

\* ApplySucceeds keeps the inductive invariant.
LEMMA ApplySucceedsInv ==
    ASSUME GInv, ApplySucceeds
    PROVE  GInv'
  <1> USE DEF ApplySucceeds, WorkerStep, Goto, uiVars, flagVars, connVars,
       workVars, histVars
  <1>1. TypeOK'
    BY ZeroEdit DEF GInv, TypeOK, Phases, Flags, Cancels, Jobs, Flag
  <1>2. Owner'
    BY DEF GInv, TypeOK, Owner, Joining
  <1>3. FlagShape'
    BY DEF GInv, TypeOK, FlagShape, Unflagged
  <1> QED BY <1>1, <1>2, <1>3 DEF GInv

\* ApplyFails keeps the inductive invariant.
LEMMA ApplyFailsInv ==
    ASSUME GInv, ApplyFails
    PROVE  GInv'
  <1> USE DEF ApplyFails, WorkerStep, CallFails, LoopCallFails, GiveUp,
       MarkDisconnected, Return, Goto, LowerFlag, uiVars, flagVars, connVars,
       workVars, histVars
  <1>1. TypeOK'
    <2>1. Booleans'
      BY TypeParts DEF GInv, Booleans
    <2>2. UiTypes'
      BY TypeParts DEF GInv, UiTypes, Jobs
    <2>3. JobTypes'
      BY ZeroEdit, TypeParts DEF GInv, JobTypes, Phases, Jobs
    <2>4. FlagTypes'
      BY TypeParts DEF GInv, FlagTypes, Flags, Cancels, Flag
    <2> QED
      BY ONLY <2>1, <2>2, <2>3, <2>4
         DEF TypeOK, Booleans, UiTypes, JobTypes, FlagTypes
  <1>2. Owner'
    BY DEF GInv, TypeOK, Owner, Joining
  <1>3. FlagShape'
    BY DEF GInv, TypeOK, FlagShape, Unflagged
  <1> QED BY <1>1, <1>2, <1>3 DEF GInv

\* Capture keeps the inductive invariant.
LEMMA CaptureInv ==
    ASSUME GInv, Capture
    PROVE  GInv'
  <1> USE DEF Capture, WorkerStep, AfterCapture, Return, Goto, LowerFlag,
       uiVars, flagVars, connVars, workVars, histVars
  <1>1. TypeOK'
    <2>1. Booleans'
      BY TypeParts DEF GInv, Booleans
    <2>2. UiTypes'
      BY TypeParts DEF GInv, UiTypes, Jobs
    <2>3. JobTypes'
      BY ZeroEdit, TypeParts DEF GInv, JobTypes, Phases, Jobs
    <2>4. FlagTypes'
      BY TypeParts DEF GInv, FlagTypes, Flags, Cancels, Flag
    <2> QED
      BY ONLY <2>1, <2>2, <2>3, <2>4
         DEF TypeOK, Booleans, UiTypes, JobTypes, FlagTypes
  <1>2. Owner'
    BY DEF GInv, TypeOK, Owner, Joining
  <1>3. FlagShape'
    BY DEF GInv, TypeOK, FlagShape, Unflagged
  <1> QED BY <1>1, <1>2, <1>3 DEF GInv

\* CaptureFails keeps the inductive invariant.
LEMMA CaptureFailsInv ==
    ASSUME GInv, CaptureFails
    PROVE  GInv'
  <1> USE DEF CaptureFails, WorkerStep, CallFails, LoopCallFails, GiveUp,
       MarkDisconnected, Return, Goto, LowerFlag, uiVars, flagVars, connVars,
       workVars, histVars
  <1>1. TypeOK'
    <2>1. Booleans'
      BY TypeParts DEF GInv, Booleans
    <2>2. UiTypes'
      BY TypeParts DEF GInv, UiTypes, Jobs
    <2>3. JobTypes'
      BY ZeroEdit, TypeParts DEF GInv, JobTypes, Phases, Jobs
    <2>4. FlagTypes'
      BY TypeParts DEF GInv, FlagTypes, Flags, Cancels, Flag
    <2> QED
      BY ONLY <2>1, <2>2, <2>3, <2>4
         DEF TypeOK, Booleans, UiTypes, JobTypes, FlagTypes
  <1>2. Owner'
    BY DEF GInv, TypeOK, Owner, Joining
  <1>3. FlagShape'
    BY DEF GInv, TypeOK, FlagShape, Unflagged
  <1> QED BY <1>1, <1>2, <1>3 DEF GInv

\* Retry keeps the inductive invariant.
LEMMA RetryInv ==
    ASSUME GInv, Retry
    PROVE  GInv'
  <1> USE DEF Retry, WorkerStep, Goto, uiVars, flagVars, connVars, workVars,
       histVars
  <1>1. TypeOK'
    <2>1. Booleans'
      BY TypeParts DEF GInv, Booleans
    <2>2. UiTypes'
      BY TypeParts DEF GInv, UiTypes, Jobs
    <2>3. JobTypes'
      BY ZeroEdit, TypeParts DEF GInv, JobTypes, Phases, Jobs
    <2>4. FlagTypes'
      BY TypeParts DEF GInv, FlagTypes, Flags, Cancels, Flag
    <2> QED
      BY ONLY <2>1, <2>2, <2>3, <2>4
         DEF TypeOK, Booleans, UiTypes, JobTypes, FlagTypes
  <1>2. Owner'
    BY DEF GInv, TypeOK, Owner, Joining
  <1>3. FlagShape'
    BY DEF GInv, TypeOK, FlagShape, Unflagged
  <1> QED BY <1>1, <1>2, <1>3 DEF GInv

\* Reopen keeps the inductive invariant.
LEMMA ReopenInv ==
    ASSUME GInv, Reopen
    PROVE  GInv'
  <1> USE DEF Reopen, WorkerStep, Goto, uiVars, flagVars, connVars, workVars,
       histVars
  <1>1. TypeOK'
    <2>1. Booleans'
      BY TypeParts DEF GInv, Booleans
    <2>2. UiTypes'
      BY TypeParts DEF GInv, UiTypes, Jobs
    <2>3. JobTypes'
      BY ZeroEdit, TypeParts DEF GInv, JobTypes, Phases, Jobs
    <2>4. FlagTypes'
      BY TypeParts DEF GInv, FlagTypes, Flags, Cancels, Flag
    <2> QED
      BY ONLY <2>1, <2>2, <2>3, <2>4
         DEF TypeOK, Booleans, UiTypes, JobTypes, FlagTypes
  <1>2. Owner'
    BY DEF GInv, TypeOK, Owner, Joining
  <1>3. FlagShape'
    BY DEF GInv, TypeOK, FlagShape, Unflagged
  <1> QED BY <1>1, <1>2, <1>3 DEF GInv

\* EndLoop keeps the inductive invariant.
LEMMA EndLoopInv ==
    ASSUME GInv, EndLoop
    PROVE  GInv'
  <1> USE DEF EndLoop, WorkerStep, Return, LowerFlag, MarkDisconnected, uiVars,
       flagVars, connVars, workVars, histVars
  <1>1. TypeOK'
    <2>1. Booleans'
      BY TypeParts DEF GInv, Booleans
    <2>2. UiTypes'
      BY TypeParts DEF GInv, UiTypes, Jobs
    <2>3. JobTypes'
      BY ZeroEdit, TypeParts DEF GInv, JobTypes, Phases, Jobs
    <2>4. FlagTypes'
      BY TypeParts DEF GInv, FlagTypes, Flags, Cancels, Flag
    <2> QED
      BY ONLY <2>1, <2>2, <2>3, <2>4
         DEF TypeOK, Booleans, UiTypes, JobTypes, FlagTypes
  <1>2. Owner'
    BY DEF GInv, TypeOK, Owner, Joining
  <1>3. FlagShape'
    BY DEF GInv, TypeOK, FlagShape, Unflagged
  <1> QED BY <1>1, <1>2, <1>3 DEF GInv

\* Throw keeps the inductive invariant.
LEMMA ThrowInv ==
    ASSUME GInv, Throw
    PROVE  GInv'
  <1> USE DEF Throw, Return, uiVars, flagVars, connVars, workVars, histVars
  <1>1. TypeOK'
    <2>1. Booleans'
      BY TypeParts DEF GInv, Booleans
    <2>2. UiTypes'
      BY TypeParts DEF GInv, UiTypes, Jobs
    <2>3. JobTypes'
      BY ZeroEdit, TypeParts DEF GInv, JobTypes, Phases, Jobs
    <2>4. FlagTypes'
      BY TypeParts DEF GInv, FlagTypes, Flags, Cancels, Flag
    <2> QED
      BY ONLY <2>1, <2>2, <2>3, <2>4
         DEF TypeOK, Booleans, UiTypes, JobTypes, FlagTypes
  <1>2. Owner'
    BY DEF GInv, TypeOK, Owner, Joining
  <1>3. FlagShape'
    BY DEF GInv, TypeOK, FlagShape, Unflagged
  <1> QED BY <1>1, <1>2, <1>3 DEF GInv

\* Finish keeps the inductive invariant.
LEMMA FinishInv ==
    ASSUME GInv, Finish
    PROVE  GInv'
  <1> USE DEF Finish, LiveJob, uiVars, flagVars, connVars, workVars, histVars
  <1>1. TypeOK'
    <2>1. Booleans'
      BY TypeParts DEF GInv, Booleans
    <2>2. UiTypes'
      BY TypeParts DEF GInv, UiTypes, Jobs
    <2>3. JobTypes'
      BY ZeroEdit, TypeParts DEF GInv, JobTypes, Phases, Jobs
    <2>4. FlagTypes'
      BY TypeParts DEF GInv, FlagTypes, Flags, Cancels, Flag
    <2> QED
      BY ONLY <2>1, <2>2, <2>3, <2>4
         DEF TypeOK, Booleans, UiTypes, JobTypes, FlagTypes
  <1>2. Owner'
    BY DEF GInv, TypeOK, Owner, Joining
  <1>3. FlagShape'
    BY DEF GInv, TypeOK, FlagShape, Unflagged
  <1> QED BY <1>1, <1>2, <1>3 DEF GInv

\* Exit keeps the inductive invariant.
LEMMA ExitInv ==
    ASSUME GInv, Exit
    PROVE  GInv'
  <1> USE DEF Exit, WorkerStep, Goto, uiVars, flagVars, connVars, workVars,
       histVars
  <1>1. TypeOK'
    BY ZeroEdit DEF GInv, TypeOK, Phases, Flags, Cancels, Jobs, Flag
  <1>2. Owner'
    BY DEF GInv, TypeOK, Owner, Joining
  <1>3. FlagShape'
    BY DEF GInv, TypeOK, FlagShape, Unflagged
  <1> QED BY <1>1, <1>2, <1>3 DEF GInv

\* The initial states satisfy it.
LEMMA InitInv == Init => GInv
  <1> SUFFICES ASSUME Init PROVE GInv
    OBVIOUS
  <1> USE DEF Init
  <1>1. TypeOK
    <2>1. Booleans
      BY DEF Booleans
    <2>2. UiTypes
      BY ZeroEdit DEF UiTypes, Jobs, Buttons
    <2>3. JobTypes
      BY ZeroEdit DEF JobTypes, Phases, Jobs, Buttons
    <2>4. FlagTypes
      BY DEF FlagTypes
    <2> QED BY <2>1, <2>2, <2>3, <2>4, TypeParts
  <1>2. Owner
    BY DEF Owner, Joining
  <1>3. FlagShape
    BY DEF FlagShape
  <1> QED BY <1>1, <1>2, <1>3 DEF GInv

\* So does a stuttering step.
LEMMA StutterInv ==
    ASSUME GInv, UNCHANGED vars
    PROVE  GInv'
  BY DEF GInv, TypeOK, Owner, FlagShape, vars, uiVars, flagVars, connVars,
         workVars, histVars

\* And so every step.
LEMMA NextInv ==
    ASSUME GInv, [Next]_vars
    PROVE  GInv'
  <1>1. CASE User
    BY <1>1, ClickStartInv, ClickStopInv, EditSettingInv, ClickDisconnectInv,
       ShutdownInv DEF User
  <1>2. CASE UiThread
    BY <1>2, BeginFrameInv, JoinIdleInv, TakeSnapshotInv, EndFrameInv,
       LaunchInv, ShutdownEndsInv DEF UiThread
  <1>3. CASE Worker
    BY <1>3, BeginInv, FirstBlockInv, NotConnectedInv, ConnectDeviceInv,
         SetOrRefreshInv, MaintainInv, OpenOutputFailsInv,
         ConfigureSucceedsInv, ConfigureFailsInv, CheckCancelInv,
         TakePendingInv, ApplySucceedsInv, ApplyFailsInv, CaptureInv,
         CaptureFailsInv, RetryInv, ReopenInv, EndLoopInv, ThrowInv, FinishInv,
         ExitInv DEF Worker
  <1>4. CASE UNCHANGED vars
    BY <1>4, StutterInv
  <1> QED BY <1>1, <1>2, <1>3, <1>4 DEF Next

\* The inductive invariant holds in every reachable state.
THEOREM WorkerInvariant == Spec => []GInv
  BY InitInv, NextInv, PTL DEF Spec

\* Every variable keeps its type.
THEOREM WorkerTypes == Spec => []TypeOK
  <1>1. GInv => TypeOK
    BY DEF GInv
  <1> QED BY <1>1, WorkerInvariant, PTL

\* The UI thread never joins, under the mutex, a worker that still has a
\* locked block to run (join_worker_if_idle, start_worker).
THEOREM JoinsCannotDeadlock == Spec => []JoinFindsExit
  <1>1. GInv => JoinFindsExit
    BY DEF GInv, Owner, JoinFindsExit
  <1> QED BY <1>1, WorkerInvariant, PTL

\* Without exceptions, the only *_running flag up is the running job's.
THEOREM FlagsAreTheJobs == Spec => []FlagsMeanRunning
  <1>1. GInv => FlagsMeanRunning
    <2> SUFFICES ASSUME GInv, throws = 0
                 PROVE  running \subseteq (IF busy THEN {Flag(job)} ELSE {})
      BY DEF FlagsMeanRunning
    <2>1. CASE busy
      BY <2>1 DEF GInv, FlagShape
    <2>2. CASE ~busy
      BY <2>2 DEF GInv, FlagShape, Owner, Unflagged
    <2> QED BY <2>1, <2>2
  <1> QED BY <1>1, WorkerInvariant, PTL

\* A step of the worker moves it.
LEMMA WorkerMoves ==
    ASSUME Worker
    PROVE  wpc' # wpc
  BY DEF Worker, Begin, FirstBlock, NotConnected, ConnectDevice, SetOrRefresh,
       Maintain, OpenOutputFails, ConfigureSucceeds, ConfigureFails,
       CheckCancel, TakePending, ApplySucceeds, ApplyFails, Capture,
       CaptureFails, Retry, Reopen, EndLoop, Throw, Finish, Exit, Goto, Return,
       GiveUp,
         LoopCallFails, AfterCapture

\* Only disconnect_device, shutdown_app and the worker touch the session or
\* the connected flag, and the first two only when no job is running.
THEOREM SessionIsExclusive == Spec => SessionExclusive
  <1> DEFINE Exclusive == <<open, connected>>' # <<open, connected>> /\ wpc' =
       wpc
                             => wpc \in {"ending", "gone"}
  <1>1. ASSUME GInv, [Next]_vars
        PROVE  Exclusive
    <2> SUFFICES ASSUME <<open, connected>>' # <<open, connected>>, wpc' = wpc
                 PROVE  wpc \in {"ending", "gone"}
      OBVIOUS
    <2>1. CASE User
      <3>1. CASE ClickDisconnect
        BY <1>1, <3>1 DEF ClickDisconnect, GInv, Owner
      <3>2. CASE ~ClickDisconnect
        BY <2>1, <3>2 DEF User, ClickStart, ClickStop, EditSetting, Shutdown,
                          connVars
      <3> QED BY <3>1, <3>2
    <2>2. CASE UiThread
      <3>1. CASE ShutdownEnds
        BY <1>1, <3>1 DEF ShutdownEnds, GInv, Owner
      <3>2. CASE ~ShutdownEnds
        BY <2>2, <3>2 DEF UiThread, BeginFrame, JoinIdle, TakeSnapshot,
                          EndFrame, Launch, connVars
      <3> QED BY <3>1, <3>2
    <2>3. CASE Worker
      BY <2>3, WorkerMoves
    <2>4. CASE UNCHANGED vars
      BY <2>4 DEF vars, connVars
    <2> QED BY <1>1, <2>1, <2>2, <2>3, <2>4 DEF Next
  <1>2. GInv /\ [Next]_vars => [Exclusive]_vars
    BY <1>1
  <1>3. SessionExclusive <=> [][Exclusive]_vars
    BY DEF SessionExclusive
  <1> QED BY <1>2, <1>3, WorkerInvariant, PTL DEF Spec

-----------------------------------------------------------------------------
(* What connected says, and the order of the settings *)

\* Which jobs are in which phases.
JobPhases ==
    /\ wpc = "opening" => job = "connect"
    /\ wpc = "setting" => job \in {"set", "ssd"}
    /\ wpc = "maintain" => job = "update"
    /\ wpc = "configure" => job \in Configures
    /\ wpc \in {"loop", "take", "apply", "end"} => job \in Loops
    /\ wpc \in {"retry", "reopen"} => job \in Reconnects

\* The jobs that look, when they fail, whether the session was closed.
Looks == job \in {"capture", "once"} \/ (job \in Reconnects /\ ~ok)

\* What connected says of the session from a job's last look on.
StatusInv ==
    /\ JobPhases
    /\ wpc = "end" /\ job = "doa" /\ ~ok /\ connected => open
    /\ wpc \in {"finish", "ending", "gone"} /\ throws = 0 /\ Looks /\ connected
         => open

\* The phases before a job has sent the settings it was started with.
Unset == {"begin", "opening", "setting", "configure"}

\* No setting on its way is older than the session's, but those in leftover.
EditsInv ==
    /\ gain <= edit /\ kept <= edit /\ value <= edit /\ pend <= edit
    /\ uiPc = "start" => next.settings = edit
    /\ wpc \in Unset => gain <= kept
    /\ pend # 0 /\ pend \notin leftover =>
         LiveJob /\ gain <= pend /\ kept <= pend /\ value <= pend
    /\ wpc = "apply" => value \in leftover \/ gain <= value

LEMMA EditTypes ==
    ASSUME GInv
    PROVE  /\ edit \in Nat /\ kept \in Nat /\ value \in Nat /\ gain \in Nat
           /\ pend \in Nat /\ next.settings \in Nat
           /\ busy <=> wpc \notin {"ending", "gone"}
           /\ uiPc \in Joining => ~busy
  BY DEF GInv, TypeOK, Owner, Edits

\* A job goes only through the phases of its kind.
LEMMA PhasesNext ==
    ASSUME GInv, JobPhases, [Next]_vars
    PROVE  JobPhases'
  <1>1. ASSUME NEW j \in UserJobs, ClickStart(j) PROVE JobPhases'
    BY <1>1 DEF ClickStart, flagVars, connVars, workVars, StartWorker,
        JobPhases, NeedsConnected, Configures, Loops, Reconnects
  <1>2. ASSUME NEW f \in Cancels, ClickStop(f) PROVE JobPhases'
    BY <1>2 DEF ClickStop, uiVars, connVars, workVars, histVars, JobPhases,
        NeedsConnected, Configures, Loops, Reconnects
  <1>3. ASSUME EditSetting PROVE JobPhases'
    BY <1>3 DEF EditSetting, flagVars, workVars, StartWorker, LiveJob,
        JobPhases, NeedsConnected, Configures, Loops, Reconnects
  <1>4. ASSUME ClickDisconnect PROVE JobPhases'
    BY <1>4 DEF ClickDisconnect, uiVars, flagVars, workVars, histVars,
        JobPhases, NeedsConnected, Configures, Loops, Reconnects
  <1>5. ASSUME Shutdown PROVE JobPhases'
    BY <1>5 DEF Shutdown, connVars, workVars, histVars, JobPhases,
        NeedsConnected, Configures, Loops, Reconnects
  <1>6. ASSUME BeginFrame PROVE JobPhases'
    BY <1>6 DEF BeginFrame, flagVars, connVars, workVars, histVars,
        JobPhases, NeedsConnected, Configures, Loops, Reconnects
  <1>7. ASSUME JoinIdle PROVE JobPhases'
    BY <1>7 DEF JoinIdle, flagVars, connVars, histVars, JobPhases,
        NeedsConnected, Configures, Loops, Reconnects
  <1>8. ASSUME TakeSnapshot PROVE JobPhases'
    BY <1>8 DEF TakeSnapshot, flagVars, connVars, workVars, histVars,
        JobPhases, NeedsConnected, Configures, Loops, Reconnects
  <1>9. ASSUME EndFrame PROVE JobPhases'
    BY <1>9 DEF EndFrame, flagVars, connVars, workVars, histVars,
        JobPhases, NeedsConnected, Configures, Loops, Reconnects
  <1>10. ASSUME Launch PROVE JobPhases'
    BY <1>10 DEF Launch, flagVars, connVars, histVars, JobPhases,
        NeedsConnected, Configures, Loops, Reconnects
  <1>11. ASSUME ShutdownEnds PROVE JobPhases'
    BY <1>11 DEF ShutdownEnds, flagVars, histVars, JobPhases,
        NeedsConnected, Configures, Loops, Reconnects
  <1>12. ASSUME Begin PROVE JobPhases'
    BY <1>12 DEF Begin, flagVars, connVars, Goto, WorkerStep, uiVars,
        JobPhases, NeedsConnected, Configures, Loops, Reconnects
  <1>13. ASSUME FirstBlock PROVE JobPhases'
    BY <1>13 DEF FirstBlock, connVars, Goto, WorkerStep, uiVars, JobPhases,
        NeedsConnected, Configures, Loops, Reconnects
  <1>14. ASSUME NotConnected PROVE JobPhases'
    BY <1>14 DEF NotConnected, flagVars, connVars, Return, WorkerStep,
        uiVars, JobPhases, NeedsConnected, Configures, Loops, Reconnects
  <1>15. ASSUME ConnectDevice PROVE JobPhases'
    BY <1>15 DEF ConnectDevice, flagVars, connVars, Return, WorkerStep,
        uiVars, JobPhases, NeedsConnected, Configures, Loops, Reconnects
  <1>16. ASSUME SetOrRefresh PROVE JobPhases'
    BY <1>16 DEF SetOrRefresh, flagVars, Return, CallFails, WorkerStep,
        uiVars, JobPhases, NeedsConnected, Configures, Loops, Reconnects
  <1>17. ASSUME Maintain PROVE JobPhases'
    BY <1>17 DEF Maintain, connVars, Return, LowerFlag, WorkerStep, uiVars,
        JobPhases, NeedsConnected, Configures, Loops, Reconnects
  <1>18. ASSUME OpenOutputFails PROVE JobPhases'
    BY <1>18 DEF OpenOutputFails, connVars, Return, LowerFlag, WorkerStep,
        uiVars, JobPhases, NeedsConnected, Configures, Loops, Reconnects
  <1>19. ASSUME ConfigureSucceeds PROVE JobPhases'
    BY <1>19 DEF ConfigureSucceeds, flagVars, Goto, WorkerStep, uiVars,
        JobPhases, NeedsConnected, Configures, Loops, Reconnects
  <1>20. ASSUME ConfigureFails PROVE JobPhases'
    BY <1>20 DEF ConfigureFails, Goto, CallFails, WorkerStep, GiveUp,
        StillConnected, uiVars, Return, LowerFlag, MarkDisconnected, JobPhases,
        NeedsConnected, Configures, Loops, Reconnects
  <1>21. ASSUME CheckCancel PROVE JobPhases'
    BY <1>21 DEF CheckCancel, flagVars, connVars, Goto, WorkerStep, uiVars,
        JobPhases, NeedsConnected, Configures, Loops, Reconnects
  <1>22. ASSUME TakePending PROVE JobPhases'
    BY <1>22 DEF TakePending, flagVars, Goto, WorkerStep, uiVars,
        JobPhases, NeedsConnected, Configures, Loops, Reconnects
  <1>23. ASSUME ApplySucceeds PROVE JobPhases'
    BY <1>23 DEF ApplySucceeds, flagVars, Goto, WorkerStep, uiVars,
        JobPhases, NeedsConnected, Configures, Loops, Reconnects
  <1>24. ASSUME ApplyFails PROVE JobPhases'
    BY <1>24 DEF ApplyFails, CallFails, WorkerStep, LoopCallFails, uiVars,
        Goto, GiveUp, StillConnected, Return, LowerFlag, MarkDisconnected,
        JobPhases, NeedsConnected, Configures, Loops, Reconnects
  <1>25. ASSUME Capture PROVE JobPhases'
    BY <1>25 DEF Capture, connVars, WorkerStep, AfterCapture, uiVars, Goto,
        Return, LowerFlag, JobPhases, NeedsConnected, Configures, Loops,
        Reconnects
  <1>26. ASSUME CaptureFails PROVE JobPhases'
    BY <1>26 DEF CaptureFails, CallFails, WorkerStep, LoopCallFails,
        uiVars, Goto, GiveUp, StillConnected, Return, LowerFlag,
        MarkDisconnected, JobPhases, NeedsConnected, Configures, Loops,
        Reconnects
  <1>27. ASSUME Retry PROVE JobPhases'
    BY <1>27 DEF Retry, flagVars, Goto, WorkerStep, uiVars, JobPhases,
        NeedsConnected, Configures, Loops, Reconnects
  <1>28. ASSUME Reopen PROVE JobPhases'
    BY <1>28 DEF Reopen, flagVars, Goto, WorkerStep, uiVars, JobPhases,
        NeedsConnected, Configures, Loops, Reconnects
  <1>29. ASSUME EndLoop PROVE JobPhases'
    BY <1>29 DEF EndLoop, Return, LowerFlag, MarkDisconnected, WorkerStep,
        uiVars, JobPhases, NeedsConnected, Configures, Loops, Reconnects
  <1>30. ASSUME Throw PROVE JobPhases'
    BY <1>30 DEF Throw, uiVars, flagVars, connVars, workVars, Return,
        JobPhases, NeedsConnected, Configures, Loops, Reconnects
  <1>31. ASSUME Finish PROVE JobPhases'
    BY <1>31 DEF Finish, uiVars, flagVars, connVars, workVars, LiveJob,
        JobPhases, NeedsConnected, Configures, Loops, Reconnects
  <1>32. ASSUME Exit PROVE JobPhases'
    BY <1>32 DEF Exit, flagVars, connVars, Goto, WorkerStep, uiVars,
        JobPhases, NeedsConnected, Configures, Loops, Reconnects
  <1>33. CASE UNCHANGED vars
    BY <1>33 DEF vars, uiVars, flagVars, connVars, workVars, histVars,
        JobPhases, NeedsConnected, Configures, Loops, Reconnects
  <1>34. CASE User
    BY <1>34, <1>1, <1>2, <1>3, <1>4, <1>5 DEF User
  <1>35. CASE UiThread
    BY <1>35, <1>6, <1>7, <1>8, <1>9, <1>10, <1>11 DEF UiThread
  <1>36. CASE Worker
    BY <1>36, <1>12, <1>13, <1>14, <1>15, <1>16, <1>17, <1>18, <1>19,
        <1>20, <1>21, <1>22, <1>23, <1>24, <1>25, <1>26, <1>27, <1>28, <1>29,
        <1>30, <1>31, <1>32 DEF Worker
  <1> QED BY <1>33, <1>34, <1>35, <1>36 DEF Next

\* A failing job that looks does not leave connected true of a closed session.
LEMMA StatusNext ==
    ASSUME GInv, StatusInv, JobPhases', [Next]_vars
    PROVE  StatusInv'
  <1>1. ASSUME NEW j \in UserJobs, ClickStart(j) PROVE StatusInv'
    BY <1>1 DEF ClickStart, flagVars, connVars, workVars, StartWorker,
        StatusInv, Looks, JobPhases, Reconnects, Configures, Loops, Marks
  <1>2. ASSUME NEW f \in Cancels, ClickStop(f) PROVE StatusInv'
    BY <1>2 DEF ClickStop, uiVars, connVars, workVars, histVars, StatusInv,
        Looks, JobPhases, Reconnects, Configures, Loops, Marks
  <1>3. ASSUME EditSetting PROVE StatusInv'
    BY <1>3 DEF EditSetting, flagVars, workVars, StartWorker, LiveJob,
        StatusInv, Looks, JobPhases, Reconnects, Configures, Loops, Marks
  <1>4. ASSUME ClickDisconnect PROVE StatusInv'
    BY <1>4 DEF ClickDisconnect, uiVars, flagVars, workVars, histVars,
        StatusInv, Looks, JobPhases, Reconnects, Configures, Loops, Marks
  <1>5. ASSUME Shutdown PROVE StatusInv'
    BY <1>5 DEF Shutdown, connVars, workVars, histVars, StatusInv, Looks,
        JobPhases, Reconnects, Configures, Loops, Marks
  <1>6. ASSUME BeginFrame PROVE StatusInv'
    BY <1>6 DEF BeginFrame, flagVars, connVars, workVars, histVars,
        StatusInv, Looks, JobPhases, Reconnects, Configures, Loops, Marks
  <1>7. ASSUME JoinIdle PROVE StatusInv'
    BY <1>7 DEF JoinIdle, flagVars, connVars, histVars, StatusInv, Looks,
        JobPhases, Reconnects, Configures, Loops, Marks
  <1>8. ASSUME TakeSnapshot PROVE StatusInv'
    BY <1>8 DEF TakeSnapshot, flagVars, connVars, workVars, histVars,
        StatusInv, Looks, JobPhases, Reconnects, Configures, Loops, Marks
  <1>9. ASSUME EndFrame PROVE StatusInv'
    BY <1>9 DEF EndFrame, flagVars, connVars, workVars, histVars,
        StatusInv, Looks, JobPhases, Reconnects, Configures, Loops, Marks
  <1>10. ASSUME Launch PROVE StatusInv'
    BY <1>10 DEF Launch, flagVars, connVars, histVars, StatusInv, Looks,
        JobPhases, Reconnects, Configures, Loops, Marks
  <1>11. ASSUME ShutdownEnds PROVE StatusInv'
    BY <1>11 DEF ShutdownEnds, flagVars, histVars, StatusInv, Looks,
        JobPhases, Reconnects, Configures, Loops, Marks
  <1>12. ASSUME Begin PROVE StatusInv'
    BY <1>12 DEF Begin, flagVars, connVars, Goto, WorkerStep, uiVars,
        StatusInv, Looks, JobPhases, Reconnects, Configures, Loops, Marks
  <1>13. ASSUME FirstBlock PROVE StatusInv'
    BY <1>13 DEF FirstBlock, connVars, Goto, WorkerStep, uiVars, StatusInv,
        Looks, JobPhases, Reconnects, Configures, Loops, Marks
  <1>14. ASSUME NotConnected PROVE StatusInv'
    BY <1>14 DEF NotConnected, flagVars, connVars, Return, WorkerStep,
        uiVars, StatusInv, Looks, JobPhases, Reconnects, Configures, Loops,
        Marks
  <1>15. ASSUME ConnectDevice PROVE StatusInv'
    BY <1>15 DEF ConnectDevice, flagVars, connVars, Return, WorkerStep,
        uiVars, StatusInv, Looks, JobPhases, Reconnects, Configures, Loops,
        Marks
  <1>16. ASSUME SetOrRefresh PROVE StatusInv'
    BY <1>16 DEF SetOrRefresh, flagVars, Return, CallFails, WorkerStep,
        uiVars, StatusInv, Looks, JobPhases, Reconnects, Configures, Loops,
        Marks
  <1>17. ASSUME Maintain PROVE StatusInv'
    BY <1>17 DEF Maintain, connVars, Return, LowerFlag, WorkerStep, uiVars,
        StatusInv, Looks, JobPhases, Reconnects, Configures, Loops, Marks
  <1>18. ASSUME OpenOutputFails PROVE StatusInv'
    BY <1>18 DEF OpenOutputFails, connVars, Return, LowerFlag, WorkerStep,
        uiVars, StatusInv, Looks, JobPhases, Reconnects, Configures, Loops,
        Marks
  <1>19. ASSUME ConfigureSucceeds PROVE StatusInv'
    BY <1>19 DEF ConfigureSucceeds, flagVars, Goto, WorkerStep, uiVars,
        StatusInv, Looks, JobPhases, Reconnects, Configures, Loops, Marks
  <1>20. ASSUME ConfigureFails PROVE StatusInv'
    BY <1>20 DEF ConfigureFails, Goto, CallFails, WorkerStep, GiveUp,
        StillConnected, uiVars, Return, LowerFlag, MarkDisconnected, StatusInv,
        Looks, JobPhases, Reconnects, Configures, Loops, Marks
  <1>21. ASSUME CheckCancel PROVE StatusInv'
    BY <1>21 DEF CheckCancel, flagVars, connVars, Goto, WorkerStep, uiVars,
        StatusInv, Looks, JobPhases, Reconnects, Configures, Loops, Marks
  <1>22. ASSUME TakePending PROVE StatusInv'
    BY <1>22 DEF TakePending, flagVars, Goto, WorkerStep, uiVars,
        StatusInv, Looks, JobPhases, Reconnects, Configures, Loops, Marks
  <1>23. ASSUME ApplySucceeds PROVE StatusInv'
    BY <1>23 DEF ApplySucceeds, flagVars, Goto, WorkerStep, uiVars,
        StatusInv, Looks, JobPhases, Reconnects, Configures, Loops, Marks
  <1>24. ASSUME ApplyFails PROVE StatusInv'
    BY <1>24 DEF ApplyFails, CallFails, WorkerStep, LoopCallFails, uiVars,
        Goto, GiveUp, StillConnected, Return, LowerFlag, MarkDisconnected,
        StatusInv, Looks, JobPhases, Reconnects, Configures, Loops, Marks
  <1>25. ASSUME Capture PROVE StatusInv'
    BY <1>25 DEF Capture, connVars, WorkerStep, AfterCapture, uiVars, Goto,
        Return, LowerFlag, StatusInv, Looks, JobPhases, Reconnects, Configures,
        Loops, Marks
  <1>26. ASSUME CaptureFails PROVE StatusInv'
    BY <1>26 DEF CaptureFails, CallFails, WorkerStep, LoopCallFails,
        uiVars, Goto, GiveUp, StillConnected, Return, LowerFlag,
        MarkDisconnected, StatusInv, Looks, JobPhases, Reconnects, Configures,
        Loops, Marks
  <1>27. ASSUME Retry PROVE StatusInv'
    BY <1>27 DEF Retry, flagVars, Goto, WorkerStep, uiVars, StatusInv,
        Looks, JobPhases, Reconnects, Configures, Loops, Marks
  <1>28. ASSUME Reopen PROVE StatusInv'
    BY <1>28 DEF Reopen, flagVars, Goto, WorkerStep, uiVars, StatusInv,
        Looks, JobPhases, Reconnects, Configures, Loops, Marks
  <1>29. ASSUME EndLoop PROVE StatusInv'
    BY <1>29 DEF EndLoop, Return, LowerFlag, MarkDisconnected, WorkerStep,
        uiVars, StatusInv, Looks, JobPhases, Reconnects, Configures, Loops,
        Marks
  <1>30. ASSUME Throw PROVE StatusInv'
    <2>1. throws \in Nat /\ throws' = throws + 1 /\ wpc' = "finish"
      BY <1>30 DEF Throw, Return, GInv, TypeOK
    <2>2. throws' # 0
      BY <2>1
    <2> QED BY <2>1, <2>2 DEF StatusInv
  <1>31. ASSUME Finish PROVE StatusInv'
    BY <1>31 DEF Finish, uiVars, flagVars, connVars, workVars, LiveJob,
        StatusInv, Looks, JobPhases, Reconnects, Configures, Loops, Marks
  <1>32. ASSUME Exit PROVE StatusInv'
    BY <1>32 DEF Exit, flagVars, connVars, Goto, WorkerStep, uiVars,
        StatusInv, Looks, JobPhases, Reconnects, Configures, Loops, Marks
  <1>33. CASE UNCHANGED vars
    BY <1>33 DEF vars, uiVars, flagVars, connVars, workVars, histVars,
        StatusInv, Looks, JobPhases, Reconnects, Configures, Loops, Marks
  <1>34. CASE User
    BY <1>34, <1>1, <1>2, <1>3, <1>4, <1>5 DEF User
  <1>35. CASE UiThread
    BY <1>35, <1>6, <1>7, <1>8, <1>9, <1>10, <1>11 DEF UiThread
  <1>36. CASE Worker
    BY <1>36, <1>12, <1>13, <1>14, <1>15, <1>16, <1>17, <1>18, <1>19,
        <1>20, <1>21, <1>22, <1>23, <1>24, <1>25, <1>26, <1>27, <1>28, <1>29,
        <1>30, <1>31, <1>32 DEF Worker
  <1> QED BY <1>33, <1>34, <1>35, <1>36 DEF Next

\* No step puts a setting on its way that is older than the session's.
LEMMA EditsNext ==
    ASSUME GInv, GInv', EditsInv, [Next]_vars
    PROVE  EditsInv'
  <1>1. ASSUME NEW j \in UserJobs, ClickStart(j) PROVE EditsInv'
    BY <1>1, EditTypes DEF ClickStart, flagVars, connVars, workVars,
        StartWorker, EditsInv, Unset, LiveJob
  <1>2. ASSUME NEW f \in Cancels, ClickStop(f) PROVE EditsInv'
    BY <1>2, EditTypes DEF ClickStop, uiVars, connVars, workVars, histVars,
        EditsInv, Unset, LiveJob
  <1>3. ASSUME EditSetting PROVE EditsInv'
    BY <1>3, EditTypes DEF EditSetting, flagVars, workVars, StartWorker,
        LiveJob, EditsInv, Unset
  <1>4. ASSUME ClickDisconnect PROVE EditsInv'
    BY <1>4, EditTypes DEF ClickDisconnect, uiVars, flagVars, workVars,
        histVars, EditsInv, Unset, LiveJob
  <1>5. ASSUME Shutdown PROVE EditsInv'
    BY <1>5, EditTypes DEF Shutdown, connVars, workVars, histVars,
        EditsInv, Unset, LiveJob
  <1>6. ASSUME BeginFrame PROVE EditsInv'
    BY <1>6, EditTypes DEF BeginFrame, flagVars, connVars, workVars,
        histVars, EditsInv, Unset, LiveJob
  <1>7. ASSUME JoinIdle PROVE EditsInv'
    BY <1>7, EditTypes DEF JoinIdle, flagVars, connVars, histVars,
        EditsInv, Unset, LiveJob
  <1>8. ASSUME TakeSnapshot PROVE EditsInv'
    BY <1>8, EditTypes DEF TakeSnapshot, flagVars, connVars, workVars,
        histVars, EditsInv, Unset, LiveJob
  <1>9. ASSUME EndFrame PROVE EditsInv'
    BY <1>9, EditTypes DEF EndFrame, flagVars, connVars, workVars,
        histVars, EditsInv, Unset, LiveJob
  <1>10. ASSUME Launch PROVE EditsInv'
    <2>1. /\ uiPc = "start" /\ uiPc' = "events" /\ wpc' = "begin"
          /\ kept' = next.settings
          /\ UNCHANGED <<edit, value, gain, pend, leftover>>
      BY <1>10 DEF Launch, connVars, histVars
    <2>2. ~busy /\ kept' = edit
      BY <2>1, EditTypes DEF Joining, EditsInv
    <2>3. pend # 0 => pend \in leftover
      BY <2>2 DEF EditsInv, LiveJob
    <2> QED BY <2>1, <2>2, <2>3, EditTypes DEF EditsInv, Unset
  <1>11. ASSUME ShutdownEnds PROVE EditsInv'
    BY <1>11, EditTypes DEF ShutdownEnds, flagVars, histVars, EditsInv,
        Unset, LiveJob
  <1>12. ASSUME Begin PROVE EditsInv'
    BY <1>12, EditTypes DEF Begin, flagVars, connVars, Goto, WorkerStep,
        uiVars, EditsInv, Unset, LiveJob
  <1>13. ASSUME FirstBlock PROVE EditsInv'
    BY <1>13, EditTypes DEF FirstBlock, connVars, Goto, WorkerStep, uiVars,
        EditsInv, Unset, LiveJob
  <1>14. ASSUME NotConnected PROVE EditsInv'
    BY <1>14, EditTypes DEF NotConnected, flagVars, connVars, Return,
        WorkerStep, uiVars, EditsInv, Unset, LiveJob
  <1>15. ASSUME ConnectDevice PROVE EditsInv'
    BY <1>15, EditTypes DEF ConnectDevice, flagVars, connVars, Return,
        WorkerStep, uiVars, EditsInv, Unset, LiveJob
  <1>16. ASSUME SetOrRefresh PROVE EditsInv'
    BY <1>16, EditTypes DEF SetOrRefresh, flagVars, Return, CallFails,
        WorkerStep, uiVars, EditsInv, Unset, LiveJob
  <1>17. ASSUME Maintain PROVE EditsInv'
    BY <1>17, EditTypes DEF Maintain, connVars, Return, LowerFlag,
        WorkerStep, uiVars, EditsInv, Unset, LiveJob
  <1>18. ASSUME OpenOutputFails PROVE EditsInv'
    BY <1>18, EditTypes DEF OpenOutputFails, connVars, Return, LowerFlag,
        WorkerStep, uiVars, EditsInv, Unset, LiveJob
  <1>19. ASSUME ConfigureSucceeds PROVE EditsInv'
    BY <1>19, EditTypes DEF ConfigureSucceeds, flagVars, Goto, WorkerStep,
        uiVars, EditsInv, Unset, LiveJob
  <1>20. ASSUME ConfigureFails PROVE EditsInv'
    BY <1>20, EditTypes DEF ConfigureFails, Goto, CallFails, WorkerStep,
        GiveUp, StillConnected, uiVars, Return, LowerFlag, MarkDisconnected,
        EditsInv, Unset, LiveJob
  <1>21. ASSUME CheckCancel PROVE EditsInv'
    BY <1>21, EditTypes DEF CheckCancel, flagVars, connVars, Goto,
        WorkerStep, uiVars, EditsInv, Unset, LiveJob
  <1>22. ASSUME TakePending PROVE EditsInv'
    BY <1>22, EditTypes DEF TakePending, flagVars, Goto, WorkerStep,
        uiVars, EditsInv, Unset, LiveJob
  <1>23. ASSUME ApplySucceeds PROVE EditsInv'
    BY <1>23, EditTypes DEF ApplySucceeds, flagVars, Goto, WorkerStep,
        uiVars, EditsInv, Unset, LiveJob
  <1>24. ASSUME ApplyFails PROVE EditsInv'
    BY <1>24, EditTypes DEF ApplyFails, CallFails, WorkerStep,
        LoopCallFails, uiVars, Goto, GiveUp, StillConnected, Return, LowerFlag,
        MarkDisconnected, EditsInv, Unset, LiveJob
  <1>25. ASSUME Capture PROVE EditsInv'
    BY <1>25, EditTypes DEF Capture, connVars, WorkerStep, AfterCapture,
        uiVars, Goto, Return, LowerFlag, EditsInv, Unset, LiveJob
  <1>26. ASSUME CaptureFails PROVE EditsInv'
    BY <1>26, EditTypes DEF CaptureFails, CallFails, WorkerStep,
        LoopCallFails, uiVars, Goto, GiveUp, StillConnected, Return, LowerFlag,
        MarkDisconnected, EditsInv, Unset, LiveJob
  <1>27. ASSUME Retry PROVE EditsInv'
    BY <1>27, EditTypes DEF Retry, flagVars, Goto, WorkerStep, uiVars,
        EditsInv, Unset, LiveJob
  <1>28. ASSUME Reopen PROVE EditsInv'
    BY <1>28, EditTypes DEF Reopen, flagVars, Goto, WorkerStep, uiVars,
        EditsInv, Unset, LiveJob
  <1>29. ASSUME EndLoop PROVE EditsInv'
    BY <1>29, EditTypes DEF EndLoop, Return, LowerFlag, MarkDisconnected,
        WorkerStep, uiVars, EditsInv, Unset, LiveJob
  <1>30. ASSUME Throw PROVE EditsInv'
    BY <1>30, EditTypes DEF Throw, uiVars, flagVars, connVars, workVars,
        Return, EditsInv, Unset, LiveJob
  <1>31. ASSUME Finish PROVE EditsInv'
    BY <1>31, EditTypes DEF Finish, uiVars, flagVars, connVars, workVars,
        LiveJob, EditsInv, Unset
  <1>32. ASSUME Exit PROVE EditsInv'
    BY <1>32, EditTypes DEF Exit, flagVars, connVars, Goto, WorkerStep,
        uiVars, EditsInv, Unset, LiveJob
  <1>33. CASE UNCHANGED vars
    BY <1>33, EditTypes DEF vars, uiVars, flagVars, connVars, workVars,
        histVars, EditsInv, Unset, LiveJob
  <1>34. CASE User
    BY <1>34, <1>1, <1>2, <1>3, <1>4, <1>5 DEF User
  <1>35. CASE UiThread
    BY <1>35, <1>6, <1>7, <1>8, <1>9, <1>10, <1>11 DEF UiThread
  <1>36. CASE Worker
    BY <1>36, <1>12, <1>13, <1>14, <1>15, <1>16, <1>17, <1>18, <1>19,
        <1>20, <1>21, <1>22, <1>23, <1>24, <1>25, <1>26, <1>27, <1>28, <1>29,
        <1>30, <1>31, <1>32 DEF Worker
  <1> QED BY <1>33, <1>34, <1>35, <1>36 DEF Next

LEMMA SettingsInit == Init => JobPhases /\ StatusInv /\ EditsInv
  BY DEF Init, JobPhases, StatusInv, Looks, Reconnects, EditsInv, Unset

LEMMA SettingsNext ==
    ASSUME GInv /\ StatusInv /\ EditsInv, [Next]_vars
    PROVE  (GInv /\ StatusInv /\ EditsInv)'
  <1>1. GInv'
    BY NextInv
  <1>2. JobPhases'
    BY PhasesNext DEF StatusInv
  <1> QED BY <1>1, <1>2, StatusNext, EditsNext

\* A setting never goes back to an older one but through a reconnection, or
\* by an update that was queued for no live job or left by one.
LEMMA SettingForward ==
    ASSUME GInv, EditsInv, [Next]_vars, gain' < gain
    PROVE  gain' \in leftover \/ wpc = "reopen"
  <1>1. gain' # gain
    BY EditTypes
  <1>2. \/ wpc \in Unset /\ gain' = kept
        \/ wpc = "apply" /\ gain' = value
        \/ wpc = "reopen"
    <2>1. CASE User
      BY <1>1, <2>1 DEF User, ClickStart, flagVars, connVars, workVars,
          StartWorker, ClickStop, uiVars, histVars, EditSetting, LiveJob,
          ClickDisconnect, Shutdown
    <2>2. CASE UiThread
      BY <1>1, <2>2 DEF UiThread, BeginFrame, flagVars, connVars, workVars,
          histVars, JoinIdle, TakeSnapshot, EndFrame, Launch, ShutdownEnds
    <2>3. CASE Worker
      <3>1. ConnectDevice \/ SetOrRefresh \/ ConfigureSucceeds
              \/ ApplySucceeds \/ Reopen
        BY <1>1, <2>3 DEF Worker, Begin, flagVars, connVars, Goto,
            WorkerStep, uiVars, FirstBlock, NotConnected, Return, Maintain,
            LowerFlag, OpenOutputFails, ConfigureFails, CallFails, GiveUp,
            StillConnected, MarkDisconnected, CheckCancel, TakePending,
            ApplyFails, LoopCallFails, Capture, AfterCapture, CaptureFails,
            Retry, EndLoop, Throw, workVars, Finish, LiveJob, Exit
      <3> QED
        BY <1>1, <3>1 DEF ConnectDevice, SetOrRefresh, ConfigureSucceeds,
            ApplySucceeds, Reopen, CallFails, connVars, Unset
    <2>4. CASE UNCHANGED vars
      BY <1>1, <2>4 DEF vars, connVars
    <2> QED BY <2>1, <2>2, <2>3, <2>4 DEF Next
  <1> QED BY <1>2, EditTypes DEF EditsInv

\* After a job that captures, connected is true only of an open session.
THEOREM StatusIsTrue == Spec => []StatusTrueAfterCapture
  <1>1. ASSUME GInv, StatusInv PROVE StatusTrueAfterCapture
    BY <1>1 DEF GInv, Owner, StatusInv, Looks, StatusTrueAfterCapture
  <1>2. Spec => [](GInv /\ StatusInv /\ EditsInv)
    BY InitInv, SettingsInit, SettingsNext, PTL DEF Spec
  <1> QED BY <1>1, <1>2, PTL

\* The user's settings reach the session in the order they were made, but
\* for a reconnection and for an update no live job has taken.
THEOREM EditsInOrder == Spec => EditsApplyInOrder
  <1>1. ASSUME GInv, EditsInv, [Next]_vars
        PROVE  [gain' < gain => gain' \in leftover \/ wpc = "reopen"]_vars
    BY <1>1, SettingForward
  <1>2. Spec => [](GInv /\ StatusInv /\ EditsInv)
    BY InitInv, SettingsInit, SettingsNext, PTL DEF Spec
  <1> QED BY <1>1, <1>2, PTL DEF Spec, EditsApplyInOrder

-----------------------------------------------------------------------------
(* A job that must end goes to its end *)

LEMMA StepsTable ==
    /\ StepsLeft("gone") = 0 /\ StepsLeft("ending") = 1
    /\ StepsLeft("finish") = 2 /\ StepsLeft("end") = 3
    /\ StepsLeft("loop") = 4 /\ StepsLeft("retry") = 4
    /\ StepsLeft("opening") = 4 /\ StepsLeft("setting") = 4
    /\ StepsLeft("maintain") = 4 /\ StepsLeft("capture") = 5
    /\ StepsLeft("reopen") = 5 /\ StepsLeft("apply") = 6
    /\ StepsLeft("take") = 7 /\ StepsLeft("configure") = 8
  BY DEF StepsLeft

\* Only the worker moves a job that has begun, and no one else takes back a
\* request to stop.
LEMMA OthersKeepStop ==
    ASSUME GInv, MustEnd, wpc \notin {"begin", "gone"},
           User \/ UiThread \/ UNCHANGED vars
    PROVE  MustEnd' /\ wpc' = wpc
  <1>1. CASE User
    <2>1. wpc' = wpc /\ job' = job /\ cancel' \in {cancel, Cancels}
               \cup {cancel \cup {f} : f \in Cancels}
      BY <1>1 DEF User, ClickStart, ClickStop, EditSetting, ClickDisconnect,
                  Shutdown, StartWorker, flagVars, workVars
    <2>2. cancel \subseteq cancel'
      BY <2>1 DEF GInv, TypeOK
    <2> QED BY <2>1, <2>2 DEF MustEnd
  <1>2. CASE UiThread
    <2>1. ~Launch
      BY DEF Launch, GInv, Owner
    <2>2. UNCHANGED <<wpc, job, cancel>>
      BY <1>2, <2>1 DEF UiThread, BeginFrame, JoinIdle, TakeSnapshot,
                        EndFrame, ShutdownEnds, flagVars, workVars
    <2> QED BY <2>2 DEF MustEnd
  <1>3. CASE UNCHANGED vars
    BY <1>3 DEF vars, flagVars, workVars, MustEnd
  <1> QED BY <1>1, <1>2, <1>3

\* The worker's steps, each one nearer to the end.
LEMMA WorkerIsNearer ==
    ASSUME GInv, JobPhases, MustEnd, wpc \notin {"begin", "gone"}, Worker
    PROVE  MustEnd' /\ StepsLeft(wpc') < StepsLeft(wpc)
  <1> USE DEF Goto, Return, WorkerStep, flagVars, workVars
  <1> DEFINE Stays == job' = job /\ cancel' = cancel
  <1>1. CASE ConnectDevice \/ SetOrRefresh \/ Maintain \/ OpenOutputFails
             \/ Throw
    <2>1. /\ wpc' = "finish"
          /\ wpc \in {"opening", "setting", "maintain", "configure", "apply",
                      "capture", "reopen"}
      BY <1>1 DEF ConnectDevice, SetOrRefresh, Maintain, OpenOutputFails,
                  Throw
    <2> QED BY <2>1, StepsTable DEF MustEnd
  <1>2. CASE ConfigureSucceeds
    <2>1. wpc = "configure" /\ wpc' \in {"loop", "capture"} /\ Stays
      BY <1>2 DEF ConfigureSucceeds
    <2> QED BY <2>1, StepsTable DEF MustEnd
  <1>3. CASE ConfigureFails
    <2>1. wpc = "configure" /\ wpc' \in {"finish", "retry"} /\ Stays
      BY <1>3 DEF ConfigureFails, GiveUp
    <2> QED BY <2>1, StepsTable DEF MustEnd
  <1>4. CASE CheckCancel
    <2>1. /\ wpc = "loop" /\ Stays
          /\ Flag(job) \in cancel => wpc' = "end"
      BY <1>4 DEF CheckCancel
    <2>2. Flag(job) \in cancel
      BY <2>1 DEF MustEnd, JobPhases
    <2> QED BY <2>1, <2>2, StepsTable DEF MustEnd
  <1>5. CASE TakePending
    <2>1. wpc = "take" /\ wpc' \in {"apply", "capture"} /\ Stays
      BY <1>5 DEF TakePending
    <2> QED BY <2>1, StepsTable DEF MustEnd
  <1>6. CASE ApplySucceeds
    <2>1. wpc = "apply" /\ wpc' = "capture" /\ Stays
      BY <1>6 DEF ApplySucceeds
    <2> QED BY <2>1, StepsTable DEF MustEnd
  <1>7. CASE ApplyFails
    <2>1. wpc = "apply" /\ wpc' \in {"finish", "end", "retry"} /\ Stays
      BY <1>7 DEF ApplyFails, LoopCallFails, GiveUp
    <2> QED BY <2>1, StepsTable DEF MustEnd
  <1>8. CASE Capture
    <2>1. /\ wpc = "capture" /\ wpc' \in {"loop", "end", "finish"}
          /\ job' = job /\ (job # "once" => cancel' = cancel)
      BY <1>8 DEF Capture, AfterCapture
    <2>2. MustEnd'
      BY <2>1 DEF MustEnd, Loops
    <2> QED BY <2>1, <2>2, StepsTable
  <1>9. CASE CaptureFails
    <2>1. /\ wpc = "capture" /\ wpc' \in {"finish", "end", "retry"}
          /\ job' = job /\ (job # "once" => cancel' = cancel)
      BY <1>9 DEF CaptureFails, LoopCallFails, GiveUp
    <2>2. MustEnd'
      BY <2>1 DEF MustEnd, Loops
    <2> QED BY <2>1, <2>2, StepsTable
  <1>10. CASE Retry
    <2>1. /\ wpc = "retry" /\ Stays
          /\ Flag(job) \in cancel => wpc' = "end"
      BY <1>10 DEF Retry
    <2>2. Flag(job) \in cancel
      BY <2>1 DEF MustEnd, JobPhases, Reconnects, Loops
    <2> QED BY <2>1, <2>2, StepsTable DEF MustEnd
  <1>11. CASE Reopen
    <2>1. wpc = "reopen" /\ wpc' \in {"loop", "retry"} /\ Stays
      BY <1>11 DEF Reopen
    <2> QED BY <2>1, StepsTable DEF MustEnd
  <1>12. CASE EndLoop
    <2>1. wpc = "end" /\ wpc' = "finish"
      BY <1>12 DEF EndLoop
    <2> QED BY <2>1, StepsTable DEF MustEnd
  <1>13. CASE Finish \/ Exit
    <2>1. \/ wpc = "finish" /\ wpc' = "ending"
          \/ wpc = "ending" /\ wpc' = "gone"
      BY <1>13 DEF Finish, Exit
    <2> QED BY <2>1, StepsTable DEF MustEnd
  <1>14. ~(Begin \/ FirstBlock \/ NotConnected)
    BY DEF Begin, FirstBlock, NotConnected
  <1> QED BY <1>1, <1>2, <1>3, <1>4, <1>5, <1>6, <1>7, <1>8, <1>9, <1>10,
             <1>11, <1>12, <1>13, <1>14 DEF Worker

\* A job that is asked to stop, in whatever phase, ends within a number of
\* steps that does not depend on the board: no retry, reconnection, pending
\* update or failing call sends it round again, and the request is not lost.
THEOREM StopsAreNear == Spec => StopIsNear
  <1> DEFINE Near == MustEnd /\ wpc \notin {"begin", "gone"} =>
                 MustEnd' /\ (wpc' # wpc => StepsLeft(wpc') < StepsLeft(wpc))
  <1>1. Init => JobPhases
    BY SettingsInit
  <1>2. GInv /\ JobPhases /\ [Next]_vars => JobPhases'
    BY PhasesNext
  <1>3. GInv /\ JobPhases /\ [Next]_vars => [Near]_vars
    BY OthersKeepStop, WorkerIsNearer DEF Next
  <1>4. StopIsNear <=> [][Near]_vars
    BY DEF StopIsNear
  <1> QED BY <1>1, <1>2, <1>3, <1>4, WorkerInvariant, PTL DEF Spec

=============================================================================
