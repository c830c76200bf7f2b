----------------------------- MODULE GuiWorkerMC -----------------------------
(***************************************************************************)
(* Values of GuiWorker's constants for TLC.                                *)
(***************************************************************************)
EXTENDS GuiWorker

AllJobs == Buttons
LoopJobs == {"connect", "record", "capture", "save", "cont", "doa"}

=============================================================================
