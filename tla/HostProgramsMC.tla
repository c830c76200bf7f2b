--------------------------- MODULE HostProgramsMC ---------------------------
(***************************************************************************)
(* The host's other programs for TLC: MATLAB with its binding, or one of   *)
(* the command-line tools. The board serves one host program at a time, so *)
(* a behaviour is of one of them. The numbers that may be typed lie on     *)
(* both sides of every limit of CaptureTool's scaled types.                *)
(***************************************************************************)
EXTENDS MexHandles, CaptureTool, TLC

VARIABLE program

SomeNumbers == {-17, -8, -1, 0, 1, 2, 3, 4, 7, 8, 15, 16}

\* In MATLAB's behaviours the tool is any one, and idle.
HostInit ==
    /\ Init /\ ToolInit
    /\ \/ program = "tool"
       \/ program = "matlab" /\ tool = "cli" /\ long = W32

HostNext ==
    \/ program = "matlab" /\ Next /\ UNCHANGED <<toolVars, program>>
    \/ program = "tool" /\ ToolNext /\ UNCHANGED <<vars, program>>

HostSpec == HostInit /\ [][HostNext]_<<vars, toolVars, program>>

Symmetry == Permutations(Objects)
=============================================================================
