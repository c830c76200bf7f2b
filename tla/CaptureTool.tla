---------------------------- MODULE CaptureTool -----------------------------
(***************************************************************************)
(* The two command-line programs that take one capture: dfone_cli          *)
(* (user_cli.cpp) and the example of the public API                        *)
(* (windows_cli_capture/main.cpp). Each reads its command line, connects,  *)
(* sends its settings, captures, writes the samples and exits. They differ *)
(* in their options, in the settings they send, in the default output and  *)
(* in the guard that disconnects: only dfone_cli has one.                  *)
(*                                                                         *)
(* Numbers keep the limits that matter: W16, W32 and W64 stand for 2^16,   *)
(* 2^32 and 2^64, and long for the range of the build's unsigned long,     *)
(* which has 32 bits on Windows and 64 on Linux.                           *)
(***************************************************************************)
EXTENDS Integers, Sequences

CONSTANTS
    Tools,             \* the programs that may be run, of {"cli", "example"}
    W16, W32, W64,
    Builds,            \* the builds run, each by its range of unsigned long
    Clocks,            \* reference clocks are below this; 4 in the code
    Numbers,           \* the numbers the user may type
    MaxArgs            \* bound: options on the command line

ASSUME ToolAssumption ==
    /\ Tools \subseteq {"cli", "example"}
    /\ Clocks \in Nat /\ W16 \in Nat /\ W32 \in Nat /\ W64 \in Nat
    /\ 0 < Clocks /\ Clocks < W16 /\ W16 < W32 /\ W32 < W64
    /\ Builds \subseteq {W32, W64}
    /\ Numbers \subseteq Int
    /\ MaxArgs \in Nat

VARIABLES
    tool,     \* the program that runs
    long,     \* the range of its unsigned long
    at,       \* where main() is
    args,     \* options read
    typed,    \* what was typed for each number, in the end
    value,    \* what the program made of it
    output,   \* output_path: "none" is the empty one
    step,     \* index in Sets of the next set_*
    up,       \* the session's open channels
    board,    \* the settings the board has acknowledged to this program
    exit,     \* the exit code, -1 while running
    captured, \* the settings the capture was taken with, {} before it
    file,     \* the output file: "old" is what was there before
    helped    \* it has shown its usage text, done nothing else and returned 0

toolVars ==
    <<tool, long, at, args, typed, value, output, step, up, board, exit,
      captured, file, helped>>

BothChannels == {"control", "data"}
Ports == {"cmd-port", "data-port"}
Small == {"rate", "gain", "clk"} \cup Ports
Wide == {"lo", "frames"}
Options == IF tool = "cli" THEN Small \cup Wide ELSE {"rate", "gain"} \cup Wide

\* The settings sent, in order.
Sets == IF tool = "cli" THEN <<"clk", "rate", "lo", "gain">>
                        ELSE <<"rate", "lo", "gain">>

\* What may be typed for a number; "none" while it has not been.
Texts ==
    [kind : {"number"}, n : Numbers] \cup [kind : {"empty", "junk"}, n : {0}]
Untyped == [kind |-> "none", n |-> 0]

-----------------------------------------------------------------------------
(* Reading a number *)

\* strtoul and strtoull over a type of w values: too large a number gives the
\* largest, a negative one is negated in the type, no digits at all give 0.
Strto(text, w) ==
    IF text.n >= w \/ text.n <= -w THEN w - 1 ELSE text.n % w

\* The largest value the option is tested against; 64-bit ones are not.
Limit(o) ==
    CASE o \in Ports -> W16 - 1
      [] o = "clk" -> Clocks - 1
      [] o \in {"rate", "gain"} -> W32 - 1
      [] OTHER -> W64 - 1

Span(o) == IF o \in Wide THEN W64 ELSE long

\* Faulty variant of Parsed: a number is cut to the option's type unseen.
Parsed_Cuts(o, text) ==
    [ok |-> text.kind # "junk",
     value |-> Strto(text, Span(o)) % (Limit(o) + 1)]

\* parse_u32, parse_u64, parse_size and the tests of their callers.
Parsed(o, text) ==
    LET v == Strto(text, Span(o))
    IN [ok |-> text.kind # "junk" /\ v <= Limit(o), value |-> v]

-----------------------------------------------------------------------------
(* main() *)

\* Faulty variant of Return: a failure returns past the guard.
Return_NoGuard(code) ==
    /\ at' = "exited"
    /\ exit' = code
    /\ up' = IF tool = "cli" /\ code = 0 THEN {} ELSE up

\* SessionDisconnectGuard runs at every return after connect. The example
\* leaves its channels to the end of the process.
Return(code) ==
    /\ at' = "exited"
    /\ exit' = code
    /\ up' = IF tool = "cli" THEN {} ELSE up

NumberOption(o, text) ==
    /\ o \in Options
    /\ Parsed(o, text).ok
    /\ typed' = [typed EXCEPT ![o] = text]
    /\ value' = [value EXCEPT ![o] = Parsed(o, text).value]
    /\ UNCHANGED <<output, at, up, exit, helped>>

\* The cli's empty path means no output; the example tries to open it.
OutputOption ==
    /\ output' \in {"none", "path"}
    /\ UNCHANGED <<typed, value, at, up, exit, helped>>

\* An unknown option, a missing value, or a number that is not accepted.
BadOption == Return(2) /\ UNCHANGED <<typed, value, output, helped>>

HelpOption ==
    Return(0) /\ helped' = TRUE /\ UNCHANGED <<typed, value, output>>

\* The cli's first argument is not "capture", or there is none.
Usage ==
    /\ at = "args" /\ args = 0
    /\ tool = "cli"
    /\ \E code \in {0, 1} : Return(code) /\ helped' = (code = 0)
    /\ UNCHANGED <<tool, long, args, typed, value, output, step, board>>
    /\ UNCHANGED <<captured, file>>

ReadOption ==
    /\ at = "args"
    /\ args < MaxArgs
    /\ args' = args + 1
    /\ \/ \E o \in Options, text \in Texts : NumberOption(o, text)
       \/ OutputOption
       \/ BadOption
       \/ HelpOption
    /\ UNCHANGED <<tool, long, step, board, captured, file>>

Connect ==
    /\ at = "args"
    /\ \/ at' = "set" /\ up' = BothChannels /\ UNCHANGED exit
       \/ at' = "exited" /\ exit' = 1 /\ UNCHANGED up
    /\ UNCHANGED <<tool, long, args, typed, value, output, step, board>>
    /\ UNCHANGED <<captured, file, helped>>

\* A setting the board acknowledges.
SetSucceeds ==
    /\ at = "set"
    /\ step <= Len(Sets)
    /\ board' = board \cup {<<Sets[step], value[Sets[step]]>>}
    /\ step' = step + 1
    /\ UNCHANGED <<tool, long, at, args, typed, value, output, up, exit>>
    /\ UNCHANGED <<captured, file, helped>>

\* Faulty variant of SetFails: the refusal is told, and success returned.
SetFails_EndsWell ==
    /\ at = "set"
    /\ step <= Len(Sets)
    /\ Return(0)
    /\ UNCHANGED <<tool, long, args, typed, value, output, step, board>>
    /\ UNCHANGED <<captured, file, helped>>

\* The session may have closed a channel by itself before the program returns.
SetFails ==
    /\ at = "set"
    /\ step <= Len(Sets)
    /\ Return(1)
    /\ UNCHANGED <<tool, long, args, typed, value, output, step, board>>
    /\ UNCHANGED <<captured, file, helped>>

CaptureSucceeds ==
    /\ at = "set"
    /\ step > Len(Sets)
    /\ captured' = board
    /\ \/ /\ tool = "cli" /\ output = "none"
          /\ Return(0)
       \/ /\ tool = "example" \/ output # "none"
          /\ at' = "write"
          /\ UNCHANGED <<up, exit>>
    /\ UNCHANGED <<tool, long, args, typed, value, output, step, board>>
    /\ UNCHANGED <<file, helped>>

CaptureFails ==
    /\ at = "set"
    /\ step > Len(Sets)
    /\ Return(1)
    /\ UNCHANGED <<tool, long, args, typed, value, output, step, board>>
    /\ UNCHANGED <<captured, file, helped>>

\* write_bytes, write_file: the path cannot be opened and the old file stays,
\* or a write fails and the file is cut.
WriteFails ==
    /\ at = "write"
    /\ file' \in {"old", "part"}
    /\ Return(1)
    /\ UNCHANGED <<tool, long, args, typed, value, output, step, board>>
    /\ UNCHANGED <<captured, helped>>

\* Every sample is in the file, or some are still in the stream's buffer:
\* short captures, all of them.
Write ==
    /\ at = "write"
    /\ output = "path"
    /\ at' = "close"
    /\ file' \in {"part", "whole"}
    /\ UNCHANGED <<tool, long, args, typed, value, output, step, up, board>>
    /\ UNCHANGED <<exit, captured, helped>>

\* The stream was asked for errors before: its destructor writes the rest, and
\* tells nobody when it cannot.
Close ==
    /\ at = "close"
    /\ file' \in {file, "whole"}
    /\ Return(0)
    /\ UNCHANGED <<tool, long, args, typed, value, output, step, board>>
    /\ UNCHANGED <<captured, helped>>

ToolInit ==
    /\ tool \in Tools /\ long \in Builds
    /\ at = "args" /\ args = 0
    /\ typed = [o \in Small \cup Wide |-> Untyped]
    /\ value = [o \in Small \cup Wide |-> 0]
    /\ output = IF tool = "cli" THEN "none" ELSE "path"
    /\ step = 1 /\ up = {} /\ board = {} /\ exit = -1
    /\ captured = {} /\ file = "old" /\ helped = FALSE

ToolNext ==
    \/ Usage \/ ReadOption \/ Connect
    \/ SetSucceeds \/ SetFails \/ CaptureSucceeds \/ CaptureFails
    \/ Write \/ WriteFails \/ Close

ToolSpec == ToolInit /\ [][ToolNext]_toolVars

-----------------------------------------------------------------------------
(* Properties *)

\* dfone_cli leaves no channel open, by whichever of its returns it ends:
\* the destructor of a session would not close them.
CliClosesChannels == at = "exited" /\ tool = "cli" => up = {}

\* A capture is taken with every setting of the program acknowledged, at the
\* value the command line gave: a refused setting ends the program.
CapturedAsAsked ==
    captured # {} =>
        captured = {<<Sets[i], value[Sets[i]]>> : i \in DOMAIN Sets}

\* A number the program has accepted is the number typed, for every option
\* and both widths of unsigned long, when it is not negative, with one
\* exception: one beyond the type read is taken for the largest value, which
\* the options with a limit below it refuse.
NumbersAsTyped ==
    \A o \in Options :
        LET text == typed[o]
        IN text.kind = "number" /\ text.n >= 0 =>
             \/ value[o] = text.n
             \/ /\ text.n >= Span(o)
                /\ value[o] = Span(o) - 1 /\ value[o] = Limit(o)

\* The output file follows the capture: it is touched only by a program that
\* has one; a program that ends in failure has not written the whole of it;
\* and one that ends well, unless it only showed its usage, has captured and
\* has at least begun the file, if one was asked for. (It may be cut: what the
\* destructor cannot write is not noticed.)
FileFollowsCapture ==
    /\ file # "old" => captured # {}
    /\ exit > 0 => file # "whole"
    /\ exit = 0 /\ ~helped =>
          captured # {} /\ (file # "old" \/ output = "none")

\* What a caller concludes from a tool that has ended: its capture is the one
\* asked for, the file follows it, and the board is free again.
EndsAsReported == CliClosesChannels /\ CapturedAsAsked /\ FileFollowsCapture
=============================================================================
