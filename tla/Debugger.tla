------------------------------ MODULE Debugger ------------------------------
(***************************************************************************)
(* The CPU debugger between its two threads: the emulation thread, which   *)
(* runs the main loop, NES::step and NESDebugger::step, and the detached   *)
(* thread of the debugger window, whose buttons call pause, stepOne,       *)
(* setBreakpoint, disableBreakpoint and setLogging.  Only dbg_mode is      *)
(* atomic; every access of it, of resume_ and of the log is a step of its  *)
(* own.                                                                    *)
(***************************************************************************)
EXTENDS Integers, Sequences

CONSTANTS
    Pcs,              \* the addresses of instructions
    MaxBreakpoints    \* 32 in the emulator

ASSUME BreakpointLimit == MaxBreakpoints \in Nat

Modes == {"RUN", "PAUSE", "STEP", "BREAK"}

VARIABLES
    mode,          \* dbg_mode
    resume,        \* resume_
    breakpoints,   \* breakpoints_
    logging,       \* logging_
    log_stream,    \* log_stream_: closed, good, or failed
    pc,            \* the instruction the CPU fetches next
    at,            \* where the emulation thread stands
    match,         \* match, of NESDebugger::step
    discard,       \* in.discard
    ui,            \* where the window's thread stands, and for which button
    command,       \* the button last obeyed: the last of pause, run and step
    executed,      \* instructions executed since, as far as they are counted
    broke,         \* the breakpoint at pc has stopped the CPU
    released       \* and run or step has been pressed since

dbg     == <<mode, resume>>
log     == <<logging, log_stream>>
thread  == <<at, match, discard>>
asked == <<command, executed, broke, released>>
debuggerVars == <<dbg, breakpoints, log, pc, thread, ui, asked>>

Breakpoint == [pc : Pcs, enabled : BOOLEAN]

EmulatorAt ==
    {"loop", "step", "step2", "check", "decide", "break", "mode", "pause",
     "clear", "log", "execute", "paused", "paused2", "render"}

UiAt == {"idle", "runResume", "run", "stepResume", "step", "open"}

MaxExecuted == 3

DebuggerTypeOK ==
    /\ mode \in Modes /\ resume \in BOOLEAN
    /\ breakpoints \in Seq(Breakpoint) /\ Len(breakpoints) <= MaxBreakpoints
    /\ logging \in BOOLEAN /\ log_stream \in {"closed", "good", "failed"}
    /\ pc \in Pcs
    /\ at \in EmulatorAt /\ match \in BOOLEAN /\ discard \in BOOLEAN
    /\ ui \in UiAt
    /\ command \in {"run", "pause", "step"} /\ executed \in 0..MaxExecuted
    /\ broke \in BOOLEAN /\ released \in BOOLEAN

\* The --break option pauses before the first instruction, --log opens the log.
DebuggerInit ==
    /\ \/ mode = "RUN" /\ command = "run"
       \/ mode = "PAUSE" /\ command = "pause"
    /\ resume = FALSE
    /\ breakpoints = <<>>
    /\ logging \in BOOLEAN
    /\ log_stream = IF logging THEN "good" ELSE "closed"
    /\ pc \in Pcs
    /\ at = "loop" /\ match = FALSE /\ discard = FALSE
    /\ ui = "idle"
    /\ executed = 0
    /\ broke = FALSE /\ released = FALSE
-----------------------------------------------------------------------------
(* The emulation thread                                                     *)

Goto(from, to) ==
    /\ at = from
    /\ at' = to

\* The events of the main loop; the 'r' key resets the console, PC included.
PollEvents ==
    /\ Goto("loop", "step")
    /\ pc' \in Pcs
    /\ UNCHANGED <<dbg, breakpoints, log, match, discard, ui, asked>>

\* NESDebugger::paused loads dbg_mode twice.
PausedIs(from, m, yes, no) ==
    /\ Goto(from, IF mode = m THEN yes ELSE no)
    /\ UNCHANGED <<dbg, breakpoints, log, pc, match, discard, ui, asked>>

\* Mutated form: only a breakpoint keeps NES::step from stepping.
EnterUnlessBreak ==
    \/ /\ Goto("step", "step2")
       /\ UNCHANGED <<dbg, breakpoints, log, pc, match, discard, ui, asked>>
    \/ PausedIs("step2", "BREAK", "paused", "check")

\* NES::step does nothing while the debugger is paused.
EnterStep ==
    \/ PausedIs("step", "PAUSE", "paused", "step2")
    \/ PausedIs("step2", "BREAK", "paused", "check")

\* Mutated form: breakpoints that are disabled match too.
MatchesAny(bp) == bp.pc = pc

Matches(bp) == bp.enabled /\ bp.pc = pc

\* any_of over the breakpoints, taken as one look at all of them
CheckBreakpoints ==
    /\ Goto("check", "decide")
    /\ match' = \E i \in DOMAIN breakpoints : Matches(breakpoints[i])
    /\ discard' = FALSE
    /\ UNCHANGED <<dbg, breakpoints, log, pc, ui, asked>>

Decide ==
    /\ Goto("decide", IF match /\ ~resume THEN "break" ELSE "mode")
    /\ UNCHANGED <<dbg, breakpoints, log, pc, match, discard, ui, asked>>

Break ==
    /\ Goto("break", "log")
    /\ mode' = "BREAK"
    /\ discard' = TRUE
    /\ broke' = TRUE /\ released' = FALSE
    /\ UNCHANGED <<resume, breakpoints, log, pc, match, ui, command, executed>>

LookAtMode ==
    /\ Goto("mode", IF mode = "STEP" THEN "pause" ELSE "log")
    /\ UNCHANGED <<dbg, breakpoints, log, pc, match, discard, ui, asked>>

\* Mutated form: a step does not pause again.
StepForever ==
    /\ Goto("pause", "log")
    /\ UNCHANGED <<dbg, breakpoints, log, pc, match, discard, ui, asked>>

PauseAfterStep ==
    /\ Goto("pause", "log")
    /\ mode' = "PAUSE"
    /\ UNCHANGED <<resume, breakpoints, log, pc, match, discard, ui, asked>>

\* The instruction is written to the log, if that is open.
Log ==
    /\ Goto("log", "clear")
    /\ UNCHANGED <<dbg, breakpoints, log, pc, match, discard, ui, asked>>

\* Mutated form: resume_ stays set.
KeepResume ==
    /\ Goto("clear", IF discard THEN "paused" ELSE "execute")
    /\ UNCHANGED <<dbg, breakpoints, log, pc, match, discard, ui, asked>>

ClearResume ==
    /\ Goto("clear", IF discard THEN "paused" ELSE "execute")
    /\ resume' = FALSE
    /\ UNCHANGED <<mode, breakpoints, log, pc, match, discard, ui, asked>>

\* The CPU executes what the debugger has not discarded.
Execute ==
    /\ Goto("execute", "paused")
    /\ pc' \in Pcs
    /\ executed' = IF executed = MaxExecuted THEN executed ELSE executed + 1
    /\ broke' = FALSE /\ released' = FALSE
    /\ UNCHANGED <<dbg, breakpoints, log, match, discard, ui, command>>

\* The main loop leaves for the events when the console is paused,
LeaveStep ==
    \/ PausedIs("paused", "PAUSE", "loop", "paused2")
    \/ PausedIs("paused2", "BREAK", "loop", "render")

\* or when a frame has been finished.
LookForFrame ==
    /\ \/ Goto("render", "loop")
       \/ Goto("render", "step")
    /\ UNCHANGED <<dbg, breakpoints, log, pc, match, discard, ui, asked>>

Emulate ==
    \/ PollEvents \/ EnterStep
    \/ CheckBreakpoints \/ Decide \/ Break \/ LookAtMode \/ PauseAfterStep \/ Log
    \/ ClearResume \/ Execute
    \/ LeaveStep \/ LookForFrame
-----------------------------------------------------------------------------
(* The thread of the window                                                 *)

Click(next) ==
    /\ ui = "idle"
    /\ ui' = next
    /\ UNCHANGED <<log, pc, thread>>

Finish(from) ==
    /\ ui = from
    /\ ui' = "idle"
    /\ UNCHANGED <<breakpoints, pc, thread>>

Obey(m, c) ==
    /\ mode' = m
    /\ command' = c
    /\ executed' = 0

Pause ==
    /\ Click("idle")
    /\ Obey("PAUSE", "pause")
    /\ UNCHANGED <<resume, breakpoints, broke, released>>

\* pause(false) and stepOne look at the mode, set resume_ behind a breakpoint,
PressRun ==
    /\ Click(IF mode = "BREAK" THEN "runResume" ELSE "run")
    /\ released' = broke
    /\ UNCHANGED <<dbg, breakpoints, command, executed, broke>>

PressStep ==
    /\ Click(IF mode = "BREAK" THEN "stepResume" ELSE "step")
    /\ released' = broke
    /\ UNCHANGED <<dbg, breakpoints, command, executed, broke>>

SetResume ==
    /\ \/ ui = "runResume" /\ ui' = "run"
       \/ ui = "stepResume" /\ ui' = "step"
    /\ resume' = TRUE
    /\ UNCHANGED <<mode, breakpoints, log, pc, thread, asked>>

\* and set the mode.
Run ==
    /\ Finish("run")
    /\ Obey("RUN", "run")
    /\ UNCHANGED <<resume, log, broke, released>>

StepOne ==
    /\ Finish("step")
    /\ Obey("STEP", "step")
    /\ UNCHANGED <<resume, log, broke, released>>

SetBreakpoint(a) ==
    /\ Click("idle")
    /\ Len(breakpoints) < MaxBreakpoints
    /\ breakpoints' = Append(breakpoints, [pc |-> a, enabled |-> TRUE])
    /\ UNCHANGED <<dbg, asked>>

DisableBreakpoint(i) ==
    /\ Click("idle")
    /\ breakpoints' = [breakpoints EXCEPT ![i].enabled = FALSE]
    /\ UNCHANGED <<dbg, asked>>

\* setLogging opens the log whenever logging starts,
PressLog ==
    /\ Click(IF logging THEN "idle" ELSE "open")
    /\ UNCHANGED <<dbg, breakpoints, asked>>

\* which fails on a stream that is open already,
OpenLog ==
    /\ Finish("open")
    /\ log_stream' = IF log_stream = "closed" THEN "good" ELSE "failed"
    /\ logging' = TRUE
    /\ UNCHANGED <<dbg, asked>>

\* and nothing closes it.
StopLog ==
    /\ ui = "idle"
    /\ logging' = FALSE
    /\ UNCHANGED <<dbg, breakpoints, log_stream, pc, thread, ui, asked>>

Finishing == SetResume \/ Run \/ StepOne \/ OpenLog

Window ==
    \/ Pause \/ PressRun \/ PressStep
    \/ \E a \in Pcs : SetBreakpoint(a)
    \/ \E i \in DOMAIN breakpoints : DisableBreakpoint(i)
    \/ PressLog \/ StopLog
    \/ Finishing

DebuggerNext == Emulate \/ Window

\* Both threads keep running; the user presses what and when he likes.
DebuggerSpec ==
    /\ DebuggerInit /\ [][DebuggerNext]_debuggerVars
    /\ WF_debuggerVars(Emulate) /\ WF_debuggerVars(Finishing)
-----------------------------------------------------------------------------
(* Properties                                                               *)

\* An instruction at a breakpoint is executed only after the CPU has stopped there
\* and the user has pressed Run or Step since, however the accesses of dbg_mode and
\* resume_ by the two threads interleave.
BreakpointHolds == [][Execute /\ match => released]_debuggerVars

\* The CPU overruns the user by one instruction: behind Pause it executes at most
\* the one at hand, behind Step that one and the one asked for, although paused
\* loads the mode twice and the emulation thread writes it, too.
OverrunBounded ==
    /\ command = "pause" => executed <= 1
    /\ command = "step" => executed <= 2

\* A pause lasts: while the user only pauses, the CPU comes to rest for good.
PauseLasts == <>[](command = "pause") => <>[][~Execute]_debuggerVars

AllDisabled == \A i \in DOMAIN breakpoints : ~breakpoints[i].enabled

\* Although a press of Run can be lost to the end of a step or to a breakpoint, a
\* user who presses it again gets the CPU going, unless a breakpoint is enabled.
RunGetsThrough ==
    <>[](command = "run" /\ AllDisabled) /\ []<><<Run>>_debuggerVars
        => []<><<Execute>>_debuggerVars
-----------------------------------------------------------------------------
(* What an assertion of the source says, and the code does not do           *)

\* assert(log_stream_): logging starts on a stream that is good.
LogOpens == log_stream # "failed"
=============================================================================
