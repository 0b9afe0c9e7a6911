------------------------------ MODULE Control ------------------------------
(***************************************************************************)
(* What the call/return frame protocol promises (spec sections 4.1, 4.2): *)
(* execution of one process moves along the control-flow graph of the     *)
(* bytecode.  An invoke enters its callee at the first instruction and    *)
(* remembers the instruction after the invoke; a return resumes at the    *)
(* most recently remembered instruction; a terminating ProcessYield ends  *)
(* the process.  Garbage collection, stack growth, breakpoints and        *)
(* surrender to the scheduler do not appear at this level: the Engine     *)
(* module must implement this specification with all of them happening.  *)
(***************************************************************************)
EXTENDS Integers, Sequences, SequencesExt, Bytecodes

CONSTANTS
  Code,            \* Code[f]: the instruction sequence of Function f
  Entry,           \* the Function the process starts in
  Callees(_)       \* Callees(ins): the Functions instruction ins may enter

VARIABLES
  pos,             \* <<f, p>>: the next instruction to execute
  frames,          \* remembered return positions, innermost last
  halted           \* the process has terminated

cvars == <<pos, frames, halted>>

Instr == Code[pos[1]][pos[2]]
Next1 == <<pos[1], pos[2] + 1>>

\* A finally-subroutine returns to just after one of its Function's calls.
SubroutineCalls(f) == {q \in DOMAIN Code[f] : Code[f][q].op = "SubroutineCall"}

Init ==
  /\ pos = <<Entry, 1>>
  /\ frames = << >>
  /\ halted = FALSE

\* An instruction completes and execution continues within the Function.
Step ==
  /\ \/ Instr.op \in FallThrough \cup {"LoadStaticInit", "InvokeNative",
                                       "InvokeNativeYield"}
        /\ pos' = Next1
     \/ Instr.op \in BranchAlways
        /\ pos' = <<pos[1], pos[2] + BranchDelta(Instr)>>
     \/ Instr.op \in BranchTrue \cup BranchFalse
        /\ pos' \in {Next1, <<pos[1], pos[2] + BranchDelta(Instr)>>}
     \/ Instr.op = "SubroutineCall"
        /\ pos' = <<pos[1], pos[2] + Instr.a>>
     \/ Instr.op = "SubroutineReturn"
        /\ pos' \in {<<pos[1], q + 1>> : q \in SubroutineCalls(pos[1])}
  /\ UNCHANGED frames

\* An invoke, or a LoadStaticInit of a static still holding its initializer.
Enter ==
  /\ \E g \in Callees(Instr) :
       /\ pos' = <<g, 1>>
       /\ frames' = Append(frames, Next1)

\* Return, a native that completed and returns on behalf of its Function,
\* or the exit of the no-such-method trampoline.
Leave ==
  /\ Instr.op \in {"Return", "InvokeNative", "InvokeNativeYield",
                   "ExitNoSuchMethod"}
  /\ frames /= << >>
  /\ pos' = Last(frames)
  /\ frames' = Front(frames)

CNext ==
  /\ ~halted
  /\ \/ (Step \/ Enter \/ Leave) /\ UNCHANGED halted
     \/ /\ Instr.op = "ProcessYield"
        /\ pos' = Next1
        /\ halted' = TRUE
        /\ UNCHANGED frames

\* As long as the process has not terminated it keeps executing.
CSpec == Init /\ [][CNext]_cvars /\ WF_cvars(CNext)
=============================================================================
