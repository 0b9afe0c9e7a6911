---------------------------- MODULE Coroutines ----------------------------
(***************************************************************************)
(* The coroutines of one process as interpreter.cc switches and unwinds  *)
(* them: the CoroutineChange opcode, the Throw opcode and HandleThrow.    *)
(* Each Coroutine owns a stack and a caller back-reference; the engine   *)
(* works on the running coroutine's stack through its registers (stk and *)
(* bcp) and flushes them into the Stack object with SaveState.           *)
(*                                                                       *)
(* The coroutine library around the opcodes (creating a coroutine with a *)
(* fresh stack, Coroutine.call setting the callee's caller, yield        *)
(* clearing it) is not among the sources; it is modelled from spec 4.4   *)
(* and the glossary as the environment that drives the opcodes.  The     *)
(* stack walker's catch-block computation (stack_walker.cc) is modelled  *)
(* from spec 4.5.  Slot contents are abstracted to their kind.           *)
(***************************************************************************)
EXTENDS Integers, Sequences, SequencesExt, FiniteSets

CONSTANTS
  Coros,     \* coroutine identities
  Main,      \* the coroutine the process starts in
  MaxStack   \* bound: slots on a running coroutine's stack

ASSUME Main \in Coros /\ MaxStack \in Nat

VARIABLES
  stk,       \* the running coroutine's stack as the registers see it
  bcp,       \* whose code bcp_ points into (a coroutine)
  current,   \* process()->coroutine()
  stacks,    \* stacks[c]: the Stack object of coroutine c, as last saved
  caller,    \* caller[c]: Coroutine::caller()
  born,      \* coroutines created so far
  pc,        \* "user", or "change" when the library is at CoroutineChange
  session,   \* program()->session() is attached and debugging
  status     \* "Running", "UncaughtException" (surrendered) or "Exit"

vars == <<stk, bcp, current, stacks, caller, born, pc, session, status>>

\* Slots.  A saved bcp records whose code it points into; a try slot
\* stands for the stack height a try block's handler runs at.
Val       == [t |-> "val", v |-> "x"]
Null      == [t |-> "null", v |-> "null"]
CoroRef(c) == [t |-> "coro", v |-> c]
TryMark   == [t |-> "try", v |-> "try"]
Base(c)   == [t |-> "base", v |-> c]
SavedBcp(c) == [t |-> "bcp", v |-> c]
\* The null object in a Coroutine's stack field; a live stack always
\* holds at least its entry frame.
NullStack == << >>

Top(s) == s[Len(s)]
Local(s, n) == s[Len(s) - n]
SetLocal(s, n, x) == [s EXCEPT ![Len(s) - n] = x]
SetTop(s, x) == SetLocal(s, 0, x)
Drop(s, n) == SubSeq(s, 1, Len(s) - n)

\* A new coroutine's stack, as the library's native builds it: the entry
\* frame suspended at the CoroutineChange that will receive the first
\* argument (two operand slots and the saved bcp).
Fresh(c) == << Base(c), Null, Null, SavedBcp(c) >>

Init ==
  /\ stk = << Base(Main) >>
  /\ bcp = Main
  /\ current = Main
  /\ stacks = [c \in Coros |-> NullStack]
  /\ caller = [c \in Coros |-> c]
  /\ born = {Main}
  /\ pc = "user"
  /\ session \in BOOLEAN
  /\ status = "Running"

Suspended(c) == c /= current /\ stacks[c] /= NullStack /\ caller[c] = c

(***************************************************************************)
(* SaveState pushes bcp_ and stores sp_ into the Stack object;            *)
(* RestoreState reads them back from the current coroutine's stack and    *)
(* pops the bcp.                                                          *)
(***************************************************************************)
SaveState(s) == Append(s, SavedBcp(bcp))

\* Fault-injection variant: RestoreState reading the coroutine that was
\* current before process()->UpdateCoroutine.
ResumeStale(c, st) == st[current]

\* The Stack object RestoreState reads once process()->coroutine() is c.
Resume(c, st) == st[c]

\* Object* argument = Local(0).
Argument(s) == Top(s)

(***************************************************************************)
(* OPCODE CoroutineChange: null the two operand slots, SaveState,         *)
(* UpdateCoroutine, RestoreState, Advance, Drop(1), SetTop(argument).     *)
(***************************************************************************)
CoroutineChange ==
  /\ status = "Running" /\ pc = "change"
  /\ LET argument == Argument(stk)
         c == Local(stk, 1).v
         st == [stacks EXCEPT ![current] =
                  SaveState(SetLocal(SetTop(stk, Null), 1, Null))]
         r == Resume(c, st)
     IN /\ stacks' = st
        /\ current' = c
        /\ bcp' = Top(r).v
        /\ stk' = SetTop(Drop(Drop(r, 1), 1), argument)
  /\ pc' = "user"
  /\ UNCHANGED <<caller, born, session, status>>

(***************************************************************************)
(* StackWalker::ComputeCatchBlock (spec 4.5): the innermost try block on  *)
(* the stack, and the stack delta to it counted on a stack that includes  *)
(* the saved bcp; 0 when no frame catches.                                *)
(***************************************************************************)
CatchDelta(s) ==
  LET tries == {i \in DOMAIN s : s[i] = TryMark}
  IN IF tries = {} THEN 0 ELSE Len(s) - Max(tries)

(***************************************************************************)
(* HandleThrow: find a catch block in the current coroutine; failing     *)
(* that, switch to its caller, clear the abandoned coroutine's stack and  *)
(* self-loop its caller (done), and look again.  delta 0: no caller left. *)
(***************************************************************************)
\* Fault-injection variant: the abandoned coroutine's caller is not
\* self-looped, so it is not marked done.
RECURSIVE HandleThrowNoDone(_, _, _)
HandleThrowNoDone(c, st, cl) ==
  IF CatchDelta(st[c]) > 0 \/ cl[c] = c
  THEN [cur |-> c, stacks |-> st, caller |-> cl, delta |-> CatchDelta(st[c])]
  ELSE HandleThrowNoDone(cl[c], [st EXCEPT ![c] = NullStack], cl)

RECURSIVE HandleThrow(_, _, _)
HandleThrow(c, st, cl) ==
  IF CatchDelta(st[c]) > 0 \/ cl[c] = c
  THEN [cur |-> c, stacks |-> st, caller |-> cl, delta |-> CatchDelta(st[c])]
  ELSE LET k == cl[c]
       IN HandleThrow(k, [st EXCEPT ![c] = NullStack], [cl EXCEPT ![c] = c])

\* RestoreState, Drop(stack_delta - 1), SetTop(exception).
CatchStack(r, delta, exception) ==
  SetTop(Drop(Drop(r, 1), delta - 1), exception)

(***************************************************************************)
(* OPCODE Throw: the exception is Local(0); SaveState; HandleThrow.  No   *)
(* catch block: surrender with kUncaughtException when a debugging        *)
(* session is attached, exit(1) otherwise.  Else restore the catching     *)
(* coroutine's state, go to the catch block, cut the stack, and put the   *)
(* exception on top.                                                      *)
(***************************************************************************)
Throw ==
  /\ status = "Running" /\ pc = "user"
  /\ Top(stk) = Val
  /\ LET exception == Top(stk)
         h == HandleThrow(current,
                          [stacks EXCEPT ![current] = SaveState(stk)], caller)
         r == Resume(h.cur, h.stacks)
     IN /\ current' = h.cur
        /\ stacks' = h.stacks
        /\ caller' = h.caller
        /\ IF h.delta = 0
           THEN /\ status' = IF session THEN "UncaughtException" ELSE "Exit"
                /\ UNCHANGED <<stk, bcp>>
           ELSE /\ bcp' = h.cur
                /\ stk' = CatchStack(r, h.delta, exception)
                /\ UNCHANGED status
  /\ UNCHANGED <<born, pc, session>>

(***************************************************************************)
(* The program around the opcodes: operand pushes and pops, entering and *)
(* leaving try blocks, and the coroutine library (spec 4.4): creating a   *)
(* coroutine, Coroutine.call (the callee's caller becomes the current     *)
(* coroutine, then CoroutineChange(callee, argument)) and yield (the      *)
(* caller is cleared, then CoroutineChange(caller, value)).               *)
(***************************************************************************)
User == status = "Running" /\ pc = "user"
Room(n) == Len(stk) + n <= MaxStack

PushValue ==
  /\ User /\ Room(1)
  /\ stk' = Append(stk, Val)
  /\ UNCHANGED <<bcp, current, stacks, caller, born, pc, session, status>>

PopValue ==
  /\ User /\ Top(stk).t \in {"val", "null", "coro"}
  /\ stk' = Drop(stk, 1)
  /\ UNCHANGED <<bcp, current, stacks, caller, born, pc, session, status>>

EnterTry ==
  /\ User /\ Room(1)
  /\ stk' = Append(stk, TryMark)
  /\ UNCHANGED <<bcp, current, stacks, caller, born, pc, session, status>>

LeaveTry ==
  /\ User /\ Top(stk) = TryMark
  /\ stk' = Drop(stk, 1)
  /\ UNCHANGED <<bcp, current, stacks, caller, born, pc, session, status>>

NewCoroutine ==
  /\ User /\ Room(1)
  /\ \E c \in Coros \ born :
       /\ born' = born \cup {c}
       /\ stacks' = [stacks EXCEPT ![c] = Fresh(c)]
       /\ caller' = [caller EXCEPT ![c] = c]
       /\ stk' = Append(stk, CoroRef(c))
  /\ UNCHANGED <<bcp, current, pc, session, status>>

\* Coroutine.call(argument) with the callee and argument on top.
CallCoroutine ==
  /\ User /\ Len(stk) >= 2 /\ Top(stk) = Val
  /\ Local(stk, 1).t = "coro" /\ Suspended(Local(stk, 1).v)
  /\ caller' = [caller EXCEPT ![Local(stk, 1).v] = current]
  /\ pc' = "change"
  /\ UNCHANGED <<stk, bcp, current, stacks, born, session, status>>

\* Coroutine.yield(value) with the value on top.
YieldCoroutine ==
  /\ User /\ Room(1) /\ Top(stk) = Val /\ caller[current] /= current
  /\ caller' = [caller EXCEPT ![current] = current]
  /\ stk' = Append(SetTop(stk, CoroRef(caller[current])), Val)
  /\ pc' = "change"
  /\ UNCHANGED <<bcp, current, stacks, born, session, status>>

\* The process has surrendered or exited.
Stopped == status /= "Running" /\ UNCHANGED vars

Next ==
  \/ PushValue \/ PopValue \/ EnterTry \/ LeaveTry
  \/ NewCoroutine \/ CallCoroutine \/ YieldCoroutine
  \/ CoroutineChange \/ Throw \/ Stopped

Spec == Init /\ [][Next]_vars

(***************************************************************************)
(* Properties.                                                             *)
(***************************************************************************)
\* While the process runs, the engine's registers belong to the running
\* coroutine: bcp points into its code, sp_ into its own live stack,
\* after every CoroutineChange and every unwind across coroutines.
RegistersOwned ==
  status = "Running" =>
    /\ bcp = current
    /\ Head(stk) = Base(current)

(***************************************************************************)
(* Refinement.  A coroutine's logical stack is the registers while it     *)
(* runs, and its Stack object without the saved bcp otherwise (and once   *)
(* the process has stopped, the Stack objects HandleThrow left).          *)
(***************************************************************************)
LogicalStack(c) ==
  IF c = current /\ status = "Running" THEN stk ELSE Drop(stacks[c], 1)

Abs == INSTANCE CoroutineStacks WITH live <- [c \in Coros |-> LogicalStack(c)]

\* The engine's side of every switch and throw (nulling the operands,
\* SaveState, UpdateCoroutine, RestoreState from the new coroutine's
\* Stack, the Drop(1) and Drop(stack_delta - 1) on the restored stack,
\* the unwind that clears and self-loops each abandoned coroutine) is
\* the atomic step of spec 4.4 and 4.5 on logical stacks.
CoroutinesRefined == Abs!Spec
=============================================================================
