---------------------------- MODULE ByteEngine ----------------------------
(***************************************************************************)
(* The interpreter's control transfers at byte granularity: bcp_ is a     *)
(* byte address <<f, o>> into the Image of ByteCode, every handler reads *)
(* its operands from the image, and moves bcp_ by the k<Op>Length        *)
(* constant its code names, by a branch delta, to a callee's first byte  *)
(* or to a popped return address.  Garbage collection, stack polls,      *)
(* breakpoints and surrender to the scheduler are left to Engine, which  *)
(* models them at instruction granularity; the receiver's class is      *)
(* abstracted away: a lookup by selector is Resolve and a vtable lookup  *)
(* by offset is VtableFn, which Engine models per class.  The module     *)
(* implements Control: the byte addresses it reaches, mapped back to     *)
(* instructions, follow the control-flow graph Control allows.            *)
(***************************************************************************)
EXTENDS Integers, Sequences, SequencesExt, ByteCode

CONSTANTS
  Entry,           \* the Function the process starts in
  EntryArgs,       \* the possible argument sequences of Entry
  Fields,          \* Fields[k]: NumberOfInstanceFields of class k
  DispatchTable,   \* program()->dispatch_table(): index -> selector
  Resolve(_),      \* Resolve(selector): the Function a method call enters
  VtableFn(_),     \* VtableFn(offset): the Function of the vtable entry at
                   \* class id + offset, or of vtable[0] when the entry's
                   \* stored offset is another
  NativeResults    \* the results (or failures) a native may return

VARIABLES
  bcp,             \* <<f, o>>: the byte bcp_ points at
  stk,             \* the operand stack, top last
  halted           \* a terminating ProcessYield has run

vars == <<bcp, stk, halted>>

Top(s) == s[Len(s)]
Local(s, n) == s[Len(s) - n]
Drop(s, n) == SubSeq(s, 1, Len(s) - n)

Op == OpcodeAt(bcp[1], bcp[2])
ReadByte(k) == ReadByteAt(bcp[1], bcp[2] + k)
ReadInt32(k) == ReadInt32At(bcp[1], bcp[2] + k)
Advance(d) == bcp' = <<bcp[1], bcp[2] + d>>
\* PushReturnAddress(offset): bcp_ + offset.
ReturnAddress(offset) == RetAddr(bcp[1], bcp[2] + offset)
Goto(g) == bcp' = <<g, 0>>

Init ==
  /\ bcp = <<Entry, 0>>
  /\ stk \in EntryArgs
  /\ halted = FALSE

Running(ops) == ~halted /\ Op \in ops

(***************************************************************************)
(* The length constants the handlers name.  Each names its own opcode's, *)
(* except where its code names another's.                                *)
(***************************************************************************)
\* AllocateUnfold: Advance(kAllocateLength).
AllocateLength(op) == Length(IF op = "AllocateUnfold" THEN "Allocate" ELSE op)

\* Fault-injection variant: BranchBackIfFalse falling through by the length
\* of the long form.
FallLengthLong(op) ==
  Length(IF op = "BranchBackIfFalse" THEN "BranchBackIfFalseLong" ELSE op)

\* Branch(true_offset, false_offset): the not-taken side of each
\* conditional branch; BranchBackIfFalse names kBranchBackIfTrueLength.
FallLength(op) ==
  Length(IF op = "BranchBackIfFalse" THEN "BranchBackIfTrue" ELSE op)

\* PushReturnAddress(k<Op>Length): the Unfold and Factory invokes run
\* InvokeStatic's or name its constant; a builtin selector's invoke runs
\* the code of its InvokeMethod flavour (DISPATCH_TO).
ReturnLength(op) ==
  Length(CASE op \in Invokes       -> "InvokeStatic"
           [] op \in NormalInvokes -> "InvokeMethod"
           [] op \in FastInvokes   -> "InvokeMethodFast"
           [] OTHER                -> "InvokeMethodVtable")

(***************************************************************************)
(* Opcodes that only push, pop and advance.                               *)
(***************************************************************************)
Straight ==
  /\ Running({"LoadLocal", "LoadLiteral", "LoadLiteralNull", "LoadLiteralTrue",
              "LoadLiteralFalse", "Pop", "StackOverflowCheck", "FrameSize"})
  /\ stk' = CASE Op = "LoadLocal"        -> Append(stk, Local(stk, ReadByte(1)))
              [] Op = "LoadLiteral"      -> Append(stk, Smi(ReadByte(1)))
              [] Op = "LoadLiteralNull"  -> Append(stk, NullObj)
              [] Op = "LoadLiteralTrue"  -> Append(stk, TrueObj)
              [] Op = "LoadLiteralFalse" -> Append(stk, FalseObj)
              [] Op = "Pop"              -> Drop(stk, 1)
              [] OTHER                   -> stk
  /\ Advance(Length(Op))
  /\ UNCHANGED halted

\* Allocate k / AllocateUnfold (class from ReadConstant): pop the fields
\* into a new instance and push it.
Allocate ==
  /\ Running({"Allocate", "AllocateUnfold"})
  /\ LET k == ReadInt32(1)
     IN stk' = Append(Drop(stk, Fields[k]), [t |-> "obj", v |-> k])
  /\ Advance(AllocateLength(Op))
  /\ UNCHANGED halted

\* ProcessYield of true_object: the top is replaced by null, bcp_ saved
\* past the opcode, and the process terminates.  (A yield of anything
\* else surrenders to the scheduler; Engine models that.)
ProcessYield ==
  /\ Running({"ProcessYield"})
  /\ Top(stk) = TrueObj
  /\ halted' = TRUE
  /\ Advance(Length(Op))
  /\ stk' = [stk EXCEPT ![Len(stk)] = NullObj]

(***************************************************************************)
(* Branches.                                                               *)
(***************************************************************************)
\* The delta each branch opcode reads, negated for the back branches.
BranchOperand ==
  LET d == IF Op \in {"PopAndBranchLong", "PopAndBranchBackLong"}
           THEN ReadInt32(2)
           ELSE IF Op \in ByteOperandOps THEN ReadByte(1) ELSE ReadInt32(1)
  IN IF Op \in BackBranches THEN -d ELSE d

\* Engine::Branch(true_offset, false_offset): pop, compare with true_object.
Branch ==
  /\ Running(BranchAlways \cup BranchTrue \cup BranchFalse)
  /\ \/ /\ Op \in BranchAlways
        /\ stk' = IF Op \in {"PopAndBranchLong", "PopAndBranchBackLong"}
                  THEN Drop(stk, ReadByte(1)) ELSE stk
        /\ Advance(BranchOperand)
     \/ /\ Op \in BranchTrue \cup BranchFalse
        /\ stk' = Drop(stk, 1)
        /\ Advance(IF (Top(stk) = TrueObj) = (Op \in BranchTrue)
                   THEN BranchOperand ELSE FallLength(Op))
  /\ UNCHANGED halted

\* SubroutineCall: PushDelta(ReadInt32(5)), Advance(ReadInt32(1));
\* SubroutineReturn: Advance(-PopDelta()).
Subroutine ==
  /\ Running({"SubroutineCall", "SubroutineReturn"})
  /\ \/ /\ Op = "SubroutineCall"
        /\ stk' = Append(stk, Smi(ReadInt32(5)))
        /\ Advance(ReadInt32(1))
     \/ /\ Op = "SubroutineReturn"
        /\ stk' = Drop(stk, 1)
        /\ Advance(-Top(stk).v)
  /\ UNCHANGED halted

(***************************************************************************)
(* Calls and returns.                                                      *)
(***************************************************************************)
\* InvokeStatic, InvokeFactory and their Unfold forms.
InvokeStatic ==
  /\ Running(Invokes)
  /\ stk' = Append(stk, ReturnAddress(ReturnLength(Op)))
  /\ Goto(ReadInt32(1))
  /\ UNCHANGED halted

\* The Function a method invoke enters: the selector operand looked up
\* (InvokeMethod), table->get(index + 1) looked up (InvokeMethodFast), or
\* the vtable entry at the offset the operand's id field holds
\* (InvokeMethodVtable).
InvokeTarget ==
  CASE Op \in FastInvokes   -> Resolve(DispatchTable[ReadInt32(1) + 1])
    [] Op \in VtableInvokes -> VtableFn(ReadInt32(1).id)
    [] OTHER                -> Resolve(ReadInt32(1))

InvokeMethod ==
  /\ Running(MethodInvokes)
  /\ stk' = Append(stk, ReturnAddress(ReturnLength(Op)))
  /\ Goto(InvokeTarget)
  /\ UNCHANGED halted

\* InvokeNative arity native: a failure is pushed and the Function's own
\* code runs on; a result returns on behalf of the native's Function.
InvokeNative ==
  /\ Running({"InvokeNative"})
  /\ \E r \in NativeResults :
       IF r.t = "error"
       THEN stk' = Append(stk, r) /\ Advance(Length(Op))
       ELSE /\ bcp' = Top(stk).v
            /\ stk' = Append(Drop(Drop(stk, 1), ReadByte(1)), r)
  /\ UNCHANGED halted

\* Return locals arguments.
Return ==
  /\ Running({"Return"})
  /\ LET s == Drop(stk, ReadByte(1))
     IN /\ bcp' = Top(s).v
        /\ stk' = Append(Drop(Drop(s, 1), ReadByte(2)), Top(stk))
  /\ UNCHANGED halted

(***************************************************************************)
(* The no-such-method trampoline decodes the invoke that entered it from *)
(* the bytes before its return address.                                  *)
(***************************************************************************)
\* Fault-injection variant: the opcode looked for one byte too late.
InvokeOpcodeLate(ra) == OpcodeAt(ra[1], ra[2] - 4)

\* *(return_address - 5).
InvokeOpcode(ra) == OpcodeAt(ra[1], ra[2] - 5)

\* The selector: the word at return_address - 4, through the dispatch
\* table for a Fast invoke; for a Vtable invoke that word's id field is
\* the offset (the TODO at the decode says so).  Before anything but an invoke the code's
\* ASSERT(IsInvokeNormal(opcode)) fails: no selector.
DecodedSelector(ra) ==
  LET word == ReadInt32At(ra[1], ra[2] - 4)
      isWord == ByteAt(ra[1], ra[2] - 4).k = "word"
  IN CASE InvokeOpcode(ra) \in FastInvokes ->
            IF isWord THEN DispatchTable[word + 1] ELSE Garbage
       [] InvokeOpcode(ra) \in MethodInvokes -> word
       [] OTHER -> Garbage

EnterNoSuchMethod ==
  /\ Running({"EnterNoSuchMethod"})
  /\ LET sel == DecodedSelector(Local(stk, 0).v)
         arity == IF sel = Garbage THEN 0 ELSE sel.arity
     IN stk' = stk \o <<Smi(sel), Local(stk, arity + 1), Smi(sel)>>
  /\ Advance(Length(Op))
  /\ UNCHANGED halted

\* Pop the result and the selector, return; a setter's result is the
\* assigned value; drop the receiver and arguments.
ExitNoSuchMethod ==
  /\ Running({"ExitNoSuchMethod"})
  /\ LET sel == Local(stk, 1).v
         s == Drop(stk, 3)
         result == IF sel.kind = "setter" THEN Local(s, 0) ELSE Top(stk)
     IN /\ bcp' = Local(stk, 2).v
        /\ stk' = Append(Drop(s, sel.arity + 1), result)
  /\ UNCHANGED halted

\* The process has terminated.
Terminated == halted /\ UNCHANGED vars

Next ==
  \/ Straight \/ Allocate \/ ProcessYield \/ Branch \/ Subroutine
  \/ InvokeStatic \/ InvokeMethod \/ InvokeNative \/ Return
  \/ EnterNoSuchMethod \/ ExitNoSuchMethod \/ Terminated

\* One process runs on its own thread until it terminates.
Spec == Init /\ [][Next]_vars /\ WF_vars(Next)

(***************************************************************************)
(* Refinement: the byte engine implements Control.  A byte address is     *)
(* the instruction starting there (0 when none does), and the remembered *)
(* return positions are the return addresses on the stack.               *)
(***************************************************************************)
ByteCallees(ins) ==
  CASE ins.op \in Invokes       -> {ins.f}
    [] ins.op \in FastInvokes   -> {Resolve(DispatchTable[ins.a + 1])}
    [] ins.op \in VtableInvokes -> {VtableFn(ins.a.id)}
    [] ins.op \in NormalInvokes -> {Resolve(ins.a)}
    [] OTHER                    -> {}

Position(b) == <<b[1], IndexAt(b[1], b[2])>>
ReturnPositions ==
  LET ras == SelectSeq(stk, IsRetAddr)
  IN [i \in DOMAIN ras |-> Position(ras[i].v)]

Ctl == INSTANCE Control WITH Code <- Code, Entry <- Entry,
         Callees <- ByteCallees, pos <- Position(bcp),
         frames <- ReturnPositions, halted <- halted

\* Every byte-level step is a step of the instruction-level control flow:
\* each fall-through, branch, subroutine jump and return lands on the
\* first byte of the instruction Control names, whatever length constant
\* or byte delta the handler used to get there (interpreter.cc:554 falls
\* through by kBranchBackIfTrueLength, :614 by kAllocateLength, :385
\* returns past kInvokeStaticLength), and the process keeps running
\* until it terminates.
ControlRefined == Ctl!CSpec
=============================================================================
