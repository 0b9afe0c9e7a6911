------------------------------ MODULE Engine ------------------------------
(***************************************************************************)
(* The bytecode interpreter of one Fletch process: class Engine / State   *)
(* and Interpreter::Run in src/vm/interpreter.cc.                         *)
(*                                                                         *)
(* While the Engine runs, the top of stack and the bytecode pointer live  *)
(* in the registers sp_ and bcp_.  SaveState pushes bcp_ on the stack and *)
(* writes sp_ back to the Stack object; RestoreState reads both back.     *)
(* A garbage collection or a stack growth moves the Stack object; the    *)
(* model keeps the stack's contents, not its address, and the            *)
(* RestoreState that follows each move is part of the same step.         *)
(*                                                                         *)
(* Each opcode is one action that starts after the dispatch gate          *)
(* (phase = "exec") and ends at the next gate (phase = "dispatch"): the   *)
(* gate is the ShouldBreak() check that DISPATCH() makes before jumping.  *)
(***************************************************************************)
EXTENDS Integers, Sequences, SequencesExt, FiniteSets, TLC, Bytecodes,
        FfiNatives

CONSTANTS
  Code,             \* Code[f]: instructions of Function f
  Entry,            \* the Function the process was started in
  Arity,            \* Arity[f]: number of arguments of f
  Fields,           \* Fields[k]: NumberOfInstanceFields of class k
  Consts,           \* Consts[i]: program()->constant_at(i)
  InitStatics,      \* initial process()->statics()
  Obj,              \* heap object identities the allocator can hand out
  NativeResults(_, _), \* results kNativeTable[n] can return on arguments
  NativeAllocates,  \* natives that may return Failure::retry_after_gc()
  Breakpoints,      \* bytecode positions the DebugInfo breaks at
  Debugging,        \* process()->debug_info() != NULL
  Slack,            \* words between stack_limit() and the end of the stack
  InitCap,          \* initial stack length in words
  MaxCap,           \* largest stack HandleStackOverflow will allocate
  MaxGC,            \* bound: number of allocation failures (GCs) explored
  ClassId,          \* ClassId[k]: Class::id() of class k; the tag of a
                    \* literal value (smi, null, ...) names its class
  DispatchTable,    \* program()->dispatch_table(), indexed from 0
  Vtable,           \* program()->vtable(), indexed from 0: [offset, fn]
  Resolve(_, _),    \* Resolve(k, sel): the Function LookupEntrySlow finds
  Responds(_, _),   \* Responds(k, sel): whether that lookup's tag is not 0
  CacheSize         \* number of primary entries of the LookupCache

ASSUME Slack \in Nat /\ InitCap \in Nat /\ MaxCap >= InitCap
ASSUME MaxGC \in Nat

VARIABLES
  stk,       \* contents of the process stack, bottom first
  bcp,       \* register bcp_: <<f, p>>
  phase,     \* "dispatch": at the DISPATCH() gate; "exec": running an opcode
  cap,       \* length of the Stack object
  gcs,       \* number of garbage collections so far
  heap,      \* heap[o]: the object o, or kind "free"
  statics,   \* process()->statics()
  status,    \* "Running" or the InterruptKind of the last surrender
  atBreak,   \* debug_info->is_at_breakpoint()
  target,    \* *yield_target of the last TargetYield surrender
  cache,     \* the process's LookupCache: primary entries
  foreign,   \* what the FFI natives have done outside the heap (FfiNatives)
  lastBreak  \* history: bcp of the last BreakPoint surrender whose opcode
             \* has not completed since (NoBreak when there is none)

vars == <<stk, bcp, phase, cap, gcs, heap, statics, status,
          atBreak, target, cache, foreign, lastBreak>>

NoPort == "noport"
NoBreak == <<"none", 0>>
PortPtr(p) == [t |-> "port", v |-> p]

(***************************************************************************)
(* State accessors (class State).                                          *)
(***************************************************************************)
Instr == Code[bcp[1]][bcp[2]]
Top(s) == s[Len(s)]
Local(s, n) == s[Len(s) - n]
Drop(s, n) == SubSeq(s, 1, Len(s) - n)
SetTop(s, x) == [s EXCEPT ![Len(s)] = x]
Advance(d) == <<bcp[1], bcp[2] + d>>
ToBool(b) == IF b THEN TrueObj ELSE FalseObj

FreeObj == {o \in Obj : heap[o].kind = "free"}

\* Object::IsImmutable: smis and the literal singletons are immutable.
IsImmutable(x) == x.t /= "obj" \/ heap[x.v].imm

\* An opcode begins: the gate let it through and bcp_ is at it.
Op(names) == phase = "exec" /\ Instr.op \in names

\* The opcode ends with registers (s, b) and reaches the next DISPATCH().
Finish(s, b) ==
  /\ stk' = s
  /\ bcp' = b
  /\ phase' = "dispatch"

\* State::SaveState followed by a return from Interpret: the engine
\* surrenders with the given InterruptKind.
Surrender(s, b, kind) ==
  /\ stk' = Append(s, RetAddr(b[1], b[2]))
  /\ bcp' = b
  /\ phase' = "dispatch"
  /\ status' = kind

(***************************************************************************)
(* Engine::CollectGarbage: SaveState, process()->CollectGarbage(),        *)
(* RestoreState.  Objects keep their identity and the stack its contents.*)
(***************************************************************************)
CollectGarbage == gcs' = gcs + 1

\* GC_AND_RETRY_ON_ALLOCATION_FAILURE when the allocation returned
\* Failure::retry_after_gc(): collect, then DISPATCH() the same opcode.
GCAndRetry ==
  /\ gcs < MaxGC
  /\ CollectGarbage
  /\ phase' = "dispatch"
  /\ UNCHANGED <<stk, bcp, cap, heap, statics, status, atBreak, target>>

HasStackSpaceFor(s, size) == Len(s) - 1 + size < cap - Slack

\* Process::HandleStackOverflow (src/vm/process.cc, not in the sources):
\* the new stack is twice as long plus the requested size, up to MaxCap.
GrownCap(size) == 2 * cap + size

StackOverflowCheck(sc, bc, size, s, b) ==
  IF HasStackSpaceFor(sc, size)
  THEN Finish(s, b) /\ UNCHANGED <<cap, status>>
  ELSE IF GrownCap(size) <= MaxCap
  THEN /\ cap' = GrownCap(size)
       /\ Finish(s, b)
       /\ UNCHANGED status
  ELSE Surrender(sc, bc, "Interrupt") /\ UNCHANGED cap

\* PushReturnAddress, Goto(target->bytecode_address_for(0)) and the
\* StackOverflowCheck(0) every call makes before the callee's first opcode.
\* Fault-injection variant: the return address computed with offset 0.
CallFunctionAtCall(g) ==
  LET s == Append(stk, RetAddr(bcp[1], bcp[2]))
  IN StackOverflowCheck(s, <<g, 1>>, 0, s, <<g, 1>>)

CallFunction(g) ==
  LET s == Append(stk, RetAddr(bcp[1], bcp[2] + 1))
  IN StackOverflowCheck(s, <<g, 1>>, 0, s, <<g, 1>>)

(***************************************************************************)
(* Opcodes.  Keep = UNCHANGED on what a plain opcode never touches.      *)
(***************************************************************************)
Keep == UNCHANGED <<cap, gcs, status, atBreak, target>>

\* LoadLocal0..2, LoadLocal: push(local(n)).
LoadLocal ==
  /\ Op({"LoadLocal"})
  /\ Finish(Append(stk, Local(stk, Instr.a)), Advance(1))
  /\ UNCHANGED <<heap, statics>> /\ Keep

\* LoadBoxed: push the value of the Boxed cell held in local(n).
LoadBoxed ==
  /\ Op({"LoadBoxed"})
  /\ Finish(Append(stk, heap[Local(stk, Instr.a).v].fields[1]), Advance(1))
  /\ UNCHANGED <<heap, statics>> /\ Keep

\* LoadStatic i: push process()->statics()->get(i).
LoadStatic ==
  /\ Op({"LoadStatic"})
  /\ Finish(Append(stk, statics[Instr.a]), Advance(1))
  /\ UNCHANGED <<heap, statics>> /\ Keep

\* LoadStaticInit: a static still holding its Initializer calls the
\* initializer's Function; otherwise the value is pushed.
LoadStaticInit ==
  /\ Op({"LoadStaticInit"})
  /\ LET x == statics[Instr.a]
     IN IF x.t = "init"
        THEN CallFunction(x.v) /\ UNCHANGED <<gcs, atBreak, target>>
        ELSE Finish(Append(stk, x), Advance(1)) /\ Keep
  /\ UNCHANGED <<heap, statics>>

\* LoadField f: replace the Instance on top with its field f.
LoadField ==
  /\ Op({"LoadField"})
  /\ Finish(SetTop(stk, heap[Top(stk).v].fields[Instr.a + 1]), Advance(1))
  /\ UNCHANGED <<heap, statics>> /\ Keep

\* LoadConst i: push program()->constant_at(i); LoadConstUnfold pushes
\* the constant ReadConstant() finds beside the code (the same constant).
LoadConst ==
  /\ Op({"LoadConst", "LoadConstUnfold"})
  /\ Finish(Append(stk, Consts[Instr.a]), Advance(1))
  /\ UNCHANGED <<heap, statics>> /\ Keep

\* StoreLocal n: local(n) := top.
StoreLocal ==
  /\ Op({"StoreLocal"})
  /\ Finish([stk EXCEPT ![Len(stk) - Instr.a] = Top(stk)], Advance(1))
  /\ UNCHANGED <<heap, statics>> /\ Keep

\* StoreBoxed n: the Boxed cell in local(n) takes the top value.
StoreBoxed ==
  /\ Op({"StoreBoxed"})
  /\ heap' = [heap EXCEPT ![Local(stk, Instr.a).v].fields[1] = Top(stk)]
  /\ Finish(stk, Advance(1))
  /\ UNCHANGED statics /\ Keep

\* StoreStatic i: statics[i] := top.
StoreStatic ==
  /\ Op({"StoreStatic"})
  /\ statics' = [statics EXCEPT ![Instr.a] = Top(stk)]
  /\ Finish(stk, Advance(1))
  /\ UNCHANGED heap /\ Keep

\* Fault-injection variant: the instance is left under the value.
StoreFieldNoPop ==
  /\ Op({"StoreField"})
  /\ heap' = [heap EXCEPT ![Local(stk, 1).v].fields[Instr.a + 1] = Top(stk)]
  /\ Finish(stk, Advance(1))
  /\ UNCHANGED statics /\ Keep

\* StoreField f: pop value, pop instance, set its field, push value.
StoreField ==
  /\ Op({"StoreField"})
  /\ heap' = [heap EXCEPT ![Local(stk, 1).v].fields[Instr.a + 1] = Top(stk)]
  /\ Finish(Append(Drop(stk, 2), Top(stk)), Advance(1))
  /\ UNCHANGED statics /\ Keep

\* LoadLiteralNull/True/False/0/1, LoadLiteral n, LoadLiteralWide n.
LoadLiteral ==
  /\ Op({"LoadLiteralNull", "LoadLiteralTrue", "LoadLiteralFalse",
         "LoadLiteral"})
  /\ LET x == CASE Instr.op = "LoadLiteralNull"  -> NullObj
                [] Instr.op = "LoadLiteralTrue"  -> TrueObj
                [] Instr.op = "LoadLiteralFalse" -> FalseObj
                [] OTHER                         -> Smi(Instr.a)
     IN Finish(Append(stk, x), Advance(1))
  /\ UNCHANGED <<heap, statics>> /\ Keep

\* InvokeStatic / InvokeFactory / InvokeStatic(Factory)Unfold.
InvokeStatic ==
  /\ Op(Invokes)
  /\ CallFunction(Instr.f)
  /\ UNCHANGED <<gcs, heap, statics, atBreak, target>>

\* Pop: drop the top value.
Pop ==
  /\ Op({"Pop"})
  /\ Finish(Drop(stk, 1), Advance(1))
  /\ UNCHANGED <<heap, statics>> /\ Keep

\* Return locals arguments: keep local(0) as result, drop the locals, pop
\* the return address into bcp_, drop the arguments, push the result.
Return ==
  /\ Op({"Return"})
  /\ LET result == Top(stk)
         s1 == Drop(stk, Instr.a)
     IN Finish(Append(Drop(Drop(s1, 1), Instr.b), result), Top(s1).v)
  /\ UNCHANGED <<heap, statics>> /\ Keep

\* BranchLong, and the back branches, which poll StackOverflowCheck(0)
\* before moving (the poll saves the branch itself when it interrupts).
\* BranchIf{True,False}Long and BranchBackIf*: Engine::Branch pops the
\* condition and moves by the delta or by the opcode length.
Branch ==
  /\ Op(BranchAlways \cup BranchTrue \cup BranchFalse)
  /\ LET popped == IF Instr.op \in BranchTrue \cup BranchFalse THEN 1
                   ELSE IF Instr.op \in {"PopAndBranchLong",
                                         "PopAndBranchBackLong"}
                   THEN Instr.a ELSE 0
         taken  == CASE Instr.op \in BranchTrue  -> Top(stk) = TrueObj
                     [] Instr.op \in BranchFalse -> Top(stk) /= TrueObj
                     [] OTHER                    -> TRUE
         b == Advance(IF taken THEN BranchDelta(Instr) ELSE 1)
     IN IF Instr.op \in BackBranches
        THEN StackOverflowCheck(stk, bcp, 0, Drop(stk, popped), b)
        ELSE Finish(Drop(stk, popped), b) /\ UNCHANGED <<cap, status>>
  /\ UNCHANGED <<gcs, heap, statics, atBreak, target>>

\* Allocate(Unfold) k: NewInstance(klass); on success pop the fields in
\* reverse push order (field i gets the (i+1)-th pushed value), push it.
Allocate ==
  /\ Op({"Allocate", "AllocateUnfold"})
  /\ \/ GCAndRetry
     \/ LET n == Fields[Instr.a]
            o == CHOOSE x \in FreeObj : TRUE
        IN /\ FreeObj /= {}
           /\ heap' = [heap EXCEPT ![o] = [kind |-> "instance", cls |-> Instr.a,
                         fields |-> SubSeq(stk, Len(stk) - n + 1, Len(stk)),
                         imm |-> FALSE]]
           /\ Finish(Append(Drop(stk, n), Ref(o)), Advance(1))
           /\ UNCHANGED statics /\ Keep

\* AllocateImmutable(Unfold) k: the instance is immutable iff every one of
\* the n operands Local(0..n-1) is immutable, computed before NewInstance.
\* Fault-injection variant: the scan stops one operand early.
ComputeImmutableShort(s, n) == \A i \in 0 .. n - 2 : IsImmutable(Local(s, i))

ComputeImmutable(s, n) == \A i \in 0 .. n - 1 : IsImmutable(Local(s, i))

AllocateImmutable ==
  /\ Op({"AllocateImmutable", "AllocateImmutableUnfold"})
  /\ \/ GCAndRetry
     \/ LET n == Fields[Instr.a]
            o == CHOOSE x \in FreeObj : TRUE
        IN /\ FreeObj /= {}
           /\ heap' = [heap EXCEPT ![o] = [kind |-> "instance", cls |-> Instr.a,
                         fields |-> SubSeq(stk, Len(stk) - n + 1, Len(stk)),
                         imm |-> ComputeImmutable(stk, n)]]
           /\ Finish(Append(Drop(stk, n), Ref(o)), Advance(1))
           /\ UNCHANGED statics /\ Keep

\* AllocateBoxed: replace the top value with a new Boxed cell holding it.
AllocateBoxed ==
  /\ Op({"AllocateBoxed"})
  /\ \/ GCAndRetry
     \/ LET o == CHOOSE x \in FreeObj : TRUE
        IN /\ FreeObj /= {}
           /\ heap' = [heap EXCEPT ![o] = [kind |-> "boxed", cls |-> "Boxed",
                         fields |-> <<Top(stk)>>, imm |-> FALSE]]
           /\ Finish(SetTop(stk, Ref(o)), Advance(1))
           /\ UNCHANGED statics /\ Keep

\* InvokeNative arity native, the first opcode of a native Function
\* (Local(0) is the return address): arguments[i] = Local(arity - i).
NativeArgs(arity) == [i \in 0 .. arity - 1 |-> Local(stk, arity - i)]

\* A native's value: pop the return address, drop the arguments, push it,
\* and continue at the return address (the Function's fallback code is
\* skipped).
NativeReturn(r) == Finish(Append(Drop(Drop(stk, 1), Instr.a), r), Top(stk).v)

\* The native returns Failure::retry_after_gc() (collect and re-dispatch),
\* another Failure (ObjectFromFailure pushed for the fallback code that
\* follows), or a value: pop the return address, drop the arguments, push
\* the result.
InvokeNative ==
  /\ Op({"InvokeNative"})
  /\ Instr.b \notin ForeignNatives
  /\ \/ Instr.b \in NativeAllocates /\ GCAndRetry
     \/ \E r \in NativeResults(Instr.b, NativeArgs(Instr.a)) :
          /\ IF r.t = "failure"
             THEN Finish(Append(stk, FailureObj(r.v)), Advance(1))
             ELSE NativeReturn(r)
          /\ UNCHANGED <<heap, statics>> /\ Keep
  /\ UNCHANGED foreign

\* InvokeNative of an ffi.cc native: its body runs and makes its effects;
\* a result that is not a valid Smi makes ToInteger allocate, which may
\* fail with retry_after_gc: collect and re-dispatch the InvokeNative.
InvokeForeign ==
  /\ Op({"InvokeNative"})
  /\ Instr.b \in ForeignNatives
  /\ \E out \in ForeignBody(Instr.b, NativeArgs(Instr.a), heap, foreign) :
       \/ /\ NeedsAllocation(out)
          /\ GCAndRetry
          /\ foreign' = out.fx
       \/ /\ foreign' = Delivered(foreign, out.fx)
          /\ NativeReturn(IF out.int THEN ToInteger(out.val) ELSE out.val)
          /\ UNCHANGED <<heap, statics>> /\ Keep

\* InvokeNativeYield: as InvokeNative, but null is pushed in place of the
\* result, and a non-null result is a locked Port: SaveState (the return
\* address becomes the saved bcp) and surrender with kTargetYield.
InvokeNativeYield ==
  /\ Op({"InvokeNativeYield"})
  /\ \/ Instr.b \in NativeAllocates /\ GCAndRetry
     \/ \E r \in NativeResults(Instr.b, NativeArgs(Instr.a)) :
          LET s == Append(Drop(Drop(stk, 1), Instr.a), NullObj)
          IN \/ /\ r.t = "failure"
                /\ Finish(Append(stk, FailureObj(r.v)), Advance(1))
                /\ Keep
             \/ /\ r = NullObj
                /\ Finish(s, Top(stk).v)
                /\ Keep
             \/ /\ r.t = "port"
                /\ Surrender(s, Top(stk).v, "TargetYield")
                /\ target' = r.v
                /\ UNCHANGED <<cap, gcs, atBreak>>
  /\ UNCHANGED <<heap, statics, foreign>>

\* Negate: swap true_object and false_object on top.  The compiler only
\* emits it on booleans; the UNIMPLEMENTED() abort on anything else is
\* not modelled: the action is disabled there, so a run reaching it would
\* stop with a deadlock.
Negate ==
  /\ Op({"Negate"})
  /\ Top(stk) \in {TrueObj, FalseObj}
  /\ Finish(SetTop(stk, ToBool(Top(stk) = FalseObj)), Advance(1))
  /\ UNCHANGED <<heap, statics>> /\ Keep

\* StackOverflowCheck size: make room for size words or interrupt.
StackOverflowCheckOp ==
  /\ Op({"StackOverflowCheck"})
  /\ StackOverflowCheck(stk, bcp, Instr.a, stk, Advance(1))
  /\ UNCHANGED <<gcs, heap, statics, atBreak, target>>

\* ProcessYield: the top becomes null, bcp_ moves past the opcode, state
\* is saved; kTerminate if the top was true_object, kYield otherwise.
ProcessYield ==
  /\ Op({"ProcessYield"})
  /\ Surrender(SetTop(stk, NullObj), Advance(1),
               IF Top(stk) = TrueObj THEN "Terminate" ELSE "Yield")
  /\ UNCHANGED <<cap, gcs, heap, statics, atBreak, target>>

\* C's == on two doubles: false when either is NaN, and +0.0 == -0.0.
DoubleEq(x, y) ==
  /\ ~x.nan /\ ~y.nan
  /\ x.mag = y.mag
  /\ x.neg = y.neg \/ x.mag = 0

\* HandleIdentical: Doubles by value with NaN identical to NaN,
\* LargeIntegers by value, anything else by pointer.
\* Fault-injection variant: the isnan test left out (C's == alone).
HandleIdenticalNoNaN(l, r) ==
  CASE l.t = "double" /\ r.t = "double" -> DoubleEq(l.v, r.v)
    [] l.t = "large" /\ r.t = "large" -> l.v = r.v
    [] OTHER -> l = r

HandleIdentical(l, r) ==
  CASE l.t = "double" /\ r.t = "double" ->
         (l.v.nan /\ r.v.nan) \/ DoubleEq(l.v, r.v)
    [] l.t = "large" /\ r.t = "large" -> l.v = r.v
    [] OTHER -> l = r

\* Identical: HandleIdentical(Local(1), Local(0)); IdenticalNonNumeric:
\* pointer equality.
Identical ==
  /\ Op({"Identical", "IdenticalNonNumeric"})
  /\ LET same == IF Instr.op = "Identical"
                 THEN HandleIdentical(Local(stk, 1), Local(stk, 0))
                 ELSE Local(stk, 1) = Local(stk, 0)
     IN Finish(SetTop(Drop(stk, 1), ToBool(same)), Advance(1))
  /\ UNCHANGED <<heap, statics>> /\ Keep

\* Fault-injection variant: the delta pushed as a raw word, untagged.
PushDeltaRaw(s, d) == Append(s, [t |-> "word", v |-> d])

\* Engine::PushDelta / Engine::PopDelta.
PushDelta(s, d) == Append(s, Smi(d))
PopDelta(s) == Top(s).v

\* SubroutineCall delta return_delta: push return_delta as a Smi, jump.
\* SubroutineReturn: pop the delta and move back by it.
Subroutine ==
  /\ Op({"SubroutineCall", "SubroutineReturn", "FrameSize"})
  /\ CASE Instr.op = "SubroutineCall" ->
            Finish(PushDelta(stk, Instr.b), Advance(Instr.a))
       [] Instr.op = "SubroutineReturn" ->
            Finish(Drop(stk, 1), Advance(-PopDelta(stk)))
       [] OTHER -> Finish(stk, Advance(1))
  /\ UNCHANGED <<heap, statics>> /\ Keep

(***************************************************************************)
(* Method dispatch.  The receiver's class is smi_class() for a Smi and   *)
(* the heap object's class otherwise.                                      *)
(***************************************************************************)
ClassOf(x) == IF x.t = "obj" THEN heap[x.v].cls ELSE x.t


\* The selector a call or test site is about.  A Fast site names it
\* through table[index + 1]; a Vtable site's operand carries the vtable
\* offset in its id field, and the model keeps the selector's own id in
\* operand b (it is not in the bytecode).
TrueSelector(ins) ==
  CASE ins.op \in FastInvokes \cup {"InvokeTestFast"} -> DispatchTable[ins.a + 1]
    [] ins.op \in VtableInvokes \cup {"InvokeTestVtable"} ->
         Sel(ins.b, ins.a.kind, ins.a.arity)
    [] OTHER -> ins.a

\* Process::LookupEntry (process.h, not in the sources; spec 4.3): probe
\* the primary entry for (class, selector); on a miss LookupEntrySlow
\* resolves through the class hierarchy and writes the entry through.
NoEntry == [cls |-> "none", sel |-> Sel(-1, "none", 0), target |-> NoFn, tag |-> 0]
CacheSlot(k, sel) == (ClassId[k] + sel.id) % CacheSize
LookupEntry(k, sel) ==
  LET e == cache[CacheSlot(k, sel)]
  IN IF e.cls = k /\ e.sel = sel THEN e
     ELSE [cls |-> k, sel |-> sel, target |-> Resolve(k, sel),
           tag |-> IF Responds(k, sel) THEN 1 ELSE 0]
CacheFill(k, sel) == [cache EXCEPT ![CacheSlot(k, sel)] = LookupEntry(k, sel)]

\* The row scan of InvokeMethodFast / InvokeTestFast: rows of four words
\* [lower, upper, _, function] from offset 4; the first row whose
\* [lower, upper) holds the class id matches (there is a catch-all row).
\* Fault-injection variant: the upper bound taken as inclusive.
RECURSIVE FastRowInclusive(_, _, _)
FastRowInclusive(index, cid, offset) ==
  IF \/ cid < DispatchTable[index + offset]
     \/ cid > DispatchTable[index + offset + 1]
  THEN FastRowInclusive(index, cid, offset + 4)
  ELSE offset

RECURSIVE FastRow(_, _, _)
FastRow(index, cid, offset) ==
  IF \/ cid < DispatchTable[index + offset]
     \/ cid >= DispatchTable[index + offset + 1]
  THEN FastRow(index, cid, offset + 4)
  ELSE offset

\* The vtable entry at class id + selector offset, or vtable[0] (the
\* no-such-method entry) when the stored offset is another selector's.
\* Whether the vtable slot at class id + offset belongs to this selector.
\* Fault-injection variant: any slot holding a method taken as a match.
VtableRespondsAny(cid, offset) == Vtable[cid + offset].offset /= 0

VtableResponds(cid, offset) == Vtable[cid + offset].offset = offset

VtableEntry(cid, offset) ==
  IF Vtable[cid + offset].offset /= offset THEN Vtable[0]
  ELSE Vtable[cid + offset]

\* InvokeMethod selector (and the builtin Invoke<Op>): receiver is
\* Local(arity); the target comes from the lookup cache.
InvokeMethod ==
  /\ Op(NormalInvokes)
  /\ LET sel == Instr.a
         k == ClassOf(Local(stk, sel.arity))
     IN /\ cache' = CacheFill(k, sel)
        /\ CallFunction(LookupEntry(k, sel).target)
  /\ UNCHANGED <<gcs, heap, statics, atBreak, target>>

\* InvokeMethodFast index: the selector is table[index + 1].
InvokeMethodFast ==
  /\ Op(FastInvokes)
  /\ LET index == Instr.a
         sel == DispatchTable[index + 1]
         cid == ClassId[ClassOf(Local(stk, sel.arity))]
     IN CallFunction(DispatchTable[index + FastRow(index, cid, 4) + 3])
  /\ UNCHANGED <<gcs, heap, statics, atBreak, target, cache>>

\* InvokeMethodVtable selector: the selector's id field is the offset.
InvokeMethodVtable ==
  /\ Op(VtableInvokes)
  /\ LET sel == Instr.a
         cid == ClassId[ClassOf(Local(stk, sel.arity))]
     IN CallFunction(VtableEntry(cid, sel.id).fn)
  /\ UNCHANGED <<gcs, heap, statics, atBreak, target, cache>>

\* InvokeTest / InvokeTestFast / InvokeTestVtable: replace the receiver on
\* top with whether its class responds, without calling.
InvokeTest ==
  /\ Op({"InvokeTest", "InvokeTestFast", "InvokeTestVtable"})
  /\ LET k == ClassOf(Top(stk))
         cid == ClassId[k]
         responds ==
           CASE Instr.op = "InvokeTest" -> LookupEntry(k, Instr.a).tag /= 0
             [] Instr.op = "InvokeTestFast" ->
                  DispatchTable[Instr.a + FastRow(Instr.a, cid, 4) + 1] /= MaxSmi
             [] OTHER -> VtableResponds(cid, Instr.a.id)
     IN /\ cache' = IF Instr.op = "InvokeTest" THEN CacheFill(k, Instr.a)
                    ELSE cache
        /\ Finish(SetTop(stk, ToBool(responds)), Advance(1))
  /\ UNCHANGED <<heap, statics>> /\ Keep

\* EnterNoSuchMethod: recover the selector from the invoke just before the
\* return address (table[index + 1] for a Fast invoke, the operand
\* otherwise), then push selector, receiver, selector.
EnterNoSuchMethod ==
  /\ Op({"EnterNoSuchMethod"})
  /\ LET ra == Top(stk).v
         call == Code[ra[1]][ra[2] - 1]
         sel == IF call.op \in FastInvokes THEN DispatchTable[call.a + 1]
                ELSE call.a
     IN Finish(stk \o <<Smi(sel), Local(stk, sel.arity + 1), Smi(sel)>>,
               Advance(1))
  /\ UNCHANGED <<heap, statics, cache>> /\ Keep

\* ExitNoSuchMethod: pop the result and the selector, return; a setter
\* returns the assigned value (Local(0) once the return address is
\* popped) instead of the handler's result.
\* Fault-injection variant: the receiver is left below the result.
ExitNoSuchMethodKeepReceiver ==
  /\ Op({"ExitNoSuchMethod"})
  /\ LET sel == Local(stk, 1).v
         s == Drop(stk, 3)
         result == IF sel.kind = "setter" THEN Top(s) ELSE Top(stk)
     IN Finish(Append(Drop(s, sel.arity), result), Local(stk, 2).v)
  /\ UNCHANGED <<heap, statics, cache>> /\ Keep

ExitNoSuchMethod ==
  /\ Op({"ExitNoSuchMethod"})
  /\ LET sel == Local(stk, 1).v
         s == Drop(stk, 3)
         result == IF sel.kind = "setter" THEN Top(s) ELSE Top(stk)
     IN Finish(Append(Drop(s, sel.arity + 1), result), Local(stk, 2).v)
  /\ UNCHANGED <<heap, statics, cache>> /\ Keep

(***************************************************************************)
(* The DISPATCH() gate: Engine::ShouldBreak.  With a DebugInfo that flags *)
(* this bcp, the engine saves state and returns kBreakPoint; DebugInfo    *)
(* records that the process is at a breakpoint.                           *)
(***************************************************************************)
ShouldBreak == Debugging /\ bcp \in Breakpoints

Dispatch ==
  /\ status = "Running"
  /\ phase = "dispatch"
  /\ IF ShouldBreak
     THEN /\ Surrender(stk, bcp, "BreakPoint")
          /\ atBreak' = TRUE
     ELSE /\ phase' = "exec"
          /\ UNCHANGED <<stk, bcp, status, atBreak>>
  /\ UNCHANGED <<cap, gcs, heap, statics, target>>

(***************************************************************************)
(* Interpreter::Run, called by the scheduler on a process that is ready:  *)
(* the Engine constructor RestoreState()s, then Interpret dispatches the  *)
(* first opcode, skipping the break check once if IsAtBreakPoint().       *)
(* InterpretFast is the weak default returning -1, so Engine always runs. *)
(***************************************************************************)
Resumable == {"Ready", "Yield", "Interrupt", "BreakPoint", "TargetYield"}

\* Fault-injection variant: the flag cleared before it is read.
IsAtBreakPointCleared == FALSE

\* Engine::IsAtBreakPoint: read debug_info->is_at_breakpoint(), then clear.
IsAtBreakPoint == Debugging /\ atBreak

Run ==
  /\ status \in Resumable
  /\ bcp' = Top(stk).v
  /\ stk' = Drop(stk, 1)
  /\ status' = "Running"
  /\ phase' = IF IsAtBreakPoint THEN "exec" ELSE "dispatch"
  /\ atBreak' = FALSE
  /\ target' = NoPort
  /\ UNCHANGED <<cap, gcs, heap, statics>>

Init ==
  /\ stk = << RetAddr(Entry, 1) >>
  /\ bcp = <<Entry, 1>>
  /\ phase = "dispatch"
  /\ cap = InitCap
  /\ gcs = 0
  /\ heap = [o \in Obj |-> [kind |-> "free", cls |-> "none",
                            fields |-> << >>, imm |-> FALSE]]
  /\ statics = InitStatics
  /\ status = "Ready"
  /\ atBreak = FALSE
  /\ target = NoPort
  /\ cache = [i \in 0 .. CacheSize - 1 |-> NoEntry]
  /\ foreign = InitFx
  /\ lastBreak = NoBreak

\* A terminated process stays terminated.
Terminated == status = "Terminate" /\ UNCHANGED vars

MethodOpcode ==
  \/ InvokeMethod \/ InvokeMethodFast \/ InvokeMethodVtable \/ InvokeTest
  \/ EnterNoSuchMethod \/ ExitNoSuchMethod

PlainOpcode ==
  \/ LoadLocal \/ LoadBoxed \/ LoadStatic \/ LoadStaticInit \/ LoadField
  \/ LoadConst \/ StoreLocal \/ StoreBoxed \/ StoreStatic \/ StoreField
  \/ LoadLiteral \/ InvokeStatic
  \/ Pop \/ Return \/ Branch
  \/ Allocate \/ AllocateImmutable \/ AllocateBoxed \/ Negate
  \/ StackOverflowCheckOp \/ ProcessYield \/ Identical \/ Subroutine

NativeOpcode == InvokeNative \/ InvokeForeign \/ InvokeNativeYield

Opcode ==
  \/ PlainOpcode /\ UNCHANGED <<cache, foreign>>
  \/ NativeOpcode /\ UNCHANGED cache
  \/ MethodOpcode /\ UNCHANGED foreign

\* lastBreak is history only: a BreakPoint surrender records bcp_, an
\* opcode step other than a GC retry (the only step that collects) clears it.
Next ==
  \/ Terminated
  \/ Run /\ UNCHANGED <<cache, foreign, lastBreak>>
  \/ Dispatch /\ UNCHANGED <<cache, foreign>> /\ lastBreak' = IF status' = "BreakPoint" THEN bcp ELSE lastBreak
  \/ Opcode /\ lastBreak' = IF gcs' = gcs THEN NoBreak ELSE lastBreak

\* The engine runs every opcode it dispatches; the scheduler (and, at a
\* breakpoint, the debugger) eventually resumes a process that surrendered
\* without terminating.
Fairness == WF_vars(Next)

Spec == Init /\ [][Next]_vars /\ Fairness

(***************************************************************************)
(* The frame layout the compiler promises at every opcode: the number of  *)
(* slots above the innermost return address, obtained from the stack_diff *)
(* table by walking each Function's control-flow graph from its entry.    *)
(***************************************************************************)
HeightSucc(f, p, h) ==
  LET ins == Code[f][p]
      d == StackDiff(ins, Arity, Fields, TrueSelector(ins))
  IN CASE ins.op \in FallThrough \cup Invokes \cup MethodInvokes \cup
                     {"LoadStaticInit", "InvokeNative", "InvokeNativeYield"}
            -> {<<p + 1, h + d>>}
       [] ins.op \in BranchAlways -> {<<p + BranchDelta(ins), h + d>>}
       [] ins.op \in BranchTrue \cup BranchFalse
            -> {<<p + 1, h + d>>, <<p + BranchDelta(ins), h + d>>}
       [] ins.op = "SubroutineCall" -> {<<p + 1, h>>, <<p + ins.a, h + 1>>}
       [] OTHER -> {}

RECURSIVE Explore(_, _, _)
Explore(f, h, work) ==
  IF work = {} THEN h
  ELSE LET p   == CHOOSE q \in work : TRUE
           out == {e \in HeightSucc(f, p, h[p]) :
                     e[1] \in DOMAIN Code[f] \ DOMAIN h}
           new == {e[1] : e \in out}
       IN Explore(f, [q \in DOMAIN h \cup new |->
                        IF q \in DOMAIN h THEN h[q]
                        ELSE (CHOOSE e \in out : e[1] = q)[2]],
                  (work \ {p}) \cup new)

FrameHeights == [f \in DOMAIN Code |-> Explore(f, 1 :> 0, {1})]

(***************************************************************************)
(* Refinement mapping onto Control: the position is bcp_ while the engine *)
(* runs and the saved bcp on top of the stack otherwise; the remembered   *)
(* return positions are the return addresses found on the stack.          *)
(***************************************************************************)
Saved == status /= "Running"
CtlPos == IF Saved THEN Top(stk).v ELSE bcp
CtlFrames ==
  LET ras == SelectSeq(IF Saved THEN Drop(stk, 1) ELSE stk, IsRetAddr)
  IN [i \in DOMAIN ras |-> ras[i].v]
\* The Functions an instruction may enter: the static target, a static's
\* initializer, or what the receiver's class resolves the selector to.
Callees(ins) ==
  CASE ins.op \in Invokes -> {ins.f}
    [] ins.op = "LoadStaticInit" /\ InitStatics[ins.a].t = "init" ->
         {InitStatics[ins.a].v}
    [] ins.op \in MethodInvokes ->
         {Resolve(k, TrueSelector(ins)) : k \in DOMAIN ClassId}
    [] OTHER -> {}

Ctl == INSTANCE Control WITH pos <- CtlPos, frames <- CtlFrames,
                             halted <- (status = "Terminate")

(***************************************************************************)
(* Properties.                                                             *)
(***************************************************************************)
Tags == {"smi", "null", "true", "false", "obj", "error", "ra", "port", "large",
         "double"}

TypeOK ==
  /\ \A i \in DOMAIN stk : stk[i].t \in Tags
  /\ bcp \in (DOMAIN Code) \X Nat
  /\ phase \in {"dispatch", "exec"}
  /\ {gcs, cap} \subseteq Nat
  /\ \A o \in Obj :
       /\ heap[o].kind \in {"free", "instance", "boxed"}
       /\ \A i \in DOMAIN heap[o].fields : heap[o].fields[i].t \in Tags \ {"ra"}
       /\ heap[o].imm \in BOOLEAN
  /\ status \in Resumable \cup {"Running", "Terminate"}
  /\ atBreak \in BOOLEAN

FrameLayout ==
  status = "Running" /\ phase = "dispatch" =>
    Len(stk) - SelectLastInSeq(stk, IsRetAddr) = FrameHeights[bcp[1]][bcp[2]]

\* An instance allocated as immutable only holds immutable values
\* (AllocateImmutable scans all operands before NewInstance).
ImmutableClosed ==
  \A o \in Obj : heap[o].kind = "instance" /\ heap[o].imm =>
     \A i \in DOMAIN heap[o].fields : IsImmutable(heap[o].fields[i])

\* A breakpoint is reported once per visit: after the debugger resumes
\* the process at a breakpoint (Interpret skips the gate once through
\* IsAtBreakPoint), the engine does not report the same bcp_ again until
\* the opcode there has run.
NoRepeatedBreak ==
  [][status = "Running" /\ status' = "BreakPoint" => bcp /= lastBreak]_vars

\* Dispatch equivalence (spec 8.4): whichever of InvokeMethod (lookup
\* cache), InvokeMethodFast (range-table scan) or InvokeMethodVtable
\* (offset check) a call site was compiled to, the engine enters the
\* Function the receiver's class hierarchy resolves the selector to,
\* including the no-such-method stub when the class does not respond.
DispatchAgrees ==
  [][phase = "exec" /\ Instr.op \in MethodInvokes =>
       LET sel == TrueSelector(Instr)
       IN bcp' = <<Resolve(ClassOf(Local(stk, sel.arity)), sel), 1>>]_vars

\* InvokeTest, InvokeTestFast and InvokeTestVtable replace the receiver
\* with true exactly when its class responds to the selector: the cache
\* entry's tag, the matched row's upper bound against kMaxValue and the
\* vtable entry's stored offset all agree with the class hierarchy.
TestAgrees ==
  [][phase = "exec" /\ Instr.op \in {"InvokeTest", "InvokeTestFast",
                                      "InvokeTestVtable"} =>
       Top(stk') = ToBool(Responds(ClassOf(Top(stk)), TrueSelector(Instr)))]_vars

\* The no-such-method handler is given the selector of the call that
\* failed: EnterNoSuchMethod decodes the invoke before the return address
\* and pushes the call site's selector, whatever invoke flavour it is.
NsmSeesSelector ==
  [][phase = "exec" /\ Instr.op = "EnterNoSuchMethod" =>
       LET ra == Top(stk).v
       IN Top(stk').v = TrueSelector(Code[ra[1]][ra[2] - 1])]_vars

\* Every calloc, Port::IncrementRef and call into foreign code an FFI
\* native makes belongs to a native call whose result reached the
\* program: a native is not re-run after it has acted, as the GC retry
\* of InvokeNative would re-run it when its ToInteger cannot allocate.
NativeEffectsOnce ==
  /\ foreign.allocs = foreign.done.allocs
  /\ foreign.refs = foreign.done.refs
  /\ foreign.calls = foreign.done.calls

\* v is an integer the accessor type holds (every integer TLC represents
\* fits a 32- or 64-bit signed type, every non-negative one the unsigned).
InRange(v, ty) ==
  IF Bits(ty) >= 32 THEN Signed(ty) \/ v >= 0
  ELSE IF Signed(ty) THEN -(2 ^ (Bits(ty) - 1)) <= v /\ v < 2 ^ (Bits(ty) - 1)
  ELSE 0 <= v /\ v < 2 ^ Bits(ty)

\* A ForeignGet<T> at an address last written by ForeignSet<T> with a
\* value T holds gives the program that value back (spec S6, the FFI
\* round trip), signed and unsigned types alike.
ForeignRoundTrip ==
  [][phase = "exec" /\ Instr.op = "InvokeNative" /\ Instr.b \in Getters
     /\ bcp' /= bcp =>
       LET w == foreign.last[AsForeignWord(NativeArgs(Instr.a)[0])]
       IN w.type = TypeOf(Instr.b) /\ InRange(w.v, w.type)
            => Top(stk') = ToInteger(w.v)]_vars

\* The engine implements the frame protocol: execution follows the
\* control-flow graph, returns land after their call, and garbage
\* collection, stack growth, breakpoints and surrender are invisible.
\* The number a non-NaN Double stands for (both zeros are 0).
DoubleNumber(d) == IF d.neg THEN -d.mag ELSE d.mag

\* Spec 4.8's table: two Doubles are identical when both are NaN or both
\* stand for the same number; two LargeIntegers when their values agree;
\* anything else only when it is the same object.
SpecIdentical(l, r) ==
  IF {l.t, r.t} = {"double"}
  THEN IF l.v.nan \/ r.v.nan THEN l.v.nan /\ r.v.nan
       ELSE DoubleNumber(l.v) = DoubleNumber(r.v)
  ELSE IF {l.t, r.t} = {"large"} THEN l.v = r.v ELSE l = r

\* Every Identical opcode pushes what spec 4.8 says of its two operands
\* (Identical(NaN, NaN) and Identical(+0.0, -0.0) true, boxed numbers by
\* value), and IdenticalNonNumeric compares objects, so two NaN objects
\* are not IdenticalNonNumeric.
IdenticalAgrees ==
  [][phase = "exec" /\ Instr.op \in {"Identical", "IdenticalNonNumeric"}
     => LET l == Local(stk, 1)
            r == Local(stk, 0)
        IN Top(stk') = ToBool(IF Instr.op = "Identical"
                              THEN SpecIdentical(l, r) ELSE l = r)]_vars

Refines == Ctl!CSpec
=============================================================================
