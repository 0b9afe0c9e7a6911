----------------------------- MODULE Bytecodes -----------------------------
(***************************************************************************)
(* The vocabulary shared by the interpreter modules: the values a process *)
(* stack holds, the instruction records a compiled Function is made of,   *)
(* and the per-opcode table (branching, stack_diff) the VM keeps in       *)
(* src/shared/bytecodes.h (BYTECODES_DO).  That header is not among the   *)
(* sources; its table is taken from the spec (section 4.1).               *)
(*                                                                         *)
(* Byte-level layout is abstracted: a bytecode pointer is a pair          *)
(* <<function, instruction index>>, every opcode has length one index and *)
(* branch deltas count instructions, not bytes.                           *)
(***************************************************************************)
EXTENDS Integers, Sequences

(***************************************************************************)
(* Values.  Every stack slot holds a tagged record; the tag plays the     *)
(* role of the low tag bits of a Fletch Object*.                          *)
(***************************************************************************)
Smi(n)         == [t |-> "smi", v |-> n]
NullObj        == [t |-> "null", v |-> 0]
TrueObj        == [t |-> "true", v |-> 0]
FalseObj       == [t |-> "false", v |-> 0]
Ref(o)         == [t |-> "obj", v |-> o]          \* heap object o
FailureObj(k)  == [t |-> "error", v |-> k]        \* ObjectFromFailure(k)
RetAddr(f, p)  == [t |-> "ra", v |-> <<f, p>>]    \* a saved bcp
Initializer(f) == [t |-> "init", v |-> f]         \* lazy static initializer
\* Boxed numbers: heap objects, each with its own identity k.  A Double's
\* value is NaN or a sign and a magnitude; a LargeInteger's an integer.
DoubleObj(k, nan, neg, mag) ==
  [t |-> "double", v |-> [nan |-> nan, neg |-> neg, mag |-> mag], id |-> k]
LargeObj(k, n) == [t |-> "large", v |-> n, id |-> k]

IsRetAddr(x) == x.t = "ra"

(***************************************************************************)
(* Instructions: op is the Bytecode::Opcode name, a and b its immediate   *)
(* operands, f the Function an invoke names (NoFn when none).             *)
(***************************************************************************)
NoFn == "none"
Ins(op, a, b) == [op |-> op, a |-> a, b |-> b, f |-> NoFn]
Call(op, g)   == [op |-> op, a |-> 0, b |-> 0, f |-> g]

\* Opcodes after which execution falls through to the next instruction.
FallThrough == {"LoadLocal", "LoadBoxed", "LoadStatic", "LoadField",
                "LoadConst", "LoadConstUnfold", "StoreLocal", "StoreBoxed", "StoreStatic",
                "StoreField", "LoadLiteralNull", "LoadLiteralTrue",
                "LoadLiteralFalse", "LoadLiteral", "Pop", "Allocate", "AllocateUnfold",
                "AllocateImmutable", "AllocateImmutableUnfold",
                "AllocateBoxed", "Negate",
                "StackOverflowCheck", "ProcessYield", "Identical",
                "IdenticalNonNumeric", "FrameSize", "InvokeTest",
                "InvokeTestFast", "InvokeTestVtable", "EnterNoSuchMethod"}

\* Opcodes that push a return address and enter another Function.
Invokes == {"InvokeStatic", "InvokeFactory", "InvokeStaticUnfold",
            "InvokeFactoryUnfold"}

\* Invokes that look the target up from the receiver's class: through the
\* lookup cache, the dispatch table or the vtable.  The builtin selectors
\* (INVOKE_BUILTIN) have opcodes of their own that jump to the same code.
Builtins == {"Eq", "Lt", "Le", "Gt", "Ge", "Add", "Sub", "Mod", "Mul",
             "TruncDiv", "BitNot", "BitAnd", "BitOr", "BitXor", "BitShr",
             "BitShl"}
NormalInvokes == {"InvokeMethod"} \cup {"Invoke" \o b : b \in Builtins}
FastInvokes   == {"InvokeMethodFast"} \cup {"Invoke" \o b \o "Fast" : b \in Builtins}
VtableInvokes == {"InvokeMethodVtable"} \cup
                 {"Invoke" \o b \o "Vtable" : b \in Builtins}
MethodInvokes == NormalInvokes \cup FastInvokes \cup VtableInvokes

\* Smi::kMaxValue on a 32-bit host.
MaxSmi == 2^30 - 1

\* A selector: Selector::IdField, KindField and ArityField.
Sel(id, kind, arity) == [id |-> id, kind |-> kind, arity |-> arity]

\* Conditional branches: taken when the popped value is (not) true_object.
BranchTrue  == {"BranchIfTrueLong", "BranchBackIfTrue", "BranchBackIfTrueLong"}
BranchFalse == {"BranchIfFalseLong", "BranchBackIfFalse",
                "BranchBackIfFalseLong"}
\* Unconditional branches, and the ones that poll for stack overflow.
BranchAlways == {"BranchLong", "BranchBack", "BranchBackLong",
                 "PopAndBranchLong", "PopAndBranchBackLong"}
BackBranches == {"BranchBack", "BranchBackIfTrue", "BranchBackIfFalse",
                 "BranchBackLong", "BranchBackIfTrueLong",
                 "BranchBackIfFalseLong", "PopAndBranchBackLong"}

\* Signed instruction delta of a branch (back branches store it positive).
BranchDelta(ins) ==
  LET d == IF ins.op \in {"PopAndBranchLong", "PopAndBranchBackLong"}
           THEN ins.b ELSE ins.a
  IN IF ins.op \in BackBranches THEN -d ELSE d

(***************************************************************************)
(* stack_diff of the opcode table, for the opcodes that fall through.     *)
(* arity[g] and fields[k] are the callee's arity and the class's    *)
(* count, sel the selector a method invoke carries: the table leaves     *)
(* them to the operands.                                                  *)
(***************************************************************************)
StackDiff(ins, arity, fields, sel) ==
  CASE ins.op \in {"LoadLocal", "LoadBoxed", "LoadStatic", "LoadConst",
                   "LoadConstUnfold",
                   "LoadLiteralNull", "LoadLiteralTrue", "LoadLiteralFalse",
                   "LoadLiteral", "LoadStaticInit"}             -> 1
    [] ins.op \in {"Pop", "StoreField", "Identical",
                   "IdenticalNonNumeric"} \cup BranchTrue \cup BranchFalse -> -1
    [] ins.op \in {"PopAndBranchLong", "PopAndBranchBackLong"} -> -ins.a
    [] ins.op \in {"Allocate", "AllocateUnfold", "AllocateImmutable",
                   "AllocateImmutableUnfold"}
                                                             -> 1 - fields[ins.a]
    [] ins.op \in Invokes                                    -> 1 - arity[ins.f]
    [] ins.op \in MethodInvokes                              -> -sel.arity
    [] ins.op = "EnterNoSuchMethod"                          -> 3
    [] ins.op \in {"InvokeNative", "InvokeNativeYield"}       -> 1
    [] OTHER                                                 -> 0
=============================================================================
