----------------------------- MODULE ByteCode -----------------------------
(***************************************************************************)
(* The byte layout of a Function's bytecode.  Engine and Control count    *)
(* instructions; the interpreter moves bcp_ by bytes: every handler reads *)
(* its operands with ReadByte(k) and ReadInt32(k) at fixed offsets from   *)
(* bcp_, and then advances by a k<Op>Length constant of bytecodes.h, or   *)
(* pushes bcp_ + k<Op>Length as a return address.  This module lays an    *)
(* instruction sequence out as the bytes the handlers read: a one-byte    *)
(* opcode followed by the operands, each opcode's operand widths being    *)
(* the reads its handler makes (spec section 7: "a 1-byte tag followed by *)
(* 0-8 bytes of operands"), and branch operands the byte distances the    *)
(* compiler emits for the instruction distances Engine uses.              *)
(***************************************************************************)
EXTENDS Integers, Sequences, SequencesExt, Bytecodes

CONSTANT
  Code             \* Code[f]: the instruction sequence of Function f

(***************************************************************************)
(* Operand widths, from the reads in each OPCODE_BEGIN block.              *)
(***************************************************************************)
\* ReadByte(1).
ByteOperandOps == {"LoadLocal", "LoadBoxed", "LoadField", "StoreLocal",
                   "StoreBoxed", "StoreField", "LoadLiteral", "BranchBack",
                   "BranchBackIfTrue", "BranchBackIfFalse"}
\* ReadInt32(1); the builtin invokes run the InvokeMethod flavour's reads
\* (DISPATCH_TO), InvokeFactory those of InvokeStatic.
WordOperandOps == {"LoadStatic", "LoadStaticInit", "LoadConst", "StoreStatic",
                   "LoadLiteralWide", "BranchLong", "BranchIfTrueLong",
                   "BranchIfFalseLong", "BranchBackLong",
                   "BranchBackIfTrueLong", "BranchBackIfFalseLong",
                   "Allocate", "AllocateImmutable", "StackOverflowCheck",
                   "InvokeTest", "InvokeTestFast", "InvokeTestVtable",
                   "InvokeStatic", "InvokeFactory"} \cup MethodInvokes
\* ReadConstant(): Function::ConstantForBytecode, outside the sources,
\* takes the constant's index from the 32-bit word after the opcode.
UnfoldOps == {"LoadConstUnfold", "InvokeStaticUnfold", "InvokeFactoryUnfold",
              "AllocateUnfold", "AllocateImmutableUnfold"}

Format(op) ==
  CASE op \in ByteOperandOps                  -> <<1>>
    [] op \in WordOperandOps \cup UnfoldOps   -> <<4>>
    [] op \in {"InvokeNative", "InvokeNativeYield", "Return"} -> <<1, 1>>
    [] op \in {"PopAndBranchLong", "PopAndBranchBackLong"}    -> <<1, 4>>
    [] op = "SubroutineCall"                  -> <<4, 4>>
    [] OTHER                                  -> << >>

\* k<Op>Length: the opcode byte and the operands.
Length(op) == 1 + FoldSeq(LAMBDA w, n : w + n, 0, Format(op))

(***************************************************************************)
(* The assembler.  Start[f][p] is the byte offset of instruction p of f   *)
(* (Start[f][Len(Code[f]) + 1] is the end of the bytecode).               *)
(***************************************************************************)
RECURSIVE OffsetOf(_, _)
OffsetOf(f, p) == IF p = 1 THEN 0
                  ELSE OffsetOf(f, p - 1) + Length(Code[f][p - 1].op)

Start == [f \in DOMAIN Code |-> [p \in 1 .. Len(Code[f]) + 1 |-> OffsetOf(f, p)]]

\* The byte distance the compiler emits for an instruction distance d.
ByteDistance(f, p, d) == Start[f][p + d] - Start[f][p]

\* The operand values of instruction p of f, in Format order: branch
\* deltas in bytes (back branches store the distance positive), the
\* SubroutineCall return delta from the instruction after the call, the
\* Function of a static invoke; any other operand as Engine carries it.
StoredDelta(op, bytes) == IF op \in BackBranches THEN -bytes ELSE bytes
OperandsOf(ins, f, p) ==
  CASE ins.op \in {"PopAndBranchLong", "PopAndBranchBackLong"} ->
         <<ins.a, StoredDelta(ins.op, ByteDistance(f, p, BranchDelta(ins)))>>
    [] ins.op \in BranchAlways \cup BranchTrue \cup BranchFalse ->
         <<StoredDelta(ins.op, ByteDistance(f, p, BranchDelta(ins)))>>
    [] ins.op = "SubroutineCall" ->
         <<ByteDistance(f, p, ins.a), ByteDistance(f, p + 1, ins.b)>>
    [] ins.op \in Invokes -> <<ins.f>>
    [] Len(Format(ins.op)) = 2 -> <<ins.a, ins.b>>
    [] Len(Format(ins.op)) = 1 -> <<ins.a>>
    [] OTHER -> << >>
Operands(f, p) == OperandsOf(Code[f][p], f, p)

\* The bytes of one operand: a byte, or a 32-bit word whose first byte
\* carries the value (a 32-bit read decodes only at that byte).
OperandBytes(w, v) ==
  IF w = 1 THEN << [k |-> "byte", v |-> v] >>
  ELSE << [k |-> "word", v |-> v] >> \o [i \in 1 .. 3 |-> [k |-> "rest", v |-> v]]

InstructionBytes(f, p) ==
  << [k |-> "opcode", v |-> Code[f][p].op] >>
  \o FlattenSeq([j \in DOMAIN Format(Code[f][p].op) |->
                   OperandBytes(Format(Code[f][p].op)[j], Operands(f, p)[j])])

\* A sequence indexed from 0, as the bytes of an image are.
ZeroBased(s) == [o \in 0 .. Len(s) - 1 |-> s[o + 1]]

\* Image[f][o]: the byte at offset o of Function f's bytecode.
Image == [f \in DOMAIN Code |->
            ZeroBased(FlattenSeq([p \in DOMAIN Code[f] |-> InstructionBytes(f, p)]))]

(***************************************************************************)
(* Reads at a byte address <<f, o>>.  A read that does not start where    *)
(* the assembler put a value of that width yields Garbage; an opcode     *)
(* read anywhere but at an instruction's first byte, NoOpcode.           *)
(***************************************************************************)
Garbage == [garbage |-> TRUE]
NoOpcode == "none"
\* The byte at offset o of an image, and the value it holds when it is a
\* byte of the kind a read expects.
ByteIn(img, o) == IF o \in DOMAIN img THEN img[o] ELSE [k |-> "none", v |-> Garbage]
ValueIf(kind, b, none) == IF b.k = kind THEN b.v ELSE none
ByteAt(f, o) == ByteIn(Image[f], o)
ReadByteAt(f, o) == ValueIf("byte", ByteAt(f, o), Garbage)
ReadInt32At(f, o) == ValueIf("word", ByteAt(f, o), Garbage)
OpcodeAt(f, o) == ValueIf("opcode", ByteAt(f, o), NoOpcode)

\* The instruction starting at byte o of f (Len(Code[f]) + 1 at the end of
\* the bytecode), or 0 when o starts none.
IndexIn(starts, o) == IF \E p \in DOMAIN starts : starts[p] = o
                      THEN CHOOSE p \in DOMAIN starts : starts[p] = o ELSE 0
IndexAt(f, o) == IndexIn(Start[f], o)
=============================================================================
