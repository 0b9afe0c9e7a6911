----------------------------- MODULE MCEngine -----------------------------
(***************************************************************************)
(* A compiled program for Engine, written the way the Fletch compiler     *)
(* emits it, that drives every opcode family of the model: static calls   *)
(* into natives with a failure fallback, a lazy static initializer, Boxed *)
(* cells, immutable and mutable instances, recursion that makes the stack *)
(* grow, a loop closed by a back branch, a finally-subroutine that calls  *)
(* a yielding native, a plain yield and the final terminating yield.      *)
(***************************************************************************)
EXTENDS Engine

MCFields == "Pair" :> 2

\* add(a, b) and sub(a, b): native Functions; after a failure the
\* fallback code returns the error object.
MCAdd  == << Ins("InvokeNative", 2, "SmiAdd"), Ins("Return", 1, 2) >>
MCSub  == << Ins("InvokeNative", 2, "SmiSub"), Ins("Return", 1, 2) >>
\* send(): a native that may hand the process over to a Port.
MCSend == << Ins("InvokeNativeYield", 0, "Send"), Ins("Return", 1, 0) >>
\* The initializer of static 0.
MCInit == << Ins("LoadLiteral", 7, 0), Ins("StoreStatic", 0, 0),
             Ins("Return", 1, 0) >>
\* rec(n) == n == 0 ? 0 : rec(n - 1)
MCRec ==
  << Ins("LoadLocal", 1, 0), Ins("LoadLiteral", 0, 0),
     Ins("IdenticalNonNumeric", 0, 0), Ins("BranchIfFalseLong", 3, 0),
     Ins("LoadLiteral", 0, 0), Ins("Return", 1, 1),
     Ins("LoadLocal", 1, 0), Ins("LoadLiteral", 1, 0), Call("InvokeStatic", "sub"),
     Call("InvokeStatic", "rec"), Ins("Return", 1, 1) >>

MCMain ==
  << Ins("LoadLiteral", 2, 0),                 \*  1
     Ins("LoadLiteral", 3, 0),                 \*  2
     Call("InvokeStatic", "add"),              \*  3  5
     Ins("LoadStaticInit", 0, 0),              \*  4  runs init: 7
     Call("InvokeStatic", "add"),              \*  5  12
     Ins("AllocateBoxed", 0, 0),               \*  6  box(12)
     Ins("LoadLiteral", 1, 0),                 \*  7
     Ins("StoreBoxed", 1, 0),                  \*  8  box := 1
     Ins("Pop", 0, 0),                         \*  9
     Ins("LoadBoxed", 0, 0),                   \* 10  1
     Ins("LoadLiteralNull", 0, 0),             \* 11
     Ins("AllocateImmutable", "Pair", 0),      \* 12  immutable (1, null)
     Ins("LoadLocal", 1, 0),                   \* 13  the box
     Ins("LoadConstUnfold", 0, 0),             \* 14
     Ins("AllocateImmutableUnfold", "Pair", 0), \* 15  mutable (box, 5)
     Ins("LoadLocal", 0, 0),                   \* 16  the instance again
     Ins("LoadLiteral", 2, 0),                 \* 17
     Ins("StoreField", 1, 0),                  \* 18  leaves 2 on top
     Ins("Pop", 0, 0),                         \* 19
     Ins("LoadField", 0, 0),                   \* 20  the box
     Ins("Identical", 0, 0),                   \* 21  immutable vs box: false
     Ins("Pop", 0, 0),                         \* 22
     Ins("LoadStatic", 0, 0),                  \* 23  7
     Ins("LoadLiteral", 2, 0),                 \* 24
     Ins("AllocateUnfold", "Pair", 0),         \* 25  mutable (7, 2)
     Ins("FrameSize", 0, 0),                   \* 26
     Ins("Pop", 0, 0),                         \* 27
     Ins("LoadLiteral", 2, 0),                 \* 28
     Call("InvokeStatic", "rec"),              \* 29
     Ins("Pop", 0, 0),                         \* 30
     Ins("LoadLiteral", 2, 0),                 \* 31  counter
     Ins("LoadLocal", 0, 0),                   \* 32  loop head
     Ins("LoadLiteral", 1, 0),                 \* 33
     Call("InvokeStatic", "sub"),              \* 34
     Ins("StoreLocal", 1, 0),                  \* 35  counter := counter - 1
     Ins("LoadLiteral", 0, 0),                 \* 36
     Ins("IdenticalNonNumeric", 0, 0),         \* 37
     Ins("BranchBackIfFalse", 6, 0),           \* 38  to 32
     Ins("LoadLiteralFalse", 0, 0),            \* 39
     Ins("Negate", 0, 0),                      \* 40
     Ins("BranchIfTrueLong", 2, 0),            \* 41  to 43
     Ins("BranchLong", 1, 0),                  \* 42
     Ins("SubroutineCall", 2, 3),              \* 43  to 45, back to 44
     Ins("PopAndBranchLong", 1, 4),            \* 44  to 48
     Call("InvokeStatic", "send"),             \* 45  finally-subroutine
     Ins("Pop", 0, 0),                         \* 46
     Ins("SubroutineReturn", 0, 0),            \* 47
     Ins("LoadLiteralNull", 0, 0),             \* 48
     Ins("ProcessYield", 0, 0),                \* 49  yield
     Ins("Pop", 0, 0),                         \* 50
     Ins("LoadLiteralNull", 0, 0),             \* 51
     Ins("LoadLiteral", 1, 0),                 \* 52
     Call("InvokeStatic", "add"),              \* 53  add(null, 1) fails
     Ins("Pop", 0, 0),                         \* 54
     Ins("StackOverflowCheck", 3, 0),          \* 55
     Ins("LoadLiteralTrue", 0, 0),             \* 56
     Ins("ProcessYield", 0, 0) >>              \* 57  terminate

MCCode == [f \in {"main", "add", "sub", "send", "init", "rec"} |->
             CASE f = "main" -> MCMain [] f = "add" -> MCAdd
               [] f = "sub" -> MCSub [] f = "send" -> MCSend
               [] f = "init" -> MCInit [] OTHER -> MCRec]

MCArity == [f \in DOMAIN MCCode |->
              CASE f \in {"add", "sub"} -> 2 [] f = "rec" -> 1 [] OTHER -> 0]

MCConsts == 0 :> Smi(5)
MCStatics == 0 :> Initializer("init")

\* Native_SmiAdd / Native_SmiSub (natives of the VM outside the sources):
\* a Smi result, or the wrong-argument-type Failure on a non-Smi operand.
\* Native send: hands over a locked Port, returns null, or fails.
MCNativeResults(n, args) ==
  CASE n = "Send" -> {PortPtr("port"), NullObj,
                      [t |-> "failure", v |-> "illegal_state"]}
    [] args[0].t = "smi" /\ args[1].t = "smi" ->
         {Smi(IF n = "SmiAdd" THEN args[0].v + args[1].v
                              ELSE args[0].v - args[1].v)}
    [] OTHER -> {[t |-> "failure", v |-> "wrong_argument_type"]}

\* main makes no method calls: no classes take part in dispatch.
MCNoClasses == [k \in {} |-> 0]
MCNoTable == [i \in {} |-> 0]
MCNoResolve(k, sel) == NoFn
MCNoResponds(k, sel) == FALSE
\* The program calls no foreign function.
MCNoForeign(args) == 0

MCBreakpoints == {}

\* Breakpoints on a plain load, on the loop's back branch (visited three
\* times), and on the first opcode of the recursive Function.
MCDebugBreakpoints == {<<"main", 7>>, <<"main", 38>>, <<"rec", 1>>}

\* A breakpoint on the AllocateBoxed at main 6, an opcode that can fail
\* its allocation and be retried after a garbage collection.
MCRetryBreakpoints == {<<"main", 6>>}
=============================================================================
