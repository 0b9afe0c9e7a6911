--------------------------- MODULE MCByteEngine ---------------------------
(***************************************************************************)
(* A program for ByteEngine that runs every branch opcode both ways, a    *)
(* finally-subroutine, both allocation forms, every static invoke form,   *)
(* and method calls of all three flavours, of a builtin selector too,    *)
(* that either reach a method or go through the no-such-method           *)
(* trampoline.  The conditions come from a native pick() that returns    *)
(* true, false or a failure.                                              *)
(***************************************************************************)
EXTENDS ByteEngine

\* Selectors: foo is defined, bar (also reached through the dispatch
\* table at index 0) and the builtin add are not; x= is a setter.  A
\* Vtable site's operand carries a vtable offset in its id field: VFoo's
\* entry holds foo, VBar's offset is another selector's (vtable[0]).
Foo    == Sel(10, "method", 0)
Bar    == Sel(12, "method", 0)
AddSel == Sel(13, "method", 1)
SetX   == Sel(11, "setter", 1)
NsmSel == Sel(99, "method", 1)
VFoo   == Sel(1, "method", 0)
VBar   == Sel(2, "method", 0)

P(op, g) == Call(op, g)
\* pick(), then branch on it.
Pick == P("InvokeStatic", "pick")

MCMain ==
  << Pick, Ins("BranchIfTrueLong", 2, 0),                   \*  2 -> 4
     Ins("StackOverflowCheck", 0, 0),
     P("InvokeStaticUnfold", "pick"), Ins("BranchIfFalseLong", 2, 0),  \* 5 -> 7
     Ins("FrameSize", 0, 0),
     P("InvokeFactory", "pick"), Ins("BranchBackIfTrue", 1, 0),        \* 8 -> 7
     P("InvokeFactoryUnfold", "pick"), Ins("BranchBackIfFalse", 1, 0), \* 10 -> 9
     Pick, Ins("BranchBackIfTrueLong", 1, 0),               \* 12 -> 11
     Pick, Ins("BranchBackIfFalseLong", 1, 0),              \* 14 -> 13
     Pick, Ins("BranchIfFalseLong", 2, 0), Ins("BranchBack", 2, 0),   \* 17 -> 15
     Pick, Ins("BranchIfFalseLong", 2, 0), Ins("BranchBackLong", 5, 0), \* 20 -> 15
     Pick, Ins("BranchIfFalseLong", 3, 0), Ins("LoadLiteral", 3, 0),
     Ins("PopAndBranchBackLong", 1, 3),                     \* 24 -> 21
     Ins("LoadLiteralNull", 0, 0), Ins("PopAndBranchLong", 1, 2),  \* 26 -> 28
     Ins("LoadLiteralFalse", 0, 0),
     Ins("SubroutineCall", 2, 1), Ins("BranchLong", 2, 0),  \* 28 -> 30, 29 -> 31
     Ins("SubroutineReturn", 0, 0),                         \* 30 -> 29
     Ins("LoadLiteral", 5, 0), Ins("AllocateUnfold", "Pt", 0),  \* 32  a Pt
     Ins("Allocate", "E", 0),                               \* 33  an E
     Ins("LoadLocal", 0, 0), Ins("InvokeMethod", Foo, 0), Ins("Pop", 0, 0),
     Ins("LoadLocal", 0, 0), Ins("InvokeMethodFast", 0, 0), Ins("Pop", 0, 0),
     Ins("LoadLocal", 0, 0), Ins("InvokeMethodVtable", VBar, 0), Ins("Pop", 0, 0),
     Ins("LoadLocal", 0, 0), Ins("LoadLiteral", 1, 0),
     Ins("InvokeAdd", AddSel, 0), Ins("Pop", 0, 0),
     Ins("LoadLocal", 0, 0), Ins("LoadLiteral", 2, 0),
     Ins("InvokeAddFast", 4, 0), Ins("Pop", 0, 0),          \* x= through the table
     Ins("LoadLocal", 0, 0), Ins("InvokeAddVtable", VFoo, 0), Ins("Pop", 0, 0),
     Ins("Pop", 0, 0), Ins("Pop", 0, 0),
     Ins("LoadLiteralTrue", 0, 0), Ins("ProcessYield", 0, 0) >>

MCPick == << Ins("InvokeNative", 0, "Pick"), Ins("Return", 1, 0) >>
MCFoo == << Ins("LoadLiteral", 1, 0), Ins("Return", 1, 1) >>
\* The stub every failed lookup resolves to, and noSuchMethod(selector).
MCNsm == << Ins("EnterNoSuchMethod", 0, 0), Ins("InvokeMethod", NsmSel, 0),
            Ins("ExitNoSuchMethod", 0, 0) >>
MCHandler == << Ins("LoadLiteral", 9, 0), Ins("Return", 1, 2) >>

MCCode == ("main" :> MCMain) @@ ("pick" :> MCPick) @@ ("foo" :> MCFoo)
            @@ ("nsm" :> MCNsm) @@ ("handler" :> MCHandler)

\* table->get(index + 1) for the Fast sites at index 0 and 4.
MCTable == (1 :> Bar) @@ (5 :> SetX)
MCResolve(sel) == CASE sel = Foo    -> "foo"
                    [] sel = NsmSel -> "handler"
                    [] OTHER        -> "nsm"
MCVtable(offset) == IF offset = VFoo.id THEN "foo" ELSE "nsm"
MCFields == ("Pt" :> 1) @@ ("E" :> 0)
MCResults == {TrueObj, FalseObj, FailureObj("x")}
MCArgs == {<< >>}
=============================================================================
