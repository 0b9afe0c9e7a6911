---------------------------- MODULE MCDispatch ----------------------------
(***************************************************************************)
(* A compiled program for Engine that makes the same calls through all   *)
(* three dispatch flavours.  Classes A, B (a subclass of A), C and the    *)
(* Smi class; A defines foo and bar, B overrides foo, C defines bar only, *)
(* nobody defines the setter x=.  A native pick() hands back an instance  *)
(* of any of them or a Smi, so every site is explored with every class.   *)
(* The dispatch table and the vtable are laid out the way the compiler    *)
(* lays them out: most specific row first with a catch-all row last, and *)
(* vtable entries of different selectors sharing slots (C.foo and A.bar, *)
(* Smi.bar and B.foo).  Main then compares boxed numbers: a native        *)
(* num() hands back any of two NaN objects, +0.0, -0.0, 1.0, -1.0, two     *)
(* LargeInteger objects holding 5, or the Smi 5; main takes two and       *)
(* compares them, and each with itself, with Identical and with           *)
(* IdenticalNonNumeric.                                                    *)
(***************************************************************************)
EXTENDS Engine

MCClassId == ("smi" :> 0) @@ ("A" :> 1) @@ ("B" :> 2) @@ ("C" :> 3)
MCFields  == ("A" :> 0) @@ ("B" :> 0) @@ ("C" :> 0)
Super     == ("smi" :> "Object") @@ ("A" :> "Object") @@ ("B" :> "A")
               @@ ("C" :> "Object")

\* Selector ids: foo and bar share a lookup-cache slot for every class.
Foo    == Sel(10, "method", 0)
Bar    == Sel(12, "method", 1)
SetX   == Sel(11, "setter", 1)
NsmSel == Sel(99, "method", 1)
\* Vtable offsets of foo and bar; the id field of a Vtable site's selector.
FooOff == 1
BarOff == 3

Methods == (<<"A", 10>> :> "A_foo") @@ (<<"B", 10>> :> "B_foo")
             @@ (<<"A", 12>> :> "A_bar") @@ (<<"C", 12>> :> "C_bar")
             @@ (<<"Object", 99>> :> "handler")

\* The class-hierarchy lookup a reference implementation makes: the
\* nearest definition, or the no-such-method stub past Object.
RECURSIVE Lookup(_, _)
Lookup(k, id) ==
  IF <<k, id>> \in DOMAIN Methods THEN Methods[<<k, id>>]
  ELSE IF k = "Object" THEN "nsm" ELSE Lookup(Super[k], id)

MCResolve(k, sel) == Lookup(k, sel.id)
MCResponds(k, sel) == Lookup(k, sel.id) /= "nsm"

\* Fast tables: foo at index 0, bar at 16, x= at 32.  Four header words
\* (table[index + 1] is the selector), then rows [lower, upper, 0, fn].
Row(lo, hi, fn) == <<lo, hi, 0, fn>>
Header(sel) == <<0, sel, 0, 0>>
MCTableSeq ==
  Header(Foo) \o Row(2, 3, "B_foo") \o Row(1, 3, "A_foo")
    \o Row(0, MaxSmi, "nsm")
  \o Header(Bar) \o Row(1, 3, "A_bar") \o Row(3, 4, "C_bar")
    \o Row(0, MaxSmi, "nsm")
  \o Header(SetX) \o Row(0, MaxSmi, "nsm")
MCDispatchTable == [i \in 0 .. Len(MCTableSeq) - 1 |-> MCTableSeq[i + 1]]

\* Vtable slots class id + offset; slot 0 is the no-such-method entry.
VE(off, fn) == [offset |-> off, fn |-> fn]
MCVtableSeq == << VE(0, "nsm"), VE(0, "nsm"), VE(FooOff, "A_foo"),
                  VE(FooOff, "B_foo"), VE(BarOff, "A_bar"),
                  VE(BarOff, "A_bar"), VE(BarOff, "C_bar") >>
MCVtable == [i \in 0 .. Len(MCVtableSeq) - 1 |-> MCVtableSeq[i + 1]]

NaN1    == DoubleObj(1, TRUE, FALSE, 0)
NaN2    == DoubleObj(2, TRUE, FALSE, 0)
PosZero == DoubleObj(3, FALSE, FALSE, 0)
NegZero == DoubleObj(4, FALSE, TRUE, 0)
PosOne  == DoubleObj(5, FALSE, FALSE, 1)
NegOne  == DoubleObj(6, FALSE, TRUE, 1)
Large5a == LargeObj(7, 5)
Large5b == LargeObj(8, 5)
MCNumbers == {NaN1, NaN2, PosZero, NegZero, PosOne, NegOne, Large5a, Large5b,
              Smi(5)}

\* x then y are locals 1 and 0 below each pair of loads.
Compare(op, i, j) ==
  << Ins("LoadLocal", i, 0), Ins("LoadLocal", j + 1, 0), Ins(op, 0, 0),
     Ins("Pop", 0, 0) >>

M(op, sel) == Ins(op, sel, 0)
VSite(op, off, sel) == Ins(op, Sel(off, sel.kind, sel.arity), sel.id)

MCMain ==
  << Ins("Allocate", "A", 0),                  \*  1
     Ins("Allocate", "B", 0),                  \*  2
     Ins("Allocate", "C", 0),                  \*  3
     Call("InvokeStatic", "pick"),             \*  4  r: an A, B, C or Smi
     Ins("LoadLocal", 0, 0), M("InvokeMethod", Foo), Ins("Pop", 0, 0),
     Ins("LoadLocal", 0, 0), Ins("InvokeMethodFast", 0, 0), Ins("Pop", 0, 0),
     Ins("LoadLocal", 0, 0), VSite("InvokeMethodVtable", FooOff, Foo),
     Ins("Pop", 0, 0),                         \* 13
     Ins("LoadLocal", 0, 0), Ins("LoadLiteral", 4, 0),
     VSite("InvokeMethodVtable", BarOff, Bar), Ins("Pop", 0, 0),
     Ins("LoadLocal", 0, 0), Ins("LoadLiteral", 5, 0),
     M("InvokeMethod", Bar), Ins("Pop", 0, 0), \* 21  evicts foo's entry
     Ins("LoadLocal", 0, 0), Ins("LoadLiteral", 6, 0),
     Ins("InvokeMethodFast", 32, 0), Ins("Pop", 0, 0),  \* 25  r.x = 6
     Ins("LoadLocal", 0, 0), M("InvokeTest", Foo), Ins("Pop", 0, 0),
     Ins("LoadLocal", 0, 0), Ins("InvokeTestFast", 16, 0), Ins("Pop", 0, 0),
     Ins("LoadLocal", 0, 0), VSite("InvokeTestVtable", BarOff, Bar),
     Ins("Pop", 0, 0),
     Ins("LoadLocal", 0, 0), M("InvokeTest", Bar), Ins("Pop", 0, 0),
     Call("InvokeStatic", "num"), Call("InvokeStatic", "num") >>  \* 40
  \o Compare("Identical", 1, 0) \o Compare("IdenticalNonNumeric", 1, 0)
  \o Compare("Identical", 0, 0) \o Compare("IdenticalNonNumeric", 0, 0)
  \o << Ins("LoadLiteralTrue", 0, 0), Ins("ProcessYield", 0, 0) >>

\* pick(a, b, c): a native returning any of its arguments or a Smi.
MCPick == << Ins("InvokeNative", 3, "Pick"), Ins("Return", 1, 3) >>
MCNum == << Ins("InvokeNative", 0, "PickNum"), Ins("Return", 1, 0) >>
MCAFoo == << Ins("LoadLiteral", 1, 0), Ins("Return", 1, 1) >>
MCBFoo == << Ins("LoadLiteral", 2, 0), Ins("Return", 1, 1) >>
\* bar(y) returns y.
MCABar == << Ins("LoadLocal", 1, 0), Ins("Return", 1, 2) >>
MCCBar == << Ins("LoadLiteral", 3, 0), Ins("Return", 1, 2) >>
\* Object.noSuchMethod(selector) returns 9.
MCHandler == << Ins("LoadLiteral", 9, 0), Ins("Return", 1, 2) >>
\* The stub every failed lookup resolves to.
MCNsm == << Ins("EnterNoSuchMethod", 0, 0), M("InvokeMethod", NsmSel),
            Ins("ExitNoSuchMethod", 0, 0) >>

MCCode == ("main" :> MCMain) @@ ("pick" :> MCPick) @@ ("A_foo" :> MCAFoo)
            @@ ("B_foo" :> MCBFoo) @@ ("A_bar" :> MCABar)
            @@ ("C_bar" :> MCCBar) @@ ("handler" :> MCHandler)
            @@ ("nsm" :> MCNsm) @@ ("num" :> MCNum)
MCArity == [f \in DOMAIN MCCode |-> IF f = "pick" THEN 3 ELSE 0]

MCNativeResults(n, args) ==
  IF n = "PickNum" THEN MCNumbers ELSE {args[0], args[1], args[2], Smi(7)}
MCNoConsts == [i \in {} |-> NullObj]
\* The program calls no foreign function.
MCNoForeign(args) == 0
=============================================================================
