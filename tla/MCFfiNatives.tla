--------------------------- MODULE MCFfiNatives ---------------------------
(***************************************************************************)
(* A program for Engine that uses the natives of ffi.cc the way the      *)
(* ForeignFunctionInterface library does: allocate a buffer, store and   *)
(* load through it with signed and unsigned accessors, call a foreign    *)
(* function, convert a Port, register a finalizer and free the buffer.   *)
(* Each native is reached through a native Function (InvokeNative, then  *)
(* the Return that its failure fallback would run).                      *)
(***************************************************************************)
EXTENDS Engine

\* A native Function of arity n calling native name.
NativeFn(n, name) == << Ins("InvokeNative", n, name), Ins("Return", 1, n) >>

Natives == ("alloc" :> <<1, "ForeignAllocate">>)
             @@ ("setI16" :> <<2, "ForeignSetInt16">>)
             @@ ("getI16" :> <<1, "ForeignGetInt16">>)
             @@ ("getU16" :> <<1, "ForeignGetUint16">>)
             @@ ("setU32" :> <<2, "ForeignSetUint32">>)
             @@ ("getU32" :> <<1, "ForeignGetUint32">>)
             @@ ("call1" :> <<2, "ForeignCall1">>)
             @@ ("convert" :> <<1, "ForeignConvertPort">>)
             @@ ("mark" :> <<1, "ForeignMarkForFinalization">>)
             @@ ("free" :> <<1, "ForeignFree">>)

\* Addresses of the foreign function and of the Port the program uses.
FnAddr   == 100
PortAddr == 64

S(f) == Call("InvokeStatic", f)

MCMain ==
  << Ins("LoadLiteral", 4, 0), S("alloc"),              \*  2  buffer a
     Ins("LoadLocal", 0, 0), Ins("LoadLiteral", -1, 0),
     S("setI16"), Ins("Pop", 0, 0),                     \*  6  *(int16*)a = -1
     Ins("LoadLocal", 0, 0), S("getI16"), Ins("Pop", 0, 0),  \* -1
     Ins("LoadLocal", 0, 0), S("getU16"), Ins("Pop", 0, 0),  \* 65535
     Ins("LoadLocal", 0, 0), Ins("LoadConst", 0, 0),
     S("setU32"), Ins("Pop", 0, 0),                     \* 16  *(uint32*)a = 2^30
     Ins("LoadLocal", 0, 0), S("getU32"), Ins("Pop", 0, 0),  \* a LargeInteger
     Ins("LoadLiteral", FnAddr, 0), Ins("LoadLiteral", 3, 0),
     S("call1"), Ins("Pop", 0, 0),                      \* 23
     Ins("LoadLiteral", PortAddr, 0), Ins("Allocate", "Port", 0),
     S("convert"), Ins("Pop", 0, 0),                    \* 27
     Ins("LoadLocal", 0, 0), Ins("Allocate", "Foreign", 0),
     S("mark"), Ins("Pop", 0, 0),                       \* 31
     Ins("LoadLocal", 0, 0), S("free"), Ins("Pop", 0, 0),
     Ins("LoadLiteralTrue", 0, 0),
     Ins("ProcessYield", 0, 0) >>                       \* 36  terminate

MCCode == ("main" :> MCMain)
            @@ [f \in DOMAIN Natives |-> NativeFn(Natives[f][1], Natives[f][2])]
MCArity == [f \in DOMAIN MCCode |-> IF f = "main" THEN 0 ELSE Natives[f][1]]
MCFields == ("Port" :> 1) @@ ("Foreign" :> 1)
\* Constant 0: the LargeInteger 2^30, one past Smi::kMaxValue.
MCConsts == 0 :> LargeInt(MaxSmi + 1)
MCNoStatics == [i \in {} |-> NullObj]
MCNoNatives(n, args) == {}
\* main makes no method calls.
MCNoClasses == [k \in {} |-> 0]
MCNoTable == [i \in {} |-> 0]
MCNoResolve(k, sel) == NoFn
MCNoResponds(k, sel) == FALSE

\* The foreign function returns Smi::kMaxValue: the largest int that
\* ToInteger turns into a Smi without allocating.
MCForeignResult(args) == MaxSmi

\* Buffers calloc hands out: small addresses, or (on a 32-bit host) one
\* above Smi::kMaxValue, which ToInteger must box in a LargeInteger.
MCLowAddrs  == {8, 16}
MCHighAddrs == {MaxSmi + 1}
=============================================================================
