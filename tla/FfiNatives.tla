---------------------------- MODULE FfiNatives ----------------------------
(***************************************************************************)
(* The natives of ffi.cc that the ForeignFunctionInterface library calls *)
(* with InvokeNative: what each does to foreign memory, to Port reference *)
(* counts and to foreign code before it returns, and the integer it hands *)
(* to process->ToInteger.  Engine runs them inside its GC-retry protocol.  *)
(* The state they change is one record, fx:                               *)
(*   live   the calloc'ed buffers not yet freed                           *)
(*   mem    mem[a]: the bits stored at address a                          *)
(*   refs   Port::IncrementRef calls                                      *)
(*   calls  calls into foreign functions                                  *)
(*   allocs calloc calls                                                  *)
(*   final  objects registered for FinalizeForeign                        *)
(* and two ghost fields: done, the allocs, refs and calls made by native *)
(* calls whose result reached the program, and last, the type and value *)
(* each address was last set with.                                       *)
(***************************************************************************)
EXTENDS Integers, Bytecodes

CONSTANTS
  ForeignAddrs,     \* addresses calloc may return (integers)
  ForeignResult(_)  \* ForeignResult(args): what the foreign function returns

\* The accessor types of DEFINE_FOREIGN_ACCESSORS: bits and signedness.
AccessorTypes == {"Int8", "Int16", "Int32", "Int64",
                  "Uint8", "Uint16", "Uint32", "Uint64"}
Bits(ty) == CASE ty \in {"Int8", "Uint8"} -> 8 [] ty \in {"Int16", "Uint16"} -> 16
              [] ty \in {"Int32", "Uint32"} -> 32 [] OTHER -> 64
Signed(ty) == ty \in {"Int8", "Int16", "Int32", "Int64"}

Allocating == {"ForeignAllocate"}
CallNatives == {"ForeignCall0", "ForeignCall1", "ForeignCall2", "ForeignCall3",
                "ForeignCall4", "ForeignCall5", "ForeignCall6"}
Getters == {"ForeignGet" \o ty : ty \in AccessorTypes}
Setters == {"ForeignSet" \o ty : ty \in AccessorTypes}
ForeignNatives == Allocating \cup CallNatives \cup Getters \cup Setters \cup
                  {"ForeignFree", "ForeignConvertPort",
                   "ForeignMarkForFinalization"}

\* The type an accessor native is named after.
TypeOf(n) == CHOOSE ty \in AccessorTypes :
               n \in {"ForeignGet" \o ty, "ForeignSet" \o ty}

NoSet == [type |-> "none", v |-> 0]
InitFx == [live |-> {}, mem |-> [a \in ForeignAddrs |-> 0], refs |-> 0,
           calls |-> 0, allocs |-> 0, final |-> {},
           done |-> [allocs |-> 0, refs |-> 0, calls |-> 0],
           last |-> [a \in ForeignAddrs |-> NoSet]]

\* AsForeignWord: the machine word a Smi or LargeInteger stands for.
AsForeignWord(x) == x.v

\* *address = value: a C conversion to the narrower type keeps the low
\* bits.  (A value in 0 .. 2^31 - 1 already is its own low bits for the
\* 32- and 64-bit types; TLC's integers stop at 2^31 - 1.)
Store(v, ty) ==
  IF v >= 0 /\ (Bits(ty) >= 32 \/ v < 2 ^ Bits(ty)) THEN v
  ELSE v % (2 ^ Bits(ty))

\* The sign bit of a stored value (never set in a 32- or 64-bit word TLC
\* can represent).
SignBit(bits, ty) == Bits(ty) < 32 /\ bits >= 2 ^ (Bits(ty) - 1)

\* *address read as the type: sign-extended for the signed types.
\* Fault-injection variant: the bits read as unsigned whatever the type.
LoadUnsigned(bits, ty) == bits

Load(bits, ty) ==
  IF Signed(ty) /\ SignBit(bits, ty) THEN bits - 2 ^ Bits(ty) ELSE bits

(***************************************************************************)
(* The body of each native, up to its return statement: [fx, int, val].  *)
(* int is TRUE when the native returns process->ToInteger(val); otherwise *)
(* val is the returned Object.  Every effect is in fx, whether or not the *)
(* ToInteger after it succeeds.                                           *)
(***************************************************************************)
ToIntegerOf(fx, n) == [fx |-> fx, int |-> TRUE, val |-> n]
Returns(fx, x) == [fx |-> fx, int |-> FALSE, val |-> x]

\* NATIVE(ForeignAllocate): calloc(1, size), zeroed.
ForeignAllocate(args, fx, a) ==
  ToIntegerOf([fx EXCEPT !.live = @ \cup {a}, !.mem[a] = 0,
                         !.allocs = @ + 1, !.last[a] = NoSet], a)

\* NATIVE(ForeignFree).
ForeignFree(args, fx) ==
  Returns([fx EXCEPT !.live = @ \ {AsForeignWord(args[0])}], NullObj)

\* NATIVE(ForeignMarkForFinalization): RegisterFinalizer(FinalizeForeign).
ForeignMarkForFinalization(args, fx) ==
  Returns([fx EXCEPT !.final = @ \cup {args[0]}], NullObj)

\* NATIVE(ForeignConvertPort): Smi zero unless arguments[0] is a Port
\* instance with a non-zero address in field 0; then IncrementRef.
ForeignConvertPort(args, heap, fx) ==
  LET x == args[0]
      field == heap[x.v].fields[1]
  IN IF x.t /= "obj" \/ heap[x.v].cls /= "Port" \/ AsForeignWord(field) = 0
     THEN Returns(fx, Smi(0))
     ELSE ToIntegerOf([fx EXCEPT !.refs = @ + 1], AsForeignWord(field))

\* NATIVE(ForeignCallN): call the function at arguments[0] with the words
\* of the other arguments.
ForeignCallN(args, fx) ==
  ToIntegerOf([fx EXCEPT !.calls = @ + 1],
              ForeignResult([i \in DOMAIN args |-> AsForeignWord(args[i])]))

\* NATIVE(ForeignGet<T>): ToInteger(*address).
ForeignGet(n, args, fx) ==
  LET a == AsForeignWord(args[0])
  IN ToIntegerOf(fx, Load(fx.mem[a], TypeOf(n)))

\* NATIVE(ForeignSet<T>): *address = AsForeignWord(value); return value.
ForeignSet(n, args, fx) ==
  LET a == AsForeignWord(args[0])
      v == AsForeignWord(args[1])
  IN Returns([fx EXCEPT !.mem[a] = Store(v, TypeOf(n)),
                        !.last[a] = [type |-> TypeOf(n), v |-> v]], args[1])

\* The possible bodies of native n (calloc may return any free address).
ForeignBody(n, args, heap, fx) ==
  CASE n \in Allocating -> {ForeignAllocate(args, fx, a) : a \in ForeignAddrs \ fx.live}
    [] n = "ForeignFree" -> {ForeignFree(args, fx)}
    [] n = "ForeignMarkForFinalization" -> {ForeignMarkForFinalization(args, fx)}
    [] n = "ForeignConvertPort" -> {ForeignConvertPort(args, heap, fx)}
    [] n \in CallNatives -> {ForeignCallN(args, fx)}
    [] n \in Getters -> {ForeignGet(n, args, fx)}
    [] OTHER -> {ForeignSet(n, args, fx)}

\* The native returned to the program: the effects its body made (fx0 to
\* fx) are those of a call the program received the result of.
Delivered(fx0, fx) ==
  [fx EXCEPT !.done = [allocs |-> @.allocs + fx.allocs - fx0.allocs,
                       refs   |-> @.refs + fx.refs - fx0.refs,
                       calls  |-> @.calls + fx.calls - fx0.calls]]

\* Smi::IsValid: the integers ToInteger returns without allocating.
\* Fault-injection variant: kMaxValue itself taken as out of range.
SmiValidShort(n) == -MaxSmi - 1 <= n /\ n < MaxSmi

SmiValid(n) == -MaxSmi - 1 <= n /\ n <= MaxSmi

\* Process::ToInteger (process.cc, outside the sources): a Smi, or a new
\* LargeInteger, an allocation that may fail with retry_after_gc.
LargeInt(n) == [t |-> "large", v |-> n]
ToInteger(n) == IF SmiValid(n) THEN Smi(n) ELSE LargeInt(n)
NeedsAllocation(out) == out.int /\ ~SmiValid(out.val)
=============================================================================
