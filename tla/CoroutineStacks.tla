-------------------------- MODULE CoroutineStacks --------------------------
(***************************************************************************)
(* What the coroutines of a process promise (spec 4.4 and 4.5), with no   *)
(* registers and no Stack objects: every coroutine has one logical stack, *)
(* the running one is changed in place, a switch hands the argument to    *)
(* the resumed coroutine in one step, and a throw lands in one step at    *)
(* the innermost try block of the nearest coroutine up the caller chain   *)
(* that has one, every coroutine it leaves being done.  Coroutines (the   *)
(* engine's registers, SaveState/RestoreState and HandleThrow) refines    *)
(* this module.                                                           *)
(***************************************************************************)
EXTENDS Integers, Sequences, SequencesExt, FiniteSets

CONSTANTS Coros, Main, MaxStack

VARIABLES
  live,      \* live[c]: coroutine c's stack; << >> when c has none
  current, caller, born, pc, session, status

avars == <<live, current, caller, born, pc, session, status>>

Val        == [t |-> "val", v |-> "x"]
Null       == [t |-> "null", v |-> "null"]
CoroRef(c) == [t |-> "coro", v |-> c]
TryMark    == [t |-> "try", v |-> "try"]
Base(c)    == [t |-> "base", v |-> c]

Cur == live[current]
Top(s) == s[Len(s)]
Local(s, n) == s[Len(s) - n]
SetLocal(s, n, x) == [s EXCEPT ![Len(s) - n] = x]
Drop(s, n) == SubSeq(s, 1, Len(s) - n)

\* The running coroutine's stack becomes s.
SetCur(s) == live' = [live EXCEPT ![current] = s]

Init ==
  /\ live = [c \in Coros |-> IF c = Main THEN << Base(Main) >> ELSE << >>]
  /\ current = Main
  /\ caller = [c \in Coros |-> c]
  /\ born = {Main}
  /\ pc = "user"
  /\ session \in BOOLEAN
  /\ status = "Running"

User == status = "Running" /\ pc = "user"
Suspended(c) == c /= current /\ live[c] /= << >> /\ caller[c] = c

PushValue == User /\ Len(Cur) < MaxStack /\ SetCur(Append(Cur, Val))
               /\ UNCHANGED <<current, caller, born, pc, session, status>>
PopValue  == User /\ Top(Cur).t \in {"val", "null", "coro"} /\ SetCur(Drop(Cur, 1))
               /\ UNCHANGED <<current, caller, born, pc, session, status>>
EnterTry  == User /\ Len(Cur) < MaxStack /\ SetCur(Append(Cur, TryMark))
               /\ UNCHANGED <<current, caller, born, pc, session, status>>
LeaveTry  == User /\ Top(Cur) = TryMark /\ SetCur(Drop(Cur, 1))
               /\ UNCHANGED <<current, caller, born, pc, session, status>>

\* A new coroutine starts suspended on its two switch operands.
NewCoroutine ==
  /\ User /\ Len(Cur) < MaxStack
  /\ \E c \in Coros \ born :
       /\ born' = born \cup {c}
       /\ live' = [live EXCEPT ![c] = << Base(c), Null, Null >>,
                               ![current] = Append(Cur, CoroRef(c))]
       /\ caller' = [caller EXCEPT ![c] = c]
  /\ UNCHANGED <<current, pc, session, status>>

CallCoroutine ==
  /\ User /\ Len(Cur) >= 2 /\ Top(Cur) = Val
  /\ Local(Cur, 1).t = "coro" /\ Suspended(Local(Cur, 1).v)
  /\ caller' = [caller EXCEPT ![Local(Cur, 1).v] = current]
  /\ pc' = "change"
  /\ UNCHANGED <<live, current, born, session, status>>

YieldCoroutine ==
  /\ User /\ Len(Cur) < MaxStack /\ Top(Cur) = Val /\ caller[current] /= current
  /\ caller' = [caller EXCEPT ![current] = current]
  /\ SetCur(Append([Cur EXCEPT ![Len(Cur)] = CoroRef(caller[current])], Val))
  /\ pc' = "change"
  /\ UNCHANGED <<current, born, session, status>>

\* The switch: the suspended coroutine keeps its stack with the two
\* operand slots nulled; the resumed one has its two operands replaced by
\* the argument.
Switch ==
  /\ status = "Running" /\ pc = "change"
  /\ LET c == Local(Cur, 1).v
     IN /\ live' = [live EXCEPT
                      ![current] = SetLocal(SetLocal(Cur, 0, Null), 1, Null),
                      ![c] = Append(Drop(live[c], 2), Top(Cur))]
        /\ current' = c
  /\ pc' = "user"
  /\ UNCHANGED <<caller, born, session, status>>

\* The caller chain from the running coroutine, the running one first.
RECURSIVE ChainFrom(_, _)
ChainFrom(c, n) ==
  IF caller[c] = c \/ n = 0 THEN << c >> ELSE << c >> \o ChainFrom(caller[c], n - 1)
Chain == ChainFrom(current, Cardinality(Coros))

Catches(c) == TryMark \in ToSet(live[c])
\* The height of the innermost try block of stack s.
TryHeight(s) == Max({i \in DOMAIN s : s[i] = TryMark})

Throw ==
  /\ User /\ Top(Cur) = Val
  /\ LET ks   == {i \in DOMAIN Chain : Catches(Chain[i])}
         k    == IF ks = {} THEN Len(Chain) ELSE Min(ks)
         done == {Chain[i] : i \in 1 .. k - 1}
         to   == Chain[k]
         t    == TryHeight(live[to])
     IN /\ current' = to
        /\ caller' = [c \in Coros |-> IF c \in done THEN c ELSE caller[c]]
        /\ live' = [c \in Coros |->
                      CASE c \in done -> << >>
                        [] c = to /\ ks /= {} ->
                             [SubSeq(live[to], 1, t) EXCEPT ![t] = Top(Cur)]
                        [] OTHER -> live[c]]
        /\ status' = IF ks /= {} THEN status
                     ELSE IF session THEN "UncaughtException" ELSE "Exit"
  /\ UNCHANGED <<born, pc, session>>

Stopped == status /= "Running" /\ UNCHANGED avars

Next ==
  \/ PushValue \/ PopValue \/ EnterTry \/ LeaveTry
  \/ NewCoroutine \/ CallCoroutine \/ YieldCoroutine
  \/ Switch \/ Throw \/ Stopped

Spec == Init /\ [][Next]_avars
=============================================================================
