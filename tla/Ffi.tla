-------------------------------- MODULE Ffi --------------------------------
(***************************************************************************)
(* The foreign-function registry of ffi.cc: the process-wide list of      *)
(* default shared libraries behind mutex_, filled by                      *)
(* AddDefaultSharedLibrary and searched by the ForeignLookup native, with *)
(* the dlopen / dlsym / dlclose of PerformForeignLookup, and TearDown.    *)
(* Threads of the embedder (any thread running an interpreter) each make *)
(* a fixed series of calls; the main thread tears the registry down once  *)
(* they are done (Setup has run before any of them started).              *)
(***************************************************************************)
EXTENDS Integers, Sequences, SequencesExt

CONSTANTS
  Threads,      \* threads calling into the registry
  Libs,         \* shared library names
  Syms,         \* symbol names
  Defines,      \* Defines[l]: the symbols dlsym finds in library l
  Missing,      \* libraries dlopen cannot open
  CloseFails,   \* libraries whose dlclose reports an error
  Preloaded,    \* libraries mapped by the executable itself: never unmapped
  Script,       \* Script[t]: the calls thread t makes, in order
  NoThread,     \* mutex_ is free
  NoAddr        \* a NULL symbol address

VARIABLES
  libraries,    \* libraries_: library names, head first
  strdups,      \* strdup'ed names not yet freed
  mutex,        \* the thread holding mutex_, NoThread, or "deleted"
  loaded,       \* loaded[l]: dlopen handles open on library l
  pc,           \* pc[t]: where thread t is
  ip,           \* ip[t]: the call of Script[t] thread t is making
  snap,         \* snap[t]: libraries_ as read by AddDefaultSharedLibrary
  cur,          \* cur[t]: the entry LookupInDefaultLibraries is at
  held,         \* held[t]: symbol addresses ForeignLookup returned to t
  tdCur,        \* the entry TearDown deletes next
  torn          \* TearDown has finished

vars == <<libraries, strdups, mutex, loaded, pc, ip, snap, cur, held, tdCur,
          torn>>

Call(t) == Script[t][ip[t]]
Addr(l, s) == [lib |-> l, sym |-> s]

\* A library's code is mapped while a handle is open or the executable
\* links it.
Mapped(l) == l \in Preloaded \/ loaded[l] > 0

Init ==
  /\ libraries = << >>
  /\ strdups = 0
  /\ mutex = NoThread
  /\ loaded = [l \in Libs |-> 0]
  /\ pc = [t \in Threads |-> "idle"]
  /\ ip = [t \in Threads |-> 1]
  /\ snap = [t \in Threads |-> << >>]
  /\ cur = [t \in Threads |-> 0]
  /\ held = [t \in Threads |-> {}]
  /\ tdCur = 1
  /\ torn = FALSE

Goto(t, where) == pc' = [pc EXCEPT ![t] = where]
\* The call returns: the thread moves on to its next call.
Return(t) == pc' = [pc EXCEPT ![t] = "idle"] /\ ip' = [ip EXCEPT ![t] = @ + 1]

\* The thread starts its next call, or has made them all.
Begin(t) ==
  /\ pc[t] = "idle"
  /\ IF ip[t] > Len(Script[t]) THEN Goto(t, "done")
     ELSE Goto(t, IF Call(t).op = "add" THEN "add_lock" ELSE "open")
  /\ UNCHANGED <<libraries, strdups, mutex, loaded, ip, snap, cur, held,
                 tdCur, torn>>

(***************************************************************************)
(* ScopedLock lock(mutex_).                                               *)
(***************************************************************************)
\* Fault-injection variant: the lock taken without waiting for it.
AcquireNoWait(t) == mutex' = t

Acquire(t) == mutex = NoThread /\ mutex' = t

Release == mutex' = NoThread

(***************************************************************************)
(* AddDefaultSharedLibrary: under the lock, strdup the name and link a   *)
(* new entry in front of the list read from libraries_.                  *)
(***************************************************************************)
AddLock(t) ==
  /\ pc[t] = "add_lock"
  /\ Acquire(t)
  /\ Goto(t, "add_read")
  /\ UNCHANGED <<libraries, strdups, loaded, ip, snap, cur, held, tdCur, torn>>

AddRead(t) ==
  /\ pc[t] = "add_read"
  /\ snap' = [snap EXCEPT ![t] = libraries]
  /\ strdups' = strdups + 1
  /\ Goto(t, "add_write")
  /\ UNCHANGED <<libraries, mutex, loaded, ip, cur, held, tdCur, torn>>

AddWrite(t) ==
  /\ pc[t] = "add_write"
  /\ libraries' = <<Call(t).lib>> \o snap[t]
  /\ Release
  /\ Return(t)
  /\ UNCHANGED <<strdups, loaded, snap, cur, held, tdCur, torn>>

(***************************************************************************)
(* PerformForeignLookup(library, name): dlopen (NULL when it fails), then *)
(* dlsym and dlclose; a failing dlclose makes the result NULL.            *)
(***************************************************************************)
Opens(l) == l \notin Missing
Found(l, s) == IF s \in Defines[l] /\ l \notin CloseFails THEN Addr(l, s)
               ELSE NoAddr
Dlopen(l) == loaded' = [loaded EXCEPT ![l] = @ + 1]
Dlclose(l) == loaded' = [loaded EXCEPT ![l] = @ - 1]

(***************************************************************************)
(* The ForeignLookup native: the named library first, outside the lock;   *)
(* then LookupInDefaultLibraries, which walks the list under the lock.    *)
(***************************************************************************)
\* The named library: a failed dlopen gives NULL at once.
Open(t) ==
  /\ pc[t] = "open"
  /\ IF Opens(Call(t).lib)
     THEN Dlopen(Call(t).lib) /\ Goto(t, "close")
     ELSE Goto(t, "def_lock") /\ UNCHANGED loaded
  /\ UNCHANGED <<libraries, strdups, mutex, ip, snap, cur, held, tdCur, torn>>

\* Found: the native returns the address; otherwise search the defaults.
Close(t) ==
  /\ pc[t] = "close"
  /\ Dlclose(Call(t).lib)
  /\ LET a == Found(Call(t).lib, Call(t).sym)
     IN IF a /= NoAddr
        THEN held' = [held EXCEPT ![t] = @ \cup {a}] /\ Return(t)
        ELSE Goto(t, "def_lock") /\ UNCHANGED <<held, ip>>
  /\ UNCHANGED <<libraries, strdups, mutex, snap, cur, tdCur, torn>>

DefLock(t) ==
  /\ pc[t] = "def_lock"
  /\ Acquire(t)
  /\ cur' = [cur EXCEPT ![t] = 1]
  /\ Goto(t, "def_next")
  /\ UNCHANGED <<libraries, strdups, loaded, ip, snap, held, tdCur, torn>>

\* The loop head: at the end of the list return NULL ("Failed foreign
\* lookup", index_out_of_bounds); an entry dlopen cannot open is skipped.
DefNext(t) ==
  /\ pc[t] = "def_next"
  /\ IF cur[t] > Len(libraries)
     THEN Release /\ Return(t) /\ UNCHANGED <<loaded, cur>>
     ELSE LET l == libraries[cur[t]]
          IN IF Opens(l) THEN Dlopen(l) /\ Goto(t, "def_close")
                              /\ UNCHANGED <<mutex, ip, cur>>
             ELSE cur' = [cur EXCEPT ![t] = @ + 1]
                  /\ UNCHANGED <<mutex, loaded, pc, ip>>
  /\ UNCHANGED <<libraries, strdups, snap, held, tdCur, torn>>

\* Fault-injection variant: current = current->next() left out.
NextEntryStuck(t) == cur' = cur

NextEntry(t) == cur' = [cur EXCEPT ![t] = @ + 1]

\* dlsym and dlclose; a non-NULL result returns from inside the loop
\* (the ScopedLock is released on the way out).
DefClose(t) ==
  /\ pc[t] = "def_close"
  /\ LET l == libraries[cur[t]]
         a == Found(l, Call(t).sym)
     IN /\ Dlclose(l)
        /\ IF a /= NoAddr
           THEN /\ held' = [held EXCEPT ![t] = @ \cup {a}]
                /\ Release /\ Return(t) /\ UNCHANGED cur
           ELSE /\ NextEntry(t) /\ Goto(t, "def_next")
                /\ UNCHANGED <<held, mutex, ip>>
  /\ UNCHANGED <<libraries, strdups, snap, tdCur, torn>>

Thread(t) ==
  \/ Begin(t) \/ AddLock(t) \/ AddRead(t) \/ AddWrite(t)
  \/ Open(t) \/ Close(t) \/ DefLock(t) \/ DefNext(t) \/ DefClose(t)

(***************************************************************************)
(* TearDown, run by the embedder once the threads are done: delete every *)
(* entry (~DefaultLibraryEntry frees the strdup'ed name), then mutex_.    *)
(* libraries_ is left pointing at the deleted entries.                    *)
(***************************************************************************)
\* Fault-injection variant: the walk stops at the entry without a next.
TearDownEnd == Len(libraries) - 1

TearDownLast == Len(libraries)

TearDown ==
  /\ \A t \in Threads : pc[t] = "done"
  /\ ~torn
  /\ IF tdCur <= TearDownLast
     THEN strdups' = strdups - 1 /\ tdCur' = tdCur + 1
          /\ UNCHANGED <<mutex, torn>>
     ELSE mutex' = "deleted" /\ torn' = TRUE /\ UNCHANGED <<strdups, tdCur>>
  /\ UNCHANGED <<libraries, loaded, pc, ip, snap, cur, held>>

\* Once torn down the registry is not used again.
Finished == torn /\ UNCHANGED vars

Next == (\E t \in Threads : Thread(t)) \/ TearDown \/ Finished

\* Threads are scheduled by the OS: each one that can run eventually does.
\* Every thread makes finitely many calls, so a thread waiting for mutex_
\* finds it free for good once the others are done.
Fairness == (\A t \in Threads : WF_vars(Thread(t))) /\ WF_vars(TearDown)

Spec == Init /\ [][Next]_vars /\ Fairness

(***************************************************************************)
(* Properties.                                                             *)
(***************************************************************************)
\* AddDefaultSharedLibrary calls that have returned.
AddsDone ==
  FoldFunction(LAMBDA x, y : x + y, 0,
    [t \in Threads |-> Len(SelectSeq(SubSeq(Script[t], 1, ip[t] - 1),
                                     LAMBDA c : c.op = "add"))])

\* No registration is lost: while the registry is up, the list holds one
\* entry for every AddDefaultSharedLibrary call that has returned, however
\* the threads' calls interleave (the read of libraries_ and the store of
\* the new head are under mutex_).
RegistryComplete == ~torn => Len(libraries) = AddsDone

\* Spec 8.7: after the AddDefaultSharedLibrary calls and TearDown, no
\* strdup'ed library name is still allocated.
StrdupBalanced == torn => strdups = 0

\* Every thread finishes its calls and the registry is torn down: no
\* thread waits on mutex_ forever and the default-library walk ends.
AllReturn == <>torn

\* A symbol address ForeignLookup returned points into a library that is
\* still mapped, so ForeignCall can jump to it.
HeldMapped == \A t \in Threads : \A a \in held[t] : Mapped(a.lib)
=============================================================================
