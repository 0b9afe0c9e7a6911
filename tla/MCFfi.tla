------------------------------- MODULE MCFfi -------------------------------
(***************************************************************************)
(* Two embedder threads sharing the registry.  The executable links no   *)
(* foreign symbols; libA defines f, libB defines f and g, libC is         *)
(* registered but cannot be opened.  t1 registers libC and libA and then *)
(* looks f up; t2 registers libB and looks g up.  Whether f comes from    *)
(* libA or libB depends on the order of the registrations.                *)
(***************************************************************************)
EXTENDS Ffi

Add(l) == [op |-> "add", lib |-> l, sym |-> "none"]
Lookup(s, l) == [op |-> "lookup", lib |-> l, sym |-> s]

MCDefines == ("exe" :> {}) @@ ("libA" :> {"f"}) @@ ("libB" :> {"f", "g"})
               @@ ("libC" :> {"f"})
MCScript == ("t1" :> <<Add("libC"), Add("libA"), Lookup("f", "exe")>>)
              @@ ("t2" :> <<Add("libB"), Lookup("g", "exe")>>)
=============================================================================
