--------------------------- MODULE ClientRegistry ---------------------------
(***************************************************************************)
(* What clientTemplateTracker.ts promises to its callers: one relation     *)
(* between clients and instances.  There is no count and no second map; an *)
(* instance is vacant when no client uses it.  ClientTemplateTracker       *)
(* implements this specification under the mapping given there.            *)
(***************************************************************************)
CONSTANTS Clients, Instances

VARIABLES
    known,   \* the instances the registry has an entry for
    uses     \* set of <<client, instance>>

vars == <<known, uses>>

UsersOf(i) == {c \in Clients : <<c, i>> \in uses}

Register(c, i) ==
    /\ known' = known \cup {i}
    /\ uses' = uses \cup {<<c, i>>}

(* The client leaves one instance or all of them; the instances stay known. *)
Leave(c, S) ==
    /\ uses' = uses \ ({c} \X S)
    /\ UNCHANGED known

Forget(i) ==
    /\ i \in known
    /\ known' = known \ {i}
    /\ uses' = uses \ (Clients \X {i})

Init == known = {} /\ uses = {}

Next ==
    \/ \E c \in Clients, i \in Instances : Register(c, i)
    \/ \E c \in Clients : Leave(c, Instances)
    \/ \E c \in Clients, i \in Instances : Leave(c, {i})
    \/ \E i \in Instances : Forget(i)

Spec == Init /\ [][Next]_vars
=============================================================================
