---------------------------- MODULE PoolClients ----------------------------
(***************************************************************************)
(* The pool under callers that use it as clientInstancePool.ts intends: a  *)
(* client asks for an instance, keeps what it is given, and gives it back  *)
(* once with removeClientFromInstance under the key it was given.  Calls   *)
(* of different requests overlap, the cleanup timer runs in between.       *)
(***************************************************************************)
EXTENDS ClientInstancePool

VARIABLE held      \* what callers keep: [client, key, id]

clientVars == <<poolVars, held>>

Handle(c, t, h, id) == [client |-> c, key |-> Key(t, h, c), id |-> id]

Handles == [client : Clients, key : Keys, id : Nat]

Reuse(c, t, h) ==
    /\ GetExisting(c, t, h)
    /\ held' = held \cup {Handle(c, t, h, instances[Key(t, h, c)])}

LimitRefused(c, t, h) == LimitReached(c, t, h) /\ UNCHANGED held

Begin(r, c, t, h) == BeginCreate(r, c, t, h) /\ UNCHANGED held

Finish(call) ==
    /\ FinishCreate(call)
    /\ held' = held \cup
         {Handle(call.client, call.template, call.hash, instanceCounter')}

Fail(call) == FailCreate(call) /\ UNCHANGED held

Release(handle) ==
    /\ handle \in held
    /\ RemoveClientFromPool(handle.key, handle.client)
    /\ held' = held \ {handle}

Timeout(id) == Expire(id) /\ UNCHANGED held

CleanupTimer == CleanupIdleInstances /\ UNCHANGED held

Closed(key, id) == FinishRemove(key, id) /\ UNCHANGED held

ClientsInit == PoolInit /\ held = {}

ClientsNext ==
    \/ \E c \in Clients, t \in Templates, h \in Hashes :
          \/ Reuse(c, t, h)
          \/ LimitRefused(c, t, h)
          \/ \E r \in Requests : Begin(r, c, t, h)
    \/ \E call \in creating : Finish(call) \/ Fail(call)
    \/ \E handle \in held : Release(handle)
    \/ \E id \in DOMAIN pooled : Timeout(id)
    \/ CleanupTimer
    \/ \E removal \in closing : Closed(removal[1], removal[2])

(* Time passes, the interval timer keeps firing, and close() returns.      *)
(* Nothing is assumed about when clients ask, connect or leave.            *)
Fairness ==
    /\ \A id \in Ids : WF_clientVars(Timeout(id))
    /\ WF_clientVars(CleanupTimer)
    /\ \A id \in Ids :
          WF_clientVars(\E removal \in closing :
                          removal[2] = id /\ Closed(removal[1], id))

ClientsSpec == ClientsInit /\ [][ClientsNext]_clientVars

FairSpec == ClientsSpec /\ Fairness

-----------------------------------------------------------------------------
(* Type invariant of the pool and of what its callers hold. *)
HeldTypeOK == PoolTypeOK /\ held \subseteq Handles

(* The instances of a template that are stored and not being closed.       *)
OpenCount(t) ==
    Cardinality({k \in DOMAIN instances : /\ k.template = t
                                          /\ <<k, instances[k]>> \notin closing})

(* Concurrency is the only way past the limit: the open instances of a     *)
(* template and those on their way exceed MaxInstances by less than the    *)
(* number of requests that can be suspended at the same time (the check of *)
(* lines 504-525 precedes the await, the store of 165 follows it).         *)
OverrunBounded ==
    MaxInstances > 0 =>
        \A t \in Templates :
            OpenCount(t) + Cardinality({call \in creating : call.template = t})
                < MaxInstances + Cardinality(Requests)

(* An idle stored instance does not stay in the pool unused for ever: it   *)
(* is closed and removed, taken up again, or displaced by another instance *)
(* under its key (cleanup timer, lines 304-337 and 550-566).               *)
IdleIsReclaimed ==
    \A id \in Ids :
        (id \in Registered /\ pooled[id].status = "idle")
        ~> (id \notin Registered \/ pooled[id].referenceCount > 0)

-----------------------------------------------------------------------------
(* Claims of the source's comments.                                        *)

(* clientInstancePool.ts:15, "Maximum number of instances per template".   *)
TemplateLimit ==
    MaxInstances > 0 => \A t \in Templates : TemplateCount(t) <= MaxInstances

(* clientInstancePool.ts:70, "Reusing existing instances when template     *)
(* variables match": two clients of a shareable template rendered the same *)
(* way hold the same instance, as long as neither is being closed.         *)
MatchingClientsShare ==
    \A a, b \in held :
        (a.key = b.key /\ a.key.template \in Shareable
           /\ Live(a.id) /\ Live(b.id))
        => a.id = b.id

(* clientInstancePool.test.ts:671, "should not cleanup active instances":  *)
(* from the moment a removal starts until close() returns, its instance    *)
(* has no reference.                                                       *)
ClosingIsUnreferenced ==
    \A removal \in closing : pooled[removal[2]].referenceCount = 0

(* clientInstancePool.ts:72, "Cleaning up idle instances to free           *)
(* resources": an instance nobody holds is closed or taken up again.       *)
UnusedIsReclaimed ==
    \A id \in Ids :
        (id \in DOMAIN pooled /\ ~\E x \in held : x.id = id)
        ~> (id \in DOMAIN pooled
              /\ (pooled[id].closed \/ \E x \in held : x.id = id))
=============================================================================
