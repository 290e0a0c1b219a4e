------------------------- MODULE ClientInstancePool -------------------------
(***************************************************************************)
(* The pool of upstream client instances of                                *)
(* core/server/clientInstancePool.ts.  Node runs one callback at a time,   *)
(* so a method is one action up to its first await and another from there  *)
(* on: getOrCreateClientInstance is GetExisting, LimitReached or           *)
(* BeginCreate, then FinishCreate or FailCreate; removeInstance is the     *)
(* marking done in CleanupIdleInstances, then FinishRemove.                *)
(*                                                                         *)
(* Abstractions.  A rendered configuration is its hash.  An instance id is *)
(* the value of instanceCounter, which makes the real id unique.  Time is  *)
(* the flag "expired": the instance has been idle for longer than its      *)
(* timeout.  Errors while closing are logged and change nothing.           *)
(***************************************************************************)
EXTENDS Integers, FiniteSets

CONSTANTS
    Clients,        \* session ids, the pool's clients
    Templates,      \* template names
    Hashes,         \* hashes of rendered configurations
    Requests,       \* concurrent callers of getOrCreateClientInstance
    SharedOwner,    \* the owner part of a key without a client suffix
    Shareable,      \* templates whose setting shareable is not false
    PerClient,      \* templates whose setting perClient is true
    MaxInstances,   \* options.maxInstances, 0 is unlimited
    MaxTotalInstances, \* options.maxTotalInstances, 0 is unlimited
    MaxCreated      \* bound on the instances one run of the model creates

ASSUME PoolConstants ==
    /\ IsFiniteSet(Clients)
    /\ IsFiniteSet(Requests)
    /\ SharedOwner \notin Clients
    /\ Shareable \subseteq Templates
    /\ PerClient \subseteq Templates
    /\ MaxInstances \in Nat
    /\ MaxTotalInstances \in Nat
    /\ MaxCreated \in Nat

VARIABLES
    instances,           \* Map: instance key -> id of the instance stored there
    templateToInstances, \* template -> set of instance keys; {} is "no entry"
    pooled,              \* id -> the instance object
    instanceCounter,     \* instances created so far
    creating,            \* calls suspended in createNewInstance
    closing              \* removals suspended in close(): <<key, id>>

poolVars == <<instances, templateToInstances, pooled, instanceCounter,
              creating, closing>>

Ids == 1 .. MaxCreated

Keys == [template : Templates, hash : Hashes, owner : Clients \cup {SharedOwner}]

(* Mutants of Key: the rendered hash, the client id is left out.           *)
KeyWithoutHash(t, h, c) ==
    [template |-> t, hash |-> CHOOSE any \in Hashes : TRUE,
     owner |-> IF t \in PerClient THEN c ELSE SharedOwner]

KeyWithoutClient(t, h, c) == [template |-> t, hash |-> h, owner |-> SharedOwner]

(* createInstanceKey: the client id is part of the key of a perClient      *)
(* template only.                                                          *)
Key(t, h, c) ==
    [template |-> t, hash |-> h,
     owner |-> IF t \in PerClient THEN c ELSE SharedOwner]

Instance == [template : Templates, hash : Hashes, referenceCount : Nat,
             clientIds : SUBSET Clients,
             status : {"active", "idle", "terminating"},
             expired : BOOLEAN, closed : BOOLEAN]

Call == [req : Requests, client : Clients, template : Templates, hash : Hashes]

-----------------------------------------------------------------------------
Registered == {instances[k] : k \in DOMAIN instances}

Live(id) == pooled[id].status # "terminating"

(* checkInstanceLimits counts what is stored and not terminating; calls    *)
(* still suspended in createNewInstance are not counted.                   *)
TemplateCount(t) ==
    Cardinality({k \in templateToInstances[t] \cap DOMAIN instances :
                    Live(instances[k])})

TotalCount == Cardinality({k \in DOMAIN instances : Live(instances[k])})

(* Mutant of WithinLimits: the limits are off by one.                      *)
WithinLimitsByOne(t) ==
    /\ MaxInstances > 0 => TemplateCount(t) <= MaxInstances
    /\ MaxTotalInstances > 0 => TotalCount <= MaxTotalInstances

WithinLimits(t) ==
    /\ MaxInstances > 0 => TemplateCount(t) < MaxInstances
    /\ MaxTotalInstances > 0 => TotalCount < MaxTotalInstances

(* The instance getOrCreateClientInstance may hand out without creating. *)
Reusable(c, t, h) ==
    /\ Key(t, h, c) \in DOMAIN instances
    /\ Live(instances[Key(t, h, c)])
    /\ t \in Shareable

(* Mutant of AddClient: an idle instance is not made active again.         *)
AddClientStaysIdle(inst, c) ==
    IF c \in inst.clientIds
    THEN inst
    ELSE [inst EXCEPT !.clientIds = @ \cup {c}, !.referenceCount = @ + 1]

AddClient(inst, c) ==
    IF c \in inst.clientIds
    THEN inst
    ELSE [inst EXCEPT !.clientIds = @ \cup {c},
                      !.referenceCount = @ + 1,
                      !.status = "active",
                      !.expired = FALSE]

DropClient(inst, c) ==
    LET left == IF inst.referenceCount > 0 THEN inst.referenceCount - 1 ELSE 0
    IN  [inst EXCEPT !.clientIds = @ \ {c},
                     !.referenceCount = left,
                     !.status = IF left = 0 THEN "idle" ELSE @,
                     !.expired = IF left = 0 THEN FALSE ELSE @]

-----------------------------------------------------------------------------
(* getOrCreateClientInstance, returning the stored instance at once. *)
GetExisting(c, t, h) ==
    /\ Reusable(c, t, h)
    /\ pooled' = [pooled EXCEPT ![instances[Key(t, h, c)]] = AddClient(@, c)]
    /\ UNCHANGED <<instances, templateToInstances, instanceCounter, creating,
                   closing>>

(* getOrCreateClientInstance throwing "Maximum instances reached". *)
LimitReached(c, t, h) ==
    /\ ~Reusable(c, t, h)
    /\ ~WithinLimits(t)
    /\ UNCHANGED poolVars

(* getOrCreateClientInstance up to the await of createNewInstance. *)
BeginCreate(r, c, t, h) ==
    /\ \A call \in creating : call.req # r
    /\ ~Reusable(c, t, h)
    /\ WithinLimits(t)
    /\ instanceCounter + Cardinality(creating) < MaxCreated
    /\ creating' = creating \cup
         {[req |-> r, client |-> c, template |-> t, hash |-> h]}
    /\ UNCHANGED <<instances, templateToInstances, pooled, instanceCounter,
                   closing>>

(* The connection is up: the instance is stored under its key, whatever is *)
(* stored there by now, and the key enters the template's index.           *)
FinishCreate(call) ==
    LET key == Key(call.template, call.hash, call.client)
        id == instanceCounter + 1
    IN  /\ call \in creating
        /\ instanceCounter' = id
        /\ pooled' = [i \in DOMAIN pooled \cup {id} |->
                        IF i = id
                        THEN [template |-> call.template, hash |-> call.hash,
                              referenceCount |-> 1, clientIds |-> {call.client},
                              status |-> "active", expired |-> FALSE,
                              closed |-> FALSE]
                        ELSE pooled[i]]
        /\ instances' = [k \in DOMAIN instances \cup {key} |->
                           IF k = key THEN id ELSE instances[k]]
        /\ templateToInstances' =
             [templateToInstances EXCEPT ![call.template] = @ \cup {key}]
        /\ creating' = creating \ {call}
        /\ UNCHANGED closing

(* Transport creation or connect rejects; nothing was stored. *)
FailCreate(call) ==
    /\ call \in creating
    /\ creating' = creating \ {call}
    /\ UNCHANGED <<instances, templateToInstances, pooled, instanceCounter,
                   closing>>

(* removeClientFromInstance: the key, not the instance, is looked up. *)
RemoveClientFromPool(key, c) ==
    /\ pooled' = IF key \in DOMAIN instances
                 THEN [pooled EXCEPT ![instances[key]] = DropClient(@, c)]
                 ELSE pooled
    /\ UNCHANGED <<instances, templateToInstances, instanceCounter, creating,
                   closing>>

(* An idle instance's timeout elapses.  Closing a connection is taken to   *)
(* last less than an idle timeout (30 minutes by default).                 *)
Expire(id) ==
    /\ id \in Registered
    /\ pooled[id].status = "idle"
    /\ ~pooled[id].expired
    /\ \A removal \in closing : removal[2] # id
    /\ pooled' = [pooled EXCEPT ![id].expired = TRUE]
    /\ UNCHANGED <<instances, templateToInstances, instanceCounter, creating,
                   closing>>

IdleExpired ==
    {k \in DOMAIN instances : /\ pooled[instances[k]].status = "idle"
                              /\ pooled[instances[k]].expired}

(* The cleanup timer: removeInstance is started for every expired key, and *)
(* each call marks its instance before its first await.                    *)
CleanupIdleInstances ==
    /\ IdleExpired # {}
    /\ pooled' = [i \in DOMAIN pooled |->
                    IF \E k \in IdleExpired : instances[k] = i
                    THEN [pooled[i] EXCEPT !.status = "terminating"]
                    ELSE pooled[i]]
    /\ closing' = closing \cup {<<k, instances[k]>> : k \in IdleExpired}
    /\ UNCHANGED <<instances, templateToInstances, instanceCounter, creating>>

(* Mutants of FinishRemove: the template's index, the instance itself is   *)
(* not deleted.                                                            *)
FinishRemoveKeepsIndex(key, id) ==
    /\ <<key, id>> \in closing
    /\ closing' = closing \ {<<key, id>>}
    /\ pooled' = [pooled EXCEPT ![id].closed = TRUE]
    /\ instances' = [k \in DOMAIN instances \ {key} |-> instances[k]]
    /\ UNCHANGED <<templateToInstances, instanceCounter, creating>>

FinishRemoveKeepsInstance(key, id) ==
    /\ <<key, id>> \in closing
    /\ closing' = closing \ {<<key, id>>}
    /\ pooled' = [pooled EXCEPT ![id].closed = TRUE]
    /\ UNCHANGED <<instances, templateToInstances, instanceCounter, creating>>

(* removeInstance after the awaited close: the key is deleted, whatever is *)
(* stored there by now.                                                    *)
FinishRemove(key, id) ==
    /\ <<key, id>> \in closing
    /\ closing' = closing \ {<<key, id>>}
    /\ pooled' = [pooled EXCEPT ![id].closed = TRUE]
    /\ instances' = [k \in DOMAIN instances \ {key} |-> instances[k]]
    /\ templateToInstances' =
         [templateToInstances EXCEPT ![pooled[id].template] = @ \ {key}]
    /\ UNCHANGED <<instanceCounter, creating>>

PoolInit ==
    /\ instances = [k \in {} |-> 0]
    /\ templateToInstances = [t \in Templates |-> {}]
    /\ pooled = [i \in {} |-> 0]
    /\ instanceCounter = 0
    /\ creating = {}
    /\ closing = {}

-----------------------------------------------------------------------------
(* Type invariant of the pool's state. *)
PoolTypeOK ==
    /\ DOMAIN instances \subseteq Keys
    /\ instanceCounter \in Nat
    /\ DOMAIN pooled = 1 .. instanceCounter
    /\ \A k \in DOMAIN instances : instances[k] \in DOMAIN pooled
    /\ templateToInstances \in [Templates -> SUBSET Keys]
    /\ \A i \in DOMAIN pooled : pooled[i] \in Instance
    /\ creating \subseteq Call
    /\ closing \subseteq Keys \X DOMAIN pooled

(* The per-template index, which the limit check counts, lists exactly the *)
(* stored keys of the template, across overwrites and late removals        *)
(* (addToTemplateIndex and removeFromTemplateIndex, lines 530-548).        *)
IndexMatchesInstances ==
    \A t \in Templates :
        templateToInstances[t] = {k \in DOMAIN instances : k.template = t}

(* A stored instance was created for the key it is stored under and has    *)
(* not been closed: getOrCreateClientInstance never hands out a connection *)
(* rendered for another context, or one whose removal is complete.         *)
StoredInstanceFits ==
    \A k \in DOMAIN instances :
        LET inst == pooled[instances[k]]
        IN  /\ inst.template = k.template
            /\ inst.hash = k.hash
            /\ ~inst.closed

(* Clients share an instance only if its template allows it: none of a     *)
(* template with shareable = false, and none of a perClient template, ever *)
(* gets a second client (lines 142-150, 487-492).                          *)
NoUnwantedSharing ==
    \A i \in DOMAIN pooled :
        (pooled[i].template \notin Shareable \/ pooled[i].template \in PerClient)
        => Cardinality(pooled[i].clientIds) <= 1

(* The reference count never exceeds the number of clients and agrees with *)
(* the status: an instance shown active has a reference and an idle one    *)
(* has none, so the limit and the cleanup look at the same instances       *)
(* (lines 185-239).                                                        *)
CountsFitStatus ==
    \A i \in DOMAIN pooled :
        LET inst == pooled[i]
        IN  /\ inst.referenceCount <= Cardinality(inst.clientIds)
            /\ inst.status = "active" => inst.referenceCount > 0
            /\ inst.status = "idle" => inst.referenceCount = 0

(* What the limits and the cleanup go by is true of the stored instances:  *)
(* the index they are counted in, their counts and their status.           *)
BookkeepingExact == IndexMatchesInstances /\ CountsFitStatus

(* Whoever is given an instance gets what was rendered for it, open, and   *)
(* shares it only where the template allows (getOrCreateClientInstance).   *)
InstancesAreRight == StoredInstanceFits /\ NoUnwantedSharing
=============================================================================
