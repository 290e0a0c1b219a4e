----------------------- MODULE ClientTemplateTracker -----------------------
(***************************************************************************)
(* The bookkeeping of core/filtering/clientTemplateTracker.ts: which       *)
(* client uses which template instance, kept twice (per instance and per   *)
(* client) plus a reference count, so that the last client's departure can *)
(* be reported exactly once.  Every method is synchronous, hence one       *)
(* action.                                                                 *)
(*                                                                         *)
(* Left out: createdAt / lastAccessed (only read for statistics and by     *)
(* getIdleInstances, whose time test the program never uses), the          *)
(* shareable / perClient copies kept for display, and the write-only map   *)
(* instanceKeys.                                                           *)
(***************************************************************************)
EXTENDS Integers, FiniteSets

CONSTANTS
    Clients,        \* client (session) ids
    Templates,      \* template names
    InstanceIds     \* ids of template instances

ASSUME FiniteClients == IsFiniteSet(Clients)

VARIABLES
    templateInstances,   \* Map: instance key -> clientIds and referenceCount
    clientRelationships  \* client -> set of instance keys; {} is "no entry"

trackerVars == <<templateInstances, clientRelationships>>

(* The map key `${templateName}:${instanceId}`. *)
InstanceKeys == Templates \X InstanceIds

InstanceInfo == [clientIds : SUBSET Clients, referenceCount : Int]

NewInfo == [clientIds |-> {}, referenceCount |-> 0]

-----------------------------------------------------------------------------
(* The instance's entry, or the one addClientTemplate creates for it. *)
InfoOf(key) ==
    IF key \in DOMAIN templateInstances THEN templateInstances[key] ELSE NewInfo

(* Mutant of WithClient: no test whether the client is in the set.         *)
WithClientCountedTwice(info, c) ==
    [clientIds |-> info.clientIds \cup {c},
     referenceCount |-> info.referenceCount + 1]

WithClient(info, c) ==
    IF c \in info.clientIds
    THEN info
    ELSE [clientIds |-> info.clientIds \cup {c},
          referenceCount |-> info.referenceCount + 1]

(* removeClient decrements whether or not the client is in the set. *)
WithoutClient(info, c) ==
    [clientIds |-> info.clientIds \ {c},
     referenceCount |-> info.referenceCount - 1]

ClientCount(key) ==
    IF key \in DOMAIN templateInstances
    THEN Cardinality(templateInstances[key].clientIds)
    ELSE 0

(* Mutant of InstancesToCleanup: the count is tested before it is lowered. *)
InstancesToCleanupTooLate(c) ==
    {key \in clientRelationships[c] \cap DOMAIN templateInstances :
        templateInstances[key].referenceCount = 0}

(* The keys removeClient(c) returns: its instances left without a reference. *)
InstancesToCleanup(c) ==
    {key \in clientRelationships[c] \cap DOMAIN templateInstances :
        WithoutClient(templateInstances[key], c).referenceCount = 0}

-----------------------------------------------------------------------------
AddClientTemplate(c, key) ==
    /\ templateInstances' =
         [k \in DOMAIN templateInstances \cup {key} |->
            IF k = key THEN WithClient(InfoOf(key), c) ELSE templateInstances[k]]
    /\ clientRelationships' =
         [clientRelationships EXCEPT ![c] = @ \cup {key}]

(* Mutant of RemoveClient: only what is to be cleaned up loses the client. *)
RemoveClientFromUnused(c) ==
    /\ templateInstances' =
         [k \in DOMAIN templateInstances |->
            IF k \in InstancesToCleanup(c)
            THEN WithoutClient(templateInstances[k], c)
            ELSE templateInstances[k]]
    /\ clientRelationships' = [clientRelationships EXCEPT ![c] = {}]

RemoveClient(c) ==
    /\ templateInstances' =
         [k \in DOMAIN templateInstances |->
            IF k \in clientRelationships[c]
            THEN WithoutClient(templateInstances[k], c)
            ELSE templateInstances[k]]
    /\ clientRelationships' = [clientRelationships EXCEPT ![c] = {}]

(* Mutant of RemoveClientFromInstance: the client's own list is forgotten. *)
RemoveFromInstanceOnly(c, key) ==
    /\ key \in DOMAIN templateInstances
    /\ c \in templateInstances[key].clientIds
    /\ templateInstances' =
         [templateInstances EXCEPT ![key] = WithoutClient(@, c)]
    /\ UNCHANGED clientRelationships

RemoveClientFromInstance(c, key) ==
    /\ key \in DOMAIN templateInstances
    /\ c \in templateInstances[key].clientIds
    /\ templateInstances' =
         [templateInstances EXCEPT ![key] = WithoutClient(@, c)]
    /\ clientRelationships' =
         [clientRelationships EXCEPT ![c] = @ \ {key}]

CleanupInstance(key) ==
    /\ key \in DOMAIN templateInstances
    /\ templateInstances' =
         [k \in DOMAIN templateInstances \ {key} |-> templateInstances[k]]
    /\ clientRelationships' =
         [c \in Clients |->
            IF c \in templateInstances[key].clientIds
            THEN clientRelationships[c] \ {key}
            ELSE clientRelationships[c]]

TrackerInit ==
    /\ templateInstances = [k \in {} |-> NewInfo]
    /\ clientRelationships = [c \in Clients |-> {}]

TrackerNext ==
    \/ \E c \in Clients : RemoveClient(c)
    \/ \E c \in Clients, key \in InstanceKeys :
          \/ AddClientTemplate(c, key)
          \/ RemoveClientFromInstance(c, key)
    \/ \E key \in InstanceKeys : CleanupInstance(key)

TrackerSpec == TrackerInit /\ [][TrackerNext]_trackerVars

-----------------------------------------------------------------------------
(* Type invariant of the two maps. *)
TrackerTypeOK ==
    /\ DOMAIN templateInstances \subseteq InstanceKeys
    /\ \A key \in DOMAIN templateInstances :
          templateInstances[key] \in InstanceInfo
    /\ clientRelationships \in [Clients -> SUBSET InstanceKeys]

(* The two directions of the relation agree: a client is in an instance's  *)
(* client set exactly when the instance is in the client's relationship    *)
(* list.  Lines 39-107, 112-163, 168-202 and 355-386 each update both.     *)
RelationSymmetric ==
    \A c \in Clients, key \in InstanceKeys :
        key \in clientRelationships[c]
        <=> /\ key \in DOMAIN templateInstances
            /\ c \in templateInstances[key].clientIds

(* The reference count, which decides when an instance is given up, is the *)
(* number of clients in the set, although it is incremented and            *)
(* decremented on its own (the decrement of removeClient is unguarded).    *)
RefCountExact ==
    \A key \in DOMAIN templateInstances :
        templateInstances[key].referenceCount
            = Cardinality(templateInstances[key].clientIds)

(* The tracker counts one relation: the two maps list the same pairs, and  *)
(* the counts that decide what is given up are theirs.                     *)
RelationIsCounted == RelationSymmetric /\ RefCountExact

(* What removeClient reports is exactly the set of instances that lose     *)
(* their last client in that very step: nothing an orphan could hide       *)
(* behind, nothing reported that is still in use (lines 112-163).          *)
ReportExact ==
    [][\A c \in Clients :
         RemoveClient(c) =>
           InstancesToCleanup(c) =
             {key \in DOMAIN templateInstances :
                /\ templateInstances[key].clientIds # {}
                /\ templateInstances'[key].clientIds = {}}]_trackerVars

-----------------------------------------------------------------------------
(* The two maps seen as one relation: who uses what is read off the        *)
(* instances' client sets, which decide when an instance is given up.      *)
Usage ==
    {use \in Clients \X InstanceKeys :
        /\ use[2] \in DOMAIN templateInstances
        /\ use[1] \in templateInstances[use[2]].clientIds}

Registry == INSTANCE ClientRegistry WITH
    Instances <- InstanceKeys,
    known <- DOMAIN templateInstances,
    uses <- Usage

(* The tracker with its counts and its two maps implements the plain       *)
(* client-instance relation: every method changes it as advertised, so     *)
(* what removeClient reads off one map is what the other map says.         *)
ImplementsRegistry == Registry!Spec
=============================================================================
