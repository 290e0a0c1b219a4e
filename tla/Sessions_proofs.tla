--------------------------- MODULE Sessions_proofs ---------------------------
(***************************************************************************)
(* Proofs about the sessions of the HTTP server: which session uses which  *)
(* template server, which transport a session is routed to, what of it is  *)
(* stored and restored, and what it is set up with.  The four parts share  *)
(* no state; each has an inductive invariant of its own.                   *)
(***************************************************************************)
EXTENDS ClientTemplateTracker, InboundSessions, SessionStore, SessionSetup,
    FiniteSetTheorems, TLAPS

-----------------------------------------------------------------------------
(***************************************************************************)
(* The tracker's invariants for any set of clients, templates and          *)
(* instance ids, the exactness of what removeClient reports, and the       *)
(* refinement of ClientRegistry.                                           *)
(*                                                                         *)
(* RefCountExact is not inductive alone: removeClient decrements every     *)
(* instance in the client's list without looking at the instance's client  *)
(* set, so the two directions of the relation must agree (RelationSymmetric)*)
(* for the count to stay right.                                            *)
(***************************************************************************)

TrackerInv == TrackerTypeOK /\ RelationSymmetric /\ RefCountExact

(* The client sets are finite, so adding or removing one client moves the  *)
(* cardinality by one exactly when the set changes.                        *)
LEMMA ClientSets ==
    ASSUME NEW S \in SUBSET Clients, NEW c \in Clients
    PROVE  /\ IsFiniteSet(S)
           /\ Cardinality(S) \in Nat
           /\ c \notin S => Cardinality(S \cup {c}) = Cardinality(S) + 1
           /\ c \in S => Cardinality(S \ {c}) = Cardinality(S) - 1
           /\ Cardinality(S) = 0 <=> S = {}
<1>1. IsFiniteSet(S)
  BY FS_Subset, FiniteClients
<1>2. Cardinality(S) \in Nat
  BY <1>1, FS_CardinalityType
<1>3. QED
  BY <1>1, <1>2, FS_AddElement, FS_RemoveElement, FS_EmptySet

(* WithClient and WithoutClient keep an entry's count equal to the number  *)
(* of its clients, provided the client removed is one of them.             *)
LEMMA EntryUpdate ==
    ASSUME NEW info \in InstanceInfo, NEW c \in Clients,
           info.referenceCount = Cardinality(info.clientIds)
    PROVE  /\ WithClient(info, c) \in InstanceInfo
           /\ WithClient(info, c).clientIds = info.clientIds \cup {c}
           /\ WithClient(info, c).referenceCount
                = Cardinality(WithClient(info, c).clientIds)
           /\ WithoutClient(info, c) \in InstanceInfo
           /\ WithoutClient(info, c).clientIds = info.clientIds \ {c}
           /\ c \in info.clientIds =>
                WithoutClient(info, c).referenceCount
                  = Cardinality(WithoutClient(info, c).clientIds)
<1>1. info.clientIds \in SUBSET Clients /\ info.referenceCount \in Int
  BY DEF InstanceInfo
<1>2. /\ c \notin info.clientIds =>
           Cardinality(info.clientIds \cup {c}) = Cardinality(info.clientIds) + 1
      /\ c \in info.clientIds =>
           Cardinality(info.clientIds \ {c}) = Cardinality(info.clientIds) - 1
  BY <1>1, ClientSets
<1>3. c \in info.clientIds => info.clientIds \cup {c} = info.clientIds
  OBVIOUS
<1>4. WithClient(info, c) \in InstanceInfo /\ WithoutClient(info, c) \in InstanceInfo
  BY <1>1 DEF WithClient, WithoutClient, InstanceInfo
<1>5. QED
  BY <1>1, <1>2, <1>3, <1>4 DEF WithClient, WithoutClient

(* The entry a new instance starts from satisfies the invariant. *)
LEMMA NewEntry ==
    /\ NewInfo \in InstanceInfo
    /\ NewInfo.referenceCount = Cardinality(NewInfo.clientIds)
BY FS_EmptySet DEF NewInfo, InstanceInfo

(* TrackerInv holds of an empty tracker.                                   *)
LEMMA TrackerInitInv == TrackerInit => TrackerInv
BY DEF TrackerInit, TrackerInv, TrackerTypeOK, RelationSymmetric, RefCountExact

(* addClientTemplate puts a client and an instance in one another's lists  *)
(* and counts it, once.                                                    *)
LEMMA AddInv ==
    ASSUME TrackerInv, NEW c \in Clients, NEW key \in InstanceKeys,
           AddClientTemplate(c, key)
    PROVE  TrackerInv'
<1> USE DEF TrackerInv
<1>1. /\ InfoOf(key) \in InstanceInfo
      /\ InfoOf(key).referenceCount = Cardinality(InfoOf(key).clientIds)
  BY NewEntry DEF InfoOf, TrackerTypeOK, RefCountExact
<1>2. /\ WithClient(InfoOf(key), c) \in InstanceInfo
      /\ WithClient(InfoOf(key), c).clientIds = InfoOf(key).clientIds \cup {c}
      /\ WithClient(InfoOf(key), c).referenceCount
           = Cardinality(WithClient(InfoOf(key), c).clientIds)
  BY <1>1, EntryUpdate
<1>3. /\ DOMAIN templateInstances' = DOMAIN templateInstances \cup {key}
      /\ templateInstances'[key] = WithClient(InfoOf(key), c)
      /\ \A k \in DOMAIN templateInstances \ {key} :
            templateInstances'[k] = templateInstances[k]
  BY DEF AddClientTemplate
<1>4. TrackerTypeOK'
  BY <1>2, <1>3 DEF TrackerTypeOK, AddClientTemplate
<1>5. RefCountExact'
  BY <1>2, <1>3 DEF RefCountExact
<1>6. \A d \in Clients, k \in InstanceKeys :
         k \in clientRelationships'[d]
         <=> k \in clientRelationships[d] \/ (d = c /\ k = key)
  BY DEF AddClientTemplate, TrackerTypeOK
<1>7. InfoOf(key).clientIds
        = IF key \in DOMAIN templateInstances
          THEN templateInstances[key].clientIds ELSE {}
  BY DEF InfoOf, NewInfo
<1>8. RelationSymmetric'
  BY <1>2, <1>3, <1>6, <1>7 DEF RelationSymmetric
<1>9. QED
  BY <1>4, <1>5, <1>8

(* removeClient takes a client from all its instances and counts each      *)
(* down.                                                                   *)
LEMMA RemoveInv ==
    ASSUME TrackerInv, NEW c \in Clients, RemoveClient(c)
    PROVE  TrackerInv'
<1> USE DEF TrackerInv
<1>1. /\ DOMAIN templateInstances' = DOMAIN templateInstances
      /\ \A k \in DOMAIN templateInstances :
            templateInstances'[k] = IF k \in clientRelationships[c]
                                    THEN WithoutClient(templateInstances[k], c)
                                    ELSE templateInstances[k]
  BY DEF RemoveClient
<1>2. \A k \in DOMAIN templateInstances :
         k \in clientRelationships[c] <=> c \in templateInstances[k].clientIds
  BY DEF RelationSymmetric, TrackerTypeOK
<1>3. ASSUME NEW k \in DOMAIN templateInstances
      PROVE  /\ templateInstances'[k] \in InstanceInfo
             /\ templateInstances'[k].clientIds = templateInstances[k].clientIds \ {c}
             /\ templateInstances'[k].referenceCount
                  = Cardinality(templateInstances'[k].clientIds)
  <2>1. /\ templateInstances[k] \in InstanceInfo
        /\ templateInstances[k].referenceCount
             = Cardinality(templateInstances[k].clientIds)
    BY DEF TrackerTypeOK, RefCountExact
  <2>2. CASE k \in clientRelationships[c]
    BY <1>1, <1>2, <2>1, <2>2, EntryUpdate
  <2>3. CASE k \notin clientRelationships[c]
    <3>1. templateInstances'[k] = templateInstances[k]
      BY <1>1, <2>3
    <3>2. c \notin templateInstances[k].clientIds
      BY <1>2, <2>3
    <3>3. QED
      BY <2>1, <3>1, <3>2
  <2>4. QED
    BY <2>2, <2>3
<1>4. TrackerTypeOK'
  BY <1>1, <1>3 DEF TrackerTypeOK, RemoveClient
<1>5. RefCountExact'
  BY <1>1, <1>3 DEF RefCountExact
<1>6. \A d \in Clients :
         clientRelationships'[d] = IF d = c THEN {} ELSE clientRelationships[d]
  BY DEF RemoveClient, TrackerTypeOK
<1>7. RelationSymmetric'
  BY <1>1, <1>3, <1>6 DEF RelationSymmetric
<1>8. QED
  BY <1>4, <1>5, <1>7

(* removeClientFromInstance takes a client from one instance.              *)
LEMMA RemoveFromInstanceInv ==
    ASSUME TrackerInv, NEW c \in Clients, NEW key \in InstanceKeys,
           RemoveClientFromInstance(c, key)
    PROVE  TrackerInv'
<1> USE DEF TrackerInv
<1>1. /\ key \in DOMAIN templateInstances
      /\ c \in templateInstances[key].clientIds
      /\ DOMAIN templateInstances' = DOMAIN templateInstances
      /\ templateInstances'[key] = WithoutClient(templateInstances[key], c)
      /\ \A k \in DOMAIN templateInstances \ {key} :
            templateInstances'[k] = templateInstances[k]
  BY DEF RemoveClientFromInstance
<1>2. /\ templateInstances[key] \in InstanceInfo
      /\ templateInstances[key].referenceCount
           = Cardinality(templateInstances[key].clientIds)
  BY <1>1 DEF TrackerTypeOK, RefCountExact
<1>3. /\ templateInstances'[key] \in InstanceInfo
      /\ templateInstances'[key].clientIds = templateInstances[key].clientIds \ {c}
      /\ templateInstances'[key].referenceCount
           = Cardinality(templateInstances'[key].clientIds)
  BY <1>1, <1>2, EntryUpdate
<1>4. TrackerTypeOK'
  BY <1>1, <1>3 DEF TrackerTypeOK, RemoveClientFromInstance
<1>5. RefCountExact'
  BY <1>1, <1>3 DEF RefCountExact
<1>6. \A d \in Clients :
         clientRelationships'[d] =
            IF d = c THEN clientRelationships[c] \ {key} ELSE clientRelationships[d]
  BY DEF RemoveClientFromInstance, TrackerTypeOK
<1>7. RelationSymmetric'
  BY <1>1, <1>3, <1>6 DEF RelationSymmetric
<1>8. QED
  BY <1>4, <1>5, <1>7

(* cleanupInstance forgets an instance and takes it from its clients'      *)
(* lists.                                                                  *)
LEMMA CleanupInstanceInv ==
    ASSUME TrackerInv, NEW key \in InstanceKeys, CleanupInstance(key)
    PROVE  TrackerInv'
<1> USE DEF TrackerInv
<1>1. /\ DOMAIN templateInstances' = DOMAIN templateInstances \ {key}
      /\ \A k \in DOMAIN templateInstances \ {key} :
            templateInstances'[k] = templateInstances[k]
  BY DEF CleanupInstance
<1>2. \A d \in Clients :
         clientRelationships'[d] = clientRelationships[d] \ {key}
  BY DEF CleanupInstance, TrackerTypeOK, RelationSymmetric
<1>3. TrackerTypeOK'
  BY <1>1 DEF TrackerTypeOK, CleanupInstance
<1>4. RefCountExact'
  BY <1>1 DEF RefCountExact
<1>5. RelationSymmetric'
  BY <1>1, <1>2 DEF RelationSymmetric
<1>6. QED
  BY <1>3, <1>4, <1>5

(* Every operation of the tracker keeps TrackerInv.                        *)
LEMMA StepInv == TrackerInv /\ [TrackerNext]_trackerVars => TrackerInv'
<1> SUFFICES ASSUME TrackerInv, [TrackerNext]_trackerVars
             PROVE  TrackerInv'
  OBVIOUS
<1>1. ASSUME NEW c \in Clients, RemoveClient(c)
      PROVE  TrackerInv'
  BY <1>1, RemoveInv
<1>2. ASSUME NEW c \in Clients, NEW key \in InstanceKeys, AddClientTemplate(c, key)
      PROVE  TrackerInv'
  BY <1>2, AddInv
<1>3. ASSUME NEW c \in Clients, NEW key \in InstanceKeys,
             RemoveClientFromInstance(c, key)
      PROVE  TrackerInv'
  BY <1>3, RemoveFromInstanceInv
<1>4. ASSUME NEW key \in InstanceKeys, CleanupInstance(key)
      PROVE  TrackerInv'
  BY <1>4, CleanupInstanceInv
<1>5. CASE UNCHANGED trackerVars
  BY <1>5 DEF trackerVars, TrackerInv, TrackerTypeOK, RelationSymmetric, RefCountExact
<1>6. QED
  BY <1>1, <1>2, <1>3, <1>4, <1>5 DEF TrackerNext

(* The tracker's type invariant, the agreement of its two maps and the     *)
(* exactness of its counts hold in every reachable state, whatever clients,*)
(* templates and instances there are.                                      *)
THEOREM TrackerInvariant == TrackerSpec => []TrackerInv
<1>1. TrackerInit => TrackerInv
  BY TrackerInitInv
<1>2. TrackerInv /\ [TrackerNext]_trackerVars => TrackerInv'
  BY StepInv
<1>3. QED
  BY <1>1, <1>2, PTL DEF TrackerSpec

(* The two maps hold the types of their TypeScript declarations.           *)
THEOREM TrackerTypes == TrackerSpec => []TrackerTypeOK
<1>1. TrackerInv => TrackerTypeOK
  BY DEF TrackerInv
<1>2. QED
  BY <1>1, TrackerInvariant, PTL

(* An instance names a client exactly when the client's own set names the  *)
(* instance, whatever sequence of the four methods is called.              *)
THEOREM MapsAgree == TrackerSpec => []RelationSymmetric
<1>1. TrackerInv => RelationSymmetric
  BY DEF TrackerInv
<1>2. QED
  BY <1>1, TrackerInvariant, PTL

(* Every reference count equals the number of clients of its instance      *)
(* (referenceCount and clientIds of clientTemplateTracker.ts).             *)
THEOREM CountsExact == TrackerSpec => []RefCountExact
<1>1. TrackerInv => RefCountExact
  BY DEF TrackerInv
<1>2. QED
  BY <1>1, TrackerInvariant, PTL

(* The two together, in every behaviour.                                   *)
THEOREM RelationStaysCounted == TrackerSpec => []RelationIsCounted
<1>1. RelationSymmetric /\ RefCountExact => RelationIsCounted
  BY DEF RelationIsCounted
<1>2. QED
  BY <1>1, MapsAgree, CountsExact, PTL

(* removeClient reports exactly the instances that lose their last client  *)
(* in that call.                                                           *)
THEOREM RemovalReportsExactly == TrackerSpec => ReportExact
<1> DEFINE Exact(c) ==
      InstancesToCleanup(c) =
        {key \in DOMAIN templateInstances :
           /\ templateInstances[key].clientIds # {}
           /\ templateInstances'[key].clientIds = {}}
<1>1. ASSUME TrackerInv, NEW c \in Clients, RemoveClient(c)
      PROVE  Exact(c)
  <2>1. ASSUME NEW k \in DOMAIN templateInstances
        PROVE  k \in InstancesToCleanup(c)
               <=> /\ templateInstances[k].clientIds # {}
                   /\ templateInstances'[k].clientIds = {}
    <3> DEFINE info == templateInstances[k]
    <3>1. /\ info \in InstanceInfo
          /\ info.clientIds \in SUBSET Clients
          /\ info.referenceCount = Cardinality(info.clientIds)
          /\ k \in clientRelationships[c] <=> c \in info.clientIds
      BY <1>1 DEF TrackerInv, TrackerTypeOK, RefCountExact, RelationSymmetric,
                  InstanceInfo
    <3>2. templateInstances'[k] = IF k \in clientRelationships[c]
                                  THEN WithoutClient(info, c) ELSE info
      BY <1>1 DEF RemoveClient
    <3>3. CASE c \in info.clientIds
      <4>1. /\ WithoutClient(info, c).clientIds = info.clientIds \ {c}
            /\ WithoutClient(info, c).referenceCount
                 = Cardinality(info.clientIds \ {c})
        BY <3>1, <3>3, EntryUpdate
      <4>2. Cardinality(info.clientIds \ {c}) = 0 <=> info.clientIds \ {c} = {}
        BY <3>1, ClientSets
      <4>3. k \in InstancesToCleanup(c)
            <=> WithoutClient(info, c).referenceCount = 0
        BY <3>1, <3>3 DEF InstancesToCleanup
      <4>4. QED
        BY <3>1, <3>2, <3>3, <4>1, <4>2, <4>3
    <3>4. CASE c \notin info.clientIds
      <4>1. k \notin InstancesToCleanup(c)
        BY <3>1, <3>4 DEF InstancesToCleanup
      <4>2. templateInstances'[k].clientIds = info.clientIds
        BY <3>1, <3>2, <3>4
      <4>3. QED
        BY <4>1, <4>2
    <3>5. QED
      BY <3>3, <3>4
  <2>2. InstancesToCleanup(c) \subseteq DOMAIN templateInstances
    BY DEF InstancesToCleanup
  <2>3. QED
    BY <2>1, <2>2
<1>2. TrackerInv => \A c \in Clients : RemoveClient(c) => Exact(c)
  BY <1>1
<1>3. TrackerInv /\ [TrackerNext]_trackerVars
        => [\A c \in Clients : RemoveClient(c) => Exact(c)]_trackerVars
  BY <1>2
<1>4. QED
  BY <1>3, TrackerInvariant, PTL DEF TrackerSpec, ReportExact

-----------------------------------------------------------------------------
(* The refinement: Usage moves exactly as ClientRegistry's relation does.  *)
LEMMA UsageAfterAdd ==
    ASSUME TrackerInv, NEW c \in Clients, NEW key \in InstanceKeys,
           AddClientTemplate(c, key)
    PROVE  Registry!Register(c, key)
<1>1. /\ DOMAIN templateInstances' = DOMAIN templateInstances \cup {key}
      /\ templateInstances'[key] = WithClient(InfoOf(key), c)
      /\ \A k \in DOMAIN templateInstances \ {key} :
            templateInstances'[k] = templateInstances[k]
  BY DEF AddClientTemplate
<1>2. templateInstances'[key].clientIds
        = {c} \cup (IF key \in DOMAIN templateInstances
                    THEN templateInstances[key].clientIds ELSE {})
  BY <1>1 DEF WithClient, InfoOf, NewInfo
<1>3. Usage' = Usage \cup {<<c, key>>}
  <2>1. ASSUME NEW d \in Clients, NEW k \in InstanceKeys
        PROVE  <<d, k>> \in Usage' <=> <<d, k>> \in Usage \/ (d = c /\ k = key)
    BY <1>1, <1>2 DEF Usage
  <2>2. /\ Usage \subseteq Clients \X InstanceKeys
        /\ Usage' \subseteq Clients \X InstanceKeys
    BY DEF Usage
  <2>3. QED
    BY <2>1, <2>2
<1>4. QED
  BY <1>1, <1>3 DEF Registry!Register

(* removeClient is the registry's Leave of all instances.                  *)
LEMMA UsageAfterRemove ==
    ASSUME TrackerInv, NEW c \in Clients, RemoveClient(c)
    PROVE  Registry!Leave(c, InstanceKeys)
<1>1. /\ DOMAIN templateInstances' = DOMAIN templateInstances
      /\ \A k \in DOMAIN templateInstances :
            templateInstances'[k] = IF k \in clientRelationships[c]
                                    THEN WithoutClient(templateInstances[k], c)
                                    ELSE templateInstances[k]
  BY DEF RemoveClient
<1>2. \A k \in DOMAIN templateInstances :
         templateInstances'[k].clientIds = templateInstances[k].clientIds \ {c}
  BY <1>1 DEF WithoutClient, TrackerInv, RelationSymmetric, TrackerTypeOK
<1>3. Usage' = Usage \ ({c} \X InstanceKeys)
  BY <1>1, <1>2 DEF Usage
<1>4. QED
  BY <1>1, <1>3 DEF Registry!Leave

(* removeClientFromInstance is the registry's Leave of one instance.       *)
LEMMA UsageAfterRemoveFromInstance ==
    ASSUME TrackerInv, NEW c \in Clients, NEW key \in InstanceKeys,
           RemoveClientFromInstance(c, key)
    PROVE  Registry!Leave(c, {key})
<1>1. /\ DOMAIN templateInstances' = DOMAIN templateInstances
      /\ \A k \in DOMAIN templateInstances :
            templateInstances'[k].clientIds
              = IF k = key THEN templateInstances[k].clientIds \ {c}
                           ELSE templateInstances[k].clientIds
  BY DEF RemoveClientFromInstance, WithoutClient
<1>2. Usage' = Usage \ ({c} \X {key})
  BY <1>1 DEF Usage
<1>3. QED
  BY <1>1, <1>2 DEF Registry!Leave

(* cleanupInstance is the registry's Forget.                               *)
LEMMA UsageAfterCleanup ==
    ASSUME NEW key \in InstanceKeys, CleanupInstance(key)
    PROVE  Registry!Forget(key)
<1>1. /\ key \in DOMAIN templateInstances
      /\ DOMAIN templateInstances' = DOMAIN templateInstances \ {key}
      /\ \A k \in DOMAIN templateInstances \ {key} :
            templateInstances'[k] = templateInstances[k]
  BY DEF CleanupInstance
<1>2. Usage' = Usage \ (Clients \X {key})
  BY <1>1 DEF Usage
<1>3. QED
  BY <1>1, <1>2 DEF Registry!Forget

(* The tracker implements the plain client-instance relation: its counts   *)
(* and its second map never make it answer differently.                    *)
THEOREM TrackerImplementsRegistry == TrackerSpec => ImplementsRegistry
<1>1. TrackerInit => Registry!Init
  BY DEF TrackerInit, Registry!Init, Usage
<1>2. TrackerInv /\ [TrackerNext]_trackerVars => [Registry!Next]_(Registry!vars)
  <2> SUFFICES ASSUME TrackerInv, [TrackerNext]_trackerVars
               PROVE  [Registry!Next]_(Registry!vars)
    OBVIOUS
  <2>1. ASSUME NEW c \in Clients, RemoveClient(c)
        PROVE  Registry!Next
    BY <2>1, UsageAfterRemove DEF Registry!Next
  <2>2. ASSUME NEW c \in Clients, NEW key \in InstanceKeys, AddClientTemplate(c, key)
        PROVE  Registry!Next
    BY <2>2, UsageAfterAdd DEF Registry!Next
  <2>3. ASSUME NEW c \in Clients, NEW key \in InstanceKeys,
               RemoveClientFromInstance(c, key)
        PROVE  Registry!Next
    BY <2>3, UsageAfterRemoveFromInstance DEF Registry!Next
  <2>4. ASSUME NEW key \in InstanceKeys, CleanupInstance(key)
        PROVE  Registry!Next
    BY <2>4, UsageAfterCleanup DEF Registry!Next
  <2>5. CASE UNCHANGED trackerVars
    BY <2>5 DEF trackerVars, Registry!vars, Usage
  <2>6. QED
    BY <2>1, <2>2, <2>3, <2>4, <2>5 DEF TrackerNext
<1>3. QED
  BY <1>1, <1>2, TrackerInvariant, PTL
  DEF TrackerSpec, ImplementsRegistry, Registry!Spec

-----------------------------------------------------------------------------
(***************************************************************************)
(* The invariants of the streamable sessions for any number of sessions,   *)
(* transports and overlapping attempts.                                    *)
(*                                                                         *)
(* RoutedIsOpen carries the others.  That a session is routed to its own   *)
(* transport is what keeps the clients of different sessions apart in      *)
(* clientsByPreset; that this transport's attempt is over is what keeps a  *)
(* failed restore, which turns into a creation, from being routed to.      *)
(***************************************************************************)

SessionsInv ==
    /\ SessionsTypeOK
    /\ RoutedIsOpen
    /\ PresetClientsAreConnected
    /\ CreatedIsPersisted

(* What SessionsInv says of the attempts: they are of sessions, and a      *)
(* routed one has returned.                                                *)
LEMMA AttemptFacts ==
    ASSUME SessionsInv
    PROVE  /\ Len(attempts) \in Nat
           /\ DOMAIN attempts = 1 .. Len(attempts)
           /\ \A a \in DOMAIN attempts : attempts[a] \in Attempt /\ Session(a) \in Sessions
           /\ \A s \in Sessions : inboundConns[s] # None =>
                /\ inboundConns[s] \in DOMAIN attempts
                /\ attempts[inboundConns[s]].at = "returned"
                /\ Session(inboundConns[s]) = s
<1>1. attempts \in Seq(Attempt)
  BY DEF SessionsInv, SessionsTypeOK
<1>2. /\ Len(attempts) \in Nat
      /\ DOMAIN attempts = 1 .. Len(attempts)
      /\ \A a \in DOMAIN attempts : attempts[a] \in Attempt
  BY <1>1
<1>3. \A a \in DOMAIN attempts : Session(a) \in Sessions
  BY <1>2 DEF Attempt, Session
<1>4. \A s \in Sessions : inboundConns[s] \in 0 .. Len(attempts)
  BY DEF SessionsInv, SessionsTypeOK
<1>5. QED
  BY <1>2, <1>3, <1>4 DEF SessionsInv, RoutedIsOpen, None

(* disconnectTransport takes the session, and nothing else, out of the     *)
(* three maps.                                                             *)
LEMMA Disconnecting ==
    ASSUME SessionsInv, NEW s \in Sessions, DisconnectTransport(s)
    PROVE  /\ inboundConns' = [inboundConns EXCEPT ![s] = None]
           /\ clientsById' = [clientsById EXCEPT ![s] = None]
           /\ clientsByPreset' = {clientsById'[t] : t \in Sessions} \ {None}
<1>1. CASE inboundConns[s] = None
  <2>1. clientsById[s] = None
    BY <1>1 DEF SessionsInv, PresetClientsAreConnected
  <2>2. UNCHANGED <<inboundConns, presetVars>>
    BY <1>1 DEF DisconnectTransport
  <2>3. QED
    BY <1>1, <2>1, <2>2
       DEF SessionsInv, PresetClientsAreConnected, SessionsTypeOK, presetVars
<1>2. CASE inboundConns[s] # None
  <2>1. /\ inboundConns' = [inboundConns EXCEPT ![s] = None]
        /\ clientsById' = [clientsById EXCEPT ![s] = None]
        /\ clientsByPreset' = clientsByPreset \ {clientsById[s]}
    BY <1>2 DEF DisconnectTransport
  <2>2. \A t \in Sessions \ {s} : clientsById[t] # clientsById[s] \/ clientsById[t] = None
    BY AttemptFacts DEF SessionsInv, PresetClientsAreConnected
  <2>3. QED
    BY <2>1, <2>2 DEF SessionsInv, PresetClientsAreConnected, SessionsTypeOK
<1>3. QED
  BY <1>1, <1>2

(* connectTransport changes only what it enters for a session that is not  *)
(* connected.                                                              *)
LEMMA Connecting ==
    ASSUME SessionsInv, NEW a \in DOMAIN attempts, ConnectTransport(a)
    PROVE  /\ inboundConns' \in [Sessions -> 0 .. Len(attempts)]
           /\ clientsById' \in [Sessions -> 0 .. Len(attempts)]
           /\ \A t \in Sessions :
                 \/ inboundConns'[t] = inboundConns[t] /\ clientsById'[t] = clientsById[t]
                 \/ /\ t = Session(a)
                    /\ inboundConns'[t] = a
                    /\ clientsById'[t] \in {None, a}
           /\ clientsByPreset' = {clientsById'[t] : t \in Sessions} \ {None}
<1> DEFINE s == Session(a)
<1>1. s \in Sessions /\ a \in 1 .. Len(attempts) /\ Len(attempts) \in Nat
  BY AttemptFacts
<1>2. CASE inboundConns[s] # None
  BY <1>2 DEF ConnectTransport, presetVars, SessionsInv, SessionsTypeOK,
              PresetClientsAreConnected
<1>3. CASE inboundConns[s] = None
  <2>1. clientsById[s] = None
    BY <1>1, <1>3 DEF SessionsInv, PresetClientsAreConnected
  <2>2. inboundConns' = [inboundConns EXCEPT ![s] = a]
    BY <1>3 DEF ConnectTransport
  <2>3. CASE s \in PresetSessions
    <3>1. /\ clientsById' = [clientsById EXCEPT ![s] = a]
          /\ clientsByPreset' = clientsByPreset \cup {a}
      BY <1>3, <2>3 DEF ConnectTransport
    <3>2. a # None
      BY <1>1 DEF None
    <3>3. QED
      BY <1>1, <2>1, <2>2, <3>1, <3>2
         DEF SessionsInv, SessionsTypeOK, PresetClientsAreConnected
  <2>4. CASE s \notin PresetSessions
    BY <1>1, <1>3, <2>1, <2>2, <2>4
       DEF ConnectTransport, presetVars, SessionsInv, SessionsTypeOK,
           PresetClientsAreConnected
  <2>5. QED
    BY <2>3, <2>4
<1>4. QED
  BY <1>2, <1>3

(* SessionsInv holds before any session.                                   *)
LEMMA SessionsInitInv == Init => SessionsInv
<1> SUFFICES ASSUME Init PROVE SessionsInv
  OBVIOUS
<1>1. attempts \in Seq(Attempt) /\ Len(attempts) = 0
  BY DEF Init
<1>2. QED
  BY <1>1 DEF Init, SessionsInv, SessionsTypeOK, RoutedIsOpen,
              PresetClientsAreConnected, CreatedIsPersisted, None

(* A new attempt leaves the others what they are. *)
LEMMA BeginInv ==
    ASSUME SessionsInv, NEW s \in Sessions, NEW kind \in {"create", "restore"},
           NEW method \in {"POST", "GET", "DELETE"}, Begin(s, kind, method),
           UNCHANGED <<persisted, inboundConns, streams, presetVars>>
    PROVE  SessionsInv'
<1> DEFINE new == [session |-> s, kind |-> kind, method |-> method, at |-> "preparing"]
<1>1. attempts' = Append(attempts, new) /\ new \in Attempt
  BY DEF Begin, Attempt
<1>2. attempts \in Seq(Attempt) /\ Len(attempts) \in Nat
  BY AttemptFacts DEF SessionsInv, SessionsTypeOK
<1>3. /\ attempts' \in Seq(Attempt)
      /\ Len(attempts') = Len(attempts) + 1
      /\ DOMAIN attempts' = 1 .. Len(attempts')
      /\ \A a \in DOMAIN attempts : a \in DOMAIN attempts' /\ attempts'[a] = attempts[a]
  BY <1>1, <1>2
<1>4. SessionsTypeOK'
  BY <1>2, <1>3 DEF SessionsInv, SessionsTypeOK, presetVars
<1>5. RoutedIsOpen'
  BY <1>3, AttemptFacts DEF RoutedIsOpen, Session
<1>6. PresetClientsAreConnected'
  BY DEF SessionsInv, PresetClientsAreConnected, presetVars
<1>7. CreatedIsPersisted'
  BY <1>3, AttemptFacts DEF SessionsInv, CreatedIsPersisted
<1>8. QED
  BY <1>4, <1>5, <1>6, <1>7 DEF SessionsInv

(* Attempt a comes to its end, in whatever way. *)
LEMMA Ending ==
    ASSUME SessionsInv, NEW a \in DOMAIN attempts,
           NEW place \in {"returned", "failed", "closed"},
           attempts' = [attempts EXCEPT ![a].at = place]
    PROVE  /\ attempts' \in Seq(Attempt)
           /\ Len(attempts') = Len(attempts)
           /\ DOMAIN attempts' = DOMAIN attempts
           /\ \A b \in DOMAIN attempts :
                 /\ attempts'[b].session = attempts[b].session
                 /\ attempts'[b].kind = attempts[b].kind
                 /\ attempts'[b].at = IF b = a THEN place ELSE attempts[b].at
<1>1. attempts \in Seq(Attempt)
  BY DEF SessionsInv, SessionsTypeOK
<1>2. attempts[a] \in Attempt /\ [attempts[a] EXCEPT !.at = place] \in Attempt
  BY <1>1, AttemptFacts DEF Attempt
<1>3. QED
  BY <1>1, <1>2, AttemptFacts DEF Attempt

(* The maps follow a deletion: what it closes is not routed to.            *)
LEMMA DeleteInv ==
    ASSUME SessionsInv, NEW s \in Sessions, NEW a \in DOMAIN attempts,
           Session(a) = s, Delete(s, a),
           attempts' = [attempts EXCEPT ![a].at = "closed"]
    PROVE  SessionsInv'
<1>1. /\ inboundConns' = [inboundConns EXCEPT ![s] = None]
      /\ clientsById' = [clientsById EXCEPT ![s] = None]
      /\ clientsByPreset' = {clientsById'[t] : t \in Sessions} \ {None}
  BY Disconnecting DEF Delete
<1>2. /\ attempts' \in Seq(Attempt)
      /\ Len(attempts') = Len(attempts)
      /\ DOMAIN attempts' = DOMAIN attempts
      /\ \A b \in DOMAIN attempts :
            /\ attempts'[b].session = attempts[b].session
            /\ attempts'[b].kind = attempts[b].kind
            /\ b # a => attempts'[b].at = attempts[b].at
  BY Ending
<1>3. SessionsTypeOK'
  <2>1. clientsById' \in [Sessions -> 0 .. Len(attempts')]
    BY <1>1, <1>2, AttemptFacts DEF SessionsInv, SessionsTypeOK, None
  <2>2. inboundConns' \in [Sessions -> 0 .. Len(attempts')]
    BY <1>1, <1>2, AttemptFacts DEF SessionsInv, SessionsTypeOK, None
  <2>3. clientsByPreset' \subseteq DOMAIN attempts'
    BY <1>1, <1>2, <2>1, AttemptFacts DEF None
  <2>4. QED
    BY <1>2, <2>1, <2>2, <2>3 DEF SessionsInv, SessionsTypeOK, Delete
<1>4. RoutedIsOpen'
  BY <1>1, <1>2, AttemptFacts DEF SessionsInv, SessionsTypeOK, RoutedIsOpen, Session
<1>5. PresetClientsAreConnected'
  BY <1>1 DEF SessionsInv, SessionsTypeOK, PresetClientsAreConnected
<1>6. CreatedIsPersisted'
  BY <1>1, <1>2, AttemptFacts DEF SessionsInv, SessionsTypeOK, CreatedIsPersisted, Delete
<1>7. QED
  BY <1>3, <1>4, <1>5, <1>6 DEF SessionsInv

(* An attempt that has connected its server is routed to.                  *)
LEMMA ConnectedInv ==
    ASSUME SessionsInv, NEW a \in DOMAIN attempts, Connected(a)
    PROVE  SessionsInv'
<1>1. /\ attempts' = [attempts EXCEPT ![a].at = "returned"]
      /\ attempts[a].at = "preparing"
      /\ ConnectTransport(a)
  BY DEF Connected
<1>2. /\ attempts' \in Seq(Attempt)
      /\ Len(attempts') = Len(attempts)
      /\ DOMAIN attempts' = DOMAIN attempts
      /\ \A b \in DOMAIN attempts :
            /\ attempts'[b].session = attempts[b].session
            /\ attempts'[b].kind = attempts[b].kind
            /\ attempts'[b].at = IF b = a THEN "returned" ELSE attempts[b].at
  BY <1>1, Ending
<1>3. /\ inboundConns' \in [Sessions -> 0 .. Len(attempts)]
      /\ clientsById' \in [Sessions -> 0 .. Len(attempts)]
      /\ \A t \in Sessions :
            \/ inboundConns'[t] = inboundConns[t] /\ clientsById'[t] = clientsById[t]
            \/ /\ t = Session(a)
               /\ inboundConns'[t] = a
               /\ clientsById'[t] \in {None, a}
      /\ clientsByPreset' = {clientsById'[t] : t \in Sessions} \ {None}
  BY <1>1, Connecting
<1>4. SessionsTypeOK'
  <2>1. clientsByPreset' \subseteq DOMAIN attempts'
    BY <1>2, <1>3, AttemptFacts DEF None
  <2>2. persisted' \subseteq Sessions /\ streams' \subseteq DOMAIN attempts
    BY AttemptFacts DEF SessionsInv, SessionsTypeOK, Connected
  <2>3. QED
    BY <1>2, <1>3, <2>1, <2>2 DEF SessionsTypeOK
<1>5. RoutedIsOpen'
  BY <1>2, <1>3, AttemptFacts DEF RoutedIsOpen, Session
<1>6. PresetClientsAreConnected'
  BY <1>3 DEF SessionsInv, PresetClientsAreConnected
<1>7. CreatedIsPersisted'
  BY <1>2, <1>3, AttemptFacts DEF SessionsInv, CreatedIsPersisted, Connected
<1>8. QED
  BY <1>4, <1>5, <1>6, <1>7 DEF SessionsInv

(* An attempt fails; a restore that failed turns into a creation.          *)
LEMMA FailsInv ==
    ASSUME SessionsInv, NEW a \in DOMAIN attempts, Fails(a)
    PROVE  SessionsInv'
<1>1. UNCHANGED <<persisted, inboundConns, streams, clientsById, clientsByPreset>>
  BY DEF Fails, presetVars
<1>2. /\ attempts' \in Seq(Attempt)
      /\ Len(attempts') = Len(attempts)
      /\ DOMAIN attempts' = DOMAIN attempts
      /\ \A b \in DOMAIN attempts :
            /\ attempts'[b].session = attempts[b].session
            /\ b # a => /\ attempts'[b].at = attempts[b].at
                        /\ attempts'[b].kind = attempts[b].kind
  <2>1. CASE attempts' = [attempts EXCEPT ![a].at = "failed"]
    BY <2>1, Ending
  <2>2. CASE attempts' = [attempts EXCEPT ![a].kind = "create"]
    <3>1. attempts \in Seq(Attempt)
      BY DEF SessionsInv, SessionsTypeOK
    <3>2. attempts[a] \in Attempt /\ [attempts[a] EXCEPT !.kind = "create"] \in Attempt
      BY <3>1, AttemptFacts DEF Attempt
    <3>3. QED
      BY <2>2, <3>1, <3>2, AttemptFacts DEF Attempt
  <2>3. QED
    BY <2>1, <2>2 DEF Fails
<1>3. attempts[a].at # "returned"
  BY DEF Fails
<1>4. SessionsTypeOK'
  BY <1>1, <1>2 DEF SessionsInv, SessionsTypeOK
<1>5. RoutedIsOpen'
  BY <1>1, <1>2, <1>3, AttemptFacts DEF RoutedIsOpen, Session
<1>6. PresetClientsAreConnected'
  BY <1>1 DEF SessionsInv, PresetClientsAreConnected
<1>7. CreatedIsPersisted'
  BY <1>1, <1>2, <1>3, AttemptFacts DEF SessionsInv, CreatedIsPersisted
<1>8. QED
  BY <1>4, <1>5, <1>6, <1>7 DEF SessionsInv

(* The stream of a routed session drops.                                   *)
LEMMA DropInv ==
    ASSUME SessionsInv, NEW a \in DOMAIN attempts, StreamDrops(a)
    PROVE  SessionsInv'
<1>1. Session(a) \in Sessions
  BY AttemptFacts
<1>2. /\ inboundConns' = [inboundConns EXCEPT ![Session(a)] = None]
      /\ clientsById' = [clientsById EXCEPT ![Session(a)] = None]
      /\ clientsByPreset' = {clientsById'[t] : t \in Sessions} \ {None}
  BY <1>1, Disconnecting DEF StreamDrops
<1>3. UNCHANGED <<persisted, attempts>> /\ streams' \subseteq streams
  BY DEF StreamDrops
<1>4. SessionsTypeOK'
  <2>1. clientsById' \in [Sessions -> 0 .. Len(attempts)]
    BY <1>2, AttemptFacts DEF SessionsInv, SessionsTypeOK, None
  <2>2. inboundConns' \in [Sessions -> 0 .. Len(attempts)]
    BY <1>2, AttemptFacts DEF SessionsInv, SessionsTypeOK, None
  <2>3. clientsByPreset' \subseteq DOMAIN attempts
    BY <1>2, <2>1, AttemptFacts DEF None
  <2>4. QED
    BY <1>3, <2>1, <2>2, <2>3 DEF SessionsInv, SessionsTypeOK
<1>5. RoutedIsOpen'
  BY <1>2, <1>3 DEF SessionsInv, SessionsTypeOK, RoutedIsOpen, Session
<1>6. PresetClientsAreConnected'
  BY <1>2 DEF SessionsInv, SessionsTypeOK, PresetClientsAreConnected
<1>7. CreatedIsPersisted'
  BY <1>2, <1>3 DEF SessionsInv, SessionsTypeOK, CreatedIsPersisted
<1>8. QED
  BY <1>4, <1>5, <1>6, <1>7 DEF SessionsInv

(* A notification to a session fails and its connection is let go.         *)
LEMMA NotificationInv ==
    ASSUME SessionsInv, NEW s \in Sessions, NotificationFails(s)
    PROVE  SessionsInv'
<1>1. /\ UNCHANGED <<persisted, attempts, inboundConns, streams>>
      /\ clientsById' = [clientsById EXCEPT ![s] = None]
      /\ clientsByPreset' = clientsByPreset \ {clientsById[s]}
  BY DEF NotificationFails
<1>2. \A t \in Sessions \ {s} : clientsById[t] # clientsById[s] \/ clientsById[t] = None
  BY AttemptFacts DEF SessionsInv, PresetClientsAreConnected
<1>3. PresetClientsAreConnected'
  BY <1>1, <1>2 DEF SessionsInv, PresetClientsAreConnected, SessionsTypeOK
<1>4. SessionsTypeOK'
  BY <1>1, AttemptFacts DEF SessionsInv, SessionsTypeOK, None
<1>5. RoutedIsOpen'
  BY <1>1 DEF SessionsInv, RoutedIsOpen, Session
<1>6. CreatedIsPersisted'
  BY <1>1 DEF SessionsInv, CreatedIsPersisted
<1>7. QED
  BY <1>3, <1>4, <1>5, <1>6 DEF SessionsInv

(* A restart keeps what is stored and nothing else.                        *)
LEMMA SessionsRestartInv ==
    ASSUME SessionsInv, Restart
    PROVE  SessionsInv'
<1>1. attempts' \in Seq(Attempt) /\ Len(attempts') = Len(attempts)
  <2>1. attempts \in Seq(Attempt)
    BY DEF SessionsInv, SessionsTypeOK
  <2>2. \A a \in 1 .. Len(attempts) : [attempts[a] EXCEPT !.at = "lost"] \in Attempt
    BY AttemptFacts DEF Attempt
  <2>3. attempts' = [a \in 1 .. Len(attempts) |-> [attempts[a] EXCEPT !.at = "lost"]]
    BY AttemptFacts DEF Restart
  <2>4. QED
    BY <2>1, <2>2, <2>3, AttemptFacts
<1>2. QED
  BY <1>1, AttemptFacts
     DEF Restart, SessionsInv, SessionsTypeOK, RoutedIsOpen,
         PresetClientsAreConnected, CreatedIsPersisted, None

(* Every step of sessions, streams and the process keeps SessionsInv.      *)
LEMMA SessionsNextInv == SessionsInv /\ [Next]_vars => SessionsInv'
<1> SUFFICES ASSUME SessionsInv, [Next]_vars PROVE SessionsInv'
  OBVIOUS
<1>1. ASSUME NEW s \in Sessions, PostNew(s) PROVE SessionsInv'
  BY <1>1, BeginInv DEF PostNew
<1>2. ASSUME NEW s \in Sessions, NEW method \in {"POST", "GET", "DELETE"},
             Request(s, method)
      PROVE  SessionsInv'
  BY <1>2, BeginInv DEF Request
<1>3. ASSUME NEW s \in Sessions, GetStream(s) PROVE SessionsInv'
  BY <1>3, AttemptFacts
     DEF GetStream, presetVars, SessionsInv, SessionsTypeOK, RoutedIsOpen,
         PresetClientsAreConnected, CreatedIsPersisted, Session
<1>4. ASSUME NEW s \in Sessions, DeleteConnected(s) PROVE SessionsInv'
  BY <1>4, AttemptFacts, DeleteInv DEF DeleteConnected
<1>5. ASSUME NEW s \in Sessions, NotificationFails(s) PROVE SessionsInv'
  BY <1>5, NotificationInv
<1>6. ASSUME NEW a \in DOMAIN attempts, Connected(a) PROVE SessionsInv'
  BY <1>6, ConnectedInv
<1>7. ASSUME NEW a \in DOMAIN attempts, ConnectedToDelete(a) PROVE SessionsInv'
  BY <1>7, AttemptFacts, DeleteInv DEF ConnectedToDelete
<1>8. ASSUME NEW a \in DOMAIN attempts, Fails(a) PROVE SessionsInv'
  BY <1>8, FailsInv
<1>9. ASSUME NEW a \in DOMAIN attempts, StreamDrops(a) PROVE SessionsInv'
  BY <1>9, DropInv
<1>10. CASE UNCHANGED vars
  BY <1>10 DEF vars, presetVars, SessionsInv, SessionsTypeOK, RoutedIsOpen,
               PresetClientsAreConnected, CreatedIsPersisted, Session
<1>11. QED
  BY <1>1, <1>2, <1>3, <1>4, <1>5, <1>6, <1>7, <1>8, <1>9, <1>10, SessionsRestartInv
     DEF Next

(* In every behaviour the four invariants hold together. *)
THEOREM SessionsInvariant == Spec => []SessionsInv
<1>1. Init => SessionsInv
  BY SessionsInitInv
<1>2. SessionsInv /\ [Next]_vars => SessionsInv'
  BY SessionsNextInv
<1>3. QED
  BY <1>1, <1>2, PTL DEF Spec

(* In every behaviour, however requests of one session overlap, a session  *)
(* is routed to a transport of its own that has not been closed.           *)
THEOREM RoutedStaysOpen == Spec => []RoutedIsOpen
<1>1. SessionsInv => RoutedIsOpen
  BY DEF SessionsInv
<1>2. QED
  BY <1>1, SessionsInvariant, PTL

(* In every behaviour the clients PresetNotificationService would notify   *)
(* are those of connected sessions, and its two maps agree.                *)
THEOREM PresetClientsStayConnected == Spec => []PresetClientsAreConnected
<1>1. SessionsInv => PresetClientsAreConnected
  BY DEF SessionsInv
<1>2. QED
  BY <1>1, SessionsInvariant, PTL

(* Routes and preset clients together, in every behaviour.                 *)
THEOREM SessionsStayConnected == Spec => []SessionsAreConnected
<1>1. RoutedIsOpen /\ PresetClientsAreConnected => SessionsAreConnected
  BY DEF SessionsAreConnected
<1>2. QED
  BY <1>1, RoutedStaysOpen, PresetClientsStayConnected, PTL

(* In every behaviour a session that is connected since its creation is    *)
(* known to the repository.                                                *)
THEOREM CreatedStaysPersisted == Spec => []CreatedIsPersisted
<1>1. SessionsInv => CreatedIsPersisted
  BY DEF SessionsInv
<1>2. QED
  BY <1>1, SessionsInvariant, PTL

-----------------------------------------------------------------------------
(* The store of sessions. That a session in use is stored rests on how old *)
(* the last write may be when a request does not write.                    *)

Tracks == [accessed : Int, count : Nat, written : Int]

(* What the store's state is made of.                                      *)
StoreTypeOK ==
    /\ clock \in Nat \ {0}
    /\ inMemory \in [Ids -> Int]
    /\ tracked \in [Ids -> Tracks]
    /\ dirty \subseteq Ids
    /\ files \in [Ids -> Int]
    /\ connected \subseteq Ids
    /\ restoring \subseteq Ids
    /\ faults \in Nat
    /\ used \in [Ids -> Int]
    /\ gone \subseteq Ids

(* Whatever works on a session has its data in memory, and what is not in  *)
(* memory has left nothing behind.                                         *)
MemoryHolds ==
    /\ \A s \in connected \cup restoring \cup dirty : inMemory[s] # Missing
    /\ \A s \in Ids : inMemory[s] = Missing => tracked[s] = Untracked
    /\ restoring \cap connected = {}

(* No request was answered later than the access that a flush would write. *)
AccessesFollow ==
    \A s \in Ids :
        /\ used[s] <= clock
        /\ s \in dirty => tracked[s].accessed >= 1 /\ used[s] <= tracked[s].accessed

(* The last write the store remembers is there until it expires.           *)
WrittenIsStored ==
    \A s \in Ids :
        LET until == tracked[s].written + TTL
        IN  tracked[s] = Untracked \/ tracked[s].written = Untracked.written
                \/ files[s] >= until \/ clock > until

StoreInv ==
    /\ StoreTypeOK
    /\ MemoryHolds
    /\ AccessesFollow
    /\ WrittenIsStored
    /\ UsedIsStored
    /\ DeletedStaysGone

(* The constants of the store, and what an untracked session is given.     *)
LEMMA UntrackedTyped ==
    /\ Untracked \in Tracks
    /\ Untracked.written = -PersistInterval
    /\ Missing \in Int /\ Missing < 0
    /\ PersistInterval \in Nat \ {0} /\ TTL \in Nat /\ TTL > PersistInterval
    /\ PersistRequests \in Nat
BY StoreConstants DEF Untracked, Tracks, Missing

(* StoreInv holds of an empty store.                                       *)
LEMMA StoreInitInv == StoreInit => StoreInv
<1> SUFFICES ASSUME StoreInit PROVE StoreInv
  OBVIOUS
<1>1. StoreTypeOK
  BY UntrackedTyped DEF StoreInit, StoreTypeOK
<1>2. MemoryHolds /\ AccessesFollow /\ WrittenIsStored
  BY UntrackedTyped DEF StoreInit, MemoryHolds, AccessesFollow, WrittenIsStored
<1>3. UsedIsStored /\ DeletedStaysGone
  BY DEF StoreInit, UsedIsStored, DeletedStaysGone
<1>4. QED
  BY <1>1, <1>2, <1>3 DEF StoreInv

(* What an access of a session in memory comes to: written, or not, and    *)
(* then either the write failed or the last one is recent.                 *)
LEMMA AccessCases ==
    ASSUME StoreInv, NEW s \in Ids, NEW ok \in BOOLEAN, UpdateAccess(s, ok), inMemory[s] # Missing
    PROVE  \E t \in Tracks :
             /\ inMemory' = [inMemory EXCEPT ![s] = clock + TTL]
             /\ tracked' = [tracked EXCEPT ![s] = t]
             /\ t.accessed = clock
             /\ faults' \in Nat
             /\ \/ /\ files' = [files EXCEPT ![s] = clock + TTL]
                   /\ t.written = clock
                   /\ dirty' = dirty \ {s}
                   /\ used' = [used EXCEPT ![s] = clock]
                \/ /\ files' = files
                   /\ t.written = tracked[s].written
                   /\ dirty' = dirty \cup {s}
                   /\ \/ used' = used
                      \/ /\ used' = [used EXCEPT ![s] = clock]
                         /\ clock - t.written < PersistInterval
<1> USE UntrackedTyped
<1> DEFINE t == [tracked[s] EXCEPT !.accessed = clock,
                                  !.count = IF @ < PersistRequests THEN @ + 1 ELSE @]
           u == [t EXCEPT !.written = clock, !.count = 0]
<1>1. /\ tracked[s] \in Tracks
      /\ clock \in Int
      /\ tracked[s].written \in Int /\ tracked[s].count \in Nat
  BY DEF StoreInv, StoreTypeOK, Tracks
<1>2. t \in Tracks /\ t.accessed = clock /\ t.written = tracked[s].written
  <2> DEFINE n == IF tracked[s].count < PersistRequests THEN tracked[s].count + 1
                  ELSE tracked[s].count
  <2>1. n \in Nat
    BY <1>1
  <2>2. t = [tracked[s] EXCEPT !.accessed = clock, !.count = n]
    OBVIOUS
  <2>3. ASSUME NEW q \in Tracks, NEW m \in Nat
        PROVE  /\ [q EXCEPT !.accessed = clock, !.count = m] \in Tracks
               /\ [q EXCEPT !.accessed = clock, !.count = m].accessed = clock
               /\ [q EXCEPT !.accessed = clock, !.count = m].written = q.written
    BY <1>1, <2>3 DEF Tracks
  <2> HIDE DEF n
  <2>4. QED
    BY <1>1, <2>1, <2>2, <2>3
<1>3. u \in Tracks /\ u.accessed = clock /\ u.written = clock
  BY <1>1 DEF Tracks
<1>4. faults' \in Nat
  BY DEF UpdateAccess, Writes, StoreInv, StoreTypeOK
<1>5. inMemory' = [inMemory EXCEPT ![s] = clock + TTL]
  BY DEF UpdateAccess
<1>6. CASE Due(t) /\ ok
  <2>1. /\ files' = [files EXCEPT ![s] = clock + TTL]
        /\ tracked' = [tracked EXCEPT ![s] = u]
        /\ dirty' = dirty \ {s}
        /\ used' = [used EXCEPT ![s] = clock]
    BY <1>6 DEF UpdateAccess
  <2>2. QED
    BY <1>3, <1>4, <1>5, <2>1
<1>7. CASE ~(Due(t) /\ ok)
  <2>1. /\ files' = files
        /\ tracked' = [tracked EXCEPT ![s] = t]
        /\ dirty' = dirty \cup {s}
        /\ used' = IF ok THEN [used EXCEPT ![s] = clock] ELSE used
    BY <1>7 DEF UpdateAccess
  <2>2. ok => clock - t.written < PersistInterval
    BY <1>1, <1>2, <1>7 DEF Due
  <2>3. QED
    BY <1>2, <1>4, <1>5, <2>1, <2>2
<1>8. QED
  BY <1>6, <1>7

(* An access keeps the invariant, also as the end of a restoration.        *)
LEMMA AccessInv ==
    ASSUME StoreInv, NEW s \in Ids, NEW ok \in BOOLEAN, UpdateAccess(s, ok),
           s \in connected \cup restoring,
           restoring' \subseteq restoring, connected' \subseteq connected \cup {s},
           restoring' \cap connected' = {},
           UNCHANGED <<clock, gone>>
    PROVE  StoreInv'
<1> USE UntrackedTyped
<1>1. inMemory[s] # Missing
  BY DEF StoreInv, MemoryHolds
<1>2. PICK t \in Tracks :
             /\ inMemory' = [inMemory EXCEPT ![s] = clock + TTL]
             /\ tracked' = [tracked EXCEPT ![s] = t]
             /\ t.accessed = clock
             /\ faults' \in Nat
             /\ \/ /\ files' = [files EXCEPT ![s] = clock + TTL]
                   /\ t.written = clock
                   /\ dirty' = dirty \ {s}
                   /\ used' = [used EXCEPT ![s] = clock]
                \/ /\ files' = files
                   /\ t.written = tracked[s].written
                   /\ dirty' = dirty \cup {s}
                   /\ \/ used' = used
                      \/ /\ used' = [used EXCEPT ![s] = clock]
                         /\ clock - t.written < PersistInterval
  BY <1>1, AccessCases
<1>3. /\ clock \in Nat \ {0} /\ t.written \in Int
      /\ inMemory \in [Ids -> Int] /\ tracked \in [Ids -> Tracks] /\ files \in [Ids -> Int]
      /\ used \in [Ids -> Int]
  BY DEF StoreInv, StoreTypeOK, Tracks
<1>4. StoreTypeOK'
  BY <1>2, <1>3 DEF StoreInv, StoreTypeOK
<1>5. MemoryHolds'
  BY <1>2, <1>3 DEF StoreInv, StoreTypeOK, MemoryHolds
<1>6. AccessesFollow'
  BY <1>2, <1>3 DEF StoreInv, StoreTypeOK, AccessesFollow
<1>7. WrittenIsStored'
  BY <1>2, <1>3 DEF StoreInv, StoreTypeOK, WrittenIsStored
<1>8. UsedIsStored'
  <2> SUFFICES ASSUME NEW r \in Ids, used'[r] # Missing
               PROVE  LET until == used'[r] + TTL - (PersistInterval - 1)
                      IN  files'[r] >= until \/ clock' > until
    BY DEF UsedIsStored
  <2>1. CASE r # s \/ used' = used
    BY <1>2, <1>3, <2>1 DEF StoreInv, StoreTypeOK, UsedIsStored
  <2>2. CASE r = s /\ files'[s] = clock + TTL /\ used'[s] = clock
    BY <1>3, <2>2
  <2>3. CASE r = s /\ used'[s] = clock /\ files' = files /\ clock - tracked[s].written < PersistInterval
    <3>1. tracked[s].written \in Int /\ tracked[s].written > clock - PersistInterval
      BY <1>3, <2>3 DEF Tracks
    <3>2. tracked[s].written # Untracked.written /\ tracked[s] # Untracked
      BY <1>3, <3>1
    <3>3. files[s] >= tracked[s].written + TTL
      BY <1>3, <3>1, <3>2 DEF StoreInv, WrittenIsStored
    <3>4. QED
      BY <1>3, <2>3, <3>1, <3>3
  <2>4. QED
    BY <1>2, <1>3, <2>1, <2>2, <2>3
<1>9. DeletedStaysGone'
  BY <1>1, <1>2, <1>3 DEF StoreInv, StoreTypeOK, DeletedStaysGone
<1>10. QED
  BY <1>4, <1>5, <1>6, <1>7, <1>8, <1>9 DEF StoreInv

(* What a flush of S leaves of the files: everything dirty is in memory, so*)
(* that nothing is found to have lapsed.                                   *)
LEMMA FlushedFiles ==
    ASSUME StoreInv, NEW time \in Nat, time >= clock, NEW S \in SUBSET ToFlush(time)
    PROVE  /\ S \subseteq dirty /\ ToFlush(time) = dirty
           /\ Flushed(S, time) \in [Ids -> Int]
           /\ \A s \in Ids : Flushed(S, time)[s] =
                 IF s \in S THEN tracked[s].accessed + TTL ELSE files[s]
           /\ \A s \in S : s \notin gone /\ tracked[s].accessed >= 1 /\ inMemory[s] # Missing
           /\ \A s \in Ids : used[s] # Missing =>
                 LET until == used[s] + TTL - (PersistInterval - 1)
                 IN  Flushed(S, time)[s] >= until \/ time > until
           /\ \A s \in gone : Flushed(S, time)[s] = Missing
<1> USE UntrackedTyped
<1>1. ToFlush(time) = dirty /\ Lapsed(time) = {} /\ S \subseteq dirty
  BY DEF ToFlush, Lapsed, StoreInv, MemoryHolds
<1>2. \A s \in Ids : tracked[s].accessed \in Int /\ files[s] \in Int /\ used[s] \in Int
  BY DEF StoreInv, StoreTypeOK, Tracks
<1>3. \A s \in Ids : Flushed(S, time)[s] =
            IF s \in S THEN tracked[s].accessed + TTL ELSE files[s]
  BY <1>1 DEF Flushed, Expiry
<1>4. Flushed(S, time) \in [Ids -> Int]
  <2>1. Flushed(S, time) = [s \in Ids |-> IF s \in S THEN tracked[s].accessed + TTL ELSE files[s]]
    BY <1>1 DEF Flushed, Expiry
  <2>2. QED
    BY <1>2, <2>1
<1>5. \A s \in S : s \notin gone /\ tracked[s].accessed >= 1 /\ inMemory[s] # Missing
  BY <1>1 DEF StoreInv, StoreTypeOK, MemoryHolds, AccessesFollow, DeletedStaysGone
<1>6. ASSUME NEW s \in Ids, used[s] # Missing
      PROVE  LET until == used[s] + TTL - (PersistInterval - 1)
             IN  Flushed(S, time)[s] >= until \/ time > until
  <2>1. CASE s \in S
    <3>1. used[s] <= tracked[s].accessed
      BY <1>1, <2>1 DEF StoreInv, AccessesFollow
    <3>2. QED
      BY <1>2, <1>3, <2>1, <3>1
  <2>2. CASE s \notin S
    <3>1. clock \in Nat
      BY DEF StoreInv, StoreTypeOK
    <3>2. QED
      BY <1>2, <1>3, <1>6, <2>2, <3>1 DEF StoreInv, UsedIsStored
  <2>3. QED
    BY <2>1, <2>2
<1>7. \A s \in gone : Flushed(S, time)[s] = Missing
  BY <1>3, <1>5 DEF StoreInv, StoreTypeOK, DeletedStaysGone
<1>8. QED
  BY <1>1, <1>3, <1>4, <1>5, <1>6, <1>7

(* The end of a process leaves the files as all there is.                  *)
LEMMA EndInv ==
    ASSUME StoreInv, ProcessEnds, clock' \in Nat, clock' >= clock, faults' \in Nat,
           files' \in [Ids -> Int], used' \in [Ids -> Int], gone' \subseteq Ids,
           \A s \in Ids : used'[s] \in {Missing, used[s]},
           UsedIsStored', \A s \in gone' : files'[s] = Missing
    PROVE  StoreInv'
<1> USE UntrackedTyped
<1>0. clock \in Nat \ {0} /\ \A s \in Ids : used[s] \in Int /\ used[s] <= clock
  BY DEF StoreInv, StoreTypeOK, AccessesFollow
<1>1. StoreTypeOK'
  BY <1>0 DEF ProcessEnds, StoreTypeOK
<1>2. MemoryHolds' /\ AccessesFollow' /\ WrittenIsStored'
  BY <1>0 DEF ProcessEnds, MemoryHolds, AccessesFollow, WrittenIsStored
<1>3. DeletedStaysGone'
  BY DEF ProcessEnds, DeletedStaysGone
<1>4. QED
  BY <1>1, <1>2, <1>3 DEF StoreInv

(* Every step of requests, flushes, cleanups, failures and restarts keeps  *)
(* StoreInv.                                                               *)
LEMMA StoreNextInv == StoreInv /\ [StoreNext]_storeVars => StoreInv'
<1> SUFFICES ASSUME StoreInv, [StoreNext]_storeVars
             PROVE  StoreInv'
  OBVIOUS
<1> USE UntrackedTyped
<1>0. /\ StoreTypeOK /\ MemoryHolds /\ AccessesFollow
      /\ WrittenIsStored /\ UsedIsStored /\ DeletedStaysGone
  BY DEF StoreInv
<1>1. ASSUME NEW s \in Ids, NEW ok \in BOOLEAN, Create(s, ok)
      PROVE  StoreInv'
  <2>1. /\ inMemory[s] = Missing /\ tracked[s] = Untracked /\ s \notin dirty
        /\ ~(files[s] >= clock)
        /\ connected' = connected \cup {s}
        /\ inMemory' = [inMemory EXCEPT ![s] = clock + TTL]
        /\ files' = [files EXCEPT ![s] = IF ok THEN clock + TTL ELSE Missing]
        /\ used' = IF ok THEN [used EXCEPT ![s] = clock] ELSE used
        /\ gone' = gone \ {s}
        /\ UNCHANGED <<clock, tracked, dirty, restoring>>
    BY <1>0, <1>1 DEF Create, Readable, MemoryHolds
  <2>2. faults' \in Nat
    BY <1>0, <1>1 DEF Create, Writes, StoreTypeOK
  <2>3. StoreTypeOK'
    BY <1>0, <2>1, <2>2 DEF StoreTypeOK
  <2>4. MemoryHolds' /\ AccessesFollow'
    BY <1>0, <2>1 DEF StoreTypeOK, MemoryHolds, AccessesFollow
  <2>5. WrittenIsStored'
    BY <1>0, <2>1 DEF StoreTypeOK, WrittenIsStored
  <2>6. UsedIsStored'
    BY <1>0, <2>1 DEF StoreTypeOK, UsedIsStored
  <2>7. DeletedStaysGone'
    BY <1>0, <2>1 DEF StoreTypeOK, DeletedStaysGone
  <2>8. QED
    BY <2>3, <2>4, <2>5, <2>6, <2>7 DEF StoreInv
<1>2. ASSUME NEW s \in Ids, NEW ok \in BOOLEAN, Use(s, ok) \/ FinishRestore(s, ok)
      PROVE  StoreInv'
  <2>1. /\ UpdateAccess(s, ok) /\ s \in connected \cup restoring
        /\ restoring' \subseteq restoring /\ connected' \subseteq connected \cup {s}
        /\ restoring' \cap connected' = {}
        /\ UNCHANGED <<clock, gone>>
    BY <1>0, <1>2 DEF Use, FinishRestore, MemoryHolds
  <2>2. QED
    BY <2>1, AccessInv
<1>3. ASSUME NEW s \in Ids, BeginRestore(s)
      PROVE  StoreInv'
  <2>1. /\ restoring' = restoring \cup {s}
        /\ s \notin connected
        /\ UNCHANGED <<clock, tracked, dirty, files, connected, faults, used, gone>>
        /\ inMemory' = [inMemory EXCEPT ![s] = IF @ = Missing THEN files[s] ELSE @]
        /\ inMemory[s] # Missing \/ files[s] >= clock
    BY <1>3 DEF BeginRestore, Readable
  <2>2. inMemory'[s] # Missing /\ inMemory'[s] \in Int /\ s \notin gone
    BY <1>0, <2>1 DEF StoreTypeOK, DeletedStaysGone
  <2>3. StoreTypeOK' /\ MemoryHolds'
    BY <1>0, <2>1, <2>2 DEF StoreTypeOK, MemoryHolds
  <2>4. AccessesFollow' /\ WrittenIsStored' /\ UsedIsStored'
    BY <1>0, <2>1 DEF AccessesFollow, WrittenIsStored, UsedIsStored
  <2>5. DeletedStaysGone'
    BY <1>0, <2>1, <2>2 DEF StoreTypeOK, DeletedStaysGone
  <2>6. QED
    BY <2>3, <2>4, <2>5 DEF StoreInv
<1>4. ASSUME NEW s \in Ids, Disconnect(s)
      PROVE  StoreInv'
  BY <1>0, <1>4
     DEF Disconnect, StoreInv, StoreTypeOK, MemoryHolds, AccessesFollow, WrittenIsStored,
         UsedIsStored, DeletedStaysGone
<1>5. ASSUME NEW s \in Ids, NEW ok \in BOOLEAN, DeleteStored(s, ok)
      PROVE  StoreInv'
  <2>1. /\ connected' = connected \ {s}
        /\ dirty' = dirty \ {s}
        /\ tracked' = [r \in Ids |-> IF r \in {s} THEN Untracked ELSE tracked[r]]
        /\ inMemory' = [r \in Ids |-> IF r \in {s} THEN Missing ELSE inMemory[r]]
        /\ files' = IF ok THEN [files EXCEPT ![s] = Missing] ELSE files
        /\ used' = [used EXCEPT ![s] = Missing]
        /\ gone' = IF ok THEN gone \cup {s} ELSE gone
        /\ UNCHANGED <<clock, restoring>>
    BY <1>5 DEF DeleteStored, Forget
  <2>2. faults' \in Nat
    BY <1>0, <1>5 DEF DeleteStored, StoreTypeOK
  <2>3. s \notin restoring
    BY <1>0, <1>5 DEF DeleteStored, MemoryHolds
  <2>4. StoreTypeOK'
    BY <1>0, <2>1, <2>2 DEF StoreTypeOK
  <2>5. MemoryHolds' /\ AccessesFollow' /\ WrittenIsStored'
    BY <1>0, <2>1, <2>3 DEF StoreTypeOK, MemoryHolds, AccessesFollow, WrittenIsStored
  <2>6. UsedIsStored' /\ DeletedStaysGone'
    BY <1>0, <2>1 DEF StoreTypeOK, UsedIsStored, DeletedStaysGone
  <2>7. QED
    BY <2>4, <2>5, <2>6 DEF StoreInv
<1>6. CASE Tick
  <2>1. /\ clock' = clock + 1 /\ UNCHANGED <<used, gone>>
        /\ clock \in Nat \ {0} /\ clock' \in Nat /\ clock' >= clock
    <3>1. clock' = clock + 1 /\ UNCHANGED <<used, gone>>
      BY <1>6, Zenon DEF Tick
    <3>2. QED
      BY <1>0, <3>1 DEF StoreTypeOK
  <2>2. CASE \E failed \in ToFlush(clock') :
               \E S \in SUBSET (ToFlush(clock') \ (Foreign \cup {failed})) :
                 /\ Writes(failed, FALSE)
                 /\ files' = Flushed(S, clock')
                 /\ ProcessEnds
    <3>1. PICK S \in SUBSET ToFlush(clock') : files' = Flushed(S, clock') /\ ProcessEnds
      BY <2>2
    <3>2. faults' \in Nat
      BY <1>0, <2>2 DEF Writes, StoreTypeOK
    <3>3. UsedIsStored' /\ files' \in [Ids -> Int] /\ \A s \in gone : files'[s] = Missing
      BY <2>1, <3>1, FlushedFiles DEF UsedIsStored
    <3>4. used \in [Ids -> Int] /\ gone \subseteq Ids
      BY <1>0 DEF StoreTypeOK
    <3>5. QED
      BY <2>1, <3>1, <3>2, <3>3, <3>4, EndInv
  <2>3. CASE LET due == ToFlush(clock')
             IN  /\ files' = Flushed(due, clock')
                 /\ tracked' = [s \in Ids |->
                        IF s \in due
                        THEN [tracked[s] EXCEPT !.written = tracked[s].accessed, !.count = 0]
                        ELSE tracked[s]]
                 /\ inMemory' = Expiry({s \in due : inMemory[s] # Missing}, inMemory)
                 /\ dirty' = dirty \ due
                 /\ UNCHANGED <<connected, restoring, faults>>
    <3> DEFINE due == ToFlush(clock')
    <3>0. /\ files' = Flushed(due, clock')
          /\ inMemory' = Expiry({s \in due : inMemory[s] # Missing}, inMemory)
          /\ dirty' = dirty \ due
          /\ UNCHANGED <<connected, restoring, faults>>
      BY <2>3
    <3>1. /\ due = dirty
          /\ files' \in [Ids -> Int]
          /\ \A s \in Ids : files'[s] = IF s \in dirty THEN tracked[s].accessed + TTL ELSE files[s]
          /\ \A s \in dirty : s \notin gone /\ tracked[s].accessed >= 1 /\ inMemory[s] # Missing
          /\ \A s \in gone : files'[s] = Missing
          /\ UsedIsStored'
      <4> HIDE DEF due
      <4>1. due \in SUBSET ToFlush(clock')
        BY DEF due
      <4>2. /\ ToFlush(clock') = dirty
            /\ Flushed(due, clock') \in [Ids -> Int]
            /\ \A s \in Ids : Flushed(due, clock')[s] =
                  IF s \in due THEN tracked[s].accessed + TTL ELSE files[s]
            /\ \A s \in due : s \notin gone /\ tracked[s].accessed >= 1 /\ inMemory[s] # Missing
            /\ \A s \in Ids : used[s] # Missing =>
                  LET until == used[s] + TTL - (PersistInterval - 1)
                  IN  Flushed(due, clock')[s] >= until \/ clock' > until
            /\ \A s \in gone : Flushed(due, clock')[s] = Missing
        BY <2>1, <4>1, FlushedFiles
      <4>3. due = dirty
        BY <4>2 DEF due
      <4>4. UsedIsStored'
        BY <2>1, <3>0, <4>2 DEF UsedIsStored
      <4>5. QED
        BY <3>0, <4>2, <4>3, <4>4
    <3>2. dirty' = {} /\ UNCHANGED <<connected, restoring, faults>>
      BY <3>0, <3>1
    <3>3. inMemory' = [s \in Ids |-> IF s \in dirty THEN tracked[s].accessed + TTL ELSE inMemory[s]]
      BY <3>0, <3>1 DEF Expiry
    <3>4. \A s \in Ids : tracked[s].accessed \in Int /\ tracked[s].written \in Int
      BY <1>0 DEF StoreTypeOK, Tracks
    <3>5. /\ tracked' \in [Ids -> Tracks]
          /\ \A s \in Ids \ dirty : tracked'[s] = tracked[s]
          /\ \A s \in dirty : tracked'[s].written = tracked[s].accessed
      <4> DEFINE Rewritten(q) == [q EXCEPT !.written = q.accessed, !.count = 0]
      <4>1. ASSUME NEW q \in Tracks
            PROVE  Rewritten(q) \in Tracks /\ Rewritten(q).written = q.accessed
        BY <4>1 DEF Tracks
      <4>2. tracked' = [s \in Ids |-> IF s \in dirty THEN Rewritten(tracked[s]) ELSE tracked[s]]
        BY <2>3, <3>1
      <4> HIDE DEF Rewritten
      <4>3. QED
        BY <1>0, <4>1, <4>2 DEF StoreTypeOK
    <3>7. StoreTypeOK'
      BY <1>0, <2>1, <3>1, <3>2, <3>3, <3>4, <3>5 DEF StoreTypeOK
    <3>8. MemoryHolds'
      BY <1>0, <3>1, <3>2, <3>3, <3>4, <3>5 DEF StoreTypeOK, MemoryHolds
    <3>9. AccessesFollow'
      BY <1>0, <2>1, <3>2 DEF StoreTypeOK, AccessesFollow
    <3>10. WrittenIsStored'
      BY <1>0, <2>1, <3>1, <3>4, <3>5 DEF StoreTypeOK, WrittenIsStored
    <3>11. DeletedStaysGone'
      BY <1>0, <2>1, <3>1, <3>3 DEF StoreTypeOK, DeletedStaysGone
    <3>12. QED
      BY <3>1, <3>7, <3>8, <3>9, <3>10, <3>11 DEF StoreInv
  <2>4. QED
    BY <1>6, <2>2, <2>3 DEF Tick
<1>7. CASE Cleanup
  <2>1. /\ files' = [s \in Ids |-> IF files[s] >= clock THEN files[s] ELSE Missing]
        /\ UNCHANGED <<clock, processVars, faults, used, gone>>
    BY <1>7 DEF Cleanup, Readable
  <2>2. StoreTypeOK' /\ MemoryHolds' /\ AccessesFollow'
    BY <1>0, <2>1 DEF StoreTypeOK, MemoryHolds, AccessesFollow, processVars
  <2>3. WrittenIsStored'
    BY <1>0, <2>1 DEF StoreTypeOK, WrittenIsStored, processVars, Tracks
  <2>4. UsedIsStored' /\ DeletedStaysGone'
    BY <1>0, <2>1 DEF StoreTypeOK, UsedIsStored, DeletedStaysGone, processVars
  <2>5. QED
    BY <2>2, <2>3, <2>4 DEF StoreInv
<1>8. CASE Crash
  <2>1. ProcessEnds /\ UNCHANGED <<clock, files, faults, used, gone>>
    BY <1>8 DEF Crash
  <2>2. UsedIsStored' /\ \A s \in gone : files[s] = Missing
    BY <1>0, <2>1 DEF UsedIsStored, DeletedStaysGone
  <2>3. QED
    BY <1>0, <2>1, <2>2, EndInv DEF StoreTypeOK
<1>9. CASE Shutdown
  <2>1. PICK S \in SUBSET ToFlush(clock) :
            files' = [s \in Ids |-> IF s \in connected THEN Missing ELSE Flushed(S, clock)[s]]
    BY <1>9 DEF Shutdown
  <2>2. /\ used' = [s \in Ids |-> IF s \in connected THEN Missing ELSE used[s]]
        /\ gone' = gone \cup connected
        /\ ProcessEnds /\ UNCHANGED <<clock, faults>>
    BY <1>9 DEF Shutdown
  <2>3. clock \in Nat /\ clock >= clock /\ used \in [Ids -> Int] /\ gone \subseteq Ids
          /\ connected \subseteq Ids /\ faults \in Nat
    BY <1>0 DEF StoreTypeOK
  <2>4. /\ Flushed(S, clock) \in [Ids -> Int]
        /\ \A s \in Ids : used[s] # Missing =>
              LET until == used[s] + TTL - (PersistInterval - 1)
              IN  Flushed(S, clock)[s] >= until \/ clock > until
        /\ \A s \in gone : Flushed(S, clock)[s] = Missing
    BY <2>3, FlushedFiles
  <2>5. /\ files' \in [Ids -> Int]
        /\ \A s \in gone' : files'[s] = Missing
        /\ used' \in [Ids -> Int] /\ gone' \subseteq Ids
        /\ \A s \in Ids : used'[s] \in {Missing, used[s]}
    BY <2>1, <2>2, <2>3, <2>4
  <2>6. UsedIsStored'
    BY <2>1, <2>2, <2>4 DEF UsedIsStored
  <2>7. QED
    BY <2>2, <2>3, <2>5, <2>6, EndInv
<1>10. CASE UNCHANGED storeVars
  BY <1>0, <1>10
     DEF storeVars, processVars, StoreInv, StoreTypeOK, MemoryHolds, AccessesFollow,
         WrittenIsStored, UsedIsStored, DeletedStaysGone
<1>11. QED
  BY <1>1, <1>2, <1>3, <1>4, <1>5, <1>6, <1>7, <1>8, <1>9, <1>10 DEF StoreNext

(* StoreInv holds at all times.                                            *)
THEOREM StoreInvariant == StoreSpec => []StoreInv
BY StoreInitInv, StoreNextInv, PTL DEF StoreSpec

(* For any sessions and times to live: a session that is in use is stored, *)
(* and one that was deleted stays gone whatever flush, late access or      *)
(* restoration is under way.                                               *)
THEOREM StoreStaysFaithful == StoreSpec => []StoreIsFaithful
<1>1. StoreInv => StoreIsFaithful
  BY DEF StoreInv, StoreIsFaithful
<1>2. QED
  BY <1>1, StoreInvariant, PTL

-----------------------------------------------------------------------------
(* What a session is set up with when it connects.                         *)

(* A template of a session before it is rendered, and after.               *)
Known == Contexts \cup {NoContext}
Renderings == [FileTemplates -> [version : Nat, context : Known]]
Stages == {"away", "first", "rendered", "read", "connecting", "served"}

(* What the setup's state is made of.                                      *)
SetupTypeOK ==
    /\ written \in [FileTemplates -> Nat]
    /\ readable \in BOOLEAN /\ caching \in BOOLEAN /\ loaded \in BOOLEAN
    /\ edits \in Nat
    /\ cache \in [context : Known, templates : Renderings]
    /\ shared \in Renderings
    /\ came \in [Guests -> Known]
    /\ stage \in [Guests -> Stages]
    /\ result \in [Guests -> Renderings]
    /\ given \in [Guests -> Renderings]
    /\ told \in [Guests -> [Described -> Nat]]
    /\ entry \in [Described -> {"absent", "connected", "down", "failed"}]
    /\ link \in [Described -> Nat]
    /\ links \in [Described -> Nat]
    /\ open \in [Described -> SUBSET Nat]
    /\ speaks \in [Described -> SUBSET Nat]
    /\ text \in [Described -> Nat]

(* Every template of r is rendered for context x, or there is none.        *)
RenderedFor(r, x) == \A t \in FileTemplates : r[t].version # 0 => r[t].context = x

(* What a session has from the configuration is of its own context until it*)
(* has taken it, and before that its instances have no template.           *)
ResultIsOwn ==
    \A c \in Guests :
        /\ stage[c] \in {"rendered", "read"} => RenderedFor(result[c], came[c])
        /\ stage[c] \in {"away", "first", "rendered", "read"} => given[c] = Nothing

(* Only the latest connection of a server can be shown connected.          *)
ConnectedIsLatest == \A s \in Described : entry[s] = "connected" => link[s] = links[s]

SetupInv ==
    /\ SetupTypeOK
    /\ ResultIsOwn
    /\ OwnRendering
    /\ CacheIsOfItsContext
    /\ TextIsOfLatest
    /\ ConnectedIsLatest

(* Nothing is a rendering for any context.                                 *)
LEMMA NothingRenders ==
    /\ Nothing \in Renderings
    /\ \A x : RenderedFor(Nothing, x)
    /\ \A t \in FileTemplates : Nothing[t].version = 0
BY DEF Nothing, Renderings, RenderedFor, Known

(* SetupInv holds before any session.                                      *)
LEMMA SetupInitInv == SetupInit => SetupInv
<1> SUFFICES ASSUME SetupInit PROVE SetupInv
  OBVIOUS
<1> USE DEF SetupInit
<1>1. SetupTypeOK
  BY NothingRenders DEF SetupTypeOK, Silent, Stages, Known
<1>2. ResultIsOwn /\ OwnRendering /\ CacheIsOfItsContext
  BY NothingRenders DEF ResultIsOwn, OwnRendering, CacheIsOfItsContext
<1>3. TextIsOfLatest /\ ConnectedIsLatest
  BY DEF TextIsOfLatest, ConnectedIsLatest, Silent
<1>4. QED
  BY <1>1, <1>2, <1>3 DEF SetupInv

(* What a session that comes with a context reads is rendered for it: what *)
(* is rendered is, and so is what the cache holds for it.                  *)
LEMMA ReadsOwn ==
    ASSUME SetupInv, NEW c \in Guests, NEW x \in Known, Goes(c, x)
    PROVE  /\ result' \in [Guests -> Renderings]
           /\ stage' \in [Guests -> Stages]
           /\ \A d \in Guests \ {c} : result'[d] = result[d] /\ stage'[d] = stage[d]
           /\ stage'[c] \in {"rendered", "read"} => RenderedFor(result'[c], x)
           /\ stage'[c] \in {"rendered", "read", "connecting"}
<1>1. CASE x = NoContext
  BY <1>1 DEF Goes, SetupInv, SetupTypeOK, Stages
<1>2. CASE x # NoContext
  <2>1. Reads(c, x)
    BY <1>2 DEF Goes
  <2>2. Rendered(x) \in Renderings /\ RenderedFor(Rendered(x), x)
    BY NothingRenders
       DEF Rendered, RenderTemplate, Renderings, RenderedFor, SetupInv, SetupTypeOK
  <2>3. CacheHit(x) => cache.templates \in Renderings /\ RenderedFor(cache.templates, x)
    BY DEF CacheHit, RenderedFor, SetupInv, SetupTypeOK, CacheIsOfItsContext
  <2>4. PICK r \in Renderings :
            /\ RenderedFor(r, x)
            /\ result' = [result EXCEPT ![c] = r]
    BY <2>1, <2>2, <2>3, NothingRenders DEF Reads
  <2>5. \E s \in {"read", "rendered"} : stage' = [stage EXCEPT ![c] = s]
    BY <2>1 DEF Reads
  <2>6. QED
    BY <2>4, <2>5 DEF SetupInv, SetupTypeOK, Stages
<1>3. QED
  BY <1>1, <1>2

(* What sessions are told of the servers is a text of each or none.        *)
LEMMA InstructionsTyped ==
    SetupTypeOK => Instructions \in [Described -> Nat]
BY DEF SetupTypeOK, Instructions, Variables

(* Every step of sessions, of the configuration and of the servers keeps   *)
(* SetupInv.                                                               *)
LEMMA SetupNextInv == SetupInv /\ [SetupNext]_setupVars => SetupInv'
<1> SUFFICES ASSUME SetupInv, [SetupNext]_setupVars
             PROVE  SetupInv'
  OBVIOUS
<1> USE DEF SetupInv
<1>1. ASSUME NEW c \in Guests, NEW x \in Known, Arrives(c, x)
      PROVE  SetupInv'
  <2>1. /\ came' = [came EXCEPT ![c] = x]
        /\ told' = [told EXCEPT ![c] = Instructions]
        /\ stage[c] = "away"
        /\ UNCHANGED <<sharedVars, given, textVars>>
    BY <1>1 DEF Arrives
  <2>2. /\ result' \in [Guests -> Renderings]
        /\ stage' \in [Guests -> Stages]
        /\ \A d \in Guests \ {c} : result'[d] = result[d] /\ stage'[d] = stage[d]
        /\ stage'[c] \in {"rendered", "read"} => RenderedFor(result'[c], x)
    <3>1. CASE loaded
      BY <1>1, <3>1, ReadsOwn DEF Arrives
    <3>2. CASE ~loaded
      BY <1>1, <3>2 DEF Arrives, SetupTypeOK, Stages
    <3>3. QED
      BY <3>1, <3>2
  <2>3. SetupTypeOK'
    BY <2>1, <2>2, InstructionsTyped DEF SetupTypeOK, sharedVars, textVars
  <2>4. ResultIsOwn' /\ OwnRendering'
    BY <2>1, <2>2, NothingRenders DEF ResultIsOwn, OwnRendering, SetupTypeOK, sharedVars
  <2>5. CacheIsOfItsContext' /\ TextIsOfLatest' /\ ConnectedIsLatest'
    BY <2>1 DEF CacheIsOfItsContext, TextIsOfLatest, ConnectedIsLatest, sharedVars, textVars
  <2>6. QED
    BY <2>3, <2>4, <2>5
<1>2. ASSUME NEW c \in Guests, FirstLoad(c)
      PROVE  SetupInv'
  <2>1. /\ Goes(c, came[c])
        /\ stage[c] = "first"
        /\ loaded' = TRUE /\ shared' = Nothing
        /\ UNCHANGED <<written, readable, caching, edits, cache, came, given, told, textVars>>
    BY <1>2 DEF FirstLoad
  <2>2. came[c] \in Known
    BY DEF SetupTypeOK
  <2>3. /\ result' \in [Guests -> Renderings]
        /\ stage' \in [Guests -> Stages]
        /\ \A d \in Guests \ {c} : result'[d] = result[d] /\ stage'[d] = stage[d]
        /\ stage'[c] \in {"rendered", "read"} => RenderedFor(result'[c], came[c])
    BY <2>1, <2>2, ReadsOwn
  <2>4. SetupTypeOK'
    BY <2>1, <2>3, NothingRenders DEF SetupTypeOK, textVars
  <2>5. ResultIsOwn' /\ OwnRendering'
    BY <2>1, <2>3 DEF ResultIsOwn, OwnRendering
  <2>6. CacheIsOfItsContext' /\ TextIsOfLatest' /\ ConnectedIsLatest'
    BY <2>1 DEF CacheIsOfItsContext, TextIsOfLatest, ConnectedIsLatest, textVars
  <2>7. QED
    BY <2>4, <2>5, <2>6
<1>3. ASSUME NEW c \in Guests, Processed(c)
      PROVE  SetupInv'
  <2>1. SetupTypeOK'
    BY <1>3 DEF Processed, SetupTypeOK, Stages, textVars
  <2>2. ResultIsOwn' /\ OwnRendering' /\ TextIsOfLatest' /\ ConnectedIsLatest'
    BY <1>3 DEF Processed, ResultIsOwn, OwnRendering, TextIsOfLatest, ConnectedIsLatest,
                SetupTypeOK, textVars
  <2>3. CacheIsOfItsContext'
    BY <1>3 DEF Processed, ResultIsOwn, CacheIsOfItsContext, RenderedFor, SetupTypeOK
  <2>4. QED
    BY <2>1, <2>2, <2>3
<1>4. ASSUME NEW c \in Guests, Takes(c)
      PROVE  SetupInv'
  <2> DEFINE taken == [t \in FileTemplates |-> IF t \in Wanted[c] THEN result[c][t] ELSE Nothing[t]]
  <2>1. given' = [given EXCEPT ![c] = taken]
    BY <1>4 DEF Takes
  <2>2. taken \in Renderings
    BY NothingRenders DEF SetupTypeOK, Renderings
  <2>3. SetupTypeOK'
    BY <1>4, <2>1, <2>2 DEF Takes, SetupTypeOK, Stages, textVars
  <2>4. OwnRendering'
    <3>1. \A t \in FileTemplates : taken[t].version # 0 => taken[t].context = came[c] /\ t \in Wanted[c]
      BY <1>4, NothingRenders DEF Takes, ResultIsOwn, RenderedFor
    <3>2. QED
      BY <1>4, <2>1, <3>1 DEF Takes, OwnRendering, SetupTypeOK
  <2>5. ResultIsOwn' /\ CacheIsOfItsContext' /\ TextIsOfLatest' /\ ConnectedIsLatest'
    BY <1>4 DEF Takes, ResultIsOwn, CacheIsOfItsContext, TextIsOfLatest, ConnectedIsLatest,
                SetupTypeOK, textVars
  <2>6. QED
    BY <2>3, <2>4, <2>5
<1>5. ASSUME NEW c \in Guests, Served(c) \/ Leaves(c)
      PROVE  SetupInv'
  <2>1. UNCHANGED <<sharedVars, textVars>>
    BY <1>5 DEF Served, Leaves
  <2>2. ASSUME Served(c)
        PROVE  SetupTypeOK' /\ ResultIsOwn' /\ OwnRendering'
    <3>1. SetupTypeOK'
      BY <2>1, <2>2 DEF Served, SetupTypeOK, Stages, sharedVars, textVars
    <3>2. ResultIsOwn' /\ OwnRendering'
      BY <2>2 DEF Served, ResultIsOwn, OwnRendering, SetupTypeOK
    <3>3. QED
      BY <3>1, <3>2
  <2>3. ASSUME Leaves(c)
        PROVE  SetupTypeOK' /\ ResultIsOwn' /\ OwnRendering'
    <3>1. NoContext \in Known /\ Silent \in [Described -> Nat]
      BY DEF Known, Silent
    <3>2. SetupTypeOK'
      BY <2>1, <2>3, <3>1, NothingRenders
         DEF Leaves, SetupTypeOK, Stages, sharedVars, textVars
    <3>3. ResultIsOwn' /\ OwnRendering'
      BY <2>3, NothingRenders DEF Leaves, ResultIsOwn, OwnRendering, SetupTypeOK
    <3>4. QED
      BY <3>2, <3>3
  <2>4. CacheIsOfItsContext' /\ TextIsOfLatest' /\ ConnectedIsLatest'
    BY <2>1 DEF CacheIsOfItsContext, TextIsOfLatest, ConnectedIsLatest, sharedVars, textVars
  <2>5. SetupTypeOK' /\ ResultIsOwn' /\ OwnRendering'
    BY <1>5, <2>2, <2>3 DEF SetupInv
  <2>6. QED
    BY <2>4, <2>5
<1>6. ASSUME FileNext
      PROVE  SetupInv'
  <2>1. SetupTypeOK'
    <3>1. ASSUME NEW t \in FileTemplates, NEW v \in 0 .. MaxEdits + 1, Edits(t, v)
          PROVE  SetupTypeOK'
      <4>1. v \in Nat
        BY SetupConstants
      <4>2. QED
        BY <3>1, <4>1 DEF Edits, SetupTypeOK, guestVars, textVars
    <3>2. ASSUME Breaks \/ Uncaches
          PROVE  SetupTypeOK'
      <4>1. edits' \in Nat
        BY <3>2 DEF Breaks, Uncaches, SetupTypeOK
      <4>2. readable' \in BOOLEAN /\ caching' \in BOOLEAN
        BY <3>2 DEF Breaks, Uncaches, SetupTypeOK
      <4>3. UNCHANGED <<written, cache, loaded, shared, guestVars, textVars>>
        BY <3>2 DEF Breaks, Uncaches
      <4>4. QED
        BY <4>1, <4>2, <4>3 DEF SetupTypeOK, guestVars, textVars
    <3>3. QED
      BY <1>6, <3>1, <3>2 DEF FileNext
  <2>2. UNCHANGED <<cache, guestVars, textVars>>
    BY <1>6 DEF FileNext, Breaks, Uncaches, Edits
  <2>3. QED
    BY <2>1, <2>2
       DEF ResultIsOwn, OwnRendering, CacheIsOfItsContext, TextIsOfLatest, ConnectedIsLatest,
           guestVars, textVars
<1>7. ASSUME TextNext
      PROVE  SetupInv'
  <2>1. UNCHANGED <<sharedVars, guestVars>>
    BY <1>7 DEF TextNext, Connects, ConnectFails, Clears, Stops, RestartsOAuth, Removes,
                AwaitsOAuth, Closes
  <2> DEFINE Texts == /\ entry \in [Described -> {"absent", "connected", "down", "failed"}]
                      /\ link \in [Described -> Nat] /\ links \in [Described -> Nat]
                      /\ open \in [Described -> SUBSET Nat]
                      /\ speaks \in [Described -> SUBSET Nat] /\ text \in [Described -> Nat]
                      /\ TextIsOfLatest /\ ConnectedIsLatest
  <2>2. Texts
    BY DEF SetupTypeOK
  <2>3. ASSUME NEW s \in Described, NEW b \in BOOLEAN, Connects(s, b)
        PROVE  Texts'
    <3> DEFINE i == links[s] + 1
    <3>1. i \in Nat \ {0} /\ links[s] \in Nat
      BY <2>2
    <3>2. /\ text' = [text EXCEPT ![s] = IF b THEN i ELSE 0]
          /\ links' = [links EXCEPT ![s] = i] /\ link' = [link EXCEPT ![s] = i]
          /\ entry' = [entry EXCEPT ![s] = "connected"]
          /\ open' = [open EXCEPT ![s] = @ \cup {i}]
          /\ speaks' = [speaks EXCEPT ![s] = IF b THEN @ \cup {i} ELSE @]
      BY <2>3 DEF Connects, SetInstructions
    <3> HIDE DEF i
    <3>3. TextIsOfLatest' /\ ConnectedIsLatest'
      BY <2>2, <3>1, <3>2 DEF TextIsOfLatest, ConnectedIsLatest
    <3>4. QED
      BY <2>2, <3>1, <3>2, <3>3
  <2>4. ASSUME NEW s \in Described, NEW b \in BOOLEAN, Removes(s, b)
        PROVE  Texts'
    BY <2>2, <2>4 DEF Removes, RemoveServer, TextIsOfLatest, ConnectedIsLatest
  <2>5. ASSUME NEW s \in Described, ConnectFails(s) \/ Stops(s) \/ RestartsOAuth(s)
        PROVE  Texts'
    BY <2>2, <2>5 DEF ConnectFails, Stops, RestartsOAuth, TextIsOfLatest, ConnectedIsLatest
  <2>6. ASSUME NEW s \in Described, AwaitsOAuth(s) \/ \E i \in open[s] : Closes(s, i)
        PROVE  Texts'
    <3>1. /\ entry' = [entry EXCEPT ![s] = IF @ = "absent" THEN @ ELSE "down"]
          /\ text' = [text EXCEPT ![s] = 0]
          /\ UNCHANGED <<link, links, speaks>>
      BY <2>6 DEF AwaitsOAuth, Closes, MarksDown, RemoveServer
    <3>2. /\ open' \in [Described -> SUBSET Nat]
          /\ \A d \in Described \ {s} : open'[d] = open[d]
      BY <2>2, <2>6 DEF AwaitsOAuth, Closes
    <3>3. /\ entry' \in [Described -> {"absent", "connected", "down", "failed"}]
          /\ text' \in [Described -> Nat]
          /\ entry'[s] # "connected" /\ text'[s] = 0
          /\ \A d \in Described \ {s} : entry'[d] = entry[d] /\ text'[d] = text[d]
      BY <2>2, <3>1
    <3>4. TextIsOfLatest'
      BY <2>2, <3>1, <3>2, <3>3 DEF TextIsOfLatest
    <3>5. ConnectedIsLatest'
      BY <2>2, <3>1, <3>3 DEF ConnectedIsLatest
    <3>6. QED
      BY <2>2, <3>1, <3>2, <3>3, <3>4, <3>5
  <2>7. ASSUME Clears
        PROVE  Texts'
    <3>1. /\ entry' = [s \in Described |-> "absent"] /\ link' = [s \in Described |-> 0]
          /\ UNCHANGED <<links, open, speaks, text>>
      BY <2>7 DEF Clears, Silent
    <3>2. TextIsOfLatest'
      BY <2>2, <3>1 DEF TextIsOfLatest
    <3>3. ConnectedIsLatest'
      BY <3>1 DEF ConnectedIsLatest
    <3>4. QED
      BY <2>2, <3>1, <3>2, <3>3
  <2>8. Texts'
    BY <1>7, <2>3, <2>4, <2>5, <2>6, <2>7 DEF TextNext
  <2>9. QED
    BY <2>1, <2>8
       DEF SetupTypeOK, ResultIsOwn, OwnRendering, CacheIsOfItsContext, sharedVars, guestVars
<1>8. CASE UNCHANGED setupVars
  BY <1>8 DEF setupVars, sharedVars, guestVars, textVars, SetupTypeOK, ResultIsOwn, OwnRendering,
              CacheIsOfItsContext, TextIsOfLatest, ConnectedIsLatest
<1>9. QED
  <2>1. \A c \in Guests : {ContextOf[c], NoContext} \subseteq Known
    BY SetupConstants DEF Known
  <2>2. QED
    BY <1>1, <1>2, <1>3, <1>4, <1>5, <1>6, <1>7, <1>8, <2>1 DEF SetupNext, GuestNext

(* SetupInv holds at all times.                                            *)
THEOREM SetupInvariant == SetupSpec => []SetupInv
BY SetupInitInv, SetupNextInv, PTL DEF SetupSpec

(* For any sessions and contexts, overlapping as they may: a session gets  *)
(* templates rendered with its own context, the cache of renderings is of  *)
(* the context it names, and the text kept for a server is of its latest   *)
(* connection.                                                             *)
THEOREM SetupStaysOwn == SetupSpec => []SetupIsOwn
<1>1. SetupInv => SetupIsOwn
  BY DEF SetupInv, SetupIsOwn
<1>2. QED
  BY <1>1, SetupInvariant, PTL
=============================================================================
