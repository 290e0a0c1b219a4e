---------------------------- MODULE Pools_proofs ----------------------------
(***************************************************************************)
(* Proofs about pooled instances: the pool under clients that use it as    *)
(* intended, and the template servers of sessions, whose manager uses the  *)
(* pool together with the tracker and tables of its own.  The two parts are*)
(* of different callers of one pool; each has an inductive invariant of its*)
(* own.                                                                    *)
(***************************************************************************)
EXTENDS PoolClients, TemplateServers, FiniteSetTheorems, TLAPS

-----------------------------------------------------------------------------
(***************************************************************************)
(* What every operation of the pool keeps, whoever calls it.  PoolInv is   *)
(* inductive over the pool's actions; the modules that compose the pool    *)
(* with callers use the lemmas at the end, one per action.                 *)
(***************************************************************************)

(* Instance id is stored under key k, or a removal of it under k is        *)
(* suspended in close().                                                   *)
Names(k, id) == \/ k \in DOMAIN instances /\ instances[k] = id
                \/ <<k, id>> \in closing

(* An instance never has two keys: so the removal of one key cannot close  *)
(* an instance that is stored under another.                               *)
KeyIsUnique ==
    \A k, l \in Keys, id \in DOMAIN pooled :
        Names(k, id) /\ Names(l, id) => k = l

(* A removal goes on under a key of its instance's template, which is the  *)
(* index it will edit.                                                     *)
ClosingFits ==
    \A k \in Keys, id \in DOMAIN pooled :
        <<k, id>> \in closing => pooled[id].template = k.template

(* Under a client's own key is an instance of that client only.            *)
OwnersOnly ==
    \A k \in DOMAIN instances :
        k.owner \in Clients => pooled[instances[k]].clientIds \subseteq {k.owner}

Unshared(t) == t \notin Shareable \/ t \in PerClient

(* CountsFitStatus and NoUnwantedSharing of one instance. *)
Consistent(inst) ==
    /\ inst \in Instance
    /\ inst.referenceCount <= Cardinality(inst.clientIds)
    /\ inst.status = "active" => inst.referenceCount > 0
    /\ inst.status = "idle" => inst.referenceCount = 0
    /\ Unshared(inst.template) => \A a, b \in inst.clientIds : a = b

(* What an update of a stored instance leaves as it is. *)
SameInstance(new, old) ==
    /\ new.template = old.template
    /\ new.hash = old.hash
    /\ new.closed = old.closed

PoolInv ==
    /\ PoolTypeOK
    /\ IndexMatchesInstances
    /\ StoredInstanceFits
    /\ KeyIsUnique
    /\ ClosingFits
    /\ OwnersOnly
    /\ \A i \in DOMAIN pooled : Consistent(pooled[i])

-----------------------------------------------------------------------------
(* Sets of clients and their sizes. *)
LEMMA ClientSets ==
    ASSUME NEW S \in SUBSET Clients, NEW c \in Clients
    PROVE  /\ Cardinality(S) \in Nat
           /\ c \notin S => Cardinality(S \cup {c}) = Cardinality(S) + 1
           /\ c \in S => Cardinality(S \ {c}) = Cardinality(S) - 1
           /\ c \notin S => S \ {c} = S
<1>1. IsFiniteSet(S)
  BY PoolConstants, FS_Subset
<1>2. Cardinality(S) \in Nat
  BY <1>1, FS_CardinalityType
<1>3. c \notin S => Cardinality(S \cup {c}) = Cardinality(S) + 1
  BY <1>1, FS_AddElement
<1>4. c \in S => Cardinality(S \ {c}) = Cardinality(S) - 1
  BY <1>1, FS_RemoveElement
<1>5. QED
  BY <1>2, <1>3, <1>4

(* The key of a call is one of the pool's keys; it has the client as owner *)
(* for a perClient template.                                               *)
LEMMA KeyFacts ==
    ASSUME NEW c \in Clients, NEW t \in Templates, NEW h \in Hashes
    PROVE  /\ Key(t, h, c) \in Keys
           /\ Key(t, h, c).template = t
           /\ Key(t, h, c).hash = h
           /\ t \in PerClient => Key(t, h, c).owner = c
           /\ Key(t, h, c).owner \in Clients => Key(t, h, c).owner = c
BY PoolConstants DEF Key, Keys

(* addClientToInstance keeps an instance consistent if it may be shared    *)
(* with the client.                                                        *)
LEMMA AddKeeps ==
    ASSUME NEW inst, Consistent(inst), NEW c \in Clients,
           inst.template \in Shareable,
           inst.template \in PerClient => inst.clientIds \subseteq {c}
    PROVE  /\ Consistent(AddClient(inst, c))
           /\ SameInstance(AddClient(inst, c), inst)
           /\ AddClient(inst, c).clientIds = inst.clientIds \cup {c}
<1>1. CASE c \in inst.clientIds
  <2>1. inst.clientIds \cup {c} = inst.clientIds
    BY <1>1
  <2>2. QED
    BY <1>1, <2>1 DEF AddClient, SameInstance
<1>2. CASE c \notin inst.clientIds
  <2> DEFINE new == AddClient(inst, c)
  <2>1. inst \in Instance /\ inst.clientIds \in SUBSET Clients
    BY DEF Consistent, Instance
  <2>2. new = [template |-> inst.template, hash |-> inst.hash,
               referenceCount |-> inst.referenceCount + 1,
               clientIds |-> inst.clientIds \cup {c},
               status |-> "active", expired |-> FALSE, closed |-> inst.closed]
    BY <1>2, <2>1 DEF AddClient, Instance
  <2>3. /\ new \in Instance
        /\ new.clientIds = inst.clientIds \cup {c}
        /\ new.referenceCount = inst.referenceCount + 1
        /\ new.status = "active"
        /\ SameInstance(new, inst)
    BY <2>1, <2>2 DEF Instance, SameInstance
  <2>4. new.referenceCount <= Cardinality(new.clientIds)
    BY <1>2, <2>1, <2>3, ClientSets DEF Consistent, Instance
  <2>5. Unshared(new.template) => \A a, b \in new.clientIds : a = b
    BY <2>3 DEF Unshared, SameInstance
  <2>6. QED
    BY <2>1, <2>3, <2>4, <2>5 DEF Consistent, Instance
<1>3. QED
  BY <1>1, <1>2

(* removeClientFromInstance keeps an instance consistent, also when the    *)
(* client is not one of the instance's.                                    *)
LEMMA DropKeeps ==
    ASSUME NEW inst, Consistent(inst), NEW c \in Clients
    PROVE  /\ Consistent(DropClient(inst, c))
           /\ SameInstance(DropClient(inst, c), inst)
           /\ DropClient(inst, c).clientIds = inst.clientIds \ {c}
<1> DEFINE new == DropClient(inst, c)
           left == IF inst.referenceCount > 0 THEN inst.referenceCount - 1 ELSE 0
<1>1. inst \in Instance /\ inst.clientIds \in SUBSET Clients /\ inst.referenceCount \in Nat
  BY DEF Consistent, Instance
<1> DEFINE form == [inst EXCEPT !.clientIds = @ \ {c},
                               !.referenceCount = left,
                               !.status = IF left = 0 THEN "idle" ELSE @,
                               !.expired = IF left = 0 THEN FALSE ELSE @]
<1>0. new = form
  BY DEF DropClient
<1>2. /\ new \in Instance
      /\ new.clientIds = inst.clientIds \ {c}
      /\ new.referenceCount = left
      /\ new.status = IF left = 0 THEN "idle" ELSE inst.status
      /\ SameInstance(new, inst)
  <2>1. CASE inst.referenceCount <= 1
    <3>1. left = 0
      BY <1>1, <2>1
    <3> HIDE DEF left, new
    <3>2. new = [template |-> inst.template, hash |-> inst.hash,
                 referenceCount |-> 0, clientIds |-> inst.clientIds \ {c},
                 status |-> "idle", expired |-> FALSE, closed |-> inst.closed]
      BY <1>0, <1>1, <3>1 DEF Instance
    <3>3. QED
      BY <1>1, <3>1, <3>2 DEF Instance, SameInstance
  <2>2. CASE inst.referenceCount > 1
    <3>1. left = inst.referenceCount - 1 /\ left # 0 /\ left \in Nat
      BY <1>1, <2>2
    <3> HIDE DEF left, new
    <3>2. new = [template |-> inst.template, hash |-> inst.hash,
                 referenceCount |-> left, clientIds |-> inst.clientIds \ {c},
                 status |-> inst.status, expired |-> inst.expired,
                 closed |-> inst.closed]
      BY <1>0, <1>1, <3>1 DEF Instance
    <3>3. QED
      BY <1>1, <3>1, <3>2 DEF Instance, SameInstance
  <2>3. QED
    BY <1>1, <2>1, <2>2
<1> HIDE DEF new, left
<1>3. Cardinality(new.clientIds) \in Nat /\ Cardinality(inst.clientIds) \in Nat
  BY <1>1, <1>2, ClientSets
<1>4. Cardinality(inst.clientIds) <= Cardinality(new.clientIds) + 1
  <2>1. CASE c \in inst.clientIds
    <3>1. Cardinality(inst.clientIds \ {c}) = Cardinality(inst.clientIds) - 1
      BY <1>1, <2>1, ClientSets
    <3>2. QED
      BY <1>2, <1>3, <3>1
  <2>2. CASE c \notin inst.clientIds
    <3>1. inst.clientIds \ {c} = inst.clientIds
      BY <2>2
    <3>2. new.clientIds = inst.clientIds
      BY <1>2, <3>1
    <3>3. QED
      BY <1>3, <3>2
  <2>3. QED
    BY <2>1, <2>2
<1>5. new.referenceCount <= Cardinality(new.clientIds)
  BY <1>1, <1>2, <1>3, <1>4 DEF Consistent, left
<1>6. Unshared(new.template) => \A a, b \in new.clientIds : a = b
  BY <1>2 DEF Consistent, SameInstance
<1>7. QED
  BY <1>1, <1>2, <1>5, <1>6 DEF Consistent, new, left

(* Marking an instance as expired, terminating or closed keeps it          *)
(* consistent.                                                             *)
LEMMA MarkKeeps ==
    ASSUME NEW inst, Consistent(inst),
           NEW new \in {[inst EXCEPT !.expired = TRUE],
                        [inst EXCEPT !.status = "terminating"],
                        [inst EXCEPT !.closed = TRUE]}
    PROVE  /\ Consistent(new)
           /\ new.clientIds = inst.clientIds
           /\ new.template = inst.template
           /\ new.hash = inst.hash
<1>1. inst \in Instance
  BY DEF Consistent
<1>2. /\ new \in Instance
      /\ new.clientIds = inst.clientIds
      /\ new.template = inst.template
      /\ new.hash = inst.hash
      /\ new.referenceCount = inst.referenceCount
      /\ new.status \in {inst.status, "terminating"}
  <2>1. CASE new = [inst EXCEPT !.expired = TRUE]
    BY <1>1, <2>1 DEF Instance
  <2>2. CASE new = [inst EXCEPT !.status = "terminating"]
    BY <1>1, <2>2 DEF Instance
  <2>3. CASE new = [inst EXCEPT !.closed = TRUE]
    BY <1>1, <2>3 DEF Instance
  <2>4. QED
    BY <2>1, <2>2, <2>3
<1>3. QED
  BY <1>2 DEF Consistent, Unshared

-----------------------------------------------------------------------------
(* The initial pool is empty. *)
LEMMA PoolInitInv == PoolInit => PoolInv
<1> SUFFICES ASSUME PoolInit PROVE PoolInv
  OBVIOUS
<1>1. DOMAIN instances = {} /\ DOMAIN pooled = {} /\ instanceCounter = 0
  BY DEF PoolInit
<1>2. PoolTypeOK
  BY <1>1 DEF PoolInit, PoolTypeOK
<1>3. QED
  BY <1>1, <1>2 DEF PoolInit, PoolInv, IndexMatchesInstances, StoredInstanceFits,
     KeyIsUnique, Names, ClosingFits, OwnersOnly

(* An operation that stores nothing and removes nothing keeps PoolInv if   *)
(* it keeps each instance consistent, gives none under a client's own key  *)
(* to another client, and starts the removal of stored instances only.     *)
LEMMA SameStoreInv ==
    ASSUME PoolInv,
           UNCHANGED <<instances, templateToInstances, instanceCounter>>,
           creating' \subseteq Call,
           DOMAIN pooled' = DOMAIN pooled,
           \A i \in DOMAIN pooled : Consistent(pooled'[i])
                                    /\ SameInstance(pooled'[i], pooled[i]),
           \A k \in DOMAIN instances : k.owner \in Clients =>
               pooled'[instances[k]].clientIds
                 \subseteq pooled[instances[k]].clientIds \cup {k.owner},
           \A removal \in closing' :
               \/ removal \in closing
               \/ \E k \in DOMAIN instances : removal = <<k, instances[k]>>
    PROVE  PoolInv'
<1>1. /\ PoolTypeOK /\ DOMAIN instances \subseteq Keys
      /\ closing \subseteq Keys \X DOMAIN pooled
      /\ \A k \in DOMAIN instances : instances[k] \in DOMAIN pooled
  BY DEF PoolInv, PoolTypeOK
<1>2. PoolTypeOK'
  <2>1. closing' \subseteq Keys \X DOMAIN pooled
    BY <1>1
  <2>2. QED
    BY <1>1, <2>1 DEF PoolTypeOK, Consistent
<1>3. IndexMatchesInstances'
  BY DEF PoolInv, IndexMatchesInstances
<1>4. StoredInstanceFits'
  BY <1>1 DEF PoolInv, StoredInstanceFits, SameInstance
<1>5. \A k \in Keys, id \in DOMAIN pooled : Names(k, id)' => Names(k, id)
  BY <1>1 DEF Names
<1>6. KeyIsUnique'
  BY <1>5 DEF PoolInv, KeyIsUnique
<1>7. ClosingFits'
  <2> SUFFICES ASSUME NEW k \in Keys, NEW id \in DOMAIN pooled, <<k, id>> \in closing'
               PROVE  pooled'[id].template = k.template
    BY DEF ClosingFits
  <2>1. pooled[id].template = k.template
    <3>1. CASE <<k, id>> \in closing
      BY <3>1 DEF PoolInv, ClosingFits
    <3>2. CASE \E l \in DOMAIN instances : <<k, id>> = <<l, instances[l]>>
      BY <3>2 DEF PoolInv, StoredInstanceFits
    <3>3. QED
      BY <3>1, <3>2
  <2>2. QED
    BY <2>1 DEF SameInstance
<1>8. OwnersOnly'
  BY <1>1 DEF PoolInv, OwnersOnly
<1>9. (\A i \in DOMAIN pooled : Consistent(pooled[i]))'
  BY DEF Consistent, Unshared, Instance
<1>10. QED
  BY <1>2, <1>3, <1>4, <1>6, <1>7, <1>8, <1>9 DEF PoolInv

-----------------------------------------------------------------------------
(* One lemma per operation. *)

(* A client takes an instance it may use, which is no longer idle.         *)
LEMMA GetExistingInv ==
    ASSUME PoolInv, NEW c \in Clients, NEW t \in Templates, NEW h \in Hashes,
           GetExisting(c, t, h)
    PROVE  PoolInv'
<1> DEFINE key == Key(t, h, c)
           id == instances[key]
<1>1. /\ key \in DOMAIN instances /\ key \in Keys /\ id \in DOMAIN pooled
      /\ Live(id) /\ t \in Shareable
      /\ pooled' = [pooled EXCEPT ![id] = AddClient(pooled[id], c)]
  BY KeyFacts DEF GetExisting, Reusable, PoolInv, PoolTypeOK
<1>2. Consistent(pooled[id]) /\ pooled[id].template = t
  BY <1>1, KeyFacts DEF PoolInv, StoredInstanceFits
<1>3. t \in PerClient => pooled[id].clientIds \subseteq {c}
  BY <1>1, KeyFacts DEF PoolInv, OwnersOnly
<1>4. /\ Consistent(AddClient(pooled[id], c))
      /\ SameInstance(AddClient(pooled[id], c), pooled[id])
      /\ AddClient(pooled[id], c).clientIds = pooled[id].clientIds \cup {c}
  BY <1>1, <1>2, <1>3, AddKeeps
<1>5. \A i \in DOMAIN pooled : Consistent(pooled'[i])
                                /\ SameInstance(pooled'[i], pooled[i])
  BY <1>1, <1>4 DEF PoolInv, SameInstance
<1>6. ASSUME NEW k \in DOMAIN instances, k.owner \in Clients
      PROVE  pooled'[instances[k]].clientIds
               \subseteq pooled[instances[k]].clientIds \cup {k.owner}
  <2>1. CASE instances[k] = id
    <3>1. k = key
      BY <1>1, <2>1 DEF PoolInv, PoolTypeOK, KeyIsUnique, Names
    <3>2. k.owner = c
      BY <1>6, <3>1, KeyFacts
    <3>3. QED
      BY <1>1, <1>4, <2>1, <3>2
  <2>2. CASE instances[k] # id
    BY <1>1, <2>2 DEF PoolInv, PoolTypeOK
  <2>3. QED
    BY <2>1, <2>2
<1>7. UNCHANGED <<instances, templateToInstances, instanceCounter, creating, closing>>
  BY DEF GetExisting
<1>8. creating' \subseteq Call /\ DOMAIN pooled' = DOMAIN pooled
  BY <1>1, <1>7 DEF PoolInv, PoolTypeOK
<1>9. QED
  BY <1>5, <1>6, <1>7, <1>8, SameStoreInv

(* A creation passes the checks of the limits and waits for its process.   *)
LEMMA BeginCreateInv ==
    ASSUME PoolInv, NEW r \in Requests, NEW c \in Clients, NEW t \in Templates,
           NEW h \in Hashes, BeginCreate(r, c, t, h)
    PROVE  PoolInv'
<1>1. UNCHANGED <<instances, templateToInstances, pooled, instanceCounter, closing>>
  BY DEF BeginCreate
<1>2. creating' \subseteq Call
  BY DEF BeginCreate, Call, PoolInv, PoolTypeOK
<1>3. \A i \in DOMAIN pooled : Consistent(pooled'[i])
                                /\ SameInstance(pooled'[i], pooled[i])
  BY <1>1 DEF PoolInv, SameInstance
<1>4. QED
  BY <1>1, <1>2, <1>3, SameStoreInv

(* A creation fails and leaves the pool as it is.                          *)
LEMMA FailCreateInv ==
    ASSUME PoolInv, NEW call, FailCreate(call)
    PROVE  PoolInv'
<1>1. UNCHANGED <<instances, templateToInstances, pooled, instanceCounter, closing>>
  BY DEF FailCreate
<1>2. creating' \subseteq Call
  BY DEF FailCreate, PoolInv, PoolTypeOK
<1>3. \A i \in DOMAIN pooled : Consistent(pooled'[i])
                                /\ SameInstance(pooled'[i], pooled[i])
  BY <1>1 DEF PoolInv, SameInstance
<1>4. QED
  BY <1>1, <1>2, <1>3, SameStoreInv

(* A client is dropped from whatever instance the key names by now. *)
LEMMA RemoveClientInv ==
    ASSUME PoolInv, NEW key, NEW c \in Clients, RemoveClientFromPool(key, c)
    PROVE  PoolInv'
<1>1. UNCHANGED <<instances, templateToInstances, instanceCounter, creating, closing>>
  BY DEF RemoveClientFromPool
<1>2. /\ DOMAIN pooled' = DOMAIN pooled
      /\ \A i \in DOMAIN pooled : pooled'[i] \in {pooled[i], DropClient(pooled[i], c)}
  BY DEF RemoveClientFromPool
<1>3. \A i \in DOMAIN pooled :
        /\ Consistent(pooled'[i])
        /\ SameInstance(pooled'[i], pooled[i])
        /\ pooled'[i].clientIds \subseteq pooled[i].clientIds
  <2> TAKE i \in DOMAIN pooled
  <2>1. Consistent(pooled[i])
    BY DEF PoolInv
  <2>2. CASE pooled'[i] = pooled[i]
    BY <2>1, <2>2 DEF SameInstance
  <2>3. CASE pooled'[i] = DropClient(pooled[i], c)
    BY <2>1, <2>3, DropKeeps
  <2>4. QED
    BY <1>2, <2>2, <2>3
<1>4. \A k \in DOMAIN instances : instances[k] \in DOMAIN pooled
  BY DEF PoolInv, PoolTypeOK
<1>5. creating' \subseteq Call
  BY <1>1 DEF PoolInv, PoolTypeOK
<1>6. QED
  BY <1>1, <1>2, <1>3, <1>4, <1>5, SameStoreInv

(* Time passes for an idle instance.                                       *)
LEMMA ExpireInv ==
    ASSUME PoolInv, NEW id, Expire(id)
    PROVE  PoolInv'
<1>1. UNCHANGED <<instances, templateToInstances, instanceCounter, creating, closing>>
  BY DEF Expire
<1>2. /\ DOMAIN pooled' = DOMAIN pooled
      /\ \A i \in DOMAIN pooled :
            pooled'[i] \in {pooled[i], [pooled[i] EXCEPT !.expired = TRUE]}
  BY DEF Expire
<1>3. \A i \in DOMAIN pooled :
        /\ Consistent(pooled'[i])
        /\ SameInstance(pooled'[i], pooled[i])
        /\ pooled'[i].clientIds = pooled[i].clientIds
  <2> TAKE i \in DOMAIN pooled
  <2>1. Consistent(pooled[i])
    BY DEF PoolInv
  <2>2. CASE pooled'[i] = pooled[i]
    BY <2>1, <2>2 DEF SameInstance
  <2>3. CASE pooled'[i] = [pooled[i] EXCEPT !.expired = TRUE]
    <3>1. pooled'[i].closed = pooled[i].closed
      BY <2>1, <2>3 DEF Consistent, Instance
    <3>2. QED
      BY <2>1, <2>3, <3>1, MarkKeeps DEF SameInstance
  <2>4. QED
    BY <1>2, <2>2, <2>3
<1>4. creating' \subseteq Call
  BY <1>1 DEF PoolInv, PoolTypeOK
<1>5. \A k \in DOMAIN instances : instances[k] \in DOMAIN pooled
  BY DEF PoolInv, PoolTypeOK
<1>6. QED
  BY <1>1, <1>2, <1>3, <1>4, <1>5, SameStoreInv

(* The cleanup begins to remove every instance that has expired.           *)
LEMMA CleanupIdleInv ==
    ASSUME PoolInv, CleanupIdleInstances
    PROVE  PoolInv'
<1>1. UNCHANGED <<instances, templateToInstances, instanceCounter, creating>>
  BY DEF CleanupIdleInstances
<1>2. /\ DOMAIN pooled' = DOMAIN pooled
      /\ \A i \in DOMAIN pooled :
            pooled'[i] \in {pooled[i], [pooled[i] EXCEPT !.status = "terminating"]}
  BY DEF CleanupIdleInstances
<1>3. \A i \in DOMAIN pooled :
        /\ Consistent(pooled'[i])
        /\ SameInstance(pooled'[i], pooled[i])
        /\ pooled'[i].clientIds = pooled[i].clientIds
  <2> TAKE i \in DOMAIN pooled
  <2>1. Consistent(pooled[i])
    BY DEF PoolInv
  <2>2. CASE pooled'[i] = pooled[i]
    BY <2>1, <2>2 DEF SameInstance
  <2>3. CASE pooled'[i] = [pooled[i] EXCEPT !.status = "terminating"]
    <3>1. pooled'[i].closed = pooled[i].closed
      BY <2>1, <2>3 DEF Consistent, Instance
    <3>2. QED
      BY <2>1, <2>3, <3>1, MarkKeeps DEF SameInstance
  <2>4. QED
    BY <1>2, <2>2, <2>3
<1>4. creating' \subseteq Call
  BY <1>1 DEF PoolInv, PoolTypeOK
<1>5. \A k \in DOMAIN instances : instances[k] \in DOMAIN pooled
  BY DEF PoolInv, PoolTypeOK
<1>6. \A removal \in closing' :
        \/ removal \in closing
        \/ \E k \in DOMAIN instances : removal = <<k, instances[k]>>
  BY DEF CleanupIdleInstances, IdleExpired
<1>7. QED
  BY <1>1, <1>2, <1>3, <1>4, <1>5, <1>6, SameStoreInv

(* The new instance takes its key, whoever had it.  Its id is new, so no   *)
(* other key and no removal names it.                                      *)
LEMMA FinishCreateInv ==
    ASSUME PoolInv, NEW call \in creating, FinishCreate(call)
    PROVE  PoolInv'
<1> DEFINE key == Key(call.template, call.hash, call.client)
           id == instanceCounter + 1
           new == [template |-> call.template, hash |-> call.hash,
                   referenceCount |-> 1, clientIds |-> {call.client},
                   status |-> "active", expired |-> FALSE, closed |-> FALSE]
<1>1. /\ call.template \in Templates /\ call.hash \in Hashes
      /\ call.client \in Clients
      /\ instanceCounter \in Nat /\ DOMAIN pooled = 1 .. instanceCounter
      /\ DOMAIN instances \subseteq Keys
      /\ \A k \in DOMAIN instances : instances[k] \in DOMAIN pooled
      /\ closing \subseteq Keys \X DOMAIN pooled
  BY DEF PoolInv, PoolTypeOK, Call
<1>2. /\ key \in Keys /\ key.template = call.template /\ key.hash = call.hash
      /\ key.owner \in Clients => key.owner = call.client
  BY <1>1, KeyFacts
<1>3. /\ instanceCounter' = id
      /\ pooled' = [i \in DOMAIN pooled \cup {id} |-> IF i = id THEN new ELSE pooled[i]]
      /\ instances' = [k \in DOMAIN instances \cup {key} |->
                         IF k = key THEN id ELSE instances[k]]
      /\ templateToInstances' =
           [templateToInstances EXCEPT ![call.template] = @ \cup {key}]
      /\ creating' = creating \ {call}
      /\ closing' = closing
  BY DEF FinishCreate
<1>4. id \in Nat /\ id \notin DOMAIN pooled /\ 1 .. id = DOMAIN pooled \cup {id}
  BY <1>1
<1>5. Consistent(new)
  <2>1. new \in Instance
    BY <1>1 DEF Instance
  <2>2. Cardinality({call.client}) = 1
    BY FS_Singleton
  <2>3. QED
    BY <2>1, <2>2 DEF Consistent
<1> HIDE DEF key, id, new
<1>6. /\ DOMAIN pooled' = DOMAIN pooled \cup {id}
      /\ pooled'[id] = new
      /\ \A i \in DOMAIN pooled : pooled'[i] = pooled[i]
      /\ DOMAIN instances' = DOMAIN instances \cup {key}
      /\ instances'[key] = id
      /\ \A k \in DOMAIN instances \ {key} : instances'[k] = instances[k]
  BY <1>3, <1>4
<1>7. (\A i \in DOMAIN pooled : Consistent(pooled[i]))'
  <2>1. \A i \in DOMAIN pooled' : Consistent(pooled'[i])
    BY <1>5, <1>6 DEF PoolInv
  <2>2. QED
    BY <2>1 DEF Consistent, Unshared, Instance
<1>8. PoolTypeOK'
  <2>1. DOMAIN instances' \subseteq Keys
    BY <1>1, <1>2, <1>6
  <2>2. instanceCounter' \in Nat /\ DOMAIN pooled' = 1 .. instanceCounter'
    BY <1>3, <1>4, <1>6
  <2>3. \A k \in DOMAIN instances' : instances'[k] \in DOMAIN pooled'
    BY <1>1, <1>6
  <2>4. templateToInstances' \in [Templates -> SUBSET Keys]
    BY <1>1, <1>2, <1>3 DEF PoolInv, PoolTypeOK
  <2>5. \A i \in DOMAIN pooled' : pooled'[i] \in Instance
    BY <1>5, <1>6 DEF PoolInv, Consistent
  <2>6. creating' \subseteq Call /\ closing' \subseteq Keys \X DOMAIN pooled'
    BY <1>1, <1>3, <1>6 DEF PoolInv, PoolTypeOK
  <2>7. QED
    BY <2>1, <2>2, <2>3, <2>4, <2>5, <2>6 DEF PoolTypeOK, Instance
<1>9. IndexMatchesInstances'
  <2> SUFFICES ASSUME NEW t \in Templates
               PROVE  templateToInstances'[t] = {k \in DOMAIN instances' : k.template = t}
    BY DEF IndexMatchesInstances
  <2>1. templateToInstances[t] = {k \in DOMAIN instances : k.template = t}
    BY DEF PoolInv, IndexMatchesInstances
  <2>2. templateToInstances'[t] = IF t = call.template
                                  THEN templateToInstances[t] \cup {key}
                                  ELSE templateToInstances[t]
    BY <1>3 DEF PoolInv, PoolTypeOK
  <2>3. QED
    BY <1>2, <1>6, <2>1, <2>2
<1>10. StoredInstanceFits'
  <2>1. new.template = call.template /\ new.hash = call.hash /\ ~new.closed
    BY DEF new
  <2>2. QED
    BY <1>1, <1>2, <1>6, <2>1 DEF PoolInv, StoredInstanceFits
<1>11. KeyIsUnique'
  <2>1. \A k \in Keys, i \in DOMAIN pooled' :
          Names(k, i)' => IF i = id THEN k = key ELSE Names(k, i)
    BY <1>1, <1>3, <1>4, <1>6 DEF Names
  <2>2. QED
    BY <1>6, <2>1 DEF PoolInv, KeyIsUnique
<1>12. ClosingFits'
  BY <1>1, <1>3, <1>4, <1>6 DEF PoolInv, ClosingFits
<1>13. OwnersOnly'
  <2>1. new.clientIds = {call.client}
    BY DEF new
  <2>2. QED
    BY <1>1, <1>2, <1>6, <2>1 DEF PoolInv, OwnersOnly
<1>14. QED
  BY <1>7, <1>8, <1>9, <1>10, <1>11, <1>12, <1>13 DEF PoolInv

(* The key is given up, whatever is stored there, and the instance that    *)
(* was to be removed is closed: no other key names it.                     *)
LEMMA FinishRemoveInv ==
    ASSUME PoolInv, NEW key, NEW id, FinishRemove(key, id)
    PROVE  PoolInv'
<1>1. /\ DOMAIN instances \subseteq Keys
      /\ \A k \in DOMAIN instances : instances[k] \in DOMAIN pooled
      /\ closing \subseteq Keys \X DOMAIN pooled
  BY DEF PoolInv, PoolTypeOK
<1>2. /\ <<key, id>> \in closing /\ key \in Keys /\ id \in DOMAIN pooled
      /\ pooled[id].template = key.template
  BY <1>1 DEF FinishRemove, PoolInv, ClosingFits
<1>3. /\ closing' = closing \ {<<key, id>>}
      /\ DOMAIN pooled' = DOMAIN pooled
      /\ pooled'[id] = [pooled[id] EXCEPT !.closed = TRUE]
      /\ \A i \in DOMAIN pooled \ {id} : pooled'[i] = pooled[i]
      /\ DOMAIN instances' = DOMAIN instances \ {key}
      /\ \A k \in DOMAIN instances' : instances'[k] = instances[k]
      /\ templateToInstances' =
           [templateToInstances EXCEPT ![pooled[id].template] = @ \ {key}]
      /\ UNCHANGED <<instanceCounter, creating>>
  BY <1>2 DEF FinishRemove
<1>4. \A i \in DOMAIN pooled :
        /\ Consistent(pooled'[i])
        /\ pooled'[i].clientIds = pooled[i].clientIds
        /\ pooled'[i].template = pooled[i].template
  <2> TAKE i \in DOMAIN pooled
  <2>1. Consistent(pooled[i])
    BY DEF PoolInv
  <2>2. CASE i = id
    BY <1>3, <2>1, <2>2, MarkKeeps
  <2>3. CASE i # id
    BY <1>3, <2>1, <2>3
  <2>4. QED
    BY <2>2, <2>3
<1>5. (\A i \in DOMAIN pooled : Consistent(pooled[i]))'
  BY <1>3, <1>4 DEF Consistent, Unshared, Instance
<1>6. PoolTypeOK'
  <2>1. templateToInstances' \in [Templates -> SUBSET Keys]
    BY <1>3 DEF PoolInv, PoolTypeOK
  <2>2. QED
    BY <1>1, <1>3, <1>4, <2>1 DEF PoolInv, PoolTypeOK, Consistent
<1>7. IndexMatchesInstances'
  <2> SUFFICES ASSUME NEW t \in Templates
               PROVE  templateToInstances'[t] = {k \in DOMAIN instances' : k.template = t}
    BY DEF IndexMatchesInstances
  <2>1. templateToInstances[t] = {k \in DOMAIN instances : k.template = t}
    BY DEF PoolInv, IndexMatchesInstances
  <2>2. templateToInstances'[t] = IF t = key.template
                                  THEN templateToInstances[t] \ {key}
                                  ELSE templateToInstances[t]
    BY <1>2, <1>3 DEF PoolInv, PoolTypeOK
  <2>3. QED
    BY <1>3, <2>1, <2>2
<1>8. StoredInstanceFits'
  <2>1. \A k \in DOMAIN instances' : instances[k] # id
    BY <1>1, <1>2, <1>3 DEF PoolInv, KeyIsUnique, Names
  <2>2. QED
    BY <1>1, <1>3, <2>1 DEF PoolInv, StoredInstanceFits
<1>9. KeyIsUnique'
  <2>1. \A k \in Keys, i \in DOMAIN pooled : Names(k, i)' => Names(k, i)
    BY <1>1, <1>3 DEF Names
  <2>2. QED
    BY <1>3, <2>1 DEF PoolInv, KeyIsUnique
<1>10. ClosingFits'
  BY <1>1, <1>3, <1>4 DEF PoolInv, ClosingFits
<1>11. OwnersOnly'
  BY <1>1, <1>3, <1>4 DEF PoolInv, OwnersOnly
<1>12. QED
  BY <1>5, <1>6, <1>7, <1>8, <1>9, <1>10, <1>11 DEF PoolInv

-----------------------------------------------------------------------------
(***************************************************************************)
(* The invariants of the pool under callers that use it as intended, for   *)
(* any clients, templates, configurations, requests and limits.  They are  *)
(* PoolInv, which every operation of the pool keeps, and the types of what *)
(* the callers hold.                                                       *)
(***************************************************************************)

ClientsInv == PoolInv /\ held \subseteq Handles

(* ClientsInv holds of an empty pool.                                      *)
LEMMA ClientsInitInv == ClientsInit => ClientsInv
BY PoolInitInv DEF ClientsInit, ClientsInv

(* What callers are given is a handle of the pool's types. *)
LEMMA HandleTypes ==
    ASSUME PoolInv, NEW c \in Clients, NEW t \in Templates, NEW h \in Hashes,
           NEW id \in Nat
    PROVE  Handle(c, t, h, id) \in Handles
BY KeyFacts DEF Handle, Handles

(* Every step of the pool's callers keeps ClientsInv.                      *)
LEMMA ClientsNextInv == ClientsInv /\ [ClientsNext]_clientVars => ClientsInv'
<1> SUFFICES ASSUME ClientsInv, [ClientsNext]_clientVars PROVE ClientsInv'
  OBVIOUS
<1>1. PoolInv /\ PoolTypeOK /\ held \subseteq Handles
  BY DEF ClientsInv, PoolInv
<1>2. ASSUME NEW c \in Clients, NEW t \in Templates, NEW h \in Hashes, Reuse(c, t, h)
      PROVE  ClientsInv'
  <2>1. PoolInv'
    BY <1>1, <1>2, GetExistingInv DEF Reuse
  <2>2. instances[Key(t, h, c)] \in Nat
    BY <1>1, <1>2 DEF Reuse, GetExisting, Reusable, PoolTypeOK
  <2>3. QED
    BY <1>1, <1>2, <2>1, <2>2, HandleTypes DEF Reuse, ClientsInv
<1>3. ASSUME NEW c \in Clients, NEW t \in Templates, NEW h \in Hashes, LimitRefused(c, t, h)
      PROVE  ClientsInv'
  BY <1>3 DEF LimitRefused, LimitReached, poolVars, ClientsInv, PoolInv, PoolTypeOK,
     IndexMatchesInstances, StoredInstanceFits, KeyIsUnique, Names, ClosingFits,
     OwnersOnly, Consistent, Unshared, Instance
<1>4. ASSUME NEW r \in Requests, NEW c \in Clients, NEW t \in Templates,
             NEW h \in Hashes, Begin(r, c, t, h)
      PROVE  ClientsInv'
  BY <1>1, <1>4, BeginCreateInv DEF Begin, ClientsInv
<1>5. ASSUME NEW call \in creating, Finish(call)
      PROVE  ClientsInv'
  <2>1. PoolInv'
    BY <1>1, <1>5, FinishCreateInv DEF Finish
  <2>2. /\ call.client \in Clients /\ call.template \in Templates
        /\ call.hash \in Hashes /\ instanceCounter' \in Nat
    BY <1>1, <1>5, <2>1 DEF PoolInv, PoolTypeOK, Call
  <2>3. QED
    BY <1>1, <1>5, <2>1, <2>2, HandleTypes DEF Finish, ClientsInv
<1>6. ASSUME NEW call \in creating, Fail(call)
      PROVE  ClientsInv'
  BY <1>1, <1>6, FailCreateInv DEF Fail, ClientsInv
<1>7. ASSUME NEW handle \in held, Release(handle)
      PROVE  ClientsInv'
  <2>1. handle.client \in Clients
    BY <1>1 DEF Handles
  <2>2. PoolInv'
    BY <1>1, <1>7, <2>1, RemoveClientInv DEF Release
  <2>3. QED
    BY <1>1, <1>7, <2>2 DEF Release, ClientsInv
<1>8. ASSUME NEW id \in DOMAIN pooled, Timeout(id)
      PROVE  ClientsInv'
  BY <1>1, <1>8, ExpireInv DEF Timeout, ClientsInv
<1>9. CASE CleanupTimer
  BY <1>1, <1>9, CleanupIdleInv DEF CleanupTimer, ClientsInv
<1>10. ASSUME NEW removal \in closing, Closed(removal[1], removal[2])
       PROVE  ClientsInv'
  BY <1>1, <1>10, FinishRemoveInv DEF Closed, ClientsInv
<1>11. CASE UNCHANGED clientVars
  BY <1>11 DEF clientVars, poolVars, ClientsInv, PoolInv, PoolTypeOK,
     IndexMatchesInstances, StoredInstanceFits, KeyIsUnique, Names, ClosingFits,
     OwnersOnly, Consistent, Unshared, Instance
<1>12. QED
  BY <1>2, <1>3, <1>4, <1>5, <1>6, <1>7, <1>8, <1>9, <1>10, <1>11 DEF ClientsNext

(* The inductive invariant of the pool and its callers. *)
THEOREM ClientsInvariant == ClientsSpec => []ClientsInv
<1>1. ClientsInit => ClientsInv
  BY ClientsInitInv
<1>2. ClientsInv /\ [ClientsNext]_clientVars => ClientsInv'
  BY ClientsNextInv
<1>3. QED
  BY <1>1, <1>2, PTL DEF ClientsSpec

(* The pool's maps and its callers' handles keep their types.              *)
THEOREM PoolTypes == ClientsSpec => []HeldTypeOK
<1>1. ClientsInv => HeldTypeOK
  BY DEF ClientsInv, PoolInv, HeldTypeOK
<1>2. QED
  BY <1>1, ClientsInvariant, PTL

(* The index the limit check counts lists exactly the stored instances,    *)
(* however creations overwrite keys and removals end late.                 *)
THEOREM IndexStaysExact == ClientsSpec => []IndexMatchesInstances
<1>1. ClientsInv => IndexMatchesInstances
  BY DEF ClientsInv, PoolInv
<1>2. QED
  BY <1>1, ClientsInvariant, PTL

(* Under a key there is never an instance that is closed or was rendered   *)
(* for another configuration.                                              *)
THEOREM StoredStaysFit == ClientsSpec => []StoredInstanceFits
<1>1. ClientsInv => StoredInstanceFits
  BY DEF ClientsInv, PoolInv
<1>2. QED
  BY <1>1, ClientsInvariant, PTL

(* No instance of an unshareable or perClient template ever has a second   *)
(* client.                                                                 *)
THEOREM NoSharingUnwanted == ClientsSpec => []NoUnwantedSharing
<1>1. ASSUME ClientsInv, NEW i \in DOMAIN pooled, Unshared(pooled[i].template)
      PROVE  Cardinality(pooled[i].clientIds) <= 1
  <2>1. \A a, b \in pooled[i].clientIds : a = b
    BY <1>1 DEF ClientsInv, PoolInv, Consistent
  <2>2. CASE pooled[i].clientIds = {}
    <3>1. Cardinality({}) = 0
      BY FS_EmptySet
    <3>2. QED
      BY <2>2, <3>1
  <2>3. CASE pooled[i].clientIds # {}
    <3>1. PICK a \in pooled[i].clientIds : TRUE
      BY <2>3
    <3>2. pooled[i].clientIds = {a}
      BY <2>1, <3>1
    <3>3. Cardinality({a}) = 1
      BY FS_Singleton
    <3>4. QED
      BY <3>2, <3>3
  <2>4. QED
    BY <2>2, <2>3
<1>2. ClientsInv => NoUnwantedSharing
  BY <1>1 DEF NoUnwantedSharing, Unshared
<1>3. QED
  BY <1>2, ClientsInvariant, PTL

(* Both together: what a caller is given fits it, and is shared only where *)
(* the template allows.                                                    *)
THEOREM InstancesStayRight == ClientsSpec => []InstancesAreRight
<1>1. StoredInstanceFits /\ NoUnwantedSharing => InstancesAreRight
  BY DEF InstancesAreRight
<1>2. QED
  BY <1>1, StoredStaysFit, NoSharingUnwanted, PTL

(* Reference counts agree with the clients and with the status the limit   *)
(* and the cleanup go by.                                                  *)
THEOREM CountsStayFit == ClientsSpec => []CountsFitStatus
<1>1. ClientsInv => CountsFitStatus
  BY DEF ClientsInv, PoolInv, Consistent, CountsFitStatus
<1>2. QED
  BY <1>1, ClientsInvariant, PTL

(* Index, counts and status together, in every behaviour.                  *)
THEOREM BookkeepingStaysExact == ClientsSpec => []BookkeepingExact
<1>1. IndexMatchesInstances /\ CountsFitStatus => BookkeepingExact
  BY DEF BookkeepingExact
<1>2. QED
  BY <1>1, IndexStaysExact, CountsStayFit, PTL

-----------------------------------------------------------------------------
(* How far overlapping requests can exceed the limit of a template.        *)

OpenKeys(t) == {k \in DOMAIN instances : /\ k.template = t
                                         /\ <<k, instances[k]>> \notin closing}

OnTheirWay(t) == {call \in creating : call.template = t}

(* OverrunBounded is inductive with two more facts: a request makes one    *)
(* call at a time, so there are no more calls than requests; and what is   *)
(* stored as terminating is being closed, so that the limit check sees     *)
(* every open instance.                                                    *)
OverrunInv ==
    /\ IsFiniteSet(DOMAIN instances)
    /\ IsFiniteSet(creating)
    /\ \A a, b \in creating : a.req = b.req => a = b
    /\ \A k \in DOMAIN instances :
          pooled[instances[k]].status = "terminating"
          => <<k, instances[k]>> \in closing
    /\ OverrunBounded

(* The sets that the limits count are finite.                              *)
LEMMA Sizes ==
    ASSUME OverrunInv, NEW t
    PROVE  /\ IsFiniteSet(OpenKeys(t)) /\ Cardinality(OpenKeys(t)) \in Nat
           /\ IsFiniteSet(OnTheirWay(t)) /\ Cardinality(OnTheirWay(t)) \in Nat
           /\ OpenCount(t) = Cardinality(OpenKeys(t))
<1>1. OpenKeys(t) \in SUBSET DOMAIN instances /\ OnTheirWay(t) \in SUBSET creating
  BY DEF OpenKeys, OnTheirWay
<1>2. IsFiniteSet(OpenKeys(t)) /\ IsFiniteSet(OnTheirWay(t))
  BY <1>1, FS_Subset DEF OverrunInv
<1>3. QED
  BY <1>2, FS_CardinalityType DEF OpenCount, OpenKeys

(* A step that opens no instance and begins no call keeps the bound. *)
LEMMA ShrinkKeepsBound ==
    ASSUME OverrunInv,
           \A t \in Templates : /\ OpenKeys(t)' \subseteq OpenKeys(t)
                                /\ OnTheirWay(t)' \subseteq OnTheirWay(t)
    PROVE  OverrunBounded'
<1> SUFFICES ASSUME MaxInstances > 0, NEW t \in Templates
             PROVE  Cardinality(OpenKeys(t)') + Cardinality(OnTheirWay(t)')
                      < MaxInstances + Cardinality(Requests)
  BY DEF OverrunBounded, OpenCount, OpenKeys, OnTheirWay
<1>1. Cardinality(OpenKeys(t)) + Cardinality(OnTheirWay(t))
        < MaxInstances + Cardinality(Requests)
  BY DEF OverrunInv, OverrunBounded, OpenCount, OpenKeys, OnTheirWay
<1>2. /\ Cardinality(OpenKeys(t)') <= Cardinality(OpenKeys(t))
      /\ Cardinality(OnTheirWay(t)') <= Cardinality(OnTheirWay(t))
      /\ IsFiniteSet(OpenKeys(t)') /\ IsFiniteSet(OnTheirWay(t)')
  BY Sizes, FS_Subset
<1>3. /\ Cardinality(OpenKeys(t)') \in Nat
      /\ Cardinality(OnTheirWay(t)') \in Nat
      /\ Cardinality(Requests) \in Nat
  BY <1>2, PoolConstants, FS_CardinalityType
<1>4. Cardinality(OpenKeys(t)) \in Nat /\ Cardinality(OnTheirWay(t)) \in Nat
  BY Sizes
<1>5. QED
  BY <1>1, <1>2, <1>3, <1>4, PoolConstants

(* No more calls are suspended than there are requests. *)
LEMMA CallsBounded ==
    ASSUME NEW calls, \A a \in calls : a.req \in Requests,
           \A a, b \in calls : a.req = b.req => a = b
    PROVE  IsFiniteSet(calls) /\ Cardinality(calls) <= Cardinality(Requests)
<1> DEFINE g == [a \in calls |-> a.req]
<1>1. g \in Injection(calls, Requests)
  BY DEF Injection, IsInjective
<1>2. QED
  BY <1>1, PoolConstants, FS_Injection

(* The limit check sees every open instance: what it lets pass leaves room *)
(* for this call and for one of each other request.                        *)
LEMMA BeginKeepsBound ==
    ASSUME ClientsInv, OverrunInv, NEW r \in Requests, NEW c \in Clients,
           NEW t \in Templates, NEW h \in Hashes, BeginCreate(r, c, t, h)
    PROVE  OverrunInv'
<1> DEFINE call == [req |-> r, client |-> c, template |-> t, hash |-> h]
<1>1. /\ creating' = creating \cup {call}
      /\ \A a \in creating : a.req # r
      /\ WithinLimits(t)
      /\ UNCHANGED <<instances, templateToInstances, pooled, closing>>
  BY DEF BeginCreate
<1>2. \A a \in creating' : a.req \in Requests
  BY <1>1 DEF ClientsInv, PoolInv, PoolTypeOK, Call
<1>3. \A a, b \in creating' : a.req = b.req => a = b
  BY <1>1 DEF OverrunInv
<1>4. IsFiniteSet(creating') /\ Cardinality(creating') <= Cardinality(Requests)
  BY <1>2, <1>3, CallsBounded
<1>5. OverrunBounded'
  <2> SUFFICES ASSUME MaxInstances > 0, NEW u \in Templates
               PROVE  Cardinality(OpenKeys(u)) + Cardinality(OnTheirWay(u)')
                        < MaxInstances + Cardinality(Requests)
    BY <1>1 DEF OverrunBounded, OpenCount, OpenKeys, OnTheirWay
  <2>1. CASE u = t
    <3> DEFINE counted == {k \in templateToInstances[t] \cap DOMAIN instances :
                              Live(instances[k])}
    <3>1. Cardinality(counted) < MaxInstances
      BY <1>1 DEF WithinLimits, TemplateCount
    <3>2. IsFiniteSet(counted)
      BY FS_Subset DEF OverrunInv
    <3>3. OpenKeys(t) \subseteq counted
      BY DEF OpenKeys, OverrunInv, Live, ClientsInv, PoolInv, IndexMatchesInstances
    <3>4. Cardinality(OpenKeys(t)) <= Cardinality(counted)
      BY <3>2, <3>3, FS_Subset
    <3>5. Cardinality(OnTheirWay(t)') <= Cardinality(creating')
          /\ IsFiniteSet(OnTheirWay(t)')
      BY <1>4, FS_Subset DEF OnTheirWay
    <3>6. /\ Cardinality(counted) \in Nat
          /\ Cardinality(OpenKeys(t)) \in Nat
          /\ Cardinality(OnTheirWay(t)') \in Nat
          /\ Cardinality(creating') \in Nat
          /\ Cardinality(Requests) \in Nat
      BY <1>4, <3>2, <3>5, Sizes, PoolConstants, FS_CardinalityType
    <3> HIDE DEF counted
    <3>7. QED
      BY <1>4, <2>1, <3>1, <3>4, <3>5, <3>6, PoolConstants
  <2>2. CASE u # t
    <3>1. OnTheirWay(u)' = OnTheirWay(u)
      BY <1>1, <2>2 DEF OnTheirWay
    <3>2. QED
      BY <3>1 DEF OverrunInv, OverrunBounded, OpenCount, OpenKeys, OnTheirWay
  <2>3. QED
    BY <2>1, <2>2
<1>6. QED
  BY <1>1, <1>3, <1>4, <1>5 DEF OverrunInv

(* The new instance is open where its call was on its way. *)
LEMMA FinishKeepsBound ==
    ASSUME ClientsInv, OverrunInv, NEW call \in creating, FinishCreate(call)
    PROVE  OverrunInv'
<1> DEFINE key == Key(call.template, call.hash, call.client)
           id == instanceCounter + 1
           t == call.template
<1>1. /\ t \in Templates /\ key.template = t
      /\ instanceCounter \in Nat /\ DOMAIN pooled = 1 .. instanceCounter
      /\ \A k \in DOMAIN instances : instances[k] \in DOMAIN pooled
  BY KeyFacts DEF ClientsInv, PoolInv, PoolTypeOK, Call
<1>2. /\ DOMAIN instances' = DOMAIN instances \cup {key}
      /\ instances'[key] = id
      /\ \A k \in DOMAIN instances \ {key} : instances'[k] = instances[k]
      /\ creating' = creating \ {call}
      /\ closing' = closing
      /\ pooled'[id].status = "active"
      /\ \A i \in DOMAIN pooled : pooled'[i] = pooled[i]
  <2>1. id \notin DOMAIN pooled
    BY <1>1
  <2>2. QED
    BY <2>1 DEF FinishCreate
<1> HIDE DEF key, id
<1>3. IsFiniteSet(DOMAIN instances') /\ IsFiniteSet(creating')
  <2>1. IsFiniteSet(DOMAIN instances) /\ IsFiniteSet(creating)
    BY DEF OverrunInv
  <2>2. IsFiniteSet(DOMAIN instances \cup {key})
    BY <2>1, FS_AddElement
  <2>3. IsFiniteSet(creating \ {call})
    BY <2>1, FS_RemoveElement
  <2>4. QED
    BY <1>2, <2>2, <2>3
<1>4. \A k \in DOMAIN instances' :
        pooled'[instances'[k]].status = "terminating"
        => <<k, instances'[k]>> \in closing'
  BY <1>1, <1>2 DEF OverrunInv
<1>5. \A u \in Templates : /\ OpenKeys(u)' \subseteq OpenKeys(u) \cup {key}
                           /\ u # t => OpenKeys(u)' \subseteq OpenKeys(u)
                           /\ OnTheirWay(u)' = OnTheirWay(u) \ {call}
  BY <1>1, <1>2 DEF OpenKeys, OnTheirWay
<1>6. OverrunBounded'
  <2> SUFFICES ASSUME MaxInstances > 0, NEW u \in Templates
               PROVE  Cardinality(OpenKeys(u)') + Cardinality(OnTheirWay(u)')
                        < MaxInstances + Cardinality(Requests)
    BY DEF OverrunBounded, OpenCount, OpenKeys, OnTheirWay
  <2>1. Cardinality(OpenKeys(u)) + Cardinality(OnTheirWay(u))
          < MaxInstances + Cardinality(Requests)
    BY DEF OverrunInv, OverrunBounded, OpenCount, OpenKeys, OnTheirWay
  <2>2. /\ IsFiniteSet(OpenKeys(u)) /\ Cardinality(OpenKeys(u)) \in Nat
        /\ IsFiniteSet(OnTheirWay(u)) /\ Cardinality(OnTheirWay(u)) \in Nat
        /\ Cardinality(Requests) \in Nat /\ MaxInstances \in Nat
    BY Sizes, PoolConstants, FS_CardinalityType
  <2>3. CASE u = t
    <3>1. Cardinality(OnTheirWay(u)') = Cardinality(OnTheirWay(u)) - 1
      <4>1. call \in OnTheirWay(u)
        BY <2>3 DEF OnTheirWay
      <4>2. QED
        BY <1>5, <2>2, <4>1, FS_RemoveElement
    <3>2. /\ IsFiniteSet(OpenKeys(u) \cup {key})
          /\ Cardinality(OpenKeys(u) \cup {key}) <= Cardinality(OpenKeys(u)) + 1
      <4>1. /\ IsFiniteSet(OpenKeys(u) \cup {key})
            /\ Cardinality(OpenKeys(u) \cup {key}) =
                 IF key \in OpenKeys(u) THEN Cardinality(OpenKeys(u))
                 ELSE Cardinality(OpenKeys(u)) + 1
        BY <2>2, FS_AddElement
      <4>2. QED
        BY <2>2, <4>1
    <3>3. /\ Cardinality(OpenKeys(u)') <= Cardinality(OpenKeys(u) \cup {key})
          /\ IsFiniteSet(OpenKeys(u)')
      BY <1>5, <3>2, FS_Subset
    <3>4. Cardinality(OpenKeys(u)') \in Nat /\ Cardinality(OpenKeys(u) \cup {key}) \in Nat
      BY <3>2, <3>3, FS_CardinalityType
    <3>5. QED
      BY <2>1, <2>2, <3>1, <3>2, <3>3, <3>4
  <2>4. CASE u # t
    <3>1. OnTheirWay(u)' = OnTheirWay(u)
      BY <1>5, <2>4 DEF OnTheirWay
    <3>2. Cardinality(OpenKeys(u)') <= Cardinality(OpenKeys(u)) /\ IsFiniteSet(OpenKeys(u)')
      BY <1>5, <2>2, <2>4, FS_Subset
    <3>3. Cardinality(OpenKeys(u)') \in Nat
      BY <3>2, FS_CardinalityType
    <3>4. QED
      BY <2>1, <2>2, <3>1, <3>2, <3>3
  <2>5. QED
    BY <2>3, <2>4
<1>7. QED
  BY <1>2, <1>3, <1>4, <1>6 DEF OverrunInv

(* Steps that store nothing, create nothing and end no removal. *)
LEMMA SameStoreKeepsBound ==
    ASSUME OverrunInv, UNCHANGED instances, creating' \subseteq creating,
           closing \subseteq closing',
           \A k \in DOMAIN instances :
              \/ pooled'[instances[k]].status # "terminating"
              \/ pooled'[instances[k]].status = pooled[instances[k]].status
              \/ <<k, instances[k]>> \in closing'
    PROVE  OverrunInv'
<1>1. \A t \in Templates : /\ OpenKeys(t)' \subseteq OpenKeys(t)
                           /\ OnTheirWay(t)' \subseteq OnTheirWay(t)
  BY DEF OpenKeys, OnTheirWay
<1>2. OverrunBounded'
  BY <1>1, ShrinkKeepsBound
<1>3. IsFiniteSet(creating')
  BY FS_Subset DEF OverrunInv
<1>4. QED
  BY <1>2, <1>3 DEF OverrunInv

(* The removal that ends gives up its key. *)
LEMMA RemoveKeepsBound ==
    ASSUME ClientsInv, OverrunInv, NEW key, NEW id, FinishRemove(key, id)
    PROVE  OverrunInv'
<1>1. /\ \A k \in DOMAIN instances : instances[k] \in DOMAIN pooled
      /\ \A i \in DOMAIN pooled : pooled[i] \in Instance
  BY DEF ClientsInv, PoolInv, PoolTypeOK
<1>2. /\ DOMAIN instances' = DOMAIN instances \ {key}
      /\ \A k \in DOMAIN instances' : instances'[k] = instances[k]
      /\ closing' = closing \ {<<key, id>>}
      /\ creating' = creating
      /\ \A i \in DOMAIN pooled : pooled'[i].status = pooled[i].status
  BY <1>1 DEF FinishRemove, Instance
<1>3. \A t \in Templates : /\ OpenKeys(t)' \subseteq OpenKeys(t)
                           /\ OnTheirWay(t)' \subseteq OnTheirWay(t)
  BY <1>2 DEF OpenKeys, OnTheirWay
<1>4. OverrunBounded'
  BY <1>3, ShrinkKeepsBound
<1>5. IsFiniteSet(DOMAIN instances')
  BY <1>2, FS_RemoveElement DEF OverrunInv
<1>6. \A k \in DOMAIN instances' :
        pooled'[instances'[k]].status = "terminating"
        => <<k, instances'[k]>> \in closing'
  BY <1>1, <1>2 DEF OverrunInv
<1>7. QED
  BY <1>2, <1>4, <1>5, <1>6 DEF OverrunInv

(* Every step keeps OverrunInv.                                            *)
LEMMA OverrunNext ==
    ASSUME ClientsInv, OverrunInv, [ClientsNext]_clientVars
    PROVE  OverrunInv'
<1>1. /\ \A k \in DOMAIN instances : instances[k] \in DOMAIN pooled
      /\ \A i \in DOMAIN pooled : pooled[i] \in Instance
  BY DEF ClientsInv, PoolInv, PoolTypeOK
<1>2. ASSUME NEW c \in Clients, NEW t \in Templates, NEW h \in Hashes, Reuse(c, t, h)
      PROVE  OverrunInv'
  <2>1. /\ UNCHANGED <<instances, creating, closing>>
        /\ \A i \in DOMAIN pooled : pooled'[i] \in {pooled[i], AddClient(pooled[i], c)}
    BY <1>2 DEF Reuse, GetExisting
  <2>2. \A i \in DOMAIN pooled :
          AddClient(pooled[i], c).status \in {pooled[i].status, "active"}
    BY <1>1 DEF AddClient, Instance
  <2>3. QED
    BY <1>1, <2>1, <2>2, SameStoreKeepsBound
<1>3. ASSUME NEW c \in Clients, NEW t \in Templates, NEW h \in Hashes, LimitRefused(c, t, h)
      PROVE  OverrunInv'
  BY <1>3, SameStoreKeepsBound DEF LimitRefused, LimitReached, poolVars
<1>4. ASSUME NEW r \in Requests, NEW c \in Clients, NEW t \in Templates,
             NEW h \in Hashes, Begin(r, c, t, h)
      PROVE  OverrunInv'
  BY <1>4, BeginKeepsBound DEF Begin
<1>5. ASSUME NEW call \in creating, Finish(call) PROVE OverrunInv'
  BY <1>5, FinishKeepsBound DEF Finish
<1>6. ASSUME NEW call \in creating, Fail(call) PROVE OverrunInv'
  BY <1>6, SameStoreKeepsBound DEF Fail, FailCreate
<1>7. ASSUME NEW handle \in held, Release(handle) PROVE OverrunInv'
  <2>1. /\ UNCHANGED <<instances, creating, closing>>
        /\ \A i \in DOMAIN pooled :
              pooled'[i] \in {pooled[i], DropClient(pooled[i], handle.client)}
    BY <1>7 DEF Release, RemoveClientFromPool
  <2>2. \A i \in DOMAIN pooled :
          DropClient(pooled[i], handle.client).status \in {pooled[i].status, "idle"}
    BY <1>1 DEF DropClient, Instance
  <2>3. QED
    BY <1>1, <2>1, <2>2, SameStoreKeepsBound
<1>8. ASSUME NEW id \in DOMAIN pooled, Timeout(id) PROVE OverrunInv'
  <2>1. /\ UNCHANGED <<instances, creating, closing>>
        /\ \A i \in DOMAIN pooled : pooled'[i].status = pooled[i].status
    BY <1>1, <1>8 DEF Timeout, Expire, Instance
  <2>2. QED
    BY <1>1, <2>1, SameStoreKeepsBound
<1>9. CASE CleanupTimer
  <2>1. /\ UNCHANGED <<instances, creating>>
        /\ closing \subseteq closing'
        /\ \A k \in IdleExpired : <<k, instances[k]>> \in closing'
    BY <1>9 DEF CleanupTimer, CleanupIdleInstances
  <2>2. \A i \in DOMAIN pooled :
          (~\E k \in IdleExpired : instances[k] = i) => pooled'[i] = pooled[i]
    BY <1>9 DEF CleanupTimer, CleanupIdleInstances
  <2>3. ASSUME NEW k \in DOMAIN instances
        PROVE  \/ pooled'[instances[k]].status = pooled[instances[k]].status
               \/ <<k, instances[k]>> \in closing'
    <3>1. CASE \E l \in IdleExpired : instances[l] = instances[k]
      BY <2>1, <3>1, <1>1 DEF ClientsInv, PoolInv, PoolTypeOK, KeyIsUnique, Names,
         IdleExpired
    <3>2. CASE ~\E l \in IdleExpired : instances[l] = instances[k]
      BY <1>1, <2>2, <3>2
    <3>3. QED
      BY <3>1, <3>2
  <2>4. QED
    BY <2>1, <2>3, SameStoreKeepsBound
<1>10. ASSUME NEW removal \in closing, Closed(removal[1], removal[2])
       PROVE  OverrunInv'
  BY <1>10, RemoveKeepsBound DEF Closed
<1>11. CASE UNCHANGED clientVars
  BY <1>11, SameStoreKeepsBound DEF clientVars, poolVars
<1>12. QED
  BY <1>2, <1>3, <1>4, <1>5, <1>6, <1>7, <1>8, <1>9, <1>10, <1>11 DEF ClientsNext

(* OverrunInv holds of an empty pool.                                      *)
LEMMA OverrunInit == ClientsInit => OverrunInv
<1> SUFFICES ASSUME ClientsInit PROVE OverrunInv
  OBVIOUS
<1>1. DOMAIN instances = {} /\ creating = {}
  BY DEF ClientsInit, PoolInit
<1>2. \A t : Cardinality(OpenKeys(t)) = 0 /\ Cardinality(OnTheirWay(t)) = 0
  <2>1. \A t : OpenKeys(t) = {} /\ OnTheirWay(t) = {}
    BY <1>1 DEF OpenKeys, OnTheirWay
  <2>2. Cardinality({}) = 0
    BY FS_EmptySet
  <2>3. QED
    BY <2>1, <2>2
<1>3. Cardinality(Requests) \in Nat
  BY PoolConstants, FS_CardinalityType
<1>4. OverrunBounded
  <2> SUFFICES ASSUME MaxInstances > 0, NEW t \in Templates
               PROVE  Cardinality(OpenKeys(t)) + Cardinality(OnTheirWay(t))
                        < MaxInstances + Cardinality(Requests)
    BY DEF OverrunBounded, OpenCount, OpenKeys, OnTheirWay
  <2>1. QED
    BY <1>2, <1>3, PoolConstants
<1>5. QED
  BY <1>1, <1>4, FS_EmptySet DEF OverrunInv

(* Whatever requests overlap, the open instances of a template and those   *)
(* on their way exceed its limit by less than the number of requests: the  *)
(* await between check and store is all that can be overrun.               *)
THEOREM OverrunStaysBounded == ClientsSpec => []OverrunBounded
<1>1. ClientsInit => OverrunInv
  BY OverrunInit
<1>2. ClientsInv /\ OverrunInv /\ [ClientsNext]_clientVars => OverrunInv'
  BY OverrunNext
<1>3. OverrunInv => OverrunBounded
  BY DEF OverrunInv
<1>4. QED
  BY <1>1, <1>2, <1>3, ClientsInvariant, PTL DEF ClientsSpec

-----------------------------------------------------------------------------
(***************************************************************************)
(* Proofs about the template servers of sessions.                          *)
(***************************************************************************)

(* The pool: what it stores fits its key and is open, and what is to come  *)
(* has an id left.                                                         *)
PoolOK ==
    /\ instanceCounter \in Nat /\ DOMAIN pooled = 1 .. instanceCounter
    /\ \A i \in DOMAIN pooled : pooled[i] \in Instance /\ ~pooled[i].closed
    /\ \A k \in DOMAIN instances :
          /\ k \in Keys /\ instances[k] \in DOMAIN pooled
          /\ pooled[instances[k]].template = k.template
          /\ pooled[instances[k]].hash = k.hash
    /\ IsFiniteSet(creating)
    /\ instanceCounter + Cardinality(creating) <= MaxCreated

(* Calls and connects under way are of a session's own context. *)
CallsOK ==
    /\ \A call \in creating : call \in Call /\ call.hash \in RendersTo[call.client]
    /\ \A r \in DOMAIN tasks :
          /\ tasks[r] \in [session : Clients, hash : Hashes, next : Nat \ {0}]
          /\ tasks[r].hash \in RendersTo[tasks[r].session]
    /\ connected \subseteq Clients

(* Who uses an instance by the tracker's own list. *)
Users(key) == {c \in Clients : key \in clientRelationships[c]}

TrackerCounted ==
    /\ clientRelationships \in [Clients -> SUBSET (Templates \X Ids)]
    /\ \A key \in DOMAIN templateInstances :
          templateInstances[key] = [clientIds |-> Users(key), referenceCount |-> Cardinality(Users(key))]
    /\ \A c \in Clients : clientRelationships[c] \subseteq DOMAIN templateInstances

(* An instance a session is tracked on is open, of that template, rendered *)
(* as the session's context is, and counts the session; none but that one  *)
(* if the template is not to be shared.                                    *)
UseIsRight ==
    \A s \in Clients : \A key \in clientRelationships[s] :
        /\ key[2] \in DOMAIN pooled
        /\ pooled[key[2]].template = key[1]
        /\ s \in pooled[key[2]].clientIds
        /\ pooled[key[2]].hash \in RendersTo[s]
        /\ key[1] \in DOMAIN sessionToRenderedHash[s]
        /\ key[1] \notin Shareable => Users(key) = {s}

OutboundOK ==
    \A key \in DOMAIN outboundConns :
        /\ key \in OutboundKeys /\ outboundConns[key] \in DOMAIN pooled
        /\ key.scope \in Hashes <=> key.template \in Shareable
        /\ pooled[outboundConns[key]].template = key.template
        /\ key.scope \in Hashes => pooled[outboundConns[key]].hash = key.scope
        /\ key.scope \in Clients => key.scope \in pooled[outboundConns[key]].clientIds

HashesOK ==
    /\ DOMAIN sessionToRenderedHash = Clients
    /\ \A s \in Clients : \A t \in DOMAIN sessionToRenderedHash[s] :
          sessionToRenderedHash[s][t] \in RendersTo[s]

(* Every connect of a session renders its templates the same way. *)
RendersSteadily == \A s \in Clients : \A g, h \in RendersTo[s] : g = h

ServersInv ==
    /\ PoolOK /\ CallsOK /\ TrackerCounted /\ UseIsRight /\ OutboundOK /\ HashesOK
    /\ TransportsAreUsed
    /\ RendersSteadily => OutboundIsUsed

-----------------------------------------------------------------------------
(* ServersInv holds before any session connects.                           *)
LEMMA ServersInitInv == Init => ServersInv
<1> SUFFICES ASSUME Init PROVE ServersInv
  OBVIOUS
<1>1. PoolOK
  <2>1. /\ DOMAIN pooled = {} /\ DOMAIN instances = {} /\ instanceCounter = 0 /\ creating = {}
    BY DEF Init, PoolInit
  <2>2. IsFiniteSet(creating) /\ Cardinality(creating) = 0
    BY <2>1, FS_EmptySet
  <2>3. 1 .. 0 = {} /\ MaxCreated \in Nat
    BY PoolConstants
  <2> QED BY <2>1, <2>2, <2>3 DEF PoolOK
<1>2. CallsOK
  BY DEF Init, PoolInit, CallsOK
<1>3. /\ DOMAIN templateInstances = {} /\ clientRelationships = [c \in Clients |-> {}]
      /\ DOMAIN outboundConns = {} /\ transports = {}
      /\ DOMAIN sessionToRenderedHash = Clients
      /\ \A s \in Clients : DOMAIN sessionToRenderedHash[s] = {}
  BY DEF Init, Tracker!TrackerInit
<1>4. TrackerCounted /\ UseIsRight /\ OutboundOK /\ HashesOK
  BY <1>3 DEF TrackerCounted, UseIsRight, OutboundOK, HashesOK
<1>5. TransportsAreUsed /\ OutboundIsUsed
  BY <1>3 DEF TransportsAreUsed, OutboundIsUsed, Tracked
<1> QED BY <1>1, <1>2, <1>4, <1>5 DEF ServersInv

(* What an id is of: no session's, no hash. *)
LEMMA ScopesDiffer ==
    /\ \A h \in Hashes : h \notin Clients
    /\ \A s \in Clients : s \notin Hashes
    /\ \A id \in Ids : id \notin Hashes
    /\ IsFiniteSet(Clients)
BY TemplateConstants, PoolConstants

(* A session is registered with an instance made for its context.          *)
LEMMA RegisterInv ==
    ASSUME ServersInv, NEW s \in Clients, NEW t \in Templates, NEW h \in Hashes, NEW id \in Ids,
           h \in RendersTo[s],
           Register(s, t, h, id),
           DOMAIN pooled \subseteq DOMAIN pooled', id \in DOMAIN pooled',
           \A i \in DOMAIN pooled :
              /\ pooled'[i].template = pooled[i].template
              /\ pooled'[i].hash = pooled[i].hash
              /\ pooled[i].clientIds \subseteq pooled'[i].clientIds,
           pooled'[id].template = t, pooled'[id].hash = h, s \in pooled'[id].clientIds,
           t \notin Shareable => id \notin DOMAIN pooled
    PROVE  /\ TrackerCounted' /\ UseIsRight' /\ OutboundOK' /\ HashesOK'
           /\ TransportsAreUsed'
           /\ RendersSteadily => OutboundIsUsed'
<1> USE DEF ServersInv
<1> DEFINE new == <<t, id>>
           okey == OutboundKey(t, h, s)
<1>1. /\ clientRelationships' \in [Clients -> SUBSET (Templates \X Ids)]
      /\ clientRelationships'[s] = clientRelationships[s] \cup {new}
      /\ \A c \in Clients : c # s => clientRelationships'[c] = clientRelationships[c]
  BY DEF Register, Tracker!AddClientTemplate, TrackerCounted
<1>2. /\ DOMAIN templateInstances' = DOMAIN templateInstances \cup {new}
      /\ templateInstances'[new] = Tracker!WithClient(Tracker!InfoOf(new), s)
      /\ \A k \in DOMAIN templateInstances : k # new => templateInstances'[k] = templateInstances[k]
  BY DEF Register, Tracker!AddClientTemplate
<1>3. /\ \A k : k # new => Users(k)' = Users(k)
      /\ Users(new)' = Users(new) \cup {s}
  BY <1>1 DEF Users
<1>4. TrackerCounted'
  <2>1. /\ IsFiniteSet(Users(new))
        /\ Cardinality(Users(new) \cup {s}) =
             IF s \in Users(new) THEN Cardinality(Users(new)) ELSE Cardinality(Users(new)) + 1
    <3>1. IsFiniteSet(Users(new))
      BY ScopesDiffer, FS_Subset DEF Users
    <3> QED BY <3>1, FS_AddElement
  <2>2. Tracker!InfoOf(new) = [clientIds |-> Users(new), referenceCount |-> Cardinality(Users(new))]
    <3>1. CASE new \in DOMAIN templateInstances
      BY <3>1 DEF Tracker!InfoOf, TrackerCounted
    <3>2. CASE new \notin DOMAIN templateInstances
      <4>1. Users(new) = {}
        BY <3>2 DEF TrackerCounted, Users
      <4> QED BY <3>2, <4>1, FS_EmptySet DEF Tracker!InfoOf, Tracker!NewInfo
    <3> QED BY <3>1, <3>2
  <2>3. Tracker!WithClient(Tracker!InfoOf(new), s)
          = [clientIds |-> Users(new) \cup {s}, referenceCount |-> Cardinality(Users(new) \cup {s})]
    <3>1. PICK U, V : U = Users(new) /\ V = U \cup {s}
      OBVIOUS
    <3>2. PICK info : info = Tracker!InfoOf(new)
      OBVIOUS
    <3>3. info = [clientIds |-> U, referenceCount |-> Cardinality(U)]
      BY <2>2, <3>1, <3>2
    <3>4. Cardinality(V) = IF s \in U THEN Cardinality(U) ELSE Cardinality(U) + 1
      BY <2>1, <3>1
    <3>5. Tracker!WithClient(info, s) = [clientIds |-> V, referenceCount |-> Cardinality(V)]
      <4>1. CASE s \in U
        <5>1. V = U
          BY <3>1, <4>1
        <5> QED BY <3>3, <4>1, <5>1 DEF Tracker!WithClient
      <4>2. CASE s \notin U
        BY <3>1, <3>3, <3>4, <4>2 DEF Tracker!WithClient
      <4> QED BY <4>1, <4>2
    <3> QED BY <3>1, <3>2, <3>5
  <2>4. \A k \in DOMAIN templateInstances' :
           templateInstances'[k] = [clientIds |-> Users(k)', referenceCount |-> Cardinality(Users(k)')]
    BY <1>2, <1>3, <2>3 DEF TrackerCounted
  <2>5. \A c \in Clients : clientRelationships'[c] \subseteq DOMAIN templateInstances'
    BY <1>1, <1>2 DEF TrackerCounted
  <2> QED BY <1>1, <2>4, <2>5 DEF TrackerCounted
<1>5. /\ DOMAIN sessionToRenderedHash' = Clients
      /\ \A c \in Clients : c # s => sessionToRenderedHash'[c] = sessionToRenderedHash[c]
      /\ DOMAIN sessionToRenderedHash'[s] = DOMAIN sessionToRenderedHash[s] \cup {t}
      /\ \A u \in DOMAIN sessionToRenderedHash'[s] :
            sessionToRenderedHash'[s][u] = IF u = t THEN h ELSE sessionToRenderedHash[s][u]
  BY DEF Register, Put, HashesOK
<1>6. HashesOK'
  <2> SUFFICES ASSUME NEW c \in Clients, NEW u \in DOMAIN sessionToRenderedHash'[c]
               PROVE  sessionToRenderedHash'[c][u] \in RendersTo[c]
    BY <1>5 DEF HashesOK
  <2> QED BY <1>5 DEF HashesOK
<1>7. UseIsRight'
  <2> SUFFICES ASSUME NEW c \in Clients, NEW key \in clientRelationships'[c]
               PROVE  /\ key[2] \in DOMAIN pooled'
                      /\ pooled'[key[2]].template = key[1]
                      /\ c \in pooled'[key[2]].clientIds
                      /\ pooled'[key[2]].hash \in RendersTo[c]
                      /\ key[1] \in DOMAIN sessionToRenderedHash'[c]
                      /\ key[1] \notin Shareable => Users(key)' = {c}
    BY DEF UseIsRight, Users
  <2>1. CASE key \in clientRelationships[c] /\ key # new
    <3>1. /\ key[2] \in DOMAIN pooled'
          /\ pooled'[key[2]].template = key[1]
          /\ c \in pooled'[key[2]].clientIds
          /\ pooled'[key[2]].hash \in RendersTo[c]
          /\ key[1] \notin Shareable => Users(key)' = {c}
      BY <1>3, <2>1 DEF UseIsRight
    <3>2. key[1] \in DOMAIN sessionToRenderedHash'[c]
      BY <1>5, <2>1 DEF UseIsRight
    <3> QED BY <3>1, <3>2
  <2>2. CASE key \in clientRelationships[c] /\ key = new
    <3>1. key[1] = t /\ key[2] = id /\ id \in DOMAIN pooled
      BY <2>2 DEF UseIsRight
    <3>2. key[1] \in Shareable
      BY <3>1
    <3>3. /\ pooled'[key[2]].template = key[1]
          /\ c \in pooled'[key[2]].clientIds
          /\ pooled'[key[2]].hash \in RendersTo[c]
      BY <2>2, <3>1 DEF UseIsRight
    <3>4. key[1] \in DOMAIN sessionToRenderedHash'[c]
      BY <1>5, <2>2 DEF UseIsRight
    <3> QED BY <3>1, <3>2, <3>3, <3>4
  <2>3. CASE key \notin clientRelationships[c]
    <3>1. c = s /\ key = new /\ key[1] = t /\ key[2] = id
      BY <1>1, <2>3
    <3>2. key[1] \in DOMAIN sessionToRenderedHash'[c]
      BY <1>5, <3>1
    <3>3. ASSUME t \notin Shareable PROVE Users(key)' = {c}
      <4>1. Users(new) = {}
        BY <3>3 DEF UseIsRight, Users
      <4> QED BY <1>3, <3>1, <4>1
    <3> QED BY <3>1, <3>2, <3>3
  <2> QED BY <2>1, <2>2, <2>3
<1>8. okey \in OutboundKeys /\ okey.template = t /\ okey.scope = (IF t \in Shareable THEN h ELSE s)
  BY DEF OutboundKey, OutboundKeys
<1>9. /\ DOMAIN outboundConns' = DOMAIN outboundConns \cup {okey}
      /\ outboundConns'[okey] = id
      /\ \A k \in DOMAIN outboundConns : k # okey => outboundConns'[k] = outboundConns[k]
  BY DEF Register, Put
<1>10. OutboundOK'
  <2> HIDE DEF okey
  <2> SUFFICES ASSUME NEW k \in DOMAIN outboundConns'
               PROVE  /\ k \in OutboundKeys /\ outboundConns'[k] \in DOMAIN pooled'
                      /\ k.scope \in Hashes <=> k.template \in Shareable
                      /\ pooled'[outboundConns'[k]].template = k.template
                      /\ k.scope \in Hashes => pooled'[outboundConns'[k]].hash = k.scope
                      /\ k.scope \in Clients => k.scope \in pooled'[outboundConns'[k]].clientIds
    BY DEF OutboundOK
  <2>1. CASE k = okey
    BY <1>8, <1>9, <2>1, ScopesDiffer
  <2>2. CASE k # okey
    <3>1. k \in DOMAIN outboundConns /\ outboundConns'[k] = outboundConns[k]
      BY <1>9, <2>2
    <3> QED BY <3>1 DEF OutboundOK
  <2> QED BY <2>1, <2>2
<1>11. TransportsAreUsed'
  <2>1. transports' = transports \cup {id}
    BY DEF Register
  <2>2. \A c \in Clients, u \in Templates, i \in Ids :
           Tracked(c, u, i)' <=> Tracked(c, u, i) \/ (c = s /\ u = t /\ i = id)
    BY <1>1 DEF Tracked
  <2> QED BY <2>1, <2>2 DEF TransportsAreUsed
<1>12. ASSUME RendersSteadily PROVE OutboundIsUsed'
  <2> SUFFICES ASSUME NEW k \in DOMAIN outboundConns'
               PROVE  \E c \in Clients, i \in DOMAIN pooled' :
                         Tracked(c, k.template, i)' /\ OutboundKey(k.template, pooled'[i].hash, c) = k
    BY DEF OutboundIsUsed, OutboundKey, Tracked
  <2>1. CASE k = okey
    <3>1. Tracked(s, t, id)' /\ k.template = t /\ OutboundKey(t, pooled'[id].hash, s) = k
      BY <1>1, <1>8, <2>1 DEF Tracked
    <3> QED BY <3>1
  <2>2. CASE k # okey
    <3> HIDE DEF okey
    <3>1. k \in DOMAIN outboundConns
      BY <1>9, <2>2
    <3>2. PICK c \in Clients, i \in DOMAIN pooled :
             Tracked(c, k.template, i) /\ OutboundKey(k.template, pooled[i].hash, c) = k
      BY <1>12, <3>1 DEF OutboundIsUsed
    <3>3. Tracked(c, k.template, i)' /\ pooled'[i].hash = pooled[i].hash
      BY <1>1, <3>2 DEF Tracked
    <3> QED BY <3>2, <3>3
  <2> QED BY <2>1, <2>2
<1> QED BY <1>4, <1>6, <1>7, <1>10, <1>11, <1>12

-----------------------------------------------------------------------------
(* What stays as it is for the sessions, whatever the pool and the tasks do*)
(* meanwhile.                                                              *)
LEMMA SessionsKept ==
    ASSUME ServersInv, UNCHANGED <<pooled, trackerVars, serverVars>>
    PROVE  /\ TrackerCounted' /\ UseIsRight' /\ OutboundOK' /\ HashesOK'
           /\ TransportsAreUsed'
           /\ RendersSteadily => OutboundIsUsed'
<1> USE DEF ServersInv, trackerVars, serverVars
<1>1. \A key : Users(key)' = Users(key)
  BY DEF Users
<1>2. TrackerCounted'
  BY <1>1 DEF TrackerCounted
<1>3. UseIsRight'
  BY <1>1 DEF UseIsRight
<1>4. OutboundOK' /\ HashesOK'
  BY DEF OutboundOK, HashesOK
<1>5. TransportsAreUsed' /\ (RendersSteadily => OutboundIsUsed')
  BY DEF TransportsAreUsed, OutboundIsUsed, Tracked
<1> QED BY <1>2, <1>3, <1>4, <1>5

(* The instance a session reuses is made for its context, and open.        *)
LEMMA GetExistingFacts ==
    ASSUME PoolOK, NEW s \in Clients, NEW t \in Templates, NEW h \in Hashes, GetExisting(s, t, h),
           NEW id, id = instances[Key(t, h, s)]
    PROVE  /\ PoolOK' /\ id \in DOMAIN pooled /\ DOMAIN pooled' = DOMAIN pooled
           /\ t \in Shareable /\ id \in Ids
           /\ \A i \in DOMAIN pooled :
              /\ pooled'[i].template = pooled[i].template
              /\ pooled'[i].hash = pooled[i].hash
              /\ pooled[i].clientIds \subseteq pooled'[i].clientIds
           /\ pooled'[id].template = t /\ pooled'[id].hash = h /\ s \in pooled'[id].clientIds
<1> USE DEF PoolOK
<1>1. /\ Key(t, h, s) \in DOMAIN instances /\ t \in Shareable
      /\ pooled' = [pooled EXCEPT ![id] = AddClient(@, s)]
      /\ UNCHANGED <<instances, templateToInstances, instanceCounter, creating, closing>>
  BY DEF GetExisting, Reusable
<1>2. Key(t, h, s).template = t /\ Key(t, h, s).hash = h
  BY DEF Key
<1>3. id \in DOMAIN pooled /\ pooled[id].template = t /\ pooled[id].hash = h
  BY <1>1, <1>2
<1>4. PICK old : old = pooled[id]
  OBVIOUS
<1>5. old \in Instance /\ ~old.closed
  BY <1>3, <1>4
<1>6. PICK new : new = AddClient(old, s)
  OBVIOUS
<1>7. /\ new \in Instance /\ ~new.closed
      /\ new.template = old.template /\ new.hash = old.hash
      /\ old.clientIds \subseteq new.clientIds /\ s \in new.clientIds
  <2>1. CASE s \in old.clientIds
    BY <1>5, <1>6, <2>1 DEF AddClient
  <2>2. CASE s \notin old.clientIds
    <3>1. old.clientIds \cup {s} \in SUBSET Clients /\ old.referenceCount + 1 \in Nat
      BY <1>5 DEF Instance
    <3>2. new = [old EXCEPT !.clientIds = @ \cup {s}, !.referenceCount = @ + 1,
                            !.status = "active", !.expired = FALSE]
      BY <1>6, <2>2 DEF AddClient
    <3>3. new \in Instance
      BY <1>5, <3>1, <3>2 DEF Instance
    <3>4. /\ ~new.closed
          /\ new.template = old.template /\ new.hash = old.hash
          /\ old.clientIds \subseteq new.clientIds /\ s \in new.clientIds
      BY <1>5, <3>2 DEF Instance
    <3> QED BY <3>3, <3>4
  <2> QED BY <2>1, <2>2
<1>8. /\ DOMAIN pooled' = DOMAIN pooled /\ pooled'[id] = new
      /\ \A i \in DOMAIN pooled : i # id => pooled'[i] = pooled[i]
  BY <1>1, <1>3, <1>4, <1>6
<1>9. \A i \in DOMAIN pooled :
              /\ pooled'[i].template = pooled[i].template
              /\ pooled'[i].hash = pooled[i].hash
              /\ pooled[i].clientIds \subseteq pooled'[i].clientIds
              /\ pooled'[i] \in Instance /\ ~pooled'[i].closed
  BY <1>4, <1>7, <1>8
<1>10. PoolOK'
  <2>1. /\ instanceCounter' \in Nat /\ DOMAIN pooled' = 1 .. instanceCounter'
        /\ IsFiniteSet(creating') /\ instanceCounter' + Cardinality(creating') <= MaxCreated
    BY <1>1, <1>8
  <2>2. \A k \in DOMAIN instances' :
          /\ k \in Keys /\ instances'[k] \in DOMAIN pooled'
          /\ pooled'[instances'[k]].template = k.template
          /\ pooled'[instances'[k]].hash = k.hash
    BY <1>1, <1>8, <1>9
  <2> QED BY <1>8, <1>9, <2>1, <2>2
<1>11. id \in Ids
  <2>1. instanceCounter <= MaxCreated
    <3>1. Cardinality(creating) \in Nat
      BY FS_CardinalityType
    <3> QED BY <3>1, PoolConstants
  <2> QED BY <1>3, <2>1, PoolConstants DEF Ids
<1> QED BY <1>1, <1>3, <1>4, <1>7, <1>8, <1>9, <1>10, <1>11

(* An instance created is new and made for the session that asked for it.  *)
LEMMA FinishCreateFacts ==
    ASSUME PoolOK, CallsOK, NEW call \in creating, FinishCreate(call),
           NEW id, id = instanceCounter'
    PROVE  /\ PoolOK' /\ creating' \subseteq creating
           /\ id \notin DOMAIN pooled /\ id \in DOMAIN pooled' /\ DOMAIN pooled \subseteq DOMAIN pooled'
           /\ id \in Ids
           /\ \A i \in DOMAIN pooled : pooled'[i] = pooled[i]
           /\ pooled'[id].template = call.template /\ pooled'[id].hash = call.hash
           /\ call.client \in pooled'[id].clientIds
<1> USE DEF PoolOK
<1> DEFINE key == Key(call.template, call.hash, call.client)
           new == [template |-> call.template, hash |-> call.hash,
                   referenceCount |-> 1, clientIds |-> {call.client},
                   status |-> "active", expired |-> FALSE, closed |-> FALSE]
<1>1. /\ id = instanceCounter + 1 /\ creating' = creating \ {call}
      /\ pooled' = [i \in DOMAIN pooled \cup {id} |-> IF i = id THEN new ELSE pooled[i]]
      /\ instances' = [k \in DOMAIN instances \cup {key} |-> IF k = key THEN id ELSE instances[k]]
  BY DEF FinishCreate
<1>2. /\ call.template \in Templates /\ call.hash \in Hashes /\ call.client \in Clients
  BY DEF CallsOK, Call
<1>3. new \in Instance /\ new.template = call.template /\ new.hash = call.hash
      /\ call.client \in new.clientIds /\ ~new.closed
  BY <1>2 DEF Instance
<1>4. key \in Keys /\ key.template = call.template /\ key.hash = call.hash
  BY <1>2 DEF Key, Keys
<1>5. /\ IsFiniteSet(creating') /\ Cardinality(creating) \in Nat
      /\ Cardinality(creating') = Cardinality(creating) - 1
  BY <1>1, FS_RemoveElement, FS_CardinalityType
<1>6. id \notin DOMAIN pooled /\ DOMAIN pooled \cup {id} = 1 .. id /\ id \in Nat
  BY <1>1
<1>7. /\ DOMAIN pooled' = 1 .. id /\ pooled'[id] = new
      /\ \A i \in DOMAIN pooled : pooled'[i] = pooled[i]
  BY <1>1, <1>6
<1>8. PoolOK'
  <2> HIDE DEF new, key
  <2>1. instanceCounter' \in Nat /\ DOMAIN pooled' = 1 .. instanceCounter'
    BY <1>6, <1>7
  <2>2. \A i \in DOMAIN pooled' : pooled'[i] \in Instance /\ ~pooled'[i].closed
    BY <1>1, <1>3, <1>7
  <2>3. \A k \in DOMAIN instances' :
          /\ k \in Keys /\ instances'[k] \in DOMAIN pooled'
          /\ pooled'[instances'[k]].template = k.template
          /\ pooled'[instances'[k]].hash = k.hash
    BY <1>1, <1>3, <1>4, <1>6, <1>7
  <2>4. instanceCounter' + Cardinality(creating') <= MaxCreated
    BY <1>1, <1>5, PoolConstants
  <2> QED BY <1>5, <2>1, <2>2, <2>3, <2>4
<1>9. id \in Ids
  <2>1. Cardinality(creating') \in Nat
    BY <1>5, FS_CardinalityType
  <2>2. instanceCounter + 1 <= MaxCreated
    BY <1>5, <2>1, PoolConstants
  <2> QED BY <1>1, <2>2, PoolConstants DEF Ids
<1> QED
  <2> HIDE DEF new
  <2> QED BY <1>1, <1>3, <1>6, <1>7, <1>8, <1>9

(* What advances a connect leaves its session and its context alone.       *)
LEMMA AdvanceKeeps ==
    ASSUME CallsOK, NEW r, Advance(r), creating' \subseteq creating, connected' = connected
    PROVE  CallsOK'
<1>1. \A q \in DOMAIN tasks' :
          /\ tasks'[q] \in [session : Clients, hash : Hashes, next : Nat \ {0}]
          /\ tasks'[q].hash \in RendersTo[tasks'[q].session]
  <2> SUFFICES ASSUME NEW q \in DOMAIN tasks'
               PROVE  /\ tasks'[q] \in [session : Clients, hash : Hashes, next : Nat \ {0}]
                      /\ tasks'[q].hash \in RendersTo[tasks'[q].session]
    OBVIOUS
  <2>1. q \in DOMAIN tasks /\ tasks'[q] = IF q = r THEN [tasks[q] EXCEPT !.next = @ + 1] ELSE tasks[q]
    BY DEF Advance
  <2>2. PICK old : old = tasks[q]
    OBVIOUS
  <2>3. old \in [session : Clients, hash : Hashes, next : Nat \ {0}] /\ old.hash \in RendersTo[old.session]
    BY <2>1, <2>2 DEF CallsOK
  <2>4. old.next + 1 \in Nat \ {0}
    BY <2>3
  <2> QED BY <2>1, <2>2, <2>3, <2>4
<1>2. \A call \in creating' : call \in Call /\ call.hash \in RendersTo[call.client]
  BY DEF CallsOK
<1> QED BY <1>1, <1>2 DEF CallsOK

(* What a task in its loop works on.                                       *)
LEMMA LoopFacts ==
    ASSUME CallsOK, NEW r, InLoop(r)
    PROVE  /\ tasks[r].session \in Clients /\ tasks[r].hash \in Hashes
           /\ tasks[r].hash \in RendersTo[tasks[r].session]
           /\ Template(r) \in Templates
<1>1. /\ tasks[r] \in [session : Clients, hash : Hashes, next : Nat \ {0}]
      /\ tasks[r].hash \in RendersTo[tasks[r].session]
      /\ tasks[r].next <= Len(TemplateOrder)
  BY DEF CallsOK, InLoop
<1>2. tasks[r].next \in 1 .. Len(TemplateOrder) /\ TemplateOrder \in Seq(Templates)
  BY <1>1, TemplateConstants
<1> QED BY <1>1, <1>2 DEF Template

-----------------------------------------------------------------------------
(* A connect begins, and ends.                                             *)
LEMMA ConnectInv ==
    ASSUME ServersInv, NEW r \in Requests, NEW s \in Clients, NEW h \in RendersTo[s], Connect(r, s, h)
    PROVE  ServersInv'
<1>1. UNCHANGED <<poolVars, trackerVars, serverVars, connected>>
  BY DEF Connect
<1>2. PoolOK'
  BY <1>1 DEF ServersInv, PoolOK, poolVars
<1>3. h \in Hashes
  BY TemplateConstants
<1>4. /\ DOMAIN tasks' = DOMAIN tasks \cup {r}
      /\ \A q \in DOMAIN tasks' :
            tasks'[q] = IF q = r THEN [session |-> s, hash |-> h, next |-> 1] ELSE tasks[q]
  BY DEF Connect, Put
<1>5. CallsOK'
  BY <1>1, <1>3, <1>4 DEF ServersInv, CallsOK, poolVars
<1>6. UNCHANGED <<pooled, trackerVars, serverVars>>
  BY <1>1 DEF poolVars
<1> QED BY <1>2, <1>5, <1>6, SessionsKept DEF ServersInv

(* A session's connect ends, well or not, when its servers are there.      *)
LEMMA ConnectEndsInv ==
    ASSUME ServersInv, NEW r \in Requests, NEW ok \in BOOLEAN, ConnectEnds(r, ok)
    PROVE  ServersInv'
<1>1. /\ UNCHANGED <<poolVars, trackerVars, serverVars>> /\ r \in DOMAIN tasks
      /\ connected' = IF ok THEN connected \cup {tasks[r].session} ELSE connected
  BY DEF ConnectEnds
<1>2. PoolOK'
  BY <1>1 DEF ServersInv, PoolOK, poolVars
<1>3. /\ DOMAIN tasks' \subseteq DOMAIN tasks
      /\ \A q \in DOMAIN tasks' : tasks'[q] = tasks[q]
  BY DEF ConnectEnds, Without
<1>4. tasks[r].session \in Clients
  BY <1>1 DEF ServersInv, CallsOK
<1>5. CallsOK'
  BY <1>1, <1>3, <1>4 DEF ServersInv, CallsOK, poolVars
<1>6. UNCHANGED <<pooled, trackerVars, serverVars>>
  BY <1>1 DEF poolVars
<1> QED BY <1>2, <1>5, <1>6, SessionsKept DEF ServersInv

(* The template is left out of the session: the limit is reached, or the   *)
(* instance could not be created.                                          *)
LEMMA LeftOutInv ==
    ASSUME ServersInv,
           (\E r \in Requests : Refused(r)) \/ (\E call \in creating : CreateFails(call))
    PROVE  ServersInv'
<1>1. ASSUME NEW r \in Requests, Refused(r) PROVE ServersInv'
  <2>1. UNCHANGED <<poolVars, trackerVars, serverVars, connected>> /\ Advance(r)
    BY <1>1 DEF Refused, LimitReached
  <2>2. PoolOK' /\ CallsOK'
    BY <2>1, AdvanceKeeps DEF ServersInv, PoolOK, poolVars
  <2>3. UNCHANGED <<pooled, trackerVars, serverVars>>
    BY <2>1 DEF poolVars
  <2> QED BY <2>2, <2>3, SessionsKept DEF ServersInv
<1>2. ASSUME NEW call \in creating, CreateFails(call) PROVE ServersInv'
  <2>1. /\ UNCHANGED <<instances, pooled, instanceCounter, trackerVars, serverVars, connected>>
        /\ Advance(call.req) /\ creating' = creating \ {call}
    BY <1>2 DEF CreateFails, FailCreate
  <2>2. /\ IsFiniteSet(creating') /\ Cardinality(creating) \in Nat
        /\ Cardinality(creating') = Cardinality(creating) - 1
    BY <2>1, FS_RemoveElement, FS_CardinalityType DEF ServersInv, PoolOK
  <2>3. PoolOK'
    BY <2>1, <2>2, PoolConstants DEF ServersInv, PoolOK
  <2>4. CallsOK'
    BY <2>1, AdvanceKeeps DEF ServersInv
  <2> QED BY <2>1, <2>3, <2>4, SessionsKept DEF ServersInv
<1> QED BY <1>1, <1>2

(* A connect that finds no instance begins to create one.                  *)
LEMMA StartCreateInv ==
    ASSUME ServersInv, NEW r \in Requests, StartCreate(r)
    PROVE  ServersInv'
<1>1. /\ InLoop(r) /\ UNCHANGED <<instances, pooled, instanceCounter, trackerVars, serverVars, tasks, connected>>
      /\ creating' = creating \cup
           {[req |-> r, client |-> tasks[r].session, template |-> Template(r), hash |-> tasks[r].hash]}
      /\ \A call \in creating : call.req # r
      /\ instanceCounter + Cardinality(creating) < MaxCreated
  BY DEF StartCreate, BeginCreate
<1>2. /\ tasks[r].session \in Clients /\ tasks[r].hash \in Hashes
      /\ tasks[r].hash \in RendersTo[tasks[r].session]
      /\ Template(r) \in Templates
  BY <1>1, LoopFacts DEF ServersInv
<1>3. PICK new : new = [req |-> r, client |-> tasks[r].session, template |-> Template(r), hash |-> tasks[r].hash]
  OBVIOUS
<1>4. new \in Call /\ new.hash \in RendersTo[new.client] /\ new.req = r
  BY <1>2, <1>3 DEF Call
<1>5. creating' = creating \cup {new} /\ new \notin creating
  BY <1>1, <1>3, <1>4
<1>6. /\ IsFiniteSet(creating') /\ Cardinality(creating) \in Nat
      /\ Cardinality(creating') = Cardinality(creating) + 1
  BY <1>5, FS_AddElement, FS_CardinalityType DEF ServersInv, PoolOK
<1>7. PoolOK'
  <2>1. instanceCounter + (Cardinality(creating) + 1) <= MaxCreated
    BY <1>1, <1>6, PoolConstants DEF ServersInv, PoolOK
  <2> QED BY <1>1, <1>6, <2>1 DEF ServersInv, PoolOK
<1>8. CallsOK'
  BY <1>1, <1>4, <1>5 DEF ServersInv, CallsOK
<1> QED BY <1>1, <1>7, <1>8, SessionsKept DEF ServersInv

(* A connect that finds an instance takes it as its own.                   *)
LEMMA UseExistingInv ==
    ASSUME ServersInv, NEW r \in Requests, UseExisting(r)
    PROVE  ServersInv'
<1>1. PICK s, t, h : s = tasks[r].session /\ t = Template(r) /\ h = tasks[r].hash
  OBVIOUS
<1>2. PICK id : id = instances[Key(t, h, s)]
  OBVIOUS
<1>3. /\ InLoop(r) /\ GetExisting(s, t, h) /\ Register(s, t, h, id) /\ Advance(r)
      /\ connected' = connected
  BY <1>1, <1>2 DEF UseExisting
<1>4. /\ s \in Clients /\ h \in Hashes /\ h \in RendersTo[s] /\ t \in Templates
  BY <1>1, <1>3, LoopFacts DEF ServersInv
<1>5. creating' = creating
  BY <1>3 DEF GetExisting
<1>6. CallsOK'
  BY <1>3, <1>5, AdvanceKeeps DEF ServersInv
<1>7. /\ PoolOK' /\ id \in DOMAIN pooled /\ DOMAIN pooled' = DOMAIN pooled
      /\ t \in Shareable /\ id \in Ids
      /\ \A i \in DOMAIN pooled :
              /\ pooled'[i].template = pooled[i].template
              /\ pooled'[i].hash = pooled[i].hash
              /\ pooled[i].clientIds \subseteq pooled'[i].clientIds
      /\ pooled'[id].template = t /\ pooled'[id].hash = h /\ s \in pooled'[id].clientIds
  BY <1>2, <1>3, <1>4, GetExistingFacts DEF ServersInv
<1>8. /\ TrackerCounted' /\ UseIsRight' /\ OutboundOK' /\ HashesOK'
      /\ TransportsAreUsed'
      /\ RendersSteadily => OutboundIsUsed'
  BY <1>3, <1>4, <1>7, RegisterInv
<1> QED BY <1>6, <1>7, <1>8 DEF ServersInv, RendersSteadily

(* An instance is there: the pool has it under its key, the session it was *)
(* made for uses it.                                                       *)
LEMMA CreateSucceedsInv ==
    ASSUME ServersInv, NEW call \in creating, CreateSucceeds(call)
    PROVE  ServersInv'
<1>1. PICK id : id = instanceCounter'
  OBVIOUS
<1>2. /\ FinishCreate(call) /\ Register(call.client, call.template, call.hash, id)
      /\ Advance(call.req) /\ connected' = connected
  BY <1>1 DEF CreateSucceeds
<1>3. /\ call.client \in Clients /\ call.template \in Templates /\ call.hash \in Hashes
      /\ call.hash \in RendersTo[call.client]
  BY DEF ServersInv, CallsOK, Call
<1>4. /\ PoolOK' /\ creating' \subseteq creating
      /\ id \notin DOMAIN pooled /\ id \in DOMAIN pooled' /\ DOMAIN pooled \subseteq DOMAIN pooled'
      /\ id \in Ids
      /\ \A i \in DOMAIN pooled : pooled'[i] = pooled[i]
      /\ pooled'[id].template = call.template /\ pooled'[id].hash = call.hash
      /\ call.client \in pooled'[id].clientIds
  BY <1>1, <1>2, FinishCreateFacts DEF ServersInv
<1>5. CallsOK'
  BY <1>2, <1>4, AdvanceKeeps DEF ServersInv
<1>6. /\ TrackerCounted' /\ UseIsRight' /\ OutboundOK' /\ HashesOK'
      /\ TransportsAreUsed'
      /\ RendersSteadily => OutboundIsUsed'
  BY <1>2, <1>3, <1>4, RegisterInv
<1> QED BY <1>4, <1>5, <1>6 DEF ServersInv, RendersSteadily

-----------------------------------------------------------------------------
(* What a disconnect cleans up is what nobody else uses.                   *)
LEMMA CleanedFacts ==
    ASSUME ServersInv, NEW s \in Clients
    PROVE  /\ Tracker!InstancesToCleanup(s) = {key \in clientRelationships[s] : Users(key) = {s}}
           /\ \A key \in Tracker!InstancesToCleanup(s) : RemainingClients(s, key) = 0
<1>1. ASSUME NEW key \in clientRelationships[s]
      PROVE  /\ key \in DOMAIN templateInstances
             /\ templateInstances[key].clientIds = Users(key)
             /\ Tracker!WithoutClient(templateInstances[key], s).referenceCount = 0 <=> Users(key) = {s}
  <2>1. /\ key \in DOMAIN templateInstances /\ s \in Users(key)
        /\ templateInstances[key] = [clientIds |-> Users(key), referenceCount |-> Cardinality(Users(key))]
    BY DEF ServersInv, TrackerCounted, Users
  <2>2. PICK U : U = Users(key)
    OBVIOUS
  <2>3. IsFiniteSet(U) /\ Cardinality(U) \in Nat /\ s \in U
    BY <2>1, <2>2, ScopesDiffer, FS_Subset, FS_CardinalityType DEF Users
  <2>4. Cardinality(U) = 1 <=> U = {s}
    <3>1. Cardinality(U) = 1 => \E x : U = {x}
      BY <2>3, FS_Singleton
    <3>2. Cardinality({s}) = 1
      BY FS_Singleton
    <3> QED BY <2>3, <3>1, <3>2
  <2>5. Tracker!WithoutClient(templateInstances[key], s).referenceCount = Cardinality(U) - 1
    BY <2>1, <2>2 DEF Tracker!WithoutClient
  <2> QED BY <2>1, <2>2, <2>3, <2>4, <2>5
<1>2. Tracker!InstancesToCleanup(s) = {key \in clientRelationships[s] : Users(key) = {s}}
  BY <1>1 DEF Tracker!InstancesToCleanup
<1>3. ASSUME NEW key \in Tracker!InstancesToCleanup(s) PROVE RemainingClients(s, key) = 0
  <2>1. templateInstances[key].clientIds \ {s} = {}
    BY <1>1, <1>2
  <2> QED BY <2>1, FS_EmptySet DEF RemainingClients
<1> QED BY <1>2, <1>3

(* A session that ends lets go of its instances.                           *)
LEMMA DisconnectInv ==
    ASSUME ServersInv, NEW s \in connected, Disconnect(s)
    PROVE  ServersInv'
<1> USE DEF ServersInv
<1>1. PICK cleaned : cleaned = Tracker!InstancesToCleanup(s)
  OBVIOUS
<1>2. /\ s \in Clients
      /\ cleaned = {key \in clientRelationships[s] : Users(key) = {s}}
      /\ \A key \in cleaned : RemainingClients(s, key) = 0
      /\ \A key \in cleaned : key \in Templates \X Ids
  BY <1>1, CleanedFacts DEF CallsOK, TrackerCounted
<1>3. /\ ReleaseInPool(s, cleaned)
      /\ outboundConns' = Without(outboundConns, RemovedOutbound(s, cleaned))
      /\ transports' = transports \ {key[2] : key \in {k \in cleaned : RemainingClients(s, k) = 0}}
      /\ sessionToRenderedHash' =
                [sessionToRenderedHash EXCEPT ![s] = Without(@, {key[1] : key \in cleaned})]
      /\ Tracker!RemoveClient(s)
      /\ tasks' = tasks /\ connected' = connected \ {s}
  BY <1>1 DEF Disconnect
<1>4. /\ DOMAIN pooled' = DOMAIN pooled /\ \A i \in DOMAIN pooled : pooled'[i] = pooled[i]
      /\ UNCHANGED <<instances, instanceCounter, creating>>
  <2>1. ASSUME NEW key \in cleaned PROVE PoolKeyUsed(key) \notin DOMAIN instances
    <3>1. key[2] \in Ids /\ PoolKeyUsed(key).hash = key[2]
      BY <1>2 DEF PoolKeyUsed
    <3>2. \A k \in DOMAIN instances : k.hash \in Hashes
      BY DEF PoolOK, Keys
    <3> QED BY <3>1, <3>2, ScopesDiffer
  <2> QED BY <1>3, <2>1 DEF ReleaseInPool
<1>5. PoolOK'
  BY <1>4 DEF PoolOK
<1>6. CallsOK'
  BY <1>3, <1>4 DEF CallsOK
<1>7. /\ clientRelationships' \in [Clients -> SUBSET (Templates \X Ids)]
      /\ clientRelationships'[s] = {}
      /\ \A c \in Clients : c # s => clientRelationships'[c] = clientRelationships[c]
      /\ DOMAIN templateInstances' = DOMAIN templateInstances
      /\ \A k \in DOMAIN templateInstances :
            templateInstances'[k] = IF k \in clientRelationships[s]
                                    THEN Tracker!WithoutClient(templateInstances[k], s)
                                    ELSE templateInstances[k]
  BY <1>2, <1>3 DEF Tracker!RemoveClient, TrackerCounted
<1>8. \A k : Users(k)' = Users(k) \ {s}
  BY <1>2, <1>7 DEF Users
<1>9. TrackerCounted'
  <2>1. ASSUME NEW k \in DOMAIN templateInstances
        PROVE  templateInstances'[k] = [clientIds |-> Users(k)', referenceCount |-> Cardinality(Users(k)')]
    <3>1. PICK U, V : U = Users(k) /\ V = U \ {s}
      OBVIOUS
    <3>2. /\ templateInstances[k] = [clientIds |-> U, referenceCount |-> Cardinality(U)]
          /\ Users(k)' = V
      BY <1>8, <3>1 DEF TrackerCounted
    <3>3. CASE k \in clientRelationships[s]
      <4>1. s \in U /\ IsFiniteSet(U)
        BY <1>2, <3>1, <3>3, ScopesDiffer, FS_Subset DEF Users
      <4>2. Cardinality(V) = Cardinality(U) - 1
        BY <3>1, <4>1, FS_RemoveElement
      <4> QED BY <1>7, <3>1, <3>2, <3>3, <4>2 DEF Tracker!WithoutClient
    <3>4. CASE k \notin clientRelationships[s]
      <4>1. V = U
        BY <3>1, <3>4 DEF Users
      <4> QED BY <1>7, <3>2, <3>4, <4>1
    <3> QED BY <3>3, <3>4
  <2>2. \A c \in Clients : clientRelationships'[c] \subseteq DOMAIN templateInstances'
    BY <1>7 DEF TrackerCounted
  <2> QED BY <1>7, <2>1, <2>2 DEF TrackerCounted
<1>10. /\ DOMAIN sessionToRenderedHash' = Clients
       /\ \A c \in Clients : c # s => sessionToRenderedHash'[c] = sessionToRenderedHash[c]
       /\ DOMAIN sessionToRenderedHash'[s] \subseteq DOMAIN sessionToRenderedHash[s]
       /\ \A t \in DOMAIN sessionToRenderedHash'[s] :
             sessionToRenderedHash'[s][t] = sessionToRenderedHash[s][t]
  BY <1>2, <1>3 DEF Without, HashesOK
<1>11. HashesOK'
  BY <1>10 DEF HashesOK
<1>12. UseIsRight'
  <2> SUFFICES ASSUME NEW c \in Clients, NEW key \in clientRelationships'[c]
               PROVE  /\ key[2] \in DOMAIN pooled'
                      /\ pooled'[key[2]].template = key[1]
                      /\ c \in pooled'[key[2]].clientIds
                      /\ pooled'[key[2]].hash \in RendersTo[c]
                      /\ key[1] \in DOMAIN sessionToRenderedHash'[c]
                      /\ key[1] \notin Shareable => Users(key)' = {c}
    BY DEF UseIsRight, Users
  <2>1. c # s /\ key \in clientRelationships[c]
    BY <1>7
  <2>2. key[1] \in DOMAIN sessionToRenderedHash'[c]
    BY <1>10, <2>1 DEF UseIsRight
  <2> QED BY <1>4, <1>8, <2>1, <2>2 DEF UseIsRight
<1>13. /\ DOMAIN outboundConns' = DOMAIN outboundConns \ RemovedOutbound(s, cleaned)
       /\ \A k \in DOMAIN outboundConns' : outboundConns'[k] = outboundConns[k]
  BY <1>3 DEF Without
<1>14. OutboundOK'
  BY <1>4, <1>13 DEF OutboundOK
<1>15. \A c \in Clients, t \in Templates, id \in Ids :
          Tracked(c, t, id)' <=> c # s /\ Tracked(c, t, id)
  BY <1>7 DEF Tracked
<1>16. TransportsAreUsed'
  <2>1. transports' = transports \ {key[2] : key \in cleaned}
    BY <1>2, <1>3
  <2>2. ASSUME NEW id \in transports' PROVE id \in Ids /\ \E c \in Clients, t \in Templates : Tracked(c, t, id)'
    <3>1. PICK c \in Clients, t \in Templates : id \in Ids /\ Tracked(c, t, id)
      BY <2>1, <2>2 DEF TransportsAreUsed
    <3>2. CASE c # s
      BY <1>15, <3>1, <3>2
    <3>3. CASE c = s
      <4>1. <<t, id>> \in clientRelationships[s] /\ <<t, id>>[2] = id
        BY <3>1, <3>3 DEF Tracked
      <4>2. <<t, id>> \notin cleaned
        BY <2>1, <2>2, <4>1
      <4>3. Users(<<t, id>>) # {s} /\ s \in Users(<<t, id>>)
        BY <1>2, <4>1, <4>2 DEF Users
      <4>4. PICK d \in Users(<<t, id>>) : d # s
        BY <4>3
      <4> QED BY <1>15, <3>1, <4>4 DEF Users, Tracked
    <3> QED BY <3>2, <3>3
  <2>3. ASSUME NEW c \in Clients, NEW t \in Templates, NEW id \in Ids, Tracked(c, t, id)'
        PROVE  id \in transports'
    <3>1. c # s /\ <<t, id>> \in clientRelationships[c]
      BY <1>15, <2>3 DEF Tracked
    <3>2. id \in transports
      BY <3>1 DEF TransportsAreUsed, Tracked
    <3>3. ASSUME NEW key \in cleaned, key[2] = id PROVE FALSE
      <4>1. key \in clientRelationships[s] /\ Users(key) = {s} /\ key \in Templates \X Ids
        BY <1>2
      <4>2. key[1] = t
        BY <1>2, <3>1, <3>3, <4>1 DEF UseIsRight
      <4>3. key = <<t, id>>
        BY <3>3, <4>1, <4>2
      <4> QED BY <3>1, <4>1, <4>3 DEF Users
    <3> QED BY <2>1, <3>2, <3>3
  <2> QED BY <2>2, <2>3 DEF TransportsAreUsed
<1>17. ASSUME RendersSteadily PROVE OutboundIsUsed'
  <2> SUFFICES ASSUME NEW k \in DOMAIN outboundConns'
               PROVE  \E c \in Clients, i \in DOMAIN pooled' :
                         Tracked(c, k.template, i)' /\ OutboundKey(k.template, pooled'[i].hash, c) = k
    BY DEF OutboundIsUsed, OutboundKey, Tracked
  <2>1. k \in DOMAIN outboundConns /\ k \notin RemovedOutbound(s, cleaned)
    BY <1>13
  <2>2. PICK c \in Clients, i \in DOMAIN pooled :
           Tracked(c, k.template, i) /\ OutboundKey(k.template, pooled[i].hash, c) = k
    BY <1>17, <2>1 DEF OutboundIsUsed
  <2>3. PICK t : t = k.template
    OBVIOUS
  <2>4. <<t, i>> \in clientRelationships[c] /\ t \in Templates /\ i \in Ids
    BY <2>2, <2>3 DEF Tracked, TrackerCounted
  <2>5. CASE c # s
    BY <1>4, <1>15, <2>2, <2>3, <2>4, <2>5
  <2>6. CASE c = s /\ Users(<<t, i>>) # {s}
    <3>1. PICK d \in Users(<<t, i>>) : d # s
      BY <2>4, <2>6 DEF Users
    <3>2. d \in Clients /\ Tracked(d, t, i)
      BY <3>1 DEF Users, Tracked
    <3>3. t \in Shareable
      <4>1. <<t, i>>[1] = t
        OBVIOUS
      <4> QED BY <2>4, <2>6, <4>1 DEF UseIsRight
    <3>4. OutboundKey(t, pooled[i].hash, d) = k
      BY <2>2, <2>3, <3>3 DEF OutboundKey
    <3> QED BY <1>4, <1>15, <2>3, <2>4, <3>1, <3>2, <3>4
  <2>7. CASE c = s /\ Users(<<t, i>>) = {s}
    <3>1. <<t, i>> \in cleaned /\ <<t, i>>[1] = t /\ <<t, i>>[2] = i
      BY <1>2, <2>4, <2>7
    <3>2. PICK h : h = sessionToRenderedHash[s][t]
      OBVIOUS
    <3>3. t \in DOMAIN sessionToRenderedHash[s] /\ h = pooled[i].hash /\ h \in Hashes
      <4>1. /\ t \in DOMAIN sessionToRenderedHash[s] /\ pooled[i].hash \in RendersTo[s]
        BY <1>2, <3>1, <2>4 DEF UseIsRight
      <4>2. h \in RendersTo[s] /\ RendersTo[s] \subseteq Hashes
        BY <1>2, <3>2, <4>1, TemplateConstants DEF HashesOK
      <4> QED BY <1>2, <1>17, <4>1, <4>2 DEF RendersSteadily
    <3>4. CleanupKey(s, t) = k
      <4>1. CASE t \in Shareable
        <5>1. k = [template |-> t, scope |-> h]
          BY <2>2, <2>3, <3>3, <4>1 DEF OutboundKey
        <5> QED BY <2>1, <3>2, <3>3, <5>1 DEF CleanupKey
      <4>2. CASE t \notin Shareable
        <5>1. k = [template |-> t, scope |-> s]
          BY <2>2, <2>3, <2>7, <4>2 DEF OutboundKey
        <5>2. [template |-> t, scope |-> h] \notin DOMAIN outboundConns
          <6>1. PICK g : g = [template |-> t, scope |-> h]
            OBVIOUS
          <6>2. g.template = t /\ g.scope = h
            BY <6>1
          <6> QED BY <3>3, <4>2, <6>1, <6>2 DEF OutboundOK
        <5> QED BY <3>2, <5>1, <5>2 DEF CleanupKey
      <4> QED BY <4>1, <4>2
    <3>5. k \in RemovedOutbound(s, cleaned)
      BY <1>2, <3>1, <3>4 DEF RemovedOutbound
    <3> QED BY <2>1, <3>5
  <2> QED BY <2>5, <2>6, <2>7
<1> QED BY <1>5, <1>6, <1>9, <1>11, <1>12, <1>14, <1>16, <1>17 DEF RendersSteadily

(* Every step of sessions and of the pool keeps ServersInv.                *)
LEMMA ServersNextInv == ServersInv /\ [Next]_vars => ServersInv'
<1> SUFFICES ASSUME ServersInv, [Next]_vars PROVE ServersInv'
  OBVIOUS
<1>1. ASSUME NEW r \in Requests, NEW s \in Clients, NEW h \in RendersTo[s], Connect(r, s, h)
      PROVE ServersInv'
  BY <1>1, ConnectInv
<1>2. ASSUME NEW r \in Requests, UseExisting(r) \/ StartCreate(r) PROVE ServersInv'
  BY <1>2, UseExistingInv, StartCreateInv
<1>3. ASSUME NEW r \in Requests, Refused(r) PROVE ServersInv'
  BY <1>3, LeftOutInv
<1>4. ASSUME NEW r \in Requests, NEW ok \in BOOLEAN, ConnectEnds(r, ok) PROVE ServersInv'
  BY <1>4, ConnectEndsInv
<1>5. ASSUME NEW call \in creating, CreateSucceeds(call) PROVE ServersInv'
  BY <1>5, CreateSucceedsInv
<1>6. ASSUME NEW call \in creating, CreateFails(call) PROVE ServersInv'
  BY <1>6, LeftOutInv
<1>7. ASSUME NEW s \in connected, Disconnect(s) PROVE ServersInv'
  BY <1>7, DisconnectInv
<1>8. CASE UNCHANGED vars
  <2>1. UNCHANGED <<pooled, trackerVars, serverVars>>
    BY <1>8 DEF vars, poolVars
  <2>2. PoolOK' /\ CallsOK'
    BY <1>8 DEF vars, poolVars, ServersInv, PoolOK, CallsOK
  <2> QED BY <2>1, <2>2, SessionsKept DEF ServersInv
<1> QED BY <1>1, <1>2, <1>3, <1>4, <1>5, <1>6, <1>7, <1>8 DEF Next

-----------------------------------------------------------------------------
(* In every behaviour the pool, the tracker and the manager's own tables   *)
(* agree.                                                                  *)
THEOREM ServersInvariant == Spec => []ServersInv
<1> QED BY ServersInitInv, ServersNextInv, PTL DEF Spec

(* A session is only ever tracked on, and routed to, open instances made   *)
(* for its context, for any sessions, templates, settings and limits.      *)
THEOREM SessionsStayFit == Spec => []SessionsFitInstances
<1>1. ASSUME ServersInv PROVE SessionsFitInstances
  <2>1. TrackedIsPooled
    <3> SUFFICES ASSUME NEW s \in Clients, NEW t \in Templates, NEW id \in Ids, Tracked(s, t, id)
                 PROVE  /\ id \in DOMAIN pooled /\ pooled[id].template = t
                        /\ s \in pooled[id].clientIds /\ ~pooled[id].closed
      BY DEF TrackedIsPooled
    <3>1. <<t, id>> \in clientRelationships[s] /\ <<t, id>>[1] = t /\ <<t, id>>[2] = id
      BY DEF Tracked
    <3>2. id \in DOMAIN pooled /\ pooled[id].template = t /\ s \in pooled[id].clientIds
      BY <1>1, <3>1 DEF ServersInv, UseIsRight
    <3> QED BY <1>1, <3>2 DEF ServersInv, PoolOK
  <2>2. OutboundFitsKey
    BY <1>1 DEF ServersInv, OutboundOK, OutboundFitsKey
  <2> QED BY <2>1, <2>2 DEF SessionsFitInstances
<1> QED BY <1>1, ServersInvariant, PTL

(* However sessions render their templates, no transport is left once the  *)
(* last session that uses it has gone (templateServerManager.ts:218-262).  *)
THEOREM TransportsStayUsed == Spec => []TransportsAreUsed
<1>1. ServersInv => TransportsAreUsed
  BY DEF ServersInv
<1> QED BY <1>1, ServersInvariant, PTL

(* The tables of running servers hold exactly what some session uses, as   *)
(* long as every connect of a session renders its templates the same way.  *)
THEOREM EntriesStayUsed ==
    ASSUME RendersSteadily
    PROVE  Spec => []EntriesAreUsed
<1>1. ServersInv => EntriesAreUsed
  BY DEF ServersInv, EntriesAreUsed
<1> QED BY <1>1, ServersInvariant, PTL
=============================================================================
