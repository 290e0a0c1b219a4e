--------------------------- MODULE Lookups_proofs ---------------------------
(***************************************************************************)
(* Proofs about what is looked up and found, or made: the capabilities of  *)
(* connected servers and the listing of them page by page, the server that *)
(* a proxy finds running, the variables a child is started with, the cached*)
(* answers of the registry, and the server behind a name that was listed.  *)
(* Each part has an inductive invariant of its own; the first two are two  *)
(* views of one map of connections.                                        *)
(***************************************************************************)
EXTENDS CapabilityUpdates, Pagination, ServerDiscovery, ChildEnvironment, RegistryClient,
    RequestDispatch, FiniteSetTheorems, WellFoundedInduction, TLAPS

-----------------------------------------------------------------------------
(***************************************************************************)
(* QuietOwesNothing is a claim about every way updates can overlap: each   *)
(* compares with the snapshot of its own beginning, stores its result over *)
(* that of a later one, and walks a map that changes under it.  What makes *)
(* it true is that the update which a server's loading started lists that  *)
(* very server before it is over: it is being asked, or further on in the  *)
(* map, or its lists have been seen.                                       *)
(***************************************************************************)

Snapshots == [ready : SUBSET Keys, items : [Kinds -> SUBSET Names]]
UpdateStates ==
    {u \in [at : {"none", "listing", "done"}, asked : Keys \cup {NoKey}, pos : Nat,
            prev : Snapshots, seen : Snapshots] : u.at = "listing" => u.asked \in Keys}

UpdatesTyped ==
    /\ updates \in [Keys \cup {Reload} -> UpdateStates]
    /\ current \in Snapshots
    /\ owed \subseteq Kinds
    /\ order \in Seq(Keys)
    /\ status = [k \in Keys |-> status[k]]

(* Server u, loaded after the snapshot its update compares with, brings x. *)
Brings(u, kind, x) ==
    /\ updates[u].at = "listing"
    /\ status[u] = "connected" /\ u \notin configured
    /\ x \in ItemsOf[u][kind] /\ x \notin updates[u].prev.items[kind]
    /\ \/ x \in updates[u].seen.items[kind]
       \/ updates[u].asked = u
       \/ \E j \in DOMAIN order : j > updates[u].pos /\ order[j] = u

OwedIsComing ==
    \A kind \in owed :
        \/ pending # NoBatch /\ kind \in pending
        \/ \E u \in Keys, x \in Names : Brings(u, kind, x)

UpdatesInv ==
    /\ UpdatesTyped
    /\ owed # {} => manager # NoManager
    /\ pending # NoBatch => timer
    /\ ~down => OwedIsComing

-----------------------------------------------------------------------------
(* A server offers the kinds it has items of.                              *)
LEMMA ItemFacts ==
    \A k \in Keys, kind \in Kinds :
        /\ ItemsOf[k][kind] \in SUBSET Names
        /\ ItemsOf[k][kind] # {} => kind \in Offers[k]
<1> SUFFICES ASSUME NEW k \in Keys, NEW kind \in Kinds
             PROVE  /\ ItemsOf[k][kind] \in SUBSET Names
                    /\ ItemsOf[k][kind] # {} => kind \in Offers[k]
  OBVIOUS
<1>1. ItemsOf[k] \in [Kinds -> SUBSET Names]
  BY UpdateConstants
<1>2. ItemsOf[k][kind] \in SUBSET Names
  BY <1>1
<1>3. Offers[k] = {d \in Kinds : ItemsOf[k][d] # {}}
  BY UpdateConstants
<1>4. QED
  BY <1>2, <1>3

(* A set of numbers has a least one.                                       *)
LEMMA LeastFacts ==
    ASSUME NEW S \in SUBSET Nat, S # {}
    PROVE  \E n \in S : \A l \in S : n <= l
<1>1. PICK Less : Less = {ss \in Nat \X Nat : ss[1] < ss[2]} /\ IsWellFoundedOn(Less, Nat)
  BY NatLessThanWellFounded, Zenon DEF OpToRel
<1>2. PICK n \in S : \A l \in S : ~(<<l, n>> \in Less)
  BY <1>1, WFMin
<1>3. ASSUME NEW l \in S
      PROVE  n <= l
  <2>1. n \in Nat /\ l \in Nat /\ <<l, n>> \notin Less
    BY <1>2
  <2>2. ~(l < n)
    BY <1>1, <2>1
  <2>3. QED
    BY <2>1, <2>2
<1>4. QED
  BY <1>3

(* The snapshots that updates begin with and end in.                       *)
LEMMA SnapshotFacts ==
    /\ Empty \in Snapshots
    /\ NoUpdate \in UpdateStates /\ NoUpdate.at = "none"
    /\ Done \in UpdateStates /\ Done.at = "done"
    /\ \A s \in Snapshots, k \in Keys :
          LET t == [s EXCEPT !.ready = @ \cup {k}]
          IN  t \in Snapshots /\ t.items = s.items
BY DEF Empty, NoUpdate, Done, Snapshots, UpdateStates

(* An update that waits for the lists of the map's n-th server.            *)
Listing(n, prev, seen) ==
    [at |-> "listing", asked |-> order'[n], pos |-> n, prev |-> prev,
     seen |-> [seen EXCEPT !.ready = @ \cup {order'[n]}]]

(* Either no connected server is left, or the walk stops at the next one.  *)
LEMMA WalkFacts ==
    ASSUME NEW us, NEW u, NEW i \in Nat, NEW prev, NEW seen, order' \in Seq(Keys),
           Walk(us, u, i, prev, seen)
    PROVE  \/ /\ \A j \in DOMAIN order' : j > i => status'[order'[j]] # "connected"
              /\ updates' = [us EXCEPT ![u] = Done]
              /\ IF u = Reload THEN FinishReload(seen) ELSE FinishLoaded(prev, seen)
           \/ \E n \in DOMAIN order' :
                 /\ \A j \in DOMAIN order' : j > i /\ status'[order'[j]] = "connected" => n <= j
                 /\ updates' = [us EXCEPT ![u] = Listing(n, prev, seen)]
                 /\ UNCHANGED <<current, pending, timer, batches>>
<1> DEFINE left == {j \in DOMAIN order' : j > i /\ status'[order'[j]] = "connected"}
           next == CHOOSE j \in left : \A l \in left : j <= l
<1>1. CASE left = {}
  BY <1>1 DEF Walk
<1>2. CASE left # {}
  <2>1. left \in SUBSET Nat
    OBVIOUS
  <2>2. \E n \in left : \A l \in left : n <= l
    BY <1>2, <2>1, LeastFacts
  <2> HIDE DEF left
  <2>3. next \in left /\ \A l \in left : next <= l
    BY <2>2
  <2> USE DEF left
  <2>4. /\ updates' = [us EXCEPT ![u] = Listing(next, prev, seen)]
        /\ UNCHANGED <<current, pending, timer, batches>>
    BY <1>2 DEF Walk, Listing
  <2> HIDE DEF next
  <2>5. QED
    BY <2>3, <2>4
<1>3. QED
  BY <1>1, <1>2

(* A change that is found adds its kinds to the batch and arms the timer.  *)
LEMMA FinishFacts ==
    ASSUME pending # NoBatch => timer, NEW prev \in Snapshots, NEW seen \in Snapshots,
           FinishLoaded(prev, seen) \/ FinishReload(seen)
    PROVE  /\ pending' # NoBatch => timer'
           /\ \A kind \in Kinds : pending # NoBatch /\ kind \in pending
                                  => pending' # NoBatch /\ kind \in pending'
           /\ current' \in {seen, current}
           /\ FinishLoaded(prev, seen) /\ manager # NoManager /\ ~down =>
                 \A kind \in ChangedKinds(prev, seen) : pending' # NoBatch /\ kind \in pending'
<1>1. \A kind \in Kinds : kind \notin NoBatch
  BY UpdateConstants DEF NoBatch
<1>2. ChangedKinds(prev, seen) \subseteq Kinds
  BY DEF ChangedKinds
<1>3. CASE FinishReload(seen) /\ ~FinishLoaded(prev, seen)
  BY <1>3 DEF FinishReload
<1>4. CASE FinishLoaded(prev, seen)
  <2>1. current' = seen
    BY <1>4 DEF FinishLoaded
  <2>2. CASE HasChanges(prev, seen) /\ ~down /\ manager # NoManager
    <3>1. Schedule(ChangedKinds(prev, seen))
      BY <1>4, <2>2 DEF FinishLoaded
    <3> DEFINE changed == ChangedKinds(prev, seen)
    <3> HIDE DEF changed
    <3>2. /\ timer' = TRUE
          /\ pending' = IF pending = NoBatch THEN changed ELSE pending \cup changed
      BY <3>1 DEF Schedule, changed
    <3>3. \A kind \in Kinds : kind \in pending' => pending' # NoBatch
      BY <1>1
    <3>4. \A kind \in changed : kind \in Kinds /\ kind \in pending'
      BY <1>2, <3>2 DEF changed
    <3>5. \A kind \in Kinds : pending # NoBatch /\ kind \in pending => kind \in pending'
      BY <3>2
    <3>6. QED
      BY <2>1, <3>2, <3>3, <3>4, <3>5 DEF changed
  <2>3. CASE ~(HasChanges(prev, seen) /\ ~down /\ manager # NoManager)
    <3>1. UNCHANGED <<pending, timer>>
      BY <1>4, <2>3 DEF FinishLoaded
    <3>2. ~down /\ manager # NoManager => ChangedKinds(prev, seen) = {}
      BY <2>3 DEF HasChanges
    <3>3. QED
      BY <2>1, <3>1, <3>2
  <2>4. QED
    BY <2>2, <2>3
<1>5. QED
  BY <1>3, <1>4

(* What a walk does to updates and batch: nothing gets lost, and a server  *)
(* that is ahead of the walk, or whose lists were seen, still is or was,   *)
(* or its kinds are in the batch.                                          *)
LEMMA WalkInv ==
    ASSUME NEW us \in [Keys \cup {Reload} -> UpdateStates], NEW u \in Keys \cup {Reload},
           NEW i \in Nat, NEW prev \in Snapshots, NEW seen \in Snapshots,
           Walk(us, u, i, prev, seen),
           order' \in Seq(Keys), current \in Snapshots, pending # NoBatch => timer
    PROVE  /\ updates' \in [Keys \cup {Reload} -> UpdateStates]
           /\ \A w \in Keys : w # u => updates'[w] = us[w]
           /\ current' \in Snapshots
           /\ pending' # NoBatch => timer'
           /\ \A kind \in Kinds : pending # NoBatch /\ kind \in pending
                                  => pending' # NoBatch /\ kind \in pending'
           /\ \A kind \in Kinds, x \in Names :
                 /\ u \in Keys /\ manager # NoManager /\ ~down
                 /\ status'[u] = "connected" /\ u \notin configured'
                 /\ x \in ItemsOf[u][kind] /\ x \notin prev.items[kind]
                 /\ x \in seen.items[kind] \/ \E j \in DOMAIN order' : j > i /\ order'[j] = u
                 => \/ pending' # NoBatch /\ kind \in pending'
                    \/ Brings(u, kind, x)'
<1>1. CASE /\ \A j \in DOMAIN order' : j > i => status'[order'[j]] # "connected"
           /\ updates' = [us EXCEPT ![u] = Done]
           /\ IF u = Reload THEN FinishReload(seen) ELSE FinishLoaded(prev, seen)
  <2>1. updates' \in [Keys \cup {Reload} -> UpdateStates] /\ \A w \in Keys : w # u => updates'[w] = us[w]
    BY <1>1, SnapshotFacts
  <2>2. u \in Keys => FinishLoaded(prev, seen)
    BY <1>1, UpdateConstants DEF Reload
  <2>3. ASSUME NEW kind \in Kinds, NEW x \in Names, x \notin prev.items[kind], x \in seen.items[kind]
        PROVE  kind \in ChangedKinds(prev, seen)
    BY <2>3 DEF ChangedKinds
  <2>4. QED
    BY <1>1, <2>1, <2>2, <2>3, FinishFacts
<1>2. ASSUME NEW n \in DOMAIN order',
             \A j \in DOMAIN order' : j > i /\ status'[order'[j]] = "connected" => n <= j,
             updates' = [us EXCEPT ![u] = Listing(n, prev, seen)],
             UNCHANGED <<current, pending, timer, batches>>
      PROVE  /\ updates' \in [Keys \cup {Reload} -> UpdateStates]
             /\ \A w \in Keys : w # u => updates'[w] = us[w]
             /\ \A kind \in Kinds, x \in Names :
                   /\ u \in Keys /\ status'[u] = "connected" /\ u \notin configured'
                   /\ x \in ItemsOf[u][kind] /\ x \notin prev.items[kind]
                   /\ x \in seen.items[kind] \/ \E j \in DOMAIN order' : j > i /\ order'[j] = u
                   => Brings(u, kind, x)'
  <2>1. PICK k \in Keys : k = order'[n]
    OBVIOUS
  <2>2. PICK t \in Snapshots : t = [seen EXCEPT !.ready = @ \cup {k}] /\ t.items = seen.items
    BY SnapshotFacts
  <2>3. PICK r : r = [at |-> "listing", asked |-> k, pos |-> n, prev |-> prev, seen |-> t]
    OBVIOUS
  <2>4. /\ r \in UpdateStates /\ r.at = "listing" /\ r.asked = k /\ r.pos = n /\ r.prev = prev
        /\ r.seen = t
    BY <2>3 DEF UpdateStates
  <2>5. updates' = [us EXCEPT ![u] = r]
    BY <1>2, <2>1, <2>2, <2>3 DEF Listing
  <2>6. updates' \in [Keys \cup {Reload} -> UpdateStates] /\ updates'[u] = r
    BY <2>4, <2>5
  <2>7. ASSUME NEW kind \in Kinds, NEW x \in Names,
               u \in Keys, status'[u] = "connected", u \notin configured',
               x \in ItemsOf[u][kind], x \notin prev.items[kind],
               x \in seen.items[kind] \/ \E j \in DOMAIN order' : j > i /\ order'[j] = u
        PROVE  Brings(u, kind, x)'
    <3>1. ASSUME NEW j \in DOMAIN order', j > i, order'[j] = u
          PROVE  k = u \/ \E l \in DOMAIN order' : l > n /\ order'[l] = u
      BY <1>2, <2>1, <2>7, <3>1
    <3>2. QED
      BY <2>2, <2>4, <2>6, <2>7, <3>1 DEF Brings
  <2>8. QED
    BY <2>5, <2>6, <2>7
<1>3. CASE \E n \in DOMAIN order' :
              /\ \A j \in DOMAIN order' : j > i /\ status'[order'[j]] = "connected" => n <= j
              /\ updates' = [us EXCEPT ![u] = Listing(n, prev, seen)]
              /\ UNCHANGED <<current, pending, timer, batches>>
  <2>1. UNCHANGED <<current, pending, timer>>
    BY <1>3
  <2>2. QED
    BY <1>2, <1>3, <2>1
<1>4. QED
  BY <1>1, <1>3, WalkFacts

-----------------------------------------------------------------------------
(* UpdatesInv holds before anything is loaded.                             *)
LEMMA UpdatesInitInv == Init => UpdatesInv
<1> SUFFICES ASSUME Init PROVE UpdatesInv
  OBVIOUS
<1>1. UpdatesTyped
  BY SnapshotFacts DEF Init, RoutingInit, UpdatesTyped
<1>2. QED
  BY <1>1 DEF Init, UpdatesInv, OwedIsComing

(* Setting an entry appends its key to the map if it is new there.         *)
LEMMA EntryFacts ==
    ASSUME UpdatesTyped, NEW k \in Keys, NEW st, SetEntry(k, st)
    PROVE  /\ order' \in Seq(Keys)
           /\ DOMAIN order \subseteq DOMAIN order' /\ \A j \in DOMAIN order : order'[j] = order[j]
           /\ \E j \in DOMAIN order' : j > 0 /\ order'[j] = k
           /\ status' = [w \in Keys |-> status'[w]]
           /\ status'[k] = st /\ \A w \in Keys : w # k => status'[w] = status[w]
           /\ configured' = configured \ {k}
<1>1. order \in Seq(Keys) /\ status = [w \in Keys |-> status[w]]
  BY DEF UpdatesTyped
<1>2. /\ status' = [status EXCEPT ![k] = st] /\ configured' = configured \ {k}
      /\ order' = IF k \in InMap THEN order ELSE Append(order, k)
  BY DEF SetEntry
<1>a. /\ status' = [w \in Keys |-> status'[w]]
      /\ status'[k] = st /\ \A w \in Keys : w # k => status'[w] = status[w]
  BY <1>1, <1>2
<1>3. CASE k \in InMap
  <2>1. order' = order /\ \E j \in DOMAIN order : order[j] = k
    BY <1>2, <1>3 DEF InMap
  <2>2. QED
    BY <1>1, <1>2, <1>a, <2>1
<1>4. CASE k \notin InMap
  <2>1. order' = Append(order, k)
    BY <1>2, <1>4
  <2>2. /\ order' \in Seq(Keys) /\ Len(order') = Len(order) + 1 /\ order'[Len(order) + 1] = k
        /\ \A j \in 1 .. Len(order) : order'[j] = order[j]
        /\ DOMAIN order = 1 .. Len(order) /\ DOMAIN order' = 1 .. Len(order) + 1
    BY <1>1, <2>1
  <2>3. Len(order) \in Nat
    BY <1>1
  <2>4. QED
    BY <1>2, <1>a, <2>2, <2>3
<1>5. QED
  BY <1>3, <1>4

(* A server that brings something goes on to do so while it stays          *)
(* connected, its update rests and the map only grows.                     *)
LEMMA BringsStays ==
    ASSUME NEW w \in Keys, NEW kind, NEW x, Brings(w, kind, x),
           updates'[w] = updates[w], status'[w] = status[w], configured' \subseteq configured,
           DOMAIN order \subseteq DOMAIN order', \A j \in DOMAIN order : order'[j] = order[j]
    PROVE  Brings(w, kind, x)'
BY DEF Brings

(* A server is loaded: the update it starts has it ahead.                  *)
LEMMA LoadInv == UpdatesInv /\ (\E k \in Keys : Load(k)) => UpdatesInv'
<1> SUFFICES ASSUME UpdatesInv, NEW k \in Keys, Load(k) PROVE UpdatesInv'
  OBVIOUS
<1>1. /\ UpdatesTyped /\ (owed # {} => manager # NoManager) /\ (pending # NoBatch => timer)
      /\ (~down => OwedIsComing)
  BY DEF UpdatesInv
<1>2. /\ updates[k].at = "none" /\ SetEntry(k, "connected") /\ status[k] # "connected"
      /\ UNCHANGED <<manager, down>>
  BY DEF Load, ServerConnects
<1>3. /\ order' \in Seq(Keys)
      /\ DOMAIN order \subseteq DOMAIN order' /\ \A j \in DOMAIN order : order'[j] = order[j]
      /\ \E j \in DOMAIN order' : j > 0 /\ order'[j] = k
      /\ status' = [w \in Keys |-> status'[w]]
      /\ status'[k] = "connected" /\ \A w \in Keys : w # k => status'[w] = status[w]
      /\ configured' = configured \ {k}
  BY <1>1, <1>2, EntryFacts
<1>4. updates \in [Keys \cup {Reload} -> UpdateStates] /\ current \in Snapshots /\ owed \subseteq Kinds
  BY <1>1 DEF UpdatesTyped
<1>5. owed' \subseteq Kinds /\ (owed' # {} => manager' # NoManager)
  BY <1>1, <1>2, <1>4 DEF Load, NoManager
<1>6. CASE down
  <2>1. updates' = [updates EXCEPT ![k] = Done] /\ UNCHANGED <<current, pending, timer, batches>>
    BY <1>6 DEF Load
  <2>2. UpdatesTyped'
    BY <1>3, <1>4, <1>5, <2>1, SnapshotFacts DEF UpdatesTyped
  <2>3. QED
    BY <1>1, <1>2, <1>5, <1>6, <2>1, <2>2 DEF UpdatesInv
<1>7. CASE ~down
  <2>1. Walk(updates, k, 0, current, Empty)
    BY <1>7 DEF Load
  <2>2. /\ updates' \in [Keys \cup {Reload} -> UpdateStates]
        /\ \A w \in Keys : w # k => updates'[w] = updates[w]
        /\ current' \in Snapshots
        /\ pending' # NoBatch => timer'
        /\ \A kind \in Kinds : pending # NoBatch /\ kind \in pending
                               => pending' # NoBatch /\ kind \in pending'
        /\ \A kind \in Kinds, x \in Names :
              /\ k \in Keys /\ manager # NoManager /\ ~down
              /\ status'[k] = "connected" /\ k \notin configured'
              /\ x \in ItemsOf[k][kind] /\ x \notin current.items[kind]
              /\ x \in Empty.items[kind] \/ \E j \in DOMAIN order' : j > 0 /\ order'[j] = k
              => \/ pending' # NoBatch /\ kind \in pending'
                 \/ Brings(k, kind, x)'
    BY <1>1, <1>3, <1>4, <2>1, SnapshotFacts, WalkInv
  <2>3. UpdatesTyped'
    BY <1>3, <1>5, <2>2 DEF UpdatesTyped
  <2>4. ASSUME NEW kind \in owed'
        PROVE  \/ pending' # NoBatch /\ kind \in pending'
               \/ \E u \in Keys, x \in Names : Brings(u, kind, x)'
    <3>1. kind \in Kinds
      BY <1>5
    <3>2. CASE kind \in owed
      <4>1. CASE pending # NoBatch /\ kind \in pending
        BY <2>2, <3>1, <4>1
      <4>2. ASSUME NEW u \in Keys, NEW x \in Names, Brings(u, kind, x)
            PROVE  Brings(u, kind, x)'
        <5>1. u # k
          BY <1>2, <4>2 DEF Brings
        <5>2. QED
          BY <1>3, <2>2, <4>2, <5>1, BringsStays
      <4>3. QED
        BY <1>1, <1>7, <3>2, <4>1, <4>2 DEF OwedIsComing
    <3>3. CASE kind \notin owed
      <4>1. manager.alive /\ ~(ItemsOf[k][kind] \subseteq current.items[kind])
        BY <3>3 DEF Load
      <4>a. ItemsOf[k][kind] \subseteq Names
        BY <3>1, ItemFacts
      <4>2. PICK x \in Names : x \in ItemsOf[k][kind] /\ x \notin current.items[kind]
        BY <4>1, <4>a
      <4>3. manager # NoManager /\ k \notin configured'
        BY <1>3, <4>1 DEF NoManager
      <4>4. QED
        BY <1>3, <1>7, <2>2, <3>1, <4>2, <4>3
    <3>4. QED
      BY <3>2, <3>3
  <2>5. QED
    BY <1>5, <2>2, <2>3, <2>4 DEF UpdatesInv, OwedIsComing
<1>8. QED
  BY <1>6, <1>7

(* A hot reload: what was owed was owed of servers that are gone.          *)
LEMMA HotReloadInv ==
    ASSUME UpdatesInv, NEW k \in Keys, NEW st, HotReload(k, st)
    PROVE  UpdatesInv'
<1>1. UpdatesTyped /\ (pending # NoBatch => timer)
  BY DEF UpdatesInv
<1>2. updates \in [Keys \cup {Reload} -> UpdateStates] /\ current \in Snapshots
  BY <1>1 DEF UpdatesTyped
<1>3. order' = <<k>> /\ status' = [j \in Keys |-> IF j = k THEN st ELSE "absent"] /\ owed' = {}
  BY DEF HotReload, HotStart
<1>4. Restarted \in [Keys \cup {Reload} -> UpdateStates]
  <2>1. \A u \in Keys \cup {Reload} : [updates[u] EXCEPT !.pos = 0] \in UpdateStates
    BY <1>2 DEF UpdateStates
  <2>2. QED
    BY <1>2, <2>1 DEF Restarted
<1>5. Walk(Restarted, Reload, 0, Empty, Empty)
  BY DEF HotReload
<1>6. order' \in Seq(Keys) /\ Empty \in Snapshots
  BY <1>3, SnapshotFacts
<1>7. /\ updates' \in [Keys \cup {Reload} -> UpdateStates] /\ current' \in Snapshots
      /\ pending' # NoBatch => timer'
  <2>1. Reload \in Keys \cup {Reload} /\ 0 \in Nat
    OBVIOUS
  <2> HIDE DEF Restarted
  <2>2. QED
    BY <1>1, <1>2, <1>4, <1>5, <1>6, <2>1, WalkInv
<1>8. UpdatesTyped'
  BY <1>3, <1>6, <1>7 DEF UpdatesTyped
<1>9. QED
  BY <1>3, <1>7, <1>8 DEF UpdatesInv, OwedIsComing

(* Lists arrive: those of the server that is asked have been seen from     *)
(* then on, or have failed and are not owed.                               *)
LEMMA ListsInv ==
    ASSUME UpdatesInv, NEW u \in Keys \cup {Reload}, NEW failing \in SUBSET Kinds, Lists(u, failing)
    PROVE  UpdatesInv'
<1>1. /\ UpdatesTyped /\ (owed # {} => manager # NoManager) /\ (pending # NoBatch => timer)
      /\ (~down => OwedIsComing)
  BY DEF UpdatesInv
<1>2. /\ updates \in [Keys \cup {Reload} -> UpdateStates] /\ current \in Snapshots
      /\ owed \subseteq Kinds /\ order \in Seq(Keys)
  BY <1>1 DEF UpdatesTyped
<1>3. PICK k : k = updates[u].asked
  OBVIOUS
<1>4. PICK old \in Snapshots : old = updates[u].seen
  BY <1>2 DEF UpdateStates
<1>5. PICK prev \in Snapshots : prev = updates[u].prev
  BY <1>2 DEF UpdateStates
<1>6. PICK i \in Nat : i = updates[u].pos
  BY <1>2 DEF UpdateStates
<1> DEFINE items == [kind \in Kinds |-> IF kind \in failing THEN old.items[kind]
                                        ELSE old.items[kind] \cup Filtered(k, kind)]
<1>7. PICK seen : seen = [old EXCEPT !.items = items]
  OBVIOUS
<1>8. /\ updates[u].at = "listing" /\ Walk(updates, u, i, prev, seen)
      /\ UNCHANGED <<order, status, configured, manager, down>>
      /\ owed' = owed \ (Offers[k] \cap failing)
  BY <1>3, <1>4, <1>5, <1>6, <1>7 DEF Lists, InFlight, routingVars, connVars
<1>9. k \in Keys
  BY <1>2, <1>3, <1>8 DEF UpdateStates
<1>10. old.items \in [Kinds -> SUBSET Names] /\ items \in [Kinds -> SUBSET Names]
  <2>1. old.items \in [Kinds -> SUBSET Names]
    BY DEF Snapshots
  <2>2. \A kind \in Kinds : Filtered(k, kind) \subseteq Names
    BY <1>9, ItemFacts DEF Filtered
  <2>3. QED
    BY <2>1, <2>2
<1> HIDE DEF items
<1>11. seen \in Snapshots /\ seen.items = items
  BY <1>7, <1>10 DEF Snapshots
<1>12. /\ updates' \in [Keys \cup {Reload} -> UpdateStates]
       /\ \A w \in Keys : w # u => updates'[w] = updates[w]
       /\ current' \in Snapshots
       /\ pending' # NoBatch => timer'
       /\ \A kind \in Kinds : pending # NoBatch /\ kind \in pending
                              => pending' # NoBatch /\ kind \in pending'
       /\ \A kind \in Kinds, x \in Names :
             /\ u \in Keys /\ manager # NoManager /\ ~down
             /\ status'[u] = "connected" /\ u \notin configured'
             /\ x \in ItemsOf[u][kind] /\ x \notin prev.items[kind]
             /\ x \in seen.items[kind] \/ \E j \in DOMAIN order' : j > i /\ order'[j] = u
             => \/ pending' # NoBatch /\ kind \in pending'
                \/ Brings(u, kind, x)'
  BY <1>1, <1>2, <1>8, <1>11, WalkInv
<1>13. UpdatesTyped'
  BY <1>1, <1>2, <1>8, <1>12 DEF UpdatesTyped
<1>14. ASSUME ~down, NEW kind \in owed'
       PROVE  \/ pending' # NoBatch /\ kind \in pending'
              \/ \E w \in Keys, x \in Names : Brings(w, kind, x)'
  <2>1. kind \in Kinds /\ kind \in owed /\ ~(kind \in Offers[k] /\ kind \in failing)
    BY <1>2, <1>8, <1>14
  <2>2. CASE pending # NoBatch /\ kind \in pending
    BY <1>12, <2>1, <2>2
  <2>3. ASSUME NEW w \in Keys, w # u, NEW x \in Names, Brings(w, kind, x)
        PROVE  Brings(w, kind, x)'
    BY <1>8, <1>12, <2>3, BringsStays
  <2>4. ASSUME u \in Keys, NEW x \in Names, Brings(u, kind, x)
        PROVE  \/ pending' # NoBatch /\ kind \in pending'
               \/ Brings(u, kind, x)'
    <3>1. /\ status[u] = "connected" /\ u \notin configured
          /\ x \in ItemsOf[u][kind] /\ x \notin prev.items[kind]
          /\ \/ x \in old.items[kind]
             \/ k = u
             \/ \E j \in DOMAIN order : j > i /\ order[j] = u
      BY <1>3, <1>4, <1>5, <1>6, <2>4 DEF Brings
    <3>2. x \in old.items[kind] => x \in seen.items[kind]
      BY <1>11, <2>1 DEF items
    <3>3. k = u => x \in seen.items[kind]
      <4>1. ItemsOf[u][kind] # {} => kind \in Offers[u]
        BY <2>1, <2>4, ItemFacts
      <4>2. SUFFICES ASSUME k = u PROVE x \in seen.items[kind]
        OBVIOUS
      <4>3. kind \notin failing
        BY <2>1, <3>1, <4>1, <4>2
      <4>4. x \in Filtered(k, kind)
        BY <3>1, <4>2 DEF Filtered
      <4>5. QED
        BY <1>11, <2>1, <4>3, <4>4 DEF items
    <3>4. manager # NoManager
      BY <1>1, <2>1
    <3>5. QED
      BY <1>8, <1>12, <1>14, <2>1, <2>4, <3>1, <3>2, <3>3, <3>4
  <2>5. QED
    BY <1>1, <1>14, <2>1, <2>2, <2>3, <2>4 DEF OwedIsComing
<1>15. owed' # {} => manager' # NoManager
  BY <1>1, <1>8
<1>16. QED
  BY <1>8, <1>12, <1>13, <1>14, <1>15 DEF UpdatesInv, OwedIsComing

(* A step that neither loads nor lists anything, and owes nothing more.    *)
LEMMA QuietStepInv ==
    ASSUME UpdatesInv, UNCHANGED <<updates, current, configured>>,
           order' \in Seq(Keys), DOMAIN order \subseteq DOMAIN order',
           \A j \in DOMAIN order : order'[j] = order[j],
           status' = [w \in Keys |-> status'[w]],
           owed' \subseteq owed, owed' # {} => manager' # NoManager \/ UNCHANGED manager,
           pending' # NoBatch => timer',
           ~down' => ~down,
           ~down' => \A kind \in owed' :
               /\ pending # NoBatch /\ kind \in pending => pending' # NoBatch /\ kind \in pending'
               /\ \A w \in Keys : ItemsOf[w][kind] # {} => status'[w] = status[w]
    PROVE  UpdatesInv'
<1>1. UpdatesTyped'
  BY DEF UpdatesInv, UpdatesTyped
<1>2. ASSUME ~down', NEW kind \in owed'
      PROVE  \/ pending' # NoBatch /\ kind \in pending'
             \/ \E w \in Keys, x \in Names : Brings(w, kind, x)'
  <2>1. ASSUME NEW w \in Keys, NEW x \in Names, Brings(w, kind, x)
        PROVE  Brings(w, kind, x)'
    <3>1. status'[w] = status[w]
      BY <1>2, <2>1 DEF Brings
    <3>2. QED
      BY <2>1, <3>1, BringsStays
  <2>2. QED
    BY <1>2, <2>1 DEF UpdatesInv, OwedIsComing
<1>3. owed' # {} => manager' # NoManager
  BY DEF UpdatesInv
<1>4. QED
  BY <1>1, <1>2, <1>3 DEF UpdatesInv, OwedIsComing

(* Every step keeps UpdatesInv.                                            *)
LEMMA UpdatesNextInv == UpdatesInv /\ [Next]_vars => UpdatesInv'
<1> SUFFICES ASSUME UpdatesInv, [Next]_vars PROVE UpdatesInv'
  OBVIOUS
<1>1. /\ order \in Seq(Keys) /\ status = [w \in Keys |-> status[w]]
      /\ (owed # {} => manager # NoManager) /\ (pending # NoBatch => timer) /\ owed \subseteq Kinds
  BY DEF UpdatesInv, UpdatesTyped
<1>2. CASE \E k \in Keys : Load(k)
  BY <1>2, LoadInv
<1>3. ASSUME NEW k \in Keys, LoadFails(k)
      PROVE  UpdatesInv'
  <2>1. status[k] # "connected" /\ SetEntry(k, "error") /\ UNCHANGED updateVars
    BY <1>3 DEF LoadFails, ServerFails
  <2>2. /\ order' \in Seq(Keys)
        /\ DOMAIN order \subseteq DOMAIN order' /\ \A j \in DOMAIN order : order'[j] = order[j]
        /\ status' = [w \in Keys |-> status'[w]]
        /\ status'[k] = "error" /\ \A w \in Keys : w # k => status'[w] = status[w]
        /\ configured' = configured \ {k}
    BY <2>1, EntryFacts DEF UpdatesInv
  <2>3. ASSUME NEW w \in Keys, NEW kind, NEW x, Brings(w, kind, x)
        PROVE  Brings(w, kind, x)'
    <3>1. w # k
      BY <2>1, <2>3 DEF Brings
    <3>2. updates'[w] = updates[w]
      BY <2>1 DEF updateVars
    <3>3. QED
      BY <2>2, <2>3, <3>1, <3>2, BringsStays
  <2>4. UNCHANGED <<updates, current, manager, pending, timer, down, owed>>
    BY <2>1 DEF updateVars
  <2>5. UpdatesTyped'
    BY <2>2, <2>4 DEF UpdatesInv, UpdatesTyped
  <2>6. ~down' => OwedIsComing'
    <3>1. SUFFICES ASSUME ~down, NEW kind \in owed
                   PROVE  \/ pending # NoBatch /\ kind \in pending
                          \/ \E w \in Keys, x \in Names : Brings(w, kind, x)'
      BY <2>4 DEF OwedIsComing
    <3>2. QED
      BY <2>3, <3>1 DEF UpdatesInv, OwedIsComing
  <2>7. QED
    BY <1>1, <2>4, <2>5, <2>6 DEF UpdatesInv
<1>4. ASSUME NEW k \in Keys, Drop(k)
      PROVE  UpdatesInv'
  <2>1. /\ status' = [status EXCEPT ![k] = "disconnected"] /\ owed' = owed \ Offers[k]
        /\ UNCHANGED <<order, configured, updates, current, manager, pending, timer, down>>
    BY <1>4 DEF Drop, ServerDrops
  <2>2. status' = [w \in Keys |-> status'[w]]
    BY <1>1, <2>1
  <2>3. ASSUME NEW kind \in owed', NEW w \in Keys, ItemsOf[w][kind] # {}
        PROVE  status'[w] = status[w]
    <3>1. kind \in Kinds /\ kind \notin Offers[k]
      BY <1>1, <2>1, <2>3
    <3>2. w # k
      BY <2>3, <3>1, ItemFacts
    <3>3. QED
      BY <1>1, <2>1, <3>2
  <2>4. QED
    BY <1>1, <2>1, <2>2, <2>3, QuietStepInv
<1>5. ASSUME NEW k \in Keys, NEW st, HotReload(k, st)
      PROVE  UpdatesInv'
  BY <1>5, HotReloadInv
<1>6. ASSUME NEW s \in Sessions, Connect(s)
      PROVE  UpdatesInv'
  <2>1. /\ UNCHANGED <<order, status, configured, updates, current, pending, timer, down, owed>>
        /\ manager # NoManager => manager' = manager
    BY <1>6 DEF Connect, SessionConnects
  <2>2. QED
    BY <1>1, <2>1, QuietStepInv
<1>7. ASSUME NEW s \in Sessions, End(s)
      PROVE  UpdatesInv'
  <2>1. /\ UNCHANGED <<order, status, configured, updates, current, pending, timer, down>>
        /\ owed' = {} \/ (owed' = owed /\ manager' = manager)
    BY <1>7 DEF End, SessionEnds, connVars
  <2>2. QED
    BY <1>1, <2>1, QuietStepInv
<1>8. ASSUME NEW u \in Keys \cup {Reload}, NEW failing \in Failures \cup {Kinds}, Lists(u, failing)
      PROVE  UpdatesInv'
  <2>1. failing \in SUBSET Kinds
    BY UpdateConstants
  <2>2. QED
    BY <1>8, <2>1, ListsInv
<1>9. ASSUME SendBatch, UNCHANGED <<routingVars, updates, current, manager>>, ~down' => ~down
      PROVE  UpdatesInv'
  <2>1. /\ UNCHANGED <<order, status, configured, updates, current, manager>>
        /\ pending' = NoBatch /\ owed' = owed \ pending
    BY <1>9 DEF SendBatch, routingVars, connVars
  <2>2. QED
    BY <1>1, <1>9, <2>1, QuietStepInv
<1>10. CASE TimerFires
  BY <1>9, <1>10 DEF TimerFires
<1>11. ASSUME NEW b \in batches, BatchFires(b)
       PROVE  UpdatesInv'
  <2>1. /\ UNCHANGED <<order, status, configured, updates, current, manager, pending, timer, down>>
        /\ owed' \subseteq owed
    BY <1>11 DEF BatchFires, routingVars, connVars
  <2>2. QED
    BY <1>1, <2>1, QuietStepInv
<1>12. CASE Shutdown
  <2>1. /\ down' /\ UNCHANGED <<order, status, configured, updates, current, manager>>
        /\ owed' \subseteq owed /\ (pending' # NoBatch => timer')
    BY <1>1, <1>12 DEF Shutdown, SendBatch, routingVars, connVars
  <2>2. UpdatesTyped'
    BY <1>1, <2>1 DEF UpdatesInv, UpdatesTyped
  <2>3. QED
    BY <1>1, <2>1, <2>2 DEF UpdatesInv
<1>13. CASE UNCHANGED vars
  <2>1. UNCHANGED <<order, status, configured, updates, current, manager, pending, timer, down, owed>>
    BY <1>13 DEF vars, updateVars, routingVars, connVars
  <2>2. QED
    BY <1>1, <2>1, QuietStepInv
<1>14. QED
  BY <1>2, <1>3, <1>4, <1>5, <1>6, <1>7, <1>8, <1>10, <1>11, <1>12, <1>13 DEF Next

(* The inductive invariant of capability updates.                          *)
THEOREM UpdatesInvariant == Spec => []UpdatesInv
<1>1. Init => UpdatesInv
  BY UpdatesInitInv
<1>2. UpdatesInv /\ [Next]_vars => UpdatesInv'
  BY UpdatesNextInv
<1>3. QED
  BY <1>1, <1>2, PTL DEF Spec

(* Whatever updates overlap, whatever drops, fails or is reloaded: once no *)
(* update is under way and no batch is open, clients have been told of     *)
(* every kind of which a server brought something, and no batch is ever    *)
(* left without its timer.                                                 *)
THEOREM QuietStaysOwingNothing == Spec => []QuietOwesNothing
<1>1. UpdatesInv => QuietOwesNothing
  <2>1. ASSUME UpdatesInv, Quiet, ~down, NEW kind \in owed
        PROVE  FALSE
    <3>1. \E u \in Keys, x \in Names : Brings(u, kind, x)
      BY <2>1 DEF UpdatesInv, OwedIsComing, Quiet
    <3>2. \E u \in Keys : updates[u].at = "listing"
      BY <3>1 DEF Brings
    <3>3. DOMAIN updates = Keys \cup {Reload}
      BY <2>1 DEF UpdatesInv, UpdatesTyped
    <3>4. QED
      BY <2>1, <3>2, <3>3 DEF Quiet, InFlight
  <2>2. QED
    BY <2>1 DEF UpdatesInv, QuietOwesNothing
<1>2. QED
  BY <1>1, UpdatesInvariant, PTL

-----------------------------------------------------------------------------
(***************************************************************************)
(* WalkComplete holds although a cursor names no more than a server and a  *)
(* page: a listing follows the order of the map, which only grows, so that *)
(* every server of the walk's that lies before the cursor's has been seen; *)
(* and the names a request holds over its await still stand at the places  *)
(* the map has them at, unless a hot start emptied the map, and then no    *)
(* server has been listed all along.                                       *)
(***************************************************************************)

Whole(w, k) == \A p \in 1 .. Pages[k] : <<k, p>> \in w.seen

HasFields(w) ==
    w = [at |-> w.at, cursor |-> w.cursor, names |-> w.names, seen |-> w.seen,
         stable |-> w.stable]

IsWalk(w) ==
    /\ HasFields(w)
    /\ w.at \in {"idle", "ready", "asking", "ended"}
    /\ w.cursor = [key |-> w.cursor.key, page |-> w.cursor.page]
    /\ w.cursor.key \in Keys => w.cursor.page \in 1 .. Pages[w.cursor.key]
    /\ w.stable \subseteq Keys

(* The servers before the cursor's are done, and so are its pages before.  *)
SeenSoFar(w, places) ==
    w.cursor.key \in Keys /\ w.stable # {} =>
        \E i \in DOMAIN places :
            /\ places[i] = w.cursor.key
            /\ \A j \in DOMAIN places : j < i /\ places[j] \in w.stable => Whole(w, places[j])
            /\ w.cursor.key \in w.stable =>
                  \A p \in 1 .. Pages[w.cursor.key] :
                      p < w.cursor.page => <<w.cursor.key, p>> \in w.seen

(* The names a request holds are still where the map has them.             *)
HoldsPlaces(w, places) ==
    /\ w.cursor.key \in Keys
    /\ \E i \in DOMAIN w.names : w.names[i] = w.cursor.key
    /\ DOMAIN w.names \subseteq Nat
    /\ \A i \in DOMAIN w.names : w.names[i] \in Keys
    /\ w.stable # {} =>
          /\ \A i \in DOMAIN w.names : i \in DOMAIN places /\ w.names[i] = places[i]
          /\ \A k \in w.stable : \E i \in DOMAIN w.names \ Blocked(w.names) : w.names[i] = k

WalkFits(w, places) ==
    /\ IsWalk(w)
    /\ w.at \in {"ready", "asking"} => SeenSoFar(w, places)
    /\ w.at = "asking" => HoldsPlaces(w, places)
    /\ w.at = "ended" => \A k \in w.stable : Whole(w, k)

NoRepeats(places) == \A i, j \in DOMAIN places : places[i] = places[j] => i = j

WalksInv ==
    /\ order \in Seq(Keys) /\ NoRepeats(order)
    /\ walks = [s \in Sessions |-> walks[s]]
    /\ \A s \in Sessions : WalkFits(walks[s], order) /\ walks[s].stable \subseteq Reachable(s)

(* A server has a first page, and its pages are numbers.                   *)
LEMMA PageFacts ==
    /\ NoKey \notin Keys
    /\ \A k \in Keys : Pages[k] \in Nat /\ 1 \in 1 .. Pages[k] /\ \A p \in 1 .. Pages[k] : p \in Nat
<1>1. Pages \in [Keys -> Nat \ {0}] /\ NoKey \notin Keys
  BY PaginationConstants DEF NoKey
<1>2. \A k \in Keys : Pages[k] \in Nat \ {0}
  BY <1>1
<1>3. QED
  BY <1>1, <1>2

(* The first of some places is the least of them.                          *)
LEMMA FirstFacts ==
    ASSUME NEW names, NEW places \in SUBSET Nat, places # {}
    PROVE  \E n \in places : First(names, places) = names[n] /\ \A j \in places : n <= j
<1> DEFINE least == CHOOSE i \in places : \A j \in places : i <= j
<1>1. \E n \in places : \A j \in places : n <= j
  BY LeastFacts
<1>2. least \in places /\ \A j \in places : least <= j
  BY <1>1
<1>3. First(names, places) = names[least]
  BY DEF First
<1> HIDE DEF least
<1>4. QED
  BY <1>2, <1>3

(* A listing holds the names of the map at its places.                     *)
LEMMA ListingFacts ==
    ASSUME order \in Seq(Keys), NEW s \in Sessions, NEW stable, stable \subseteq Reachable(s)
    PROVE  /\ DOMAIN ListOf(s) \subseteq DOMAIN order
           /\ DOMAIN ListOf(s) \subseteq Nat
           /\ \A i \in DOMAIN ListOf(s) : ListOf(s)[i] = order[i] /\ order[i] \in Keys
           /\ \A k \in stable : \E i \in DOMAIN ListOf(s) \ Blocked(ListOf(s)) : ListOf(s)[i] = k
<1>1. /\ DOMAIN ListOf(s) \subseteq DOMAIN order
      /\ \A i \in DOMAIN ListOf(s) : ListOf(s)[i] = order[i]
  BY DEF ListOf
<1>2. \A k \in stable : \E i \in DOMAIN ListOf(s) \ Blocked(ListOf(s)) : ListOf(s)[i] = k
  BY DEF Reachable
<1>3. DOMAIN order \subseteq Nat /\ \A i \in DOMAIN order : order[i] \in Keys
  OBVIOUS
<1>4. QED
  BY <1>1, <1>2, <1>3

(* What is left of a walk is nothing, or is where it was in the map.       *)
Onward(kept, places, grown) ==
    kept # {} => /\ DOMAIN places \subseteq DOMAIN grown
                 /\ \A i \in DOMAIN places : grown[i] = places[i]
                 /\ \A i \in DOMAIN places, j \in DOMAIN grown : j < i => j \in DOMAIN places

(* What is listed is in the map.                                           *)
LEMMA ReachableKeys ==
    ASSUME order \in Seq(Keys), NEW s \in Sessions
    PROVE  Reachable(s) \subseteq Keys
<1>1. \A i \in DOMAIN ListOf(s) : ListOf(s)[i] \in Keys
  BY DEF ListOf
<1>2. QED
  BY <1>1 DEF Reachable

(* A walk fits the map after it lost servers of its own and the map grew.  *)
LEMMA FitsOn ==
    ASSUME NEW w, NEW places, NEW kept, NEW grown, WalkFits(w, places), kept \subseteq w.stable,
           Onward(kept, places, grown),
           NEW v, v = [w EXCEPT !.stable = kept]
    PROVE  WalkFits(v, grown) /\ v.stable = kept
<1>1. IsWalk(w)
  BY DEF WalkFits
<1>2. v = [at |-> w.at, cursor |-> w.cursor, names |-> w.names, seen |-> w.seen, stable |-> kept]
  BY <1>1 DEF IsWalk, HasFields
<1>3. /\ v.at = w.at /\ v.cursor = w.cursor /\ v.names = w.names
      /\ v.seen = w.seen /\ v.stable = kept
  BY <1>2
<1>4. IsWalk(v)
  BY <1>1, <1>2, <1>3 DEF IsWalk, HasFields
<1>5. ASSUME SeenSoFar(w, places) PROVE SeenSoFar(v, grown)
  <2>1. SUFFICES ASSUME w.cursor.key \in Keys, kept # {}
                 PROVE  \E i \in DOMAIN grown :
                     /\ grown[i] = w.cursor.key
                     /\ \A j \in DOMAIN grown : j < i /\ grown[j] \in kept => Whole(v, grown[j])
                     /\ w.cursor.key \in kept =>
                           \A p \in 1 .. Pages[w.cursor.key] :
                               p < w.cursor.page => <<w.cursor.key, p>> \in w.seen
    BY <1>3 DEF SeenSoFar
  <2>2. PICK i \in DOMAIN places :
            /\ places[i] = w.cursor.key
            /\ \A j \in DOMAIN places : j < i /\ places[j] \in w.stable => Whole(w, places[j])
            /\ w.cursor.key \in w.stable =>
                  \A p \in 1 .. Pages[w.cursor.key] :
                      p < w.cursor.page => <<w.cursor.key, p>> \in w.seen
    BY <1>5, <2>1 DEF SeenSoFar
  <2>3. i \in DOMAIN grown /\ grown[i] = w.cursor.key
    BY <2>1, <2>2 DEF Onward
  <2>4. ASSUME NEW j \in DOMAIN grown, j < i, grown[j] \in kept
        PROVE  Whole(v, grown[j])
    BY <1>3, <2>1, <2>2, <2>4 DEF Whole, Onward
  <2>5. QED
    BY <2>2, <2>3, <2>4
<1>6. ASSUME HoldsPlaces(w, places) PROVE HoldsPlaces(v, grown)
  BY <1>3, <1>6 DEF HoldsPlaces, Onward
<1>7. (w.at = "ended" => \A k \in kept : Whole(v, k))
  BY <1>3 DEF WalkFits, Whole
<1>8. QED
  BY <1>3, <1>4, <1>5, <1>6, <1>7 DEF WalkFits

(* What the cursor of an answer means for the names the request holds, the *)
(* server that answered being at place i of them.                          *)
GoesTo(next, i, page, names) ==
    \/ next = NoCursor /\ names[i] \in Templates
    \/ /\ next = [key |-> names[i], page |-> page + 1]
       /\ page + 1 \in 1 .. Pages[names[i]]
    \/ /\ next = NoCursor
       /\ page = Pages[names[i]]
       /\ \A j \in DOMAIN names : j <= i
    \/ \E n \in DOMAIN names :
          /\ page = Pages[names[i]] /\ n > i
          /\ \A j \in DOMAIN names : j > i => n <= j
          /\ next = IF names[n] \in Templates THEN NoCursor
                    ELSE [key |-> names[n], page |-> 1]

(* The cursor that is handed out is one of these.                          *)
LEMMA NextFacts ==
    ASSUME NEW names, DOMAIN names \subseteq Nat, NEW k \in Keys, NEW page \in 1 .. Pages[k],
           \E i \in DOMAIN names : names[i] = k
    PROVE  \E i \in DOMAIN names :
              names[i] = k /\ GoesTo(CursorAfter(k, page, names), i, page, names)
<1> DEFINE place == CHOOSE i \in DOMAIN names : names[i] = k
           later == {i \in DOMAIN names : i > place}
<1>1. place \in DOMAIN names /\ names[place] = k
  OBVIOUS
<1>2. CursorAfter(k, page, names) = IF page < Pages[k] THEN Encode(k, page + 1)
                                    ELSE IF later = {} THEN NoCursor
                                    ELSE Encode(First(names, later), 1)
  BY DEF CursorAfter
<1>3. page \in Nat /\ Pages[k] \in Nat
  BY PageFacts
<1>4. later \in SUBSET Nat /\ later = {i \in DOMAIN names : i > place} /\ place \in Nat
  BY <1>1
<1> HIDE DEF place, later
<1>5. CASE page < Pages[k]
  BY <1>1, <1>2, <1>3, <1>5 DEF Encode, GoesTo
<1>6. CASE ~(page < Pages[k]) /\ later = {}
  <2>1. \A j \in DOMAIN names : j <= place
    BY <1>4, <1>6
  <2>2. QED
    BY <1>1, <1>2, <1>3, <1>6, <2>1 DEF GoesTo
<1>7. CASE ~(page < Pages[k]) /\ later # {}
  <2>1. PICK n \in later : First(names, later) = names[n] /\ \A j \in later : n <= j
    BY <1>4, <1>7, FirstFacts
  <2>2. CursorAfter(k, page, names) = IF names[n] \in Templates THEN NoCursor
                                      ELSE [key |-> names[n], page |-> 1]
    BY <1>2, <1>7, <2>1 DEF Encode
  <2>3. n \in DOMAIN names /\ n > place /\ \A j \in DOMAIN names : j > place => n <= j
    BY <1>4, <2>1
  <2>4. QED
    BY <1>1, <1>3, <1>7, <2>2, <2>3 DEF GoesTo
<1>8. QED
  BY <1>5, <1>6, <1>7

(* A walk that goes on with the answer of a server.                        *)
LEMMA AnswerGoesOn ==
    ASSUME NEW w, NEW places, WalkFits(w, places), w.at = "asking",
           NoRepeats(places), DOMAIN places \subseteq Nat,
           NEW next, next = CursorAfter(w.cursor.key, w.cursor.page, w.names),
           NEW v, HasFields(v), v.at = IF next = NoCursor THEN "ended" ELSE "ready",
           v.cursor = next, v.seen = w.seen \cup {<<w.cursor.key, w.cursor.page>>},
           v.stable = w.stable
    PROVE  WalkFits(v, places)
<1>1. IsWalk(w) /\ SeenSoFar(w, places) /\ HoldsPlaces(w, places)
  BY DEF WalkFits
<1>2. PICK k \in Keys : w.cursor.key = k
  BY <1>1 DEF HoldsPlaces
<1>3. PICK page \in 1 .. Pages[k] : w.cursor = [key |-> k, page |-> page]
  BY <1>1, <1>2 DEF IsWalk
<1>4. w.cursor.key = k /\ w.cursor.page = page /\ next = CursorAfter(k, page, w.names)
  BY <1>3
<1>5. v.seen = w.seen \cup {<<k, page>>}
  BY <1>4
<1>6. \A m \in Keys : Whole(w, m) => Whole(v, m)
  BY <1>5 DEF Whole
<1>7. page \in Nat /\ Pages[k] \in Nat /\ NoKey \notin Keys /\ w.stable \subseteq Keys
  BY <1>1, PageFacts DEF IsWalk
<1>8. /\ DOMAIN w.names \subseteq Nat
      /\ \A j \in DOMAIN w.names : w.names[j] \in Keys
      /\ \E j \in DOMAIN w.names : w.names[j] = k
  BY <1>1, <1>4 DEF HoldsPlaces
<1>9. PICK i \in DOMAIN w.names : w.names[i] = k /\ GoesTo(next, i, page, w.names)
  <2>1. PICK names : names = w.names
    OBVIOUS
  <2>2. \E i \in DOMAIN names :
           names[i] = k /\ GoesTo(CursorAfter(k, page, names), i, page, names)
    BY <1>8, <2>1, NextFacts
  <2>3. QED
    BY <1>4, <2>1, <2>2
<1>10. \/ next = NoCursor /\ k \in Templates
       \/ next = [key |-> k, page |-> page + 1] /\ page + 1 \in 1 .. Pages[k]
       \/ next = NoCursor /\ page = Pages[k] /\ \A j \in DOMAIN w.names : j <= i
       \/ \E n \in DOMAIN w.names :
             /\ page = Pages[k] /\ n > i
             /\ \A j \in DOMAIN w.names : j > i => n <= j
             /\ next = IF w.names[n] \in Templates THEN NoCursor
                       ELSE [key |-> w.names[n], page |-> 1]
  BY <1>9 DEF GoesTo
<1>11. /\ DOMAIN w.names \subseteq Nat
       /\ \A j \in DOMAIN w.names : w.names[j] \in Keys
       /\ w.stable # {} => \A j \in DOMAIN w.names : j \in DOMAIN places /\ w.names[j] = places[j]
       /\ \A m \in w.stable : \E j \in DOMAIN w.names :
             w.names[j] = m /\ \A l \in DOMAIN w.names : l <= j => w.names[l] \notin Templates
  BY <1>1 DEF HoldsPlaces, Blocked
<1>12. /\ \A j \in DOMAIN places : j < i /\ places[j] \in w.stable => Whole(w, places[j])
       /\ k \in w.stable => \A p \in 1 .. Pages[k] : p <= page => <<k, p>> \in v.seen
  <2>1. CASE w.stable # {}
    <3>1. PICK l \in DOMAIN places :
              /\ places[l] = k
              /\ \A j \in DOMAIN places : j < l /\ places[j] \in w.stable => Whole(w, places[j])
              /\ k \in w.stable => \A p \in 1 .. Pages[k] : p < page => <<k, p>> \in w.seen
      BY <1>1, <1>4, <2>1 DEF SeenSoFar
    <3>2. l = i
      BY <1>9, <1>11, <2>1, <3>1 DEF NoRepeats
    <3>3. ASSUME NEW p \in 1 .. Pages[k], p <= page PROVE p < page \/ p = page
      BY <1>7, <3>3
    <3>4. QED
      BY <1>5, <3>1, <3>2, <3>3
  <2>2. QED
    BY <2>1
<1>13. page = Pages[k] /\ k \in w.stable => Whole(v, k)
  BY <1>7, <1>12 DEF Whole
<1>14. ASSUME NEW j \in DOMAIN w.names, w.names[j] \in w.stable,
              j < i \/ (j = i /\ page = Pages[k])
       PROVE  Whole(v, w.names[j])
  BY <1>6, <1>9, <1>11, <1>12, <1>13, <1>14
<1>15. CASE next = NoCursor
  <2>1. IsWalk(v)
    BY <1>7, <1>15 DEF IsWalk, NoCursor
  <2>2. ASSUME NEW m \in w.stable PROVE Whole(v, m)
    <3>1. PICK j \in DOMAIN w.names :
             w.names[j] = m /\ \A l \in DOMAIN w.names : l <= j => w.names[l] \notin Templates
      BY <1>11
    <3>2. j \in Nat /\ i \in Nat
      BY <1>11
    <3>3. CASE k \in Templates
      BY <1>9, <1>14, <3>1, <3>2, <3>3
    <3>4. CASE page = Pages[k] /\ \A l \in DOMAIN w.names : l <= i
      BY <1>14, <3>1, <3>2, <3>4
    <3>5. ASSUME NEW n \in DOMAIN w.names, page = Pages[k], n > i,
                 \A l \in DOMAIN w.names : l > i => n <= l, w.names[n] \in Templates
          PROVE  Whole(v, m)
      <4>1. ~(n <= j)
        BY <3>1, <3>5
      <4>2. j <= i
        BY <3>2, <3>5, <4>1
      <4>3. QED
        BY <1>14, <3>1, <3>2, <3>5, <4>2
    <3>6. next # [key |-> k, page |-> page + 1]
      BY <1>7, <1>15 DEF NoCursor
    <3>7. ASSUME NEW n \in DOMAIN w.names, w.names[n] \notin Templates
          PROVE  next # [key |-> w.names[n], page |-> 1]
      BY <1>7, <1>11, <1>15 DEF NoCursor
    <3>8. QED
      BY <1>10, <3>3, <3>4, <3>5, <3>6, <3>7
  <2>3. QED
    BY <1>15, <2>1, <2>2 DEF WalkFits
<1>16. CASE next # NoCursor
  <2>1. v.at = "ready"
    BY <1>16
  <2>2. ASSUME next = [key |-> k, page |-> page + 1], page + 1 \in 1 .. Pages[k]
        PROVE  WalkFits(v, places)
    <3>1. next.key = k /\ next.page = page + 1
      BY <2>2
    <3>2. IsWalk(v)
      BY <1>7, <2>1, <2>2, <3>1 DEF IsWalk
    <3>3. SUFFICES ASSUME w.stable # {}
                   PROVE  \E l \in DOMAIN places :
                     /\ places[l] = k
                     /\ \A j \in DOMAIN places : j < l /\ places[j] \in w.stable => Whole(v, places[j])
                     /\ k \in w.stable => \A p \in 1 .. Pages[k] : p < page + 1 => <<k, p>> \in v.seen
      BY <2>1, <3>1, <3>2 DEF WalkFits, SeenSoFar
    <3>4. i \in DOMAIN places /\ places[i] = k
      BY <1>9, <1>11, <3>3
    <3>5. ASSUME NEW p \in 1 .. Pages[k], p < page + 1 PROVE p <= page
      BY <1>7, <3>5
    <3>6. QED
      BY <1>6, <1>7, <1>12, <3>4, <3>5
  <2>3. ASSUME NEW n \in DOMAIN w.names, page = Pages[k], n > i,
               \A l \in DOMAIN w.names : l > i => n <= l,
               next = [key |-> w.names[n], page |-> 1]
        PROVE  WalkFits(v, places)
    <3>1. next.key = w.names[n] /\ next.page = 1 /\ w.names[n] \in Keys
      BY <1>11, <2>3
    <3>2. 1 \in 1 .. Pages[w.names[n]]
      BY <3>1, PageFacts
    <3>3. IsWalk(v)
      BY <1>7, <2>1, <2>3, <3>1, <3>2 DEF IsWalk
    <3>4. SUFFICES ASSUME w.stable # {}
                   PROVE  \E l \in DOMAIN places :
                     /\ places[l] = w.names[n]
                     /\ \A j \in DOMAIN places : j < l /\ places[j] \in w.stable => Whole(v, places[j])
                     /\ \A p \in 1 .. Pages[w.names[n]] : ~(p < 1)
      BY <2>1, <3>1, <3>3 DEF WalkFits, SeenSoFar
    <3>5. n \in DOMAIN places /\ places[n] = w.names[n]
      BY <1>11, <3>4
    <3>6. ASSUME NEW j \in DOMAIN places, j < n, places[j] \in w.stable
          PROVE  Whole(v, places[j])
      <4>1. PICK l \in DOMAIN w.names : w.names[l] = places[j]
        BY <1>11, <3>6
      <4>2. l = j
        BY <1>11, <3>4, <4>1 DEF NoRepeats
      <4>3. ~(n <= j) /\ j \in Nat /\ i \in Nat /\ n \in Nat
        BY <1>11, <3>6, <4>2
      <4>4. j < i \/ j = i
        BY <2>3, <4>2, <4>3
      <4>5. QED
        BY <1>14, <2>3, <3>6, <4>1, <4>2, <4>4
    <3>7. QED
      BY <3>5, <3>6
  <2>4. QED
    BY <1>10, <1>16, <2>2, <2>3
<1>17. QED
  BY <1>15, <1>16

(* The same of a request that is answered.                                 *)
LEMMA AnswerFits ==
    ASSUME NEW w, NEW places, WalkFits(w, places), w.at = "asking",
           NoRepeats(places), DOMAIN places \subseteq Nat, NEW v, v = Answered(w)
    PROVE  WalkFits(v, places) /\ v.stable = w.stable
<1>1. PICK next : next = CursorAfter(w.cursor.key, w.cursor.page, w.names)
  OBVIOUS
<1>2. PICK at : at = IF next = NoCursor THEN "ended" ELSE "ready"
  OBVIOUS
<1>3. PICK seen : seen = w.seen \cup {<<w.cursor.key, w.cursor.page>>}
  OBVIOUS
<1>4. PICK none : none = <<>>
  OBVIOUS
<1>5. HasFields(w)
  BY DEF WalkFits, IsWalk
<1>6. v = [w EXCEPT !.at = at, !.cursor = next, !.names = none, !.seen = seen]
  BY <1>1, <1>2, <1>3, <1>4 DEF Answered
<1>7. v = [at |-> at, cursor |-> next, names |-> none, seen |-> seen, stable |-> w.stable]
  BY <1>5, <1>6 DEF HasFields
<1>8. HasFields(v) /\ v.at = at /\ v.cursor = next /\ v.seen = seen /\ v.stable = w.stable
  BY <1>7 DEF HasFields
<1>9. QED
  BY <1>1, <1>2, <1>3, <1>8, AnswerGoesOn

(* A request that fails leaves its walk where it was.                      *)
LEMMA FailFits ==
    ASSUME NEW w, NEW places, WalkFits(w, places), w.at = "asking",
           NEW v, v = [w EXCEPT !.at = "ready", !.names = <<>>]
    PROVE  WalkFits(v, places) /\ v.stable = w.stable
<1>1. IsWalk(w) /\ SeenSoFar(w, places)
  BY DEF WalkFits
<1>2. PICK none : none = <<>>
  OBVIOUS
<1>3. v = [at |-> "ready", cursor |-> w.cursor, names |-> none, seen |-> w.seen,
           stable |-> w.stable]
  BY <1>1, <1>2 DEF IsWalk, HasFields
<1>4. /\ HasFields(v) /\ v.at = "ready" /\ v.cursor = w.cursor
      /\ v.seen = w.seen /\ v.stable = w.stable
  BY <1>3 DEF HasFields
<1>5. IsWalk(v)
  BY <1>1, <1>4 DEF IsWalk
<1>6. SeenSoFar(v, places)
  BY <1>1, <1>4 DEF SeenSoFar, Whole
<1>7. QED
  BY <1>4, <1>5, <1>6 DEF WalkFits

(* A walk begins, over the servers that are listed now.                    *)
LEMMA BeginFits ==
    ASSUME NEW v, HasFields(v), v.at = "ready", v.cursor = Start, v.stable \subseteq Keys,
           NEW places
    PROVE  WalkFits(v, places)
<1>1. Start = [key |-> Start.key, page |-> Start.page] /\ Start.key \notin Keys
  BY PageFacts DEF Start
<1>2. QED
  BY <1>1 DEF WalkFits, IsWalk, SeenSoFar

(* A request that finds no server listed ends the walk.                    *)
LEMMA AskEnds ==
    ASSUME NEW w, NEW places, WalkFits(w, places), w.stable = {},
           NEW names, DOMAIN names = {}, NEW v, v = Asked(w, names)
    PROVE  WalkFits(v, places) /\ v.stable = w.stable
<1>1. IsWalk(w)
  BY DEF WalkFits
<1>2. v = [at |-> "ended", cursor |-> NoCursor, names |-> w.names, seen |-> w.seen,
           stable |-> w.stable]
  BY <1>1 DEF IsWalk, HasFields, Asked
<1>3. HasFields(v) /\ v.at = "ended" /\ v.cursor = NoCursor /\ v.stable = w.stable
  BY <1>2 DEF HasFields
<1>4. NoCursor = [key |-> NoCursor.key, page |-> NoCursor.page] /\ NoCursor.key \notin Keys
  BY PageFacts DEF NoCursor
<1>5. QED
  BY <1>1, <1>3, <1>4 DEF WalkFits, IsWalk

(* A request asks the cursor's server, or the first one listed.            *)
LEMMA AskFinds ==
    ASSUME NEW places, NoRepeats(places), NEW w, WalkFits(w, places), w.at = "ready",
           NEW names, DOMAIN names # {},
           DOMAIN names \subseteq DOMAIN places, DOMAIN names \subseteq Nat,
           \A i \in DOMAIN names : names[i] = places[i] /\ places[i] \in Keys,
           \A k \in w.stable : \E i \in DOMAIN names \ Blocked(names) : names[i] = k,
           NEW c, c = Target(w.cursor, names),
           NEW v, v = Asked(w, names)
    PROVE  WalkFits(v, places) /\ v.stable = w.stable
<1>1. IsWalk(w) /\ SeenSoFar(w, places)
  BY DEF WalkFits
<1>2. \A i \in DOMAIN names : i \in Nat
  OBVIOUS
<1>3. /\ \A i \in DOMAIN names : i \in DOMAIN places /\ names[i] = places[i] /\ places[i] \in Keys
      /\ \A k \in w.stable : \E i \in DOMAIN names : names[i] = k
  OBVIOUS
<1>4. v = [at |-> "asking", cursor |-> c, names |-> names, seen |-> w.seen,
           stable |-> w.stable]
  BY <1>1 DEF IsWalk, HasFields, Asked
<1>5. /\ HasFields(v) /\ v.at = "asking" /\ v.cursor = c /\ v.names = names
      /\ v.seen = w.seen /\ v.stable = w.stable
  BY <1>4 DEF HasFields
<1>6. /\ c = [key |-> c.key, page |-> c.page] /\ c.key \in Keys /\ c.page \in 1 .. Pages[c.key]
      /\ \E i \in DOMAIN names : names[i] = c.key
      /\ SeenSoFar(v, places)
  <2>1. CASE \E i \in DOMAIN names : names[i] = w.cursor.key
    <3>1. c = w.cursor
      BY <2>1 DEF Target
    <3>2. w.cursor.key \in Keys
      BY <1>3, <2>1
    <3>3. QED
      BY <1>1, <1>5, <2>1, <3>1, <3>2 DEF IsWalk, SeenSoFar, Whole
  <2>2. CASE ~\E i \in DOMAIN names : names[i] = w.cursor.key
    <3>1. PICK n \in DOMAIN names :
             First(names, DOMAIN names) = names[n] /\ \A j \in DOMAIN names : n <= j
      BY FirstFacts
    <3>2. c = [key |-> names[n], page |-> 1]
      BY <2>2, <3>1 DEF Target
    <3>3. c = [key |-> c.key, page |-> c.page] /\ c.key = names[n] /\ c.page = 1
      BY <3>2
    <3>4. n \in DOMAIN places /\ places[n] = c.key /\ c.key \in Keys
      BY <1>3, <3>3
    <3>5. c.page \in 1 .. Pages[c.key]
      BY <3>3, <3>4, PageFacts
    <3>6. ASSUME NEW j \in DOMAIN places, j < n, places[j] \in w.stable
          PROVE  FALSE
      <4>1. PICK i \in DOMAIN names : names[i] = places[j]
        BY <1>3, <3>6
      <4>2. i = j
        BY <1>2, <1>3, <4>1 DEF NoRepeats
      <4>3. n <= j /\ n \in Nat /\ j \in Nat
        BY <1>2, <3>1, <4>2
      <4>4. QED
        BY <3>6, <4>3
    <3>7. \A p \in 1 .. Pages[c.key] : ~(p < c.page)
      BY <3>3, <3>4, PageFacts
    <3>8. SeenSoFar(v, places)
      BY <1>5, <3>4, <3>6, <3>7 DEF SeenSoFar
    <3>9. QED
      BY <3>3, <3>4, <3>5, <3>8
  <2>3. QED
    BY <2>1, <2>2
<1>7. IsWalk(v)
  BY <1>1, <1>5, <1>6 DEF IsWalk
<1>8. HoldsPlaces(v, places)
  BY <1>5, <1>6 DEF HoldsPlaces
<1>9. QED
  BY <1>5, <1>6, <1>7, <1>8 DEF WalkFits

-----------------------------------------------------------------------------
(* WalksInv holds before any session walks.                                *)
LEMMA WalksInitInv == WalksInit => WalksInv
<1> SUFFICES ASSUME WalksInit PROVE WalksInv
  OBVIOUS
<1>1. order = <<>> /\ walks = [s \in Sessions |-> NoWalk]
  BY DEF WalksInit, RoutingInit
<1>2. \A places : WalkFits(NoWalk, places)
  BY PageFacts DEF WalkFits, IsWalk, HasFields, NoWalk, NoCursor
<1>3. NoWalk.stable = {}
  BY DEF NoWalk
<1>4. order \in Seq(Keys) /\ NoRepeats(order)
  BY <1>1 DEF NoRepeats
<1>5. QED
  BY <1>1, <1>2, <1>3, <1>4 DEF WalksInv

(* One session's walk goes on; the map stays.                              *)
LEMMA WalkStepInv ==
    ASSUME WalksInv, UNCHANGED routingVars, NEW s \in Sessions, NEW v,
           walks' = [walks EXCEPT ![s] = v], WalkFits(v, order), v.stable \subseteq Reachable(s)
    PROVE  WalksInv'
<1>1. /\ order \in Seq(Keys) /\ NoRepeats(order)
      /\ walks = [t \in Sessions |-> walks[t]]
      /\ \A t \in Sessions : WalkFits(walks[t], order) /\ walks[t].stable \subseteq Reachable(t)
  BY DEF WalksInv
<1>2. order' = order
  BY DEF routingVars, connVars
<1>3. \A t \in Sessions : Reachable(t)' = Reachable(t)
  BY DEF routingVars, connVars, Reachable, ListOf, Listed, byCapabilities, SessionConns, InMap
<1>4. walks' = [t \in Sessions |-> walks'[t]]
  BY <1>1
<1>5. ASSUME NEW t \in Sessions
      PROVE  WalkFits(walks'[t], order) /\ walks'[t].stable \subseteq Reachable(t)
  <2>1. CASE t = s
    BY <1>1, <2>1
  <2>2. CASE t # s
    BY <1>1, <2>2
  <2>3. QED
    BY <2>1, <2>2
<1>6. QED
  BY <1>1, <1>2, <1>3, <1>4, <1>5 DEF WalksInv

(* The map or the sessions change: walks keep what is still there.         *)
LEMMA ChangedInv ==
    ASSUME WalksInv, NEW lost, Changed(lost), order' \in Seq(Keys), NoRepeats(order'),
           \/ collected' = {}
           \/ /\ DOMAIN order \subseteq DOMAIN order'
              /\ \A i \in DOMAIN order : order'[i] = order[i]
    PROVE  WalksInv'
<1>1. /\ order \in Seq(Keys)
      /\ \A s \in Sessions : WalkFits(walks[s], order)
  BY DEF WalksInv
<1>2. /\ walks' = [s \in Sessions |-> walks'[s]]
      /\ \A s \in Sessions :
            LET w == walks[s]
                kept == [w EXCEPT !.stable = @ \cap Reachable(s)']
            IN  walks'[s] = IF s \notin sessions' THEN NoWalk
                            ELSE IF w.at = "asking" /\ w.cursor.key \in lost
                                 THEN [kept EXCEPT !.at = "ready", !.names = <<>>]
                                 ELSE kept
  BY DEF Changed
<1>3. ASSUME NEW s \in Sessions
      PROVE  WalkFits(walks'[s], order') /\ walks'[s].stable \subseteq Reachable(s)'
  <2>1. PICK w : w = walks[s] /\ WalkFits(w, order)
    BY <1>1
  <2>2. PICK reach : reach = Reachable(s)'
    OBVIOUS
  <2>3. PICK kept : kept = w.stable \cap reach
    OBVIOUS
  <2>4. PICK v : v = [w EXCEPT !.stable = kept]
    OBVIOUS
  <2>5. \/ kept = {}
        \/ /\ DOMAIN order \subseteq DOMAIN order'
           /\ \A i \in DOMAIN order : order'[i] = order[i]
    <3>1. collected' = {} => reach = {}
      BY <2>2 DEF Reachable, ListOf, Listed, byCapabilities
    <3>2. QED
      BY <2>3, <3>1
  <2>6. PICK places, grown : places = order /\ grown = order'
    OBVIOUS
  <2>7. Onward(kept, places, grown)
    <3>1. \A i \in DOMAIN places, j \in DOMAIN grown : j < i => j \in DOMAIN places
      BY <1>1, <2>6
    <3>2. QED
      BY <2>5, <2>6, <3>1 DEF Onward
  <2>8. kept \subseteq w.stable /\ WalkFits(w, places)
    BY <2>1, <2>3, <2>6
  <2>9. WalkFits(v, grown) /\ v.stable = kept
    BY <2>4, <2>7, <2>8, FitsOn
  <2>10. walks'[s] = IF s \notin sessions' THEN NoWalk
                     ELSE IF w.at = "asking" /\ w.cursor.key \in lost
                          THEN [v EXCEPT !.at = "ready", !.names = <<>>]
                          ELSE v
    BY <1>2, <2>1, <2>2, <2>3, <2>4
  <2>11. v.at = w.at
    BY <2>1, <2>4 DEF WalkFits, IsWalk, HasFields
  <2>12. CASE s \notin sessions'
    <3>1. WalkFits(NoWalk, grown) /\ NoWalk.stable = {}
      BY PageFacts DEF WalkFits, IsWalk, HasFields, NoWalk, NoCursor
    <3>2. QED
      BY <2>6, <2>10, <2>12, <3>1
  <2>13. CASE s \in sessions' /\ w.at = "asking" /\ w.cursor.key \in lost
    <3>1. PICK f : f = [v EXCEPT !.at = "ready", !.names = <<>>]
      OBVIOUS
    <3>2. WalkFits(f, grown) /\ f.stable = kept
      BY <2>9, <2>11, <2>13, <3>1, FailFits
    <3>3. QED
      BY <2>2, <2>3, <2>6, <2>10, <2>13, <3>1, <3>2
  <2>14. CASE s \in sessions' /\ ~(w.at = "asking" /\ w.cursor.key \in lost)
    BY <2>2, <2>3, <2>6, <2>9, <2>10, <2>14
  <2>15. QED
    BY <2>12, <2>13, <2>14
<1>4. QED
  BY <1>2, <1>3 DEF WalksInv

(* What a new entry does to the map.                                       *)
LEMMA MapGrows ==
    ASSUME order \in Seq(Keys), NoRepeats(order), NEW k \in Keys, NEW st, SetEntry(k, st)
    PROVE  /\ order' \in Seq(Keys) /\ NoRepeats(order')
           /\ DOMAIN order \subseteq DOMAIN order'
           /\ \A i \in DOMAIN order : order'[i] = order[i]
<1>1. order' = IF k \in InMap THEN order ELSE Append(order, k)
  BY DEF SetEntry
<1>2. CASE k \in InMap
  BY <1>1, <1>2
<1>3. CASE k \notin InMap
  <2>1. \A i \in DOMAIN order : order[i] # k
    BY <1>3 DEF InMap
  <2>2. /\ order' \in Seq(Keys) /\ Len(order') = Len(order) + 1 /\ order'[Len(order) + 1] = k
        /\ \A i \in 1 .. Len(order) : order'[i] = order[i]
        /\ DOMAIN order = 1 .. Len(order) /\ DOMAIN order' = 1 .. Len(order) + 1
        /\ Len(order) \in Nat
    BY <1>1, <1>3
  <2>3. \A i \in DOMAIN order' : i \in DOMAIN order \/ i = Len(order) + 1
    BY <2>2
  <2>4. NoRepeats(order')
    BY <2>1, <2>2, <2>3 DEF NoRepeats
  <2>5. QED
    BY <2>2, <2>4
<1>4. QED
  BY <1>2, <1>3

(* WalksInv is inductive.                                                  *)
LEMMA WalksNextInv == WalksInv /\ [WalksNext]_walkVars => WalksInv'
<1> SUFFICES ASSUME WalksInv, [WalksNext]_walkVars PROVE WalksInv'
  OBVIOUS
<1>1. /\ order \in Seq(Keys) /\ NoRepeats(order)
      /\ walks = [s \in Sessions |-> walks[s]]
      /\ \A s \in Sessions : WalkFits(walks[s], order) /\ walks[s].stable \subseteq Reachable(s)
  BY DEF WalksInv
<1>2. Walkers \subseteq Sessions
  BY PaginationConstants
<1>3. ASSUME NEW k \in Keys, NEW st, NEW lost, SetEntry(k, st), Changed(lost)
      PROVE  WalksInv'
  BY <1>1, <1>3, MapGrows, ChangedInv
<1>4. ASSUME NEW k \in Keys, ServerDrops(k), Changed({k})
      PROVE  WalksInv'
  <2>1. order' = order
    BY <1>4 DEF ServerDrops
  <2>2. QED
    BY <1>1, <1>4, <2>1, ChangedInv
<1>5. ASSUME NEW k \in Keys, HotStart(k, "connected"), Changed({})
      PROVE  WalksInv'
  <2>1. order' = <<k>> /\ collected' = {}
    BY <1>5 DEF HotStart
  <2>2. order' \in Seq(Keys) /\ NoRepeats(order')
    BY <2>1 DEF NoRepeats
  <2>3. QED
    BY <1>5, <2>1, <2>2, ChangedInv
<1>6. ASSUME NEW s \in Walkers, Fail(s), UNCHANGED routingVars
      PROVE  WalksInv'
  <2>1. PICK v : v = [walks[s] EXCEPT !.at = "ready", !.names = <<>>]
    OBVIOUS
  <2>2. walks[s].at = "asking" /\ walks' = [walks EXCEPT ![s] = v]
    BY <1>6, <2>1 DEF Fail
  <2>3. WalkFits(v, order) /\ v.stable \subseteq Reachable(s)
    BY <1>1, <1>2, <2>1, <2>2, FailFits
  <2>4. QED
    BY <1>2, <1>6, <2>2, <2>3, WalkStepInv
<1>7. ASSUME SessionChange
      PROVE  WalksInv'
  <2>1. order' = order
    BY <1>7 DEF SessionChange, SessionConnects, SessionEnds, connVars
  <2>2. QED
    BY <1>1, <1>7, <2>1, ChangedInv DEF SessionChange
<1>8. ASSUME NEW s \in Walkers, BeginWalk(s)
      PROVE  WalksInv'
  <2>1. PICK w : w = walks[s] /\ IsWalk(w)
    BY <1>1, <1>2 DEF WalkFits
  <2>2. PICK stable : stable = Reachable(s) /\ stable \in SUBSET Keys
    BY <1>1, <1>2, ReachableKeys
  <2>3. PICK v : v = [w EXCEPT !.at = "ready", !.cursor = Start, !.stable = stable]
    OBVIOUS
  <2>4. walks' = [walks EXCEPT ![s] = v] /\ UNCHANGED routingVars
    BY <1>8, <2>1, <2>2, <2>3 DEF BeginWalk
  <2>5. PICK c : c = Start
    OBVIOUS
  <2>6. v = [at |-> "ready", cursor |-> c, names |-> w.names, seen |-> w.seen, stable |-> stable]
    BY <2>1, <2>3, <2>5 DEF IsWalk, HasFields
  <2>7. HasFields(v) /\ v.at = "ready" /\ v.cursor = c /\ v.stable = stable
    BY <2>6 DEF HasFields
  <2>8. WalkFits(v, order)
    BY <2>2, <2>5, <2>7, BeginFits
  <2>9. QED
    BY <1>2, <2>2, <2>4, <2>7, <2>8, WalkStepInv
<1>9. ASSUME NEW s \in Walkers, Ask(s)
      PROVE  WalksInv'
  <2>1. PICK w : w = walks[s] /\ w.stable \subseteq Reachable(s)
    BY <1>1, <1>2
  <2>2. PICK places : places = order /\ NoRepeats(places) /\ WalkFits(w, places)
    BY <1>1, <1>2, <2>1
  <2>3. PICK names : names = ListOf(s)
    OBVIOUS
  <2>4. PICK v : v = Asked(w, names)
    OBVIOUS
  <2>5. w.at = "ready" /\ walks' = [walks EXCEPT ![s] = v] /\ UNCHANGED routingVars
    BY <1>9, <2>1, <2>3, <2>4 DEF Ask
  <2>6. /\ DOMAIN names \subseteq DOMAIN places /\ DOMAIN names \subseteq Nat
        /\ \A i \in DOMAIN names : names[i] = places[i] /\ places[i] \in Keys
        /\ \A k \in w.stable : \E i \in DOMAIN names \ Blocked(names) : names[i] = k
    BY <1>1, <1>2, <2>1, <2>2, <2>3, ListingFacts
  <2>7. WalkFits(v, places) /\ v.stable = w.stable
    <3>1. CASE DOMAIN names = {}
      <4>1. w.stable = {}
        BY <2>6, <3>1
      <4>2. QED
        BY <2>2, <2>4, <3>1, <4>1, AskEnds
    <3>2. CASE DOMAIN names # {}
      BY <2>2, <2>4, <2>5, <2>6, <3>2, AskFinds
    <3>3. QED
      BY <3>1, <3>2
  <2>8. QED
    BY <1>2, <2>1, <2>2, <2>5, <2>7, WalkStepInv
<1>10. ASSUME NEW s \in Walkers, Answer(s)
       PROVE  WalksInv'
  <2>1. PICK w : w = walks[s] /\ WalkFits(w, order) /\ w.stable \subseteq Reachable(s)
    BY <1>1, <1>2
  <2>2. PICK v : v = Answered(w)
    OBVIOUS
  <2>3. w.at = "asking" /\ walks' = [walks EXCEPT ![s] = v] /\ UNCHANGED routingVars
    BY <1>10, <2>1, <2>2 DEF Answer
  <2>4. DOMAIN order \subseteq Nat
    BY <1>1
  <2>5. WalkFits(v, order) /\ v.stable = w.stable
    BY <1>1, <2>1, <2>2, <2>3, <2>4, AnswerFits
  <2>6. QED
    BY <1>2, <2>1, <2>3, <2>5, WalkStepInv
<1>11. ASSUME UNCHANGED walkVars
       PROVE  WalksInv'
  <2>1. order' = order /\ walks' = walks
    BY <1>11 DEF walkVars, routingVars, connVars
  <2>2. \A s \in Sessions : Reachable(s)' = Reachable(s)
    BY <1>11 DEF walkVars, routingVars, connVars, Reachable, ListOf, Listed, byCapabilities,
       SessionConns, InMap
  <2>3. QED
    BY <1>1, <2>1, <2>2 DEF WalksInv
<1>12. ASSUME Change
       PROVE  WalksInv'
  BY <1>3, <1>4, <1>5, <1>6, <1>12 DEF Change, ServerConnects, ServerFails
<1>13. QED
  BY <1>7, <1>8, <1>9, <1>10, <1>11, <1>12 DEF WalksNext

(* Every walk fits the map as it is, whatever became of it meanwhile.      *)
THEOREM WalksInvariant == WalksSpec => []WalksInv
<1>1. WalksInit => WalksInv
  BY WalksInitInv
<1>2. WalksInv /\ [WalksNext]_walkVars => WalksInv'
  BY WalksNextInv
<1>3. QED
  BY <1>1, <1>2, PTL DEF WalksSpec

(* A walk that has ended has seen every page of every server that was      *)
(* listed all along, whatever came and went meanwhile (handlePagination of *)
(* utils/ui/pagination.ts).                                                *)
THEOREM WalksStayComplete == WalksSpec => []WalkComplete
<1>1. WalksInv => WalkComplete
  BY DEF WalksInv, WalkFits, Whole, WalkComplete
<1>2. QED
  BY <1>1, WalksInvariant, PTL

-----------------------------------------------------------------------------
(* A proxy's search for a running server. What makes a search that finds   *)
(* nothing sound is that, as long as it goes on, what could be found all   *)
(* along is on a port it has yet to try.                                   *)

ServerStates == {"off", "starting", "up", "deaf", "stopping", "exiting", "ended", "killed"}
ProxyStates == {"idle", "check", "scan", "validate", "notfound", "running", "refused"}
AnyServer == Servers \cup {NoServer}
ProxyRecords ==
    [pc : ProxyStates, named : AnyServer, left : Seq(Nat), port : Nat,
     source : {"none", "user", "pidfile", "portscan"}]

(* What the processes, the ports and the pid files are made of; a proxy    *)
(* that checks a pid file has read a name there.                           *)
DiscoveryTypeOK ==
    /\ server \in [Servers -> ServerStates]
    /\ listener \in [Ports -> AnyServer]
    /\ pidFile \in [Dirs -> AnyServer]
    /\ proxy \in [Proxies -> ProxyRecords]
    /\ faults \in Nat
    /\ steady \in [Proxies -> SUBSET Servers]
    /\ \A p \in Proxies : proxy[p].pc = "check" => proxy[p].named # NoServer

(* A pid file names a server of its directory, so that the file a server   *)
(* deletes at its end is the only one that may name it.                    *)
NamedIsOwn ==
    \A d \in Dirs : pidFile[d] # NoServer => DirOf[pidFile[d]] = d

(* What a searching proxy could find all along listens on a port that it   *)
(* has yet to try.                                                         *)
SteadyIsAhead ==
    \A p \in Proxies : Searching(p) =>
        \A s \in steady[p] : \E n \in ToSet(proxy[p].left) : n \in Ports /\ listener[n] = s

DiscoveryInv ==
    /\ DiscoveryTypeOK
    /\ NamedIsOwn
    /\ SteadyIsAhead
    /\ StaleOnlyAfterKill
    /\ NotFoundIsDown

(* The ports and directories of servers and proxies, as the constants'     *)
(* assumption gives them.                                                  *)
LEMMA PortFacts ==
    /\ Ports \subseteq Nat
    /\ \A s \in Servers : PortOf[s] \in Ports /\ DirOf[s] \in Dirs
    /\ ToSet(CommonPorts) \subseteq Ports
    /\ \A p \in Proxies : DirOf[p] \in Dirs
BY DiscoveryConstants DEF Ports, ToSet

(* DiscoveryInv holds before anything is started.                          *)
LEMMA DiscoveryInitInv == DiscoveryInit => DiscoveryInv
<1> SUFFICES ASSUME DiscoveryInit PROVE DiscoveryInv
  OBVIOUS
<1>1. DiscoveryTypeOK
  BY DEF DiscoveryInit, DiscoveryTypeOK, ServerStates, ProxyStates, AnyServer, ProxyRecords
<1>2. NamedIsOwn /\ StaleOnlyAfterKill /\ SteadyIsAhead /\ NotFoundIsDown
  BY DEF DiscoveryInit, NamedIsOwn, StaleOnlyAfterKill, SteadyIsAhead, NotFoundIsDown, Searching
<1>3. QED
  BY <1>1, <1>2 DEF DiscoveryInv

(* A server that ends, and deletes the file of its directory unless it was *)
(* killed.                                                                 *)
LEMMA GoneInv ==
    ASSUME DiscoveryInv, NEW s \in Servers, NEW how \in {"ended", "killed"}, Gone(s, how),
           \/ pidFile' = [pidFile EXCEPT ![DirOf[s]] = NoServer]
           \/ how = "killed" /\ UNCHANGED pidFile
    PROVE  DiscoveryInv'
<1>1. /\ server' = [server EXCEPT ![s] = how]
      /\ listener' = [n \in Ports |-> IF listener[n] = s THEN NoServer ELSE listener[n]]
      /\ steady' = [p \in Proxies |-> IF Searching(p) THEN steady[p] \ {s} ELSE steady[p]]
      /\ UNCHANGED <<proxy, faults>>
  BY DEF Gone
<1>2. DiscoveryTypeOK'
  BY <1>1, PortFacts DEF DiscoveryInv, DiscoveryTypeOK, ServerStates, AnyServer
<1>3. NamedIsOwn' /\ StaleOnlyAfterKill'
  BY <1>1, PortFacts
     DEF DiscoveryInv, DiscoveryTypeOK, AnyServer, NamedIsOwn, StaleOnlyAfterKill
<1>4. SteadyIsAhead'
  <2> SUFFICES ASSUME NEW p \in Proxies, Searching(p)', NEW r \in steady'[p]
               PROVE  \E n \in ToSet(proxy'[p].left) : n \in Ports /\ listener'[n] = r
    BY DEF SteadyIsAhead
  <2>1. Searching(p) /\ r \in steady[p] /\ r # s
    BY <1>1 DEF Searching
  <2>2. PICK n \in ToSet(proxy[p].left) : n \in Ports /\ listener[n] = r
    BY <2>1 DEF DiscoveryInv, SteadyIsAhead
  <2>3. QED
    BY <1>1, <2>1, <2>2
<1>5. NotFoundIsDown'
  BY <1>1 DEF DiscoveryInv, DiscoveryTypeOK, NotFoundIsDown
<1>6. QED
  BY <1>2, <1>3, <1>4, <1>5 DEF DiscoveryInv

(* A server is started; it has no port yet.                                *)
LEMMA ServeInv ==
    ASSUME DiscoveryInv, NEW s \in Servers, Serve(s)
    PROVE  DiscoveryInv'
<1>1. /\ server' = [server EXCEPT ![s] = "starting"]
      /\ pidFile' = [pidFile EXCEPT ![DirOf[s]] = s]
      /\ UNCHANGED <<listener, proxy, faults, steady>>
  BY DEF Serve
<1>2. DiscoveryTypeOK'
  BY <1>1, PortFacts DEF DiscoveryInv, DiscoveryTypeOK, ServerStates, AnyServer
<1>3. NamedIsOwn' /\ StaleOnlyAfterKill'
  BY <1>1, PortFacts
     DEF DiscoveryInv, DiscoveryTypeOK, AnyServer, NamedIsOwn, StaleOnlyAfterKill
<1>4. SteadyIsAhead' /\ NotFoundIsDown'
  BY <1>1 DEF DiscoveryInv, SteadyIsAhead, NotFoundIsDown, Searching
<1>5. QED
  BY <1>2, <1>3, <1>4 DEF DiscoveryInv

(* A free port gets a listener; a shutdown begins, or deletes the file.    *)
LEMMA ServingInv ==
    ASSUME DiscoveryInv, NEW s \in Servers, Bind(s) \/ StopSignal(s) \/ CleanUp(s)
    PROVE  DiscoveryInv'
<1>1. /\ \E state \in {"up", "deaf", "stopping", "exiting"} :
            server' = [server EXCEPT ![s] = state]
      /\ UNCHANGED pidFile \/ pidFile' = [pidFile EXCEPT ![DirOf[s]] = NoServer]
      /\ \/ UNCHANGED listener
         \/ /\ listener[PortOf[s]] = NoServer
            /\ listener' = [listener EXCEPT ![PortOf[s]] = s]
      /\ UNCHANGED <<proxy, faults, steady>>
  BY DEF Bind, StopSignal, CleanUp
<1>2. DiscoveryTypeOK'
  BY <1>1, PortFacts DEF DiscoveryInv, DiscoveryTypeOK, ServerStates, AnyServer
<1>3. NamedIsOwn' /\ StaleOnlyAfterKill'
  BY <1>1, PortFacts
     DEF DiscoveryInv, DiscoveryTypeOK, AnyServer, NamedIsOwn, StaleOnlyAfterKill
<1>4. \A n \in Ports : listener[n] # NoServer => listener'[n] = listener[n]
  BY <1>1, PortFacts DEF DiscoveryInv, DiscoveryTypeOK
<1>5. \A p \in Proxies : steady[p] \subseteq Servers
  BY DEF DiscoveryInv, DiscoveryTypeOK
<1>6. SteadyIsAhead'
  BY <1>1, <1>4, <1>5, DiscoveryConstants DEF DiscoveryInv, SteadyIsAhead, Searching
<1>7. NotFoundIsDown'
  BY <1>1 DEF DiscoveryInv, NotFoundIsDown
<1>8. QED
  BY <1>2, <1>3, <1>6, <1>7 DEF DiscoveryInv

(* A step of a proxy is about that proxy, what it could find, and at most  *)
(* the file of its directory.                                              *)
LEMMA ProxyStepInv ==
    ASSUME DiscoveryInv, NEW p \in Proxies, NEW r \in ProxyRecords, NEW S \in SUBSET Servers,
           proxy' = [proxy EXCEPT ![p] = r],
           steady' = [steady EXCEPT ![p] = S],
           faults' \in Nat,
           UNCHANGED pidFile \/ pidFile' = [pidFile EXCEPT ![DirOf[p]] = NoServer],
           UNCHANGED <<server, listener>>,
           r.pc = "check" => r.named # NoServer,
           r.pc \in {"check", "scan"} =>
               \A s \in S : \E n \in ToSet(r.left) : n \in Ports /\ listener[n] = s,
           r.pc = "notfound" => S = {}
    PROVE  DiscoveryInv'
<1>0. proxy \in [Proxies -> ProxyRecords] /\ steady \in [Proxies -> SUBSET Servers]
  BY DEF DiscoveryInv, DiscoveryTypeOK
<1>1. /\ proxy'[p] = r /\ steady'[p] = S
      /\ \A q \in Proxies \ {p} : proxy'[q] = proxy[q] /\ steady'[q] = steady[q]
  BY <1>0
<1>2. DiscoveryTypeOK'
  BY <1>1, PortFacts DEF DiscoveryInv, DiscoveryTypeOK, AnyServer
<1>3. NamedIsOwn' /\ StaleOnlyAfterKill'
  BY PortFacts DEF DiscoveryInv, DiscoveryTypeOK, NamedIsOwn, StaleOnlyAfterKill
<1>4. SteadyIsAhead'
  BY <1>1 DEF DiscoveryInv, SteadyIsAhead, Searching
<1>5. NotFoundIsDown'
  BY <1>1 DEF DiscoveryInv, NotFoundIsDown
<1>6. QED
  BY <1>2, <1>3, <1>4, <1>5 DEF DiscoveryInv

(* A request that is not answered leaves the proxy what listens on other   *)
(* ports, or nothing that it could find all along.                         *)
LEMMA FetchFacts ==
    ASSUME DiscoveryInv, NEW p \in Proxies, NEW n, NEW ok \in BOOLEAN, Fetch(p, n, ok)
    PROVE  /\ faults' \in Nat
           /\ \E S \in SUBSET Servers :
                 /\ steady' = [steady EXCEPT ![p] = S]
                 /\ S = {} \/ (S = steady[p] /\ ~ok /\ listener[n] = NoServer)
<1>1. faults \in Nat /\ steady \in [Proxies -> SUBSET Servers]
  BY DEF DiscoveryInv, DiscoveryTypeOK
<1>2. faults' \in Nat
  BY <1>1 DEF Fetch
<1>3. CASE steady' = [steady EXCEPT ![p] = {}]
  BY <1>2, <1>3
<1>4. CASE steady' # [steady EXCEPT ![p] = {}]
  <2>1. ~ok /\ listener[n] = NoServer /\ steady' = steady
    BY <1>4 DEF Fetch
  <2>2. steady' = [steady EXCEPT ![p] = steady[p]] /\ steady[p] \in SUBSET Servers
    BY <1>1, <2>1
  <2>3. QED
    BY <1>2, <2>1, <2>2
<1>5. QED
  BY <1>3, <1>4

(* A proxy begins to search: the pid file of its directory first, the      *)
(* common ports then (urlDetection.ts:115-145).                            *)
LEMMA BeginInv ==
    ASSUME DiscoveryInv, NEW p \in Proxies, Begin(p)
    PROVE  DiscoveryInv'
<1>1. proxy \in [Proxies -> ProxyRecords] /\ steady \in [Proxies -> SUBSET Servers]
      /\ pidFile \in [Dirs -> AnyServer] /\ faults \in Nat
  BY DEF DiscoveryInv, DiscoveryTypeOK
<1> DEFINE named == pidFile[DirOf[p]]
<1>2. named \in AnyServer
  BY <1>1, PortFacts
<1>3. PICK pc \in {"check", "scan"} :
         /\ pc = "check" => named # NoServer
         /\ proxy' = [proxy EXCEPT ![p].pc = pc, ![p].left = CommonPorts,
                          ![p].named = IF pc = "check" THEN named ELSE NoServer]
         /\ steady' = [steady EXCEPT ![p] = Listening]
         /\ UNCHANGED <<server, listener, pidFile, faults>>
  BY DEF Begin
<1> DEFINE read == IF pc = "check" THEN named ELSE NoServer
           r == [proxy[p] EXCEPT !.pc = pc, !.left = CommonPorts, !.named = read]
<1>4. proxy' = [proxy EXCEPT ![p] = r]
  BY <1>1, <1>3
<1>5. /\ r \in ProxyRecords
      /\ r.pc = pc /\ r.left = CommonPorts /\ (r.pc = "check" => r.named # NoServer)
  <2>1. read \in AnyServer /\ (pc = "check" => read # NoServer)
    BY <1>2, <1>3 DEF AnyServer
  <2> HIDE DEF read
  <2>2. proxy[p] \in ProxyRecords /\ CommonPorts \in Seq(Nat) /\ pc \in ProxyStates
    BY <1>1, DiscoveryConstants DEF ProxyStates
  <2>3. QED
    BY <2>1, <2>2 DEF ProxyRecords
<1>6. /\ Listening \in SUBSET Servers
      /\ \A s \in Listening : \E n \in ToSet(CommonPorts) : n \in Ports /\ listener[n] = s
  BY PortFacts DEF Listening
<1> HIDE DEF r
<1>7. \A s \in Listening : \E n \in ToSet(r.left) : n \in Ports /\ listener[n] = s
  BY <1>5, <1>6
<1>8. /\ steady' = [steady EXCEPT ![p] = Listening]
      /\ UNCHANGED <<server, listener, pidFile, faults>>
  BY <1>3
<1>9. r.pc # "notfound" /\ faults' \in Nat
  BY <1>1, <1>5, <1>8
<1>10. QED
  BY <1>4, <1>5, <1>6, <1>7, <1>8, <1>9, ProxyStepInv

(* A proxy that was given the server's address asks it and no other.       *)
LEMMA BeginWithUrlInv ==
    ASSUME DiscoveryInv, NEW p \in Proxies, BeginWithUrl(p)
    PROVE  DiscoveryInv'
<1>1. proxy \in [Proxies -> ProxyRecords] /\ steady \in [Proxies -> SUBSET Servers]
      /\ faults \in Nat
  BY DEF DiscoveryInv, DiscoveryTypeOK
<1>2. PICK n \in Ports :
          proxy' = [proxy EXCEPT ![p].pc = "validate", ![p].port = n, ![p].source = "user"]
  BY DEF BeginWithUrl
<1> DEFINE r == [proxy[p] EXCEPT !.pc = "validate", !.port = n, !.source = "user"]
<1>3. proxy' = [proxy EXCEPT ![p] = r]
  BY <1>1, <1>2
<1>4. r \in ProxyRecords /\ r.pc = "validate"
  BY <1>1, PortFacts DEF ProxyRecords, ProxyStates
<1>5. /\ steady' = [steady EXCEPT ![p] = steady[p]] /\ steady[p] \in SUBSET Servers
      /\ UNCHANGED <<server, listener, pidFile, faults>>
  BY <1>1 DEF BeginWithUrl
<1> HIDE DEF r
<1>6. QED
  BY <1>1, <1>3, <1>4, <1>5, ProxyStepInv

(* A proxy has asked the server that a pid file names.                     *)
LEMMA CheckInv ==
    ASSUME DiscoveryInv, NEW p \in Proxies, Check(p)
    PROVE  DiscoveryInv'
<1>1. proxy \in [Proxies -> ProxyRecords] /\ proxy[p] \in ProxyRecords
      /\ proxy[p].pc = "check" /\ proxy[p].named \in Servers
  BY DEF Check, DiscoveryInv, DiscoveryTypeOK, ProxyRecords, AnyServer
<1>2. PICK ok \in BOOLEAN :
          /\ Fetch(p, PortOf[proxy[p].named], ok)
          /\ IF ok
             THEN /\ proxy' = [proxy EXCEPT ![p].pc = "validate",
                                 ![p].port = PortOf[proxy[p].named], ![p].source = "pidfile",
                                 ![p].named = NoServer, ![p].left = <<>>]
                  /\ UNCHANGED pidFile
             ELSE /\ proxy' = [proxy EXCEPT ![p].pc = "scan", ![p].named = NoServer]
                  /\ pidFile' = [pidFile EXCEPT ![DirOf[p]] = NoServer]
  BY DEF Check
<1>3. PICK S \in SUBSET Servers :
          /\ faults' \in Nat
          /\ steady' = [steady EXCEPT ![p] = S]
          /\ S = {} \/ S = steady[p]
  <2>1. Fetch(p, PortOf[proxy[p].named], ok)
    BY <1>2
  <2>2. QED
    BY <2>1, FetchFacts
<1>4. UNCHANGED <<server, listener>>
  BY DEF Check
<1>5. CASE ok
  <2> DEFINE port == PortOf[proxy[p].named]
             r == [proxy[p] EXCEPT !.pc = "validate", !.port = port, !.source = "pidfile",
                                   !.named = NoServer, !.left = <<>>]
  <2>1. proxy' = [proxy EXCEPT ![p] = r]
    BY <1>1, <1>2, <1>5
  <2>2. r \in ProxyRecords /\ r.pc = "validate"
    <3>1. port \in Nat /\ <<>> \in Seq(Nat) /\ NoServer \in AnyServer
      BY <1>1, DiscoveryConstants DEF AnyServer
    <3> HIDE DEF port
    <3>2. QED
      BY <1>1, <3>1 DEF ProxyRecords, ProxyStates
  <2> HIDE DEF r
  <2>3. QED
    BY <1>2, <1>3, <1>4, <1>5, <2>1, <2>2, ProxyStepInv
<1>6. CASE ~ok
  <2> DEFINE r == [proxy[p] EXCEPT !.pc = "scan", !.named = NoServer]
  <2>1. proxy' = [proxy EXCEPT ![p] = r]
    BY <1>1, <1>2, <1>6
  <2>2. r \in ProxyRecords /\ r.pc = "scan" /\ r.left = proxy[p].left
    BY <1>1 DEF ProxyRecords, ProxyStates, AnyServer
  <2> HIDE DEF r
  <2>3. \A s \in S : \E n \in ToSet(r.left) : n \in Ports /\ listener[n] = s
    BY <1>1, <1>3, <2>2 DEF DiscoveryInv, SteadyIsAhead, Searching
  <2>4. QED
    BY <1>2, <1>3, <1>4, <1>6, <2>1, <2>2, <2>3, ProxyStepInv
<1>7. QED
  BY <1>5, <1>6

(* What is left to try is what was, without the port just tried.           *)
LEMMA TailFacts ==
    ASSUME NEW q \in Seq(Nat), q # <<>>
    PROVE  /\ Head(q) \in Nat /\ Tail(q) \in Seq(Nat) /\ Head(q) \in ToSet(q)
           /\ \A n \in ToSet(q) : n = Head(q) \/ n \in ToSet(Tail(q))
           /\ Len(q) = 1 => ToSet(q) = {Head(q)}
<1>1. Len(q) \in Nat /\ Len(q) > 0 /\ q[1] = Head(q) /\ DOMAIN q = 1 .. Len(q)
  OBVIOUS
<1>2. Head(q) \in Nat /\ Tail(q) \in Seq(Nat) /\ Head(q) \in ToSet(q)
  BY <1>1 DEF ToSet
<1>3. DOMAIN Tail(q) = 1 .. Len(q) - 1 /\ \A i \in 1 .. Len(q) - 1 : Tail(q)[i] = q[i + 1]
  BY <1>1
<1>4. ASSUME NEW i \in 1 .. Len(q)
      PROVE  q[i] = Head(q) \/ q[i] \in ToSet(Tail(q))
  <2>1. CASE i = 1
    BY <1>1, <2>1
  <2>2. CASE i # 1
    <3>1. i - 1 \in 1 .. Len(q) - 1 /\ Tail(q)[i - 1] = q[i]
      BY <1>1, <1>3, <2>2
    <3>2. QED
      BY <1>3, <3>1 DEF ToSet
  <2>3. QED
    BY <2>1, <2>2
<1>5. Len(q) = 1 => ToSet(q) = {Head(q)}
  BY <1>1 DEF ToSet
<1>6. QED
  BY <1>1, <1>2, <1>4, <1>5 DEF ToSet

(* A proxy has asked the next of the common ports.                         *)
LEMMA ScanInv ==
    ASSUME DiscoveryInv, NEW p \in Proxies, Scan(p)
    PROVE  DiscoveryInv'
<1> DEFINE left == proxy[p].left
           n == Head(left)
<1>1. proxy \in [Proxies -> ProxyRecords] /\ proxy[p] \in ProxyRecords
      /\ proxy[p].pc = "scan" /\ left \in Seq(Nat) /\ left # <<>>
  BY DEF Scan, DiscoveryInv, DiscoveryTypeOK, ProxyRecords
<1>2. PICK ok \in BOOLEAN :
          /\ Fetch(p, n, ok)
          /\ proxy' = [proxy EXCEPT
                ![p].pc = IF ok THEN "validate" ELSE IF Len(left) = 1 THEN "notfound" ELSE "scan",
                ![p].left = IF ok THEN <<>> ELSE Tail(@),
                ![p].port = IF ok THEN n ELSE 0,
                ![p].source = IF ok THEN "portscan" ELSE "none"]
  BY DEF Scan
<1>3. PICK S \in SUBSET Servers :
          /\ faults' \in Nat
          /\ steady' = [steady EXCEPT ![p] = S]
          /\ S = {} \/ (S = steady[p] /\ ~ok /\ listener[n] = NoServer)
  <2>1. Fetch(p, n, ok)
    BY <1>2
  <2>2. QED
    BY <2>1, FetchFacts
<1>4. UNCHANGED <<server, listener, pidFile>>
  BY DEF Scan
<1> DEFINE r == [proxy[p] EXCEPT
                   !.pc = IF ok THEN "validate" ELSE IF Len(left) = 1 THEN "notfound" ELSE "scan",
                   !.left = IF ok THEN <<>> ELSE Tail(left),
                   !.port = IF ok THEN n ELSE 0,
                   !.source = IF ok THEN "portscan" ELSE "none"]
<1>5. proxy' = [proxy EXCEPT ![p] = r]
  BY <1>1, <1>2
<1>6. /\ r \in ProxyRecords
      /\ r.pc = IF ok THEN "validate" ELSE IF Len(left) = 1 THEN "notfound" ELSE "scan"
      /\ r.left = IF ok THEN <<>> ELSE Tail(left)
  <2> DEFINE pc == IF ok THEN "validate" ELSE IF Len(left) = 1 THEN "notfound" ELSE "scan"
             rest == IF ok THEN <<>> ELSE Tail(left)
             port == IF ok THEN n ELSE 0
             source == IF ok THEN "portscan" ELSE "none"
  <2>1. Tail(left) \in Seq(Nat) /\ n \in Nat /\ <<>> \in Seq(Nat)
    BY <1>1, TailFacts
  <2>2. /\ pc \in ProxyStates /\ rest \in Seq(Nat) /\ port \in Nat
        /\ source \in {"none", "user", "pidfile", "portscan"}
    BY <2>1 DEF ProxyStates
  <2>3. r = [proxy[p] EXCEPT !.pc = pc, !.left = rest, !.port = port, !.source = source]
    OBVIOUS
  <2> HIDE DEF pc, rest, port, source, left, n, r
  <2>4. r \in ProxyRecords /\ r.pc = pc /\ r.left = rest
    BY <1>1, <2>2, <2>3 DEF ProxyRecords
  <2>5. QED
    BY <2>4 DEF pc, rest
<1>7. \A s \in S : \E m \in ToSet(left) : m \in Ports /\ listener[m] = s /\ m # n
  <2>1. \A s \in steady[p] : \E m \in ToSet(left) : m \in Ports /\ listener[m] = s
    BY <1>1 DEF DiscoveryInv, SteadyIsAhead, Searching
  <2>2. QED
    BY <1>3, <2>1, DiscoveryConstants
<1>8. r.pc = "scan" => \A s \in S : \E m \in ToSet(r.left) : m \in Ports /\ listener[m] = s
  BY <1>1, <1>6, <1>7, TailFacts
<1>9. r.pc = "notfound" => S = {}
  BY <1>1, <1>6, <1>7, TailFacts
<1> HIDE DEF r
<1>10. QED
  BY <1>3, <1>4, <1>5, <1>6, <1>8, <1>9, ProxyStepInv

(* A proxy has asked the server it was given or has found.                 *)
LEMMA ValidateInv ==
    ASSUME DiscoveryInv, NEW p \in Proxies, Validate(p)
    PROVE  DiscoveryInv'
<1>1. proxy \in [Proxies -> ProxyRecords] /\ proxy[p] \in ProxyRecords
  BY DEF DiscoveryInv, DiscoveryTypeOK
<1>2. PICK ok \in BOOLEAN :
          /\ Fetch(p, proxy[p].port, ok)
          /\ proxy' = [proxy EXCEPT ![p].pc = IF ok THEN "running" ELSE "refused"]
  BY DEF Validate
<1>3. PICK S \in SUBSET Servers : faults' \in Nat /\ steady' = [steady EXCEPT ![p] = S]
  BY <1>2, FetchFacts
<1> DEFINE r == [proxy[p] EXCEPT !.pc = IF ok THEN "running" ELSE "refused"]
<1>4. proxy' = [proxy EXCEPT ![p] = r]
  BY <1>1, <1>2
<1>5. r \in ProxyRecords /\ r.pc \in {"running", "refused"}
  BY <1>1 DEF ProxyRecords, ProxyStates
<1>6. UNCHANGED <<server, listener, pidFile>>
  BY DEF Validate
<1> HIDE DEF r
<1>7. QED
  BY <1>3, <1>4, <1>5, <1>6, ProxyStepInv

(* Every step of servers and proxies keeps DiscoveryInv.                   *)
LEMMA DiscoveryNextInv == DiscoveryInv /\ [DiscoveryNext]_discoveryVars => DiscoveryInv'
<1> SUFFICES ASSUME DiscoveryInv, [DiscoveryNext]_discoveryVars
             PROVE  DiscoveryInv'
  OBVIOUS
<1>1. ASSUME NEW s \in Servers, Exit(s) \/ Kill(s)
      PROVE  DiscoveryInv'
  BY <1>1, GoneInv DEF Exit, Kill
<1>2. ASSUME NEW s \in Servers, Serve(s)
      PROVE  DiscoveryInv'
  BY <1>2, ServeInv
<1>3. ASSUME NEW s \in Servers, Bind(s) \/ StopSignal(s) \/ CleanUp(s)
      PROVE  DiscoveryInv'
  BY <1>3, ServingInv
<1>4. ASSUME NEW p \in Proxies,
             BeginWithUrl(p) \/ Begin(p) \/ Check(p) \/ Scan(p) \/ Validate(p)
      PROVE  DiscoveryInv'
  BY <1>4, BeginWithUrlInv, BeginInv, CheckInv, ScanInv, ValidateInv
<1>5. CASE UNCHANGED discoveryVars
  BY <1>5
     DEF discoveryVars, DiscoveryInv, DiscoveryTypeOK, NamedIsOwn, SteadyIsAhead, Searching,
         StaleOnlyAfterKill, NotFoundIsDown
<1>6. QED
  BY <1>1, <1>2, <1>3, <1>4, <1>5 DEF DiscoveryNext

(* DiscoveryInv holds at all times, with servers killed and ports taken.   *)
THEOREM DiscoveryInvariant == DiscoverySpec => []DiscoveryInv
BY DiscoveryInitInv, DiscoveryNextInv, PTL DEF DiscoverySpec

(* For any servers, ports, directories and proxies: a pid file names a     *)
(* server that has ended only if one was killed, and a proxy that reports  *)
(* no server had none within reach all the time it searched                *)
(* (urlDetection.ts:115-145).                                              *)
THEOREM DiscoveryStaysSound == DiscoverySpec => []DiscoveryIsSound
<1>1. DiscoveryInv => DiscoveryIsSound
  BY DEF DiscoveryInv, DiscoveryIsSound
<1>2. QED
  BY <1>1, DiscoveryInvariant, PTL

-----------------------------------------------------------------------------
(* The environment of a child process. The code computes it with filters   *)
(* and fallbacks in an order of its own (environment.ts), after a reload   *)
(* twice; the lemmas show that either gives the documented value of every  *)
(* variable.                                                               *)

EntryRecords ==
    [inherit : BOOLEAN, filter : Filters, env : [EnvVars -> CustomValues]]

EnvironmentTypeOK ==
    /\ parent \in [EnvVars -> ParentValues]
    /\ entry \in EntryRecords
    /\ boot \in {"unset", "off", "up", "failed"}

(* What a way of starting a server computes from the entry.                *)
Computed(way) ==
    IF way = "reload" THEN ProcessEnvironment(ProcessServerConfig(Loaded(entry, way)))
    ELSE ProcessEnvironment(Loaded(entry, way))

(* An environment is computed once the program and its configuration are   *)
(* given, and from them.                                                   *)
EnvironmentInv ==
    /\ EnvironmentTypeOK
    /\ environment = [w \in Ways |-> environment[w]]
    /\ \A w \in Ways : environment[w] # <<>> =>
          boot # "unset" /\ environment[w] = AtSpawn(Computed(w))

(* A variable passes the filter of the code exactly when the documentation *)
(* says it does.                                                           *)
LEMMA FilterIsDocumented ==
    ASSUME NEW filter \in Filters, NEW v \in EnvVars, NEW env
    PROVE  LET allows == {i \in DOMAIN filter : ~filter[i].deny}
               matches == {i \in DOMAIN filter : v \in filter[i].names}
           IN  ApplyEnvPatterns([u \in EnvVars |-> env[u]], filter)[v] =
                 IF matches \ allows # {} \/ (allows # {} /\ matches = {}) THEN Unset ELSE env[v]
<1>1. CASE filter = <<>>
  BY <1>1 DEF ApplyEnvPatterns
<1>2. CASE filter # <<>>
  <2> DEFINE allows == {i \in DOMAIN filter : ~filter[i].deny}
             matches == {i \in DOMAIN filter : v \in filter[i].names}
  <2>1. MatchesEnvPattern(v, filter) <=>
          ~(matches \ allows # {} \/ (allows # {} /\ matches = {}))
    BY Zenon DEF MatchesEnvPattern
  <2>2. QED
    BY <1>2, <2>1 DEF ApplyEnvPatterns
<1>3. QED
  BY <1>1, <1>2

(* The values of variables, in the parent's environment, in an entry and   *)
(* in a result.                                                            *)
AnyValue == ParentValues \cup CustomValues

(* A variable of an entry, x, as its process gets it; none if it is not    *)
(* set.                                                                    *)
Own(x, v) == Substituted(IF x = Inherited THEN parent[v] ELSE x)

(* What a variable that the entry does not set is inherited as.            *)
Passed(v) ==
    LET allows == {i \in DOMAIN entry.filter : ~entry.filter[i].deny}
        matches == {i \in DOMAIN entry.filter : v \in entry.filter[i].names}
    IN  IF \/ v \notin SdkDefaults /\ ~entry.inherit
           \/ matches \ allows # {} \/ (allows # {} /\ matches = {})
        THEN Unset ELSE Safe(v)

(* The kind of a value tells values apart.                                 *)
LEMMA ValueFacts ==
    \A x \in AnyValue :
        /\ x.kind \in {"none", "text", "function", "inherit", "ref"}
        /\ x.kind = "none" <=> x = Unset
        /\ x.kind = "inherit" <=> x = Inherited
        /\ x.kind = "function" <=> x = ShellFunction
        /\ x.kind = "ref" => x.name \in EnvVars
<1> SUFFICES ASSUME NEW x \in AnyValue
             PROVE  /\ x.kind \in {"none", "text", "function", "inherit", "ref"}
                    /\ x.kind = "none" <=> x = Unset
                    /\ x.kind = "inherit" <=> x = Inherited
                    /\ x.kind = "function" <=> x = ShellFunction
                    /\ x.kind = "ref" => x.name \in EnvVars
  OBVIOUS
<1>1. /\ Unset.kind = "none" /\ Inherited.kind = "inherit" /\ ShellFunction.kind = "function"
      /\ \A t : Text(t).kind = "text" /\ Ref(t).kind = "ref" /\ Ref(t).name = t
  BY DEF Unset, Text, Ref, ShellFunction, Inherited
<1>2. \/ x = Unset \/ x = Inherited \/ x = ShellFunction
      \/ \E t : x = Text(t)
      \/ \E t \in Referred : x = Ref(t)
  BY DEF AnyValue, ParentValues, CustomValues
<1>3. QED
  BY <1>1, <1>2, EnvironmentConstants

(* A variable of 1mcp that refers to no other stays as it is.              *)
LEMMA PlainFacts ==
    ASSUME EnvironmentTypeOK, ~Nested
    PROVE  /\ Unset \in AnyValue /\ Unset # Inherited
           /\ \A v \in EnvVars : /\ parent[v] \in AnyValue /\ Safe(v) \in AnyValue
                                 /\ parent[v] # Inherited /\ parent[v].kind # "ref"
                                 /\ parent[v] = Unset => Safe(v) = Unset
           /\ \A x \in AnyValue : Substituted(x) \in AnyValue /\ (Substituted(x) = Inherited => x = Inherited)
           /\ \A x \in AnyValue : x.kind # "ref" => Substituted(x) = x
<1>1. Unset \in AnyValue /\ Unset # Inherited
  BY DEF AnyValue, ParentValues, Unset, Inherited
<1>2. ASSUME NEW v \in EnvVars
      PROVE  /\ parent[v] \in AnyValue /\ Safe(v) \in AnyValue
             /\ parent[v] # Inherited /\ parent[v].kind # "ref"
             /\ parent[v] = Unset => Safe(v) = Unset
  <2>1. parent[v] \in ParentValues
    BY DEF EnvironmentTypeOK
  <2>2. parent[v].kind # "ref"
    BY DEF Nested
  <2>3. parent[v] # Inherited
    <3>1. parent[v] = Unset \/ parent[v] = ShellFunction \/ parent[v] = Text("parent")
          \/ \E t \in Referred : parent[v] = Ref(t)
      BY <2>1 DEF ParentValues
    <3>2. /\ Unset.kind = "none" /\ Inherited.kind = "inherit" /\ ShellFunction.kind = "function"
          /\ \A t : Text(t).kind = "text" /\ Ref(t).kind = "ref"
      BY DEF Unset, Text, Ref, ShellFunction, Inherited
    <3>3. QED
      BY <3>1, <3>2
  <2>4. QED
    BY <1>1, <2>1, <2>2, <2>3 DEF Safe, AnyValue
<1>3. ASSUME NEW x \in AnyValue
      PROVE  /\ Substituted(x) \in AnyValue /\ (Substituted(x) = Inherited => x = Inherited)
             /\ x.kind # "ref" => Substituted(x) = x
  BY <1>2, ValueFacts DEF Substituted
<1>4. QED
  BY <1>1, <1>2, <1>3

(* One computation: what the entry gives itself, or what passes.           *)
LEMMA ProcessedIs ==
    ASSUME EnvironmentTypeOK, ~Nested, NEW env \in [EnvVars -> AnyValue]
    PROVE  LET e == [entry EXCEPT !.env = env]
           IN  /\ ProcessEnvironment(e) \in [EnvVars -> AnyValue]
               /\ \A v \in EnvVars :
                     ProcessEnvironment(e)[v] =
                        IF Own(env[v], v) # Unset THEN Own(env[v], v) ELSE Passed(v)
<1> DEFINE e == [entry EXCEPT !.env = env]
           combined == [v \in EnvVars |-> IF v \in SdkDefaults \/ e.inherit THEN Safe(v) ELSE Unset]
           filtered == ApplyEnvPatterns(combined, e.filter)
           custom == [v \in EnvVars |-> Substituted(ParseEnvArray(e.env)[v])]
<1>1. /\ entry \in EntryRecords
      /\ e.env = env /\ e.filter = entry.filter /\ e.inherit = entry.inherit
      /\ entry.filter \in Filters
  BY DEF EnvironmentTypeOK, EntryRecords
<1>2. \A v \in EnvVars : custom[v] = Own(env[v], v)
  BY <1>1 DEF ParseEnvArray, Own
<1>3. ASSUME NEW v \in EnvVars
      PROVE  filtered[v] = Passed(v)
  <2> DEFINE inherited(u) == IF u \in SdkDefaults \/ entry.inherit THEN Safe(u) ELSE Unset
  <2>1. combined = [u \in EnvVars |-> inherited(u)]
    BY <1>1
  <2>2. PICK env2 : env2 = [u \in EnvVars |-> inherited(u)]
    OBVIOUS
  <2>3. env2[v] = inherited(v) /\ combined = [u \in EnvVars |-> env2[u]]
    BY <2>1, <2>2
  <2>4. QED
    BY <1>1, <2>3, FilterIsDocumented DEF Passed
<1>4. ProcessEnvironment(e) = Merged(combined, custom, e.filter)
  BY DEF ProcessEnvironment
<1>5. Merged(combined, custom, e.filter) =
        [v \in EnvVars |-> IF custom[v] # Unset THEN custom[v] ELSE filtered[v]]
  BY DEF Merged
<1> HIDE DEF combined, filtered, custom, e
<1>6. \A v \in EnvVars : Own(env[v], v) \in AnyValue /\ Passed(v) \in AnyValue
  BY PlainFacts DEF Own, Passed
<1>7. QED
  BY <1>2, <1>3, <1>4, <1>5, <1>6 DEF e

(* What the documentation says, in these terms.                            *)
LEMMA DocumentedIs ==
    ASSUME EnvironmentTypeOK, ~Nested, NEW v \in EnvVars
    PROVE  Documented(v) =
              IF Own(entry.env[v], v) # Unset THEN Own(entry.env[v], v) ELSE Passed(v)
<1>1. entry.env[v] \in AnyValue
  BY DEF EnvironmentTypeOK, EntryRecords, AnyValue
<1>2. Safe(v) = IF parent[v].kind = "function" THEN Unset ELSE parent[v]
  BY DEF Safe
<1>3. CASE entry.env[v].kind = "inherit"
  <2>1. Own(entry.env[v], v) = parent[v] /\ Documented(v) = parent[v]
    BY <1>1, <1>3, ValueFacts, PlainFacts DEF Own, Documented
  <2>2. parent[v] = Unset => Passed(v) = Unset
    BY PlainFacts DEF Passed
  <2>3. QED
    BY <2>1, <2>2
<1>4. CASE entry.env[v].kind # "inherit"
  <2>1. Own(entry.env[v], v) = Substituted(entry.env[v])
    BY <1>1, <1>4, ValueFacts DEF Own
  <2>2. CASE Substituted(entry.env[v]) # Unset
    BY <1>1, <1>4, <2>1, <2>2, ValueFacts DEF Documented, Substituted
  <2>3. CASE Substituted(entry.env[v]) = Unset
    <3>1. entry.env[v] = Unset
      BY <1>1, <2>3, ValueFacts DEF Substituted
    <3>2. entry.env[v].kind = "none"
      BY <1>1, <3>1, ValueFacts
    <3>3. Documented(v) = Passed(v)
      BY <1>2, <3>1, <3>2 DEF Documented, Passed
    <3>4. QED
      BY <2>1, <2>3, <3>3
  <2>4. QED
    BY <2>2, <2>3
<1>5. QED
  BY <1>3, <1>4

(* Every way of starting a server gives it the documented environment.     *)
LEMMA ComputedIsDocumented ==
    ASSUME EnvironmentTypeOK, ~Nested, NEW w \in Ways, NEW v \in EnvVars
    PROVE  Computed(w)[v] = Documented(v)
<1> DEFINE env == IF expanding /\ w # "template"
                  THEN [u \in EnvVars |-> Substituted(entry.env[u])] ELSE entry.env
           once == ProcessEnvironment([entry EXCEPT !.env = env])
<1>1. entry \in EntryRecords /\ entry.env \in [EnvVars -> AnyValue]
  BY DEF EnvironmentTypeOK, EntryRecords, AnyValue
<1>2. Loaded(entry, w) = [entry EXCEPT !.env = env]
  BY <1>1 DEF Loaded, EntryRecords
<1>3. env \in [EnvVars -> AnyValue]
  BY <1>1, PlainFacts
<1>4. ASSUME NEW u \in EnvVars
      PROVE  Own(env[u], u) = Own(entry.env[u], u)
  <2>1. CASE expanding /\ w # "template"
    <3>1. env[u] = Substituted(entry.env[u]) /\ entry.env[u] \in AnyValue
      BY <1>1, <2>1
    <3>2. QED
      BY <3>1, ValueFacts, PlainFacts DEF Own, Substituted
  <2>2. CASE ~(expanding /\ w # "template")
    BY <2>2
  <2>3. QED
    BY <2>1, <2>2
<1> HIDE DEF env
<1>5. /\ once \in [EnvVars -> AnyValue]
      /\ \A u \in EnvVars : once[u] = Documented(u)
  BY <1>3, <1>4, ProcessedIs, DocumentedIs
<1>6. CASE w # "reload"
  BY <1>2, <1>5, <1>6 DEF Computed
<1>7. CASE w = "reload"
  <2>1. Computed(w) = ProcessEnvironment([entry EXCEPT !.env = once])
    BY <1>1, <1>2, <1>7 DEF Computed, ProcessServerConfig, EntryRecords
  <2> HIDE DEF once
  <2>2. Computed(w)[v] = IF Own(once[v], v) # Unset THEN Own(once[v], v) ELSE Passed(v)
    BY <1>5, <2>1, ProcessedIs
  <2>3. once[v] = IF Own(entry.env[v], v) # Unset THEN Own(entry.env[v], v) ELSE Passed(v)
    BY <1>5, DocumentedIs
  <2>4. /\ Own(entry.env[v], v) \in AnyValue /\ Own(entry.env[v], v) # Inherited
        /\ Substituted(Own(entry.env[v], v)) = Own(entry.env[v], v)
        /\ Passed(v) \in AnyValue /\ Passed(v) # Inherited /\ Substituted(Passed(v)) = Passed(v)
    <3>1. entry.env[v] \in AnyValue
      BY <1>1
    <3>2. QED
      BY <3>1, ValueFacts, PlainFacts DEF Own, Passed, Substituted, Safe
  <2>5. Own(once[v], v) = once[v]
    BY <2>3, <2>4 DEF Own
  <2>6. QED
    BY <1>5, <2>2, <2>3, <2>5
<1>8. QED
  BY <1>6, <1>7

-----------------------------------------------------------------------------
(* EnvironmentInv holds before the program is started.                     *)
LEMMA EnvironmentInitInv == EnvironmentInit => EnvironmentInv
<1> SUFFICES ASSUME EnvironmentInit PROVE EnvironmentInv
  OBVIOUS
<1>1. <<>> \in Filters
  BY DEF Filters
<1>2. EnvironmentTypeOK
  BY <1>1 DEF EnvironmentInit, EnvironmentTypeOK, EntryRecords, NoEntry, Empty_, ParentValues, CustomValues
<1>3. QED
  BY <1>2 DEF EnvironmentInit, EnvironmentInv

(* Every step keeps EnvironmentInv.                                        *)
LEMMA EnvironmentNextInv ==
    EnvironmentInv /\ [EnvironmentNext]_environmentVars => EnvironmentInv'
<1> SUFFICES ASSUME EnvironmentInv, [EnvironmentNext]_environmentVars PROVE EnvironmentInv'
  OBVIOUS
<1>1. /\ EnvironmentTypeOK /\ environment = [w \in Ways |-> environment[w]]
      /\ \A w \in Ways : environment[w] # <<>> =>
            boot # "unset" /\ environment[w] = AtSpawn(Computed(w))
  BY DEF EnvironmentInv
<1>2. ASSUME boot = "unset", NEW p \in [EnvVars -> ParentValues], NEW on \in BOOLEAN,
             NEW inherit \in BOOLEAN, NEW filter \in Filters, NEW env \in [EnvVars -> CustomValues],
             Configures(p, [inherit |-> inherit, filter |-> filter, env |-> env], on)
      PROVE  EnvironmentInv'
  <2>1. EnvironmentTypeOK'
    BY <1>2 DEF Configures, EnvironmentTypeOK, EntryRecords
  <2>2. \A w \in Ways : environment'[w] = <<>>
    BY <1>1, <1>2 DEF Configures
  <2>3. QED
    BY <1>1, <1>2, <2>1, <2>2 DEF Configures, EnvironmentInv
<1>3. ASSUME UNCHANGED <<parent, entry, expanding>>, boot' \in {"unset", "off", "up", "failed"},
             boot # "unset" => boot' # "unset",
             \/ UNCHANGED environment
             \/ \E w \in Ways : environment' = [environment EXCEPT ![w] = AtSpawn(Computed(w))] /\ boot' # "unset"
      PROVE  EnvironmentInv'
  <2>1. EnvironmentTypeOK'
    BY <1>1, <1>3 DEF EnvironmentTypeOK
  <2>2. \A w \in Ways : AtSpawn(Computed(w))' = AtSpawn(Computed(w))
    <3>1. \A x : Substituted(x)' = Substituted(x)
      BY <1>3 DEF Substituted
    <3>2. \A v : Safe(v)' = Safe(v)
      BY <1>3 DEF Safe
    <3>3. \A env : ParseEnvArray(env)' = ParseEnvArray(env)
      BY <1>3 DEF ParseEnvArray
    <3>4. \A e : ProcessEnvironment(e)' = ProcessEnvironment(e)
      BY <3>1, <3>2, <3>3 DEF ProcessEnvironment
    <3>5. \A w : Loaded(entry, w)' = Loaded(entry, w)
      BY <1>3, <3>1 DEF Loaded
    <3>6. \A e : ProcessServerConfig(e)' = ProcessServerConfig(e)
      BY <3>4 DEF ProcessServerConfig
    <3>7. \A w \in Ways : Computed(w)' = Computed(w)
      BY <3>4, <3>5, <3>6 DEF Computed
    <3>8. QED
      BY <3>2, <3>7 DEF AtSpawn
  <2>3. QED
    BY <1>1, <1>3, <2>1, <2>2 DEF EnvironmentInv
<1>4. ASSUME NEW other, Boots(other)
      PROVE  EnvironmentInv'
  <2>1. "boot" \in Ways /\ Computed("boot") = ProcessEnvironment(Loaded(entry, "boot"))
    BY DEF Ways, Computed
  <2>2. QED
    BY <1>3, <1>4, <2>1 DEF Boots, CreateTransports
<1>5. ASSUME NEW way \in Ways, Starts(way)
      PROVE  EnvironmentInv'
  <2>1. environment' = [environment EXCEPT ![way] = AtSpawn(Computed(way))]
    BY <1>5 DEF Starts, Computed
  <2>2. QED
    BY <1>3, <1>5, <2>1 DEF Starts
<1>6. CASE UNCHANGED environmentVars
  BY <1>1, <1>3, <1>6 DEF environmentVars, EnvironmentTypeOK
<1>7. QED
  BY <1>2, <1>4, <1>5, <1>6 DEF EnvironmentNext

(* EnvironmentInv holds at all times.                                      *)
THEOREM EnvironmentInvariant == EnvironmentSpec => []EnvironmentInv
BY EnvironmentInitInv, EnvironmentNextInv, PTL DEF EnvironmentSpec

(* For any variables, filters and entries: however a server is started,    *)
(* every variable of its process has the documented value, but for a       *)
(* default of the SDK that the filter denies, which has 1mcp's own         *)
(* (EnvironmentIsRight).                                                   *)
THEOREM EnvironmentStaysRight == EnvironmentSpec => []EnvironmentIsRight
<1>1. ASSUME EnvironmentInv, ~Nested, NEW w \in Ways, environment[w] # <<>>, NEW v \in EnvVars
      PROVE  environment[w][v] =
                IF v \in SdkDefaults /\ Documented(v) = Unset /\ parent[v].kind # "function"
                THEN parent[v] ELSE Documented(v)
  <2>1. EnvironmentTypeOK /\ environment[w] = AtSpawn(Computed(w))
    BY <1>1 DEF EnvironmentInv
  <2>2. Computed(w)[v] = Documented(v)
    BY <1>1, <2>1, ComputedIsDocumented
  <2>3. environment[w][v] = IF Documented(v) # Unset \/ v \notin SdkDefaults
                            THEN Documented(v) ELSE Safe(v)
    BY <2>1, <2>2 DEF AtSpawn
  <2>4. QED
    BY <2>3 DEF Safe
<1>2. EnvironmentInv => EnvironmentIsRight
  BY <1>1 DEF EnvironmentIsRight
<1>3. QED
  BY <1>2, EnvironmentInvariant, PTL

-----------------------------------------------------------------------------
(***************************************************************************)
(* Proofs about the registry client: no answer is older than the time to   *)
(* live and its requests allow, and the cache keeps to its limit.          *)
(***************************************************************************)

(* The time that requests for a number of pages may take. *)
Span(pages) == Timeout * pages

PagesOf(kind) == IF kind \in Paged THEN 1 + MaxPages ELSE 1

Sent == [key : Questions, asOf : Nat, page : Nat \ {0}, sent : Nat \ {0}]
CacheEntries == [asOf : Nat, created : Nat, expires : Nat]

RegistryTypeOK ==
    /\ now \in Nat \ {0}
    /\ cache \in [Questions -> CacheEntries \cup {NoAnswer}]
    /\ lookups \in [Callers -> Sent \cup {Idle}]

(* A request has not lasted longer than it may, it reads further pages for *)
(* those kinds only that have some, and what it will say is as old at most *)
(* as all its pages may have taken.                                        *)
InTime(r) ==
    /\ r.sent <= now /\ now <= r.sent + Timeout
    /\ r.page <= PagesOf(r.key[1])
    /\ r.asOf = 0 => r.page = 1
    /\ r.asOf # 0 => r.asOf <= now /\ r.sent + Timeout <= r.asOf + Span(r.page)

(* What is cached was not older than that when it came. *)
Kept(k, e) ==
    /\ e.expires = e.created + TTLOf[k[1]]
    /\ e.created <= e.asOf + Span(PagesOf(k[1]))

LookupsInTime == \A c \in Callers : lookups[c] # Idle => InTime(lookups[c])
EntriesKept == \A k \in Cached : Kept(k, cache[k])
ToldIsRecent == told # Nothing => told.at - told.asOf <= MaxAge(told.key[1])
CacheIsSmall == IsFiniteSet(Cached) /\ Cardinality(Cached) <= MaxSize

RegistryInv == RegistryTypeOK /\ LookupsInTime /\ EntriesKept /\ ToldIsRecent /\ CacheIsSmall

-----------------------------------------------------------------------------
(* A page more takes a timeout more, and more pages no less. *)
LEMMA SpanFacts ==
    /\ Timeout \in Nat \ {0} /\ MaxPages \in Nat \ {0} /\ MaxSize \in Nat \ {0}
    /\ Span(1) = Timeout
    /\ \A p \in Nat : Span(p) \in Nat /\ Span(p + 1) = Span(p) + Timeout
    /\ \A p, q \in Nat : p <= q => Span(p) <= Span(q)
<1>1. Timeout \in Nat \ {0} /\ MaxPages \in Nat \ {0} /\ MaxSize \in Nat \ {0}
  BY RegistryConstants
<1>2. Span(1) = Timeout /\ \A p \in Nat : Span(p) \in Nat /\ Span(p + 1) = Span(p) + Timeout
  BY <1>1 DEF Span
<1>3. ASSUME NEW p \in Nat, NEW q \in Nat, p <= q PROVE Span(p) <= Span(q)
  <2>1. PICK d \in Nat : q = p + d
    <3>1. q - p \in Nat /\ q = p + (q - p)
      BY <1>3
    <3> QED BY <3>1
  <2>2. Timeout * (p + d) = Timeout * p + Timeout * d /\ Timeout * d \in Nat /\ Timeout * p \in Nat
    BY <1>1
  <2> QED BY <2>1, <2>2 DEF Span
<1> QED BY <1>1, <1>2, <1>3

(* Every kind has a time to live, at least one page, and the age it allows. *)
LEMMA KindFacts ==
    ASSUME NEW k \in Questions
    PROVE  /\ TTLOf[k[1]] \in Nat
           /\ PagesOf(k[1]) \in Nat /\ 1 <= PagesOf(k[1])
           /\ MaxAge(k[1]) = TTLOf[k[1]] + Span(PagesOf(k[1]))
<1>1. TTLOf[k[1]] \in Nat
  BY RegistryConstants
<1>2. PagesOf(k[1]) \in Nat /\ 1 <= PagesOf(k[1])
  BY SpanFacts DEF PagesOf
<1>3. MaxAge(k[1]) = TTLOf[k[1]] + Span(PagesOf(k[1]))
  BY DEF MaxAge, Span, PagesOf
<1> QED BY <1>1, <1>2, <1>3

(* No lookup under way or entry kept is taken for none. *)
LEMMA NoneIsNone ==
    /\ \A r \in Sent : r # Idle
    /\ \A e \in CacheEntries : e # NoAnswer
    /\ Idle.asOf = 0
<1>1. ASSUME NEW r \in Sent PROVE r # Idle
  BY DEF Sent, Idle
<1>2. ASSUME NEW e \in CacheEntries PROVE e # NoAnswer
  <2>1. e.expires # -1 
    BY DEF CacheEntries
  <2> QED BY <2>1 DEF NoAnswer
<1> QED BY <1>1, <1>2 DEF Idle

(* RegistryInv holds before the first question.                            *)
LEMMA RegistryInitInv == RegistryInit => RegistryInv
<1> SUFFICES ASSUME RegistryInit PROVE RegistryInv
  OBVIOUS
<1>1. RegistryTypeOK
  BY DEF RegistryInit, RegistryTypeOK
<1>2. LookupsInTime /\ ToldIsRecent
  BY DEF RegistryInit, LookupsInTime, ToldIsRecent
<1>3. Cached = {}
  BY DEF RegistryInit, Cached
<1>4. EntriesKept
  BY <1>3 DEF EntriesKept
<1>5. IsFiniteSet(Cached) /\ Cardinality(Cached) = 0
  BY <1>3, FS_EmptySet
<1>6. CacheIsSmall
  BY <1>5, SpanFacts DEF CacheIsSmall
<1> QED BY <1>1, <1>2, <1>4, <1>6 DEF RegistryInv

(* Dropping entries keeps the others as they were. *)
LEMMA DropInv ==
    ASSUME RegistryInv, NEW keys, Forget(keys)
    PROVE  /\ cache' \in [Questions -> CacheEntries \cup {NoAnswer}]
           /\ EntriesKept' /\ CacheIsSmall'
<1> USE DEF RegistryInv
<1>1. cache' \in [Questions -> CacheEntries \cup {NoAnswer}]
  BY DEF RegistryTypeOK, Forget
<1>2. Cached' \subseteq Cached /\ \A k \in Cached' : cache'[k] = cache[k]
  BY DEF Forget, Cached
<1>3. EntriesKept'
  BY <1>2 DEF EntriesKept, Kept
<1>4. IsFiniteSet(Cached') /\ Cardinality(Cached') <= Cardinality(Cached)
  BY <1>2, FS_Subset DEF CacheIsSmall
<1>5. Cardinality(Cached) \in Nat /\ Cardinality(Cached') \in Nat
  BY <1>4, FS_CardinalityType DEF CacheIsSmall
<1>6. CacheIsSmall'
  BY <1>4, <1>5, SpanFacts DEF CacheIsSmall
<1> QED BY <1>1, <1>3, <1>6

(* Storing an answer makes room for it first, when there is none. *)
LEMMA SetInv ==
    ASSUME RegistryInv, NEW key \in Questions, NEW asOf \in Nat, Set(key, asOf),
           now <= asOf + Span(PagesOf(key[1]))
    PROVE  /\ cache' \in [Questions -> CacheEntries \cup {NoAnswer}]
           /\ EntriesKept' /\ CacheIsSmall'
<1> USE DEF RegistryInv
<1> DEFINE added == [asOf |-> asOf, created |-> now, expires |-> now + TTLOf[key[1]]]
<1>1. PICK evicted \in SUBSET Cached :
          /\ evictOldest(evicted)
          /\ cache' = [k \in Questions |->
               IF k = key THEN added ELSE IF k \in evicted THEN NoAnswer ELSE cache[k]]
  BY DEF Set
<1>2. added \in CacheEntries
  BY KindFacts DEF RegistryTypeOK, CacheEntries
<1>3. cache' \in [Questions -> CacheEntries \cup {NoAnswer}]
  BY <1>1, <1>2 DEF RegistryTypeOK
<1>4. /\ Cached' \subseteq (Cached \ evicted) \cup {key}
      /\ cache'[key] = added
      /\ \A k \in Cached' : k # key => cache'[k] = cache[k] /\ k \in Cached
  BY <1>1 DEF Cached
<1>5. Kept(key, added)
  BY DEF Kept
<1>6. EntriesKept'
  BY <1>4, <1>5 DEF EntriesKept, Kept
<1>7. IsFiniteSet(Cached) /\ Cardinality(Cached) \in Nat /\ Cardinality(Cached) <= MaxSize
  BY FS_CardinalityType DEF CacheIsSmall
<1>8. /\ IsFiniteSet(evicted) /\ IsFiniteSet(Cached \ evicted)
      /\ Cardinality(evicted) \in Nat
      /\ Cardinality(Cached \ evicted) = Cardinality(Cached) - Cardinality(evicted)
  <2>1. Cached \cap evicted = evicted
    OBVIOUS
  <2>2. IsFiniteSet(evicted)
    BY <1>7, FS_Subset
  <2>3. /\ IsFiniteSet(Cached \ evicted)
        /\ Cardinality(Cached \ evicted) = Cardinality(Cached) - Cardinality(Cached \cap evicted)
    BY <1>7, FS_Difference
  <2> QED BY <2>1, <2>2, <2>3, FS_CardinalityType
<1>9. PICK left : left = Cached \ evicted
  OBVIOUS
<1>10. /\ Cardinality(left) \in Nat
       /\ Cardinality(left) = Cardinality(Cached) - Cardinality(evicted)
       /\ IsFiniteSet(left)
  BY <1>8, <1>9, FS_CardinalityType
<1>11. Cardinality(left) < MaxSize
  <2>1. CASE Cardinality(Cached) >= MaxSize
    <3>1. Oldest(evicted)
      BY <1>1, <2>1 DEF evictOldest
    <3>2. ToRemove \in Nat /\ ToRemove >= 1
      <4>1. MaxSize \in Nat \ {0}
        BY SpanFacts
      <4> QED BY <4>1 DEF ToRemove
    <3>3. Cardinality(evicted) >= 1
      BY <2>1, <3>1, <3>2, <1>7, SpanFacts DEF Oldest
    <3> QED BY <1>7, <1>8, <1>10, <3>3, SpanFacts
  <2>2. CASE ~(Cardinality(Cached) >= MaxSize)
    BY <1>7, <1>8, <1>10, <2>2, SpanFacts
  <2> QED BY <2>1, <2>2
<1>12. PICK grown : grown = left \cup {key}
  OBVIOUS
<1>13. /\ IsFiniteSet(grown) /\ Cardinality(grown) \in Nat
       /\ Cardinality(grown) <= Cardinality(left) + 1
  <2>1. CASE key \in left
    <3>1. grown = left
      BY <1>12, <2>1
    <3> QED BY <3>1, <1>10
  <2>2. CASE key \notin left
    <3>1. /\ IsFiniteSet(grown)
          /\ Cardinality(grown) = Cardinality(left) + 1
      BY <1>10, <1>12, <2>2, FS_AddElement
    <3> QED BY <3>1, <1>10
  <2> QED BY <2>1, <2>2
<1>14. /\ IsFiniteSet(Cached') /\ Cardinality(Cached') <= Cardinality(grown)
       /\ Cardinality(Cached') \in Nat
  <2>1. Cached' \subseteq grown
    BY <1>4, <1>9, <1>12
  <2> QED BY <1>13, <2>1, FS_Subset, FS_CardinalityType
<1>15. CacheIsSmall'
  BY <1>10, <1>11, <1>13, <1>14, SpanFacts DEF CacheIsSmall
<1> QED BY <1>3, <1>6, <1>15

-----------------------------------------------------------------------------
(* A lookup that ends, or goes on in time, leaves the others as they were. *)
LEMMA LookupsKept ==
    ASSUME RegistryInv, NEW c \in Callers, NEW r \in Sent \cup {Idle},
           lookups' = [lookups EXCEPT ![c] = r], now' = now, r # Idle => InTime(r)
    PROVE  lookups' \in [Callers -> Sent \cup {Idle}] /\ LookupsInTime'
<1> USE DEF RegistryInv
<1>1. lookups' \in [Callers -> Sent \cup {Idle}]
  BY DEF RegistryTypeOK
<1>2. ASSUME NEW d \in Callers, lookups'[d] # Idle PROVE InTime(lookups[d])' 
  <2>1. CASE d = c
    <3>1. lookups'[d] = r
      BY <2>1 DEF RegistryTypeOK
    <3> QED BY <1>2, <3>1 DEF InTime
  <2>2. CASE d # c
    <3>1. lookups'[d] = lookups[d]
      BY <2>2 DEF RegistryTypeOK
    <3>2. InTime(lookups[d])
      BY <1>2, <3>1 DEF LookupsInTime
    <3> QED BY <3>1, <3>2 DEF InTime
  <2> QED BY <2>1, <2>2
<1> QED BY <1>1, <1>2 DEF LookupsInTime

(* An answer told is recent: what it says was read that time ago at most. *)
LEMMA TellInv ==
    ASSUME NEW key \in Questions, NEW asOf \in Nat, now \in Nat, Tell(key, asOf),
           now <= asOf + Span(PagesOf(key[1])) + TTLOf[key[1]]
    PROVE  ToldIsRecent'
<1>1. told'.key[1] = key[1] /\ told'.at - told'.asOf = now - asOf
  BY DEF Tell
<1>2. Span(PagesOf(key[1])) \in Nat /\ TTLOf[key[1]] \in Nat
  BY KindFacts, SpanFacts
<1>3. now - asOf <= MaxAge(key[1])
  BY <1>2, KindFacts
<1>4. MaxAge(told.key[1])' = MaxAge(told'.key[1])
  BY DEF MaxAge
<1> QED BY <1>1, <1>3, <1>4 DEF ToldIsRecent

(* A caller is answered from the cache with an entry that has not expired. *)
LEMMA HitInv ==
    ASSUME RegistryInv, NEW c \in Callers, NEW key \in Questions, Hit(c, key)
    PROVE  RegistryInv'
<1> USE DEF RegistryInv
<1>1. /\ key \in Cached /\ now <= cache[key].expires /\ Tell(key, cache[key].asOf)
      /\ UNCHANGED <<now, cache, lookups>>
  BY DEF Hit, Fresh
<1>2. cache[key] \in CacheEntries /\ Kept(key, cache[key])
  BY <1>1 DEF RegistryTypeOK, Cached, EntriesKept
<1>3. /\ cache[key].asOf \in Nat /\ cache[key].created \in Nat /\ now \in Nat
      /\ Span(PagesOf(key[1])) \in Nat /\ TTLOf[key[1]] \in Nat
  BY <1>2, KindFacts, SpanFacts DEF CacheEntries, RegistryTypeOK
<1>4. now <= cache[key].asOf + Span(PagesOf(key[1])) + TTLOf[key[1]]
  BY <1>1, <1>2, <1>3 DEF Kept
<1>5. ToldIsRecent'
  BY <1>1, <1>3, <1>4, TellInv
<1>6. RegistryTypeOK' /\ LookupsInTime'
  BY <1>1 DEF RegistryTypeOK, LookupsInTime, InTime
<1>7. EntriesKept' /\ CacheIsSmall'
  BY <1>1 DEF EntriesKept, CacheIsSmall, Cached
<1> QED BY <1>5, <1>6, <1>7

(* A caller asks the registry, or repeats a question, and its request      *)
(* begins.                                                                 *)
LEMMA SendInv ==
    ASSUME RegistryInv, NEW c \in Callers, NEW key \in Questions, Send(c, key)
    PROVE  RegistryInv'
<1> USE DEF RegistryInv
<1> DEFINE r == [key |-> key, asOf |-> 0, page |-> 1, sent |-> now]
<1>1. /\ Forget({key}) /\ lookups' = [lookups EXCEPT ![c] = r]
      /\ told' = Nothing /\ now' = now
  BY DEF Send, TellNothing
<1>2. r \in Sent
  BY DEF Sent, RegistryTypeOK
<1>3. InTime(r)
  <2>1. r.key = key /\ r.asOf = 0 /\ r.page = 1 /\ r.sent = now
    OBVIOUS
  <2>2. now \in Nat /\ Timeout \in Nat /\ 1 <= PagesOf(key[1])
    BY KindFacts, SpanFacts DEF RegistryTypeOK
  <2> HIDE DEF r
  <2> QED BY <2>1, <2>2 DEF InTime
<1>4. lookups' \in [Callers -> Sent \cup {Idle}] /\ LookupsInTime'
  <2> HIDE DEF r
  <2> QED BY <1>1, <1>2, <1>3, LookupsKept
<1>5. /\ cache' \in [Questions -> CacheEntries \cup {NoAnswer}]
      /\ EntriesKept' /\ CacheIsSmall'
  BY <1>1, DropInv
<1>6. RegistryTypeOK' /\ ToldIsRecent'
  BY <1>1, <1>4, <1>5 DEF RegistryTypeOK, ToldIsRecent
<1> QED BY <1>4, <1>5, <1>6

(* What a request under way is. *)
LEMMA SentFacts ==
    ASSUME RegistryInv, NEW c \in Callers, lookups[c] # Idle
    PROVE  /\ lookups[c] \in Sent /\ InTime(lookups[c])
           /\ lookups[c].key \in Questions /\ lookups[c].asOf \in Nat
           /\ lookups[c].page \in Nat \ {0} /\ lookups[c].sent \in Nat \ {0}
           /\ now \in Nat \ {0}
           /\ PagesOf(lookups[c].key[1]) \in Nat
           /\ Span(lookups[c].page) \in Nat
           /\ Span(lookups[c].page) <= Span(PagesOf(lookups[c].key[1]))
           /\ Span(PagesOf(lookups[c].key[1])) \in Nat
           /\ TTLOf[lookups[c].key[1]] \in Nat
<1>1. lookups[c] \in Sent /\ InTime(lookups[c]) /\ now \in Nat \ {0}
  BY DEF RegistryInv, RegistryTypeOK, LookupsInTime
<1>2. /\ lookups[c].key \in Questions /\ lookups[c].asOf \in Nat
      /\ lookups[c].page \in Nat \ {0} /\ lookups[c].sent \in Nat \ {0}
  BY <1>1 DEF Sent
<1>3. lookups[c].page <= PagesOf(lookups[c].key[1])
  BY <1>1 DEF InTime
<1>4. PagesOf(lookups[c].key[1]) \in Nat /\ TTLOf[lookups[c].key[1]] \in Nat
  BY <1>2, KindFacts
<1> QED BY <1>1, <1>2, <1>3, <1>4, SpanFacts

(* The registry answers with what it has now, in time.                     *)
LEMMA AnswerPageInv ==
    ASSUME RegistryInv, NEW c \in Callers, AnswerPage(c)
    PROVE  RegistryInv'
<1> USE DEF RegistryInv
<1> DEFINE old == lookups[c]
           r == [old EXCEPT !.asOf = now]
<1>1. /\ old # Idle /\ old.asOf = 0
      /\ lookups' = [lookups EXCEPT ![c] = r]
      /\ told' = Nothing /\ now' = now /\ cache' = cache
  BY DEF AnswerPage, TellNothing
<1>2. old \in Sent /\ InTime(old) /\ now \in Nat \ {0}
  BY <1>1, SentFacts
<1>3. /\ r \in Sent /\ r.asOf = now /\ r.page = old.page /\ r.sent = old.sent /\ r.key = old.key
  BY <1>2 DEF Sent
<1>4. InTime(r)
  <2> HIDE DEF r
  <2>1. r.page = 1 /\ Span(1) = Timeout
    BY <1>1, <1>2, <1>3, SpanFacts DEF InTime
  <2>2. old.sent \in Nat /\ Timeout \in Nat
    BY <1>1, SentFacts, SpanFacts
  <2> QED BY <1>2, <1>3, <2>1, <2>2 DEF InTime
<1>5. lookups' \in [Callers -> Sent \cup {Idle}] /\ LookupsInTime'
  <2> HIDE DEF r
  <2> QED BY <1>1, <1>3, <1>4, LookupsKept
<1>6. RegistryTypeOK' /\ ToldIsRecent'
  BY <1>1, <1>5 DEF RegistryTypeOK, ToldIsRecent
<1>7. EntriesKept' /\ CacheIsSmall'
  BY <1>1 DEF EntriesKept, CacheIsSmall, Cached
<1> QED BY <1>5, <1>6, <1>7

(* A listing goes on with its next page, in a request of its own.          *)
LEMMA NextPageInv ==
    ASSUME RegistryInv, NEW c \in Callers, NextPage(c)
    PROVE  RegistryInv'
<1> USE DEF RegistryInv
<1> DEFINE old == lookups[c]
           r == [old EXCEPT !.page = @ + 1, !.sent = now]
<1>1. /\ old.asOf # 0 /\ old.key[1] \in Paged /\ old.page <= MaxPages
      /\ lookups' = [lookups EXCEPT ![c] = r]
      /\ told' = Nothing /\ now' = now /\ cache' = cache
  BY DEF NextPage, TellNothing
<1>2. old # Idle
  BY <1>1, NoneIsNone
<1>3. /\ old \in Sent /\ InTime(old) /\ now \in Nat \ {0}
      /\ old.page \in Nat \ {0} /\ old.sent \in Nat \ {0} /\ old.asOf \in Nat
  BY <1>2, SentFacts
<1>4. /\ r \in Sent /\ r.asOf = old.asOf /\ r.page = old.page + 1 /\ r.sent = now /\ r.key = old.key
  <2>1. old.page + 1 \in Nat \ {0}
    BY <1>3
  <2>2. r \in Sent /\ r.asOf = old.asOf /\ r.sent = now /\ r.key = old.key
    BY <1>3, <2>1 DEF Sent
  <2>3. r.page = old.page + 1
    BY <1>3 DEF Sent
  <2> QED BY <2>2, <2>3
<1>5. InTime(r)
  <2> HIDE DEF r
  <2>1. r.page <= PagesOf(r.key[1])
    <3>1. r.key[1] \in Paged /\ old.page \in Nat /\ MaxPages \in Nat
      BY <1>1, <1>3, <1>4, SpanFacts
    <3> QED BY <1>1, <1>4, <3>1 DEF PagesOf
  <2>2. /\ Span(old.page + 1) = Span(old.page) + Timeout
        /\ Span(old.page) \in Nat /\ Timeout \in Nat
    BY <1>3, SpanFacts
  <2>3. /\ old.asOf <= now /\ old.sent + Timeout <= old.asOf + Span(old.page)
        /\ now <= old.sent + Timeout
    BY <1>1, <1>3 DEF InTime
  <2>4. now + Timeout <= old.asOf + Span(old.page + 1)
    BY <1>3, <2>2, <2>3
  <2> QED BY <1>1, <1>3, <1>4, <2>1, <2>2, <2>3, <2>4 DEF InTime
<1>6. lookups' \in [Callers -> Sent \cup {Idle}] /\ LookupsInTime'
  <2> HIDE DEF r
  <2> QED BY <1>1, <1>4, <1>5, LookupsKept
<1>7. RegistryTypeOK' /\ ToldIsRecent'
  BY <1>1, <1>6 DEF RegistryTypeOK, ToldIsRecent
<1>8. EntriesKept' /\ CacheIsSmall'
  BY <1>1 DEF EntriesKept, CacheIsSmall, Cached
<1> QED BY <1>6, <1>7, <1>8

(* An answer that is stored and told, and ends its request. *)
LEMMA AnswerInv ==
    ASSUME RegistryInv, NEW c \in Callers, lookups[c] # Idle, NEW asOf \in Nat,
           Set(lookups[c].key, asOf), Tell(lookups[c].key, asOf), LookupEnds(c), now' = now,
           now <= asOf + Span(PagesOf(lookups[c].key[1]))
    PROVE  RegistryInv'
<1> USE DEF RegistryInv
<1>1. PICK key : key = lookups[c].key
  OBVIOUS
<1>2. /\ key \in Questions /\ now \in Nat /\ Span(PagesOf(key[1])) \in Nat
      /\ TTLOf[key[1]] \in Nat /\ now <= asOf + Span(PagesOf(key[1]))
      /\ Set(key, asOf) /\ Tell(key, asOf)
  BY <1>1, SentFacts
<1>3. /\ cache' \in [Questions -> CacheEntries \cup {NoAnswer}]
      /\ EntriesKept' /\ CacheIsSmall'
  BY <1>2, SetInv
<1>4. now <= asOf + Span(PagesOf(key[1])) + TTLOf[key[1]]
  BY <1>2
<1>5. ToldIsRecent'
  BY <1>2, <1>4, TellInv
<1>6. lookups' \in [Callers -> Sent \cup {Idle}] /\ LookupsInTime'
  BY LookupsKept DEF LookupEnds
<1>7. RegistryTypeOK'
  BY <1>3, <1>6 DEF RegistryTypeOK
<1> QED BY <1>3, <1>5, <1>6, <1>7

(* The answer is kept in the cache and told.                               *)
LEMMA ArriveInv ==
    ASSUME RegistryInv, NEW c \in Callers, Arrive(c)
    PROVE  RegistryInv'
<1> DEFINE r == lookups[c]
<1>1. /\ r.asOf # 0 /\ Set(r.key, r.asOf) /\ Tell(r.key, r.asOf) /\ LookupEnds(c) /\ now' = now
  BY DEF Arrive
<1>2. r # Idle
  BY <1>1, NoneIsNone
<1>3. /\ InTime(r) /\ r.asOf \in Nat /\ r.sent \in Nat /\ now \in Nat
      /\ Span(r.page) \in Nat /\ Span(PagesOf(r.key[1])) \in Nat
      /\ Span(r.page) <= Span(PagesOf(r.key[1]))
      /\ Timeout \in Nat
  BY <1>2, SentFacts, SpanFacts
<1>4. now <= r.asOf + Span(PagesOf(r.key[1]))
  <2>1. now <= r.sent + Timeout /\ r.sent + Timeout <= r.asOf + Span(r.page)
    BY <1>1, <1>3 DEF InTime
  <2> QED BY <1>3, <2>1
<1> QED BY <1>1, <1>2, <1>3, <1>4, AnswerInv

(* The status request of a caller fails and something else is told.        *)
LEMMA StatusFailsInv ==
    ASSUME RegistryInv, NEW c \in Callers, StatusFails(c)
    PROVE  RegistryInv'
<1> DEFINE r == lookups[c]
<1>1. PICK asOf : asOf = IF r.asOf = 0 THEN r.sent ELSE r.asOf
  OBVIOUS
<1>2. /\ r # Idle /\ Set(r.key, asOf) /\ Tell(r.key, asOf) /\ LookupEnds(c) /\ now' = now
  BY <1>1 DEF StatusFails
<1>3. /\ InTime(r) /\ r.asOf \in Nat /\ r.sent \in Nat /\ now \in Nat
      /\ Span(r.page) \in Nat /\ Span(PagesOf(r.key[1])) \in Nat
      /\ Span(r.page) <= Span(PagesOf(r.key[1]))
      /\ Timeout \in Nat /\ Span(1) = Timeout
  BY <1>2, SentFacts, SpanFacts
<1>4. asOf \in Nat
  BY <1>1, <1>3
<1>5. now <= asOf + Span(PagesOf(r.key[1]))
  <2>1. CASE r.asOf = 0
    <3>1. asOf = r.sent /\ now <= r.sent + Timeout /\ r.page = 1
      BY <1>1, <1>3, <2>1 DEF InTime
    <3>2. Timeout <= Span(PagesOf(r.key[1]))
      BY <1>3, <3>1
    <3> QED BY <1>3, <3>1, <3>2
  <2>2. CASE r.asOf # 0
    <3>1. now <= r.sent + Timeout /\ r.sent + Timeout <= r.asOf + Span(r.page) /\ asOf = r.asOf
      BY <1>1, <1>3, <2>2 DEF InTime
    <3> QED BY <1>3, <3>1
  <2> QED BY <2>1, <2>2
<1> QED BY <1>2, <1>4, <1>5, AnswerInv

(* A request fails or runs out of time; nothing is kept.                   *)
LEMMA RequestFailsInv ==
    ASSUME RegistryInv, NEW c \in Callers, RequestFails(c)
    PROVE  RegistryInv'
<1> USE DEF RegistryInv
<1>1. LookupEnds(c) /\ told' = Nothing /\ now' = now /\ cache' = cache
  BY DEF RequestFails, TellNothing
<1>2. lookups' \in [Callers -> Sent \cup {Idle}] /\ LookupsInTime'
  BY <1>1, LookupsKept DEF LookupEnds
<1>3. RegistryTypeOK' /\ ToldIsRecent'
  BY <1>1, <1>2 DEF RegistryTypeOK, ToldIsRecent
<1>4. EntriesKept' /\ CacheIsSmall'
  BY <1>1 DEF EntriesKept, CacheIsSmall, Cached
<1> QED BY <1>2, <1>3, <1>4

(* The cleanup drops entries that have expired.                            *)
LEMMA CleanupInv ==
    ASSUME RegistryInv, Cleanup
    PROVE  RegistryInv'
<1> USE DEF RegistryInv
<1>1. /\ Forget({k \in Cached : ~Fresh(k)})
      /\ told' = Nothing /\ now' = now /\ lookups' = lookups
  BY DEF Cleanup, TellNothing
<1>2. /\ cache' \in [Questions -> CacheEntries \cup {NoAnswer}]
      /\ EntriesKept' /\ CacheIsSmall'
  BY <1>1, DropInv
<1>3. RegistryTypeOK' /\ ToldIsRecent'
  BY <1>1, <1>2 DEF RegistryTypeOK, ToldIsRecent
<1>4. LookupsInTime'
  BY <1>1 DEF LookupsInTime, InTime
<1> QED BY <1>2, <1>3, <1>4

(* Time passes, no further than a request under way allows.                *)
LEMMA TimePassesInv ==
    ASSUME RegistryInv, TimePasses
    PROVE  RegistryInv'
<1> USE DEF RegistryInv
<1>1. /\ \A c \in Callers : lookups[c] = Idle \/ now < lookups[c].sent + Timeout
      /\ now' = now + 1 /\ told' = Nothing /\ cache' = cache /\ lookups' = lookups
  BY DEF TimePasses, TellNothing
<1>2. RegistryTypeOK' /\ ToldIsRecent'
  BY <1>1 DEF RegistryTypeOK, ToldIsRecent
<1>3. EntriesKept' /\ CacheIsSmall'
  BY <1>1 DEF EntriesKept, CacheIsSmall, Cached
<1>4. ASSUME NEW c \in Callers, lookups'[c] # Idle PROVE InTime(lookups[c])'
  <2>1. lookups'[c] = lookups[c] /\ lookups[c] # Idle
    BY <1>1, <1>4
  <2>2. /\ InTime(lookups[c]) /\ now \in Nat /\ lookups[c].sent \in Nat
        /\ lookups[c].asOf \in Nat /\ Timeout \in Nat
    BY <2>1, SentFacts, SpanFacts
  <2>3. now < lookups[c].sent + Timeout
    BY <1>1, <2>1
  <2>4. lookups[c].sent <= now + 1 /\ now + 1 <= lookups[c].sent + Timeout
    BY <2>2, <2>3 DEF InTime
  <2>5. lookups[c].asOf <= now => lookups[c].asOf <= now + 1
    BY <2>2
  <2> QED BY <1>1, <2>1, <2>2, <2>4, <2>5 DEF InTime
<1>5. LookupsInTime'
  BY <1>4 DEF LookupsInTime
<1> QED BY <1>2, <1>3, <1>5

(* Every step of callers, the registry and the cache keeps RegistryInv.    *)
LEMMA RegistryNextInv == RegistryInv /\ [RegistryNext]_registryVars => RegistryInv'
<1> SUFFICES ASSUME RegistryInv, [RegistryNext]_registryVars PROVE RegistryInv'
  OBVIOUS
<1>1. ASSUME NEW c \in Callers, NEW key \in Questions, Hit(c, key) \/ Send(c, key)
      PROVE RegistryInv'
  BY <1>1, HitInv, SendInv
<1>2. ASSUME NEW c \in Callers, AnswerPage(c) \/ NextPage(c) \/ Arrive(c) PROVE RegistryInv'
  BY <1>2, AnswerPageInv, NextPageInv, ArriveInv
<1>3. ASSUME NEW c \in Callers, RequestFails(c) \/ StatusFails(c) PROVE RegistryInv'
  BY <1>3, RequestFailsInv, StatusFailsInv
<1>4. CASE Cleanup
  BY <1>4, CleanupInv
<1>5. CASE TimePasses
  BY <1>5, TimePassesInv
<1>6. CASE UNCHANGED registryVars
  BY <1>6 DEF registryVars, RegistryInv, RegistryTypeOK, LookupsInTime, InTime, EntriesKept,
              Cached, ToldIsRecent, CacheIsSmall
<1> QED BY <1>1, <1>2, <1>3, <1>4, <1>5, <1>6 DEF RegistryNext

-----------------------------------------------------------------------------
(* In every behaviour the requests keep to their time, and the cache to    *)
(* what they brought and to its limit.                                     *)
THEOREM RegistryInvariant == RegistrySpec => []RegistryInv
<1> QED BY RegistryInitInv, RegistryNextInv, PTL DEF RegistrySpec

(* An answer is never older than the time to live and its requests allow,  *)
(* for any times to live, timeout, number of pages, callers and questions, *)
(* and the cache never outgrows its limit.                                 *)
THEOREM AnswersStayRecent == RegistrySpec => []AnswersAreRecent
<1>1. RegistryInv => AnswersAreRecent
  BY DEF RegistryInv, ToldIsRecent, CacheIsSmall, AnswersAreRecent
<1> QED BY <1>1, RegistryInvariant, PTL

-----------------------------------------------------------------------------
(***************************************************************************)
(* A name that was listed, taken apart again.  What makes it come apart    *)
(* where it was put together is that the first separator in it is the one  *)
(* put in, which is so exactly for plain names: a separator that begins    *)
(* before would begin in the name, or end in the separator behind it.      *)
(***************************************************************************)

Texts == Seq(Symbols)

(* The least and the greatest of some numbers up to n are among them.      *)
LEMMA LeastExists ==
    ASSUME NEW S \in SUBSET Nat, S # {}
    PROVE  \E x \in S : \A y \in S : x <= y
<1>1. PICK Less : Less = {ss \in Nat \X Nat : ss[1] < ss[2]} /\ IsWellFoundedOn(Less, Nat)
  BY NatLessThanWellFounded, Zenon DEF OpToRel
<1>2. PICK x \in S : \A y \in S : ~(<<y, x>> \in Less)
  BY <1>1, WFMin
<1>3. ASSUME NEW y \in S
      PROVE  x <= y
  <2>1. x \in Nat /\ y \in Nat /\ <<y, x>> \notin Less
    BY <1>2
  <2>2. ~(y < x)
    BY <1>1, <2>1
  <2>3. QED
    BY <2>1, <2>2
<1>4. QED
  BY <1>3

(* The least and the greatest of a set of places.                          *)
LEMMA MinMaxFacts ==
    ASSUME NEW n \in Nat, NEW S \in SUBSET (1 .. n), S # {}
    PROVE  /\ Min(S) \in S /\ \A y \in S : Min(S) <= y
           /\ Max(S) \in S /\ \A y \in S : y <= Max(S)
<1>1. \E x \in S : \A y \in S : x <= y
  BY LeastExists
<1>2. \E x \in S : \A y \in S : x >= y
  <2> DEFINE R == {n - x : x \in S}
  <2>a. \A x \in S : n - x \in Nat
    BY SMT
  <2>1. R \in SUBSET Nat /\ R # {}
    BY <2>a
  <2>2. PICK r \in R : \A q \in R : r <= q
    BY <2>1, LeastExists
  <2>3. PICK x \in S : r = n - x
    OBVIOUS
  <2>4. ASSUME NEW y \in S
        PROVE  x >= y
    <3>1. r <= n - y
      BY <2>2
    <3>2. QED
      BY <2>3, <3>1
  <2>5. QED
    BY <2>4
<1>3. Min(S) \in S /\ \A y \in S : Min(S) <= y
  BY <1>1 DEF Min
<1>4. Max(S) \in S /\ \A y \in S : Max(S) >= y
  BY <1>2 DEF Max
<1>5. \A x, y \in S : x >= y => y <= x
  OBVIOUS
<1>6. QED
  BY <1>3, <1>4, <1>5

(* A trimmed text is a part of the text; of the text's own length it is    *)
(* the text; a text with no space at either end is left alone.             *)
LEMMA TrimFacts ==
    ASSUME NEW s \in Texts
    PROVE  /\ Trim(s) \in Texts
           /\ Len(Trim(s)) <= Len(s)
           /\ Len(Trim(s)) = Len(s) => Trim(s) = s
<1> DEFINE solid == {i \in DOMAIN s : s[i] # " "}
<1>1. CASE solid = {}
  <2>1. Trim(s) = <<>>
    BY <1>1 DEF Trim
  <2>2. Len(s) = 0 => s = <<>>
    BY DEF Texts
  <2>3. QED
    BY <2>1, <2>2 DEF Texts
<1>2. CASE solid # {}
  <2>a. Len(s) \in Nat /\ DOMAIN s = 1 .. Len(s)
    BY DEF Texts
  <2>1. Len(s) \in Nat /\ solid \in SUBSET (1 .. Len(s))
    BY <2>a
  <2>2. Trim(s) = SubSeq(s, Min(solid), Max(solid))
    BY <1>2 DEF Trim
  <2>3. PICK a, b : a = Min(solid) /\ b = Max(solid)
    OBVIOUS
  <2>4. a \in solid /\ b \in solid /\ a <= b
    BY <1>2, <2>1, <2>3, MinMaxFacts
  <2>5. a \in 1 .. Len(s) /\ b \in 1 .. Len(s) /\ Trim(s) = SubSeq(s, a, b)
    BY <2>1, <2>2, <2>3, <2>4
  <2>b. a \in 1 .. Len(s) /\ b \in 1 .. Len(s) /\ a <= b
    BY <2>4, <2>5
  <2> HIDE DEF solid
  <2>6. SubSeq(s, a, b) \in Texts /\ Len(SubSeq(s, a, b)) = b - a + 1
    BY <2>b DEF Texts
  <2>c. PICK n \in Nat : n = Len(s)
    BY <2>a
  <2>7. b - a + 1 <= Len(s) /\ (b - a + 1 = Len(s) => a = 1 /\ b = Len(s))
    BY <2>b, <2>c
  <2>8. SubSeq(s, 1, Len(s)) = s
    BY DEF Texts
  <2>9. QED
    BY <2>5, <2>6, <2>7, <2>8
<1>3. QED
  BY <1>1, <1>2

(* Where a separator begins in a text.                                     *)
LEMMA CutFacts ==
    ASSUME NEW s \in Texts
    PROVE  /\ Cuts(s) \in SUBSET (1 .. Len(s))
           /\ \A i : i \in Cuts(s) <=> /\ i \in 1 .. Len(s) - 2
                                       /\ s[i] = "_" /\ s[i + 1] = "1" /\ s[i + 2] = "_"
<1>1. Len(s) \in Nat
  BY DEF Texts
<1>2. ASSUME NEW i \in 1 .. Len(s) - 2
      PROVE  SubSeq(s, i, i + 2) = Separator <=> s[i] = "_" /\ s[i + 1] = "1" /\ s[i + 2] = "_"
  <2>1. PICK t : t = SubSeq(s, i, i + 2)
    OBVIOUS
  <2>2. /\ t \in Texts /\ Len(t) = 3
        /\ t[1] = s[i] /\ t[2] = s[i + 1] /\ t[3] = s[i + 2]
    BY <1>1, <2>1 DEF Texts
  <2>3. t = <<t[1], t[2], t[3]>>
    BY <2>2 DEF Texts
  <2>a. t = <<"_", "1", "_">> => t[1] = "_" /\ t[2] = "1" /\ t[3] = "_"
    <3>1. <<"_", "1", "_">>[1] = "_" /\ <<"_", "1", "_">>[2] = "1" /\ <<"_", "1", "_">>[3] = "_"
      OBVIOUS
    <3>2. QED
      BY <3>1, Zenon
  <2>b. t[1] = "_" /\ t[2] = "1" /\ t[3] = "_" => t = <<"_", "1", "_">>
    BY <2>3, Zenon
  <2>4. t = <<"_", "1", "_">> <=> t[1] = "_" /\ t[2] = "1" /\ t[3] = "_"
    BY <2>a, <2>b
  <2>5. QED
    BY <2>1, <2>2, <2>4 DEF Separator
<1>3. Cuts(s) \in SUBSET (1 .. Len(s))
  BY <1>1 DEF Cuts
<1>4. \A i : i \in Cuts(s) <=> i \in 1 .. Len(s) - 2 /\ SubSeq(s, i, i + 2) = Separator
  BY DEF Cuts
<1>5. QED
  BY <1>2, <1>3, <1>4

(* A text has a length, and is empty when that is zero.                    *)
LEMMA EmptyText == \A s \in Texts : /\ Len(s) \in Nat
                                    /\ DOMAIN s = 1 .. Len(s)
                                    /\ s = <<>> <=> Len(s) = 0
BY DEF Texts

(* Two texts, one behind the other.                                        *)
LEMMA JoinFacts ==
    ASSUME NEW a \in Texts, NEW b \in Texts
    PROVE  /\ a \o b \in Texts
           /\ Len(a \o b) = Len(a) + Len(b)
           /\ \A i \in 1 .. Len(a) : (a \o b)[i] = a[i]
           /\ \A i \in 1 .. Len(b) : (a \o b)[Len(a) + i] = b[i]
<1>1. a \o b \in Texts /\ Len(a \o b) = Len(a) + Len(b)
  BY DEF Texts
<1>2. \A i \in 1 .. Len(a) : (a \o b)[i] = a[i]
  BY DEF Texts
<1>3. \A i \in 1 .. Len(b) : (a \o b)[Len(a) + i] = b[i]
  BY DEF Texts
<1>4. QED
  BY <1>1, <1>2, <1>3

(* A name put together of c and m, up to the end of the separator put in.  *)
LEMMA JoinedFacts ==
    ASSUME NEW c \in Texts, NEW m \in Texts
    PROVE  LET h == c \o Separator
               u == h \o m
           IN  /\ h \in Texts /\ Len(h) = Len(c) + 3
               /\ u \in Texts /\ Len(u) = Len(c) + 3 + Len(m)
               /\ Len(c) + 1 \in Cuts(h)
               /\ Cuts(h) \subseteq 1 .. Len(c) + 1
               /\ \A i \in 1 .. Len(c) + 1 : i \in Cuts(u) <=> i \in Cuts(h)
               /\ SubSeq(u, 1, Len(c)) = c
               /\ SubSeq(u, Len(c) + 4, Len(u)) = m
<1> DEFINE h == c \o Separator
           u == h \o m
<1>a. \A x, y, z \in Symbols : <<x, y, z>> \in Texts /\ Len(<<x, y, z>>) = 3
  BY DEF Texts
<1>b. "_" \in Symbols /\ "1" \in Symbols
  BY DEF Symbols
<1>1. Separator \in Texts /\ Len(Separator) = 3
  BY <1>a, <1>b DEF Separator
<1>2. Separator[1] = "_" /\ Separator[2] = "1" /\ Separator[3] = "_"
  BY DEF Separator
<1>3. Len(c) \in Nat /\ Len(m) \in Nat
  BY DEF Texts
<1>4. /\ h \in Texts /\ Len(h) = Len(c) + 3
      /\ \A i \in 1 .. Len(c) : h[i] = c[i]
      /\ \A i \in 1 .. 3 : h[Len(c) + i] = Separator[i]
  <2>1. /\ h \in Texts /\ Len(h) = Len(c) + Len(Separator)
        /\ \A i \in 1 .. Len(c) : h[i] = c[i]
        /\ \A i \in 1 .. Len(Separator) : h[Len(c) + i] = Separator[i]
    BY <1>1, JoinFacts, Zenon
  <2> HIDE DEF h
  <2>2. QED
    BY <1>1, <2>1
<1>5. h[Len(c) + 1] = "_" /\ h[Len(c) + 2] = "1" /\ h[Len(c) + 3] = "_"
  <2>1. 1 \in 1 .. 3 /\ 2 \in 1 .. 3 /\ 3 \in 1 .. 3
    OBVIOUS
  <2> HIDE DEF h
  <2>2. QED
    BY <1>2, <1>4, <2>1
<1> HIDE DEF h
<1>6. /\ u \in Texts /\ Len(u) = Len(c) + 3 + Len(m)
      /\ \A i \in 1 .. Len(c) + 3 : u[i] = h[i]
      /\ \A i \in 1 .. Len(m) : u[Len(c) + 3 + i] = m[i]
  <2>1. /\ u \in Texts /\ Len(u) = Len(h) + Len(m)
        /\ \A i \in 1 .. Len(h) : u[i] = h[i]
        /\ \A i \in 1 .. Len(m) : u[Len(h) + i] = m[i]
    BY <1>4, JoinFacts, Zenon
  <2> HIDE DEF u
  <2>2. QED
    BY <1>4, <2>1
<1> HIDE DEF u
<1>7. Len(c) + 1 \in Cuts(h) /\ Cuts(h) \subseteq 1 .. Len(c) + 1
  <2>1. \A i : i \in Cuts(h) <=> /\ i \in 1 .. Len(h) - 2
                                 /\ h[i] = "_" /\ h[i + 1] = "1" /\ h[i + 2] = "_"
    BY <1>4, CutFacts
  <2>2. Len(c) + 1 \in 1 .. Len(h) - 2 /\ (Len(c) + 1) + 1 = Len(c) + 2 /\ (Len(c) + 1) + 2 = Len(c) + 3
    BY <1>3, <1>4
  <2>3. Len(h) - 2 = Len(c) + 1
    BY <1>3, <1>4
  <2>4. Len(c) + 1 \in Cuts(h)
    BY <1>5, <2>1, <2>2
  <2>5. Cuts(h) \subseteq 1 .. Len(c) + 1
    BY <2>1, <2>3
  <2>6. QED
    BY <2>4, <2>5
<1>8. \A i \in 1 .. Len(c) + 1 : i \in Cuts(u) <=> i \in Cuts(h)
  <2> SUFFICES ASSUME NEW i \in 1 .. Len(c) + 1
               PROVE  i \in Cuts(u) <=> i \in Cuts(h)
    OBVIOUS
  <2>1. u[i] = h[i] /\ u[i + 1] = h[i + 1] /\ u[i + 2] = h[i + 2]
    BY <1>3, <1>6
  <2>2. i \in 1 .. Len(u) - 2 /\ i \in 1 .. Len(h) - 2
    BY <1>3, <1>4, <1>6
  <2>3. i \in Cuts(u) <=> u[i] = "_" /\ u[i + 1] = "1" /\ u[i + 2] = "_"
    BY <1>6, <2>2, CutFacts
  <2>4. i \in Cuts(h) <=> h[i] = "_" /\ h[i + 1] = "1" /\ h[i + 2] = "_"
    BY <1>4, <2>2, CutFacts
  <2>5. QED
    BY <2>1, <2>3, <2>4
<1>9. SubSeq(u, 1, Len(c)) = c
  <2>1. \A i \in 1 .. Len(c) : u[i] = c[i]
    BY <1>3, <1>4, <1>6
  <2>2. QED
    BY <1>3, <1>6, <2>1 DEF Texts
<1>10. SubSeq(u, Len(c) + 4, Len(u)) = m
  <2>1. PICK t : t = SubSeq(u, Len(c) + 4, Len(u))
    OBVIOUS
  <2>2. /\ t \in Texts /\ Len(t) = Len(m)
        /\ \A i \in 1 .. Len(m) : t[i] = u[Len(c) + 3 + i]
    BY <1>3, <1>6, <2>1 DEF Texts
  <2>3. \A i \in 1 .. Len(m) : t[i] = m[i]
    BY <1>6, <2>2
  <2>4. t = m
    BY <2>2, <2>3 DEF Texts
  <2>5. QED
    BY <2>1, <2>4
<1>11. QED
  BY <1>4, <1>6, <1>7, <1>8, <1>9, <1>10 DEF u, h

(* A listed name comes apart where it was put together exactly when the    *)
(* server's name is plain.                                                 *)
LEMMA PlainNames ==
    ASSUME NEW name \in Texts, NEW m \in Texts, Trim(m) = m, m # <<>>, Trim(name) # <<>>
    PROVE  Plain(name) <=> parseUri(buildUri(name, m)) = <<name, m>>
<1> DEFINE c == Trim(name)
           h == c \o Separator
           u == h \o m
<1>1. c \in Texts /\ Len(c) <= Len(name) /\ (Len(c) = Len(name) => c = name)
  BY TrimFacts
<1>2. Len(c) \in Nat /\ Len(name) \in Nat /\ Len(c) # 0 /\ Len(m) \in Nat
  BY <1>1, EmptyText
<1>3. buildUri(name, m) = u
  BY DEF buildUri
<1> HIDE DEF c
<1>4. /\ h \in Texts /\ Len(h) = Len(c) + 3
      /\ u \in Texts /\ Len(u) = Len(c) + 3 + Len(m)
      /\ Len(c) + 1 \in Cuts(h)
      /\ Cuts(h) \subseteq 1 .. Len(c) + 1
      /\ \A i \in 1 .. Len(c) + 1 : i \in Cuts(u) <=> i \in Cuts(h)
      /\ SubSeq(u, 1, Len(c)) = c
      /\ SubSeq(u, Len(c) + 4, Len(u)) = m
  BY <1>1, JoinedFacts
<1> HIDE DEF h, u
<1>5. PICK k : k = SplitAt(u)
  OBVIOUS
<1>6. /\ k \in Cuts(u) /\ Cuts(u) # {}
      /\ k \in 1 .. Len(c) + 1
  <2>1. Cuts(u) \in SUBSET (1 .. Len(u)) /\ Len(u) \in Nat
    BY <1>4, CutFacts, EmptyText
  <2>2. Len(c) + 1 \in Cuts(u)
    BY <1>2, <1>4
  <2>3. Min(Cuts(u)) \in Cuts(u) /\ Min(Cuts(u)) <= Len(c) + 1
    BY <2>1, <2>2, MinMaxFacts
  <2>4. QED
    BY <1>2, <1>5, <2>1, <2>2, <2>3 DEF SplitAt
<1> DEFINE first == Trim(SubSeq(u, 1, k - 1))
           rest == Trim(SubSeq(u, k + 3, Len(u)))
<1>7. parseUri(u) = IF first = <<>> \/ rest = <<>> THEN Invalid ELSE <<first, rest>>
  BY <1>5, <1>6 DEF parseUri
<1>8. ASSUME Plain(name)
      PROVE  parseUri(u) = <<name, m>>
  <2>1. c = name /\ Cuts(h) = {Len(c) + 1}
    BY <1>8 DEF Plain, c, h
  <2>2. k = Len(c) + 1
    BY <1>4, <1>6, <2>1
  <2>3. k - 1 = Len(c) /\ k + 3 = Len(c) + 4
    BY <1>2, <2>2
  <2>4. first = Trim(c) /\ rest = m
    BY <1>4, <2>3
  <2>5. Trim(c) = name /\ name # <<>>
    BY <1>8, <2>1 DEF Plain
  <2>6. QED
    BY <1>7, <2>4, <2>5
<1>9. ASSUME parseUri(u) = <<name, m>>
      PROVE  Plain(name)
  <2>1. first = name
    <3>1. Invalid # <<name, m>>
      BY DEF Invalid
    <3>2. <<first, rest>> = <<name, m>>
      BY <1>7, <1>9, <3>1
    <3>3. QED
      BY <3>2
  <2>2. k - 1 \in 0 .. Len(c) /\ Len(c) <= Len(u) /\ Len(u) \in Nat
    BY <1>2, <1>4, <1>6
  <2>3. SubSeq(u, 1, k - 1) \in Texts /\ Len(SubSeq(u, 1, k - 1)) = k - 1
    BY <1>4, <2>2 DEF Texts
  <2>4. Len(name) <= k - 1
    BY <2>1, <2>3, TrimFacts
  <2>5. Len(c) = Len(name) /\ k = Len(c) + 1
    BY <1>1, <1>2, <1>6, <2>4
  <2>6. c = name
    BY <1>1, <2>5
  <2>7. Cuts(h) = {Len(c) + 1}
    <3>1. ASSUME NEW i \in Cuts(h) PROVE i = Len(c) + 1
      <4>1. i \in 1 .. Len(c) + 1 /\ i \in Cuts(u)
        BY <1>4
      <4>2. Cuts(u) \in SUBSET (1 .. Len(u)) /\ Len(u) \in Nat
        BY <1>4, CutFacts, EmptyText
      <4>3. Min(Cuts(u)) <= i
        BY <4>1, <4>2, MinMaxFacts
      <4>4. QED
        BY <1>2, <1>5, <2>5, <4>1, <4>3 DEF SplitAt
    <3>2. QED
      BY <1>4, <3>1
  <2>8. QED
    BY <2>6, <2>7 DEF Plain, c, h
<1>10. QED
  BY <1>3, <1>8, <1>9

(* What a session is listed, and what it has called.                       *)
Offered ==
    [conn : {<<client, "">>, <<client, "own">>, <<client, "hash">>}, name : {buildUri(client, item)}]

DispatchInv ==
    /\ client \in Strings /\ item \in Strings
    /\ conns \in Conns(client)
    /\ listed \subseteq Offered
    /\ listed # {} => isItemAllowed(item)
    /\ \A call \in reached : /\ call.entry \in listed
                             /\ call.conns = conns
                             /\ call.by = Calls(call.entry.name)

(* Nothing is listed yet, and nothing has been called.                     *)
LEMMA DispatchInvInit == DispatchInit => DispatchInv
BY DEF DispatchInit, DispatchInv

(* A template's instances are never a session's own and shared at once,    *)
(* and there are none beside a static server.                              *)
LEMMA ConnsFacts ==
    ASSUME NEW C \in Conns(client)
    PROVE  /\ \A c \in C : \E x \in {"", "own", "hash", "other"} : c = <<client, x>>
           /\ ~(<<client, "own">> \in C /\ <<client, "hash">> \in C)
           /\ <<client, "">> \in C => C = {<<client, "">>}
<1>1. CASE C = {<<client, "">>}
  BY <1>1
<1>2. CASE C # {<<client, "">>}
  <2>1. PICK found \in SUBSET {"own", "hash", "other"} :
          ~({"own", "hash"} \subseteq found) /\ C = {<<client, x>> : x \in found}
    BY <1>2 DEF Conns, ConnSuffixes
  <2>2. \A x : <<client, x>> \in C <=> x \in found
    BY <2>1
  <2>3. "" \notin found /\ ~("own" \in found /\ "hash" \in found)
    BY <2>1
  <2>4. QED
    BY <2>1, <2>2, <2>3
<1>3. QED
  BY <1>1, <1>2

(* A listing puts names together; a call takes one apart.                  *)
LEMMA DispatchInvStep == DispatchInv /\ [DispatchNext]_dispatchVars => DispatchInv'
<1> SUFFICES ASSUME DispatchInv, [DispatchNext]_dispatchVars PROVE DispatchInv'
  OBVIOUS
<1>1. CASE ConnsChange
  BY <1>1 DEF ConnsChange, DispatchInv, Offered, isItemAllowed
<1>2. CASE List
  <2>1. \A c \in ForSession : c \in {<<client, "">>, <<client, "own">>, <<client, "hash">>}
    <3> SUFFICES ASSUME NEW c \in ForSession
                 PROVE  c \in {<<client, "">>, <<client, "own">>, <<client, "hash">>}
      OBVIOUS
    <3>1. c \in conns /\ c[2] \in {"", "own", "hash"}
      BY DEF ForSession
    <3>2. PICK x \in {"", "own", "hash", "other"} : c = <<client, x>>
      BY <3>1, ConnsFacts DEF DispatchInv
    <3>3. QED
      BY <3>1, <3>2
  <2>2. listed' = {[conn |-> c, name |-> buildUri(client, item)] :
                      c \in IF isItemAllowed(item) THEN ForSession ELSE {}}
    BY <1>2 DEF List
  <2>3. ASSUME NEW l \in listed'
        PROVE  l \in Offered /\ isItemAllowed(item)
    <3>1. PICK c \in (IF isItemAllowed(item) THEN ForSession ELSE {}) :
            l = [conn |-> c, name |-> buildUri(client, item)]
      BY <2>2
    <3>2. isItemAllowed(item) /\ c \in ForSession
      BY <3>1
    <3>3. QED
      BY <2>1, <3>1, <3>2 DEF Offered
  <2>4. UNCHANGED <<client, item, config, conns>> /\ reached' = {}
    BY <1>2 DEF List
  <2>5. Offered' = Offered /\ isItemAllowed(item)' = isItemAllowed(item)
    BY <2>4 DEF Offered, isItemAllowed
  <2>6. listed' \subseteq Offered'
    BY <2>3, <2>5
  <2>7. listed' # {} => isItemAllowed(item)'
    BY <2>3, <2>5
  <2>8. QED
    BY <2>4, <2>6, <2>7 DEF DispatchInv
<1>3. CASE Call
  <2>1. /\ UNCHANGED <<client, item, config, conns, listed>>
        /\ reached' = {[entry |-> l, conns |-> conns, by |-> Calls(l.name)] : l \in listed}
    BY <1>3 DEF Call
  <2>2. Offered' = Offered /\ isItemAllowed(item)' = isItemAllowed(item)
    BY <2>1 DEF Offered, isItemAllowed
  <2>3. \A uri : Calls(uri)' = Calls(uri)
    BY <2>1 DEF Calls, CallTool, ReadResource, GetPrompt, Complete, Forward,
                resolveOutboundConnection, isItemAllowed
  <2>4. ASSUME NEW call \in reached'
        PROVE  call.entry \in listed /\ call.conns = conns /\ call.by = Calls(call.entry.name)
    <3>1. PICK l \in listed : call = [entry |-> l, conns |-> conns, by |-> Calls(l.name)]
      BY <2>1
    <3>2. call.entry = l /\ call.conns = conns /\ call.by = Calls(l.name)
      BY <3>1
    <3>3. QED
      BY <3>2
  <2>5. QED
    BY <2>1, <2>2, <2>3, <2>4 DEF DispatchInv
<1>4. CASE UNCHANGED dispatchVars
  <2>1. UNCHANGED <<client, item, config, conns, listed, reached>>
    BY <1>4 DEF dispatchVars
  <2>2. \A uri : Calls(uri)' = Calls(uri)
    BY <2>1 DEF Calls, CallTool, ReadResource, GetPrompt, Complete, Forward,
                resolveOutboundConnection, isItemAllowed
  <2>3. QED
    BY <2>1, <2>2 DEF DispatchInv, Offered, isItemAllowed
<1>5. QED
  BY <1>1, <1>2, <1>3, <1>4 DEF DispatchNext

(* A call of a listed name reaches the connection that was listed, if it   *)
(* is there, and no other server under its own name.                       *)
LEMMA CallReaches ==
    ASSUME DispatchInv, NEW l \in listed, parseUri(l.name) = <<client, item>>,
           NEW kind \in {"tool", "resource", "prompt", "completion"},
           ~(kind = "tool" /\ client = <<"1">>)
    PROVE  /\ \A to \in Calls(l.name)[kind] : to.item = item /\ to.conn \in conns
           /\ l.conn \in conns => Calls(l.name)[kind] = {[conn |-> l.conn, item |-> item]}
<1> DEFINE found == resolveOutboundConnection(client)
           reach == {[conn |-> c, item |-> item] : c \in found}
<1>1. parseUri(l.name) # Invalid /\ parseUri(l.name)[1] = client /\ parseUri(l.name)[2] = item
  <2>1. <<client, item>> # Invalid
    BY DEF Invalid
  <2>2. QED
    BY <2>1
<1>2. isItemAllowed(item)
  BY DEF DispatchInv
<1>3. \A checked \in BOOLEAN : Forward(l.name, checked) = reach
  BY <1>1, <1>2 DEF Forward
<1>4. Calls(l.name)[kind] = reach
  <2>1. Forward(l.name, TRUE) = reach /\ Forward(l.name, FALSE) = reach
    BY <1>3
  <2>2. client # <<"1">> => CallTool(l.name) = reach
    BY <1>1, <2>1 DEF CallTool
  <2> HIDE DEF reach
  <2>3. CASE kind = "tool"
    BY <2>2, <2>3 DEF Calls
  <2>4. CASE kind = "resource"
    BY <2>1, <2>4 DEF Calls, ReadResource
  <2>5. CASE kind = "prompt"
    BY <2>1, <2>5 DEF Calls, GetPrompt
  <2>6. CASE kind = "completion"
    BY <2>1, <2>6 DEF Calls, Complete
  <2>7. QED
    BY <2>3, <2>4, <2>5, <2>6
<1>5. found \subseteq conns
  BY DEF resolveOutboundConnection
<1>6. l.conn \in conns => found = {l.conn}
  <2>1. l.conn \in {<<client, "">>, <<client, "own">>, <<client, "hash">>}
    BY DEF DispatchInv, Offered
  <2>2. /\ ~(<<client, "own">> \in conns /\ <<client, "hash">> \in conns)
        /\ <<client, "">> \in conns => conns = {<<client, "">>}
    BY ConnsFacts DEF DispatchInv
  <2>3. /\ <<client, "own">> # <<client, "hash">>
        /\ <<client, "">> # <<client, "own">>
        /\ <<client, "">> # <<client, "hash">>
    OBVIOUS
  <2>4. QED
    BY <2>1, <2>2, <2>3 DEF resolveOutboundConnection
<1> HIDE DEF found
<1>7. \A to \in reach : to.item = item /\ to.conn \in conns
  BY <1>5
<1>8. l.conn \in conns => reach = {[conn |-> l.conn, item |-> item]}
  BY <1>6
<1>9. QED
  BY <1>4, <1>7, <1>8

(* Whatever the names are made of and however long they are, a session can *)
(* call what it is listed, and reaches it, and names are taken apart       *)
(* rightly exactly when the server's name is plain.                        *)
THEOREM ListingsAreCallable == DispatchSpec => []ListedIsCallable
<1>1. ASSUME DispatchInv PROVE ListedIsCallable
  <2> SUFFICES ASSUME Trim(item) = item, Trim(client) # <<>> PROVE
        /\ Plain(client) <=> parseUri(buildUri(client, item)) = <<client, item>>
        /\ \A call \in reached, kind \in {"tool", "resource", "prompt", "completion"} :
             Plain(client) /\ ~(kind = "tool" /\ client = <<"1">>) =>
               /\ \A to \in call.by[kind] : to.item = item /\ to.conn \in call.conns
               /\ call.entry.conn \in call.conns =>
                      call.by[kind] = {[conn |-> call.entry.conn, item |-> item]}
    BY DEF ListedIsCallable
  <2>1. client \in Texts /\ item \in Texts /\ item # <<>>
    <3>1. \A s \in Strings : s \in Texts /\ s # <<>>
      <4> SUFFICES ASSUME NEW n \in 1 .. MaxName - 1, NEW s \in [1 .. n -> Symbols]
                   PROVE  s \in Texts /\ s # <<>>
        BY DEF Strings
      <4>1. n \in Nat \ {0}
        BY DispatchConstants
      <4>2. s \in Texts /\ Len(s) = n
        BY <4>1 DEF Texts
      <4>3. QED
        BY <4>1, <4>2, EmptyText
    <3>2. QED
      BY <1>1, <3>1 DEF DispatchInv
  <2>2. Plain(client) <=> parseUri(buildUri(client, item)) = <<client, item>>
    BY <2>1, PlainNames
  <2>3. ASSUME NEW call \in reached, NEW kind \in {"tool", "resource", "prompt", "completion"},
               Plain(client), ~(kind = "tool" /\ client = <<"1">>)
        PROVE  /\ \A to \in call.by[kind] : to.item = item /\ to.conn \in call.conns
               /\ call.entry.conn \in call.conns =>
                      call.by[kind] = {[conn |-> call.entry.conn, item |-> item]}
    <3>1. /\ call.entry \in listed
          /\ call.conns = conns
          /\ call.by = Calls(call.entry.name)
      BY <1>1 DEF DispatchInv
    <3>2. call.entry.name = buildUri(client, item)
      BY <1>1, <3>1 DEF DispatchInv, Offered
    <3>3. parseUri(call.entry.name) = <<client, item>>
      BY <2>2, <2>3, <3>2
    <3>4. PICK l \in listed : l = call.entry
      BY <3>1
    <3>5. /\ \A to \in Calls(l.name)[kind] : to.item = item /\ to.conn \in conns
          /\ l.conn \in conns => Calls(l.name)[kind] = {[conn |-> l.conn, item |-> item]}
      BY <1>1, <2>3, <3>3, <3>4, CallReaches
    <3>6. QED
      BY <3>1, <3>4, <3>5
  <2>4. QED
    BY <2>2, <2>3
<1>2. QED
  BY <1>1, DispatchInvInit, DispatchInvStep, PTL DEF DispatchSpec

=============================================================================
