---------------------------- MODULE RegistryClient ----------------------------
(***************************************************************************)
(* The client of the MCP registry (domains/registry/mcpRegistryClient.ts)  *)
(* and its cache (cacheManager.ts), behind the discovery tools and the     *)
(* registry commands.  Requests overlap: a request in flight is of a       *)
(* caller, and two callers may both miss the same key.                     *)
(*                                                                         *)
(* What an answer says is abstracted to the time at which the registry was *)
(* as it says: the time it was read, for an answer of several pages the    *)
(* time of its first.                                                      *)
(*                                                                         *)
(* A question is its key here.  getServerById without a version and        *)
(* getServerVersions have one key with two times to live and two forms of  *)
(* answer; a client is asked one of the two only (versionsHandler.ts has a *)
(* client of its own), so that the questions of a client never share one.  *)
(***************************************************************************)
EXTENDS Integers, FiniteSets

CONSTANTS
    Callers,
    Questions,        \* what is asked: <<kind, argument>>, a list, a search, a server, ...
    Statuses,    \* kinds that ask whether the registry is there,
    Paged,       \* and those of them that read several pages (statistics)
    TTLOf,       \* kind -> its time to live
    Timeout,     \* of one request
    MaxPages,    \* pages read
    MaxSize,     \* of the cache
    MaxTime      \* bound: the clock

ASSUME RegistryConstants ==
    /\ Paged \subseteq Statuses
    /\ TTLOf \in [{k[1] : k \in Questions} -> Nat \ {0}]
    /\ {Timeout, MaxPages, MaxSize} \subseteq Nat \ {0}

VARIABLES
    now,      \* the time
    cache,    \* key -> [asOf, created, expires], or NoAnswer
    lookups,  \* caller -> its request: [key, asOf, page, sent], or Idle
    told      \* the answer given just now, if one was: [key, asOf, at]

registryVars == <<now, cache, lookups, told>>

NoAnswer == [asOf |-> 0, created |-> 0, expires |-> -1]
Idle == [key |-> <<>>, asOf |-> 0, page |-> 0, sent |-> 0]
Nothing == [key |-> <<>>, asOf |-> 0, at |-> 0]

Cached == {k \in Questions : cache[k] # NoAnswer}

RegistryInit ==
    /\ now = 1
    /\ cache = [k \in Questions |-> NoAnswer]
    /\ lookups = [c \in Callers |-> Idle]
    /\ told = Nothing

-----------------------------------------------------------------------------
Tell(key, asOf) == told' = [key |-> key, asOf |-> asOf, at |-> now]
TellNothing == told' = Nothing

(* Mutant of Fresh: what is cached is used until it is cleaned up. *)
FreshWhenThere(key) == key \in Cached

(* get: an entry is good until its time has passed, ...                    *)
Fresh(key) == key \in Cached /\ now <= cache[key].expires

(* ... and is deleted by the one that finds it has.                        *)
Forget(keys) == cache' = [k \in Questions |-> IF k \in keys THEN NoAnswer ELSE cache[k]]

(* withCache: from the cache, or else a request is sent.                   *)
Hit(c, key) ==
    /\ lookups[c] = Idle
    /\ Fresh(key)
    /\ Tell(key, cache[key].asOf)
    /\ UNCHANGED <<now, cache, lookups>>

Send(c, key) ==
    /\ lookups[c] = Idle
    /\ ~Fresh(key)
    /\ Forget({key})
    /\ lookups' = [lookups EXCEPT ![c] = [key |-> key, asOf |-> 0, page |-> 1, sent |-> now]]
    /\ TellNothing
    /\ UNCHANGED now

(* The registry reads what it answers, the first page tells the time.      *)
AnswerPage(c) ==
    /\ lookups[c] # Idle
    /\ lookups[c].asOf = 0
    /\ lookups' = [lookups EXCEPT ![c].asOf = now]
    /\ TellNothing
    /\ UNCHANGED <<now, cache>>

-----------------------------------------------------------------------------
(* evictOldest: a tenth of what the cache may hold, rounded up, when it is *)
(* full - whether or not the key is there already.                         *)
ToRemove == (MaxSize + 9) \div 10

Oldest(keys) ==
    /\ keys \subseteq Cached
    /\ Cardinality(keys) = IF Cardinality(Cached) < ToRemove THEN Cardinality(Cached) ELSE ToRemove
    /\ \A k \in keys, l \in Cached \ keys : cache[k].created <= cache[l].created

evictOldest(keys) == IF Cardinality(Cached) >= MaxSize THEN Oldest(keys) ELSE keys = {}

Set(key, asOf) ==
    \E evicted \in SUBSET Cached :
        /\ evictOldest(evicted)
        /\ cache' = [k \in Questions |->
               IF k = key THEN [asOf |-> asOf, created |-> now, expires |-> now + TTLOf[key[1]]]
               ELSE IF k \in evicted THEN NoAnswer ELSE cache[k]]

LookupEnds(c) == lookups' = [lookups EXCEPT ![c] = Idle]

(* getAllServersWithPagination: the page names another one, and the limit  *)
(* of pages is not reached; each page is a request of its own.             *)
NextPage(c) ==
    /\ lookups[c].asOf # 0
    /\ lookups[c].key[1] \in Paged
    /\ lookups[c].page <= MaxPages
    /\ lookups' = [lookups EXCEPT ![c].page = @ + 1, ![c].sent = now]
    /\ TellNothing
    /\ UNCHANGED <<now, cache>>

(* The answer arrives, is cached and told.                                 *)
Arrive(c) ==
    LET r == lookups[c]
    IN  /\ r.asOf # 0
        /\ Set(r.key, r.asOf)
        /\ Tell(r.key, r.asOf)
        /\ LookupEnds(c)
        /\ UNCHANGED now

(* A request fails or is timed out: nothing is cached and nothing told, ...*)
RequestFails(c) ==
    /\ lookups[c] # Idle
    /\ lookups[c].key[1] \notin Statuses
    /\ LookupEnds(c)
    /\ TellNothing
    /\ UNCHANGED <<now, cache>>

(* ... but that the registry is not there is an answer, and cached.        *)
StatusFails(c) ==
    LET r == lookups[c]
    IN  /\ r # Idle
        /\ r.key[1] \in Statuses
        /\ Set(r.key, IF r.asOf = 0 THEN r.sent ELSE r.asOf)
        /\ Tell(r.key, IF r.asOf = 0 THEN r.sent ELSE r.asOf)
        /\ LookupEnds(c)
        /\ UNCHANGED now

(* The timer of the cache. *)
Cleanup ==
    /\ \E k \in Cached : ~Fresh(k)
    /\ Forget({k \in Cached : ~Fresh(k)})
    /\ TellNothing
    /\ UNCHANGED <<now, lookups>>

(* Time passes; a request that has lasted as long as it may ends first.    *)
TimePasses ==
    /\ now < MaxTime
    /\ \A c \in Callers : lookups[c] = Idle \/ now < lookups[c].sent + Timeout
    /\ now' = now + 1
    /\ TellNothing
    /\ UNCHANGED <<cache, lookups>>

RegistryNext ==
    \/ \E c \in Callers :
          \/ \E key \in Questions : Hit(c, key) \/ Send(c, key)
          \/ AnswerPage(c) \/ NextPage(c) \/ Arrive(c) \/ RequestFails(c) \/ StatusFails(c)
    \/ Cleanup
    \/ TimePasses

RegistrySpec == RegistryInit /\ [][RegistryNext]_registryVars

-----------------------------------------------------------------------------
(* The oldest an answer may be: cached for its time to live, after its     *)
(* requests took all the time they may.                                    *)
MaxAge(kind) == TTLOf[kind] + Timeout * (IF kind \in Paged THEN 1 + MaxPages ELSE 1)

(* Nobody is told what the registry has ceased to say for longer than the  *)
(* time to live and its requests allow, however often the answer was used, *)
(* evicted and fetched again by others, or overtaken by a slower one; and  *)
(* the cache never outgrows its limit.                                     *)
AnswersAreRecent ==
    /\ told # Nothing => told.at - told.asOf <= MaxAge(told.key[1])
    /\ Cardinality(Cached) <= MaxSize
=============================================================================
