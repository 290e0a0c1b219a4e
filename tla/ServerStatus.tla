---------------------------- MODULE ServerStatus ----------------------------
(***************************************************************************)
(* What clients and monitors are told of the servers while they load:      *)
(* mcpAvailabilityMiddleware.ts, which every request of an MCP session     *)
(* passes, healthService.ts with healthRoutes.ts, and the tags that        *)
(* scopeAuthMiddleware.ts hands on.  All of them only read: the middleware *)
(* and /health/mcp the loading states, /health the connections.  Each is an*)
(* operator over the states of McpLoading.                                 *)
(*                                                                         *)
(* The tags of a request are a set; matching without regard to case, the   *)
(* texts of the answers and the measured times are left out.  Template     *)
(* servers are connected for a session without being loaded: the tracker   *)
(* does not know them.                                                     *)
(***************************************************************************)
EXTENDS McpLoading

CONSTANTS
    Tags,       \* the tags requests may name
    Templates,  \* template servers that the session at hand is connected to
    TagsOf      \* server or template server -> its tags

ASSUME StatusConstants ==
    /\ Templates \cap Servers = {}
    /\ TagsOf \in [Servers \cup Templates -> SUBSET Tags]

(* validatedTags: what the request named, or all the tags that its token   *)
(* grants when it named none.                                              *)
ValidatedTags(requested, granted) == IF requested = {} THEN granted ELSE requested

-----------------------------------------------------------------------------
(* relevantServers: those of the tracker that have all the tags. *)
RelevantServers(tags) == {s \in Servers : tags \subseteq TagsOf[s]}

(* The lists the relevant servers are sorted into. *)
InStates(tags, states) == {s \in RelevantServers(tags) : state[s] \in states}

(* Mutant of AvailableServers: a server that is being loaded again counts. *)
AvailableOrLoading(tags, includeOAuth) == InStates(tags, {"ready", "loading"})

AvailableServers(tags, includeOAuth) ==
    InStates(tags, {"ready"} \cup (IF includeOAuth THEN {"awaiting_oauth"} ELSE {}))

LoadingServers(tags) == InStates(tags, {"loading", "pending"})

(* The middleware's decision: a request goes on, or is answered 202 or 503.*)
Verdict(tags, allowPartial, includeOAuth) ==
    LET relevant == RelevantServers(tags)
        available == AvailableServers(tags, includeOAuth)
    IN  CASE available = relevant \/ (available # {} /\ allowPartial) -> "next"
          [] available = {} /\ relevant # {} -> "503"
          [] OTHER -> IF LoadingServers(tags) # {} THEN "202" ELSE "503"

-----------------------------------------------------------------------------
(* getServerHealth: the entries of the outbound connections.               *)
Entries == {s \in Servers : outbound[s] # "absent"} \cup Templates

HealthyEntries == {s \in Entries : s \in Templates \/ outbound[s] = "connected"}

(* determineOverallHealth; loaded: the configuration could be read.        *)
OverallHealth(loaded) ==
    LET total == Cardinality(Entries)
        healthy == Cardinality(HealthyEntries)
    IN  CASE ~loaded -> "unhealthy"
          [] loaded /\ total = 0 -> "degraded"
          [] loaded /\ total > 0 /\ healthy = total -> "healthy"
          [] OTHER -> IF 2 * healthy > total THEN "degraded" ELSE "unhealthy"

(* GET /health, /health/ready, /health/live, /health/mcp and               *)
(* /health/mcp/:serverName.                                                *)
HealthCode(loaded) == IF OverallHealth(loaded) = "unhealthy" THEN 503 ELSE 200

ReadyCode(loaded) == IF loaded THEN 200 ELSE 503

McpCode == IF Complete(state) THEN 200 ELSE 202

ServerCode(s) ==
    CASE s \notin Servers -> 404
      [] s \in Servers /\ state[s] = "loading" -> 202
      [] s \in Servers /\ state[s] = "failed" -> 503
      [] s \in Servers /\ state[s] = "awaiting_oauth" -> 401
      [] OTHER -> 200

(* The entries /health names at each health.detailLevel. *)
NamedEntries(detailLevel) == IF detailLevel = "minimal" THEN {} ELSE Entries

-----------------------------------------------------------------------------
(* A request the middleware lets pass finds a connected server among those *)
(* it asks for, however their attempts, timeouts and retries overlap; with *)
(* includeOAuthServers one that at least waits for its authorization       *)
(* (mcpAvailabilityMiddleware.ts:173-194 against clientManager.ts).  What  *)
(* it goes by are loading states: others may have written the connections  *)
(* of all that it counts on.                                               *)
PassedIsServed ==
    \A tags \in SUBSET Tags, allowPartial, includeOAuth \in BOOLEAN :
        /\ RelevantServers(tags) # {}
        /\ Verdict(tags, allowPartial, includeOAuth) = "next"
        /\ ~(AvailableServers(tags, includeOAuth) \subseteq touched)
        => \E s \in RelevantServers(tags) :
              \/ outbound[s] = "connected"
              \/ includeOAuth /\ outbound[s] = "awaiting_oauth"

(* What has once been let pass is never refused later: no timeout, retry,  *)
(* cancellation or shutdown closes the door behind a client that uses what *)
(* it was told is there (mcpAvailabilityMiddleware.ts:224-298), unless an  *)
(* authorization made a server ready while its loader was still at work.   *)
AdmittedStaysAdmitted ==
    [][\A tags \in SUBSET Tags, allowPartial \in BOOLEAN :
         Verdict(tags, allowPartial, FALSE) = "next"
         /\ (\A s \in AvailableServers(tags, FALSE) : loader[s] = "done")
            => Verdict(tags, allowPartial, FALSE)' = "next"]_vars

-----------------------------------------------------------------------------
(* Claims of the docs and of the comments. *)

(* health-check.md:131, "healthy - All systems operational": no server that*)
(* was to be loaded has failed.                                            *)
HealthyIsLoaded ==
    OverallHealth(TRUE) = "healthy" => \A s \in Servers : state[s] # "failed"

(* mcpAvailabilityMiddleware.ts:97, "Tags are used to control which MCP    *)
(* servers are available for requests": a request is not refused while a   *)
(* server is connected that its session is routed to, which has any of the *)
(* tags.                                                                   *)
ServedIsNotRefused ==
    \A tags \in SUBSET Tags :
        (\E s \in HealthyEntries : tags = {} \/ tags \cap TagsOf[s] # {})
            => Verdict(tags, TRUE, FALSE) = "next"

(* healthRoutes.ts:302, "Set status code based on server state": when the  *)
(* loading is not complete, some server is answered for as still loading.  *)
CodesAgree == McpCode = 202 => \E s \in Servers : ServerCode(s) = 202

(* oauthRoutes.ts:177, "is now Ready after OAuth completion": from then on *)
(* requests pass.                                                          *)
AuthorizedStaysReady ==
    [][\A s \in Servers : state[s] = "ready" => state'[s] = "ready"]_vars

(* What the runs check of loading and of what is told of it: what is shown *)
(* of a server is so in the map of connections until others write there,   *)
(* who is let through is served, and no more servers are loaded at once    *)
(* than a batch has (parallelExecutor.ts:71-110).                          *)
StatusIsTrue == ShownAsConnected /\ PassedIsServed /\ InitialLoadersBounded
=============================================================================
