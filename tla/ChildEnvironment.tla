-------------------------- MODULE ChildEnvironment --------------------------
(***************************************************************************)
(* From an entry of the configuration file to the transport of a server and*)
(* the environment of its process: config/configLoader.ts, config/         *)
(* envProcessor.ts, transport/transportFactory.ts, and the way a changed   *)
(* configuration takes (core/server/mcpServerLifecycleManager.ts), where   *)
(* the environment is computed twice.  The SDK's StdioClientTransport,     *)
(* which gets the result, puts its own defaults under it at the spawn.     *)
(*                                                                         *)
(* A value is a text, a shell function, or the text ${NAME} of another     *)
(* variable.  A pattern of envFilter is the set of names it matches.       *)
(***************************************************************************)
EXTENDS Integers, Sequences, FiniteSets

CONSTANTS
    EnvVars,    \* names of variables
    SdkDefaults,\* those getDefaultEnvironment takes over
    Referred,   \* bound: variables that values refer to
    Globs       \* bound: sets of names that a pattern matches

ASSUME EnvironmentConstants ==
    /\ SdkDefaults \subseteq EnvVars /\ Referred \subseteq EnvVars
    /\ Globs \subseteq SUBSET EnvVars

Unset == [kind |-> "none", name |-> ""]
Text(t) == [kind |-> "text", name |-> t]
Ref(v) == [kind |-> "ref", name |-> v]
ShellFunction == [kind |-> "function", name |-> ""]
(* An entry NAME, without a value, of the array form of env.               *)
Inherited == [kind |-> "inherit", name |-> ""]

ParentValues == {Unset, Text("parent"), ShellFunction} \cup {Ref(v) : v \in Referred}
CustomValues == {Unset, Text("custom"), Inherited} \cup {Ref(v) : v \in Referred}

VARIABLES
    parent,     \* process.env of 1mcp
    entry,      \* the server's environment settings
    expanding,  \* features.envSubstitution
    boot,       \* "unset", "off", "up", or "failed": createTransports threw
    environment       \* how a server was started -> its process's environment

environmentVars == <<parent, entry, expanding, boot, environment>>

Ways == {"boot", "reload", "template"}
Empty_ == [v \in EnvVars |-> Unset]
NoEntry == [inherit |-> FALSE, filter |-> <<>>, env |-> Empty_]

EnvironmentInit ==
    /\ parent = Empty_
    /\ entry = NoEntry
    /\ expanding = TRUE
    /\ boot = "unset"
    /\ environment = [w \in Ways |-> <<>>]

-----------------------------------------------------------------------------
(* Transports. *)

(* inferTransportType *)
InferTransportType(s) ==
    IF s.type # "none" THEN s.type
    ELSE IF s.command THEN "stdio"
    ELSE IF s.url = "mcp" THEN "http"
    ELSE IF s.url = "other" THEN "sse"
    ELSE "none"

(* createSingleTransport: each kind needs its address. *)
Creatable(s) ==
    LET type == InferTransportType(s)
    IN  \/ type = "stdio" /\ s.command
        \/ type \in {"sse", "http"} /\ s.url # "none"

(* createTransports: a disabled server is left out; one that cannot be made*)
(* ends the loop, and with it the start.                                   *)
CreateTransports(servers) ==
    IF \A s \in servers : s.disabled \/ Creatable(s) THEN "up" ELSE "failed"

-----------------------------------------------------------------------------
(* Environments. *)

(* substituteEnvVars: once, and only what is there. *)
Substituted(value) ==
    IF value.kind = "ref" /\ parent[value.name] # Unset THEN parent[value.name] ELSE value

(* loadConfigWithEnvSubstitution, substituteEnvVarsInConfig; a template is *)
(* taken as it is written.                                                 *)
Loaded(e, way) ==
    IF expanding /\ way # "template"
    THEN [e EXCEPT !.env = [v \in EnvVars |-> Substituted(e.env[v])]]
    ELSE e

(* getDefaultEnvironment and getParentEnvironment *)
Safe(v) == IF parent[v].kind = "function" THEN Unset ELSE parent[v]

(* Mutant of MatchesEnvPattern: the last pattern that matches decides. *)
LastPatternDecides(v, filter) ==
    LET matching == {i \in DOMAIN filter : v \in filter[i].names}
    IN  IF matching = {} THEN \A i \in DOMAIN filter : filter[i].deny
        ELSE ~filter[CHOOSE i \in matching : \A j \in matching : j <= i].deny

(* matchesEnvPattern *)
MatchesEnvPattern(v, filter) ==
    /\ ~\E i \in DOMAIN filter : filter[i].deny /\ v \in filter[i].names
    /\ \/ \E i \in DOMAIN filter : ~filter[i].deny /\ v \in filter[i].names
       \/ \A i \in DOMAIN filter : filter[i].deny

(* applyEnvPatterns, when there is a filter. *)
ApplyEnvPatterns(env, filter) ==
    IF filter = <<>> THEN env
    ELSE [v \in EnvVars |-> IF MatchesEnvPattern(v, filter) THEN env[v] ELSE Unset]

(* parseEnvArray: a name alone takes the parent's value, whatever it is.   *)
ParseEnvArray(env) ==
    [v \in EnvVars |-> IF env[v] = Inherited THEN parent[v] ELSE env[v]]

(* Mutant of Merged: the filter is applied to everything.                  *)
MergedThenFiltered(combined, custom, filter) ==
    ApplyEnvPatterns([v \in EnvVars |-> IF custom[v] # Unset THEN custom[v] ELSE combined[v]],
                     filter)

(* Steps 4 to 6: what the entry gives itself is not filtered. *)
Merged(combined, custom, filter) ==
    LET filtered == ApplyEnvPatterns(combined, filter)
    IN  [v \in EnvVars |-> IF custom[v] # Unset THEN custom[v] ELSE filtered[v]]

(* processEnvironment *)
ProcessEnvironment(e) ==
    LET combined == [v \in EnvVars |-> IF v \in SdkDefaults \/ e.inherit THEN Safe(v) ELSE Unset]
        parsed   == ParseEnvArray(e.env)
    IN  Merged(combined, [v \in EnvVars |-> Substituted(parsed[v])], e.filter)

(* processServerConfig: the result takes the place of the entry's env, and *)
(* the transport's creation processes it again.                            *)
ProcessServerConfig(e) == [e EXCEPT !.env = ProcessEnvironment(e)]

(* start of the SDK's StdioClientTransport (1.25.2, pnpm-lock.yaml:13):    *)
(* {...getDefaultEnvironment(), ...env} is what the process is spawned     *)
(* with, so that a default which is not in the result comes back.          *)
AtSpawn(env) ==
    [v \in EnvVars |-> IF env[v] # Unset \/ v \notin SdkDefaults THEN env[v] ELSE Safe(v)]

-----------------------------------------------------------------------------
(* The program and its configuration are given. *)
Configures(p, e, on) ==
    /\ boot' = "off"
    /\ parent' = p
    /\ entry' = e
    /\ expanding' = on
    /\ UNCHANGED environment

(* server.ts: the transports of all servers, of which this one is fine.    *)
Boots(other) ==
    /\ boot = "off"
    /\ boot' = CreateTransports({[type |-> "stdio", command |-> TRUE, url |-> "none",
                                  disabled |-> FALSE], other})
    /\ environment' = IF boot' = "up"
                THEN [environment EXCEPT !["boot"] = AtSpawn(ProcessEnvironment(Loaded(entry, "boot")))]
                ELSE environment
    /\ UNCHANGED <<parent, entry, expanding>>

(* MCPServerLifecycleManager.startServer; and the pool's createNewInstance,*)
(* whose template names no variable to render.                             *)
Starts(way) ==
    /\ boot = "up" /\ way # "boot"
    /\ \A w \in Ways \ {"boot"} : environment[w] = <<>>
    /\ environment' = [environment EXCEPT ![way] = AtSpawn(ProcessEnvironment(
          IF way = "reload" THEN ProcessServerConfig(Loaded(entry, way)) ELSE Loaded(entry, way)))]
    /\ UNCHANGED <<parent, entry, expanding, boot>>

Patterns == [deny : BOOLEAN, names : Globs]
Filters == {<<>>} \cup {<<a>> : a \in Patterns} \cup {<<a, b>> : a, b \in Patterns}
Entries == [type : {"none", "stdio", "sse", "http"}, command : BOOLEAN,
            url : {"none", "mcp", "other"}, disabled : BOOLEAN]
(* Other servers matter to the start, not to this one's environment.       *)
Others == IF entry = NoEntry THEN Entries ELSE {e \in Entries : e.disabled /\ e.type = "none"}

EnvironmentNext ==
    \/ /\ boot = "unset"
       /\ \E p \in [EnvVars -> ParentValues], on \in BOOLEAN, inherit \in BOOLEAN,
             filter \in Filters, env \in [EnvVars -> CustomValues] :
             Configures(p, [inherit |-> inherit, filter |-> filter, env |-> env], on)
    \/ \E other \in Others : Boots(other)
    \/ \E way \in Ways : Starts(way)

EnvironmentSpec == EnvironmentInit /\ [][EnvironmentNext]_environmentVars

-----------------------------------------------------------------------------
(* Properties *)

Nested == \E v \in EnvVars : parent[v].kind = "ref"

(* What the documentation says of a variable (docs/en/reference/mcp-       *)
(* servers.md:120-123, 229-249): the entry's own value, or the inherited   *)
(* one that passes the filter.                                             *)
Documented(v) ==
    LET own == entry.env[v]
        ofParent == IF parent[v].kind = "function" THEN Unset ELSE parent[v]
        allows == {i \in DOMAIN entry.filter : ~entry.filter[i].deny}
        matches == {i \in DOMAIN entry.filter : v \in entry.filter[i].names}
    IN  IF own.kind = "inherit" THEN parent[v]
        ELSE IF own.kind = "ref" /\ parent[own.name] # Unset THEN parent[own.name]
        ELSE IF own # Unset THEN own
        ELSE IF v \notin SdkDefaults /\ ~entry.inherit THEN Unset
        ELSE IF matches \ allows # {} \/ (allows # {} /\ matches = {}) THEN Unset
        ELSE ofParent

(* However a server is started - at the start, after a change of its       *)
(* configuration, where the environment goes through the computation twice,*)
(* or from a template - its process has the documented environment, but for*)
(* the SDK's defaults that the filter denies: those have 1mcp's own value. *)
(* Unless a variable of 1mcp's own has ${...} in its value.                *)
EnvironmentIsRight ==
    \A w \in Ways : environment[w] # <<>> /\ ~Nested =>
        \A v \in EnvVars : environment[w][v] =
            IF v \in SdkDefaults /\ Documented(v) = Unset /\ parent[v].kind # "function"
            THEN parent[v] ELSE Documented(v)

(* Refuted: the filter controls which variables are inherited; the SDK     *)
(* puts the defaults that the filter denies back.                          *)
FilterControlsInherited ==
    environment["boot"] # <<>> /\ ~Nested =>
        \A v \in EnvVars : environment["boot"][v] = Documented(v)

(* Refuted: a server that is started again after a change has the          *)
(* environment it had.  What it inherited is substituted the second time.  *)
RestartKeepsEnvironment ==
    environment["boot"] # <<>> /\ environment["reload"] # <<>> => environment["boot"] = environment["reload"]

(* Refuted: --enable-env-substitution false leaves ${...} alone; the       *)
(* values of env are substituted all the same.                             *)
SubstitutionCanBeOff ==
    environment["boot"] # <<>> /\ ~expanding =>
        \A v \in EnvVars : entry.env[v].kind = "ref" => environment["boot"][v] = entry.env[v]

(* Refuted: a server that cannot be created is left out and the others     *)
(* start, as with one whose entry is not valid.                            *)
BadServerIsLeftOut == boot # "failed"
=============================================================================
