---------------------------- MODULE McpClients ----------------------------
(* MCPClientManager of app/mcp_core/client.py for one server: the tools it keeps    *)
(* and the health it reports, written by loads, sessions and close as they overlap. *)
EXTENDS Naturals

CONSTANTS
    Loads,          (* tasks that load the tools of the server *)
    McpSessions,
    MaxAttempts,    (* MCP_RETRY_ATTEMPTS or SERVER_RETRY_ATTEMPTS *)
    MaxTools        (* bound: a server offers 0..MaxTools tools *)

ASSUME McpAssumption == MaxTools \in Nat

VARIABLES
    cache,          (* how many tools _tool_cache holds, NoTools without an entry *)
    health,         (* _server_status: status and tool_count *)
    load,           (* a load: waiting or asleep, and which attempt it is *)
    session,        (* sessions that are open *)
    gaveUp          (* history: a load was cancelled between two of its attempts *)

mcpVars == <<cache, health, load, session, gaveUp>>

NoTools == MaxTools + 1
Idle == [at |-> "idle", attempt |-> 0]
Health(status, tools) == [status |-> status, tools |-> tools]

McpInit ==
    /\ cache = NoTools /\ health = Health("uninitialized", 0)
    /\ load = [l \in Loads |-> Idle] /\ session = {}
    /\ gaveUp = FALSE

(* A load that is not forced takes the cached tools if there are any. *)
LoadBegins(l, force_refresh) ==
    /\ load[l] = Idle
    /\ force_refresh \/ cache = NoTools
    /\ load' = [load EXCEPT ![l] = [at |-> "loading", attempt |-> 1]]
    /\ UNCHANGED <<cache, health, session, gaveUp>>

LoadSucceeds(l, n) ==
    /\ load[l].at = "loading"
    /\ cache' = n /\ health' = Health("healthy", n)
    /\ load' = [load EXCEPT ![l] = Idle]
    /\ gaveUp' = FALSE
    /\ UNCHANGED session

(* Mutant: a failed attempt leaves the tools of an earlier load in place. *)
KeepCache == cache

DropCache == NoTools

AttemptFails(l) ==
    /\ load[l].at = "loading" /\ load[l].attempt < MaxAttempts
    /\ cache' = DropCache
    /\ load' = [load EXCEPT ![l].at = "asleep"]
    /\ UNCHANGED <<health, session, gaveUp>>

Retries(l) ==
    /\ load[l].at = "asleep"
    /\ load' = [load EXCEPT ![l] = [at |-> "loading", attempt |-> @.attempt + 1]]
    /\ UNCHANGED <<cache, health, session, gaveUp>>

LoadFails(l) ==
    /\ load[l].at = "loading" /\ load[l].attempt = MaxAttempts
    /\ cache' = DropCache /\ health' = Health("unavailable", 0)
    /\ load' = [load EXCEPT ![l] = Idle]
    /\ gaveUp' = FALSE
    /\ UNCHANGED session

(* The caller goes away: CancelledError passes every except of the load. *)
LoadCancelled(l) ==
    /\ load[l] # Idle
    /\ gaveUp' = (gaveUp \/ load[l].at = "asleep" \/ load[l].attempt > 1)
    /\ load' = [load EXCEPT ![l] = Idle]
    /\ UNCHANGED <<cache, health, session>>

SessionOpens(s) ==
    /\ s \notin session
    /\ session' = session \union {s}
    /\ health' = Health("healthy", IF cache = NoTools THEN 0 ELSE cache)
    /\ gaveUp' = FALSE
    /\ UNCHANGED <<cache, load>>

(* It fails to open, or an exception leaves its body or its end. *)
SessionFails(s) ==
    /\ cache' = DropCache /\ health' = Health("unavailable", 0)
    /\ session' = session \ {s}
    /\ gaveUp' = FALSE
    /\ UNCHANGED load

SessionEnds(s) ==
    /\ s \in session
    /\ session' = session \ {s}
    /\ UNCHANGED <<cache, health, load, gaveUp>>

close ==
    /\ cache' = NoTools /\ health' = Health("uninitialized", 0)
    /\ gaveUp' = FALSE
    /\ UNCHANGED <<load, session>>

McpNext ==
    \/ \E l \in Loads : \/ \E force_refresh \in BOOLEAN : LoadBegins(l, force_refresh)
                        \/ \E n \in 0..MaxTools : LoadSucceeds(l, n)
                        \/ AttemptFails(l) \/ Retries(l) \/ LoadFails(l) \/ LoadCancelled(l)
    \/ \E s \in McpSessions : SessionOpens(s) \/ SessionFails(s) \/ SessionEnds(s)
    \/ close

McpSpec == McpInit /\ [][McpNext]_mcpVars

(* However loads, sessions and close overlap, tools that are kept belong to a       *)
(* server reported healthy with as many; a server reported healthy with tools that  *)
(* are no longer kept is being asked again, or the one who asked has gone away.     *)
HealthTellsTheCache ==
    /\ cache # NoTools => health = Health("healthy", cache)
    /\ health.tools > 0 /\ cache = NoTools =>
         gaveUp \/ \E l \in Loads : load[l].at = "asleep" \/ load[l].attempt > 1
=============================================================================
