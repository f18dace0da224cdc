----------------------------- MODULE McpRegistry ----------------------------
(***************************************************************************)
(* The tool servers that demos can mount: McpConfig of mcp_config.py and   *)
(* the endpoints that edit them.  Like RuntimeConfig it is a document in   *)
(* memory over a JSON file, with nothing to await; an entry is changed     *)
(* where it is in memory, and then written.                                *)
(***************************************************************************)
EXTENDS AdminRequests

CONSTANTS
  Servers,         \* server ids
  Headers,         \* names of HTTP headers
  Mask             \* HEADER_MASK, which the admin UI shows instead of a value

ASSUME RegistryAssumption ==
  /\ Mask \notin Requests \cup {None}
  /\ None \notin [Headers -> Requests \cup {None, Mask}]
  /\ None \notin [Servers -> [Headers -> Requests \cup {None, Mask}] \cup {None}]

VARIABLES
  registry,        \* _cache
  registryFile,    \* None: there is no file
  unsaved          \* history: the servers whose writes failed since a good one

registryVars == <<registry, registryFile, unsaved>>

\* The headers of a server; a value is known by the request that brought it,
\* unless it is the mask.
Server == [Headers -> Requests \cup {None, Mask}]
Registry == [Servers -> Server \cup {None}]
NoServers == [s \in Servers |-> None]

\* The path or body of a request: a header is typed, or sent as it was shown.
McpJob(j) ==
  /\ j.op \in {"upsert", "unmount"} => j.server \in Servers
  /\ j.op = "upsert" => j.headers \in [Headers -> {"typed", "shown", "absent"}]

RegistryInit == registry = None /\ registryFile = None /\ unsaved = {}

RegistryTypeOK ==
  /\ registry \in Registry \cup {None}
  /\ registryFile \in Registry \cup {None}
  /\ unsaved \subseteq Servers

\* _load: a file that is not there is an empty registry, and is not written.
OnFile == IF registryFile = None THEN NoServers ELSE registryFile

Known == IF registry = None THEN OnFile ELSE registry

\* A mutant of Resolved: the values are stored as they were sent.
ResolvedAsSent(old, headers, r) ==
  [h \in Headers |-> CASE headers[h] = "typed"  -> r
                       [] headers[h] = "shown"  -> Mask
                       [] headers[h] = "absent" -> None]

\* A mask stands for the value that is there, or for nothing.
Resolved(old, headers, r) ==
  [h \in Headers |->
     CASE headers[h] = "typed"  -> r
       [] headers[h] = "shown"  -> IF old = None THEN None ELSE old[h]
       [] headers[h] = "absent" -> None]

\* _persist, when memory has been changed; it may raise.
Persist(r, j, document) ==
  /\ registry' = document
  /\ \/ /\ Serve(r, j, "log")
        /\ registryFile' = document
        /\ unsaved' = {}
     \/ /\ at[r] = "new"
        /\ Finish(r)
        /\ unsaved' = unsaved \cup {j.server}
        /\ UNCHANGED registryFile

\* POST /api/admin/mcp-servers, an upsert
UpsertServer(r, j) ==
  /\ j.op = "upsert"
  /\ Persist(r, j, [Known EXCEPT ![j.server] = Resolved(@, j.headers, r)])

\* DELETE /api/admin/mcp-servers/{server_id}, of one that no demo mounts
DeleteServer(r, j) ==
  /\ j.op = "unmount"
  /\ Known[j.server] # None
  /\ Persist(r, j, [Known EXCEPT ![j.server] = None])

McpStart(r, j) == UpsertServer(r, j) \/ DeleteServer(r, j)

RegistryRestart == registry' = None /\ unsaved' = {} /\ UNCHANGED registryFile

-----------------------------------------------------------------------------
\* The servers that calls are given are those that a restart would load, apart
\* from the ones whose write failed since the last good one; and in neither has
\* a mask taken the place of a secret, whoever saved what was shown to them.
SecretsSurviveRestart ==
  /\ registry # None => \A s \in Servers : registry[s] = OnFile[s] \/ s \in unsaved
  /\ \A document \in {registry, registryFile} \ {None}, s \in Servers :
       document[s] # None => \A h \in Headers : document[s][h] # Mask
=============================================================================
