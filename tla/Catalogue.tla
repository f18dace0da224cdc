------------------------------ MODULE Catalogue -----------------------------
(***************************************************************************)
(* The demos and the voices: DemoStore of demo_store.py and VoiceStore of  *)
(* voice_store.py, two tables with the cache that calls read, the endpoints*)
(* that edit them, and the start of the process (lifespan), which fills the*)
(* caches and seeds the voices.                                            *)
(***************************************************************************)
EXTENDS AdminRequests

CONSTANTS
  Keys,      \* demo ids, and (provider, voice_id) pairs
  Fields     \* the attributes of an item

VARIABLES
  table,     \* what is stored
  cache,     \* _cache
  live,      \* VoiceStore.live
  draft,     \* the merged item that a handler is about to store
  scan,      \* the rescan of a handler: the pages it has not read, what it has
  boot,      \* lifespan: its phase, and the constants it has not seeded yet
  \* history
  suspect,   \* the stores whose last rescan failed or overlapped another, or
             \* with a write since that failed
  overlap,   \* the stores where a write was begun while another request was at
             \* work on it, or while its cache was suspect
  author,    \* who last set a field in the table
  dropped,   \* the voices that were deleted
  unseeded   \* TRUE: a boot did not get to the end of its seed

catalogueVars == <<table, cache, live, draft, scan, boot, suspect, overlap, author, dropped, unseeded>>

Stores == {"demos", "voices"}
Item == [Fields -> Requests \cup {Initial}]
BuiltIn == [f \in Fields |-> Initial]
Empty == [k \in Keys |-> None]
Unread(s) == [store |-> s, left |-> Keys, items |-> Empty]
Scan == [store : Stores, left : SUBSET Keys, items : [Keys -> Item \cup {None}]]

ASSUME CatalogueAssumption == None \notin Item /\ None \notin Scan

\* The body of a request, and its path.
CatalogueJob(j) ==
  /\ j.op \in {"edit", "add", "drop", "rescan"} => j.store \in Stores
  /\ j.op \in {"edit", "add", "drop"} => j.key \in Keys
  /\ j.op = "edit" => j.field \in Fields

\* The demos were migrated; the voices were not seeded yet.
CatalogueInit ==
  /\ table = [s \in Stores |-> IF s = "demos" THEN [k \in Keys |-> BuiltIn] ELSE Empty]
  /\ cache = [s \in Stores |-> Empty]
  /\ live = FALSE
  /\ draft = [r \in Requests |-> None]
  /\ scan = [r \in Requests |-> None]
  /\ boot = [phase |-> "demos", left |-> {}]
  /\ suspect = {}
  /\ overlap = {}
  /\ author = [s \in Stores |-> [k \in Keys |-> BuiltIn]]
  /\ dropped = {}
  /\ unseeded = FALSE

CatalogueTypeOK ==
  /\ table \in [Stores -> [Keys -> Item \cup {None}]]
  /\ cache \in [Stores -> [Keys -> Item \cup {None}]]
  /\ live \in BOOLEAN
  /\ draft \in [Requests -> Item \cup {None}]
  /\ scan \in [Requests -> Scan \cup {None}]
  /\ boot \in [phase : {"demos", "voices", "seed", "reseed", "up"}, left : SUBSET Keys]
  /\ \A r \in Requests : at[r] = "scan" <=> scan[r] # None
  /\ \A r \in Requests : at[r] = "store" <=> draft[r] # None

Scanning(s) == {r \in Requests : scan[r] # None /\ scan[r].store = s}
Busy(s) == \E r \in Requests : at[r] \in {"store", "drop", "scan"} /\ job[r].store = s

-----------------------------------------------------------------------------
(* The handlers, up to their first await of a store *)

Begin(r, j, place, item) ==
  /\ Serve(r, j, place)
  /\ draft' = [draft EXCEPT ![r] = item]
  /\ overlap' = IF Busy(j.store) \/ j.store \in suspect
                  THEN overlap \cup {j.store} ELSE overlap
  /\ UNCHANGED <<table, cache, live, scan, boot, suspect, author, dropped, unseeded>>

\* A mutant of Edited: the body alone is stored.
EditedAlone(s, k, f, r) == [BuiltIn EXCEPT ![f] = r]

\* The body of a PATCH merged onto the cached item.
Edited(s, k, f, r) == [cache[s][k] EXCEPT ![f] = r]

\* PATCH /api/admin/demos/{id} and /api/admin/voices/{provider}/{voice_id}
StartEdit(r, j) ==
  /\ j.op = "edit"
  /\ cache[j.store][j.key] # None
  /\ Begin(r, j, "store", Edited(j.store, j.key, j.field, r))

\* POST /api/admin/voices, an upsert
StartAdd(r, j) ==
  /\ j.op = "add"
  /\ Begin(r, j, "store", [f \in Fields |-> r])

\* DELETE /api/admin/voices/{provider}/{voice_id}
StartDrop(r, j) ==
  /\ j.op = "drop"
  /\ cache[j.store][j.key] # None
  /\ Begin(r, j, "drop", None)

-----------------------------------------------------------------------------
(* rescan: a scan in a worker thread, page by page *)

\* Another one that is under way makes the result doubtful.
StartScan(r, s) ==
  /\ scan' = [scan EXCEPT ![r] = Unread(s)]
  /\ suspect' = IF Scanning(s) # {} THEN suspect \cup {s} ELSE suspect \ {s}

\* POST /api/admin/demos/rescan
StartRescan(r, j) ==
  /\ j.op = "rescan"
  /\ Serve(r, j, "scan")
  /\ StartScan(r, j.store)
  /\ UNCHANGED <<table, cache, live, draft, boot, overlap, author, dropped, unseeded>>

\* A scan that has read the row of one more key.
Collected(pages, k) ==
  [pages EXCEPT !.left = @ \ {k}, !.items[k] = table[pages.store][k]]

ReadPage(r) ==
  /\ scan[r] # None
  /\ \E k \in scan[r].left : scan' = [scan EXCEPT ![r] = Collected(scan[r], k)]
  /\ UNCHANGED <<requestVars, table, cache, live, draft, boot, suspect, overlap, author, dropped,
                 unseeded>>

\* What was read replaces the cache.
Rescanned(s, items) ==
  /\ cache' = [cache EXCEPT ![s] = items]
  /\ live' = (live \/ s = "voices")
  /\ UNCHANGED suspect

\* Or the scan failed and the cache stays; the voices are not live any more
\* when it is their table that is missing.
RescanFailed(s) ==
  /\ suspect' = suspect \cup {s}
  /\ live' \in {live, live /\ s # "voices"}
  /\ UNCHANGED cache

\* The handler goes on: an edited demo that is not there is an error.
ScanReturns(r) ==
  LET s == scan[r].store IN
  /\ at[r] = "scan"
  /\ \/ scan[r].left = {} /\ Rescanned(s, scan[r].items)
     \/ RescanFailed(s)
  /\ scan' = [scan EXCEPT ![r] = None]
  /\ IF job[r].op = "rescan" \/ (s = "demos" /\ cache'[s][job[r].key] = None)
       THEN Finish(r) ELSE Succeed(r)
  /\ UNCHANGED <<table, draft, boot, overlap, author, dropped, unseeded>>

-----------------------------------------------------------------------------
(* put and delete *)

\* A mutant of Stored: the endpoint does not rescan.
StoredOnly(r, s) == Succeed(r) /\ UNCHANGED <<scan, suspect>>

\* The write returned: the endpoint rescans.
Stored(r, s) == Goto(r, "scan") /\ StartScan(r, s)

\* It raised, and may have taken effect.
Failed(r, s) == Finish(r) /\ suspect' = suspect \cup {s} /\ UNCHANGED scan

StoreItem(r) ==
  LET s == job[r].store
      k == job[r].key
      put == /\ table' = [table EXCEPT ![s][k] = draft[r]]
             /\ author' = IF job[r].op = "edit" /\ table[s][k] # None
                            THEN [author EXCEPT ![s][k][job[r].field] = r]
                            ELSE [author EXCEPT ![s][k] = draft[r]]
  IN  /\ at[r] = "store"
      /\ draft' = [draft EXCEPT ![r] = None]
      /\ \/ put /\ Stored(r, s)
         \/ put /\ Failed(r, s)
         \/ UNCHANGED <<table, author>> /\ Failed(r, s)
      /\ UNCHANGED <<cache, live, boot, overlap, dropped, unseeded>>

DropItem(r) ==
  LET s == job[r].store
      k == job[r].key
      delete == table' = [table EXCEPT ![s][k] = None] /\ dropped' = dropped \cup {k}
  IN  /\ at[r] = "drop"
      /\ \/ delete /\ Stored(r, s)
         \/ delete /\ Failed(r, s)
         \/ UNCHANGED <<table, dropped>> /\ Failed(r, s)
      /\ UNCHANGED <<cache, live, draft, boot, overlap, author, unseeded>>

-----------------------------------------------------------------------------
(* lifespan *)

BootGoes(phase, left) == boot' = [phase |-> phase, left |-> left]

\* A mutant of SeedIsDue: what is missing is seeded.
SeedIsDueMissing == live' /\ \E k \in Keys : cache'["voices"][k] = None

\* seed_if_empty: the table can be read, and is empty.
SeedIsDue == live' /\ cache'["voices"] = Empty

\* The demos are scanned, then the voices, again after a seed.  No request is
\* served meanwhile, so that it does not matter when a page is read.
BootScan ==
  LET s == IF boot.phase = "demos" THEN "demos" ELSE "voices" IN
  /\ boot.phase \in {"demos", "voices", "reseed"}
  /\ Rescanned(s, table[s]) \/ RescanFailed(s)
  /\ IF boot.phase = "demos" THEN BootGoes("voices", {})
     ELSE IF boot.phase = "voices" /\ SeedIsDue THEN BootGoes("seed", Keys)
     ELSE BootGoes("up", {})
  /\ unseeded' = (unseeded \/ (boot.phase = "voices" /\ "voices" \in suspect'))
  /\ UNCHANGED <<requestVars, table, draft, scan, overlap, author, dropped>>

\* A put of the seed; if it raises, lifespan gives up the rest.
Seed ==
  /\ boot.phase = "seed"
  /\ \E k \in boot.left :
       LET put == /\ table' = [table EXCEPT !["voices"][k] = BuiltIn]
                  /\ author' = [author EXCEPT !["voices"][k] = BuiltIn]
       IN  \/ /\ put
              /\ IF boot.left = {k} THEN BootGoes("reseed", {})
                                    ELSE BootGoes("seed", boot.left \ {k})
              /\ UNCHANGED <<suspect, unseeded>>
           \/ /\ put \/ UNCHANGED <<table, author>>
              /\ BootGoes("up", {})
              /\ suspect' = suspect \cup {"voices"}
              /\ unseeded' = TRUE
  /\ UNCHANGED <<requestVars, cache, live, draft, scan, overlap, dropped>>

\* The process restarts: the tables stay.
CatalogueRestart ==
  /\ cache' = [s \in Stores |-> Empty]
  /\ live' = FALSE
  /\ draft' = [r \in Requests |-> None]
  /\ scan' = [r \in Requests |-> None]
  /\ boot' = [phase |-> "demos", left |-> {}]
  /\ suspect' = {}
  /\ unseeded' = (unseeded \/ boot.phase = "seed")
  /\ UNCHANGED <<table, overlap, author, dropped>>

CatalogueStart(r, j) == StartEdit(r, j) \/ StartAdd(r, j) \/ StartDrop(r, j) \/ StartRescan(r, j)

CatalogueStep(r) == ReadPage(r) \/ ScanReturns(r) \/ StoreItem(r) \/ DropItem(r)

-----------------------------------------------------------------------------
\* When nothing scans a store its cache is what is stored, unless its last
\* rescan failed or overlapped another, or a write since then failed: every
\* endpoint rescans after it wrote, and the process before it serves.
CacheIsCurrent ==
  boot.phase = "up" =>
    \A s \in Stores : Scanning(s) = {} /\ s \notin suspect => cache[s] = table[s]

\* "an omitted field is left untouched", whichever requests and restarts there
\* were, as long as no write of the store began while another request was at
\* work on it, or on a cache that a failed or overlapping rescan left behind.
OmittedFieldsAreKept ==
  \A s \in Stores \ overlap, k \in Keys : table[s][k] # None => table[s][k] = author[s][k]

\* The seed finds an empty table, so it brings back no voice that an admin
\* deleted while others were left; and a table that can be read has every
\* built-in voice that no admin deleted, unless a seed was cut short.
SeedFillsAnEmptyTable ==
  /\ boot.phase = "seed" => \A k \in boot.left : table["voices"][k] = None
  /\ (boot.phase = "up" /\ live /\ ~unseeded) =>
       \A k \in Keys : table["voices"][k] # None \/ k \in dropped
=============================================================================
