------------------------- MODULE AdminServerProofs --------------------------
(***************************************************************************)
(* Proofs about AdminServer: how accounts change, what the caches of the   *)
(* catalogue hold, what an edit keeps, what the seed does, what a restart  *)
(* does to the configuration and the tool servers, and what the pages of   *)
(* the log have, for any number of requests.                               *)
(***************************************************************************)
EXTENDS AdminServer, FiniteSetTheorems, SequenceTheorems, TLAPS

UserPlaces == {"create", "put", "check", "update", "confirm", "delete"}
CataloguePlaces == {"store", "drop", "scan"}

\* Where the handlers of the accounts are suspended, and what they know there.
KnowsAt(r) ==
  /\ at[r] \in {"create", "put"} => job[r].op \in {"setup", "create"} /\ AccountJob(job[r])
  /\ at[r] \in {"check", "update"} => job[r] \in Patch /\ job[r].changes # <<>>
  /\ at[r] = "update" =>
       LET change == Head(job[r].changes) IN
       /\ users[job[r].target] # None \/ job[r].target \in removed
       /\ ~(change.field = "disabled" /\ change.value /\ job[r].target = job[r].actor)
  /\ at[r] = "delete" =>
       /\ job[r].op = "delete" /\ AccountJob(job[r])
       /\ job[r].target # job[r].actor

HandlersKnow == \A r \in Requests : KnowsAt(r)

\* What the handlers of the catalogue work on.
CatalogueKnows ==
  \A r \in Requests :
    at[r] \in CataloguePlaces =>
      /\ CatalogueJob(job[r])
      /\ at[r] = "store" => job[r].op \in {"edit", "add"}
      /\ at[r] = "drop" => job[r].op = "drop"
      /\ at[r] = "scan" => /\ job[r].op \in {"edit", "add", "drop", "rescan"}
                           /\ scan[r].store = job[r].store

\* The process serves when lifespan has got to its yield.
ServesWhenUp ==
  boot.phase # "up" => \A r \in Requests : at[r] \in {"new", "done"}

\* A scan of a store that is not suspect is the only one, and what it has read
\* is what is stored.
ScansAgree ==
  \A r \in Requests :
    scan[r] # None /\ scan[r].store \notin suspect =>
      /\ \A q \in Scanning(scan[r].store) : q = r
      /\ \A k \in Keys \ scan[r].left : scan[r].items[k] = table[scan[r].store][k]

\* CacheIsCurrent, of the stores that lifespan has scanned.
CachesAgree ==
  \A s \in Stores :
    /\ IF s = "demos" THEN boot.phase # "demos" ELSE boot.phase = "up"
    /\ Scanning(s) = {}
    /\ s \notin suspect
    => cache[s] = table[s]

\* Of a store without overlapping writes: there is one writer, an edit has
\* merged its field onto what is stored, and what is stored is what was asked
\* for.
Writer(s, r) == at[r] \in {"store", "drop"} /\ job[r].store = s
Editor(s, r) == Writer(s, r) /\ at[r] = "store" /\ job[r].op = "edit"

Merged(s, r) ==
  /\ table[s][job[r].key] # None
  /\ draft[r] = [table[s][job[r].key] EXCEPT ![job[r].field] = r]

AsAuthored(s) == \A k \in Keys : table[s][k] # None => table[s][k] = author[s][k]

WritersAgree ==
  \A s \in Stores \ overlap :
    /\ AsAuthored(s)
    /\ \A r, q \in Requests : Writer(s, r) /\ Writer(s, q) => q = r
    /\ \A r \in Requests : Editor(s, r) => Merged(s, r)

\* The built-in voices that are not stored were deleted.
Whole == \A k \in Keys : table["voices"][k] # None \/ k \in dropped

SeedGoesOn ==
  /\ boot.phase \in {"demos", "voices"} => ~live
  /\ boot.phase = "seed" =>
       \A k \in Keys : (table["voices"][k] = None <=> k \in boot.left)
  /\ ~unseeded =>
       /\ boot.phase \in {"reseed", "up"} => Whole
       /\ boot.phase \in {"demos", "voices"} => table["voices"] = Empty \/ Whole

ConfigInv ==
  /\ ConfigTypeOK
  /\ ConfigSurvivesRestart
  /\ memory # None => file # None

RegistryInv == RegistryTypeOK /\ SecretsSurviveRestart

CatalogueTypes ==
  /\ CatalogueTypeOK
  /\ author \in [Stores -> [Keys -> Item]]
  /\ suspect \subseteq Stores /\ overlap \subseteq Stores
  /\ dropped \subseteq Keys /\ unseeded \in BOOLEAN

TypeInv ==
  /\ agenda \in Agendas
  /\ at \in [Requests -> Places]
  /\ job = [r \in Requests |-> job[r]]
  /\ UsersTypeOK
  /\ CatalogueTypes

CatalogueInv ==
  /\ CatalogueKnows
  /\ ServesWhenUp
  /\ ScansAgree
  /\ CachesAgree
  /\ WritersAgree
  /\ SeedGoesOn

Descends(s) == \A i, j \in 1..Len(s) : i < j => Newer(s[i], s[j])
Has(s, row) == \E i \in 1..Len(s) : s[i] = row

\* q.sent and q.page are newest first, and with them every row that was there
\* when the query began, of the days that were read and up to the cursor.
Collects(q) ==
  LET all == q.sent \o q.page IN
  /\ Descends(all)
  /\ \A row \in q.present : row[1] > q.day \/ ~PastCursor(q.cursor, row) => Has(all, row)

\* What is yet to be read is older than what is there.
GoesOn(q) ==
  /\ Len(q.page) < Limit
  /\ \A i \in 1..Len(q.page) : q.page[i][1] > q.day
  /\ IF q.cursor = None
       THEN q.sent = <<>>
       ELSE \A i \in 1..Len(q.sent) : q.sent[i] = q.cursor \/ Newer(q.sent[i], q.cursor)

QuerySound(q) ==
  /\ q \in Reading
  /\ Collects(q)
  /\ IF q.day = 0 THEN q.page = <<>> ELSE GoesOn(q)

LogInv ==
  /\ log \subseteq Rows
  /\ reading = [r \in Requests |-> reading[r]]
  /\ \A r \in Requests :
       IF at[r] = "read"
         THEN QuerySound(reading[r]) /\ reading[r].present \subseteq log
         ELSE reading[r] = None

\* A request has a job while it is served.
JobsKnown == \A r \in Requests : job[r] = None <=> at[r] \in {"new", "done"}

IInv ==
  /\ TypeInv
  /\ HandlersKnow
  /\ JobsKnown
  /\ CatalogueInv
  /\ ConfigInv
  /\ RegistryInv
  /\ LogInv

-----------------------------------------------------------------------------
(* One request moves at a time *)

Moves(r, from, to) ==
  /\ at[r] \in from
  /\ at'[r] \in to
  /\ at' \in [Requests -> Places]
  /\ job' = [q \in Requests |-> job'[q]]
  /\ \A q \in Requests \ {r} : at'[q] = at[q] /\ job'[q] = job[q]

\* A request that arrives.
LEMMA ServeMoves ==
  ASSUME TypeInv, NEW r \in Requests, NEW j, NEW place \in Places, Serve(r, j, place)
  PROVE  Moves(r, {"new"}, {place}) /\ job'[r] = j
BY DEF TypeInv, Serve, Moves

\* A handler that comes to its next await.
LEMMA GotoMoves ==
  ASSUME TypeInv, NEW r \in Requests, NEW place \in Places, Goto(r, place)
  PROVE  Moves(r, {at[r]}, {place}) /\ job' = job
BY DEF TypeInv, Goto, Moves

LEMMA SucceedMoves ==
  ASSUME TypeInv, NEW r \in Requests, Succeed(r)
  PROVE  Moves(r, {at[r]}, {"log"}) /\ job' = job
BY GotoMoves DEF Succeed, Places, Writes

\* A handler that ends.
LEMMA FinishMoves ==
  ASSUME TypeInv, NEW r \in Requests, Finish(r)
  PROVE  Moves(r, {at[r]}, {"done"})
BY DEF TypeInv, Finish, Moves, Places

\* The accounts: where a handler comes from and goes to.
LEMMA UserMoves ==
  ASSUME TypeInv, NEW r \in Requests
  PROVE  /\ \A j : UserStart(r, j) => Moves(r, {"new"}, {"create", "check", "delete"})
         /\ UserStep(r) => Moves(r, UserPlaces, UserPlaces \cup {"log", "done"})
<1> USE DEF UserPlaces, Places, Writes
<1>1. ASSUME NEW j, UserStart(r, j)
      PROVE  Moves(r, {"new"}, {"create", "check", "delete"})
  <2>1. PICK place \in {"create", "check", "delete"} : Serve(r, j, place)
    BY <1>1 DEF UserStart, Setup, StartCreate, StartPatch, StartDelete
  <2> QED
    BY <2>1, ServeMoves DEF Moves
<1>2. ASSUME UserStep(r)
      PROVE  Moves(r, UserPlaces, UserPlaces \cup {"log", "done"})
  <2>1. CASE CreateChecked(r)
    BY <2>1, GotoMoves, FinishMoves DEF CreateChecked, Moves
  <2>2. CASE PutAccount(r)
    BY <2>2, SucceedMoves, FinishMoves DEF PutAccount, Moves
  <2>3. CASE CheckField(r)
    BY <2>3, GotoMoves, FinishMoves DEF CheckField, Moves
  <2>4. CASE UpdateField(r)
    <3>1. CASE Finish(r)
      BY <2>4, <3>1, FinishMoves DEF UpdateField, Moves
    <3>2. CASE ~Finish(r)
      <4>1. /\ at[r] = "update"
            /\ job' = [job EXCEPT ![r].changes = Tail(job[r].changes)]
            /\ at' = [at EXCEPT ![r] = IF Tail(job[r].changes) = <<>> THEN "confirm" ELSE "check"]
        BY <2>4, <3>2 DEF UpdateField
      <4> QED
        BY <4>1 DEF Moves, TypeInv
    <3> QED
      BY <3>1, <3>2
  <2>5. CASE Confirm(r)
    BY <2>5, SucceedMoves, FinishMoves DEF Confirm, Moves
  <2>6. CASE DeleteAccount(r)
    BY <2>6, SucceedMoves, FinishMoves DEF DeleteAccount, Moves
  <2> QED
    BY <1>2, <2>1, <2>2, <2>3, <2>4, <2>5, <2>6 DEF UserStep
<1> QED
  BY <1>1, <1>2

\* The catalogue.
LEMMA CatalogueMoves ==
  ASSUME TypeInv, NEW r \in Requests
  PROVE  /\ \A j : CatalogueStart(r, j) => Moves(r, {"new"}, CataloguePlaces)
         /\ CatalogueStep(r) => Moves(r, CataloguePlaces, CataloguePlaces \cup {"log", "done"})
<1> USE DEF CataloguePlaces, Places, Writes
<1>1. ASSUME NEW j, CatalogueStart(r, j)
      PROVE  Moves(r, {"new"}, CataloguePlaces)
  <2>1. PICK place \in CataloguePlaces : Serve(r, j, place)
    BY <1>1 DEF CatalogueStart, StartEdit, StartAdd, StartDrop, StartRescan, Begin
  <2> QED
    BY <2>1, ServeMoves DEF Moves
<1>2. ASSUME CatalogueStep(r)
      PROVE  Moves(r, CataloguePlaces, CataloguePlaces \cup {"log", "done"})
  <2>1. CASE ReadPage(r)
    BY <2>1 DEF ReadPage, requestVars, Moves, TypeInv, CatalogueTypes, CatalogueTypeOK
  <2>2. CASE ScanReturns(r)
    BY <2>2, SucceedMoves, FinishMoves DEF ScanReturns, Moves
  <2>3. CASE StoreItem(r)
    <3>1. at[r] = "store" /\ (Goto(r, "scan") \/ Finish(r))
      BY <2>3 DEF StoreItem, Stored, Failed
    <3> QED
      BY <3>1, GotoMoves, FinishMoves DEF Moves
  <2>4. CASE DropItem(r)
    <3>1. at[r] = "drop" /\ (Goto(r, "scan") \/ Finish(r))
      BY <2>4 DEF DropItem, Stored, Failed
    <3> QED
      BY <3>1, GotoMoves, FinishMoves DEF Moves
  <2> QED
    BY <1>2, <2>1, <2>2, <2>3, <2>4 DEF CatalogueStep
<1> QED
  BY <1>1, <1>2

\* The configuration, the tool servers and the audit log.
LEMMA OtherMoves ==
  ASSUME TypeInv, NEW r \in Requests
  PROVE  /\ \A j : UpdateConfig(r, j) \/ McpStart(r, j) => Moves(r, {"new"}, {"log", "done"})
         /\ \A j : StartQuery(r, j) => Moves(r, {"new"}, {"read"})
         /\ LogRow(r) \/ ReadDay(r) \/ QueryEnds(r) => Moves(r, {"log", "read"}, {"read", "done"})
<1> USE DEF Places, Writes
<1>1. ASSUME NEW j, UpdateConfig(r, j) \/ McpStart(r, j)
      PROVE  Moves(r, {"new"}, {"log", "done"})
  <2>1. Serve(r, j, "log") \/ (at[r] = "new" /\ Finish(r))
    BY <1>1 DEF UpdateConfig, McpStart, UpsertServer, DeleteServer, Persist
  <2> QED
    BY <2>1, ServeMoves, FinishMoves DEF Moves
<1>2. ASSUME NEW j, StartQuery(r, j)
      PROVE  Moves(r, {"new"}, {"read"})
  BY <1>2, ServeMoves DEF StartQuery
<1>3. ASSUME LogRow(r) \/ ReadDay(r) \/ QueryEnds(r)
      PROVE  Moves(r, {"log", "read"}, {"read", "done"})
  <2>1. CASE LogRow(r)
    BY <2>1, FinishMoves DEF LogRow, Moves
  <2>2. CASE ReadDay(r)
    BY <2>2 DEF ReadDay, requestVars, Moves, TypeInv
  <2>3. CASE QueryEnds(r)
    BY <2>3, FinishMoves DEF QueryEnds, Moves
  <2> QED
    BY <1>3, <2>1, <2>2, <2>3
<1> QED
  BY <1>1, <1>2, <1>3

-----------------------------------------------------------------------------
(* The configuration *)

\* Only an update and a restart touch it, and both leave it sound.
LEMMA ConfigKept ==
  ASSUME ConfigInv, ServerAssumption, agenda \in Agendas, [Next]_vars
  PROVE  ConfigInv'
<1> USE DEF ConfigInv
<1>1. CASE UNCHANGED configVars
  BY <1>1 DEF configVars, ConfigTypeOK, ConfigSurvivesRestart
<1>2. CASE \E r \in Requests, j \in agenda.jobs : UpdateConfig(r, j)
  <2>1. PICK r \in Requests, j \in agenda.jobs : UpdateConfig(r, j)
    BY <1>2
  <2>2. /\ j.segment \in Segments
        /\ \/ j.field = "engine" /\ j.value \in Engines
           \/ j.field = "lang" /\ j.value \in Langs
    BY <2>1 DEF ServerAssumption, ConfigJob, UpdateConfig
  <2>3. Loaded \in [Segments -> Segment] /\ Loaded # None
        /\ \A s \in Segments : Loaded[s].lang \in Served[Loaded[s].engine]
    BY ConfigAssumption DEF Loaded, ConfigTypeOK, ConfigSurvivesRestart
  <2>4. Document \in [Segments -> Segment] /\ Document # None
        /\ \A s \in Segments : Document[s].lang \in Served[Document[s].engine]
    BY <2>3, ConfigAssumption DEF Document, ConfigTypeOK, ConfigSurvivesRestart
  <2>5. \A s \in Segments, f \in {"engine", "lang"} :
          Document[s][f] = Loaded[s][f] \/ <<s, f>> \in refused
    BY DEF Document, Loaded, ConfigTypeOK, ConfigSurvivesRestart
  <2> DEFINE new == [Document[j.segment] EXCEPT ![j.field] = j.value]
             document == [Document EXCEPT ![j.segment] = new]
  <2>6. new \in Segment /\ document \in [Segments -> Segment]
    BY <2>2, <2>4 DEF Segment
  <2>7. CASE Valid(new, j)
    <3>1. \A s \in Segments : document[s].lang \in Served[document[s].engine]
      BY <2>2, <2>4, <2>6, <2>7 DEF Valid
    <3>2. CASE memory' = document /\ file' = document /\ refused' = {}
      BY <2>6, <3>1, <3>2, ConfigAssumption DEF ConfigTypeOK, ConfigSurvivesRestart
    <3>3. CASE /\ memory' = document /\ file' = Loaded
               /\ refused' = refused \cup {<<j.segment, j.field>>}
      <4>1. \A s \in Segments, f \in {"engine", "lang"} :
              document[s][f] = Loaded[s][f] \/ <<s, f>> \in refused'
        <5> SUFFICES ASSUME NEW s \in Segments, NEW f \in {"engine", "lang"},
                            s # j.segment \/ f # j.field
                     PROVE  document[s][f] = Document[s][f]
          BY <2>5, <3>3
        <5> QED
          BY <2>2, <2>4, <2>6 DEF Segment
      <4>2. refused' \subseteq Segments \X {"engine", "lang"}
        BY <2>2, <3>3 DEF ConfigTypeOK
      <4>3. ConfigTypeOK'
        BY <2>3, <2>6, <3>3, <4>2 DEF ConfigTypeOK
      <4>4. ConfigSurvivesRestart'
        BY <2>3, <3>1, <3>3, <4>1, Zenon DEF ConfigSurvivesRestart
      <4> QED
        BY <2>3, <3>3, <4>3, <4>4
    <3> QED
      BY <2>1, <2>7, <3>2, <3>3 DEF UpdateConfig
  <2>8. CASE ~Valid(new, j)
    BY <2>1, <2>3, <2>4, <2>5, <2>8 DEF UpdateConfig, ConfigTypeOK, ConfigSurvivesRestart
  <2> QED
    BY <2>7, <2>8
<1>3. CASE Restart
  BY <1>3 DEF Restart, ConfigRestart, ConfigTypeOK, ConfigSurvivesRestart
<1>4. \/ UNCHANGED configVars
      \/ \E r \in Requests, j \in agenda.jobs : UpdateConfig(r, j)
      \/ Restart
  BY DEF Next, vars, documentVars, Start, Step
<1> QED
  BY <1>1, <1>2, <1>3, <1>4

-----------------------------------------------------------------------------
(* The tool servers *)

\* What a request makes of an entry: well-formed, and without a mask.
LEMMA ResolvedIsServer ==
  ASSUME NEW old \in Server \cup {None}, NEW r \in Requests,
         NEW headers \in [Headers -> {"typed", "shown", "absent"}],
         old # None => \A h \in Headers : old[h] # Mask
  PROVE  /\ Resolved(old, headers, r) \in Server
         /\ \A h \in Headers : Resolved(old, headers, r)[h] # Mask
<1>1. ASSUME NEW h \in Headers
      PROVE  /\ Resolved(old, headers, r)[h] \in Requests \cup {None, Mask}
             /\ Resolved(old, headers, r)[h] # Mask
  <2>1. headers[h] \in {"typed", "shown", "absent"}
    OBVIOUS
  <2> QED
    BY <2>1, RegistryAssumption DEF Resolved, Server
<1> QED
  BY <1>1 DEF Resolved, Server

\* What is in memory, once it is loaded.
LEMMA KnownIsSound ==
  ASSUME RegistryInv
  PROVE  /\ OnFile \in Registry /\ Known \in Registry
         /\ \A s \in Servers : Known[s] = OnFile[s] \/ s \in unsaved
         /\ \A document \in {OnFile, Known}, s \in Servers :
              document[s] # None => \A h \in Headers : document[s][h] # Mask
<1>1. NoServers \in Registry /\ \A s \in Servers : NoServers[s] = None
  BY DEF NoServers, Registry
<1>2. OnFile \in Registry
  BY <1>1 DEF OnFile, RegistryInv, RegistryTypeOK
<1>3. Known \in Registry
  BY <1>2 DEF Known, RegistryInv, RegistryTypeOK
<1>4. \A s \in Servers : Known[s] = OnFile[s] \/ s \in unsaved
  BY DEF Known, RegistryInv, SecretsSurviveRestart
<1>5. \A s \in Servers : OnFile[s] # None => \A h \in Headers : OnFile[s][h] # Mask
  BY <1>1 DEF OnFile, RegistryInv, SecretsSurviveRestart
<1>6. \A s \in Servers : Known[s] # None => \A h \in Headers : Known[s][h] # Mask
  BY <1>5 DEF Known, RegistryInv, SecretsSurviveRestart
<1> QED
  BY <1>2, <1>3, <1>4, <1>5, <1>6

\* An entry is changed in memory, and then written or not.
LEMMA PersistKept ==
  ASSUME RegistryInv, NEW r \in Requests, NEW j, j.server \in Servers,
         NEW entry \in Server \cup {None},
         entry # None => \A h \in Headers : entry[h] # Mask,
         Persist(r, j, [Known EXCEPT ![j.server] = entry])
  PROVE  RegistryInv'
<1> DEFINE document == [Known EXCEPT ![j.server] = entry]
<1>1. /\ Known \in Registry /\ OnFile \in Registry
      /\ \A s \in Servers : Known[s] = OnFile[s] \/ s \in unsaved
      /\ \A s \in Servers : Known[s] # None => \A h \in Headers : Known[s][h] # Mask
  BY KnownIsSound
<1>2. document \in Registry /\ document # None
  BY <1>1, RegistryAssumption DEF Registry, Server
<1>3. \A s \in Servers : document[s] = IF s = j.server THEN entry ELSE Known[s]
  BY <1>1 DEF Registry
<1>4. \A s \in Servers : document[s] # None => \A h \in Headers : document[s][h] # Mask
  BY <1>1, <1>3
<1>5. registry' = document
  BY DEF Persist
<1> HIDE DEF document
<1>6. CASE registryFile' = document /\ unsaved' = {}
  BY <1>2, <1>4, <1>5, <1>6 DEF RegistryInv, RegistryTypeOK, SecretsSurviveRestart, OnFile
<1>7. CASE registryFile' = registryFile /\ unsaved' = unsaved \cup {j.server}
  <2>1. OnFile' = OnFile
    BY <1>7 DEF OnFile
  <2>2. \A s \in Servers : document[s] = OnFile[s] \/ s \in unsaved'
    BY <1>1, <1>3, <1>7
  <2>3. RegistryTypeOK'
    BY <1>2, <1>5, <1>7 DEF RegistryInv, RegistryTypeOK
  <2> QED
    BY <1>4, <1>5, <1>7, <2>1, <2>2, <2>3 DEF RegistryInv, SecretsSurviveRestart
<1> QED
  BY <1>6, <1>7 DEF Persist, document

\* Only the two endpoints and a restart touch the tool servers.
LEMMA RegistryKept ==
  ASSUME RegistryInv, ServerAssumption, agenda \in Agendas, [Next]_vars
  PROVE  RegistryInv'
<1>1. CASE UNCHANGED registryVars
  BY <1>1 DEF RegistryInv, registryVars, RegistryTypeOK, SecretsSurviveRestart, OnFile
<1>2. ASSUME NEW r \in Requests, NEW j \in agenda.jobs, McpStart(r, j)
      PROVE  RegistryInv'
  <2>1. McpJob(j)
    BY DEF ServerAssumption
  <2>2. CASE UpsertServer(r, j)
    <3>1. j.server \in Servers /\ j.headers \in [Headers -> {"typed", "shown", "absent"}]
      BY <2>1, <2>2 DEF UpsertServer, McpJob
    <3> DEFINE entry == Resolved(Known[j.server], j.headers, r)
    <3>2. entry \in Server /\ \A h \in Headers : entry[h] # Mask
      <4>1. /\ Known[j.server] \in Server \cup {None}
            /\ Known[j.server] # None => \A h \in Headers : Known[j.server][h] # Mask
        BY <3>1, KnownIsSound DEF Registry
      <4> QED
        BY <3>1, <4>1, ResolvedIsServer
    <3>3. Persist(r, j, [Known EXCEPT ![j.server] = entry])
      BY <2>2 DEF UpsertServer
    <3> QED
      BY <3>1, <3>2, <3>3, PersistKept
  <2>3. CASE DeleteServer(r, j)
    <3>1. j.server \in Servers
      BY <2>1, <2>3 DEF DeleteServer, McpJob
    <3>2. Persist(r, j, [Known EXCEPT ![j.server] = None])
      BY <2>3 DEF DeleteServer
    <3> QED
      BY <3>1, <3>2, PersistKept
  <2> QED
    BY <1>2, <2>2, <2>3 DEF McpStart
<1>3. CASE Restart
  BY <1>3 DEF Restart, RegistryRestart, RegistryInv, RegistryTypeOK, SecretsSurviveRestart
<1>4. \/ UNCHANGED registryVars
      \/ \E r \in Requests, j \in agenda.jobs : McpStart(r, j)
      \/ Restart
  BY DEF Next, vars, documentVars, Start, Step
<1> QED
  BY <1>1, <1>2, <1>3, <1>4

-----------------------------------------------------------------------------
(* The accounts *)

\* What the other handlers know stays true when accounts disappear into
\* removed only.
LEMMA OthersKnow ==
  ASSUME HandlersKnow, NEW r \in Requests,
         Moves(r, Places, Places),
         \A u \in Users : users[u] # None \/ u \in removed => users'[u] # None \/ u \in removed'
  PROVE  \A q \in Requests \ {r} : KnowsAt(q)'
<1> SUFFICES ASSUME NEW q \in Requests \ {r}
             PROVE  KnowsAt(q)'
  OBVIOUS
<1>1. KnowsAt(q) /\ at'[q] = at[q] /\ job'[q] = job[q]
  BY DEF HandlersKnow, KnowsAt, Moves
<1>2. job[q] \in Patch => job[q].target \in Users
  BY DEF Patch
<1> QED
  BY <1>1, <1>2 DEF KnowsAt

\* A step of the accounts leaves well-formed accounts, removes none without
\* a trace, and its handler knows what it needs where it goes.
LEMMA UserStartKept ==
  ASSUME TypeInv, HandlersKnow, ServerAssumption, NEW r \in Requests,
         NEW j \in agenda.jobs, UserStart(r, j)
  PROVE  UNCHANGED userVars /\ KnowsAt(r)'
<1>1. AccountJob(j)
  BY DEF ServerAssumption, TypeInv
<1>2. CASE Setup(r, j)
  BY <1>1, <1>2, ServeMoves DEF Setup, Moves, Places, KnowsAt
<1>3. CASE StartCreate(r, j)
  BY <1>1, <1>3, ServeMoves DEF StartCreate, Moves, Places, KnowsAt
<1>4. CASE StartPatch(r, j)
  <2>1. j \in Patch /\ j.changes # <<>>
    BY <1>1, <1>4 DEF StartPatch, AccountJob, Patch
  <2> QED
    BY <1>4, <2>1, ServeMoves DEF StartPatch, Moves, Places, KnowsAt
<1>5. CASE StartDelete(r, j)
  BY <1>1, <1>5, ServeMoves DEF StartDelete, Moves, Places, Writes, KnowsAt
<1> QED
  BY <1>2, <1>3, <1>4, <1>5 DEF UserStart

\* An account made of a change.
LEMMA UpdatedIsAccount ==
  ASSUME NEW row \in Account \cup {None}, NEW change \in Change, NEW r \in Requests
  PROVE  /\ Updated(row, change, r) \in Account
         /\ Updated(row, change, r) # None
BY UsersAssumption DEF Updated, Account, Change, Roles

LEMMA UserStepKept ==
  ASSUME TypeInv, HandlersKnow, NEW r \in Requests, UserStep(r)
  PROVE  /\ UsersTypeOK'
         /\ KnowsAt(r)'
         /\ \A u \in Users : users[u] # None \/ u \in removed => users'[u] # None \/ u \in removed'
<1> USE DEF TypeInv, CatalogueTypes
<1>1. KnowsAt(r)
  BY DEF HandlersKnow, KnowsAt
<1>2. ASSUME at'[r] \in {"log", "done", "confirm"}
      PROVE  KnowsAt(r)'
  BY <1>2 DEF KnowsAt
<1>3. CASE CreateChecked(r)
  <2>1. UNCHANGED userVars
    BY <1>3 DEF CreateChecked
  <2>2. ASSUME Goto(r, "put") PROVE KnowsAt(r)'
    <3>1. at[r] = "create" /\ at'[r] = "put" /\ job' = job
      BY <1>3, <2>2, GotoMoves DEF CreateChecked, Moves, Places, Writes
    <3> QED
      BY <1>1, <3>1 DEF KnowsAt
  <2>3. ASSUME Finish(r) PROVE KnowsAt(r)'
    BY <1>2, <2>3, FinishMoves DEF Moves
  <2> QED
    BY <1>3, <2>1, <2>2, <2>3 DEF CreateChecked, userVars, UsersTypeOK
<1>4. CASE PutAccount(r)
  <2>1. at'[r] \in {"log", "done"}
    BY <1>4, SucceedMoves, FinishMoves DEF PutAccount, Moves
  <2>2. NewAccount(r) \in Account
    BY <1>1, <1>4 DEF PutAccount, KnowsAt, AccountJob, NewAccount, Account, Roles
  <2>3. NewAccount(r) # None
    BY <2>2, UsersAssumption
  <2>4. /\ removed' = removed
        /\ users' = users \/ users' = [users EXCEPT ![job[r].target] = NewAccount(r)]
    BY <1>4 DEF PutAccount
  <2> QED
    BY <1>2, <2>1, <2>2, <2>3, <2>4 DEF UsersTypeOK
<1>5. CASE CheckField(r)
  <2>1. UNCHANGED userVars
    BY <1>5 DEF CheckField
  <2>2. CASE /\ Goto(r, "update")
             /\ users[job[r].target] # None
             /\ ~(/\ Head(job[r].changes).field = "disabled" /\ Head(job[r].changes).value
                  /\ job[r].target = job[r].actor)
    <3>1. at[r] = "check" /\ job' = job /\ at'[r] = "update"
      BY <1>5, <2>2, GotoMoves DEF CheckField, Moves, Places, Writes
    <3> QED
      BY <1>1, <2>1, <2>2, <3>1 DEF KnowsAt, userVars, UsersTypeOK
  <2>3. CASE Finish(r)
    BY <1>2, <2>1, <2>3, FinishMoves DEF Moves, userVars, UsersTypeOK
  <2> QED
    BY <1>5, <2>2, <2>3 DEF CheckField
<1>6. CASE UpdateField(r)
  <2> DEFINE t == job[r].target
             change == Head(job[r].changes)
  <2>1. /\ job[r] \in Patch /\ job[r].changes # <<>>
        /\ t \in Users /\ change \in Change /\ Tail(job[r].changes) \in Seq(Change)
    BY <1>1, <1>6 DEF UpdateField, KnowsAt, Patch
  <2>2. Updated(users[t], change, r) \in Account /\ Updated(users[t], change, r) # None
    BY <2>1, UpdatedIsAccount DEF UsersTypeOK
  <2>3. /\ removed' = removed
        /\ users' = users \/ users' = [users EXCEPT ![t] = Updated(users[t], change, r)]
    BY <1>6 DEF UpdateField
  <2>4. KnowsAt(r)'
    <3>1. CASE Finish(r)
      BY <1>2, <3>1, FinishMoves DEF Moves
    <3>2. CASE ~Finish(r)
      <4>1. /\ job' = [job EXCEPT ![r].changes = Tail(job[r].changes)]
            /\ at' = [at EXCEPT ![r] = IF Tail(job[r].changes) = <<>> THEN "confirm" ELSE "check"]
        BY <1>6, <3>2 DEF UpdateField
      <4>2. CASE Tail(job[r].changes) = <<>>
        BY <1>2, <4>1, <4>2
      <4>3. CASE Tail(job[r].changes) # <<>>
        <5>1. at'[r] = "check" /\ job'[r] = [job[r] EXCEPT !.changes = Tail(job[r].changes)]
          BY <4>1, <4>3
        <5>2. job'[r] \in Patch /\ job'[r].changes # <<>>
          BY <2>1, <4>3, <5>1 DEF Patch
        <5> QED
          BY <5>1, <5>2 DEF KnowsAt
      <4> QED
        BY <4>2, <4>3
    <3> QED
      BY <3>1, <3>2
  <2> QED
    BY <2>1, <2>2, <2>3, <2>4 DEF UsersTypeOK
<1>7. CASE Confirm(r)
  BY <1>2, <1>7, SucceedMoves, FinishMoves DEF Confirm, Moves, userVars, UsersTypeOK
<1>8. CASE DeleteAccount(r)
  <2>1. at'[r] \in {"log", "done"}
    BY <1>8, SucceedMoves, FinishMoves DEF DeleteAccount, Moves
  <2>2. \/ UNCHANGED <<users, removed>>
        \/ /\ users' = [users EXCEPT ![job[r].target] = None]
           /\ removed' = IF users[job[r].target] = None THEN removed
                         ELSE removed \cup {job[r].target}
    BY <1>8 DEF DeleteAccount, userVars
  <2>3. UsersTypeOK'
    <3>1. job[r].target \in Users
      BY <1>1, <1>8 DEF DeleteAccount, KnowsAt, AccountJob
    <3> QED
      BY <2>2, <3>1 DEF UsersTypeOK
  <2> QED
    BY <1>2, <2>1, <2>2, <2>3 DEF UsersTypeOK
<1> QED
  BY <1>3, <1>4, <1>5, <1>6, <1>7, <1>8 DEF UserStep

\* Every step but a restart is one of lifespan or moves a single request.
LEMMA StepMoves ==
  ASSUME TypeInv, [Next]_vars, ~Restart
  PROVE  UNCHANGED requestVars \/ \E r \in Requests : Moves(r, Places, Places)
<1> USE DEF Moves, UserPlaces, CataloguePlaces, Places, Writes
<1>1. ASSUME NEW r \in Requests, NEW j \in agenda.jobs, Start(r, j)
      PROVE  Moves(r, Places, Places)
  <2>1. \/ UserStart(r, j) \/ CatalogueStart(r, j) \/ UpdateConfig(r, j) \/ McpStart(r, j)
        \/ StartQuery(r, j)
    BY <1>1 DEF Start
  <2> QED
    BY <2>1, UserMoves, CatalogueMoves, OtherMoves
<1>2. ASSUME NEW r \in Requests, Step(r)
      PROVE  Moves(r, Places, Places)
  <2>1. UserStep(r) \/ CatalogueStep(r) \/ LogRow(r) \/ ReadDay(r) \/ QueryEnds(r)
    BY <1>2 DEF Step
  <2> QED
    BY <2>1, UserMoves, CatalogueMoves, OtherMoves
<1>3. CASE BootScan \/ Seed
  BY <1>3 DEF BootScan, Seed, requestVars
<1>4. CASE UNCHANGED vars
  BY <1>4 DEF vars, requestVars
<1> QED
  BY <1>1, <1>2, <1>3, <1>4 DEF Next

LEMMA RequestsKept ==
  ASSUME TypeInv, [Next]_vars
  PROVE  /\ agenda' = agenda
         /\ at' \in [Requests -> Places]
         /\ job' = [r \in Requests |-> job'[r]]
<1>1. agenda' = agenda
  BY DEF Next, vars
<1>2. CASE Restart
  BY <1>1, <1>2 DEF Restart, TypeInv, Places
<1>3. CASE ~Restart
  BY <1>1, <1>3, StepMoves DEF Moves, requestVars, TypeInv
<1> QED
  BY <1>2, <1>3

LEMMA AccountsKept ==
  ASSUME TypeInv, HandlersKnow, ServerAssumption, [Next]_vars
  PROVE  UsersTypeOK' /\ HandlersKnow'
<1> USE DEF TypeInv, CatalogueTypes
<1>1. HandlersKnow' <=> \A r \in Requests : KnowsAt(r)'
  BY DEF HandlersKnow, KnowsAt
<1>2. ASSUME NEW r \in Requests, NEW j \in agenda.jobs, UserStart(r, j)
      PROVE  UsersTypeOK' /\ HandlersKnow'
  <2>1. Moves(r, Places, Places)
    BY <1>2, UserMoves DEF Moves, Places, Writes
  <2> QED
    BY <1>1, <1>2, <2>1, UserStartKept, OthersKnow DEF userVars, UsersTypeOK
<1>3. ASSUME NEW r \in Requests, UserStep(r)
      PROVE  UsersTypeOK' /\ HandlersKnow'
  <2>1. Moves(r, Places, Places)
    BY <1>3, UserMoves DEF Moves, UserPlaces, Places, Writes
  <2> QED
    BY <1>1, <1>3, <2>1, UserStepKept, OthersKnow
<1>4. ASSUME NEW r \in Requests, Moves(r, Places, CataloguePlaces \cup {"log", "read", "done"}),
             UNCHANGED userVars
      PROVE  UsersTypeOK' /\ HandlersKnow'
  <2>1. Moves(r, Places, Places)
    BY <1>4 DEF Moves, CataloguePlaces, Places, Writes
  <2>2. KnowsAt(r)'
    BY <1>4 DEF Moves, CataloguePlaces, KnowsAt
  <2> QED
    BY <1>1, <1>4, <2>1, <2>2, OthersKnow DEF userVars, UsersTypeOK
<1>5. ASSUME UNCHANGED userVars,
             UNCHANGED requestVars \/ (\A r \in Requests : at'[r] \in {"new", "done"})
      PROVE  UsersTypeOK' /\ HandlersKnow'
  BY <1>1, <1>5 DEF userVars, requestVars, UsersTypeOK, HandlersKnow, KnowsAt
<1>6. CASE Restart
  <2>1. UNCHANGED userVars
    BY <1>6 DEF Restart, userVars
  <2> QED
    BY <1>5, <1>6, <2>1 DEF Restart
<1>9. CASE (BootScan \/ Seed) /\ UNCHANGED userVars
  BY <1>5, <1>9 DEF BootScan, Seed, requestVars
<1>10. CASE UNCHANGED vars
  BY <1>5, <1>10 DEF vars, userVars, requestVars
<1>7. ASSUME NEW r \in Requests, NEW j \in agenda.jobs, Start(r, j)
      PROVE  UsersTypeOK' /\ HandlersKnow'
  <2>1. CASE UserStart(r, j)
    BY <1>2, <2>1
  <2>2. CASE /\ UNCHANGED userVars
             /\ CatalogueStart(r, j) \/ UpdateConfig(r, j) \/ McpStart(r, j) \/ StartQuery(r, j)
    BY <1>4, <2>2, CatalogueMoves, OtherMoves DEF Moves, Places, Writes, CataloguePlaces
  <2> QED
    BY <1>7, <2>1, <2>2 DEF Start
<1>8. ASSUME NEW r \in Requests, Step(r)
      PROVE  UsersTypeOK' /\ HandlersKnow'
  <2>1. CASE UserStep(r)
    BY <1>3, <2>1
  <2>2. CASE UNCHANGED userVars /\ (CatalogueStep(r) \/ LogRow(r) \/ ReadDay(r) \/ QueryEnds(r))
    BY <1>4, <2>2, CatalogueMoves, OtherMoves DEF Moves, Places, Writes, CataloguePlaces
  <2> QED
    BY <1>8, <2>1, <2>2 DEF Step
<1> QED
  BY <1>6, <1>7, <1>8, <1>9, <1>10 DEF Next

\* Only the steps of UserStore change the accounts.
LEMMA AccountSteps ==
  ASSUME TypeInv, [Next]_vars, users' # users
  PROVE  \E r \in Requests : at[r] \in {"put", "update", "delete"} /\ UserStep(r)
<1>1. PICK r \in Requests : UserStep(r)
  <2>1. \A r \in Requests, j \in agenda.jobs : UserStart(r, j) => users' = users
    BY DEF UserStart, Setup, StartCreate, StartPatch, StartDelete, userVars
  <2> QED
    BY <2>1 DEF Next, Start, Step, Restart, vars, userVars
<1>2. at[r] \in {"put", "update", "delete"}
  BY <1>1 DEF UserStep, CreateChecked, PutAccount, CheckField, UpdateField, Confirm,
              DeleteAccount, userVars
<1> QED
  BY <1>1, <1>2

\* What AccountLifecycle says of a step.
LEMMA LifecycleStep ==
  ASSUME TypeInv, HandlersKnow, [Next]_vars,
         NEW u \in Users, users'[u] # users[u]
  PROVE  \E r \in Requests :
           /\ Steps(r)
           /\ job[r].target = u
           /\ \/ at[r] = "delete" /\ users'[u] = None
              \/ at[r] = "put" /\ users[u] = None /\ users'[u].password = r
              \/ /\ at[r] = "update"
                 /\ users[u] = None => u \in removed
                 /\ users[u] # None =>
                      Cardinality({f \in {"role", "disabled", "password"} :
                                     users'[u][f] # users[u][f]}) = 1
<1> USE DEF TypeInv, CatalogueTypes, UsersTypeOK
<1>1. PICK r \in Requests : at[r] \in {"put", "update", "delete"} /\ UserStep(r)
  BY AccountSteps
<1>2. KnowsAt(r)
  BY DEF HandlersKnow, KnowsAt
<1>3. CASE PutAccount(r)
  <2>1. Steps(r)
    BY <1>3, SucceedMoves, FinishMoves DEF PutAccount, Moves, Steps
  <2>2. /\ at[r] = "put"
        /\ users[job[r].target] = None
        /\ users' = [users EXCEPT ![job[r].target] = NewAccount(r)]
    BY <1>3 DEF PutAccount
  <2>3. NewAccount(r).password = r
    BY DEF NewAccount
  <2> QED
    BY <2>1, <2>2, <2>3
<1>4. CASE UpdateField(r)
  <2> DEFINE change == Head(job[r].changes)
  <2>1. at[r] = "update"
    BY <1>4 DEF UpdateField
  <2>2. /\ users' = [users EXCEPT ![job[r].target] = Updated(users[job[r].target], change, r)]
        /\ job[r].target = u
    BY <1>4 DEF UpdateField
  <2>3. Steps(r)
    BY <1>4, FinishMoves DEF UpdateField, Moves, Steps
  <2>4. job[r] \in Patch /\ change \in Change
    BY <1>2, <2>1 DEF KnowsAt, Patch
  <2>5. ASSUME users[u] # None
        PROVE  Cardinality({f \in {"role", "disabled", "password"} :
                              users'[u][f] # users[u][f]}) = 1
    <3>1. users[u] \in Account /\ users'[u] = Updated(users[u], change, r)
      BY <2>2, <2>5
    <3>2. \A f \in {"role", "disabled", "password"} \ {change.field} : users'[u][f] = users[u][f]
      BY <2>4, <2>5, <3>1 DEF Updated, Account, Change
    <3>3. users'[u][change.field] # users[u][change.field]
      <4>1. users'[u] \in Account
        BY <2>4, <3>1, UpdatedIsAccount
      <4>2. \E f \in {"role", "disabled", "password"} : users'[u][f] # users[u][f]
        BY <3>1, <4>1 DEF Account
      <4> QED
        BY <3>2, <4>2
    <3>4. change.field \in {"role", "disabled", "password"}
      BY <2>4 DEF Change
    <3>5. {f \in {"role", "disabled", "password"} : users'[u][f] # users[u][f]} = {change.field}
      BY <3>2, <3>3, <3>4
    <3> QED
      BY <3>5, FS_Singleton
  <2> QED
    BY <1>2, <2>1, <2>2, <2>3, <2>5 DEF KnowsAt
<1>5. CASE DeleteAccount(r)
  <2>1. Steps(r)
    BY <1>5, SucceedMoves, FinishMoves DEF DeleteAccount, Moves, Steps
  <2>2. at[r] = "delete" /\ users' = [users EXCEPT ![job[r].target] = None]
    BY <1>5 DEF DeleteAccount, userVars
  <2> QED
    BY <2>1, <2>2
<1> QED
  BY <1>1, <1>3, <1>4, <1>5
  DEF UserStep, CreateChecked, CheckField, Confirm, userVars

\* What LockOutIsStale says of a step.
LEMMA LockOutStep ==
  ASSUME TypeInv, HandlersKnow, [Next]_vars, UsableAdmins # {}, UsableAdmins' = {}
  PROVE  \E r \in Requests :
           /\ Steps(r)
           /\ \/ job[r].actor \notin UsableAdmins
              \/ /\ at[r] = "update"
                 /\ job[r].target = job[r].actor
                 /\ Head(job[r].changes).field = "role"
<1> USE DEF TypeInv, CatalogueTypes, UsersTypeOK
<1>1. users' # users
  BY DEF UsableAdmins, Authorized
<1>2. PICK r \in Requests : at[r] \in {"put", "update", "delete"} /\ UserStep(r)
  BY <1>1, AccountSteps
<1>3. KnowsAt(r)
  BY DEF HandlersKnow, KnowsAt
<1>4. \A u \in UsableAdmins : users'[u] # users[u]
  BY DEF UsableAdmins, Authorized
<1>5. CASE PutAccount(r)
  <2>1. /\ users[job[r].target] = None
        /\ users' = [users EXCEPT ![job[r].target] = NewAccount(r)]
    BY <1>1, <1>5 DEF PutAccount
  <2>2. \A u \in UsableAdmins : u # job[r].target
    BY <2>1 DEF UsableAdmins, Authorized
  <2> QED
    BY <1>4, <2>1, <2>2 DEF UsableAdmins
<1>6. CASE UpdateField(r)
  <2> DEFINE t == job[r].target
             change == Head(job[r].changes)
  <2>1. /\ at[r] = "update"
        /\ users' = [users EXCEPT ![t] = Updated(users[t], change, r)]
    BY <1>1, <1>6 DEF UpdateField
  <2>2. Steps(r)
    BY <1>6, FinishMoves DEF UpdateField, Moves, Steps
  <2>3. job[r] \in Patch /\ change \in Change
    BY <1>3, <2>1 DEF KnowsAt, Patch
  <2>4. CASE job[r].actor \notin UsableAdmins
    BY <2>2, <2>4
  <2>5. CASE job[r].actor \in UsableAdmins
    <3>1. t = job[r].actor
      BY <1>4, <2>1, <2>5 DEF UsableAdmins
    <3>2. ~(change.field = "disabled" /\ change.value)
      BY <1>3, <2>1, <3>1 DEF KnowsAt
    <3>3. /\ users[t] \in Account /\ users[t].role = "admin"
          /\ ~users[t].disabled /\ users[t].password # None
          /\ t \in Users
      BY <2>5, <3>1 DEF UsableAdmins, Authorized
    <3>4. ASSUME change.field # "role"
          PROVE  t \in UsableAdmins'
      <4>1. Updated(users[t], change, r) # None
        BY <2>3, <3>3, UpdatedIsAccount
      <4>2. /\ Updated(users[t], change, r).role = "admin"
            /\ ~Updated(users[t], change, r).disabled
            /\ Updated(users[t], change, r).password # None
        <5>1. CASE change.field = "password"
          BY <3>3, <5>1, RequestsAssumption, UsersAssumption DEF Updated, Account
        <5>2. CASE change.field = "disabled"
          <6>1. change.value = FALSE
            BY <2>3, <3>2, <5>2 DEF Change
          <6> QED
            BY <3>3, <5>2, <6>1, UsersAssumption DEF Updated, Account
        <5> QED
          BY <2>3, <3>4, <5>1, <5>2 DEF Change
      <4> QED
        BY <2>1, <3>3, <4>1, <4>2 DEF UsableAdmins, Authorized
    <3> QED
      BY <2>1, <2>2, <3>1, <3>4
  <2> QED
    BY <2>4, <2>5
<1>7. CASE DeleteAccount(r)
  <2>1. Steps(r)
    BY <1>7, SucceedMoves, FinishMoves DEF DeleteAccount, Moves, Steps
  <2>2. at[r] = "delete" /\ users' = [users EXCEPT ![job[r].target] = None]
    BY <1>1, <1>7 DEF DeleteAccount, userVars
  <2>3. job[r].actor \notin UsableAdmins
    BY <1>3, <1>4, <2>2 DEF KnowsAt, UsableAdmins
  <2> QED
    BY <2>1, <2>3
<1> QED
  BY <1>2, <1>5, <1>6, <1>7 DEF UserStep, CreateChecked, CheckField, Confirm

-----------------------------------------------------------------------------
(* The catalogue *)

CatalogueGoal == CatalogueTypes' /\ CatalogueInv'

\* Requests of the other stores do not touch the catalogue.
LEMMA CatalogueUntouched ==
  ASSUME TypeInv, CatalogueInv, NEW r \in Requests,
         boot.phase = "up",
         Moves(r, Places \ CataloguePlaces, Places \ CataloguePlaces),
         UNCHANGED catalogueVars
  PROVE  CatalogueGoal
<1> USE DEF TypeInv, CatalogueTypes, CatalogueInv, CatalogueGoal, catalogueVars, CataloguePlaces, Moves
<1>1. CatalogueTypes'
  BY DEF CatalogueTypeOK
<1>2. CatalogueKnows' /\ ServesWhenUp'
  BY DEF CatalogueKnows, ServesWhenUp, CatalogueJob
<1>3. ScansAgree' /\ CachesAgree'
  BY DEF ScansAgree, CachesAgree, Scanning
<1>4. WritersAgree'
  <2>1. \A s \in Stores, q \in Requests : Writer(s, q)' => q # r /\ Writer(s, q)
    BY DEF Writer
  <2>2. \A s \in Stores, q \in Requests :
          Editor(s, q)' => Editor(s, q) /\ (Merged(s, q) => Merged(s, q)')
    BY <2>1 DEF Editor, Merged, Writer
  <2> QED
    BY <2>1, <2>2 DEF WritersAgree, AsAuthored
<1>5. SeedGoesOn'
  BY DEF SeedGoesOn, Whole
<1> QED
  BY <1>1, <1>2, <1>3, <1>4, <1>5

\* The start of an edit, an upsert or a delete.
LEMMA BeginKept ==
  ASSUME TypeInv, CatalogueInv, boot.phase = "up", NEW r \in Requests, NEW j, CatalogueJob(j),
         \/ StartEdit(r, j) \/ StartAdd(r, j) \/ StartDrop(r, j)
  PROVE  CatalogueGoal
<1> USE DEF TypeInv, CatalogueTypes, CatalogueInv, CatalogueGoal, CataloguePlaces
<1>1. PICK place \in {"store", "drop"}, item \in Item \cup {None} :
        /\ Begin(r, j, place, item)
        /\ place = "store" => j.op \in {"edit", "add"} /\ item \in Item
        /\ place = "drop" => j.op = "drop" /\ item = None
        /\ j.op = "edit" => /\ cache[j.store][j.key] # None
                            /\ item = [cache[j.store][j.key] EXCEPT ![j.field] = r]
  <2>1. CASE StartEdit(r, j)
    <3>1. /\ j.op = "edit" /\ cache[j.store][j.key] # None
          /\ Begin(r, j, "store", [cache[j.store][j.key] EXCEPT ![j.field] = r])
      BY <2>1 DEF StartEdit, Edited
    <3>2. cache[j.store][j.key] \in Item
      BY <3>1 DEF CatalogueTypeOK, CatalogueJob
    <3>3. [cache[j.store][j.key] EXCEPT ![j.field] = r] \in Item
      BY <3>2 DEF Item
    <3> QED
      BY <3>1, <3>3
  <2>2. CASE StartAdd(r, j)
    <3>1. [f \in Fields |-> r] \in Item
      BY DEF Item
    <3> QED
      BY <2>2, <3>1 DEF StartAdd
  <2>3. CASE StartDrop(r, j)
    BY <2>3 DEF StartDrop
  <2> QED
    BY <2>1, <2>2, <2>3
<1>2. /\ Moves(r, {"new"}, {place}) /\ job'[r] = j
      /\ draft' = [draft EXCEPT ![r] = item]
      /\ overlap' = IF Busy(j.store) \/ j.store \in suspect
                      THEN overlap \cup {j.store} ELSE overlap
      /\ UNCHANGED <<table, cache, live, scan, boot, suspect, author, dropped, unseeded>>
  BY <1>1, ServeMoves DEF Begin, Places, Writes
<1>3. j.store \in Stores /\ j.key \in Keys /\ j.op \in {"edit", "add", "drop"}
  BY <1>1 DEF CatalogueJob
<1>4. CatalogueTypes'
  <2>1. \A q \in Requests : (at'[q] = "scan" <=> scan'[q] # None)
    BY <1>2 DEF Moves, CatalogueTypeOK
  <2>2. \A q \in Requests : (at'[q] = "store" <=> draft'[q] # None)
    BY <1>1, <1>2, CatalogueAssumption DEF Moves, CatalogueTypeOK
  <2> QED
    BY <1>2, <1>3, <2>1, <2>2 DEF CatalogueTypeOK
<1>5. CatalogueKnows' /\ ServesWhenUp'
  BY <1>1, <1>2 DEF CatalogueKnows, ServesWhenUp, Moves
<1>6. ScansAgree' /\ CachesAgree'
  BY <1>2 DEF ScansAgree, CachesAgree, Scanning
<1>7. WritersAgree'
  <2> SUFFICES ASSUME NEW s \in Stores, s \notin overlap'
               PROVE  /\ AsAuthored(s)'
                      /\ \A p, q \in Requests : Writer(s, p)' /\ Writer(s, q)' => q = p
                      /\ \A q \in Requests : Editor(s, q)' => Merged(s, q)'
    BY DEF WritersAgree
  <2>1. s \notin overlap
    BY <1>2
  <2>2. AsAuthored(s)'
    BY <1>2, <2>1 DEF WritersAgree, AsAuthored
  <2>3. ASSUME NEW q \in Requests \ {r}
        PROVE  /\ Writer(s, q)' <=> Writer(s, q)
               /\ Editor(s, q)' <=> Editor(s, q)
               /\ Merged(s, q) => Merged(s, q)'
    BY <1>2 DEF Moves, Writer, Editor, Merged, CatalogueTypeOK
  <2>4. CASE s = j.store
    <3>1. ~Busy(s) /\ s \notin suspect
      BY <1>2, <2>4
    <3>2. \A q \in Requests \ {r} : ~Writer(s, q)'
      BY <2>3, <3>1 DEF Busy, Writer
    <3>3. Scanning(s) = {}
      BY <3>1 DEF Scanning, Busy, CatalogueKnows, CatalogueTypeOK
    <3>4. cache[s] = table[s]
      BY <3>1, <3>3 DEF CachesAgree
    <3>5. Editor(s, r)' => Merged(s, r)'
      BY <1>1, <1>2, <2>4, <3>4 DEF Editor, Merged, CatalogueTypeOK
    <3> QED
      BY <2>2, <3>2, <3>5 DEF Editor
  <2>5. CASE s # j.store
    <3>1. ~Writer(s, r)'
      BY <1>2, <2>5 DEF Writer
    <3> QED
      BY <2>1, <2>2, <2>3, <3>1 DEF WritersAgree, Editor
  <2> QED
    BY <2>4, <2>5
<1>8. SeedGoesOn'
  BY <1>2 DEF SeedGoesOn, Whole
<1> QED
  BY <1>4, <1>5, <1>6, <1>7, <1>8

\* The begin of a rescan: another one makes the store suspect.
LEMMA StartScanKept ==
  ASSUME TypeInv, ScansAgree, NEW r \in Requests, NEW s \in Stores,
         StartScan(r, s), scan[r] = None, UNCHANGED table
  PROVE  /\ scan' \in [Requests -> Scan \cup {None}]
         /\ suspect' \subseteq Stores
         /\ scan'[r] # None /\ scan'[r].store = s
         /\ \A q \in Requests \ {r} : scan'[q] = scan[q]
         /\ \A t \in Stores : Scanning(t) \subseteq Scanning(t)'
         /\ \A t \in Stores \ {s} : (t \in suspect' <=> t \in suspect) /\ Scanning(t)' = Scanning(t)
         /\ ScansAgree'
<1> USE DEF TypeInv, CatalogueTypes
<1>1. Unread(s) \in Scan /\ Unread(s) # None /\ Unread(s).store = s /\ Unread(s).left = Keys
  BY CatalogueAssumption DEF Unread, Scan, Empty
<1>2. /\ scan' = [scan EXCEPT ![r] = Unread(s)]
      /\ suspect' = IF Scanning(s) # {} THEN suspect \cup {s} ELSE suspect \ {s}
  BY DEF StartScan
<1>3. /\ scan' \in [Requests -> Scan \cup {None}]
      /\ suspect' \subseteq Stores
      /\ scan'[r] = Unread(s)
      /\ \A q \in Requests \ {r} : scan'[q] = scan[q]
  BY <1>1, <1>2 DEF CatalogueTypeOK
<1>4. \A t \in Stores : Scanning(t) \subseteq Scanning(t)'
  BY <1>3 DEF Scanning
<1>5. \A t \in Stores \ {s} : (t \in suspect' <=> t \in suspect) /\ Scanning(t)' = Scanning(t)
  BY <1>1, <1>2, <1>3 DEF Scanning
<1>6. ScansAgree'
  <2> SUFFICES ASSUME NEW q \in Requests, scan'[q] # None, scan'[q].store \notin suspect'
               PROVE  /\ \A p \in Scanning(scan[q].store)' : p = q
                      /\ \A k \in Keys \ scan'[q].left : scan'[q].items[k] = table'[scan'[q].store][k]
    BY DEF ScansAgree
  <2>1. CASE q = r
    <3>1. Scanning(s) = {}
      BY <1>1, <1>2, <1>3, <2>1
    <3> QED
      BY <1>1, <1>3, <2>1, <3>1 DEF Scanning
  <2>2. CASE q # r
    <3>1. scan'[q] = scan[q] /\ scan[q] # None /\ scan[q] \in Scan
      BY <1>3, <2>2 DEF CatalogueTypeOK
    <3>2. scan[q].store # s
      BY <1>2, <2>2, <3>1 DEF Scanning
    <3>3. scan[q].store \in Stores /\ scan[q].store \notin suspect
      BY <1>5, <3>1, <3>2 DEF Scan
    <3> QED
      BY <1>5, <3>1, <3>2, <3>3 DEF ScansAgree, Scanning
  <2> QED
    BY <2>1, <2>2
<1> QED
  BY <1>1, <1>3, <1>4, <1>5, <1>6

\* POST /api/admin/demos/rescan
LEMMA StartRescanKept ==
  ASSUME TypeInv, CatalogueInv, boot.phase = "up", NEW r \in Requests, NEW j, CatalogueJob(j),
         StartRescan(r, j)
  PROVE  CatalogueGoal
<1> USE DEF TypeInv, CatalogueTypes, CatalogueInv, CatalogueGoal, CataloguePlaces
<1>1. /\ j.op = "rescan" /\ StartScan(r, j.store)
      /\ UNCHANGED <<table, cache, live, draft, boot, overlap, author, dropped, unseeded>>
      /\ Moves(r, {"new"}, {"scan"}) /\ job'[r] = j
      /\ j.store \in Stores
  BY ServeMoves DEF StartRescan, CatalogueJob, Places
<1>2. scan[r] = None
  BY <1>1 DEF CatalogueTypeOK, Moves
<1>3. /\ scan' \in [Requests -> Scan \cup {None}]
      /\ suspect' \subseteq Stores
      /\ scan'[r] # None /\ scan'[r].store = j.store
      /\ \A q \in Requests \ {r} : scan'[q] = scan[q]
      /\ \A t \in Stores : Scanning(t) \subseteq Scanning(t)'
      /\ \A t \in Stores \ {j.store} : (t \in suspect' <=> t \in suspect) /\ Scanning(t)' = Scanning(t)
      /\ ScansAgree'
  BY <1>1, <1>2, StartScanKept
<1>4. CatalogueTypes'
  <2>1. \A q \in Requests : (at'[q] = "scan" <=> scan'[q] # None)
    BY <1>1, <1>3 DEF Moves, CatalogueTypeOK
  <2>2. \A q \in Requests : (at'[q] = "store" <=> draft'[q] # None)
    BY <1>1 DEF Moves, CatalogueTypeOK
  <2> QED
    BY <1>1, <1>3, <2>1, <2>2 DEF CatalogueTypeOK
<1>5. CatalogueKnows' /\ ServesWhenUp'
  BY <1>1, <1>3 DEF CatalogueKnows, ServesWhenUp, Moves
<1>6. CachesAgree'
  BY <1>1, <1>3 DEF CachesAgree, Scanning
<1>7. WritersAgree'
  <2>1. \A s \in Stores, q \in Requests :
          /\ Writer(s, q)' => Writer(s, q)
          /\ Editor(s, q)' => Editor(s, q) /\ (Merged(s, q) => Merged(s, q)')
    BY <1>1 DEF Moves, Writer, Editor, Merged
  <2> QED
    BY <1>1, <2>1 DEF WritersAgree, AsAuthored
<1>8. SeedGoesOn'
  BY <1>1 DEF SeedGoesOn, Whole
<1> QED
  BY <1>3, <1>4, <1>5, <1>6, <1>7, <1>8

\* A page of a rescan.
LEMMA ReadPageKept ==
  ASSUME TypeInv, CatalogueInv, NEW r \in Requests, ReadPage(r)
  PROVE  CatalogueGoal
<1> USE DEF TypeInv, CatalogueTypes, CatalogueInv, CatalogueGoal, CataloguePlaces
<1>1. PICK k \in scan[r].left : scan' = [scan EXCEPT ![r] = Collected(scan[r], k)]
  BY DEF ReadPage
<1>2. /\ scan[r] # None /\ scan[r] \in Scan
      /\ UNCHANGED <<at, job, table, cache, live, draft, boot, suspect, overlap, author, dropped,
                     unseeded>>
  BY DEF ReadPage, CatalogueTypeOK, requestVars
<1>3. /\ scan'[r] \in Scan /\ scan'[r] # None
      /\ scan'[r].store = scan[r].store
      /\ scan'[r].left = scan[r].left \ {k}
      /\ scan'[r].items = [scan[r].items EXCEPT ![k] = table[scan[r].store][k]]
      /\ \A q \in Requests \ {r} : scan'[q] = scan[q]
      /\ scan' \in [Requests -> Scan \cup {None}]
  <2>1. /\ scan'[r] = Collected(scan[r], k)
        /\ \A q \in Requests \ {r} : scan'[q] = scan[q]
        /\ scan' = [q \in Requests |-> scan'[q]]
    BY <1>1 DEF CatalogueTypeOK
  <2>2. table[scan[r].store][k] \in Item \cup {None}
    BY <1>1, <1>2 DEF Scan, CatalogueTypeOK
  <2>3. /\ scan'[r].store = scan[r].store
        /\ scan'[r].left = scan[r].left \ {k}
        /\ scan'[r].items = [scan[r].items EXCEPT ![k] = table[scan[r].store][k]]
    BY <1>2, <2>1 DEF Scan, Collected
  <2>4. scan'[r] \in Scan
    <3>1. [scan[r].items EXCEPT ![k] = table[scan[r].store][k]] \in [Keys -> Item \cup {None}]
      BY <1>2, <2>2 DEF Scan
    <3> QED
      BY <1>2, <2>1, <3>1 DEF Scan, Collected
  <2> QED
    BY <1>2, <2>1, <2>3, <2>4, CatalogueAssumption DEF CatalogueTypeOK
<1>4. CatalogueTypes'
  BY <1>2, <1>3 DEF CatalogueTypeOK
<1>5. CatalogueKnows' /\ ServesWhenUp'
  BY <1>2, <1>3 DEF CatalogueKnows, ServesWhenUp, CatalogueJob
<1>6. \A s \in Stores : Scanning(s)' = Scanning(s)
  BY <1>2, <1>3 DEF Scanning
<1>7. ScansAgree'
  <2> SUFFICES ASSUME NEW q \in Requests, scan'[q] # None, scan'[q].store \notin suspect'
               PROVE  /\ \A p \in Scanning(scan[q].store)' : p = q
                      /\ \A l \in Keys \ scan'[q].left : scan'[q].items[l] = table'[scan'[q].store][l]
    BY DEF ScansAgree
  <2>1. /\ scan[q] # None /\ scan[q] \in Scan
        /\ scan'[q].store = scan[q].store /\ scan[q].store \notin suspect
    BY <1>2, <1>3 DEF CatalogueTypeOK
  <2>2. /\ \A p \in Scanning(scan[q].store) : p = q
        /\ \A l \in Keys \ scan[q].left : scan[q].items[l] = table[scan[q].store][l]
    BY <2>1 DEF ScansAgree
  <2>3. \A p \in Scanning(scan[q].store)' : p = q
    BY <1>2, <1>3, <2>1, <2>2 DEF Scanning
  <2>4. \A l \in Keys \ scan'[q].left : scan'[q].items[l] = table'[scan'[q].store][l]
    <3>1. CASE q # r
      BY <1>2, <1>3, <2>2, <3>1
    <3>2. CASE q = r
      BY <1>1, <1>2, <1>3, <2>2, <3>2 DEF Scan
    <3> QED
      BY <3>1, <3>2
  <2> QED
    BY <2>3, <2>4
<1>8. CachesAgree'
  BY <1>2, <1>6 DEF CachesAgree
<1>9. WritersAgree'
  <2>1. \A s \in Stores, q \in Requests :
          /\ Writer(s, q)' => Writer(s, q)
          /\ Editor(s, q)' => Editor(s, q) /\ (Merged(s, q) => Merged(s, q)')
    BY <1>2 DEF Writer, Editor, Merged
  <2> QED
    BY <1>2, <2>1 DEF WritersAgree, AsAuthored
<1>10. SeedGoesOn'
  BY <1>2 DEF SeedGoesOn, Whole
<1> QED
  BY <1>4, <1>5, <1>7, <1>8, <1>9, <1>10

\* The end of a rescan.
LEMMA ScanReturnsKept ==
  ASSUME TypeInv, CatalogueInv, NEW r \in Requests, ScanReturns(r)
  PROVE  CatalogueGoal
<1> USE DEF TypeInv, CatalogueTypes, CatalogueInv, CatalogueGoal, CataloguePlaces
<1> DEFINE s == scan[r].store
<1>1. /\ at[r] = "scan" /\ scan[r] # None /\ scan[r] \in Scan /\ s \in Stores
      /\ boot.phase = "up"
      /\ scan' = [scan EXCEPT ![r] = None]
      /\ UNCHANGED <<table, draft, boot, overlap, author, dropped, unseeded>>
  BY DEF ScanReturns, CatalogueTypeOK, ServesWhenUp, Scan
<1>2. Moves(r, {"scan"}, {"log", "done"})
  BY SucceedMoves, FinishMoves DEF ScanReturns, Moves
<1>3. \/ scan[r].left = {} /\ cache' = [cache EXCEPT ![s] = scan[r].items] /\ suspect' = suspect
      \/ cache' = cache /\ suspect' = suspect \cup {s}
  BY DEF ScanReturns, Rescanned, RescanFailed
<1>4. live' \in BOOLEAN
  BY DEF ScanReturns, Rescanned, RescanFailed, CatalogueTypeOK
<1>5. CatalogueTypes'
  <2>1. \A q \in Requests : (at'[q] = "scan" <=> scan'[q] # None)
    BY <1>1, <1>2 DEF Moves, CatalogueTypeOK
  <2>2. \A q \in Requests : (at'[q] = "store" <=> draft'[q] # None)
    BY <1>1, <1>2 DEF Moves, CatalogueTypeOK
  <2>3. scan[r].items \in [Keys -> Item \cup {None}]
    BY <1>1 DEF Scan
  <2> QED
    BY <1>1, <1>3, <1>4, <2>1, <2>2, <2>3 DEF CatalogueTypeOK
<1>6. CatalogueKnows' /\ ServesWhenUp'
  BY <1>1, <1>2 DEF CatalogueKnows, ServesWhenUp, Moves, CatalogueTypeOK
<1>7. \A t \in Stores : Scanning(t)' = Scanning(t) \ {r}
  BY <1>1 DEF Scanning, CatalogueTypeOK
<1>8. ScansAgree'
  <2>1. \A q \in Requests : scan'[q] # None => q # r /\ scan'[q] = scan[q] /\ scan[q] # None
    BY <1>1 DEF CatalogueTypeOK
  <2>2. suspect \subseteq suspect'
    BY <1>3
  <2> QED
    BY <1>1, <2>1, <2>2 DEF ScansAgree, Scanning
<1>9. CachesAgree'
  <2> SUFFICES ASSUME NEW t \in Stores, Scanning(t)' = {}, t \notin suspect'
               PROVE  cache'[t] = table[t]
    BY <1>1 DEF CachesAgree
  <2>1. t \notin suspect
    BY <1>3
  <2>2. CASE t = s
    <3>1. /\ scan[r].left = {} /\ cache'[t] = scan[r].items
      BY <1>1, <1>3, <2>2 DEF CatalogueTypeOK
    <3>2. \A k \in Keys : scan[r].items[k] = table[t][k]
      BY <1>1, <2>1, <2>2, <3>1 DEF ScansAgree
    <3>3. /\ scan[r].items \in [Keys -> Item \cup {None}]
          /\ table[t] \in [Keys -> Item \cup {None}]
      BY <1>1 DEF Scan, CatalogueTypeOK
    <3>4. scan[r].items = table[t]
      BY <3>2, <3>3
    <3> QED
      BY <3>1, <3>4
  <2>3. CASE t # s
    <3>1. Scanning(t) = {}
      BY <1>1, <1>7, <2>3 DEF Scanning
    <3> QED
      BY <1>1, <1>3, <2>1, <2>3, <3>1 DEF CachesAgree, CatalogueTypeOK
  <2> QED
    BY <2>2, <2>3
<1>10. WritersAgree'
  <2>1. \A t \in Stores, q \in Requests :
          /\ Writer(t, q)' => Writer(t, q)
          /\ Editor(t, q)' => Editor(t, q) /\ (Merged(t, q) => Merged(t, q)')
    BY <1>1, <1>2 DEF Moves, Writer, Editor, Merged
  <2> QED
    BY <1>1, <2>1 DEF WritersAgree, AsAuthored
<1>11. SeedGoesOn'
  BY <1>1 DEF SeedGoesOn, Whole
<1> QED
  BY <1>5, <1>6, <1>8, <1>9, <1>10, <1>11

\* What becomes of the scans and the caches when a handler has written to the
\* table, or tried to: it goes on to a rescan, or the store is suspect.
LEMMA WrittenKept ==
  ASSUME TypeInv, CatalogueInv, NEW r \in Requests, at[r] \in {"store", "drop"},
         boot.phase = "up", UNCHANGED <<cache, live, boot>>,
         Stored(r, job[r].store) \/ Failed(r, job[r].store),
         \A t \in Stores \ {job[r].store} : table'[t] = table[t]
  PROVE  /\ scan' \in [Requests -> Scan \cup {None}]
         /\ suspect' \subseteq Stores
         /\ Moves(r, {"store", "drop"}, {"scan", "done"})
         /\ \A q \in Requests : (at'[q] = "scan" <=> scan'[q] # None)
         /\ CatalogueKnows'
         /\ ScansAgree'
         /\ CachesAgree'
<1> USE DEF TypeInv, CatalogueTypes, CatalogueInv, CataloguePlaces
<1>1. PICK s \in Stores : s = job[r].store
  BY DEF CatalogueKnows, CatalogueJob
<1>2. CatalogueJob(job[r]) /\ job[r].op \in {"edit", "add", "drop"}
  BY DEF CatalogueKnows, CatalogueJob
<1>3. scan[r] = None
  BY DEF CatalogueTypeOK
<1>4. CASE Stored(r, s)
  <2>1. /\ Moves(r, {"store", "drop"}, {"scan"}) /\ job' = job /\ StartScan(r, s)
    BY <1>4, GotoMoves DEF Stored, Moves, Places
  <2>2. /\ scan' \in [Requests -> Scan \cup {None}]
        /\ suspect' = IF Scanning(s) # {} THEN suspect \cup {s} ELSE suspect \ {s}
        /\ scan'[r] = Unread(s)
        /\ \A q \in Requests \ {r} : scan'[q] = scan[q]
    BY <1>1, <1>3, <2>1, CatalogueAssumption DEF StartScan, CatalogueTypeOK, Unread, Scan, Empty
  <2>3. Unread(s) # None /\ Unread(s).store = s /\ Unread(s).left = Keys
    BY <1>1, CatalogueAssumption DEF Unread, Scan, Empty
  <2>4. \A q \in Requests : (at'[q] = "scan" <=> scan'[q] # None)
    BY <2>1, <2>2, <2>3 DEF Moves, CatalogueTypeOK
  <2>5. CatalogueKnows'
    BY <1>1, <1>2, <2>1, <2>2, <2>3 DEF CatalogueKnows, Moves
  <2>6. ScansAgree'
    <3> SUFFICES ASSUME NEW q \in Requests, scan'[q] # None, scan'[q].store \notin suspect'
                 PROVE  /\ \A p \in Scanning(scan[q].store)' : p = q
                        /\ \A k \in Keys \ scan'[q].left : scan'[q].items[k] = table'[scan'[q].store][k]
      BY DEF ScansAgree
    <3>1. CASE q = r
      BY <2>2, <2>3, <3>1 DEF Scanning
    <3>2. CASE q # r
      <4>1. scan'[q] = scan[q] /\ scan[q] # None /\ scan[q] \in Scan
        BY <2>2, <3>2 DEF CatalogueTypeOK
      <4>2. scan[q].store # s /\ scan[q].store \in Stores /\ scan[q].store \notin suspect
        BY <2>2, <3>2, <4>1 DEF Scanning, Scan
      <4> QED
        BY <1>1, <2>2, <2>3, <4>1, <4>2 DEF ScansAgree, Scanning
    <3> QED
      BY <3>1, <3>2
  <2>7. CachesAgree'
    <3>1. Scanning(s)' # {}
      BY <2>2, <2>3 DEF Scanning
    <3>2. \A t \in Stores \ {s} : Scanning(t)' = Scanning(t) /\ (t \in suspect' <=> t \in suspect)
      BY <1>3, <2>2, <2>3 DEF Scanning
    <3> QED
      BY <1>1, <3>1, <3>2 DEF CachesAgree
  <2> QED
    BY <1>1, <2>1, <2>2, <2>4, <2>5, <2>6, <2>7 DEF Moves
<1>5. CASE Failed(r, s)
  <2>1. /\ Moves(r, {"store", "drop"}, {"done"}) /\ scan' = scan /\ suspect' = suspect \cup {s}
    BY <1>5, FinishMoves DEF Failed, Moves
  <2>2. \A q \in Requests : (at'[q] = "scan" <=> scan'[q] # None)
    BY <1>3, <2>1 DEF Moves, CatalogueTypeOK
  <2>3. CatalogueKnows'
    BY <2>1 DEF CatalogueKnows, Moves
  <2>4. ScansAgree'
    BY <1>1, <2>1 DEF ScansAgree, Scanning, Scan, CatalogueTypeOK
  <2>5. CachesAgree'
    BY <1>1, <2>1 DEF CachesAgree, Scanning
  <2> QED
    BY <1>1, <2>1, <2>2, <2>3, <2>4, <2>5 DEF Moves, CatalogueTypeOK
<1> QED
  BY <1>1, <1>4, <1>5

\* put: what is stored is the draft, whether the call returns or not.
LEMMA StoreItemKept ==
  ASSUME TypeInv, CatalogueInv, NEW r \in Requests, StoreItem(r)
  PROVE  CatalogueGoal
<1> USE DEF TypeInv, CatalogueTypes, CatalogueInv, CatalogueGoal, CataloguePlaces
<1>1. /\ at[r] = "store" /\ boot.phase = "up"
      /\ draft[r] \in Item /\ draft[r] # None
      /\ job[r].op \in {"edit", "add"} /\ CatalogueJob(job[r])
      /\ draft' = [draft EXCEPT ![r] = None]
      /\ UNCHANGED <<cache, live, boot, overlap, dropped, unseeded>>
      /\ Stored(r, job[r].store) \/ Failed(r, job[r].store)
  BY DEF StoreItem, CatalogueTypeOK, ServesWhenUp, CatalogueKnows
<1>2. PICK s \in Stores, k \in Keys : s = job[r].store /\ k = job[r].key
  BY <1>1 DEF CatalogueJob
<1>3. \/ /\ table' = [table EXCEPT ![s][k] = draft[r]]
         /\ author' = IF job[r].op = "edit" /\ table[s][k] # None
                        THEN [author EXCEPT ![s][k][job[r].field] = r]
                        ELSE [author EXCEPT ![s][k] = draft[r]]
      \/ UNCHANGED <<table, author>>
  BY <1>2 DEF StoreItem
<1>4. /\ table' \in [Stores -> [Keys -> Item \cup {None}]]
      /\ \A t \in Stores \ {s} : table'[t] = table[t]
      /\ \A l \in Keys \ {k} : table'[s][l] = table[s][l]
      /\ table'[s][k] \in {table[s][k], draft[r]}
      /\ \A t \in Stores, l \in Keys : table'[t][l] = table[t][l] \/ table'[t][l] # None
  <2>1. CASE table' = [table EXCEPT ![s][k] = draft[r]]
    <3>1. table' = [table EXCEPT ![s] = [table[s] EXCEPT ![k] = draft[r]]]
      BY <2>1
    <3>2. [table[s] EXCEPT ![k] = draft[r]] \in [Keys -> Item \cup {None}]
      BY <1>1 DEF CatalogueTypeOK
    <3> QED
      BY <1>1, <3>1, <3>2 DEF CatalogueTypeOK
  <2>2. CASE table' = table
    BY <2>2 DEF CatalogueTypeOK
  <2> QED
    BY <1>3, <2>1, <2>2
<1>5. /\ scan' \in [Requests -> Scan \cup {None}]
      /\ suspect' \subseteq Stores
      /\ Moves(r, {"store", "drop"}, {"scan", "done"})
      /\ \A q \in Requests : (at'[q] = "scan" <=> scan'[q] # None)
      /\ CatalogueKnows' /\ ScansAgree' /\ CachesAgree'
  BY <1>1, <1>2, <1>4, WrittenKept
<1>6. /\ author' \in [Stores -> [Keys -> Item]]
      /\ \A t \in Stores \ {s} : author'[t] = author[t]
      /\ \A l \in Keys \ {k} : author'[s][l] = author[s][l]
      /\ \/ author'[s][k] = draft[r] /\ table'[s][k] = draft[r]
         \/ /\ author'[s][k] = [author[s][k] EXCEPT ![job[r].field] = r]
            /\ table'[s][k] = draft[r]
            /\ job[r].op = "edit" /\ table[s][k] # None
         \/ author' = author /\ table' = table
  <2>1. CASE /\ table' = [table EXCEPT ![s][k] = draft[r]]
             /\ author' = [author EXCEPT ![s][k] = draft[r]]
    BY <1>1, <2>1 DEF CatalogueTypeOK
  <2>2. CASE /\ table' = [table EXCEPT ![s][k] = draft[r]]
             /\ job[r].op = "edit" /\ table[s][k] # None
             /\ author' = [author EXCEPT ![s][k][job[r].field] = r]
    <3>1. [author[s][k] EXCEPT ![job[r].field] = r] \in Item
      BY DEF Item
    <3>2. author' = [author EXCEPT ![s] =
                       [author[s] EXCEPT ![k] = [author[s][k] EXCEPT ![job[r].field] = r]]]
      BY <2>2
    <3> QED
      BY <2>2, <3>1, <3>2 DEF CatalogueTypeOK
  <2>3. CASE UNCHANGED <<table, author>>
    BY <2>3
  <2> QED
    BY <1>3, <2>1, <2>2, <2>3
<1>7. CatalogueTypes'
  <2>1. \A q \in Requests : (at'[q] = "store" <=> draft'[q] # None)
    BY <1>1, <1>5 DEF Moves, CatalogueTypeOK
  <2> QED
    BY <1>1, <1>4, <1>5, <1>6, <2>1 DEF CatalogueTypeOK
<1>8. ServesWhenUp'
  BY <1>1 DEF ServesWhenUp
<1>9. WritersAgree'
  <2> SUFFICES ASSUME NEW t \in Stores, t \notin overlap
               PROVE  /\ AsAuthored(t)'
                      /\ \A p, q \in Requests : Writer(t, p)' /\ Writer(t, q)' => q = p
                      /\ \A q \in Requests : Editor(t, q)' => Merged(t, q)'
    BY <1>1 DEF WritersAgree
  <2>1. \A q \in Requests : Writer(t, q)' => q # r /\ Writer(t, q)
    BY <1>5 DEF Moves, Writer
  <2>2. CASE t = s
    <3>1. Writer(s, r)
      BY <1>1, <1>2 DEF Writer
    <3>2. \A q \in Requests : ~Writer(t, q)'
      BY <2>1, <2>2, <3>1 DEF WritersAgree
    <3>3. job[r].op = "edit" => draft[r] = [table[s][k] EXCEPT ![job[r].field] = r]
      BY <1>1, <1>2, <2>2, <3>1 DEF WritersAgree, Editor, Merged
    <3>4. table'[s][k] # None => table'[s][k] = author'[s][k]
      <4>1. table[s][k] # None => table[s][k] = author[s][k]
        BY <2>2 DEF WritersAgree, AsAuthored
      <4> QED
        BY <1>6, <3>3, <4>1
    <3>5. AsAuthored(t)'
      BY <1>4, <1>6, <2>2, <3>4 DEF WritersAgree, AsAuthored
    <3> QED
      BY <3>2, <3>5 DEF Editor
  <2>3. CASE t # s
    <3>1. \A q \in Requests : Editor(t, q)' => Editor(t, q) /\ (Merged(t, q) => Merged(t, q)')
      BY <1>1, <1>4, <1>5, <2>1, <2>3 DEF Editor, Merged, Writer, Moves, CatalogueTypeOK
    <3> QED
      BY <1>4, <1>6, <2>1, <2>3, <3>1 DEF WritersAgree, AsAuthored
  <2> QED
    BY <2>2, <2>3
<1>10. SeedGoesOn'
  <2>1. Whole => Whole'
    BY <1>1, <1>4 DEF Whole, Stores
  <2> QED
    BY <1>1, <2>1 DEF SeedGoesOn
<1> QED
  BY <1>5, <1>7, <1>8, <1>9, <1>10

\* delete: what is gone was dropped.
LEMMA DropItemKept ==
  ASSUME TypeInv, CatalogueInv, NEW r \in Requests, DropItem(r)
  PROVE  CatalogueGoal
<1> USE DEF TypeInv, CatalogueTypes, CatalogueInv, CatalogueGoal, CataloguePlaces
<1>1. /\ at[r] = "drop" /\ boot.phase = "up"
      /\ job[r].op = "drop" /\ CatalogueJob(job[r])
      /\ UNCHANGED <<cache, live, draft, boot, overlap, author, unseeded>>
      /\ Stored(r, job[r].store) \/ Failed(r, job[r].store)
  BY DEF DropItem, ServesWhenUp, CatalogueKnows
<1>2. PICK s \in Stores, k \in Keys : s = job[r].store /\ k = job[r].key
  BY <1>1 DEF CatalogueJob
<1>3. \/ table' = [table EXCEPT ![s][k] = None] /\ dropped' = dropped \cup {k}
      \/ UNCHANGED <<table, dropped>>
  BY <1>2 DEF DropItem
<1>4. /\ table' \in [Stores -> [Keys -> Item \cup {None}]]
      /\ \A t \in Stores \ {s} : table'[t] = table[t]
      /\ \A t \in Stores, l \in Keys :
           table'[t][l] = table[t][l] \/ (table'[t][l] = None /\ l \in dropped')
      /\ dropped \subseteq dropped' /\ dropped' \subseteq Keys
  <2>1. CASE table' = [table EXCEPT ![s][k] = None] /\ dropped' = dropped \cup {k}
    <3>1. table' = [table EXCEPT ![s] = [table[s] EXCEPT ![k] = None]]
      BY <2>1
    <3>2. [table[s] EXCEPT ![k] = None] \in [Keys -> Item \cup {None}]
      BY DEF CatalogueTypeOK
    <3> QED
      BY <2>1, <3>1, <3>2 DEF CatalogueTypeOK
  <2>2. CASE UNCHANGED <<table, dropped>>
    BY <2>2 DEF CatalogueTypeOK
  <2> QED
    BY <1>3, <2>1, <2>2
<1>5. /\ scan' \in [Requests -> Scan \cup {None}]
      /\ suspect' \subseteq Stores
      /\ Moves(r, {"store", "drop"}, {"scan", "done"})
      /\ \A q \in Requests : (at'[q] = "scan" <=> scan'[q] # None)
      /\ CatalogueKnows' /\ ScansAgree' /\ CachesAgree'
  BY <1>1, <1>2, <1>4, WrittenKept
<1>6. CatalogueTypes'
  <2>1. \A q \in Requests : (at'[q] = "store" <=> draft'[q] # None)
    BY <1>1, <1>5 DEF Moves, CatalogueTypeOK
  <2> QED
    BY <1>1, <1>4, <1>5, <2>1 DEF CatalogueTypeOK
<1>7. ServesWhenUp'
  BY <1>1 DEF ServesWhenUp
<1>8. WritersAgree'
  <2> SUFFICES ASSUME NEW t \in Stores, t \notin overlap
               PROVE  /\ AsAuthored(t)'
                      /\ \A p, q \in Requests : Writer(t, p)' /\ Writer(t, q)' => q = p
                      /\ \A q \in Requests : Editor(t, q)' => Merged(t, q)'
    BY <1>1 DEF WritersAgree
  <2>1. \A q \in Requests : Writer(t, q)' => q # r /\ Writer(t, q)
    BY <1>5 DEF Moves, Writer
  <2>2. AsAuthored(t)'
    BY <1>1, <1>4 DEF WritersAgree, AsAuthored
  <2>3. CASE t = s
    <3>1. Writer(s, r)
      BY <1>1, <1>2 DEF Writer
    <3>2. \A q \in Requests : ~Writer(t, q)'
      BY <2>1, <2>3, <3>1 DEF WritersAgree
    <3> QED
      BY <2>2, <3>2 DEF Editor
  <2>4. CASE t # s
    <3>1. \A q \in Requests : Editor(t, q)' => Editor(t, q) /\ (Merged(t, q) => Merged(t, q)')
      BY <1>1, <1>4, <1>5, <2>1, <2>4 DEF Editor, Merged, Writer, Moves
    <3> QED
      BY <2>1, <2>2, <3>1 DEF WritersAgree
  <2> QED
    BY <2>3, <2>4
<1>9. SeedGoesOn'
  <2>1. Whole => Whole'
    BY <1>1, <1>4 DEF Whole, Stores
  <2> QED
    BY <1>1, <2>1 DEF SeedGoesOn
<1> QED
  BY <1>5, <1>6, <1>7, <1>8, <1>9

\* lifespan does not serve yet: there are no scans and no writers.
LEMMA NobodyServed ==
  ASSUME TypeInv, ServesWhenUp, boot.phase # "up"
  PROVE  /\ \A r \in Requests : scan[r] = None /\ draft[r] = None /\ at[r] \in {"new", "done"}
         /\ \A s \in Stores : Scanning(s) = {}
BY DEF TypeInv, CatalogueTypes, CatalogueTypeOK, ServesWhenUp, Scanning

\* Where no request is served, all that is said of requests is true.
LEMMA NobodyServedKept ==
  ASSUME TypeInv, \A r \in Requests : at'[r] \in {"new", "done"} /\ scan'[r] = None
  PROVE  /\ CatalogueKnows' /\ ServesWhenUp' /\ ScansAgree'
         /\ (\A s \in Stores \ overlap' : AsAuthored(s)') => WritersAgree'
BY DEF CatalogueKnows, CataloguePlaces, ServesWhenUp, ScansAgree, WritersAgree, Writer, Editor

\* A scan of lifespan.
LEMMA BootScanKept ==
  ASSUME TypeInv, CatalogueInv, BootScan
  PROVE  CatalogueGoal
<1> USE DEF TypeInv, CatalogueTypes, CatalogueInv, CatalogueGoal
<1> DEFINE s == IF boot.phase = "demos" THEN "demos" ELSE "voices"
<1>1. /\ boot.phase \in {"demos", "voices", "reseed"}
      /\ UNCHANGED <<at, job, table, draft, scan, overlap, author, dropped>>
      /\ unseeded' = (unseeded \/ (boot.phase = "voices" /\ "voices" \in suspect'))
  BY DEF BootScan, requestVars
<1>2. \/ /\ cache' = [cache EXCEPT ![s] = table[s]]
         /\ live' = (live \/ s = "voices") /\ suspect' = suspect
      \/ /\ suspect' = suspect \cup {s}
         /\ live' \in {live, live /\ s # "voices"} /\ cache' = cache
  BY DEF BootScan, Rescanned, RescanFailed
<1>3. \/ boot.phase = "demos" /\ boot' = [phase |-> "voices", left |-> {}]
      \/ boot.phase = "voices" /\ SeedIsDue /\ boot' = [phase |-> "seed", left |-> Keys]
      \/ /\ boot.phase # "demos" /\ ~(boot.phase = "voices" /\ SeedIsDue)
         /\ boot' = [phase |-> "up", left |-> {}]
  BY <1>1 DEF BootScan, BootGoes
<1>4. s \in Stores /\ cache' \in [Stores -> [Keys -> Item \cup {None}]] /\ live' \in BOOLEAN
      /\ suspect' \subseteq Stores
  BY <1>2 DEF CatalogueTypeOK, Stores
<1>5. CatalogueTypes'
  BY <1>1, <1>3, <1>4 DEF CatalogueTypeOK
<1>6. /\ \A r \in Requests : scan[r] = None /\ at[r] \in {"new", "done"}
      /\ \A t \in Stores : Scanning(t) = {}
  BY <1>1, NobodyServed
<1>7. CatalogueKnows' /\ ServesWhenUp' /\ ScansAgree' /\ WritersAgree'
  <2>1. \A t \in Stores \ overlap' : AsAuthored(t)'
    BY <1>1 DEF WritersAgree, AsAuthored
  <2> QED
    BY <1>1, <1>6, <2>1, NobodyServedKept
<1>8. s \in suspect' \/ cache'[s] = table[s]
  BY <1>2, <1>4 DEF CatalogueTypeOK
<1>9. \A t \in Stores \ {s} :
        cache'[t] = cache[t] /\ (t \in suspect' => t \in suspect) /\ (t \in suspect => t \in suspect')
  BY <1>2 DEF CatalogueTypeOK
<1>10. CachesAgree'
  <2> SUFFICES ASSUME NEW t \in Stores, t \notin suspect',
                      IF t = "demos" THEN boot'.phase # "demos" ELSE boot'.phase = "up"
               PROVE  cache'[t] = table[t]
    BY <1>1 DEF CachesAgree
  <2>1. CASE t = s
    BY <1>8, <2>1
  <2>2. CASE t # s
    BY <1>1, <1>3, <1>6, <1>9, <2>2 DEF CachesAgree, Stores
  <2> QED
    BY <2>1, <2>2
<1>11. SeedGoesOn'
  <2>1. CASE boot.phase = "demos"
    <3>1. ~live /\ s = "demos"
      BY <2>1 DEF SeedGoesOn
    <3>2. ~live'
      BY <1>2, <3>1
    <3>3. boot'.phase = "voices" /\ unseeded' = unseeded
      BY <1>1, <1>3, <2>1
    <3>4. Whole' <=> Whole
      BY <1>1 DEF Whole
    <3> QED
      BY <1>1, <2>1, <3>2, <3>3, <3>4 DEF SeedGoesOn
  <2>2. CASE boot.phase = "voices" /\ SeedIsDue
    <3>1. cache' = [cache EXCEPT !["voices"] = table["voices"]] /\ cache'["voices"] = Empty
      BY <1>2, <2>2 DEF SeedGoesOn, SeedIsDue
    <3>2. table["voices"] = Empty
      BY <3>1 DEF CatalogueTypeOK, Stores
    <3> QED
      BY <1>1, <1>3, <2>2, <3>2 DEF SeedGoesOn, Empty
  <2>3. CASE boot.phase = "voices" /\ ~SeedIsDue
    <3>1. ASSUME ~unseeded'
          PROVE  Whole
      <4>1. ~unseeded /\ "voices" \notin suspect' /\ s = "voices"
        BY <1>1, <2>3, <3>1
      <4>2. live' /\ cache'["voices"] = table["voices"]
        BY <1>2, <1>4, <4>1 DEF CatalogueTypeOK
      <4> QED
        BY <2>3, <4>1, <4>2 DEF SeedIsDue, SeedGoesOn
    <3> QED
      BY <1>1, <1>3, <2>3, <3>1 DEF SeedGoesOn, Whole
  <2>4. CASE boot.phase = "reseed"
    BY <1>1, <1>3, <2>4 DEF SeedGoesOn, Whole
  <2> QED
    BY <1>1, <2>1, <2>2, <2>3, <2>4
<1> QED
  BY <1>5, <1>7, <1>10, <1>11

\* A put of the seed.
LEMMA SeedKept ==
  ASSUME TypeInv, CatalogueInv, Seed
  PROVE  CatalogueGoal
<1> USE DEF TypeInv, CatalogueTypes, CatalogueInv, CatalogueGoal
<1>1. /\ boot.phase = "seed"
      /\ UNCHANGED <<at, job, cache, live, draft, scan, overlap, dropped>>
  BY DEF Seed, requestVars
<1>2. PICK k \in boot.left :
        /\ \/ /\ table' = [table EXCEPT !["voices"][k] = BuiltIn]
              /\ author' = [author EXCEPT !["voices"][k] = BuiltIn]
           \/ UNCHANGED <<table, author>>
        /\ \/ /\ table' = [table EXCEPT !["voices"][k] = BuiltIn]
              /\ \/ boot.left = {k} /\ boot' = [phase |-> "reseed", left |-> {}]
                 \/ boot.left # {k} /\ boot' = [phase |-> "seed", left |-> boot.left \ {k}]
              /\ UNCHANGED <<suspect, unseeded>>
           \/ /\ boot' = [phase |-> "up", left |-> {}]
              /\ suspect' = suspect \cup {"voices"}
              /\ unseeded' = TRUE
  BY DEF Seed, BootGoes
<1>3. k \in Keys /\ BuiltIn \in Item /\ BuiltIn # None /\ "voices" \in Stores
      /\ boot.left \subseteq Keys
  <2>1. BuiltIn \in Item
    BY DEF BuiltIn, Item
  <2> QED
    BY <2>1, CatalogueAssumption DEF CatalogueTypeOK, Stores
<1>4. /\ table' \in [Stores -> [Keys -> Item \cup {None}]]
      /\ author' \in [Stores -> [Keys -> Item]]
      /\ table'["demos"] = table["demos"] /\ author'["demos"] = author["demos"]
      /\ \A l \in Keys \ {k} : /\ table'["voices"][l] = table["voices"][l]
                               /\ author'["voices"][l] = author["voices"][l]
      /\ \/ table'["voices"][k] = BuiltIn /\ author'["voices"][k] = BuiltIn
         \/ table' = table /\ author' = author
  <2>1. CASE /\ table' = [table EXCEPT !["voices"][k] = BuiltIn]
             /\ author' = [author EXCEPT !["voices"][k] = BuiltIn]
    <3>1. /\ table' = [table EXCEPT !["voices"] = [table["voices"] EXCEPT ![k] = BuiltIn]]
          /\ author' = [author EXCEPT !["voices"] = [author["voices"] EXCEPT ![k] = BuiltIn]]
      BY <2>1
    <3>2. /\ [table["voices"] EXCEPT ![k] = BuiltIn] \in [Keys -> Item \cup {None}]
          /\ [author["voices"] EXCEPT ![k] = BuiltIn] \in [Keys -> Item]
      BY <1>3 DEF CatalogueTypeOK
    <3> QED
      BY <1>3, <3>1, <3>2 DEF CatalogueTypeOK, Stores
  <2>2. CASE UNCHANGED <<table, author>>
    BY <2>2 DEF CatalogueTypeOK
  <2> QED
    BY <1>2, <2>1, <2>2
<1>5. /\ \A r \in Requests : scan[r] = None /\ at[r] \in {"new", "done"}
      /\ \A t \in Stores : Scanning(t) = {}
  BY <1>1, NobodyServed
<1>6. CatalogueTypes'
  <2>1. boot' \in [phase : {"demos", "voices", "seed", "reseed", "up"}, left : SUBSET Keys]
    BY <1>2, <1>3
  <2>2. suspect' \subseteq Stores /\ unseeded' \in BOOLEAN
    BY <1>2, <1>3
  <2> QED
    BY <1>1, <1>4, <2>1, <2>2 DEF CatalogueTypeOK
<1>7. CatalogueKnows' /\ ServesWhenUp' /\ ScansAgree' /\ WritersAgree'
  <2>1. \A t \in Stores \ overlap' : AsAuthored(t)'
    BY <1>1, <1>4 DEF WritersAgree, AsAuthored, Stores
  <2> QED
    BY <1>1, <1>5, <2>1, NobodyServedKept
<1>8. CachesAgree'
  <2>1. cache["demos"] = table["demos"] \/ "demos" \in suspect
    BY <1>1, <1>5 DEF CachesAgree, Stores
  <2>2. boot'.phase = "up" => "voices" \in suspect'
    BY <1>2
  <2>3. suspect \subseteq suspect'
    BY <1>2
  <2> QED
    BY <1>1, <1>4, <2>1, <2>2, <2>3 DEF CachesAgree, Stores
<1>9. SeedGoesOn'
  <2>1. \A l \in Keys : (table["voices"][l] = None <=> l \in boot.left)
    BY <1>1 DEF SeedGoesOn
  <2>2. CASE boot' = [phase |-> "up", left |-> {}] /\ unseeded'
    BY <2>2 DEF SeedGoesOn
  <2>3. CASE /\ table' = [table EXCEPT !["voices"][k] = BuiltIn]
             /\ \/ boot.left = {k} /\ boot' = [phase |-> "reseed", left |-> {}]
                \/ boot.left # {k} /\ boot' = [phase |-> "seed", left |-> boot.left \ {k}]
    <3>1. table'["voices"][k] # None
      BY <1>3, <2>3 DEF CatalogueTypeOK
    <3>2. \A l \in Keys : (table'["voices"][l] = None <=> l \in boot.left \ {k})
      BY <1>4, <2>1, <3>1
    <3> QED
      BY <2>3, <3>2 DEF SeedGoesOn, Whole
  <2> QED
    BY <1>2, <2>2, <2>3
<1> QED
  BY <1>6, <1>7, <1>8, <1>9

\* A restart leaves the tables.
LEMMA RestartKept ==
  ASSUME TypeInv, CatalogueInv, Restart
  PROVE  CatalogueGoal
<1> USE DEF TypeInv, CatalogueTypes, CatalogueInv, CatalogueGoal
<1>1. /\ \A r \in Requests : at'[r] \in {"new", "done"} /\ scan'[r] = None /\ draft'[r] = None
      /\ cache' = [s \in Stores |-> Empty] /\ live' = FALSE
      /\ draft' = [r \in Requests |-> None] /\ scan' = [r \in Requests |-> None]
      /\ boot' = [phase |-> "demos", left |-> {}]
      /\ suspect' = {} /\ unseeded' = (unseeded \/ boot.phase = "seed")
      /\ UNCHANGED <<table, overlap, author, dropped>>
  BY DEF Restart, CatalogueRestart
<1>2. CatalogueTypes'
  BY <1>1 DEF CatalogueTypeOK, Empty
<1>3. CatalogueKnows' /\ ServesWhenUp' /\ ScansAgree' /\ WritersAgree'
  <2>1. \A t \in Stores \ overlap' : AsAuthored(t)'
    BY <1>1 DEF WritersAgree, AsAuthored
  <2> QED
    BY <1>1, <2>1, NobodyServedKept
<1>4. CachesAgree'
  BY <1>1 DEF CachesAgree, Stores
<1>5. SeedGoesOn'
  BY <1>1 DEF SeedGoesOn, Whole, CatalogueTypeOK
<1> QED
  BY <1>2, <1>3, <1>4, <1>5

\* Every step keeps what is said of the catalogue.
LEMMA CatalogueKept ==
  ASSUME TypeInv, CatalogueInv, ServerAssumption, [Next]_vars
  PROVE  CatalogueGoal
<1>1. ASSUME NEW r \in Requests, NEW j \in agenda.jobs, Start(r, j)
      PROVE  CatalogueGoal
  <2>1. CatalogueJob(j) /\ boot.phase = "up"
    BY <1>1 DEF ServerAssumption, TypeInv, Start
  <2>2. CASE UserStart(r, j) /\ UNCHANGED catalogueVars
    BY <2>1, <2>2, UserMoves, CatalogueUntouched DEF Moves, Places, Writes, CataloguePlaces
  <2>3. CASE CatalogueStart(r, j)
    BY <2>1, <2>3, BeginKept, StartRescanKept DEF CatalogueStart
  <2>4. CASE /\ UpdateConfig(r, j) \/ McpStart(r, j) \/ StartQuery(r, j)
             /\ UNCHANGED catalogueVars
    BY <2>1, <2>4, OtherMoves, CatalogueUntouched DEF Moves, Places, Writes, CataloguePlaces
  <2> QED
    BY <1>1, <2>2, <2>3, <2>4 DEF Start
<1>2. ASSUME NEW r \in Requests, Step(r)
      PROVE  CatalogueGoal
  <2>1. CASE CatalogueStep(r)
    BY <2>1, ReadPageKept, ScanReturnsKept, StoreItemKept, DropItemKept DEF CatalogueStep
  <2>2. CASE /\ UserStep(r) \/ LogRow(r) \/ ReadDay(r) \/ QueryEnds(r)
             /\ UNCHANGED catalogueVars
    <3>1. Moves(r, UserPlaces \cup {"log", "read"}, UserPlaces \cup {"log", "read", "done"})
      BY <2>2, UserMoves, OtherMoves DEF Moves
    <3>2. boot.phase = "up"
      BY <3>1 DEF CatalogueInv, ServesWhenUp, Moves, UserPlaces
    <3>3. Moves(r, Places \ CataloguePlaces, Places \ CataloguePlaces)
      BY <3>1 DEF Moves, UserPlaces, Places, Writes, CataloguePlaces
    <3> QED
      BY <2>2, <3>2, <3>3, CatalogueUntouched
  <2> QED
    BY <1>2, <2>1, <2>2 DEF Step
<1>3. CASE BootScan \/ Seed
  BY <1>3, BootScanKept, SeedKept
<1>4. CASE Restart
  BY <1>4, RestartKept
<1>5. CASE UNCHANGED vars
  <2>1. UNCHANGED <<at, job, catalogueVars>>
    BY <1>5 DEF vars, requestVars
  <2>2. CatalogueTypes'
    BY <2>1 DEF TypeInv, CatalogueTypes, CatalogueTypeOK, catalogueVars
  <2>3. CatalogueKnows' /\ ServesWhenUp' /\ ScansAgree' /\ CachesAgree'
    BY <2>1 DEF CatalogueInv, CatalogueKnows, CatalogueJob, ServesWhenUp, ScansAgree,
                CachesAgree, Scanning, catalogueVars
  <2>4. WritersAgree' /\ SeedGoesOn'
    BY <2>1 DEF CatalogueInv, WritersAgree, AsAuthored, Writer, Editor, Merged, SeedGoesOn, Whole,
                catalogueVars
  <2> QED
    BY <2>2, <2>3, <2>4 DEF CatalogueGoal, CatalogueInv
<1> QED
  BY <1>1, <1>2, <1>3, <1>4, <1>5 DEF Next

-----------------------------------------------------------------------------
(* The audit log: what a query returns, newest first *)

\* Rows are ordered by their day, and by ts_id within a day.
LEMMA NewerIsAnOrder ==
  /\ \A a \in Rows : ~Newer(a, a)
  /\ \A a, b \in Rows : Newer(a, b) => ~Newer(b, a)
  /\ \A a, b, c \in Rows : Newer(a, b) /\ Newer(b, c) => Newer(a, c)
  /\ \A a, b \in Rows : a = b \/ Newer(a, b) \/ Newer(b, a)
BY ActivityAssumption DEF Newer

\* Of a set of sets of rows, some member has no proper subset that is a member.
LEMMA SmallestSet ==
  ASSUME NEW T, T \subseteq SUBSET Rows, T # {}
  PROVE  \E U \in T : \A x \in U : U \ {x} \notin T
<1>1. T \subseteq FiniteSubsetsOf(Rows)
  BY ActivityAssumption, FS_FiniteSubsetsOfFinite
<1>2. PICK U \in T : \A V \in T : ~ (<<V, U>> \in StrictSubsetOrdering(Rows))
  BY <1>1, FS_StrictSubsetOrderingWellFounded, WFMin
<1>3. ASSUME NEW x \in U, U \ {x} \in T
      PROVE  FALSE
  <2>1. <<U \ {x}, U>> \in StrictSubsetOrdering(Rows)
    BY <1>3 DEF StrictSubsetOrdering
  <2> QED
    BY <1>2, <1>3, <2>1
<1> QED
  BY <1>3

\* A set of rows that is not empty has a newest.
LEMMA NewestRow ==
  ASSUME NEW S \in SUBSET Rows, S # {}
  PROVE  \E m \in S : \A row \in S : row = m \/ Newer(m, row)
<1> DEFINE HasNewest(U) == \E m \in U : \A row \in U : row = m \/ Newer(m, row)
           T == {U \in SUBSET Rows : U # {} /\ ~HasNewest(U)}
<1>1. SUFFICES ASSUME T # {} PROVE FALSE
  OBVIOUS
<1>2. PICK U \in T : \A x \in U : U \ {x} \notin T
  <2>1. T \subseteq SUBSET Rows
    OBVIOUS
  <2> HIDE DEF T
  <2> QED
    BY <1>1, <2>1, SmallestSet
<1>3. PICK x \in U : TRUE
  OBVIOUS
<1>4. CASE U = {x}
  BY <1>4 DEF HasNewest
<1>5. CASE U # {x}
  <2>1. PICK m \in U \ {x} : \A row \in U \ {x} : row = m \/ Newer(m, row)
    BY <1>2, <1>3, <1>5
  <2>2. m \in Rows /\ x \in Rows
    BY <2>1
  <2>3. CASE Newer(m, x)
    BY <2>1, <2>3
  <2>4. CASE Newer(x, m)
    BY <2>1, <2>2, <2>4, NewerIsAnOrder
  <2> QED
    BY <2>1, <2>2, <2>3, <2>4, NewerIsAnOrder
<1> QED
  BY <1>4, <1>5

\* The rows of a day can be sorted.
LEMMA RowsCanBeSorted ==
  ASSUME NEW S \in SUBSET Rows
  PROVE  \E s \in SetToSeqs(S) : Descends(s)
<1> DEFINE T == {U \in SUBSET Rows : ~ \E s \in SetToSeqs(U) : Descends(s)}
<1>1. SUFFICES ASSUME T # {} PROVE FALSE
  OBVIOUS
<1>2. PICK U \in T : \A x \in U : U \ {x} \notin T
  <2>1. T \subseteq SUBSET Rows
    OBVIOUS
  <2> HIDE DEF T
  <2> QED
    BY <1>1, <2>1, SmallestSet
<1>3. U # {}
  <2>1. SUFFICES ASSUME U = {} PROVE FALSE
    OBVIOUS
  <2>2. Cardinality(U) = 0
    BY <2>1, FS_EmptySet
  <2>3. <<>> \in SetToSeqs(U) /\ Descends(<<>>)
    BY <2>1, <2>2 DEF SetToSeqs, Descends
  <2> QED
    BY <2>3
<1>4. PICK m \in U : \A row \in U : row = m \/ Newer(m, row)
  BY <1>3, NewestRow
<1> DEFINE rest == U \ {m}
           n == Cardinality(rest)
<1>5. n \in Nat /\ Cardinality(U) = n + 1
  <2>1. IsFiniteSet(U) /\ IsFiniteSet(rest)
    BY ActivityAssumption, FS_Subset
  <2>2. Cardinality(rest) = Cardinality(U) - 1 /\ Cardinality(U) \in Nat
    BY <1>4, <2>1, FS_RemoveElement, FS_CardinalityType
  <2> QED
    BY <2>1, <2>2, FS_CardinalityType
<1>6. PICK s \in SetToSeqs(rest) : Descends(s)
  BY <1>2, <1>4
<1>7. s \in [1..n -> rest] /\ \A i, j \in 1..n : i # j => s[i] # s[j]
  BY <1>6 DEF SetToSeqs
<1> DEFINE t == [i \in 1..(n + 1) |-> IF i = 1 THEN m ELSE s[i - 1]]
<1> HIDE DEF n
<1>8. t \in [1..(n + 1) -> U] /\ t[1] = m /\ \A i \in 2..(n + 1) : i - 1 \in 1..n /\ t[i] = s[i - 1]
  BY <1>5, <1>7
<1>9. t \in SetToSeqs(U)
  <2>1. ASSUME NEW i \in 1..(n + 1), NEW j \in 1..(n + 1), i # j
        PROVE  t[i] # t[j]
    <3>1. CASE i = 1
      BY <1>5, <1>7, <1>8, <2>1, <3>1
    <3>2. CASE j = 1
      BY <1>5, <1>7, <1>8, <2>1, <3>2
    <3>3. CASE i # 1 /\ j # 1
      BY <1>5, <1>7, <1>8, <2>1, <3>3
    <3> QED
      BY <3>1, <3>2, <3>3
  <2> QED
    BY <1>5, <1>8, <2>1 DEF SetToSeqs
<1>10. Descends(t)
  <2>1. Len(t) = n + 1 /\ Len(s) = n
    BY <1>5, <1>7, <1>8
  <2>2. ASSUME NEW i \in 1..(n + 1), NEW j \in 1..(n + 1), i < j
        PROVE  Newer(t[i], t[j])
    <3>1. j - 1 \in 1..n /\ t[j] = s[j - 1] /\ t[j] # m /\ t[j] \in U
      BY <1>5, <1>7, <1>8, <2>2
    <3>2. CASE i = 1
      BY <1>4, <1>8, <3>1, <3>2
    <3>3. CASE i # 1
      BY <1>5, <1>6, <1>8, <2>1, <2>2, <3>1, <3>3 DEF Descends
    <3> QED
      BY <3>2, <3>3
  <2> HIDE DEF t
  <2> QED
    BY <1>5, <2>1, <2>2 DEF Descends
<1> QED
  BY <1>9, <1>10

\* table.query with ScanIndexForward=False returns what it should.
LEMMA SortedRows ==
  ASSUME NEW S \in SUBSET Rows
  PROVE  /\ NewestFirst(S) \in Seq(Rows)
         /\ Descends(NewestFirst(S))
         /\ \A i \in 1..Len(NewestFirst(S)) : NewestFirst(S)[i] \in S
         /\ \A row \in S : Has(NewestFirst(S), row)
<1> DEFINE s == NewestFirst(S)
           n == Cardinality(S)
<1>1. s \in SetToSeqs(S) /\ Descends(s)
  BY RowsCanBeSorted DEF NewestFirst, Descends
<1>2. IsFiniteSet(S) /\ n \in Nat
  BY ActivityAssumption, FS_Subset, FS_CardinalityType
<1> HIDE DEF s
<1>3. s \in [1..n -> S] /\ \A i, j \in 1..n : i # j => s[i] # s[j]
  BY <1>1 DEF SetToSeqs
<1>4. Cardinality(1..n) = n
  BY <1>2, FS_Interval
<1>5. s \in Injection(1..n, S)
  BY <1>3 DEF Injection, IsInjective
<1>6. s \in Surjection(1..n, S)
  BY <1>2, <1>4, <1>5, FS_Injection
<1>7. Len(s) = n /\ s \in Seq(Rows)
  <2>1. s \in [1..n -> Rows]
    BY <1>3
  <2> QED
    BY <1>2, <2>1
<1>8. \A row \in S : Has(s, row)
  BY <1>6, <1>7 DEF Surjection, Has
<1> QED
  BY <1>1, <1>3, <1>7, <1>8 DEF s

\* There is a last day.
LEMMA TodayIsLast == Today \in Nat /\ \A row \in Rows : row[1] \in 1..Today
<1>1. PICK m \in Rows : \A row \in Rows : row = m \/ Newer(m, row)
  BY ActivityAssumption, NewestRow
<1>2. \A row \in Rows : row[1] \in Nat \ {0} /\ row[2] \in Nat
  BY ActivityAssumption
<1>3. m[1] \in {row[1] : row \in Rows} /\ \A row \in Rows : row[1] <= m[1]
  BY <1>1, <1>2 DEF Newer
<1>4. Today \in {row[1] : row \in Rows} /\ \A row \in Rows : row[1] <= Today
  BY <1>3 DEF Today
<1> QED
  BY <1>2, <1>4
-----------------------------------------------------------------------------
(* The audit log: what a query has collected *)

LEMMA DescendingParts ==
  ASSUME NEW a \in Seq(Rows), NEW b \in Seq(Rows)
  PROVE  Descends(a \o b) <=>
           /\ Descends(a)
           /\ Descends(b)
           /\ \A i \in 1..Len(a), j \in 1..Len(b) : Newer(a[i], b[j])
<1> DEFINE n == Len(a)
<1>1. /\ n \in Nat /\ Len(b) \in Nat /\ Len(a \o b) = n + Len(b)
      /\ \A i \in 1..n : (a \o b)[i] = a[i]
      /\ \A j \in 1..Len(b) : (a \o b)[n + j] = b[j]
  OBVIOUS
<1>2. ASSUME Descends(a \o b)
      PROVE  /\ Descends(a) /\ Descends(b)
             /\ \A i \in 1..n, j \in 1..Len(b) : Newer(a[i], b[j])
  <2>1. Descends(a)
    BY <1>1, <1>2 DEF Descends
  <2>2. ASSUME NEW i \in 1..Len(b), NEW j \in 1..Len(b), i < j
        PROVE  Newer(b[i], b[j])
    <3>1. n + i \in 1..(n + Len(b)) /\ n + j \in 1..(n + Len(b)) /\ n + i < n + j
      BY <1>1, <2>2
    <3>2. Newer((a \o b)[n + i], (a \o b)[n + j])
      BY <1>1, <1>2, <3>1 DEF Descends
    <3> QED
      BY <1>1, <3>2
  <2>3. ASSUME NEW i \in 1..n, NEW j \in 1..Len(b)
        PROVE  Newer(a[i], b[j])
    <3>1. i \in 1..(n + Len(b)) /\ n + j \in 1..(n + Len(b)) /\ i < n + j
      BY <1>1
    <3>2. Newer((a \o b)[i], (a \o b)[n + j])
      BY <1>1, <1>2, <3>1 DEF Descends
    <3> QED
      BY <1>1, <3>2
  <2> QED
    BY <2>1, <2>2, <2>3 DEF Descends
<1>3. ASSUME Descends(a), Descends(b), \A i \in 1..n, j \in 1..Len(b) : Newer(a[i], b[j]),
             NEW i \in 1..(n + Len(b)), NEW j \in 1..(n + Len(b)), i < j
      PROVE  Newer((a \o b)[i], (a \o b)[j])
  <2>1. CASE j <= n
    BY <1>1, <1>3, <2>1 DEF Descends
  <2>2. CASE j > n
    <3>1. j - n \in 1..Len(b) /\ (a \o b)[j] = b[j - n]
      BY <1>1, <2>2
    <3>2. CASE i <= n
      BY <1>1, <1>3, <3>1, <3>2
    <3>3. CASE i > n
      <4>1. i - n \in 1..Len(b) /\ (a \o b)[i] = b[i - n] /\ i - n < j - n
        BY <1>1, <1>3, <3>3
      <4> QED
        BY <1>3, <3>1, <4>1 DEF Descends
    <3> QED
      BY <1>1, <3>2, <3>3
  <2> QED
    BY <1>1, <2>1, <2>2
<1>4. ASSUME Descends(a), Descends(b), \A i \in 1..n, j \in 1..Len(b) : Newer(a[i], b[j])
      PROVE  Descends(a \o b)
  BY <1>1, <1>3, <1>4 DEF Descends
<1> QED
  BY <1>2, <1>4

LEMMA HasParts ==
  ASSUME NEW a \in Seq(Rows), NEW b \in Seq(Rows), NEW row
  PROVE  Has(a \o b, row) <=> Has(a, row) \/ Has(b, row)
<1>1. /\ Len(a) \in Nat /\ Len(b) \in Nat /\ Len(a \o b) = Len(a) + Len(b)
      /\ \A i \in 1..Len(a) : (a \o b)[i] = a[i]
      /\ \A j \in 1..Len(b) : (a \o b)[Len(a) + j] = b[j]
  OBVIOUS
<1>2. ASSUME Has(a \o b, row) PROVE Has(a, row) \/ Has(b, row)
  <2>1. PICK i \in 1..(Len(a) + Len(b)) : (a \o b)[i] = row
    BY <1>1, <1>2 DEF Has
  <2>2. CASE i <= Len(a)
    BY <1>1, <2>1, <2>2 DEF Has
  <2>3. CASE i > Len(a)
    <3>1. i - Len(a) \in 1..Len(b) /\ b[i - Len(a)] = row
      BY <1>1, <2>1, <2>3
    <3> QED
      BY <3>1 DEF Has
  <2> QED
    BY <1>1, <2>2, <2>3
<1>3. ASSUME Has(a, row) PROVE Has(a \o b, row)
  BY <1>1, <1>3 DEF Has
<1>4. ASSUME Has(b, row) PROVE Has(a \o b, row)
  <2>1. PICK j \in 1..Len(b) : b[j] = row
    BY <1>4 DEF Has
  <2>2. Len(a) + j \in 1..Len(a \o b) /\ (a \o b)[Len(a) + j] = row
    BY <1>1, <2>1
  <2> QED
    BY <2>2 DEF Has
<1> QED
  BY <1>2, <1>3, <1>4

\* A query stays sound while rows are added and other requests are served.
LEMMA LogUntouched ==
  ASSUME LogInv, UNCHANGED reading, log \subseteq log', log' \subseteq Rows,
         \A r \in Requests : at'[r] = "read" <=> at[r] = "read"
  PROVE  LogInv'
BY DEF LogInv

LEMMA LogKeptElsewhere ==
  ASSUME LogInv, NEW r \in Requests, NEW from, NEW to, Moves(r, from, to),
         "read" \notin from, "read" \notin to, UNCHANGED activityVars
  PROVE  LogInv'
<1>1. \A q \in Requests : at'[q] = "read" <=> at[q] = "read"
  BY DEF Moves
<1> QED
  BY <1>1, LogUntouched DEF activityVars, LogInv

LEMMA LogRowKept ==
  ASSUME TypeInv, LogInv, NEW r \in Requests, LogRow(r)
  PROVE  LogInv'
<1>1. Moves(r, {"log"}, {"done"})
  BY FinishMoves DEF LogRow, Moves
<1>2. \A q \in Requests : at'[q] = "read" <=> at[q] = "read"
  BY <1>1 DEF Moves
<1>3. UNCHANGED reading /\ log \subseteq log' /\ log' \subseteq Rows
  BY DEF LogRow, LogInv
<1> QED
  BY <1>2, <1>3, LogUntouched

LEMMA StartQueryKept ==
  ASSUME TypeInv, LogInv, NEW r \in Requests, NEW j, StartQuery(r, j)
  PROVE  LogInv'
<1> DEFINE q == [cursor |-> None, day |-> Today, page |-> <<>>, sent |-> <<>>, present |-> log]
<1>1. /\ Moves(r, {"new"}, {"read"}) /\ log' = log
      /\ reading' = [reading EXCEPT ![r] = q]
  BY OtherMoves DEF StartQuery
<1>2. q \in Reading
  BY TodayIsLast DEF LogInv, Reading
<1>3. <<>> \o <<>> = <<>> /\ Len(<<>>) = 0
  OBVIOUS
<1>4. Collects(q)
  <2>1. \A row \in log : ~(row[1] > Today)
    BY TodayIsLast DEF LogInv
  <2> QED
    BY <1>3, <2>1 DEF Collects, Descends, PastCursor
<1>5. GoesOn(q)
  BY <1>3, ActivityAssumption DEF GoesOn
<1>6. q.present = log /\ q.page = <<>>
  OBVIOUS
<1> HIDE DEF q
<1>7. QuerySound(q)
  BY <1>2, <1>4, <1>5, <1>6 DEF QuerySound
<1>8. reading' = [p \in Requests |-> reading'[p]] /\ reading'[r] = q
      /\ \A p \in Requests \ {r} : reading'[p] = reading[p]
  BY <1>1 DEF LogInv
<1>9. ASSUME NEW p \in Requests
       PROVE  IF at'[p] = "read"
                THEN QuerySound(reading'[p]) /\ reading'[p].present \subseteq log'
                ELSE reading'[p] = None
  <2>1. CASE p = r
    BY <1>1, <1>6, <1>7, <1>8, <2>1 DEF Moves
  <2>2. CASE p # r
    <3>1. at'[p] = at[p] /\ reading'[p] = reading[p]
      BY <1>1, <1>8, <2>2 DEF Moves
    <3> QED
      BY <1>1, <3>1 DEF LogInv
  <2> QED
    BY <2>1, <2>2
<1> QED
  BY <1>1, <1>8, <1>9 DEF LogInv

LEMMA QueryEndsKept ==
  ASSUME TypeInv, LogInv, NEW r \in Requests, QueryEnds(r)
  PROVE  LogInv'
<1>1. Moves(r, {"read"}, {"done"}) /\ log' = log /\ reading' = [reading EXCEPT ![r] = None]
  BY FinishMoves DEF QueryEnds, Moves
<1>2. /\ reading' = [p \in Requests |-> reading'[p]] /\ reading'[r] = None
      /\ \A p \in Requests \ {r} : reading'[p] = reading[p]
  BY <1>1 DEF LogInv
<1>3. ASSUME NEW p \in Requests
      PROVE  IF at'[p] = "read"
                THEN QuerySound(reading'[p]) /\ reading'[p].present \subseteq log'
                ELSE reading'[p] = None
  <2>1. CASE p = r
    BY <1>1, <1>2, <2>1 DEF Moves
  <2>2. CASE p # r
    <3>1. at'[p] = at[p] /\ reading'[p] = reading[p]
      BY <1>1, <1>2, <2>2 DEF Moves
    <3> QED
      BY <1>1, <3>1 DEF LogInv
  <2> QED
    BY <2>1, <2>2
<1> QED
  BY <1>1, <1>2, <1>3 DEF LogInv

\* An element of a concatenation is one of its parts.
LEMMA ElementOfPart ==
  ASSUME NEW a \in Seq(Rows), NEW b \in Seq(Rows), NEW i \in 1..Len(a \o b)
  PROVE  \/ i \in 1..Len(a) /\ (a \o b)[i] = a[i]
         \/ i - Len(a) \in 1..Len(b) /\ (a \o b)[i] = b[i - Len(a)]
OBVIOUS

LEMMA PartsRegroup ==
  ASSUME NEW a \in Seq(Rows), NEW b \in Seq(Rows), NEW c \in Seq(Rows)
  PROVE  a \o (b \o c) = (a \o b) \o c
BY ConcatAssociative

LEMMA Joined ==
  ASSUME NEW a \in Seq(Rows), NEW b \in Seq(Rows)
  PROVE  a \o b \in Seq(Rows) /\ Len(a \o b) = Len(a) + Len(b) /\ Len(a) \in Nat /\ Len(b) \in Nat
OBVIOUS

\* What ReadDay makes of a query when the log is what is stored.
Unsent(q, stored) == {row \in stored : row[1] = q.day /\ PastCursor(q.cursor, row)}
Longer(q, stored) == q.page \o NewestFirst(Unsent(q, stored))

\* With a partition more, what is collected is sound up to its end.
LEMMA DayIsRead ==
  ASSUME NEW q, QuerySound(q), q.day # 0, NEW stored \in SUBSET Rows, q.present \subseteq stored
  PROVE  LET rows == Longer(q, stored)
             day == NewestFirst(Unsent(q, stored))
             all == q.sent \o rows
         IN  /\ day \in Seq(Rows) /\ \A i \in 1..Len(day) : day[i][1] = q.day
             /\ rows \in Seq(Rows)
             /\ \A i \in 1..Len(rows) : rows[i][1] >= q.day
             /\ Descends(all)
             /\ \A row \in q.present :
                  row[1] >= q.day \/ ~PastCursor(q.cursor, row) => Has(all, row)
<1> DEFINE unsent == Unsent(q, stored)
           day == NewestFirst(unsent)
           before == q.sent \o q.page
<1>1. /\ q \in Reading /\ q.sent \in Seq(Rows) /\ q.page \in Seq(Rows) /\ q.day \in Nat
      /\ q.present \subseteq Rows /\ Collects(q) /\ GoesOn(q)
  BY TodayIsLast DEF QuerySound, Reading
<1>2. /\ unsent \in SUBSET Rows
      /\ \A row \in unsent : row[1] = q.day /\ PastCursor(q.cursor, row)
  BY DEF Unsent
<1>3. /\ day \in Seq(Rows) /\ Descends(day)
      /\ \A i \in 1..Len(day) : day[i] \in unsent
      /\ \A row \in unsent : Has(day, row)
  BY <1>2, SortedRows
<1> HIDE DEF unsent, day
<1>4. ASSUME NEW i \in 1..Len(q.sent), NEW row \in unsent
      PROVE  Newer(q.sent[i], row)
  <2>1. q.sent # <<>> /\ q.sent[i] \in Rows
    BY <1>1
  <2>2. q.cursor # None /\ (q.sent[i] = q.cursor \/ Newer(q.sent[i], q.cursor)) /\ q.cursor \in Rows
    BY <1>1, <2>1 DEF GoesOn, Reading
  <2>3. Newer(q.cursor, row) /\ row \in Rows
    BY <1>2, <2>2 DEF PastCursor
  <2> QED
    BY <2>1, <2>2, <2>3, NewerIsAnOrder
<1>5. ASSUME NEW i \in 1..Len(q.page), NEW row \in unsent
      PROVE  Newer(q.page[i], row)
  BY <1>1, <1>2 DEF GoesOn, Newer
<1>6. before \in Seq(Rows) /\ \A i \in 1..Len(before), j \in 1..Len(day) : Newer(before[i], day[j])
  <2>1. before \in Seq(Rows)
    BY <1>1
  <2>2. ASSUME NEW i \in 1..Len(before), NEW row \in unsent
        PROVE  Newer(before[i], row)
    <3>1. \/ i \in 1..Len(q.sent) /\ before[i] = q.sent[i]
          \/ i - Len(q.sent) \in 1..Len(q.page) /\ before[i] = q.page[i - Len(q.sent)]
      BY <1>1, ElementOfPart
    <3> QED
      BY <1>4, <1>5, <3>1
  <2> QED
    BY <1>3, <2>1, <2>2
<1>7. q.sent \o (q.page \o day) = before \o day
  BY <1>1, <1>3, PartsRegroup, Zenon
<1>8. Descends(before \o day)
  BY <1>1, <1>3, <1>6, DescendingParts DEF Collects
<1>9. ASSUME NEW row \in q.present, row[1] >= q.day \/ ~PastCursor(q.cursor, row)
      PROVE  Has(before \o day, row)
  <2>1. CASE row[1] > q.day \/ ~PastCursor(q.cursor, row)
    BY <1>1, <1>3, <1>6, <2>1, HasParts DEF Collects
  <2>2. CASE row[1] = q.day /\ PastCursor(q.cursor, row)
    <3>1. row \in unsent
      BY <2>2 DEF unsent, Unsent
    <3> QED
      BY <1>3, <1>6, <3>1, HasParts
  <2>3. row[1] \in Nat
    BY <1>1, TodayIsLast
  <2> QED
    BY <1>1, <1>9, <2>1, <2>2, <2>3
<1>10. q.page \o day \in Seq(Rows) /\ \A i \in 1..Len(q.page \o day) : (q.page \o day)[i][1] >= q.day
  <2>1. q.page \o day \in Seq(Rows)
    BY <1>1, <1>3
  <2>2. ASSUME NEW i \in 1..Len(q.page \o day)
        PROVE  (q.page \o day)[i][1] >= q.day
    <3>1. CASE i \in 1..Len(q.page)
      <4>1. (q.page \o day)[i] = q.page[i] /\ q.page[i] \in Rows
        BY <1>1, <1>3, <3>1
      <4>2. q.page[i][1] \in Nat /\ q.page[i][1] > q.day
        BY <1>1, <3>1, <4>1, TodayIsLast DEF GoesOn
      <4> QED
        BY <1>1, <4>1, <4>2
    <3>2. CASE i - Len(q.page) \in 1..Len(day)
      <4>1. (q.page \o day)[i] = day[i - Len(q.page)]
        BY <1>1, <1>3, <3>2
      <4> QED
        BY <1>1, <1>2, <1>3, <3>2, <4>1
    <3> QED
      BY <1>1, <1>3, <3>1, <3>2
  <2> QED
    BY <2>1, <2>2
<1>11. \A i \in 1..Len(day) : day[i][1] = q.day
  BY <1>2, <1>3
<1> QED
  BY <1>3, <1>7, <1>8, <1>9, <1>10, <1>11 DEF Longer, unsent, day

\* A full page is sent, and its last row is the cursor.
LEMMA FullPage ==
  ASSUME NEW q, QuerySound(q), q.day # 0, NEW stored \in SUBSET Rows, q.present \subseteq stored,
         Len(Longer(q, stored)) >= Limit
  PROVE  LET page == SubSeq(Longer(q, stored), 1, Limit) IN
         /\ Len(page) = Limit
         /\ QuerySound([q EXCEPT !.cursor = page[Limit], !.day = page[Limit][1],
                                 !.page = <<>>, !.sent = @ \o page])
<1> DEFINE rows == Longer(q, stored)
           day == NewestFirst(Unsent(q, stored))
           all == q.sent \o rows
           page == SubSeq(rows, 1, Limit)
           last == rows[Limit]
           sent == q.sent \o page
           n == Len(q.sent) + Limit
<1>1. /\ q \in Reading /\ q.sent \in Seq(Rows) /\ q.page \in Seq(Rows) /\ q.day \in 0..Today
      /\ q.present \subseteq Rows /\ Len(q.page) < Limit /\ Limit \in Nat \ {0}
  BY ActivityAssumption DEF QuerySound, Reading, GoesOn
<1>2. /\ day \in Seq(Rows) /\ \A i \in 1..Len(day) : day[i][1] = q.day
      /\ rows \in Seq(Rows) /\ Descends(all)
      /\ \A row \in q.present : row[1] >= q.day \/ ~PastCursor(q.cursor, row) => Has(all, row)
  BY DayIsRead
<1>3. last \in Rows /\ last[1] = q.day
  <2>1. rows = q.page \o day
    BY DEF Longer
  <2> HIDE DEF rows, day
  <2>2. Limit - Len(q.page) \in 1..Len(day) /\ last = day[Limit - Len(q.page)]
    BY <1>1, <1>2, <2>1 DEF rows
  <2>3. last \in Rows
    BY <1>1, <1>2 DEF rows
  <2> QED
    BY <1>2, <2>2, <2>3
<1> HIDE DEF rows, day
<1>4. Len(rows) \in Nat /\ Len(rows) >= Limit
  BY <1>2 DEF rows
<1>5. page \in Seq(Rows) /\ Len(page) = Limit /\ \A i \in 1..Limit : page[i] = rows[i]
  BY <1>1, <1>2, <1>4
<1> HIDE DEF page, last
<1>6. page[Limit] = last
  BY <1>1, <1>5 DEF last
<1>7. /\ sent \in Seq(Rows) /\ Len(sent) = n /\ n \in Nat /\ all \in Seq(Rows)
      /\ Len(all) = Len(q.sent) + Len(rows)
  <2>1. rows \in Seq(Rows)
    BY <1>2 DEF rows
  <2> QED
    BY <1>1, <1>5, <2>1, Joined
<1>8. \A i \in 1..n : sent[i] = all[i] /\ i \in 1..Len(all)
  <2>1. ASSUME NEW i \in 1..n PROVE sent[i] = all[i] /\ i \in 1..Len(all)
    <3>1. CASE i \in 1..Len(q.sent)
      BY <1>1, <1>2, <1>4, <1>5, <1>7, <3>1
    <3>2. CASE i - Len(q.sent) \in 1..Limit
      <4>1. sent[i] = page[i - Len(q.sent)] /\ all[i] = rows[i - Len(q.sent)]
        BY <1>1, <1>2, <1>4, <1>5, <3>2
      <4> QED
        BY <1>1, <1>4, <1>5, <1>7, <3>2, <4>1
    <3> QED
      BY <1>1, <1>7, <3>1, <3>2
  <2> QED
    BY <2>1
<1>9. n \in 1..n /\ sent[n] = last
  <2>1. sent[n] = page[Limit]
    BY <1>1, <1>5, <1>7
  <2> QED
    BY <1>1, <1>6, <1>7, <2>1
<1> HIDE DEF sent, all, n
<1>10. Descends(sent)
  BY <1>2, <1>7, <1>8 DEF Descends
<1>11. \A i \in 1..n : sent[i] = last \/ Newer(sent[i], last)
  BY <1>7, <1>9, <1>10 DEF Descends
<1>12. ASSUME NEW row \in q.present, row[1] > q.day \/ ~Newer(last, row)
       PROVE  Has(sent, row)
  <2>1. row \in Rows /\ row[1] \in Nat /\ q.day \in Nat
    BY <1>1, TodayIsLast
  <2>2. row[1] >= q.day /\ ~Newer(last, row)
    BY <1>3, <1>12, <2>1 DEF Newer
  <2>3. PICK i \in 1..Len(all) : all[i] = row
    BY <1>2, <2>2 DEF Has
  <2>4. CASE i <= n
    BY <1>7, <1>8, <2>3, <2>4 DEF Has
  <2>5. CASE i > n
    BY <1>2, <1>7, <1>8, <1>9, <2>2, <2>3, <2>5 DEF Descends
  <2> QED
    BY <1>7, <2>4, <2>5
<1> DEFINE new == [q EXCEPT !.cursor = last, !.day = last[1], !.page = <<>>, !.sent = sent]
<1>13. /\ new \in Reading
       /\ new.cursor = last /\ new.day = q.day /\ new.page = <<>> /\ new.sent = sent
       /\ new.present = q.present
  <2>1. q \in Reading /\ last[1] \in 0..Today /\ <<>> \in Seq(Rows)
    BY <1>1, <1>3
  <2>2. new \in Reading
    BY <1>3, <1>7, <2>1 DEF Reading
  <2> QED
    BY <1>3, <2>1, <2>2 DEF Reading
<1> HIDE DEF new
<1>14. sent \o <<>> = sent
  BY <1>7
<1>15. last # None
  BY <1>3, ActivityAssumption
<1>16. Collects(new)
  BY <1>10, <1>12, <1>13, <1>14, <1>15 DEF Collects, PastCursor
<1>17. GoesOn(new)
  BY <1>1, <1>7, <1>11, <1>13, <1>15 DEF GoesOn
<1> QED
  BY <1>5, <1>6, <1>13, <1>16, <1>17 DEF QuerySound, new, rows, page, sent

\* A partition that does not fill the page is collected, and the last one sent.
LEMMA ShortPage ==
  ASSUME NEW q, QuerySound(q), q.day # 0, NEW stored \in SUBSET Rows, q.present \subseteq stored,
         Len(Longer(q, stored)) < Limit
  PROVE  LET rows == Longer(q, stored) IN
         QuerySound([q EXCEPT !.day = @ - 1,
                              !.page = IF q.day = 1 THEN <<>> ELSE rows,
                              !.sent = IF q.day = 1 THEN @ \o rows ELSE @])
<1> DEFINE rows == Longer(q, stored)
           all == q.sent \o rows
<1>1. /\ q \in Reading /\ q.sent \in Seq(Rows) /\ q.day \in 1..Today /\ Today \in Nat
      /\ q.present \subseteq Rows /\ GoesOn(q)
  BY TodayIsLast DEF QuerySound, Reading
<1>2. /\ rows \in Seq(Rows) /\ Descends(all)
      /\ \A i \in 1..Len(rows) : rows[i][1] >= q.day
      /\ \A row \in q.present : row[1] >= q.day \/ ~PastCursor(q.cursor, row) => Has(all, row)
  BY DayIsRead
<1> HIDE DEF rows
<1>3. all \in Seq(Rows)
  BY <1>1, <1>2
<1> DEFINE page == IF q.day = 1 THEN <<>> ELSE rows
           sent == IF q.day = 1 THEN all ELSE q.sent
           new == [q EXCEPT !.day = q.day - 1, !.page = page, !.sent = sent]
<1>4. page \in Seq(Rows) /\ sent \in Seq(Rows) /\ q.day - 1 \in 0..Today
  BY <1>1, <1>2, <1>3 DEF rows
<1> HIDE DEF all, page, sent
<1>5. /\ new \in Reading
      /\ new.day = q.day - 1 /\ new.cursor = q.cursor /\ new.present = q.present
      /\ new.page = page /\ new.sent = sent
  <2>1. q \in Reading
    BY <1>1
  <2>2. [q EXCEPT !.day = q.day - 1, !.page = page, !.sent = sent] \in Reading
    BY <1>4, <2>1 DEF Reading
  <2> QED
    BY <2>1, <2>2 DEF Reading
<1> HIDE DEF new
<1>6. new.sent \o new.page = all
  <2>1. all \o <<>> = all
    BY <1>3, ConcatEmptySeq
  <2>2. CASE q.day = 1
    BY <1>5, <2>1, <2>2 DEF page, sent
  <2>3. CASE q.day # 1
    BY <1>5, <2>3 DEF all, page, sent
  <2> QED
    BY <2>2, <2>3
<1>7. Collects(new)
  <2>1. ASSUME NEW row \in q.present, row[1] > q.day - 1
        PROVE  row[1] >= q.day
    BY <1>1, <2>1, TodayIsLast
  <2> QED
    BY <1>2, <1>5, <1>6, <2>1 DEF Collects
<1>8. ASSUME q.day = 1 PROVE QuerySound(new)
  <2>1. new.day = 0 /\ new.page = <<>>
    BY <1>5, <1>8 DEF page
  <2> QED
    BY <1>5, <1>7, <2>1 DEF QuerySound
<1>9. ASSUME q.day # 1 PROVE QuerySound(new)
  <2>1. \A i \in 1..Len(rows) : rows[i] \in Rows /\ rows[i][1] > q.day - 1
    BY <1>1, <1>2, TodayIsLast
  <2>2. new.page = rows /\ new.sent = q.sent
    BY <1>5, <1>9 DEF page, sent
  <2>3. GoesOn(new)
    BY <1>1, <1>5, <2>1, <2>2 DEF GoesOn, rows
  <2>4. new.day # 0
    BY <1>1, <1>5, <1>9
  <2> QED
    BY <1>5, <1>7, <2>3, <2>4 DEF QuerySound
<1> QED
  BY <1>8, <1>9 DEF new, page, sent, rows, all

\* The next partition is read.
LEMMA ReadDayKept ==
  ASSUME TypeInv, LogInv, NEW r \in Requests, ReadDay(r)
  PROVE  LogInv'
<1> DEFINE q == reading[r]
           rows == Longer(q, log)
           page == SubSeq(rows, 1, IF Len(rows) < Limit THEN Len(rows) ELSE Limit)
<1>1. /\ at[r] = "read" /\ q.day # 0 /\ UNCHANGED <<at, job, log>>
      /\ QuerySound(q) /\ q.present \subseteq log /\ log \in SUBSET Rows
  BY DEF ReadDay, requestVars, LogInv
<1>2. reading' = [reading EXCEPT ![r] =
        IF Len(page) = Limit
          THEN [q EXCEPT !.cursor = page[Limit], !.day = page[Limit][1],
                         !.page = <<>>, !.sent = @ \o page]
          ELSE [q EXCEPT !.day = @ - 1,
                         !.page = IF q.day = 1 THEN <<>> ELSE page,
                         !.sent = IF q.day = 1 THEN @ \o page ELSE @]]
  BY DEF ReadDay, Longer, Unsent
<1>3. /\ reading' = [p \in Requests |-> reading'[p]]
      /\ \A p \in Requests \ {r} : reading'[p] = reading[p]
  BY <1>2 DEF LogInv
<1>4. rows \in Seq(Rows) /\ Len(rows) \in Nat /\ Limit \in Nat \ {0}
  <2>1. rows \in Seq(Rows)
    BY <1>1, DayIsRead
  <2> QED
    BY <2>1, ActivityAssumption
<1> HIDE DEF rows
<1>5. QuerySound(reading'[r]) /\ reading'[r].present = q.present
  <2>1. CASE Len(rows) >= Limit
    <3>1. page = SubSeq(rows, 1, Limit)
      BY <1>4, <2>1
    <3> HIDE DEF page
    <3>2. Len(page) = Limit
      BY <1>1, <2>1, <3>1, FullPage DEF rows
    <3> DEFINE new == [q EXCEPT !.cursor = page[Limit], !.day = page[Limit][1],
                                !.page = <<>>, !.sent = q.sent \o page]
    <3>3. reading'[r] = new
      BY <1>2, <3>2 DEF LogInv
    <3>4. QuerySound(new)
      BY <1>1, <2>1, <3>1, FullPage DEF rows
    <3>5. new.present = q.present
      BY <1>1 DEF QuerySound, Reading
    <3> HIDE DEF new
    <3> QED
      BY <3>3, <3>4, <3>5
  <2>2. CASE Len(rows) < Limit
    <3>1. page = rows
      BY <1>4, <2>2
    <3> HIDE DEF page
    <3> DEFINE new == [q EXCEPT !.day = q.day - 1,
                                !.page = IF q.day = 1 THEN <<>> ELSE rows,
                                !.sent = IF q.day = 1 THEN q.sent \o rows ELSE q.sent]
    <3>2. reading'[r] = new
      BY <1>2, <1>4, <2>2, <3>1 DEF LogInv
    <3>3. QuerySound(new)
      BY <1>1, <2>2, ShortPage DEF rows
    <3>4. new.present = q.present
      BY <1>1 DEF QuerySound, Reading
    <3> HIDE DEF new
    <3> QED
      BY <3>2, <3>3, <3>4
  <2> QED
    BY <1>4, <2>1, <2>2
<1> HIDE DEF q
<1>6. ASSUME NEW p \in Requests
      PROVE  IF at'[p] = "read"
               THEN QuerySound(reading'[p]) /\ reading'[p].present \subseteq log'
               ELSE reading'[p] = None
  <2>1. CASE p = r
    BY <1>1, <1>5, <2>1
  <2>2. CASE p # r
    BY <1>1, <1>3, <2>2 DEF LogInv
  <2> QED
    BY <2>1, <2>2
<1> QED
  BY <1>1, <1>3, <1>6 DEF LogInv

\* Every step keeps what is said of the queries.
LEMMA LogKept ==
  ASSUME TypeInv, LogInv, [Next]_vars
  PROVE  LogInv'
<1> DEFINE Elsewhere(r) == Moves(r, Places \ {"read"}, Places \ {"read"})
<1>1. ASSUME NEW r \in Requests, NEW j \in agenda.jobs, Start(r, j)
      PROVE  LogInv'
  <2>1. CASE StartQuery(r, j)
    BY <2>1, StartQueryKept
  <2>2. CASE /\ UserStart(r, j) \/ CatalogueStart(r, j) \/ UpdateConfig(r, j) \/ McpStart(r, j)
             /\ UNCHANGED activityVars
    <3>1. Elsewhere(r)
      BY <2>2, UserMoves, CatalogueMoves, OtherMoves DEF Moves, CataloguePlaces, Places, Writes
    <3> QED
      BY <2>2, <3>1, LogKeptElsewhere
  <2> QED
    BY <1>1, <2>1, <2>2 DEF Start
<1>2. ASSUME NEW r \in Requests, Step(r)
      PROVE  LogInv'
  <2>1. CASE LogRow(r) \/ ReadDay(r) \/ QueryEnds(r)
    BY <2>1, LogRowKept, ReadDayKept, QueryEndsKept
  <2>2. CASE (UserStep(r) \/ CatalogueStep(r)) /\ UNCHANGED activityVars
    <3>1. Elsewhere(r)
      BY <2>2, UserMoves, CatalogueMoves DEF Moves, UserPlaces, CataloguePlaces, Places, Writes
    <3> QED
      BY <2>2, <3>1, LogKeptElsewhere
  <2> QED
    BY <1>2, <2>1, <2>2 DEF Step
<1>3. CASE (BootScan \/ Seed) /\ UNCHANGED activityVars
  BY <1>3, LogUntouched DEF BootScan, Seed, requestVars, activityVars, LogInv
<1>4. CASE Restart
  <2>1. /\ reading' = [r \in Requests |-> None] /\ log' = log
        /\ \A r \in Requests : at'[r] # "read"
    BY <1>4 DEF Restart
  <2> QED
    BY <2>1 DEF LogInv
<1>5. CASE UNCHANGED vars
  BY <1>5, LogUntouched DEF vars, requestVars, activityVars, LogInv
<1> QED
  BY <1>1, <1>2, <1>3, <1>4, <1>5 DEF Next

-----------------------------------------------------------------------------
(* A request has a job while it is served *)

\* What a step does to the job of its request.
JobStep(r) ==
  \/ Finish(r)
  \/ at[r] \notin {"new", "done"} /\ \E place \in Places \ {"new", "done"} : Goto(r, place)
  \/ \E place \in Places \ {"new", "done"}, j \in agenda.jobs : Serve(r, j, place)

LEMMA JobStepKept ==
  ASSUME TypeInv, ServerAssumption, JobsKnown, NEW r \in Requests, JobStep(r)
  PROVE  JobsKnown'
<1>1. None \notin agenda.jobs
  BY DEF TypeInv, ServerAssumption
<1>2. at'[r] \in {"new", "done"} <=> job'[r] = None
  BY <1>1 DEF JobStep, Finish, Goto, Serve, TypeInv, JobsKnown
<1>3. \A q \in Requests \ {r} : at'[q] = at[q] /\ job'[q] = job[q]
  BY DEF JobStep, Finish, Goto, Serve, TypeInv
<1> QED
  BY <1>2, <1>3 DEF JobsKnown

LEMMA StartIsJobStep ==
  ASSUME NEW r \in Requests, NEW j \in agenda.jobs, Start(r, j)
  PROVE  JobStep(r)
<1> USE DEF Places, Writes, JobStep
<1>1. CASE UserStart(r, j)
  BY <1>1 DEF UserStart, Setup, StartCreate, StartPatch, StartDelete
<1>2. CASE CatalogueStart(r, j)
  BY <1>2 DEF CatalogueStart, StartEdit, StartAdd, StartDrop, StartRescan, Begin
<1>3. CASE UpdateConfig(r, j) \/ McpStart(r, j)
  BY <1>3 DEF UpdateConfig, McpStart, UpsertServer, DeleteServer, Persist
<1>4. CASE StartQuery(r, j)
  BY <1>4 DEF StartQuery
<1> QED
  BY <1>1, <1>2, <1>3, <1>4 DEF Start

LEMMA UserStepJob ==
  ASSUME TypeInv, HandlersKnow, ServerAssumption, JobsKnown, NEW r \in Requests, UserStep(r)
  PROVE  JobsKnown'
<1> USE DEF Places, Writes, JobStep
<1>1. CASE CreateChecked(r)
  BY <1>1, JobStepKept DEF CreateChecked
<1>2. CASE PutAccount(r)
  BY <1>2, JobStepKept DEF PutAccount, Succeed
<1>3. CASE CheckField(r)
  BY <1>3, JobStepKept DEF CheckField
<1>4. CASE UpdateField(r)
  <2>1. CASE Finish(r)
    BY <2>1, JobStepKept
  <2>2. CASE ~Finish(r)
    <3> DEFINE rest == Tail(job[r].changes)
    <3>1. /\ at[r] = "update" /\ job[r] \in Patch /\ rest \in Seq(Change)
          /\ job' = [job EXCEPT ![r].changes = rest]
          /\ at' = [at EXCEPT ![r] = IF rest = <<>> THEN "confirm" ELSE "check"]
      BY <1>4, <2>2 DEF UpdateField, HandlersKnow, KnowsAt, Patch
    <3> HIDE DEF rest
    <3>2. job'[r] \in Patch
      <4>1. job'[r] = [job[r] EXCEPT !.changes = rest]
        BY <3>1 DEF TypeInv
      <4> QED
        BY <3>1, <4>1 DEF Patch
    <3>3. /\ job'[r] # None /\ at'[r] \in {"confirm", "check"}
          /\ \A q \in Requests \ {r} : at'[q] = at[q] /\ job'[q] = job[q]
      BY <3>1, <3>2, UsersAssumption DEF TypeInv
    <3> QED
      BY <3>3 DEF JobsKnown
  <2> QED
    BY <2>1, <2>2
<1>5. CASE Confirm(r)
  BY <1>5, JobStepKept DEF Confirm, Succeed
<1>6. CASE DeleteAccount(r)
  BY <1>6, JobStepKept DEF DeleteAccount, Succeed
<1> QED
  BY <1>1, <1>2, <1>3, <1>4, <1>5, <1>6 DEF UserStep

LEMMA CatalogueStepJob ==
  ASSUME TypeInv, ServerAssumption, JobsKnown, NEW r \in Requests, CatalogueStep(r)
  PROVE  JobsKnown'
<1> USE DEF Places, Writes, JobStep
<1>1. CASE ReadPage(r)
  BY <1>1 DEF ReadPage, requestVars, JobsKnown
<1>2. CASE ScanReturns(r)
  <2>1. at[r] = "scan" /\ (Finish(r) \/ Goto(r, "log"))
    BY <1>2 DEF ScanReturns, Succeed
  <2> QED
    BY <2>1, JobStepKept
<1>3. CASE StoreItem(r) \/ DropItem(r)
  <2>1. at[r] \in {"store", "drop"} /\ (Finish(r) \/ Goto(r, "scan"))
    BY <1>3 DEF StoreItem, DropItem, Stored, Failed
  <2> QED
    BY <2>1, JobStepKept
<1> QED
  BY <1>1, <1>2, <1>3 DEF CatalogueStep

LEMMA JobsKept ==
  ASSUME TypeInv, HandlersKnow, ServerAssumption, JobsKnown, [Next]_vars
  PROVE  JobsKnown'
<1>1. ASSUME NEW r \in Requests, NEW j \in agenda.jobs, Start(r, j)
      PROVE  JobsKnown'
  BY <1>1, StartIsJobStep, JobStepKept
<1>2. ASSUME NEW r \in Requests, Step(r)
      PROVE  JobsKnown'
  <2>1. CASE LogRow(r) \/ QueryEnds(r)
    BY <2>1, JobStepKept DEF LogRow, QueryEnds, JobStep
  <2>2. CASE ReadDay(r)
    BY <2>2 DEF ReadDay, requestVars, JobsKnown
  <2> QED
    BY <1>2, <2>1, <2>2, UserStepJob, CatalogueStepJob DEF Step
<1>3. CASE (BootScan \/ Seed) \/ UNCHANGED vars
  BY <1>3 DEF BootScan, Seed, vars, requestVars, JobsKnown
<1>4. CASE Restart
  BY <1>4 DEF Restart, JobsKnown
<1> QED
  BY <1>1, <1>2, <1>3, <1>4 DEF Next

-----------------------------------------------------------------------------
\* The initial state satisfies the invariant.
LEMMA InitInv == Init => IInv
<1> SUFFICES ASSUME Init PROVE IInv
  OBVIOUS
<1> USE DEF Init
<1>1. TypeInv
  <2>1. at \in [Requests -> Places] /\ job = [r \in Requests |-> job[r]]
    BY DEF RequestsInit, Places
  <2>2. UsersTypeOK
    <3> DEFINE admin == [role |-> "admin", disabled |-> FALSE, password |-> Initial]
    <3>1. admin \in Account
      BY DEF Account, Roles
    <3>2. /\ users \in {[u \in Users |-> None], [u \in Users |-> admin]}
          /\ removed = {}
      BY DEF UsersInit
    <3> HIDE DEF admin
    <3> QED
      BY <3>1, <3>2 DEF UsersTypeOK
  <2>3. CatalogueTypeOK /\ author \in [Stores -> [Keys -> Item]]
    BY DEF CatalogueInit, CatalogueTypeOK, RequestsInit, BuiltIn, Empty, Item, Stores
  <2> QED
    BY <2>1, <2>2, <2>3 DEF TypeInv, CatalogueTypes, CatalogueInit
<1>2. HandlersKnow /\ CatalogueKnows /\ ServesWhenUp
  BY DEF RequestsInit, HandlersKnow, KnowsAt, CatalogueKnows, CataloguePlaces, ServesWhenUp
<1>3. ScansAgree /\ CachesAgree
  BY DEF CatalogueInit, ScansAgree, CachesAgree, Stores
<1>4. WritersAgree
  BY CatalogueAssumption DEF RequestsInit, CatalogueInit, WritersAgree, AsAuthored, Writer, Editor,
                             Stores, Empty
<1>5. SeedGoesOn
  BY DEF CatalogueInit, SeedGoesOn, Stores
<1>6. ConfigInv
  BY DEF ConfigInit, ConfigInv, ConfigTypeOK, ConfigSurvivesRestart
<1>7. RegistryInv
  BY DEF RegistryInit, RegistryInv, RegistryTypeOK, SecretsSurviveRestart
<1>8. JobsKnown /\ LogInv
  BY ActivityAssumption DEF RequestsInit, ActivityInit, JobsKnown, LogInv
<1> QED
  BY <1>1, <1>2, <1>3, <1>4, <1>5, <1>6, <1>7, <1>8 DEF IInv, CatalogueInv

\* Every step preserves the invariant.
LEMMA StepInv == IInv /\ [Next]_vars => IInv'
<1> SUFFICES ASSUME IInv, [Next]_vars PROVE IInv'
  OBVIOUS
<1> USE ServerAssumption DEF IInv
<1>1. agenda' = agenda /\ at' \in [Requests -> Places] /\ job' = [r \in Requests |-> job'[r]]
  BY RequestsKept
<1>2. UsersTypeOK' /\ HandlersKnow'
  BY AccountsKept
<1>3. CatalogueTypes' /\ CatalogueInv'
  BY CatalogueKept DEF CatalogueGoal
<1>4. ConfigInv'
  BY ConfigKept DEF TypeInv
<1>5. RegistryInv'
  BY RegistryKept DEF TypeInv
<1>6. TypeInv'
  BY <1>1, <1>2, <1>3 DEF TypeInv
<1>7. JobsKnown'
  BY JobsKept
<1>8. LogInv'
  BY LogKept
<1> QED
  BY <1>2, <1>3, <1>4, <1>5, <1>6, <1>7, <1>8

\* Every state satisfies the invariant.
LEMMA Invariance == Spec => []IInv
BY InitInv, StepInv, PTL DEF Spec

\* user_store.py and the endpoints of bot.py: whatever requests race, an
\* account appears, changes and disappears in the ways they intend, but for the
\* row that a PATCH leaves of an account that was deleted.
THEOREM AccountsChangeAsIntended == Spec => AccountLifecycle
<1>1. IInv /\ [Next]_vars =>
        [\A u \in Users :
           users'[u] # users[u] =>
             \E r \in Requests :
               /\ Steps(r)
               /\ job[r].target = u
               /\ \/ at[r] = "delete" /\ users'[u] = None
                  \/ at[r] = "put" /\ users[u] = None /\ users'[u].password = r
                  \/ /\ at[r] = "update"
                     /\ users[u] = None => u \in removed
                     /\ users[u] # None =>
                          Cardinality({f \in {"role", "disabled", "password"} :
                                         users'[u][f] # users[u][f]}) = 1]_userVars
  BY LifecycleStep DEF IInv
<1> QED
  BY Invariance, <1>1, PTL DEF Spec, AccountLifecycle

\* The last admin who can log in is lost only to a request that demotes its own
\* actor, or whose actor has lost that role since it was looked up.
THEOREM LockOutOnlyStale == Spec => LockOutIsStale
<1>1. IInv /\ [Next]_vars =>
        [UsableAdmins # {} /\ UsableAdmins' = {} =>
           \E r \in Requests :
             /\ Steps(r)
             /\ \/ job[r].actor \notin UsableAdmins
                \/ /\ at[r] = "update"
                   /\ job[r].target = job[r].actor
                   /\ Head(job[r].changes).field = "role"]_userVars
  BY LockOutStep DEF IInv
<1> QED
  BY Invariance, <1>1, PTL DEF Spec, LockOutIsStale

\* demo_store.py and voice_store.py: a cache that nobody scans, and that no
\* failed or overlapping rescan has made doubtful, is what is stored.
THEOREM CacheSafety == Spec => []CacheIsCurrent
<1>1. IInv => CacheIsCurrent
  BY DEF IInv, CatalogueInv, CachesAgree, CacheIsCurrent
<1> QED
  BY Invariance, <1>1, PTL

\* The PATCH endpoints: of a store whose writes never overlapped, an item is
\* what the requests that set its fields made of it.
THEOREM EditSafety == Spec => []OmittedFieldsAreKept
<1>1. IInv => OmittedFieldsAreKept
  BY DEF IInv, CatalogueInv, WritersAgree, AsAuthored, OmittedFieldsAreKept
<1> QED
  BY Invariance, <1>1, PTL

\* seed_if_empty: the seed writes what is not there, and unless it was cut
\* short every built-in voice is there that was not deleted.
THEOREM SeedSafety == Spec => []SeedFillsAnEmptyTable
<1>1. IInv => SeedFillsAnEmptyTable
  <2> SUFFICES ASSUME IInv PROVE SeedFillsAnEmptyTable
    OBVIOUS
  <2>1. boot.phase = "seed" => \A k \in boot.left : table["voices"][k] = None
    BY DEF IInv, CatalogueInv, SeedGoesOn, TypeInv, CatalogueTypes, CatalogueTypeOK
  <2> QED
    BY <2>1 DEF IInv, CatalogueInv, SeedGoesOn, Whole, SeedFillsAnEmptyTable
<1> QED
  BY Invariance, <1>1, PTL

\* runtime_config.py: a restart loads what the calls were started with, but for
\* the fields whose write failed, and every language is one its engine serves.
THEOREM ConfigSafety == Spec => []ConfigSurvivesRestart
<1>1. IInv => ConfigSurvivesRestart
  BY DEF IInv, ConfigInv
<1> QED
  BY Invariance, <1>1, PTL

\* mcp_config.py: a restart loads the tool servers that the calls were given,
\* but for those whose write failed, and no mask is ever taken for a secret.
THEOREM RegistrySafety == Spec => []SecretsSurviveRestart
<1>1. IInv => SecretsSurviveRestart
  BY DEF IInv, RegistryInv
<1> QED
  BY Invariance, <1>1, PTL

\* Each value has its kind: the requests and their jobs, the accounts, the
\* tables and caches, the two documents, the log and the queries of it.
THEOREM TypeCorrect == Spec => []TypeOK
<1>1. IInv => TypeOK
  <2> SUFFICES ASSUME IInv PROVE TypeOK
    OBVIOUS
  <2>1. RequestsTypeOK
    BY DEF IInv, TypeInv, JobsKnown, RequestsTypeOK
  <2>2. ActivityTypeOK
    BY DEF IInv, LogInv, QuerySound, ActivityTypeOK
  <2> QED
    BY <2>1, <2>2 DEF IInv, TypeInv, CatalogueTypes, ConfigInv, RegistryInv, TypeOK
<1> QED
  BY Invariance, <1>1, PTL

\* ActivityStore.query: whatever is logged between two pages, and wherever a
\* page ends, the pages are newest first, and have every row by the last one.
THEOREM PagesSafety == Spec => []PagesAreComplete
<1>1. IInv => PagesAreComplete
  <2> SUFFICES ASSUME IInv, NEW r \in Requests, reading[r] # None
               PROVE  LET sent == reading[r].sent IN
                      /\ \A i \in 1..(Len(sent) - 1) : Newer(sent[i], sent[i + 1])
                      /\ reading[r].day = 0 => reading[r].present \subseteq ToSet(sent)
    BY DEF PagesAreComplete
  <2> DEFINE q == reading[r]
  <2>1. QuerySound(q)
    BY DEF IInv, LogInv
  <2>2. q.sent \in Seq(Rows) /\ q.page \in Seq(Rows) /\ q.present \subseteq Rows /\ Collects(q)
    BY <2>1 DEF QuerySound, Reading
  <2>3. Descends(q.sent)
    BY <2>2, DescendingParts DEF Collects
  <2>4. ASSUME q.day = 0, NEW row \in q.present
        PROVE  row \in ToSet(q.sent)
    <3>1. q.page = <<>> /\ q.sent \o <<>> = q.sent
      BY <2>1, <2>2, <2>4, ConcatEmptySeq DEF QuerySound
    <3>2. row[1] > 0
      BY <2>2, TodayIsLast
    <3>3. Has(q.sent, row)
      BY <2>2, <2>4, <3>1, <3>2 DEF Collects
    <3> QED
      BY <2>2, <3>3 DEF Has, ToSet
  <2>5. \A i \in 1..(Len(q.sent) - 1) : Newer(q.sent[i], q.sent[i + 1])
    BY <2>2, <2>3 DEF Descends
  <2> QED
    BY <2>4, <2>5
<1> QED
  BY Invariance, <1>1, PTL
=============================================================================
