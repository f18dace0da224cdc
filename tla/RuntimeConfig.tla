---------------------------- MODULE RuntimeConfig ---------------------------
(***************************************************************************)
(* RuntimeConfig of runtime_config.py and the endpoints that change it: a  *)
(* document in memory over a JSON file.  Nothing in it awaits, so each     *)
(* operation is one step.                                                  *)
(***************************************************************************)
EXTENDS AdminRequests

CONSTANTS
  Segments,        \* web, phone
  Engines, Langs,
  Served,          \* the languages that an engine can serve
  Fallback         \* the segment of the code's defaults

Segment == [engine : Engines, lang : Langs]

ASSUME ConfigAssumption ==
  /\ Served \in [Engines -> SUBSET Langs]
  /\ Fallback \in Segment
  /\ Fallback.lang \in Served[Fallback.engine]
  /\ None \notin [Segments -> Segment]

VARIABLES
  memory,          \* _cache
  file,            \* None: there is no file
  refused          \* history: what the failed writes since the last good one changed

configVars == <<memory, file, refused>>

\* The body of a request: a field that has changed.
ConfigJob(j) ==
  j.op = "config" =>
    /\ j.segment \in Segments
    /\ \/ j.field = "engine" /\ j.value \in Engines
       \/ j.field = "lang" /\ j.value \in Langs

ConfigInit == memory = None /\ file = None /\ refused = {}

ConfigTypeOK ==
  /\ memory \in [Segments -> Segment] \cup {None}
  /\ file \in [Segments -> Segment] \cup {None}
  /\ refused \subseteq Segments \X {"engine", "lang"}

\* _load_or_seed, on the first access: a file that is not there is written.
Loaded == IF file = None THEN [s \in Segments |-> Fallback] ELSE file

Document == IF memory = None THEN Loaded ELSE memory

\* A mutant of Valid: the updates alone are looked at.
ValidAlone(segment, j) == j.value \in Engines \cup Langs

\* _validate_segment, on the merged segment.
Valid(segment, j) == segment.lang \in Served[segment.engine]

\* PUT /api/admin/config/web and .../phone: the document in memory is changed
\* first, then written.
UpdateConfig(r, j) ==
  LET new == [Document[j.segment] EXCEPT ![j.field] = j.value]
      document == [Document EXCEPT ![j.segment] = new]
  IN  /\ j.op = "config"
      /\ IF Valid(new, j)
           THEN \/ /\ Serve(r, j, "log")
                   /\ memory' = document
                   /\ file' = document
                   /\ refused' = {}
                \/ /\ at[r] = "new"
                   /\ Finish(r)
                   /\ memory' = document
                   /\ file' = Loaded
                   /\ refused' = refused \cup {<<j.segment, j.field>>}
           ELSE /\ at[r] = "new"
                /\ Finish(r)
                /\ memory' = Document
                /\ file' = Loaded
                /\ UNCHANGED refused

ConfigRestart == memory' = None /\ refused' = {} /\ UNCHANGED file

-----------------------------------------------------------------------------
\* What the calls are started with is what a restart would load, apart from
\* the fields whose write failed since the last good one; in both every
\* language is one that the engine serves.
ConfigSurvivesRestart ==
  /\ memory # None =>
       \A s \in Segments, f \in {"engine", "lang"} :
         memory[s][f] = file[s][f] \/ <<s, f>> \in refused
  /\ \A document \in {memory, file} \ {None}, s \in Segments :
       document[s].lang \in Served[document[s].engine]
=============================================================================
