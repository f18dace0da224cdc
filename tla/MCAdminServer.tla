--------------------------- MODULE MCAdminServer ----------------------------
(***************************************************************************)
(* AdminServer with two admins and a few requests of each kind.            *)
(***************************************************************************)
EXTENDS AdminServer, TLC

CONSTANTS u1, u2, k1, k2, r1, r2, r3

To(field, value) == [field |-> field, value |-> value]

Accounts ==
  [op : {"setup"}, target : Users]
    \cup [op : {"create"}, actor : {u1}, target : {u2}, role : {"user"}]
    \cup [op : {"delete"}, actor : {u1}, target : Users]
    \cup [op : {"delete"}, actor : {u2}, target : {u1}]
    \cup [op : {"patch"}, actor : {u1}, target : Users, changes : {<<To("role", "user")>>}]
    \cup [op : {"patch"}, actor : {u1}, target : {u1},
          changes : {<<To("password", None), To("disabled", TRUE)>>}]

Demos ==
  [op : {"edit"}, actor : {u1}, store : {"demos"}, key : {k1}, field : Fields]
    \cup [op : {"rescan"}, actor : {u1}, store : {"demos"}]

Voices ==
  [op : {"edit"}, actor : {u1}, store : {"voices"}, key : {k1}, field : {"f1"}]
    \cup [op : {"add"}, actor : {u1}, store : {"voices"}, key : {k1}]
    \cup [op : {"drop"}, actor : {u1}, store : {"voices"}, key : Keys]

Config ==
  [op : {"config"}, actor : {u1}, segment : {"web"}, field : {"engine"}, value : {"nova-sonic"}]
    \cup [op : {"config"}, actor : {u1}, segment : Segments, field : {"lang"}, value : {"zh-HK"}]

\* The admin UI sends every header back, typed anew or as it was shown.
Mcp ==
  [op : {"upsert"}, actor : {u1}, server : Servers,
   headers : [Headers -> {"typed", "shown", "absent"}]]
    \cup [op : {"unmount"}, actor : {u1}, server : Servers]

Query == [op : {"query"}, actor : {u1}]

\* The accounts are not cached: a restart is to them what a failed request is.
OneOfEach ==
  {[jobs |-> Accounts, restarts |-> FALSE]}
    \cup [jobs : {Demos, Voices, Config \cup Query, Mcp}, restarts : {TRUE}]

ServedLanguages == [pipeline |-> {"en-US", "zh-HK"}] @@ ("nova-sonic" :> {"en-US"})
Defaults == [engine |-> "pipeline", lang |-> "en-US"]

OldRows == {<<1, 1>>, <<1, 3>>, <<2, 2>>}
AllRows == OldRows \cup {<<1, 2>>, <<2, 4>>}

RequestSymmetry == Permutations(Requests)
=============================================================================
