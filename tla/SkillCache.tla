----------------------------- MODULE SkillCache -----------------------------
(***************************************************************************)
(* The in-process caches of several instances of the server (utils/        *)
(* cache.ts) over the skills they list: the categories, evicted by the     *)
(* instance that changed a skill, and the dashboard, evicted by nobody.  A *)
(* list is queried, and stored when the query returns, so it may be older  *)
(* than the eviction it survives; only its lifetime ends it.               *)
(***************************************************************************)
EXTENDS Naturals

CONSTANTS
  Skills,     \* BOUND: skills ever created
  Categories, \* categories a skill may have
  Servers,    \* instances, each with a cache of its own
  Fills,      \* cache misses being computed at once
  MaxChanges  \* BOUND: changes to skills

ASSUME CacheConstants == MaxChanges \in Nat

VARIABLES
  skill,   \* skill[s]: its category while active; "draft" before, "deleted" after
  evict,   \* evict[i]: instance i changed a skill and has its key still to delete
  entry,   \* entry[i][k]: what instance i stores under key k
  fill,    \* fill[f]: a miss being computed, the value once the query returned
  changes  \* changes so far

cacheVars == <<skill, evict, entry, fill, changes>>

Keys  == {"skills:categories", "admin:dashboard"}
Empty == [held |-> FALSE, expired |-> FALSE, value |-> {}]
NoFill == [at |-> "idle", server |-> "none", key |-> "none", value |-> {}]

ActiveSkills == {s \in Skills : skill[s] \in Categories}

\* What the two queries return: the distinct categories, and totals of skills.
Compute(k) ==
  IF k = "skills:categories" THEN {skill[s] : s \in ActiveSkills} ELSE ActiveSkills

CacheInit ==
  /\ skill = [s \in Skills |-> "draft"]
  /\ evict = [i \in Servers |-> FALSE]
  /\ entry = [i \in Servers |-> [k \in Keys |-> Empty]]
  /\ fill = [f \in Fills |-> NoFill]
  /\ changes = 0

\* A slip a change to this code could make.
HeldForever(e) == e.held

Change(i, s, to) ==
  /\ changes < MaxChanges
  /\ ~evict[i]
  /\ skill' = [skill EXCEPT ![s] = to]
  /\ changes' = changes + 1
  /\ evict' = [evict EXCEPT ![i] = TRUE]
  /\ UNCHANGED <<entry, fill>>

CreateSkill(i, s, cat) == skill[s] = "draft" /\ Change(i, s, cat)
UpdateSkill(i, s, cat) == s \in ActiveSkills /\ Change(i, s, cat)
DeleteSkill(i, s)      == s \in ActiveSkills /\ Change(i, s, "deleted")

\* cache.del on the instance that made the change, after its statement returned.
Evict(i) ==
  /\ evict[i]
  /\ evict' = [evict EXCEPT ![i] = FALSE]
  /\ entry' = [entry EXCEPT ![i]["skills:categories"] = Empty]
  /\ UNCHANGED <<skill, fill, changes>>

\* The instance restarts before it evicts: its whole cache is gone.
Restart(i) ==
  /\ evict' = [evict EXCEPT ![i] = FALSE]
  /\ entry' = [entry EXCEPT ![i] = [k \in Keys |-> Empty]]
  /\ fill' = [f \in Fills |-> IF fill[f].server = i THEN NoFill ELSE fill[f]]
  /\ UNCHANGED <<skill, changes>>

Fresh(e) == e.held /\ ~e.expired

\* wrap finds nothing to serve and starts the query ...
Miss(f, i, k) ==
  /\ fill[f] = NoFill
  /\ ~Fresh(entry[i][k])
  /\ fill' = [fill EXCEPT ![f] = [at |-> "asked", server |-> i, key |-> k, value |-> {}]]
  /\ entry' = [entry EXCEPT ![i][k] = Empty]
  /\ UNCHANGED <<skill, evict, changes>>

\* ... which the database answers ...
Query(f) ==
  /\ fill[f].at = "asked"
  /\ fill' = [fill EXCEPT ![f].at = "answered", ![f].value = Compute(fill[f].key)]
  /\ UNCHANGED <<skill, evict, entry, changes>>

\* ... and the answer is stored for a whole lifetime.
Store(f) ==
  /\ fill[f].at = "answered"
  /\ entry' = [entry EXCEPT ![fill[f].server][fill[f].key] =
                 [held |-> TRUE, expired |-> FALSE, value |-> fill[f].value]]
  /\ fill' = [fill EXCEPT ![f] = NoFill]
  /\ UNCHANGED <<skill, evict, changes>>

Age(i, k) ==
  /\ entry[i][k].held /\ ~entry[i][k].expired
  /\ entry' = [entry EXCEPT ![i][k].expired = TRUE]
  /\ UNCHANGED <<skill, evict, fill, changes>>

CacheNext ==
  \/ \E i \in Servers, s \in Skills :
       DeleteSkill(i, s) \/ \E cat \in Categories : CreateSkill(i, s, cat) \/ UpdateSkill(i, s, cat)
  \/ \E i \in Servers : Evict(i) \/ Restart(i)
  \/ \E f \in Fills : Query(f) \/ Store(f) \/ \E i \in Servers, k \in Keys : Miss(f, i, k)
  \/ \E i \in Servers, k \in Keys : Age(i, k)

\* Queries return, what they returned is stored, and entries age.
CacheFairness ==
  /\ \A f \in Fills : WF_cacheVars(Query(f)) /\ WF_cacheVars(Store(f))
  /\ \A i \in Servers, k \in Keys : WF_cacheVars(Age(i, k))

CacheTypeOK ==
  /\ skill \in [Skills -> Categories \cup {"draft", "deleted"}]
  /\ evict \in [Servers -> BOOLEAN]
  /\ \A i \in Servers, k \in Keys : entry[i][k].value \subseteq Categories \cup Skills
  /\ \A f \in Fills : fill[f].at \in {"idle", "asked", "answered"}
  /\ changes \in 0 .. MaxChanges

\* Once the skills stay as they are, every instance ends up serving the truth
\* and nothing else, whatever fills and evictions crossed before (cache.ts:59).
\* The changes are bounded, so they do end.
CacheConverges ==
  <>[](\A i \in Servers, k \in Keys : Fresh(entry[i][k]) => entry[i][k].value = Compute(k))
=============================================================================
