------------------------------ MODULE MCAccess ------------------------------
\* Roles and SkillCache, both about copies of rows that outlive a change of the
\* row, on small instances.  They share no state, so a behaviour is a behaviour of
\* one of them, chosen at the start, and the other stays as it is.
EXTENDS SkillCache, Roles

VARIABLE focus

vars == <<cacheVars, roleVars, focus>>

Init == focus \in {"cache", "roles"} /\ CacheInit /\ RoleInit

Next ==
  /\ UNCHANGED focus
  /\ \/ focus = "cache" /\ CacheNext /\ UNCHANGED roleVars
     \/ focus = "roles" /\ RoleNext /\ UNCHANGED cacheVars

Spec == Init /\ [][Next]_vars /\ CacheFairness /\ RoleFairness
=============================================================================
