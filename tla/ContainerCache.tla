--------------------------- MODULE ContainerCache ---------------------------
(***************************************************************************)
(* GridStoreChannel::ContainerCache (client.cpp): the schemas and the idle *)
(* sessions that a GSGridStore keeps for the containers it opens again.    *)
(* The operators are the operations of the class; a cache is a record of   *)
(* its fields.  schemaNameMap and sessionKeyMap list the entries by age    *)
(* (a larger number is younger) and are what the size limit looks at.      *)
(***************************************************************************)
EXTENDS Naturals, FiniteSetsExt, Functions

CONSTANTS CacheSize,    \* cacheSize_, the property containerCacheSize
          NoSession     \* takeSession and cacheSession found no session

(* With the size 0 there is no cache at all. *)
ASSUME CacheAssumption == CacheSize \in Nat \ {0}

(* A map with the entry y for x, and without the entry for x. *)
With(f, x, y) == [z \in DOMAIN f \cup {x} |-> IF z = x THEN y ELSE f[z]]
Without(f, x) == Restrict(f, DOMAIN f \ {x})

(* lastSessionCacheId_ is left out: nothing reads it. *)
EmptyCache ==
  [schemaCache |-> <<>>, schemaNameMap |-> <<>>, lastSchemaCacheId |-> 0,
   sessionCache |-> <<>>, sessionKeyMap |-> <<>>]

-----------------------------------------------------------------------------
(* Schemas, by container name. *)

(* Mutant: the name stays in the list of ages. *)
RemoveSchemaKeepsName(cache, key) ==
  IF key \notin DOMAIN cache.schemaCache THEN cache
  ELSE [cache EXCEPT !.schemaCache = Without(@, key)]

RemoveSchema(cache, key) ==
  IF key \notin DOMAIN cache.schemaCache THEN cache
  ELSE [cache EXCEPT
          !.schemaNameMap = Without(@, cache.schemaCache[key].id),
          !.schemaCache = Without(@, key)]

(* A new youngest entry for key. *)
InsertSchema(cache, key, container, version) ==
  LET id == cache.lastSchemaCacheId + 1
      schema == [id |-> id, container |-> container, version |-> version]
  IN [RemoveSchema(cache, key) EXCEPT
        !.lastSchemaCacheId = id,
        !.schemaCache = With(@, key, schema),
        !.schemaNameMap = With(@, id, key)]

CacheSchema(cache, key, container, version) ==
  LET inserted == InsertSchema(cache, key, container, version)
      names == inserted.schemaNameMap
  IN IF Cardinality(DOMAIN names) > CacheSize
     THEN RemoveSchema(inserted, names[Min(DOMAIN names)]) ELSE inserted

-----------------------------------------------------------------------------
(* Sessions, by container. *)

(* Mutant: the session stays in the cache. *)
TakeSessionKeeps(cache, container) == cache

(* The cache without the session of container. *)
TakeSession(cache, container) ==
  IF container \notin DOMAIN cache.sessionCache THEN cache
  ELSE [cache EXCEPT
          !.sessionKeyMap = Without(@, cache.sessionCache[container].id),
          !.sessionCache = Without(@, container)]

CachedSession(cache, container) ==
  IF container \notin DOMAIN cache.sessionCache THEN NoSession
  ELSE cache.sessionCache[container]

(* A new entry for container.  Its number is the one of the youngest       *)
(* schema, not a fresh one: entries with the same number replace each      *)
(* other in sessionKeyMap.                                                 *)
InsertSession(cache, container, session, statement) ==
  LET id == cache.lastSchemaCacheId
      info == [id |-> id, container |-> container,
               session |-> session, statement |-> statement]
  IN [TakeSession(cache, container) EXCEPT
        !.sessionCache = With(@, container, info),
        !.sessionKeyMap = With(@, id, container)]

(* The container whose session has to make room, if the limit is reached.  *)
Evictee(cache, container, inserted) ==
  LET ages == inserted.sessionKeyMap IN
  IF /\ container \notin DOMAIN cache.sessionCache
     /\ Cardinality(DOMAIN ages) > CacheSize
  THEN {ages[Min(DOMAIN ages)]} ELSE {}

(* The cache with the session, and the session that the caller must close. *)
CacheSession(cache, container, session, statement) ==
  LET inserted == InsertSession(cache, container, session, statement)
      evictee == Evictee(cache, container, inserted)
  IN IF evictee = {}
     THEN [cache |-> inserted, old |-> CachedSession(cache, container)]
     ELSE LET evicted == CHOOSE x \in evictee : TRUE IN
          [cache |-> TakeSession(inserted, evicted),
           old |-> CachedSession(inserted, evicted)]

(* takeAllSessions *)
ForgetSessions(cache) ==
  [cache EXCEPT !.sessionCache = <<>>, !.sessionKeyMap = <<>>]
=============================================================================
