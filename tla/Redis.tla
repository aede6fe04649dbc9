------------------------------- MODULE Redis --------------------------------
(***************************************************************************)
(* RedisService: a cache of values by key, and delByPattern, which scans   *)
(* for the keys of a pattern with a cursor and deletes them batch by batch *)
(* while other requests read and write. A scan returns every key that is   *)
(* there from its beginning to its end; a key that comes or goes meanwhile *)
(* it may return or miss.                                                  *)
(***************************************************************************)
EXTENDS Handlers

VARIABLES
  cache,  \* the values, by key
  scans   \* by request: the keys its scan has still to return

redis == <<cache, scans>>

RedisInit ==
  /\ cache = [key \in {} |-> 0]
  /\ scans = [p \in Requests |-> {}]

Cached == DOMAIN cache

Store(key, value) ==
  /\ cache' = [k \in Cached \cup {key} |-> IF k = key THEN value ELSE cache[k]]
  /\ UNCHANGED scans

\* The keys are gone, for any scan too.
Forget(keys) ==
  /\ cache' = [key \in Cached \ keys |-> cache[key]]
  /\ scans' = [p \in Requests |-> scans[p] \ keys]

BeginScan(p, keys) ==
  /\ scans' = [scans EXCEPT ![p] = keys \cap Cached]
  /\ UNCHANGED cache

\* One of the keys the scan returned is deleted.
ScanDeletes(keys) == \E key \in keys \cap Cached : Forget({key})

\* The cursor is back at 0.
ScanDone(p) == scans[p] = {} /\ UNCHANGED redis
=============================================================================
