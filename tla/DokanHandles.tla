---------------------------- MODULE DokanHandles ----------------------------
(***************************************************************************)
(* Opening and using files on a Dokan volume                               *)
(* (src/crates/fsmnt-dokan/src/dokan.rs, DokanFs, and cache.rs,            *)
(* MetadataCache).  Dokan calls back on several threads.  The filesystem,  *)
(* the metadata cache and each handle's target have a lock of their own,   *)
(* and an operation takes them one after another: what a thread learned    *)
(* under one lock it uses after it was released.  So an operation here is  *)
(* several steps, one per lock.                                            *)
(*                                                                         *)
(* The volume is read-only: Truth[p] is what is at path p ("missing" when  *)
(* there is nothing) and never changes, but any call of the filesystem may *)
(* fail.  Metadata is what it says about the kind.                         *)
(***************************************************************************)
EXTENDS Naturals, FiniteSets, Sequences

CONSTANTS
  Threads,    \* Dokan's callback threads, each with at most one handle
  Truth,      \* path -> "file", "dir" or "missing"
  Visible,    \* directory -> the sequence of its children after filter_entries
  Capacity    \* PATH_CACHE_CAPACITY

Paths == DOMAIN Truth

VARIABLES
  entries,    \* MetadataCache.entries: path -> what was found there
  order,      \* MetadataCache.insertion_order
  handle,     \* thread -> its open handle, or NoHandle
  doing       \* thread -> the operation it is in the middle of

vars == <<entries, order, handle, doing>>

NoHandle == [path |-> <<"none">>, info |-> "none", target |-> "none"]
Idle == [step |-> "idle"]

Init == /\ entries = [p \in {} |-> "missing"]
        /\ order = <<>>
        /\ handle = [t \in Threads |-> NoHandle]
        /\ doing = [t \in Threads |-> Idle]

(***************************************************************************)
(* `MetadataCache::insert`: a path that is known is overwritten in place,  *)
(* a new one evicts the oldest.  The cache is a pair so that a listing can *)
(* insert its entries one after another.                                   *)
(***************************************************************************)
Cache == [entries |-> entries, order |-> order]

Evicted(cache) ==
  LET oldest == Head(cache.order)
  IN  [entries |-> [p \in DOMAIN cache.entries \ {oldest} |-> cache.entries[p]],
       order   |-> Tail(cache.order)]

Full(cache) == Cardinality(DOMAIN cache.entries) >= Capacity

insert(cache, path, value) ==
  IF path \in DOMAIN cache.entries
  THEN [cache EXCEPT !.entries = [@ EXCEPT ![path] = value]]
  ELSE LET room == IF Full(cache) /\ cache.order # <<>> THEN Evicted(cache) ELSE cache
       IN  [entries |-> [p \in DOMAIN room.entries \cup {path} |->
                           IF p = path THEN value ELSE room.entries[p]],
            order   |-> Append(room.order, path)]

Store(cache) == entries' = cache.entries /\ order' = cache.order

(***************************************************************************)
(* `open_path`: the cache first, then `resolve_target`.  A handle made     *)
(* from cached metadata has no target yet.                                 *)
(***************************************************************************)
FromCache(t, path) ==
  IF entries[path] = "missing" THEN handle
  ELSE [handle EXCEPT ![t] = [path |-> path, info |-> entries[path], target |-> "none"]]

open_path(t, path) ==
  /\ doing[t] = Idle /\ handle[t] = NoHandle
  /\ IF path \in DOMAIN entries
     THEN handle' = FromCache(t, path) /\ UNCHANGED doing
     ELSE /\ doing' = [doing EXCEPT ![t] = [step |-> "resolve", path |-> path, for |-> "open"]]
          /\ UNCHANGED handle
  /\ UNCHANGED <<entries, order>>

\* `fs.open(path)` under the filesystem's lock.
resolve_target(t, result) ==
  /\ doing[t].step = "resolve"
  /\ result \in {Truth[doing[t].path], "error"}
  /\ doing' = [doing EXCEPT ![t] = [step |-> "record", path |-> doing[t].path,
                                    for |-> doing[t].for, result |-> result]]
  /\ UNCHANGED <<entries, order, handle>>

\* What `resolve_target` learned goes into the cache; only a path that is not
\* there is remembered as missing.
RecordedAnyError(result) == IF result = "error" THEN "missing" ELSE result
Recorded(result) == result

After(t, cont) ==
  doing' = [doing EXCEPT ![t] = IF cont = "open" THEN Idle ELSE [step |-> cont]]

record_target(t) ==
  /\ doing[t].step = "record"
  /\ LET path   == doing[t].path
         result == Recorded(doing[t].result)
     IN  /\ IF result = "error" THEN UNCHANGED <<entries, order>>
            ELSE Store(insert(Cache, path, result))
         /\ IF result \in {"file", "dir"}
            THEN /\ handle' = [handle EXCEPT ![t] =
                      [path |-> path, target |-> result,
                       info |-> IF doing[t].for = "open" THEN result ELSE @.info]]
                 /\ After(t, doing[t].for)
            ELSE UNCHANGED handle /\ After(t, "open")

(***************************************************************************)
(* `read_file` and `fill_directory`: `ensure_target`, then the target.     *)
(***************************************************************************)
Use(t, operation) ==
  /\ doing[t] = Idle /\ handle[t] # NoHandle
  /\ doing' = [doing EXCEPT ![t] =
       IF handle[t].target = "none"
       THEN [step |-> "resolve", path |-> handle[t].path, for |-> operation]
       ELSE [step |-> operation]]
  /\ UNCHANGED <<entries, order, handle>>

read_file(t) == Use(t, "read")
find_files(t) == Use(t, "list")

read_target(t) ==
  /\ doing[t].step = "read"
  /\ doing' = [doing EXCEPT ![t] = Idle]
  /\ UNCHANGED <<entries, order, handle>>

\* `cache_directory_entries` seeds the cache from the listing, all children
\* under one lock.
cache_directory_entries(children) ==
  LET cache[i \in 0..Len(children)] ==
        IF i = 0 THEN Cache ELSE insert(cache[i - 1], children[i], Truth[children[i]])
  IN  cache[Len(children)]

fill_directory(t) ==
  /\ doing[t].step = "list"
  /\ doing' = [doing EXCEPT ![t] = Idle]
  /\ \/ UNCHANGED <<entries, order>>     \* not a directory, or the listing failed
     \/ /\ handle[t].target = "dir"
        /\ Store(cache_directory_entries(Visible[handle[t].path]))
  /\ UNCHANGED handle

close_file(t) ==
  /\ doing[t] = Idle /\ handle[t] # NoHandle
  /\ handle' = [handle EXCEPT ![t] = NoHandle]
  /\ UNCHANGED <<entries, order, doing>>

Next == \E t \in Threads :
  \/ \E path \in Paths : open_path(t, path)
  \/ \E result \in {"file", "dir", "missing", "error"} : resolve_target(t, result)
  \/ record_target(t) \/ read_target(t) \/ fill_directory(t)
  \/ read_file(t) \/ find_files(t) \/ close_file(t)

Spec == Init /\ [][Next]_vars

-----------------------------------------------------------------------------
(* The cache answers for the volume: whatever the threads interleave and    *)
(* whichever calls fail, what it holds for a path is what is there.  In     *)
(* particular a failed read never turns into "no such file" for as long as  *)
(* the volume is mounted.                                                   *)
CacheTruthful == \A p \in DOMAIN entries : entries[p] = Truth[p]

(* The cache stays within its capacity, and insertion_order lists exactly   *)
(* the paths it holds, each once: a path queued twice would be evicted      *)
(* early, one not queued never.                                             *)
CacheBounded ==
  /\ Cardinality(DOMAIN entries) <= Capacity
  /\ {order[i] : i \in DOMAIN order} = DOMAIN entries
  /\ Len(order) = Cardinality(DOMAIN entries)

(* A handle exists only for a path that does, and its file information and  *)
(* its target are those of the path, also when the handle was made from the *)
(* cache and the target resolved later.                                     *)
HandleTruthful ==
  \A t \in Threads : handle[t] # NoHandle =>
    /\ handle[t].info = Truth[handle[t].path] /\ handle[t].info # "missing"
    /\ handle[t].target \in {"none", handle[t].info}
=============================================================================
