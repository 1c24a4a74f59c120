------------------------------- MODULE OpsState -------------------------------
(***************************************************************************)
(* The operator state that survives a restart (ops_state_persistence.py):  *)
(* one payload, kept in a JSON file and in one Postgres row, with a short  *)
(* cache of the row.                                                       *)
(*                                                                         *)
(* save_ops_state loads the payload, lays its patch over it and writes it  *)
(* back to both places, under _LOCK.  load_ops_state takes no lock and     *)
(* fills the same cache.  Every failure is logged and swallowed: a read    *)
(* that failed counts as an empty payload, a write that failed as done.    *)
(* A row write whose caller timed out is still running and lands later.    *)
(*                                                                         *)
(* A payload is a version per key, the number of the save that wrote it.   *)
(* The debounce by digest is left out: every save ends by clearing the     *)
(* digest it would be compared with, so it never holds a write back.       *)
(***************************************************************************)
EXTENDS Integers, FiniteSets

CONSTANTS
    Key,            \* keys of the payload
    Saver,          \* threads inside save_ops_state
    Reader,         \* threads inside load_ops_state, outside _LOCK
    Free,           \* nobody holds _LOCK
    MaxSaves,       \* bound on saves
    MaxFaults,      \* bound on failed reads, failed or late writes, restarts
    MaxReads        \* bound on loads outside the lock

ASSUME ThreadAssumption == Saver \cap Reader = {} /\ Free \notin Saver \cup Reader
ASSUME BoundAssumption ==
    MaxSaves \in Nat /\ MaxFaults \in Nat /\ MaxReads \in Nat

Thread == Saver \cup Reader
Version == 0..MaxSaves
Payload == [Key -> Version]
Empty == [k \in Key |-> 0]

VARIABLES
    file,           \* the JSON file
    row,            \* the payload column of the singleton row
    cache,          \* _pg_state_cache: the rows, or none; fresh within the TTL
    lock,           \* who holds _LOCK
    at,             \* where a thread is
    got,            \* the payload it works with
    rows,           \* what its fetch returned
    seen,           \* how its load learnt of the row
    keys,           \* the keys of its patch
    mine,           \* the version its patch gives them
    orphans,        \* row writes whose caller timed out
    saves, reads, faults,
    saved,          \* history: each key's version by the last finished save
    spoilt          \* history: the store met something it cannot hide

threads == <<at, got, rows, seen, keys, mine>>
bounds == <<saves, reads, faults>>
vars == <<file, row, cache, lock, threads, orphans, bounds, saved, spoilt>>

At == {"idle", "file", "cache", "store", "loaded", "row", "reset"}
\* row: what the row held; late: a cached copy stored after the row had moved
\* on; failed: nothing, the fetch failed; overtaken: a late write came between.
Seen == {"row", "late", "failed", "overtaken"}
NoCache == [rows |-> Empty, set |-> FALSE, fresh |-> FALSE, late |-> FALSE]

TypeOK ==
    /\ file \in Payload /\ row \in Payload /\ saved \in Payload
    /\ cache \in [rows : Payload, set : BOOLEAN, fresh : BOOLEAN, late : BOOLEAN]
    /\ lock \in Saver \cup {Free}
    /\ at \in [Thread -> At]
    /\ got \in [Thread -> Payload] /\ rows \in [Thread -> Payload]
    /\ seen \in [Thread -> Seen]
    /\ keys \in [Saver -> SUBSET Key] /\ mine \in [Saver -> Version]
    /\ orphans \subseteq Payload
    /\ saves \in 0..MaxSaves /\ reads \in 0..MaxReads /\ faults \in 0..MaxFaults
    /\ spoilt \in BOOLEAN

Init ==
    /\ file = Empty /\ row = Empty /\ saved = Empty
    /\ cache = NoCache
    /\ lock = Free
    /\ at = [t \in Thread |-> "idle"]
    /\ got = [t \in Thread |-> Empty] /\ rows = [t \in Thread |-> Empty]
    /\ seen = [t \in Thread |-> "row"]
    /\ keys = [s \in Saver |-> {}] /\ mine = [s \in Saver |-> 0]
    /\ orphans = {}
    /\ saves = 0 /\ reads = 0 /\ faults = 0
    /\ spoilt = FALSE

\* The locals of a thread that is done.
Forget(t) ==
    /\ got' = [got EXCEPT ![t] = Empty]
    /\ rows' = [rows EXCEPT ![t] = Empty]
    /\ seen' = [seen EXCEPT ![t] = "row"]

Fault == faults < MaxFaults /\ faults' = faults + 1

\* Mutant: the file is laid over the row.
MergedFileWins(f, r) == [k \in Key |-> IF f[k] # 0 THEN f[k] ELSE r[k]]

\* {**file_state, **pg_state}: the row wins, the file fills the gaps.
Merged(f, r) == [k \in Key |-> IF r[k] # 0 THEN r[k] ELSE f[k]]
\* Mutant: the patch replaces the payload.
UpdatedPatchOnly(p, ks, v) == [k \in Key |-> IF k \in ks THEN v ELSE 0]

\* current.update(patch).
Updated(p, ks, v) == [k \in Key |-> IF k \in ks THEN v ELSE p[k]]

-----------------------------------------------------------------------------
(* load_ops_state, by a reader or by the holder of the lock.               *)

BeginLoad(r) ==
    /\ at[r] = "idle"
    /\ reads < MaxReads
    /\ reads' = reads + 1
    /\ at' = [at EXCEPT ![r] = "file"]
    /\ UNCHANGED <<file, row, cache, lock, got, rows, seen, keys, mine, orphans,
                   saves, faults, saved, spoilt>>

\* Mutant: the merge is not done under the lock.
BeginSaveUnlocked(s) ==
    /\ at[s] = "idle"
    /\ saves < MaxSaves
    /\ lock' = s
    /\ saves' = saves + 1
    /\ \E ks \in SUBSET Key \ {{}} : keys' = [keys EXCEPT ![s] = ks]
    /\ mine' = [mine EXCEPT ![s] = saves + 1]
    /\ at' = [at EXCEPT ![s] = "file"]
    /\ UNCHANGED <<file, row, cache, got, rows, seen, orphans, reads, faults,
                   saved, spoilt>>

BeginSave(s) ==
    /\ at[s] = "idle"
    /\ saves < MaxSaves
    /\ lock = Free
    /\ lock' = s
    /\ saves' = saves + 1
    /\ \E ks \in SUBSET Key \ {{}} : keys' = [keys EXCEPT ![s] = ks]
    /\ mine' = [mine EXCEPT ![s] = saves + 1]
    /\ at' = [at EXCEPT ![s] = "file"]
    /\ UNCHANGED <<file, row, cache, got, rows, seen, orphans, reads, faults,
                   saved, spoilt>>

\* Mutant: what the file holds is taken without asking whether it is a mapping.
ReadFileAny(t) ==
    /\ at[t] = "file"
    /\ got' = [got EXCEPT ![t] = [k \in {} |-> 0]]
    /\ at' = [at EXCEPT ![t] = "cache"]
    /\ UNCHANGED <<file, row, cache, lock, rows, seen, keys, mine, orphans, bounds,
                   saved, spoilt>>

\* An unreadable file counts as an empty one.
ReadFile(t) ==
    /\ at[t] = "file"
    /\ \/ got' = [got EXCEPT ![t] = file] /\ UNCHANGED faults
       \/ Fault /\ got' = [got EXCEPT ![t] = Empty]
    /\ at' = [at EXCEPT ![t] = "cache"]
    /\ UNCHANGED <<file, row, cache, lock, rows, seen, keys, mine, orphans, saves,
                   reads, saved, spoilt>>

\* _load_postgres_state within the TTL: no fetch.
ReadCache(t) ==
    /\ at[t] = "cache"
    /\ cache.set /\ cache.fresh
    /\ got' = [got EXCEPT ![t] = Merged(got[t], cache.rows)]
    /\ seen' = [seen EXCEPT ![t] = IF cache.late THEN "late" ELSE "row"]
    /\ at' = [at EXCEPT ![t] = "loaded"]
    /\ UNCHANGED <<file, row, cache, lock, rows, keys, mine, orphans, bounds,
                   saved, spoilt>>

Fetch(t) ==
    /\ at[t] = "cache"
    /\ ~(cache.set /\ cache.fresh)
    /\ rows' = [rows EXCEPT ![t] = row]
    /\ at' = [at EXCEPT ![t] = "store"]
    /\ UNCHANGED <<file, row, cache, lock, got, seen, keys, mine, orphans, bounds,
                   saved, spoilt>>

\* The fetch failed: the load goes on with the file alone.
FetchFails(t) ==
    /\ at[t] = "cache"
    /\ ~(cache.set /\ cache.fresh)
    /\ Fault
    /\ seen' = [seen EXCEPT ![t] = "failed"]
    /\ at' = [at EXCEPT ![t] = "loaded"]
    /\ UNCHANGED <<file, row, cache, lock, got, rows, keys, mine, orphans, saves,
                   reads, saved, spoilt>>

\* _pg_state_cache = (now, result): no lock, whatever happened since the fetch.
Store(t) ==
    /\ at[t] = "store"
    /\ cache' = [rows |-> rows[t], set |-> TRUE, fresh |-> TRUE,
                 late |-> rows[t] # row]
    /\ got' = [got EXCEPT ![t] = Merged(got[t], rows[t])]
    /\ seen' = [seen EXCEPT ![t] = IF rows[t] = row THEN "row" ELSE "late"]
    /\ at' = [at EXCEPT ![t] = "loaded"]
    /\ UNCHANGED <<file, row, lock, rows, keys, mine, orphans, bounds, saved,
                   spoilt>>

EndLoad(r) ==
    /\ at[r] = "loaded"
    /\ at' = [at EXCEPT ![r] = "idle"]
    /\ Forget(r)
    /\ UNCHANGED <<file, row, cache, lock, keys, mine, orphans, bounds, saved,
                   spoilt>>

\* The 15 seconds of the cached copy are over.
Age ==
    /\ cache.set /\ cache.fresh
    /\ cache' = [cache EXCEPT !.fresh = FALSE]
    /\ UNCHANGED <<file, row, lock, threads, orphans, bounds, saved, spoilt>>

-----------------------------------------------------------------------------
(* save_ops_state, after its load.                                         *)

\* The temporary file replaces the file, or the failure is logged.
WriteFile(s) ==
    /\ at[s] = "loaded"
    /\ got' = [got EXCEPT ![s] = Updated(got[s], keys[s], mine[s])]
    /\ \/ file' = got'[s] /\ UNCHANGED faults
       \/ Fault /\ UNCHANGED file
    /\ at' = [at EXCEPT ![s] = "row"]
    /\ UNCHANGED <<row, cache, lock, rows, seen, keys, mine, orphans, saves, reads,
                   saved, spoilt>>

WriteRow(s) ==
    /\ at[s] = "row"
    /\ row' = got[s]
    /\ spoilt' = (spoilt \/ seen[s] # "row")
    /\ at' = [at EXCEPT ![s] = "reset"]
    /\ UNCHANGED <<file, cache, lock, got, rows, seen, keys, mine, orphans, bounds,
                   saved>>

\* The write is refused, or its caller stops waiting for it.
WriteRowFails(s) ==
    /\ at[s] = "row"
    /\ Fault
    /\ spoilt' = TRUE
    /\ \/ UNCHANGED orphans
       \/ orphans' = orphans \cup {got[s]}
    /\ at' = [at EXCEPT ![s] = "reset"]
    /\ UNCHANGED <<file, row, cache, lock, got, rows, seen, keys, mine, saves,
                   reads, saved>>

\* reset_postgres_state_cache, and the lock is given back.
EndSave(s) ==
    /\ at[s] = "reset"
    /\ cache' = NoCache
    /\ lock' = Free
    /\ saved' = Updated(saved, keys[s], mine[s])
    /\ at' = [at EXCEPT ![s] = "idle"]
    /\ keys' = [keys EXCEPT ![s] = {}] /\ mine' = [mine EXCEPT ![s] = 0]
    /\ Forget(s)
    /\ UNCHANGED <<file, row, orphans, bounds, spoilt>>

-----------------------------------------------------------------------------

\* A row write nobody waits for any more arrives.
Land(p) ==
    /\ orphans' = orphans \ {p}
    /\ row' = p
    /\ cache' = [cache EXCEPT !.late = @ \/ cache.set]
    /\ seen' = [t \in Thread |-> IF at[t] = "idle" THEN seen[t] ELSE "overtaken"]
    /\ spoilt' = TRUE
    /\ UNCHANGED <<file, lock, at, got, rows, keys, mine, bounds, saved>>

\* The process dies and starts again; the file is lost with its disk, unless
\* the disk is a volume.
Restart ==
    /\ Fault
    /\ file' \in {file, Empty}
    /\ cache' = NoCache
    /\ lock' = Free
    /\ at' = [t \in Thread |-> "idle"]
    /\ got' = [t \in Thread |-> Empty] /\ rows' = [t \in Thread |-> Empty]
    /\ seen' = [t \in Thread |-> "row"]
    /\ keys' = [s \in Saver |-> {}] /\ mine' = [s \in Saver |-> 0]
    /\ orphans' = {}
    /\ spoilt' = (spoilt \/ lock # Free)
    /\ UNCHANGED <<row, saves, reads, saved>>

Save(s) ==
    \/ BeginSave(s) \/ WriteFile(s) \/ WriteRow(s) \/ WriteRowFails(s)
    \/ EndSave(s)
Read(t) == ReadFile(t) \/ ReadCache(t) \/ Fetch(t) \/ FetchFails(t) \/ Store(t)

Next ==
    \/ \E r \in Reader : BeginLoad(r) \/ EndLoad(r)
    \/ \E t \in Thread : Read(t)
    \/ \E s \in Saver : Save(s)
    \/ Age
    \/ \E p \in orphans : Land(p)
    \/ Restart

Spec == Init /\ [][Next]_vars

-----------------------------------------------------------------------------

\* Outside a save the row is what the finished saves made of it, key by key,
\* however readers filled the cache and whatever happened to the file: only a
\* row write that failed or came late, a restart in the middle of a save, or a
\* save that built on something else than the row excuses a difference.
RowIsWhatWasSaved == lock = Free /\ ~spoilt => row = saved

\* A cached copy differs from the row only while the save that wrote the row
\* has not cleared the cache yet, or when the copy was stored late: fetched
\* before a write of the row, stored after it.
CacheFollowsRow ==
    cache.set /\ ~cache.late =>
        cache.rows = row \/ \E s \in Saver : at[s] = "reset"

\* No key of the row goes back to an older version, but for a write nobody
\* waits for any more, or in a save that did not see the row it replaces: its
\* fetch failed, its copy was stored late, or a late write came in between.
RowGoesBackForCause ==
    [][(\E k \in Key : row'[k] < row[k]) =>
          \/ orphans' # orphans
          \/ \E s \in Saver : at[s] = "row" /\ at'[s] = "reset" /\ seen[s] # "row"]_vars

\* The store implements the record its callers are promised.
Promise == INSTANCE DurableRecord WITH rec <- row, trusted <- ~spoilt
ImplementsDurableRecord == Promise!Spec
=============================================================================
