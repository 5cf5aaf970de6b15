------------------------- MODULE DirectoryMembers -------------------------
(***************************************************************************)
(* Member proxies and the directory (internal/member/member.go, cache.go,  *)
(* and the two handlers of internal/control/fleet.go that answer them):    *)
(* a member fetches whole versions from any control node, installs only    *)
(* newer ones of its own lineage, and keeps the last one in a cache that a *)
(* restart serves from.                                                    *)
(*                                                                         *)
(* Two goroutines fetch (the long poll and the heartbeat), so two answers  *)
(* may be under way, and the cache is written after the install lock is    *)
(* released, so writes may start in another order than the installs.       *)
(***************************************************************************)
EXTENDS DirectoryContent

CONSTANTS
    Proxies,      \* the member proxies
    MaxFlight,    \* answers under way at once (two goroutines)
    MaxBoots,     \* bound on the restarts of proxies
    Foreign       \* directories of another lineage a control node may serve

VARIABLES
    cur,      \* per proxy: the installed version, whole
    flight,   \* per proxy: the answers under way
    saving,   \* per proxy: the versions installed whose cache write has not started
    retry,    \* per proxy: the version whose cache write failed and is tried again
    cached,   \* per proxy: the newest version a cache write was attempted for
    durable,  \* per proxy: the version it reports as durable
    disk,     \* per proxy: the cache file as it is, and as a power loss would leave it
    faulted,  \* per proxy: it has met another lineage, and stays stale
    boots     \* restarts so far

memberVars == <<cur, flight, saving, retry, cached, durable, disk, faulted, boots>>

MemberInit ==
    /\ cur = [m \in Proxies |-> Empty]
    /\ flight = [m \in Proxies |-> {}]
    /\ saving = [m \in Proxies |-> {}]
    /\ retry = [m \in Proxies |-> Empty]
    /\ cached = [m \in Proxies |-> 0]
    /\ durable = [m \in Proxies |-> 0]
    /\ disk = [m \in Proxies |-> [top |-> Empty, safe |-> Empty]]
    /\ faulted = [m \in Proxies |-> FALSE]
    /\ boots = 0

\* checkLineage, as directoryHandler answers a member that has version c: "mismatch" (409 epoch or
\* cluster), "ahead" (409 resync), "same" (304) or "newer".
CheckLineage(served, c) ==
    CASE c.identity # None /\ c.identity # served.identity -> "mismatch"
      [] c.version > served.version -> "ahead"
      [] c.version = served.version -> "same"
      [] OTHER -> "newer"

\* fetch: the request reaches a node that serves `served`, and its answer is on its way back.
Fetch(m, served) ==
    LET answer == CheckLineage(served, cur[m]) IN
    /\ \/ /\ answer = "newer" /\ Cardinality(flight[m]) < MaxFlight /\ served \notin flight[m]
          /\ flight' = [flight EXCEPT ![m] = @ \cup {served}]
          /\ UNCHANGED faulted
       \/ /\ answer = "mismatch" /\ ~faulted[m]
          /\ faulted' = [faulted EXCEPT ![m] = TRUE]
          /\ UNCHANGED flight
    /\ UNCHANGED <<cur, saving, retry, cached, durable, disk, boots>>

\* An install that looks at neither the lineage nor the version it has.
InstallAny(m) ==
    /\ \E d \in flight[m] :
          /\ flight' = [flight EXCEPT ![m] = @ \ {d}]
          /\ cur' = [cur EXCEPT ![m] = d] /\ saving' = [saving EXCEPT ![m] = @ \cup {d}]
    /\ UNCHANGED <<retry, cached, durable, disk, faulted, boots>>

\* install: apply under the install lock (identity, version, Validate), then the cache; the
\* installed version again, while it is not durable, is written now.
Install(m) ==
    /\ \E d \in flight[m] :
          /\ flight' = [flight EXCEPT ![m] = @ \ {d}]
          /\ \/ /\ d.identity = None
                /\ UNCHANGED <<cur, saving, faulted>>
             \/ /\ d.identity # None /\ cur[m].identity # None /\ d.identity # cur[m].identity
                /\ faulted' = [faulted EXCEPT ![m] = TRUE]
                /\ UNCHANGED <<cur, saving>>
             \/ /\ d.identity # None /\ cur[m].identity \in {None, d.identity}
                /\ IF d.version > cur[m].version /\ Validate(d)
                     THEN cur' = [cur EXCEPT ![m] = d] /\ saving' = [saving EXCEPT ![m] = @ \cup {d}]
                     ELSE /\ UNCHANGED cur
                          /\ saving' = [saving EXCEPT ![m] =
                                IF d.version = cur[m].version /\ d.version > durable[m] THEN @ \cup {d} ELSE @]
                /\ UNCHANGED faulted
    /\ UNCHANGED <<retry, cached, durable, disk, boots>>

\* writeCache: the file is replaced by a rename and the directory is synced; a failure before the
\* rename leaves the old file, a failed directory sync the new one, which a power loss may undo.
WriteCache(m, d) ==
    \/ /\ disk' = [disk EXCEPT ![m] = [top |-> d, safe |-> d]]
       /\ durable' = [durable EXCEPT ![m] = d.version]
       /\ retry' = [retry EXCEPT ![m] = Empty]
    \/ /\ \/ UNCHANGED disk
          \/ disk' = [disk EXCEPT ![m].top = d]
       /\ retry' = [retry EXCEPT ![m] = d]
       /\ UNCHANGED durable

\* A cache write whatever was attempted before it.
PersistLockedAny(m, d) ==
    /\ cached' = [cached EXCEPT ![m] = d.version]
    /\ WriteCache(m, d)

\* persistLocked: an older version than one attempted, or one already durable, is not written.
PersistLocked(m, d) ==
    IF d.version < cached[m] \/ d.version <= durable[m]
    THEN UNCHANGED <<cached, disk, durable, retry>>
    ELSE /\ cached' = [cached EXCEPT ![m] = d.version]
         /\ WriteCache(m, d)

Persist(m) ==
    /\ \E d \in saving[m] : saving' = [saving EXCEPT ![m] = @ \ {d}] /\ PersistLocked(m, d)
    /\ UNCHANGED <<cur, flight, faulted, boots>>

\* retryCache, on the heartbeat.
RetryCache(m) ==
    /\ retry[m] # Empty
    /\ PersistLocked(m, retry[m])
    /\ UNCHANGED <<cur, flight, saving, faulted, boots>>

\* The proxy stops, cleanly or with the machine, and its next process loads the cache (Load).
Boot(m) ==
    /\ boots < MaxBoots
    /\ boots' = boots + 1
    /\ \E d \in {disk[m].top, disk[m].safe} :
          /\ disk' = [disk EXCEPT ![m] = [top |-> d, safe |-> d]]
          /\ cur' = [cur EXCEPT ![m] = d]
          /\ cached' = [cached EXCEPT ![m] = d.version]
          /\ durable' = [durable EXCEPT ![m] = d.version]
    /\ flight' = [flight EXCEPT ![m] = {}]
    /\ saving' = [saving EXCEPT ![m] = {}]
    /\ retry' = [retry EXCEPT ![m] = Empty]
    /\ faulted' = [faulted EXCEPT ![m] = FALSE]

\* served: the directories the control nodes serve.
MemberNext(served) ==
    \E m \in Proxies :
        \/ \E d \in served \cup Foreign : Fetch(m, d)
        \/ Install(m) \/ Persist(m) \/ RetryCache(m) \/ Boot(m)

---------------------------------------------------------------------------
(* What a proxy routes, verifies and signs with is one version of the directory as it was
   committed, never an older answer that arrived late over a newer one, and never a version of
   another lineage over its own; and the version it reports as durable is one a restart finds at
   least (member.go, apply; cache.go, persistLocked). *)
MembersForward ==
    [][\A m \in Proxies :
          /\ boots' = boots => /\ cur'[m].version >= cur[m].version
                               /\ cur[m].identity # None => cur'[m].identity = cur[m].identity
          /\ disk'[m].safe.version >= durable[m]
          /\ cur'[m].version >= durable[m]]_memberVars
=============================================================================
