--------------------------- MODULE FileDirectory ---------------------------
(***************************************************************************)
(* The directory in a file (internal/directory/file.go): every process     *)
(* writes under an advisory lock, from the file's content and not from its *)
(* own snapshot, replaces the file by a rename, and follows the other      *)
(* processes by re-reading a file whose stamp has changed.                 *)
(*                                                                         *)
(* A cluster secret given to the API is kept in a file of its own, whose   *)
(* name the definition carries (internal/control/server.go, writeCluster); *)
(* the requests that touch the cluster exclude each other by their         *)
(* reservation (OperationRecords).                                         *)
(*                                                                         *)
(* The file system is external: a rename is atomic and the lock of a       *)
(* process that dies is released.  The file's content is Newest.           *)
(***************************************************************************)
EXTENDS DirectoryContent

CONSTANTS
    FileChanges,   \* the kinds of change asked of the processes: a file holds no secret and no key
    SecretFiles,   \* the definitions whose secret_ref names a file of the secrets directory
    MaxFileWrites, \* bound: no change is asked for once this many have come into force
    MaxKills       \* bound on the processes killed

VARIABLES
    snap,      \* per process: the snapshot it serves
    holder,    \* the process holding the lock, or None
    f,         \* per process: the write under way
    changes,   \* the versions in the change log
    files,     \* the secret files there are
    kills      \* processes killed so far

FileAsks == {a \in Asks(FileChanges) : a.def \notin SecretFiles}

fileVars == <<snap, holder, f, changes, files, kills>>

\* pc: "idle", "asked", "locked", "read", "renamed", "installed", "dropping"
NoWrite == [pc |-> "idle", prev |-> Empty, next |-> Empty]

FileInit ==
    /\ snap = [n \in Nodes |-> log[1]]     \* Open
    /\ holder = None
    /\ f = [n \in Nodes |-> NoWrite]
    /\ changes = <<>>
    /\ files = {}
    /\ kills = 0

\* The requests about the cluster, which its reservation keeps apart.
OfCluster(a) == a.op \in {"point", "remove"}
Reserved == \E m \in Nodes : OfCluster(req[m].ask)

FileMutate(n) ==
    /\ f[n].pc = "idle" /\ Len(log) <= MaxFileWrites
    /\ \E a \in FileAsks : (OfCluster(a) => ~Reserved) /\ Ask(n, a)
    /\ f' = [f EXCEPT ![n].pc = "asked"]
    /\ UNCHANGED <<log, snap, holder, changes, files, kills>>

\* The old secret dropped as the new one is stored, before the write.
StoreSecretOver(n) ==
    /\ f[n].pc = "idle" /\ Len(log) <= MaxFileWrites /\ ~Reserved
    /\ \E d \in SecretFiles \ files :
          /\ \A i \in 1..Len(log) : log[i].def # d
          /\ Ask(n, [NoAsk EXCEPT !.op = "point", !.def = d])
          /\ files' = {d}
    /\ f' = [f EXCEPT ![n].pc = "asked"]
    /\ UNCHANGED <<log, snap, holder, changes, kills>>

\* writeCluster with a secret: storeSecret writes a new file, and the definition names it.
StoreSecret(n) ==
    /\ f[n].pc = "idle" /\ Len(log) <= MaxFileWrites /\ ~Reserved
    /\ \E d \in SecretFiles \ files :
          /\ \A i \in 1..Len(log) : log[i].def # d      \* a new name, drawn at random
          /\ Ask(n, [NoAsk EXCEPT !.op = "point", !.def = d])
          /\ files' = files \cup {d}
    /\ f' = [f EXCEPT ![n].pc = "asked"]
    /\ UNCHANGED <<log, snap, holder, changes, kills>>

\* A refusal leaves nothing behind: not the secret stored for it (discard).
Refuse(n) ==
    /\ Answer(n, "refused")
    /\ files' = files \ ({req[n].ask.def} \cap SecretFiles)
    /\ f' = [f EXCEPT ![n] = NoWrite]

\* checkCredentials: the cluster rejects the new pair.
CheckCredentials(n) ==
    /\ f[n].pc = "asked" /\ req[n].ask.def \in SecretFiles
    /\ Refuse(n)
    /\ UNCHANGED <<log, snap, holder, changes, kills>>

\* lock: taken when it is free, or not in time.
Lock(n) ==
    /\ f[n].pc = "asked"
    /\ \/ /\ holder = None
          /\ holder' = n
          /\ f' = [f EXCEPT ![n].pc = "locked"]
          /\ UNCHANGED <<req, files>>
       \/ /\ holder # None
          /\ Refuse(n)
          /\ UNCHANGED holder
    /\ UNCHANGED <<log, snap, changes, kills>>

\* The write computed from the process's own snapshot.
ReadSnapshot(n) ==
    LET next == Changed(snap[n], req[n].ask, n) IN
    /\ f[n].pc = "locked"
    /\ IF Refused(snap[n], req[n].ask) \/ ~Validate(next)
         THEN Refuse(n) /\ holder' = None
         ELSE f' = [f EXCEPT ![n] = [pc |-> "read", prev |-> snap[n], next |-> next]] /\ UNCHANGED <<req, holder, files>>
    /\ UNCHANGED <<log, snap, changes, kills>>

\* mutate, under the lock: re-read the file, apply fn, stamp, validate, Prepare.
Read(n) ==
    LET next == Changed(Newest, req[n].ask, n) IN
    /\ f[n].pc = "locked"
    /\ IF Refused(Newest, req[n].ask) \/ ~Validate(next)
         THEN Refuse(n) /\ holder' = None
         ELSE f' = [f EXCEPT ![n] = [pc |-> "read", prev |-> Newest, next |-> next]] /\ UNCHANGED <<req, holder, files>>
    /\ UNCHANGED <<log, snap, changes, kills>>

\* writeAtomic: the temporary file is renamed over the directory file, or nothing is.
WriteAtomic(n) ==
    /\ f[n].pc = "read"
    /\ \/ /\ log' = Append(log, f[n].next)
          /\ req' = Requests(n, [req[n] EXCEPT !.done = TRUE])
          /\ f' = [f EXCEPT ![n].pc = "renamed"]
          /\ UNCHANGED <<holder, files>>
       \/ Refuse(n) /\ holder' = None /\ UNCHANGED log
    /\ UNCHANGED <<snap, changes, kills>>

\* install, under the process's own mutex, which Reload takes too.
FileInstall(n) ==
    /\ f[n].pc = "renamed"
    /\ snap' = [snap EXCEPT ![n] = f[n].next]
    /\ f' = [f EXCEPT ![n].pc = "installed"]
    /\ UNCHANGED <<log, req, holder, changes, files, kills>>

\* appendChange: a failure is reported and the write stands; the lock is released last.
AppendChange(n) ==
    /\ f[n].pc = "installed"
    /\ \/ changes' = Append(changes, f[n].next.version)
       \/ UNCHANGED changes
    /\ holder' = None
    /\ IF req[n].ask.def \in SecretFiles \/ req[n].ask.op = "remove"
         THEN f' = [f EXCEPT ![n].pc = "dropping"] /\ UNCHANGED req
         ELSE f' = [f EXCEPT ![n] = NoWrite] /\ Answer(n, "ok")
    /\ UNCHANGED <<log, snap, files, kills>>

\* dropSecrets: every file of the cluster but the one the definition now names.
DropSecrets(n) ==
    /\ f[n].pc = "dropping"
    /\ files' = files \cap {req[n].ask.def}
    /\ f' = [f EXCEPT ![n] = NoWrite]
    /\ Answer(n, "ok")
    /\ UNCHANGED <<log, snap, holder, changes, kills>>

\* Reload: the file's stamp differs from the one last seen; a version no newer is not installed.
\* mutate holds the mutex from the lock to the end.
FileReload(n) ==
    /\ f[n].pc \in {"idle", "asked"}
    /\ Newest.version > snap[n].version /\ Validate(Newest)
    /\ snap' = [snap EXCEPT ![n] = Newest]
    /\ UNCHANGED <<log, req, holder, f, changes, files, kills>>

\* The process is killed and the next one opens the file (Open).
Kill(n) ==
    /\ kills < MaxKills
    /\ kills' = kills + 1
    /\ f' = [f EXCEPT ![n] = NoWrite]
    /\ holder' = IF holder = n THEN None ELSE holder
    /\ req' = Requests(n, NoReq)
    /\ snap' = [snap EXCEPT ![n] = Newest]
    /\ UNCHANGED <<log, changes, files>>

FileNext ==
    \E n \in Nodes :
        \/ FileMutate(n) \/ StoreSecret(n) \/ CheckCredentials(n) \/ Lock(n) \/ Read(n)
        \/ WriteAtomic(n) \/ FileInstall(n) \/ AppendChange(n) \/ DropSecrets(n)
        \/ FileReload(n) \/ Kill(n)

---------------------------------------------------------------------------
(* The secret the directory in force names is on disk, whatever was refused, killed or retried: a
   restart resolves every secret_ref again (server.go, writeCluster and dropSecrets). *)
SecretPresent == Newest.def \in SecretFiles => Newest.def \in files

(* Every process serves a version as it was written to the file, and the change log names every
   version at most once, in the order they were written, so that its tail is the directory's recent
   history (file.go, mutate and Changes). *)
FileExact ==
    /\ \A n \in Nodes : snap[n] = At(snap[n].version)
    /\ \A i, j \in 1..Len(changes) : i < j => changes[i] < changes[j]
=============================================================================
