---------------------------- MODULE MCDirectory ----------------------------
(* TLC instances of the directory.  The initial state chooses which part runs: the etcd store, the
   file backend, or the member proxies.  The members fetch from control nodes that serve any version
   of the history, as nodes do that lag by any amount and hold every version exactly (NodesExact). *)
EXTENDS DirectoryStore, DirectoryMembers, FileDirectory, TLC

CONSTANTS Backends, Other

VARIABLE backend

mcVars == <<log, req, storeVars, memberVars, fileVars, backend>>

\* A directory of another control plane, ahead of this one.
OtherLineage == {[Empty EXCEPT !.version = v, !.identity = Other] : v \in {MaxWrites}}
NoForeign == {}

Init ==
    /\ backend \in Backends
    /\ ContentInit
    /\ StoreInit /\ MemberInit /\ FileInit

\* A control node commits a change while members fetch.
Publish ==
    /\ Len(log) <= MaxWrites
    /\ \E n \in Nodes, a \in Asks({"put", "create", "delete"}) :
          ~Refused(Newest, a) /\ log' = Append(log, Changed(Newest, a, n))

\* What the control nodes serve: only versions they have loaded, never the empty directory.
Served == {c \in {At(v) : v \in Versions} : c.version > 0}

Next ==
    \/ backend = "etcd" /\ StoreNext /\ UNCHANGED <<memberVars, fileVars, backend>>
    \/ backend = "members" /\ MemberNext(Served) /\ UNCHANGED <<log, req, storeVars, fileVars, backend>>
    \/ backend = "members" /\ Publish /\ UNCHANGED <<req, storeVars, memberVars, fileVars, backend>>
    \/ backend = "file" /\ FileNext /\ UNCHANGED <<storeVars, memberVars, backend>>

Spec == Init /\ [][Next]_mcVars

\* The members' instance has no writers: its history is not the subject.
Abstract == INSTANCE DirectoryLog WITH log <- IF backend = "members" THEN <<Empty>> ELSE log

NodeSymmetry == Permutations(Nodes)

(* Both backends implement the promise of directory.Store: one history of versions, every one of
   them a change somebody asked for applied to the version before it, answers that tell the truth,
   whatever the interleaving of nodes, lost transactions, crashes and restarts (store.go, mutate;
   file.go, mutate). *)
Implements == Abstract!Spec

(* What a node, a process or a proxy holds under a version number is that version, whole, with the
   secrets it names; and a generation names one content of a resource for ever. *)
InstalledExact ==
    /\ GenerationNames
    /\ backend = "etcd" => NodesExact
    /\ backend = "members" => \A m \in Proxies : cur[m] \in {Empty} \cup Served \cup Foreign
    /\ backend = "file" => FileExact /\ SecretPresent
=============================================================================
