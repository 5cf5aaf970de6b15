--------------------------- MODULE DrainBarrierInv ---------------------------
(***************************************************************************)
(* The inductive invariant behind OneRule, NoneBehindHold, ServerBlocks    *)
(* and NoRuleReturns of DrainBarrier.                                      *)
(***************************************************************************)
EXTENDS DrainBarrier

\* None of the events of which the documents say that they cannot happen.
Sheltered == Faults \cap {"lapse", "join", "offline"} = {}

Cleared(p, i) == mark[p][i] = "retired" \/ i \in resolved[p]

\* The processes of p that keep barriers waiting.
Tracked(p, k) == k \in unres[p] \/ (mState[p] = "active" /\ k = mInc[p])

\* A tracked process, and nothing cleared from it up to process i.
Covers(p, i) == \E k \in Incs : k <= i /\ Tracked(p, k) /\ \A j \in k .. i : ~Cleared(p, j)

\* Process i of p may still be heard of.
Heard(p, i) == \/ flight[p][i] # {}
               \/ \E m \in hb[p] : m.inc = i
               \/ i = inc[p] /\ proc[p] \in {"up", "answered"}
-----------------------------------------------------------------------------
ProcessOK(p) ==
    /\ inst[p] <= cur /\ durable[p] <= inst[p]
    /\ proc[p] # "down" => closed[p] = bar[inst[p]] /\ inc[p] > 0 /\ mark[p][inc[p]] = "active"
    /\ proc[p] = "up" => from[p] <= inst[p]
    /\ \A i \in Incs : i > inc[p] => flight[p][i] = {} /\ mark[p][i] # "retired"
    /\ \A m \in hb[p] : m.inc <= inc[p] /\ m.durable <= durable[p]

RecordOK(p) ==
    /\ mInc[p] <= inc[p]
    /\ \A i \in unres[p] \cup resolved[p] : i <= inc[p]
    /\ mState[p] = "active" => mInc[p] > 0
    /\ mState[p] = "retired" => mInc[p] > 0 /\ mark[p][mInc[p]] = "retired"
    /\ mState[p] = "unknown" => unres[p] = {}
    /\ live[p] => /\ mState[p] \in {"active", "retired"}
                  /\ rep[p].inc = mInc[p] /\ rep[p].durable <= durable[p]
    /\ proc[p] \in {"joining", "asked"} =>
            /\ mInc[p] < inc[p] /\ inc[p] \notin unres[p] \cup resolved[p]
            /\ flight[p][inc[p]] = {} /\ \A m \in hb[p] : m.inc < inc[p]
    /\ proc[p] \in {"up", "answered"} => inc[p] \notin resolved[p]

\* Nothing of a cleared process is left.
ClearedEmpty(p) == \A i \in Incs : flight[p][i] # {} => ~Cleared(p, i)

\* Every process that may be heard of keeps barriers waiting.
Covered(p) == \A i \in Incs : Heard(p, i) /\ ~Cleared(p, i) => Covers(p, i)

Carried(v) == \A w \in v .. cur : bar[w] = bar[cur]

\* A report that acknowledges the barrier in the directory, with a version that carries it durable,
\* speaks for its process and all later ones.
True(p, m) ==
    bar[cur] # NoBarrier /\ m.ack = bar[cur] /\ Carried(m.durable)
        => \A i \in Incs : i >= m.inc => flight[p][i] = {}

ReportsTrue(p) ==
    /\ \A m \in hb[p] : True(p, m)
    /\ live[p] => /\ True(p, rep[p])
                  /\ \A i \in Incs : i < rep[p].inc /\ flight[p][i] # {} => i \in unres[p]

Local(p) == ProcessOK(p) /\ RecordOK(p) /\ ClearedEmpty(p) /\ Covered(p) /\ ReportsTrue(p)
FleetOK == \A p \in Proxies : Local(p)
-----------------------------------------------------------------------------
DirectoryOK ==
    /\ cur > 0
    /\ \A v \in Versions, w \in Versions : v <= w /\ w <= cur => rule[v] <= rule[w]
    /\ rule[cur] <= ops /\ bar[cur] <= ops
    /\ bar[cur] # NoBarrier => rule[cur] < bar[cur]
    /\ \A o \in Operations : rule[cur] = o =>
            /\ hold[o] > 0 /\ hold[o] <= cur
            /\ \A v \in hold[o] .. cur : rule[v] = o \/ bar[v] = o

OperationOK(o) ==
    /\ o < ops => status[o] \in Terminal
    /\ o > ops => status[o] = "none"
    /\ pc[o] # "none" <=> status[o] = "running" \/ (status[o] = "cancelled" /\ pc[o] = "cancel")
    /\ pc[o] \in {"precondition", "hold", "held"} => hold[o] = 0
    /\ pc[o] \in {"drain", "commit", "write"} => hold[o] > 0
    /\ pc[o] = "cancel" => status[o] = "cancelled"
    /\ hold[o] <= cur /\ (status[o] = "none" => hold[o] = 0)
    /\ hold[o] > 0 /\ bar[cur] = o => \A v \in hold[o] .. cur : bar[v] = o
    /\ pc[o] = "held" => /\ wrote > 0 /\ wrote <= cur
                         /\ bar[cur] = o => \A v \in wrote .. cur : bar[v] = o
    /\ pc[o] = "write" /\ kind[o] = "step" => bar[cur] = o

LateOK == \A w \in late : w.what = "write" /\ kind[w.op] # "step" /\ hold[w.op] > 0

\* Whoever may still serve without joining has version h, or must wait for a later one.
Fence(h) == \A p \in Proxies :
    /\ Covers(p, inc[p]) => durable[p] >= h \/ answer[p] >= h
    /\ proc[p] = "up" => inst[p] >= h

Quiet == \A p \in Proxies, i \in Incs : flight[p][i] = {}

\* Every proof needed for o has been seen.
Proved(o) == pc[o] \in {"commit", "write"} \/ \E w \in late : w.op = o
DrainOK == \A o \in Operations : Proved(o) /\ bar[cur] = o => Quiet /\ Fence(hold[o])

Floor == IF rule[cur] = 0 THEN 0 ELSE hold[rule[cur]]
RouteOK ==
    /\ Fence(Floor)
    /\ \A p \in Proxies : proc[p] = "up" /\ closed[p] = NoBarrier => rule[from[p]] = rule[cur]

OpsOK == DirectoryOK /\ LateOK /\ \A o \in Operations : OperationOK(o)

IInv == TypeOK /\ FleetOK /\ OpsOK /\ DrainOK /\ RouteOK /\ OneRule
=============================================================================
