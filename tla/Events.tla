-------------------------------- MODULE Events --------------------------------
(***************************************************************************)
(* GET /v1/events of one control node, and a page of the web UI that       *)
(* follows it.  Events are hints: on each the page reads the node's state  *)
(* again.  A page that fell behind is cut off and comes back with the id   *)
(* of the last event it saw, to be given what it missed or told to reload. *)
(*                                                                         *)
(*   internal/control/events.go   Events, the events handler               *)
(*   web/src/store.tsx            refresh, follow                          *)
(*                                                                         *)
(* The state the page shows is the number of changes it contains.  An id   *)
(* is <<epoch, seq>>; what an event says is abstracted.                    *)
(***************************************************************************)
EXTENDS Integers, Sequences, FiniteSets

CONSTANTS
    Pages,
    RingSize,               \* defaultEventRing
    SubscriberBuffer,
    MaxEventStreams,
    MaxChanges, MaxEpochs,  \* bounds
    EventFaults             \* "first", "reorder"

VARIABLES
    changes,        \* how often the state behind the read models changed
    node,           \* the broker: its epoch, seq and ring
    stream,         \* per page: its stream on the node
    page            \* per page: what it shows, the reads on their way, the last id

eventVars == <<changes, node, stream, page>>

NoId == <<0, 0>>
ResetId == <<0, 1>>
NewEvents(epoch) == [epoch |-> epoch, seq |-> 0, ring |-> [i \in 0 .. RingSize - 1 |-> NoId]]

(* subs: the channel is registered.  handler: the handler runs.  replay:   *)
(* what the handler writes before it turns to the channel.                 *)
NoStream == [subs |-> FALSE, handler |-> FALSE, replay |-> <<>>, ch |-> <<>>]

-----------------------------------------------------------------------------
(* Events.Publish: a subscriber whose channel is full is dropped.          *)
Hand(s, id) ==
    IF ~s.subs THEN s
    ELSE IF Len(s.ch) < SubscriberBuffer THEN [s EXCEPT !.ch = Append(@, id)]
    ELSE [s EXCEPT !.subs = FALSE]

PublishEvent ==
    LET id == <<node.epoch, node.seq + 1>>
    IN  /\ changes < MaxChanges
        /\ changes' = changes + 1
        /\ node' = [node EXCEPT !.seq = @ + 1, !.ring[(node.seq + 1) % RingSize] = id]
        /\ stream' = [c \in Pages |-> Hand(stream[c], id)]
        /\ UNCHANGED page

(* Events.Subscribe with the last id the page saw.                         *)
Oldest == IF node.seq > RingSize THEN node.seq - RingSize + 1 ELSE 1

ForeignSeq(last) == last[2] > node.seq \/ last[2] + 1 < Oldest

Foreign(last) == last[1] # node.epoch \/ last[2] > node.seq \/ last[2] + 1 < Oldest

Replay(last) ==
    IF last = NoId THEN <<>>
    ELSE IF Foreign(last) THEN <<ResetId>>
    ELSE [i \in 1 .. node.seq - last[2] |-> node.ring[(last[2] + i) % RingSize]]

(* What the page will show once the reads on their way are in.             *)
Expects(c) == IF page[c].reads = <<>> THEN page[c].shows ELSE page[c].reads[Len(page[c].reads)]

(* The page opens its stream, at first without an id: without "first"      *)
(* nothing changed between its first read and its first stream.            *)
Subscribe(c) ==
    /\ ~stream[c].handler
    /\ Cardinality({d \in Pages : stream[d].subs}) < MaxEventStreams
    /\ page[c].last = NoId => ("first" \in EventFaults \/ Expects(c) = changes)
    /\ stream' = [stream EXCEPT ![c] =
            [subs |-> TRUE, handler |-> TRUE, replay |-> Replay(page[c].last), ch |-> <<>>]]
    /\ UNCHANGED <<changes, node, page>>

(* The handler writes the next event; the page notes its id, a reset's     *)
(* being the one the page sent, and reads the state again (a read of what  *)
(* the one before it read is left out).                                    *)
Receive(c, id) ==
    page' = [page EXCEPT ![c].last = IF id = ResetId THEN @ ELSE id,
                         ![c].reads = IF Expects(c) = changes THEN @ ELSE Append(@, changes)]

WriteReplay(c) ==
    /\ stream[c].handler /\ stream[c].replay # <<>>
    /\ stream' = [stream EXCEPT ![c].replay = Tail(@)]
    /\ Receive(c, Head(stream[c].replay))
    /\ UNCHANGED <<changes, node>>

WriteEvent(c) ==
    /\ stream[c].handler /\ stream[c].replay = <<>> /\ stream[c].ch # <<>>
    /\ stream' = [stream EXCEPT ![c].ch = Tail(@)]
    /\ Receive(c, Head(stream[c].ch))
    /\ UNCHANGED <<changes, node>>

(* The handler returns, its deferred cancel done: the connection broke, or *)
(* the channel was closed and what was left in it is written.              *)
HandlerEnds(c) ==
    /\ stream[c].handler
    /\ stream' = [stream EXCEPT ![c] = NoStream]
    /\ UNCHANGED <<changes, node, page>>

(* The answer of a refresh arrives; without "reorder" in the order asked.  *)
Loaded(c, i) ==
    /\ i \in DOMAIN page[c].reads
    /\ i = 1 \/ "reorder" \in EventFaults
    /\ page' = [page EXCEPT ![c].shows = page[c].reads[i],
                            ![c].reads = SubSeq(@, 1, i - 1) \o SubSeq(@, i + 1, Len(@))]
    /\ UNCHANGED <<changes, node, stream>>

(* The node restarts with another epoch; the state may have changed        *)
(* meanwhile, which its baseline does not publish.                         *)
RestartNode(n) ==
    /\ node.epoch < MaxEpochs
    /\ n \in changes .. changes + 1 /\ n <= MaxChanges
    /\ changes' = n
    /\ node' = NewEvents(node.epoch + 1)
    /\ stream' = [c \in Pages |-> NoStream]
    /\ UNCHANGED page

-----------------------------------------------------------------------------
EventInit ==
    /\ changes = 0
    /\ node = NewEvents(1)
    /\ stream = [c \in Pages |-> NoStream]
    /\ page = [c \in Pages |-> [shows |-> 0, reads |-> <<>>, last |-> NoId]]

EventNext ==
    \/ PublishEvent
    \/ \E n \in 0 .. MaxChanges : RestartNode(n)
    \/ \E c \in Pages :
        \/ Subscribe(c) \/ WriteReplay(c) \/ WriteEvent(c) \/ HandlerEnds(c)
        \/ \E i \in 1 .. MaxChanges : Loaded(c, i)

EventSpec == EventInit /\ [][EventNext]_eventVars

-----------------------------------------------------------------------------
(* A page with an open stream and nothing on its way to it shows the       *)
(* node's state: whatever was dropped, overwritten in the ring or lost     *)
(* with a node, the page was given or was told to reload (ADR-0017: "A     *)
(* Last-Event-ID inside the ring replays what was missed; any other id     *)
(* gets a reset event first and the client reloads its read models").      *)
ViewCurrent ==
    \A c \in Pages :
        (stream[c].subs /\ stream[c].replay = <<>> /\ stream[c].ch = <<>> /\ page[c].reads = <<>>)
            => page[c].shows = changes

=============================================================================
