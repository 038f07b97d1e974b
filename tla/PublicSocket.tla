---------------------------- MODULE PublicSocket ----------------------------
(***************************************************************************)
(* The public websocket of the venue (connectors/bitunix/ws.py): one owner *)
(* that connects and closes it, tasks that subscribe and unsubscribe, a    *)
(* reader and the heartbeat task, interleaved at their awaits.             *)
(*                                                                         *)
(* It is used as a context manager of its own ("plain") or by              *)
(* BitunixDepthBooksStream, which subscribes on entering ("stream").  Two  *)
(* tasks never handle the same channel, and no task of a plain socket is   *)
(* cancelled while it sends.                                               *)
(***************************************************************************)
EXTENDS Naturals, Sequences, FiniteSets

CONSTANTS
    Callers,          \* the tasks that use a plain socket
    Batches,          \* the arguments of each task's calls
    Stream, Book,     \* the entering stream and its channel
    Cap,              \* _MAX_CHANNELS_PER_CONNECTION
    MaxBatch,         \* the most channels of a call
    MaxConnections,   \* bound of the connections of either usage
    None

Tasks == Callers \union {Stream}
Elements(batch) == {batch[k] : k \in DOMAIN batch}
Handled(t) == UNION {Elements(b) : b \in Batches[t]}

ASSUME SocketAssumption ==
    /\ Cap \in Nat /\ MaxBatch \in Nat /\ MaxConnections \in [{"plain", "stream"} -> Nat]
    /\ Stream \notin Callers /\ None \notin Nat
    /\ IsFiniteSet(Callers) /\ Callers # {}
    /\ DOMAIN Batches = Tasks /\ Batches[Stream] = {<<Book>>}
    /\ \A t \in Tasks : \A b \in Batches[t] : b \in Seq(Elements(b)) /\ b # <<>> /\ Len(b) <= MaxBatch
    /\ \A t, u \in Tasks : t # u => Handled(t) \intersect Handled(u) = {}

VARIABLES
    usage,       \* plain or stream
    owner,       \* where the code that owns the socket is
    ws,          \* _ws: the number of a connection, or None
    lines,       \* the connections made so far
    heartbeat,   \* _heartbeat_task
    recorded,    \* _subscribed
    calls,       \* the call each task is in
    reader       \* the connection messages() reads, or None

socketVars == <<usage, owner, ws, lines, heartbeat, recorded, calls, reader>>

NoCall == [at |-> "idle", op |-> "none", batch |-> <<>>, on |-> 0]

SocketInit ==
    /\ usage \in {"plain", "stream"} /\ owner = "out"
    /\ ws = None /\ lines = <<>> /\ heartbeat = "none" /\ recorded = <<>>
    /\ calls = [t \in Tasks |-> NoCall] /\ reader = None

-----------------------------------------------------------------------------
(* connect, aclose and the two context managers.                           *)

Connect ==
    /\ owner = "out" /\ Len(lines) < MaxConnections[usage]
    /\ owner' = "connecting"
    /\ UNCHANGED <<usage, ws, lines, heartbeat, recorded, calls, reader>>

(* Defect: _ws is the connection before.                                   *)
Mutant_Connected ==
    /\ owner = "connecting"
    /\ lines' = Append(lines, [is |-> "open", channels |-> {}])
    /\ ws' = Len(lines) /\ heartbeat' = "beating"
    /\ owner' = IF usage = "stream" THEN "entering" ELSE "in"
    /\ UNCHANGED <<usage, recorded, calls, reader>>

(* The stream goes on to subscribe.                                        *)
Connected ==
    /\ owner = "connecting"
    /\ lines' = Append(lines, [is |-> "open", channels |-> {}])
    /\ ws' = Len(lines) + 1 /\ heartbeat' = "beating"
    /\ owner' = IF usage = "stream" THEN "entering" ELSE "in"
    /\ UNCHANGED <<usage, recorded, calls, reader>>

ConnectFails ==
    /\ owner = "connecting" /\ owner' = "out"
    /\ UNCHANGED <<usage, ws, lines, heartbeat, recorded, calls, reader>>

(* The heartbeat is cancelled and waited for ...                           *)
Close ==
    /\ owner = "in" /\ owner' = "cancelling"
    /\ UNCHANGED <<usage, ws, lines, heartbeat, recorded, calls, reader>>

ClosesLine == lines' = [lines EXCEPT ![ws].is = "closed"]

(* Defect: it is left to itself.                                           *)
Mutant_HeartbeatCancelled ==
    /\ owner = "cancelling" /\ owner' = "closing"
    /\ ClosesLine
    /\ UNCHANGED <<usage, ws, heartbeat, recorded, calls, reader>>

HeartbeatCancelled ==
    /\ owner = "cancelling" /\ owner' = "closing"
    /\ heartbeat' = "none" /\ ClosesLine
    /\ UNCHANGED <<usage, ws, recorded, calls, reader>>

(* ... then the connection.  _subscribed stays.                            *)
Closed ==
    /\ owner = "closing" /\ owner' = "out" /\ ws' = None
    /\ UNCHANGED <<usage, lines, heartbeat, recorded, calls, reader>>

-----------------------------------------------------------------------------
(* subscribe and unsubscribe.                                              *)

Send(t, op, batch) ==
    /\ calls[t].at = "idle" /\ ws # None
    /\ calls' = [calls EXCEPT
            ![t] = [at |-> "sending", op |-> op, batch |-> batch, on |-> ws]]
    /\ UNCHANGED <<usage, owner, ws, lines, heartbeat, recorded, reader>>

Fits(batch) == Len(recorded) + Len(batch) <= Cap
MaySubscribe(t) ==
    IF t = Stream THEN owner = "entering" ELSE usage = "plain"

Subscribe(t) ==
    \E b \in Batches[t] : MaySubscribe(t) /\ Fits(b) /\ Send(t, "subscribe", b)
Unsubscribe(t) ==
    \E b \in Batches[t] : t # Stream /\ Send(t, "unsubscribe", b)

(* The venue gets the frame.                                               *)
Delivered(t) ==
    LET c == calls[t] IN
    /\ c.at = "sending" /\ lines[c.on].is = "open"
    /\ lines' = [lines EXCEPT ![c.on].channels =
            IF c.op = "subscribe" THEN @ \union Elements(c.batch) ELSE @ \ Elements(c.batch)]
    /\ calls' = [calls EXCEPT ![t].at = "sent"]
    /\ UNCHANGED <<usage, owner, ws, heartbeat, recorded, reader>>

(* A sequence without the members of a set.                                *)
Without(seq, set) ==
    LET kept[n \in 0..Len(seq)] ==
            IF n = 0 THEN <<>>
            ELSE IF seq[n] \in set THEN kept[n - 1] ELSE Append(kept[n - 1], seq[n])
    IN  kept[Len(seq)]

(* Defect: subscribe assigns where it should extend.                       *)
Mutant_Returns(t) ==
    /\ calls[t].at = "sent"
    /\ recorded' = IF calls[t].op = "subscribe" THEN calls[t].batch
                   ELSE Without(recorded, Elements(calls[t].batch))
    /\ calls' = [calls EXCEPT ![t] = NoCall]
    /\ owner' = IF t = Stream THEN "in" ELSE owner
    /\ UNCHANGED <<usage, ws, lines, heartbeat, reader>>

Returns(t) ==
    /\ calls[t].at = "sent"
    /\ recorded' = IF calls[t].op = "subscribe" THEN recorded \o calls[t].batch
                   ELSE Without(recorded, Elements(calls[t].batch))
    /\ calls' = [calls EXCEPT ![t] = NoCall]
    /\ owner' = IF t = Stream THEN "in" ELSE owner
    /\ UNCHANGED <<usage, ws, lines, heartbeat, reader>>

(* ConnectionClosed.  When entering the stream raises, no one leaves it.   *)
SendFails(t) ==
    /\ calls[t].at = "sending" /\ lines[calls[t].on].is # "open"
    /\ calls' = [calls EXCEPT ![t] = NoCall]
    /\ owner' = IF t = Stream THEN "abandoned" ELSE owner
    /\ UNCHANGED <<usage, ws, lines, heartbeat, recorded, reader>>

(* The record of earlier connections has filled the cap.                   *)
EnterRefused ==
    /\ owner = "entering" /\ calls[Stream].at = "idle" /\ ~Fits(<<Book>>)
    /\ owner' = "abandoned"
    /\ UNCHANGED <<usage, ws, lines, heartbeat, recorded, calls, reader>>

(* A timeout around the entering.                                          *)
EnterCancelled ==
    /\ owner = "entering" /\ owner' = "abandoned"
    /\ calls' = [calls EXCEPT ![Stream] = NoCall]
    /\ UNCHANGED <<usage, ws, lines, heartbeat, recorded, reader>>

-----------------------------------------------------------------------------
(* The line, the heartbeat and the reader.                                 *)

Drop ==
    /\ ws # None /\ lines[ws].is = "open"
    /\ lines' = [lines EXCEPT ![ws].is = "dropped"]
    /\ UNCHANGED <<usage, owner, ws, heartbeat, recorded, calls, reader>>

(* The next ping finds the line down; no one starts another.               *)
PingFails ==
    /\ heartbeat = "beating" /\ ws # None /\ lines[ws].is # "open"
    /\ heartbeat' = "ended"
    /\ UNCHANGED <<usage, owner, ws, lines, recorded, calls, reader>>

Frames == {"not_json", "not_dict", "pong", "ack", "bad_data", "bad_level", "book"}

(* What messages() yields, and what decode_depth_books makes of it: a bad  *)
(* level raises.                                                           *)
Yielded(frame) == frame \notin {"not_json", "not_dict", "pong"}
Decoded(frame) ==
    IF frame \in {"ack", "bad_data"} THEN "none"
    ELSE IF frame = "bad_level" THEN "raises" ELSE "snapshot"

Read ==
    /\ owner = "in" /\ ws # None /\ reader = None /\ reader' = ws
    /\ UNCHANGED <<usage, owner, ws, lines, heartbeat, recorded, calls>>

(* A frame that raises ends the iteration; so does the end of the line.    *)
Receive ==
    /\ reader # None
    /\ \/ /\ lines[reader].is = "open" /\ usage = "stream"
          /\ \E f \in Frames : Yielded(f) /\ Decoded(f) = "raises"
       \/ lines[reader].is # "open"
    /\ reader' = None
    /\ UNCHANGED <<usage, owner, ws, lines, heartbeat, recorded, calls>>

SocketNext ==
    \/ Connect \/ Connected \/ ConnectFails \/ Close \/ HeartbeatCancelled \/ Closed
    \/ \E t \in Tasks : Subscribe(t) \/ Unsubscribe(t) \/ Delivered(t) \/ Returns(t) \/ SendFails(t)
    \/ EnterRefused \/ EnterCancelled \/ Drop \/ PingFails \/ Read \/ Receive

SocketSpec == SocketInit /\ [][SocketNext]_socketVars

-----------------------------------------------------------------------------
Channels == UNION {Handled(t) : t \in Tasks}
CallType ==
    [at : {"idle", "sending", "sent"}, op : {"none", "subscribe", "unsubscribe"},
     batch : {<<>>} \union UNION {Batches[t] : t \in Tasks}, on : Nat]

(* Every variable keeps its type.                                          *)
SocketTypeOK ==
    /\ usage \in {"plain", "stream"}
    /\ owner \in {"out", "connecting", "entering", "in", "cancelling", "closing", "abandoned"}
    /\ ws \in DOMAIN lines \union {None} /\ reader \in DOMAIN lines \union {None}
    /\ lines \in Seq([is : {"open", "dropped", "closed"}, channels : SUBSET Channels])
    /\ heartbeat \in {"none", "beating", "ended"} /\ recorded \in Seq(Channels)
    /\ calls \in [Tasks -> CallType]

InFlight(op, conn) ==
    UNION {Elements(calls[t].batch) :
        t \in {u \in Tasks : calls[u].at = "sent" /\ calls[u].op = op /\ calls[u].on = conn}}

(* What the venue sends is in the record, or about to be, so the cap is    *)
(* overrun by what the other tasks have in flight (ws.py:140) and no more. *)
(* Until a reconnect, which keeps the record (ws.py:133), the record holds *)
(* nothing the venue does not send.                                        *)
SubscriptionsCounted ==
    \A c \in DOMAIN lines :
        /\ lines[c].is = "open" /\ owner # "abandoned" =>
                lines[c].channels \subseteq Elements(recorded) \union InFlight("subscribe", c)
        /\ Len(lines) = 1 /\ lines[c].is = "open" =>
                Elements(recorded) \subseteq lines[c].channels \union InFlight("unsubscribe", c)
        /\ Cardinality(lines[c].channels) <= Cap + (Cardinality(Callers) - 1) * MaxBatch

(* A closed socket leaves nothing behind: no connection, no heartbeat, no  *)
(* second line; an open socket beats until then.                           *)
ClosedIsQuiet ==
    /\ \A c \in DOMAIN lines : lines[c].is = "open" => c = ws
    /\ owner \in {"out", "connecting"} => ws = None /\ heartbeat = "none"
    /\ ws # None /\ heartbeat = "none" => lines[ws].is # "open"
=============================================================================
