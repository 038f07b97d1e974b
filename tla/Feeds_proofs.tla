---------------------------- MODULE Feeds_proofs ----------------------------
(***************************************************************************)
(* Proofs about the processes that listen: the public websocket, the       *)
(* Telegram ingest and the Telegram bot.  Each has an inductive invariant  *)
(* of its own; with that of the scanner daemon they give the types of      *)
(* MCFeeds, where one of the four runs.                                    *)
(***************************************************************************)
EXTENDS MCFeeds, ScanDaemon_proofs, Recursion_proofs, FiniteSetTheorems,
        WellFoundedInduction, TLAPS

(***************************************************************************)
(* The websocket.  Where its owner is tells whether there is a connection  *)
(* and whether the heartbeat runs; a connection that is not _ws is down.   *)
(***************************************************************************)

LineType == [is : {"open", "dropped", "closed"}, channels : SUBSET Channels]

LinesInv ==
    /\ lines \in Seq(LineType)
    /\ ws \in DOMAIN lines \union {None}
    /\ \A t \in Tasks : calls[t].at = "sending" => calls[t].on \in DOMAIN lines
    /\ calls \in [Tasks -> CallType]

OwnerInv ==
    /\ owner \in {"out", "connecting", "entering", "in", "cancelling", "closing", "abandoned"}
    /\ owner \in {"out", "connecting"} => ws = None /\ heartbeat = "none"
    /\ owner \in {"entering", "in", "cancelling", "abandoned"} =>
            ws # None /\ heartbeat # "none"
    /\ owner = "closing" => ws # None /\ heartbeat = "none" /\ lines[ws].is = "closed"
    /\ calls[Stream].at # "idle" => owner = "entering"
    /\ \A c \in DOMAIN lines : c # ws => lines[c].is # "open"

SocketInv == LinesInv /\ OwnerInv

(* The number of a connection is not None.                                 *)
LEMMA NumbersAreNotNone == LinesInv => \A c \in DOMAIN lines : c # None /\ c \in Nat
BY SocketAssumption DEF LinesInv

(* A line that is marked changes nothing else.                             *)
LEMMA LineMarked ==
    ASSUME LinesInv, NEW c \in DOMAIN lines, NEW is \in {"open", "dropped", "closed"},
           lines' = [lines EXCEPT ![c].is = is]
    PROVE  /\ lines' \in Seq(LineType) /\ DOMAIN lines' = DOMAIN lines /\ lines'[c].is = is
           /\ \A d \in DOMAIN lines : d # c => lines'[d] = lines[d]
<1>1. lines \in Seq(LineType) /\ lines[c] \in LineType
    BY DEF LinesInv
<1> DEFINE l == [lines[c] EXCEPT !.is = is]
<1>2. lines' = [lines EXCEPT ![c] = l]
    OBVIOUS
<1>3. l \in LineType /\ l.is = is
    BY <1>1 DEF LineType
<1> HIDE DEF l
<1> QED
    BY <1>1, <1>2, <1>3

(* Tasks and the stream.                                                   *)
LEMMA StreamIsTask == Stream \in Tasks
BY DEF Tasks

(* A frame that is delivered changes the channels of an open line.         *)
LEMMA DeliveredKeeps ==
    ASSUME SocketInv, NEW t \in Tasks, Delivered(t)
    PROVE  SocketInv'
<1> DEFINE c == calls[t]
           new == IF c.op = "subscribe" THEN lines[c.on].channels \union Elements(c.batch)
                  ELSE lines[c.on].channels \ Elements(c.batch)
           l == [lines[c.on] EXCEPT !.channels = new]
           w == [c EXCEPT !.at = "sent"]
<1>1. /\ c.at = "sending" /\ lines[c.on].is = "open" /\ lines' = [lines EXCEPT ![c.on] = l]
      /\ calls' = [calls EXCEPT ![t] = w]
      /\ UNCHANGED <<usage, owner, ws, heartbeat, recorded, reader>>
    BY DEF Delivered
<1>2. /\ c \in CallType /\ c.on \in DOMAIN lines /\ lines \in Seq(LineType)
      /\ calls \in [Tasks -> CallType] /\ lines[c.on] \in LineType
    BY <1>1 DEF SocketInv, LinesInv
<1>3. Elements(c.batch) \subseteq Channels
    <2>1. c.batch = <<>> \/ \E u \in Tasks : c.batch \in Batches[u]
        BY <1>2 DEF CallType
    <2>2. c.batch = <<>> => Elements(c.batch) = {}
        BY DEF Elements
    <2> QED
        BY <2>1, <2>2 DEF Channels, Handled
<1>4. new \subseteq Channels
    BY <1>2, <1>3 DEF LineType
<1>5. l \in LineType /\ l.is = lines[c.on].is
    <2> HIDE DEF new
    <2> QED
        BY <1>2, <1>4 DEF LineType
<1>6. w \in CallType /\ w.at = "sent"
    BY <1>2 DEF CallType
<1> HIDE DEF l, w, new
<1>7. /\ lines' \in Seq(LineType) /\ DOMAIN lines' = DOMAIN lines
      /\ \A d \in DOMAIN lines : lines'[d].is = lines[d].is
    BY <1>1, <1>2, <1>5
<1>8. calls' \in [Tasks -> CallType] /\ calls'[t] = w
      /\ \A u \in Tasks : u # t => calls'[u] = calls[u]
    BY <1>1, <1>2, <1>6
<1>9. LinesInv'
    BY <1>1, <1>6, <1>7, <1>8 DEF SocketInv, LinesInv
<1>10. calls'[Stream].at # "idle" => calls[Stream].at # "idle"
    BY <1>1, <1>8, StreamIsTask
<1>11. OwnerInv'
    BY <1>1, <1>7, <1>10, NumbersAreNotNone DEF SocketInv, LinesInv, OwnerInv
<1> QED
    BY <1>9, <1>11 DEF SocketInv

(* A call that begins or ends changes nothing of the lines.                *)
LEMMA CallKeeps ==
    ASSUME SocketInv, NEW t \in Tasks, NEW w \in CallType,
           calls' = [calls EXCEPT ![t] = w],
           w.at = "sending" => w.on \in DOMAIN lines,
           UNCHANGED <<ws, lines, heartbeat>>,
           \/ owner' = owner /\ t # Stream
           \/ owner' = owner /\ t = Stream /\ (w.at # "idle" => owner = "entering")
           \/ t = Stream /\ owner = "entering" /\ owner' \in {"in", "abandoned"} /\ w.at = "idle"
    PROVE  SocketInv'
<1>1. calls \in [Tasks -> CallType]
    BY DEF SocketInv, LinesInv
<1>2. calls' \in [Tasks -> CallType] /\ calls'[t] = w
      /\ \A u \in Tasks : u # t => calls'[u] = calls[u]
    BY <1>1
<1>3. LinesInv'
    BY <1>2 DEF SocketInv, LinesInv
<1>4. OwnerInv'
    BY <1>2, StreamIsTask DEF SocketInv, OwnerInv
<1> QED
    BY <1>3, <1>4 DEF SocketInv

(* No call is in flight.                                                   *)
LEMMA NoCallIs == NoCall \in CallType /\ NoCall.at = "idle"
BY DEF NoCall, CallType

(* The steps of a task.                                                    *)
LEMMA TaskKeeps ==
    ASSUME SocketInv, NEW t \in Tasks,
           Subscribe(t) \/ Unsubscribe(t) \/ Delivered(t) \/ Returns(t) \/ SendFails(t)
    PROVE  SocketInv'
<1>1. ASSUME NEW op \in {"subscribe", "unsubscribe"}, NEW b \in Batches[t], Send(t, op, b),
             t = Stream => owner = "entering"
      PROVE  SocketInv'
    <2> DEFINE w == [at |-> "sending", op |-> op, batch |-> b, on |-> ws]
    <2>1. ws # None /\ calls' = [calls EXCEPT ![t] = w]
          /\ UNCHANGED <<usage, owner, ws, lines, heartbeat, recorded, reader>>
        BY <1>1 DEF Send
    <2>2. ws \in DOMAIN lines /\ ws \in Nat
        BY <2>1, NumbersAreNotNone DEF SocketInv, LinesInv
    <2>3. w \in CallType /\ w.at = "sending" /\ w.on = ws
        BY <2>2 DEF CallType
    <2> HIDE DEF w
    <2> QED
        BY <1>1, <2>1, <2>2, <2>3, CallKeeps
<1>2. CASE Subscribe(t)
    BY <1>1, <1>2 DEF Subscribe, MaySubscribe
<1>3. CASE Unsubscribe(t)
    BY <1>1, <1>3 DEF Unsubscribe
<1>4. CASE Delivered(t)
    BY <1>4, DeliveredKeeps
<1>5. CASE Returns(t) \/ SendFails(t)
    <2>1. /\ calls[t].at # "idle" /\ calls' = [calls EXCEPT ![t] = NoCall]
          /\ UNCHANGED <<ws, lines, heartbeat>>
          /\ IF t = Stream THEN owner' \in {"in", "abandoned"} ELSE owner' = owner
        BY <1>5 DEF Returns, SendFails
    <2>2. t = Stream => owner = "entering"
        BY <2>1 DEF SocketInv, OwnerInv
    <2> QED
        BY <2>1, <2>2, NoCallIs, CallKeeps
<1> QED
    BY <1>2, <1>3, <1>4, <1>5

(* Every step keeps the invariant.                                         *)
LEMMA SocketStep == SocketInv /\ [SocketNext]_socketVars => SocketInv'
<1> SUFFICES ASSUME SocketInv, [SocketNext]_socketVars
             PROVE  SocketInv'
    OBVIOUS
<1> USE NumbersAreNotNone DEF SocketInv
<1>1. CASE UNCHANGED socketVars
    BY <1>1 DEF socketVars, LinesInv, OwnerInv
<1>2. CASE Connect \/ ConnectFails \/ Closed
    BY <1>2 DEF Connect, ConnectFails, Closed, LinesInv, OwnerInv
<1>3. CASE Connected
    <2> DEFINE l == [is |-> "open", channels |-> {}]
    <2>1. /\ owner = "connecting" /\ lines' = Append(lines, l) /\ ws' = Len(lines) + 1
          /\ heartbeat' = "beating" /\ owner' \in {"entering", "in"}
          /\ UNCHANGED <<usage, recorded, calls, reader>>
        BY <1>3 DEF Connected
    <2>2. l \in LineType
        BY DEF LineType
    <2>3. \A c \in DOMAIN lines : lines[c].is # "open"
        BY <2>1 DEF LinesInv, OwnerInv
    <2> HIDE DEF l
    <2>4. /\ lines' \in Seq(LineType) /\ ws' \in DOMAIN lines'
          /\ \A c \in DOMAIN lines' : c # ws' => c \in DOMAIN lines /\ lines'[c] = lines[c]
          /\ DOMAIN lines \subseteq DOMAIN lines'
        BY <2>1, <2>2 DEF LinesInv
    <2>5. LinesInv'
        BY <2>1, <2>4 DEF LinesInv
    <2>6. ws' # None
        <3>1. Len(lines) \in Nat
            BY DEF LinesInv
        <3> QED
            BY <2>1, <3>1, SocketAssumption
    <2>7. calls[Stream].at = "idle"
        BY <2>1 DEF OwnerInv
    <2>8. OwnerInv'
        BY <2>1, <2>3, <2>4, <2>6, <2>7 DEF OwnerInv
    <2> QED
        BY <2>5, <2>8
<1>4. CASE Close
    BY <1>4 DEF Close, LinesInv, OwnerInv
<1>5. CASE HeartbeatCancelled
    <2>1. /\ owner = "cancelling" /\ owner' = "closing" /\ heartbeat' = "none"
          /\ lines' = [lines EXCEPT ![ws].is = "closed"] /\ UNCHANGED <<ws, calls>>
        BY <1>5 DEF HeartbeatCancelled, ClosesLine
    <2>2. ws # None /\ ws \in DOMAIN lines
        BY <2>1 DEF LinesInv, OwnerInv
    <2>3. /\ lines' \in Seq(LineType) /\ DOMAIN lines' = DOMAIN lines
          /\ lines'[ws].is = "closed" /\ \A d \in DOMAIN lines : d # ws => lines'[d] = lines[d]
        BY <2>1, <2>2, LineMarked
    <2>4. LinesInv' /\ OwnerInv'
        BY <2>1, <2>2, <2>3 DEF LinesInv, OwnerInv
    <2> QED
        BY <2>4
<1>6. ASSUME NEW t \in Tasks,
             Subscribe(t) \/ Unsubscribe(t) \/ Delivered(t) \/ Returns(t) \/ SendFails(t)
      PROVE  SocketInv'
    BY <1>6, TaskKeeps
<1>7. CASE EnterRefused
    BY <1>7 DEF EnterRefused, LinesInv, OwnerInv
<1>8. CASE EnterCancelled
    <2>1. /\ owner = "entering" /\ owner' = "abandoned"
          /\ calls' = [calls EXCEPT ![Stream] = NoCall] /\ UNCHANGED <<ws, lines, heartbeat>>
        BY <1>8 DEF EnterCancelled
    <2> QED
        BY <2>1, StreamIsTask, NoCallIs, CallKeeps
<1>9. CASE Drop
    <2>1. /\ ws # None /\ lines[ws].is = "open" /\ lines' = [lines EXCEPT ![ws].is = "dropped"]
          /\ UNCHANGED <<owner, ws, heartbeat, calls>>
        BY <1>9 DEF Drop
    <2>2. ws \in DOMAIN lines
        BY <2>1 DEF LinesInv
    <2>3. /\ lines' \in Seq(LineType) /\ DOMAIN lines' = DOMAIN lines
          /\ lines'[ws].is = "dropped" /\ \A d \in DOMAIN lines : d # ws => lines'[d] = lines[d]
        BY <2>1, <2>2, LineMarked
    <2>4. LinesInv' /\ OwnerInv'
        BY <2>1, <2>2, <2>3 DEF LinesInv, OwnerInv
    <2> QED
        BY <2>4
<1>10. CASE PingFails
    BY <1>10 DEF PingFails, LinesInv, OwnerInv
<1>11. CASE Read \/ Receive
    BY <1>11 DEF Read, Receive, LinesInv, OwnerInv
<1> QED
    BY <1>1, <1>2, <1>3, <1>4, <1>5, <1>6, <1>7, <1>8, <1>9, <1>10, <1>11 DEF SocketNext

(* The socket begins within the invariant.                                 *)
LEMMA InitSocket == SocketInit => SocketInv
<1> SUFFICES ASSUME SocketInit
             PROVE  SocketInv
    OBVIOUS
<1>1. LinesInv
    BY NoCallIs DEF SocketInit, LinesInv
<1>2. OwnerInv
    BY NoCallIs, StreamIsTask DEF SocketInit, OwnerInv
<1> QED
    BY <1>1, <1>2 DEF SocketInv

(* A closed socket leaves no connection and no heartbeat, and there is     *)
(* never an open line but the one the socket holds.                        *)
THEOREM ClosingIsComplete == SocketSpec => []ClosedIsQuiet
<1>1. SocketInv => ClosedIsQuiet
    BY DEF SocketInv, OwnerInv, ClosedIsQuiet
<1> QED
    BY <1>1, InitSocket, SocketStep, PTL DEF SocketSpec

(***************************************************************************)
(* The record of subscriptions.  The invariant relates the connections,    *)
(* the record and what each task is about to do to either; the channels a  *)
(* subscription asks for are counted by their place in its batch.          *)
(***************************************************************************)

(* The recursion of Without, up to N: some function satisfies it.          *)
Filters(seq, set, N, g) ==
    g = [n \in 0..N |->
            IF n = 0 THEN <<>>
            ELSE IF seq[n] \in set THEN g[n - 1] ELSE Append(g[n - 1], seq[n])]

(* The recursion has a solution for every length.                         *)
LEMMA FilterExists ==
    ASSUME NEW seq, NEW set, NEW N \in Nat
    PROVE  \E g : Filters(seq, set, N, g)
<1> DEFINE S == {n \in Nat : ~\E g : Filters(seq, set, n, g)}
<1> SUFFICES ASSUME S # {}
             PROVE  FALSE
    OBVIOUS
<1>1. PICK m \in S : \A k \in S : m <= k
    <2>1. S \in SUBSET Nat
        OBVIOUS
    <2> HIDE DEF S
    <2> QED
        BY <2>1, Least
<1>2. ASSUME m = 0
      PROVE  FALSE
    <2> DEFINE g == [n \in 0..0 |-> <<>>]
    <2>1. Filters(seq, set, 0, g)
        BY DEF Filters
    <2> QED
        BY <1>1, <1>2, <2>1
<1>3. ASSUME m # 0
      PROVE  FALSE
    <2>1. m - 1 \in Nat /\ m - 1 \notin S /\ m \in Nat
        BY <1>1, <1>3
    <2>2. PICK h : Filters(seq, set, m - 1, h)
        BY <2>1
    <2> DEFINE g == [n \in 0..m |->
                        IF n = 0 THEN <<>>
                        ELSE IF seq[n] \in set THEN h[n - 1] ELSE Append(h[n - 1], seq[n])]
    <2> HIDE DEF S
    <2>3. ASSUME NEW n \in 0..(m - 1)
          PROVE  g[n] = h[n]
        <3>1. n \in 0..m
            BY <2>1
        <3> DEFINE v == IF n = 0 THEN <<>>
                        ELSE IF seq[n] \in set THEN h[n - 1] ELSE Append(h[n - 1], seq[n])
        <3>2. g[n] = v
            BY <3>1
        <3>3. h[n] = v
            BY <2>2 DEF Filters
        <3> QED
            BY <3>2, <3>3
    <2>4. Filters(seq, set, m, g)
        <3>1. ASSUME NEW n \in 0..m, n # 0
              PROVE  g[n - 1] = h[n - 1]
            <4>1. n - 1 \in 0..(m - 1)
                BY <2>1, <3>1
            <4> HIDE DEF g
            <4> QED
                BY <2>3, <4>1
        <3>2. \A n \in 0..m : (IF n = 0 THEN <<>>
                                ELSE IF seq[n] \in set THEN h[n - 1] ELSE Append(h[n - 1], seq[n]))
                            = (IF n = 0 THEN <<>>
                                ELSE IF seq[n] \in set THEN g[n - 1] ELSE Append(g[n - 1], seq[n]))
            <4> HIDE DEF g
            <4> QED
                BY <3>1
        <3> QED
            BY <3>2 DEF Filters
    <2> QED
        BY <1>1, <2>4 DEF S
<1> QED
    BY <1>2, <1>3

(* What is left is a sequence of the members that are not in the set, no   *)
(* longer than before.                                                     *)
LEMMA WithoutIs ==
    ASSUME NEW X, NEW seq \in Seq(X), NEW set
    PROVE  /\ Without(seq, set) \in Seq(X)
           /\ Len(Without(seq, set)) <= Len(seq)
           /\ Elements(Without(seq, set)) = Elements(seq) \ set
<1> DEFINE g == CHOOSE f : Filters(seq, set, Len(seq), f)
           Left(n) == {seq[k] : k \in 1..n} \ set
           Good(n) == /\ g[n] \in Seq(X) /\ Len(g[n]) <= n
                      /\ Elements(g[n]) = Left(n)
           S == {n \in 0..Len(seq) : ~Good(n)}
<1>0. Len(seq) \in Nat
    OBVIOUS
<1>1. Filters(seq, set, Len(seq), g)
    BY <1>0, FilterExists
<1>2. Without(seq, set) = g[Len(seq)]
    BY DEF Without, Filters
<1> HIDE DEF g
<1>3. ASSUME S # {}
      PROVE  FALSE
    <2>1. PICK m \in S : \A k \in S : m <= k
        <3>1. S \in SUBSET Nat
            BY <1>0
        <3> HIDE DEF S
        <3> QED
            BY <1>3, <3>1, Least
    <2>2. m \in 0..Len(seq) /\ ~Good(m)
        OBVIOUS
    <2>3. CASE m = 0
        <3>1. g[0] = <<>>
            BY <1>0, <1>1 DEF Filters
        <3>2. Elements(<<>>) = {} /\ Left(0) = {}
            BY DEF Elements
        <3>3. <<>> \in Seq(X) /\ Len(<<>>) = 0
            OBVIOUS
        <3> QED
            BY <2>2, <2>3, <3>1, <3>2, <3>3
    <2>4. CASE m # 0
        <3>1. m - 1 \in 0..Len(seq) /\ m \in 1..Len(seq) /\ m - 1 \notin S
            <4> HIDE DEF S, Good
            <4>1. m \in 0..Len(seq)
                BY <2>2
            <4> QED
                BY <1>0, <2>1, <2>4, <4>1
        <3>2. Good(m - 1)
            <4> HIDE DEF Good
            <4> QED
                BY <3>1
        <3>3. g[m] = IF seq[m] \in set THEN g[m - 1] ELSE Append(g[m - 1], seq[m])
            BY <1>1, <2>2, <2>4 DEF Filters
        <3>4. Left(m) = IF seq[m] \in set THEN Left(m - 1) ELSE Left(m - 1) \union {seq[m]}
            <4>1. 1..m = (1..(m - 1)) \union {m}
                BY <1>0, <3>1
            <4> QED
                BY <4>1
        <3>5. seq[m] \in X
            BY <3>1
        <3> DEFINE q == g[m - 1]
        <3>6. Elements(Append(q, seq[m])) = Elements(q) \union {seq[m]} /\ q \in Seq(X)
              /\ Append(q, seq[m]) \in Seq(X) /\ Len(Append(q, seq[m])) = Len(q) + 1
              /\ Len(q) \in Nat /\ Len(q) <= m - 1 /\ Elements(q) = Left(m - 1)
            <4>1. q \in Seq(X) /\ Len(q) <= m - 1 /\ Elements(q) = Left(m - 1)
                BY <3>2
            <4> HIDE DEF q, Left
            <4>2. /\ Append(q, seq[m]) \in Seq(X) /\ Len(Append(q, seq[m])) = Len(q) + 1
                  /\ Len(q) \in Nat
                BY <3>5, <4>1
            <4>3. Elements(Append(q, seq[m])) = Elements(q) \union {seq[m]}
                <5>1. DOMAIN Append(q, seq[m]) = DOMAIN q \union {Len(q) + 1}
                    BY <3>5, <4>1
                <5>2. /\ Append(q, seq[m])[Len(q) + 1] = seq[m]
                      /\ \A k \in DOMAIN q : Append(q, seq[m])[k] = q[k]
                    BY <3>5, <4>1
                <5> QED
                    BY <5>1, <5>2 DEF Elements
            <4> QED
                BY <4>1, <4>2, <4>3
        <3> HIDE DEF Left, q
        <3>7. g[m] = IF seq[m] \in set THEN q ELSE Append(q, seq[m])
            BY <3>3 DEF q
        <3>8. Good(m)
            <4>1. CASE seq[m] \in set
                <5>1. g[m] = q /\ Left(m) = Left(m - 1)
                    BY <3>4, <3>7, <4>1
                <5> QED
                    BY <1>0, <3>1, <3>6, <5>1
            <4>2. CASE seq[m] \notin set
                <5>1. g[m] = Append(q, seq[m]) /\ Left(m) = Left(m - 1) \union {seq[m]}
                    BY <3>4, <3>7, <4>2
                <5> QED
                    BY <1>0, <3>1, <3>6, <5>1
            <4> QED
                BY <4>1, <4>2
        <3> QED
            BY <2>2, <3>8
    <2> QED
        BY <2>3, <2>4
<1>4. Good(Len(seq))
    <2> HIDE DEF Good
    <2> QED
        BY <1>0, <1>3
<1>5. Left(Len(seq)) = Elements(seq) \ set
    BY DEF Elements
<1> QED
    BY <1>2, <1>4, <1>5

(* Tasks in a call, and the channels their subscriptions ask for, each     *)
(* counted once for its task and place in the batch.                       *)
Busy(t) == calls[t].at # "idle"
Subscribing(t) == Busy(t) /\ calls[t].op = "subscribe"
Asked == {p \in Tasks \X (1..MaxBatch) : Subscribing(p[1]) /\ p[2] <= Len(calls[p[1]].batch)}
Limit == Cap + (Cardinality(Callers) - 1) * MaxBatch

(* A call is one of its task's, on a connection that was made, and which   *)
(* tasks subscribe depends on the usage.                                   *)
CallsInv ==
    /\ usage \in {"plain", "stream"}
    /\ owner \in {"entering", "abandoned"} => usage = "stream"
    /\ \A t \in Tasks : Busy(t) =>
        /\ calls[t].on \in DOMAIN lines /\ calls[t].batch \in Batches[t]
        /\ calls[t].op \in {"subscribe", "unsubscribe"}
        /\ t = Stream => calls[t].op = "subscribe"
        /\ calls[t].op = "subscribe" => (t = Stream <=> usage = "stream")
    /\ recorded \in Seq(Channels)
    /\ lines = <<>> => recorded = <<>>
    /\ ws # None => ws = Len(lines)

(* While a task is in a call its channels are on no later connection, and  *)
(* on this one as its frame left them.                                     *)
ChannelsInv ==
    \A t \in Tasks : Busy(t) =>
        /\ \A c \in DOMAIN lines : c > calls[t].on => lines[c].channels \intersect Handled(t) = {}
        /\ calls[t].at = "sent" /\ calls[t].op = "subscribe" =>
              Elements(calls[t].batch) \subseteq lines[calls[t].on].channels
        /\ calls[t].at = "sent" /\ calls[t].op = "unsubscribe" =>
              Elements(calls[t].batch) \intersect lines[calls[t].on].channels = {}

(* The record and what is asked for beside it overrun the cap by at most   *)
(* one batch for every other task.                                         *)
CapInv ==
    /\ Len(recorded) + Cardinality(Asked) <= Limit
    /\ \A c \in DOMAIN lines : IsFiniteSet(lines[c].channels)

CountInv == SocketInv /\ CallsInv /\ ChannelsInv /\ CapInv /\ SubscriptionsCounted

(* What a batch is.                                                        *)
LEMMA BatchIs ==
    ASSUME NEW t \in Tasks, NEW b \in Batches[t]
    PROVE  /\ b \in Seq(Elements(b)) /\ Elements(b) \subseteq Handled(t)
           /\ Elements(b) \subseteq Channels /\ b \in Seq(Channels)
           /\ Len(b) \in Nat /\ 0 < Len(b) /\ Len(b) <= MaxBatch
<1>1. b \in Seq(Elements(b)) /\ b # <<>> /\ Len(b) <= MaxBatch
    BY SocketAssumption
<1>2. Elements(b) \subseteq Handled(t) /\ Handled(t) \subseteq Channels
    BY DEF Handled, Channels
<1>3. Len(b) \in Nat /\ 0 < Len(b)
    BY <1>1
<1>4. b \in Seq(Channels)
    <2>1. \A k \in 1..Len(b) : b[k] \in Channels
        BY <1>1, <1>2
    <2> QED
        BY <1>1, <2>1
<1> QED
    BY <1>1, <1>2, <1>3, <1>4

(* A sequence has at most as many members as places.                       *)
LEMMA ElementsCount ==
    ASSUME NEW X, NEW s \in Seq(X)
    PROVE  /\ IsFiniteSet(Elements(s)) /\ Cardinality(Elements(s)) \in Nat
           /\ Cardinality(Elements(s)) <= Len(s)
<1>1. Len(s) \in Nat /\ DOMAIN s = 1..Len(s)
    OBVIOUS
<1>2. IsFiniteSet(1..Len(s)) /\ Cardinality(1..Len(s)) = Len(s)
    BY <1>1, FS_Interval
<1>3. Elements(s) = {s[x] : x \in 1..Len(s)}
    BY <1>1 DEF Elements
<1>4. IsFiniteSet(Elements(s)) /\ Cardinality(Elements(s)) <= Len(s)
    BY <1>2, <1>3, Image
<1> QED
    BY <1>4, FS_CardinalityType

(* The places of one task's batch.                                         *)
LEMMA PlacesCount ==
    ASSUME NEW t, NEW n \in Nat
    PROVE  IsFiniteSet({t} \X (1..n)) /\ Cardinality({t} \X (1..n)) = n
<1>1. IsFiniteSet(1..n) /\ Cardinality(1..n) = n
    BY FS_Interval
<1>2. IsFiniteSet({t}) /\ Cardinality({t}) = 1
    BY FS_Singleton
<1>3. IsFiniteSet({t} \X (1..n)) /\ Cardinality({t} \X (1..n)) = 1 * n
    BY <1>1, <1>2, FS_Product
<1> QED
    BY <1>3

(* The sets that are counted are finite.                                   *)
LEMMA AskedFinite ==
    /\ IsFiniteSet(Tasks) /\ IsFiniteSet(Asked) /\ Cardinality(Asked) \in Nat
    /\ Cardinality(Callers) \in Nat \ {0} /\ MaxBatch \in Nat /\ Cap \in Nat
    /\ Limit \in Nat /\ Limit >= Cap
<1>1. IsFiniteSet(Tasks)
    BY SocketAssumption, FS_AddElement DEF Tasks
<1>2. IsFiniteSet(1..MaxBatch)
    BY SocketAssumption, FS_Interval
<1>3. IsFiniteSet(Tasks \X (1..MaxBatch))
    BY <1>1, <1>2, FS_Product
<1>4. Asked \in SUBSET (Tasks \X (1..MaxBatch))
    BY DEF Asked
<1>5. IsFiniteSet(Asked) /\ Cardinality(Asked) \in Nat
    BY <1>3, <1>4, FS_Subset, FS_CardinalityType
<1>6. Cardinality(Callers) \in Nat \ {0}
    BY SocketAssumption, FS_CardinalityType, FS_EmptySet
<1>7. MaxBatch \in Nat /\ Cap \in Nat
    BY SocketAssumption
<1>8. ASSUME NEW m \in Nat, NEW n \in Nat PROVE m * n \in Nat
    BY SMTT(30)
<1>9. Cardinality(Callers) - 1 \in Nat
    BY <1>6
<1>10. (Cardinality(Callers) - 1) * MaxBatch \in Nat
    BY <1>7, <1>8, <1>9
<1>11. Limit \in Nat /\ Limit >= Cap
    BY <1>7, <1>10 DEF Limit
<1> QED
    BY <1>1, <1>5, <1>6, <1>7, <1>11

(* Channels that are recorded or asked for stay within the limit.          *)
LEMMA WithinLimit ==
    ASSUME SocketInv, CallsInv, CapInv,
           NEW S, \A x \in S : \/ x \in Elements(recorded)
                              \/ \E t \in Tasks : Subscribing(t) /\ x \in Elements(calls[t].batch)
    PROVE  IsFiniteSet(S) /\ Cardinality(S) <= Limit
<1> DEFINE place == [p \in Asked |-> calls[p[1]].batch[p[2]]]
           I == {place[p] : p \in Asked}
<1>1. /\ IsFiniteSet(I) /\ Cardinality(I) <= Cardinality(Asked)
    <2>1. IsFiniteSet(Asked)
        BY AskedFinite
    <2> HIDE DEF place
    <2> QED
        BY <2>1, Image
<1>2. ASSUME NEW t \in Tasks, Subscribing(t), NEW x \in Elements(calls[t].batch)
      PROVE  x \in I
    <2>2. calls[t].batch \in Batches[t]
        BY <1>2 DEF Subscribing, CallsInv
    <2>3. PICK k \in DOMAIN calls[t].batch : x = calls[t].batch[k]
        BY <1>2 DEF Elements
    <2>4. k \in 1..MaxBatch /\ k <= Len(calls[t].batch)
        BY <2>2, <2>3, BatchIs, AskedFinite
    <2>5. <<t, k>> \in Asked
        BY <1>2, <2>4 DEF Asked
    <2>6. place[<<t, k>>] = x
        BY <2>3, <2>5
    <2> HIDE DEF place
    <2> QED
        BY <2>5, <2>6
<1> HIDE DEF I
<1>3. /\ IsFiniteSet(Elements(recorded)) /\ Cardinality(Elements(recorded)) \in Nat
      /\ Cardinality(Elements(recorded)) <= Len(recorded)
      /\ Len(recorded) \in Nat
    BY ElementsCount DEF CallsInv
<1> DEFINE U == Elements(recorded) \union I
<1>4. /\ IsFiniteSet(U) /\ IsFiniteSet(Elements(recorded) \intersect I)
      /\ Cardinality(U) = Cardinality(Elements(recorded)) + Cardinality(I)
                            - Cardinality(Elements(recorded) \intersect I)
    BY <1>1, <1>3, FS_Union, FS_Intersection
<1>5. S \in SUBSET U
    BY <1>2
<1>6. IsFiniteSet(S) /\ Cardinality(S) <= Cardinality(U)
    <2> HIDE DEF U
    <2> QED
        BY <1>4, <1>5, FS_Subset
<1>7. /\ Cardinality(I) \in Nat /\ Cardinality(Elements(recorded) \intersect I) \in Nat
      /\ Cardinality(U) \in Nat /\ Cardinality(S) \in Nat /\ Cardinality(Asked) \in Nat
      /\ Limit \in Nat
    BY <1>1, <1>4, <1>6, FS_CardinalityType, AskedFinite
<1> QED
    BY <1>1, <1>3, <1>4, <1>6, <1>7 DEF CapInv

(* A step that leaves the calls and the record alone, reopens no line and  *)
(* changes no line's channels.                                             *)
LEMMA QuietCounts ==
    ASSUME CountInv, SocketInv', UNCHANGED <<usage, recorded, calls>>,
           DOMAIN lines' = DOMAIN lines, Len(lines') = Len(lines),
           \A c \in DOMAIN lines : /\ lines'[c].channels = lines[c].channels
                                   /\ lines'[c].is = "open" => lines[c].is = "open",
           ws' \in {ws, None}, owner = "abandoned" => owner' = "abandoned",
           owner' \in {"entering", "abandoned"} => owner \in {"entering", "abandoned"}
    PROVE  CountInv'
<1>1. CallsInv'
    BY DEF CountInv, CallsInv, Busy, SocketInv, LinesInv
<1>2. ChannelsInv'
    BY DEF CountInv, CallsInv, ChannelsInv, Busy
<1>3. Asked' = Asked
    BY DEF Asked, Subscribing, Busy
<1>4. CapInv'
    BY <1>3 DEF CountInv, CapInv, Limit
<1>5. \A op, c : InFlight(op, c)' = InFlight(op, c)
    BY DEF InFlight
<1>6. SubscriptionsCounted'
    BY <1>5 DEF CountInv, SubscriptionsCounted
<1> QED
    BY <1>1, <1>2, <1>4, <1>6 DEF CountInv

(* A new connection carries nothing; the record may hold the channels of   *)
(* an earlier one.                                                         *)
LEMMA ConnectedCounts == CountInv /\ SocketInv' /\ Connected => CountInv'
<1> SUFFICES ASSUME CountInv, SocketInv', Connected
             PROVE  CountInv'
    OBVIOUS
<1> DEFINE l == [is |-> "open", channels |-> {}]
           n == Len(lines) + 1
<1>1. /\ owner = "connecting" /\ lines' = Append(lines, l) /\ ws' = n
      /\ owner' = IF usage = "stream" THEN "entering" ELSE "in"
      /\ UNCHANGED <<usage, recorded, calls, reader>>
    BY DEF Connected
<1>2. lines \in Seq(LineType) /\ Len(lines) \in Nat /\ DOMAIN lines = 1..Len(lines)
    BY DEF CountInv, SocketInv, LinesInv
<1>3. l \in LineType /\ l.channels = {}
    BY DEF LineType
<1> HIDE DEF l
<1>4. /\ Len(lines') = n /\ DOMAIN lines' = DOMAIN lines \union {n} /\ lines'[n] = l
      /\ \A c \in DOMAIN lines : lines'[c] = lines[c] /\ c # n /\ c < n
      /\ lines' # <<>>
    BY <1>1, <1>2, <1>3
<1>5. \A c \in DOMAIN lines : lines[c].is # "open"
    <2>1. ws = None /\ \A c \in DOMAIN lines : c # ws
        BY <1>1, NumbersAreNotNone DEF CountInv, SocketInv, OwnerInv
    <2> QED
        BY <2>1 DEF CountInv, SocketInv, OwnerInv
<1>6. CallsInv'
    BY <1>1, <1>4 DEF CountInv, CallsInv, Busy
<1>7. ChannelsInv'
    <2> SUFFICES ASSUME NEW t \in Tasks, Busy(t)'
                 PROVE  /\ \A c \in DOMAIN lines' : c > calls'[t].on =>
                                lines'[c].channels \intersect Handled(t) = {}
                        /\ calls'[t].at = "sent" /\ calls'[t].op = "subscribe" =>
                                Elements(calls'[t].batch) \subseteq lines'[calls'[t].on].channels
                        /\ calls'[t].at = "sent" /\ calls'[t].op = "unsubscribe" =>
                            Elements(calls'[t].batch) \intersect lines'[calls'[t].on].channels = {}
        BY DEF ChannelsInv
    <2>1. Busy(t) /\ calls' = calls /\ calls[t].on \in DOMAIN lines
        BY <1>1 DEF Busy, CountInv, CallsInv
    <2> QED
        BY <1>3, <1>4, <2>1 DEF CountInv, ChannelsInv
<1>8. Asked' = Asked
    BY <1>1 DEF Asked, Subscribing, Busy
<1>9. IsFiniteSet({}) /\ Cardinality({}) = 0
    BY FS_EmptySet
<1>10. CapInv'
    BY <1>1, <1>3, <1>4, <1>8, <1>9 DEF CountInv, CapInv, Limit
<1>11. ASSUME NEW c \in DOMAIN lines'
       PROVE  /\ lines'[c].is = "open" /\ owner' # "abandoned" =>
                    lines'[c].channels \subseteq Elements(recorded') \union InFlight("subscribe", c)'
              /\ Len(lines') = 1 /\ lines'[c].is = "open" =>
                    Elements(recorded') \subseteq lines'[c].channels \union InFlight("unsubscribe", c)'
              /\ Cardinality(lines'[c].channels) <= Limit
    <2>1. CASE c = n
        <3>1. lines'[c].channels = {}
            BY <1>3, <1>4, <2>1
        <3>2. Len(lines') = 1 => lines = <<>>
            BY <1>2, <1>4
        <3>3. lines = <<>> => Elements(recorded') = {}
            BY <1>1 DEF CountInv, CallsInv, Elements
        <3> QED
            BY <1>9, <3>1, <3>2, <3>3, AskedFinite
    <2>2. CASE c # n
        <3>1. c \in DOMAIN lines /\ lines'[c] = lines[c] /\ lines'[c].is # "open"
            BY <1>4, <1>5, <2>2
        <3> QED
            BY <3>1 DEF CountInv, SubscriptionsCounted, Limit
    <2> QED
        BY <2>1, <2>2
<1>12. SubscriptionsCounted'
    BY <1>11 DEF SubscriptionsCounted, Limit
<1> QED
    BY <1>6, <1>7, <1>10, <1>12 DEF CountInv

(* A call begins: a subscription found room for its batch beside the       *)
(* record, and the other tasks ask for a batch each.                       *)
LEMMA BeginsCounts ==
    ASSUME CountInv, SocketInv', NEW t \in Tasks, NEW b \in Batches[t],
           NEW op \in {"subscribe", "unsubscribe"}, Send(t, op, b),
           op = "subscribe" => MaySubscribe(t) /\ Fits(b), t = Stream => op = "subscribe"
    PROVE  CountInv'
<1> DEFINE w == [at |-> "sending", op |-> op, batch |-> b, on |-> ws]
<1>1. /\ calls[t].at = "idle" /\ ws # None /\ calls' = [calls EXCEPT ![t] = w]
      /\ UNCHANGED <<usage, owner, ws, lines, heartbeat, recorded, reader>>
    BY DEF Send
<1>2. /\ w.at = "sending" /\ w.op = op /\ w.batch = b /\ w.on = ws
    OBVIOUS
<1>3. calls \in [Tasks -> CallType]
    BY DEF CountInv, SocketInv, LinesInv
<1> HIDE DEF w
<1>4. calls'[t] = w /\ \A u \in Tasks : u # t => calls'[u] = calls[u]
    BY <1>1, <1>3
<1>5. ws \in DOMAIN lines /\ ws = Len(lines) /\ DOMAIN lines = 1..Len(lines) /\ Len(lines) \in Nat
    BY <1>1 DEF CountInv, SocketInv, LinesInv, CallsInv
<1>6. op = "subscribe" => (t = Stream <=> usage = "stream")
    BY DEF MaySubscribe, CountInv, CallsInv
<1>7. CallsInv'
    BY <1>1, <1>2, <1>4, <1>5, <1>6 DEF CountInv, CallsInv, Busy
<1>8. ChannelsInv'
    BY <1>1, <1>2, <1>4, <1>5 DEF CountInv, ChannelsInv, Busy
<1>9. \A p, c : InFlight(p, c)' = InFlight(p, c)
    BY <1>1, <1>2, <1>4 DEF InFlight
<1>10. SubscriptionsCounted'
    BY <1>1, <1>9 DEF CountInv, SubscriptionsCounted
<1>11. CASE op = "unsubscribe"
    <2>1. Asked' = Asked
        BY <1>1, <1>2, <1>4, <1>11 DEF Asked, Subscribing, Busy
    <2> QED
        BY <1>1, <1>7, <1>8, <1>10, <2>1 DEF CountInv, CapInv, Limit
<1>12. CASE op = "subscribe"
    <2> DEFINE Own == {t} \X (1..Len(b))
    <2>1. Len(b) \in Nat /\ Len(b) <= MaxBatch /\ MaxBatch \in Nat
        BY BatchIs, AskedFinite
    <2>2. IsFiniteSet(Own) /\ Cardinality(Own) = Len(b)
        BY <2>1, PlacesCount
    <2>3. Asked' = Asked \union Own /\ Asked \intersect Own = {}
        <3>1. ~Subscribing(t) /\ Subscribing(t)'
            BY <1>1, <1>2, <1>4, <1>12 DEF Subscribing, Busy
        <3>2. \A u \in Tasks : u # t => Subscribing(u)' = Subscribing(u)
            BY <1>4 DEF Subscribing, Busy
        <3>3. ASSUME NEW u \in Tasks, NEW k \in 1..MaxBatch
              PROVE  (Subscribing(u)' /\ k <= Len(calls'[u].batch)) <=>
                        \/ Subscribing(u) /\ k <= Len(calls[u].batch)
                        \/ u = t /\ k \in 1..Len(b)
            <4>1. CASE u = t
                BY <1>2, <1>4, <2>1, <3>1, <4>1
            <4>2. CASE u # t
                BY <1>4, <3>2, <4>2
            <4> QED
                BY <4>1, <4>2
        <3>4. Own \subseteq Tasks \X (1..MaxBatch)
            BY <2>1
        <3>5. \A p \in Asked : p[1] # t
            BY <3>1 DEF Asked
        <3>6. Asked' = {p \in Tasks \X (1..MaxBatch) :
                            Subscribing(p[1])' /\ p[2] <= Len(calls'[p[1]].batch)}
            BY DEF Asked
        <3> HIDE DEF Subscribing
        <3>7. Asked' = Asked \union Own
            BY <3>3, <3>4, <3>6 DEF Asked
        <3> QED
            BY <3>5, <3>7
    <2>4. Cardinality(Asked') = Cardinality(Asked) + Len(b)
        <3>1. IsFiniteSet(Asked) /\ Cardinality(Asked) \in Nat
            BY AskedFinite
        <3>2. Cardinality(Asked \union Own) = Cardinality(Asked) + Cardinality(Own) - Cardinality({})
            BY <2>2, <2>3, <3>1, FS_Union
        <3> QED
            BY <2>1, <2>2, <2>3, <3>1, <3>2, FS_EmptySet
    <2>5. Cardinality(Asked) <= (Cardinality(Callers) - 1) * MaxBatch
        <3>1. CASE usage = "stream"
            <4>1. \A u \in Tasks : ~Subscribing(u)
                BY <1>1, <1>6, <1>12, <3>1 DEF CountInv, CallsInv, Subscribing, Busy
            <4>2. Asked = {}
                BY <4>1 DEF Asked
            <4> QED
                BY <4>2, FS_EmptySet, AskedFinite DEF Limit
        <3>2. CASE usage # "stream"
            <4> DEFINE Others == (Callers \ {t}) \X (1..MaxBatch)
            <4>1. t \in Callers /\ ~Subscribing(t) /\ ~Subscribing(Stream)
                BY <1>1, <1>6, <1>12, <3>2, StreamIsTask
                   DEF CountInv, CallsInv, Subscribing, Busy, Tasks
            <4>2. Asked \in SUBSET Others
                BY <4>1 DEF Asked, Tasks
            <4>3. IsFiniteSet(Callers \ {t})
                  /\ Cardinality(Callers \ {t}) = Cardinality(Callers) - 1
                BY <4>1, SocketAssumption, FS_RemoveElement
            <4>4. IsFiniteSet(1..MaxBatch) /\ Cardinality(1..MaxBatch) = MaxBatch
                BY <2>1, FS_Interval
            <4>5. IsFiniteSet(Others)
                  /\ Cardinality(Others) = (Cardinality(Callers) - 1) * MaxBatch
                BY <4>3, <4>4, FS_Product
            <4> HIDE DEF Others
            <4> QED
                BY <4>2, <4>5, FS_Subset
        <3> QED
            BY <3>1, <3>2
    <2>6. Len(recorded) \in Nat /\ Len(recorded) + Len(b) <= Cap
        BY <1>12 DEF Fits, CountInv, CallsInv
    <2> DEFINE product == (Cardinality(Callers) - 1) * MaxBatch
    <2>7. Limit = Cap + product /\ Cardinality(Asked) <= product
        BY <2>5 DEF Limit
    <2> HIDE DEF product, Own
    <2>8. Cardinality(Asked) \in Nat /\ Limit \in Nat /\ Cap \in Nat
        BY AskedFinite
    <2>9. Len(recorded) + Cardinality(Asked') <= Limit
        <3>1. product \in Int
            BY AskedFinite, SMTT(30) DEF product
        <3> QED
            BY <2>1, <2>4, <2>6, <2>7, <2>8, <3>1
    <2>10. CapInv'
        BY <1>1, <2>9 DEF CountInv, CapInv, Limit
    <2> QED
        BY <1>7, <1>8, <1>10, <2>10 DEF CountInv
<1> QED
    BY <1>11, <1>12

(* The venue gets a frame: no task but its own handles its channels.       *)
LEMMA DeliveredCounts ==
    ASSUME CountInv, SocketInv', NEW t \in Tasks, Delivered(t)
    PROVE  CountInv'
<1> DEFINE n == calls[t].on
           B == Elements(calls[t].batch)
           new == IF calls[t].op = "subscribe" THEN lines[n].channels \union B
                  ELSE lines[n].channels \ B
           l == [lines[n] EXCEPT !.channels = new]
           w == [calls[t] EXCEPT !.at = "sent"]
<1>1. /\ calls[t].at = "sending" /\ lines[n].is = "open" /\ lines' = [lines EXCEPT ![n] = l]
      /\ calls' = [calls EXCEPT ![t] = w]
      /\ UNCHANGED <<usage, owner, ws, heartbeat, recorded, reader>>
    BY DEF Delivered
<1>2. /\ calls[t] \in CallType /\ calls \in [Tasks -> CallType] /\ lines \in Seq(LineType)
      /\ Busy(t) /\ n \in DOMAIN lines /\ lines[n] \in LineType
      /\ calls[t].batch \in Batches[t] /\ calls[t].op \in {"subscribe", "unsubscribe"}
    <2>1. Busy(t)
        BY <1>1 DEF Busy
    <2> QED
        BY <2>1 DEF CountInv, CallsInv, SocketInv, LinesInv
<1>3. B \subseteq Handled(t) /\ IsFiniteSet(B)
    <2>1. calls[t].batch \in Seq(Elements(calls[t].batch))
        BY <1>2, BatchIs
    <2>2. IsFiniteSet(B)
        BY <2>1, ElementsCount
    <2> QED
        BY <1>2, <2>2, BatchIs
<1>4. l.channels = new /\ l.is = lines[n].is
    <2> HIDE DEF new
    <2> QED
        BY <1>2 DEF LineType
<1>5. w.at = "sent" /\ w.op = calls[t].op /\ w.batch = calls[t].batch /\ w.on = n
    BY <1>2 DEF CallType
<1> DEFINE C == lines[n].channels
<1>6. /\ new = IF calls[t].op = "subscribe" THEN C \union B ELSE C \ B
      /\ IsFiniteSet(new)
    <2>1. IsFiniteSet(C)
        BY <1>2 DEF CountInv, CapInv
    <2>2. IsFiniteSet(C \union B) /\ IsFiniteSet(C \ B)
        BY <1>3, <2>1, FS_Union, FS_Difference
    <2> QED
        BY <2>2
<1> HIDE DEF l, w, new, B, C
<1>7. calls'[t] = w /\ \A u \in Tasks : u # t => calls'[u] = calls[u]
    BY <1>1, <1>2
<1>8. /\ DOMAIN lines' = DOMAIN lines /\ Len(lines') = Len(lines) /\ lines'[n] = l
      /\ lines' # <<>>
      /\ \A c \in DOMAIN lines : c # n => lines'[c] = lines[c]
      /\ \A c \in DOMAIN lines : lines'[c].is = lines[c].is
    BY <1>1, <1>2, <1>4
<1>9. \A u \in Tasks : /\ Busy(u)' <=> Busy(u)
                       /\ calls'[u].op = calls[u].op /\ calls'[u].batch = calls[u].batch
                       /\ calls'[u].on = calls[u].on
    BY <1>1, <1>5, <1>7 DEF Busy
<1>10. CallsInv'
    BY <1>1, <1>8, <1>9 DEF CountInv, CallsInv
<1>11. Asked' = Asked
    BY <1>9 DEF Asked, Subscribing
<1>12. CapInv'
    BY <1>1, <1>4, <1>6, <1>8, <1>11 DEF CountInv, CapInv, Limit
<1>13. \A u \in Tasks : u # t => Handled(u) \intersect B = {}
    BY <1>3, SocketAssumption
<1>14. ASSUME NEW u \in Tasks, Busy(u)'
       PROVE  /\ \A c \in DOMAIN lines' : c > calls'[u].on =>
                        lines'[c].channels \intersect Handled(u) = {}
              /\ calls'[u].at = "sent" /\ calls'[u].op = "subscribe" =>
                        Elements(calls'[u].batch) \subseteq lines'[calls'[u].on].channels
              /\ calls'[u].at = "sent" /\ calls'[u].op = "unsubscribe" =>
                        Elements(calls'[u].batch) \intersect lines'[calls'[u].on].channels = {}
    <2>1. /\ Busy(u) /\ calls[u].on \in DOMAIN lines /\ calls[u].batch \in Batches[u]
          /\ \A c \in DOMAIN lines : c > calls[u].on =>
                        lines[c].channels \intersect Handled(u) = {}
        BY <1>9, <1>14 DEF CountInv, CallsInv, ChannelsInv
    <2>2. Elements(calls[u].batch) \subseteq Handled(u)
        BY <2>1, BatchIs
    <2>3. CASE u = t
        <3>1. ~(n > n) /\ B = Elements(calls'[t].batch)
            BY <1>5, <1>7 DEF B, CallType, CountInv, SocketInv, LinesInv
        <3>2. /\ calls[t].op = "subscribe" => B \subseteq new
              /\ calls[t].op = "unsubscribe" => B \intersect new = {}
            BY <1>6
        <3>3. calls'[t].on = n /\ calls'[t].op = calls[t].op /\ lines'[n].channels = new
            BY <1>4, <1>5, <1>7, <1>8
        <3>4. \A c \in DOMAIN lines' : c > n => lines'[c].channels \intersect Handled(t) = {}
            BY <1>8, <2>1, <2>3, <3>1
        <3> QED
            BY <2>3, <3>1, <3>2, <3>3, <3>4
    <2>4. CASE u # t
        <3>1. calls'[u] = calls[u] /\ Handled(u) \intersect B = {}
            BY <1>7, <1>13, <2>4
        <3>2. ASSUME NEW c \in DOMAIN lines
              PROVE  lines'[c].channels \intersect Handled(u) = lines[c].channels \intersect Handled(u)
            <4>1. CASE c = n
                BY <1>4, <1>6, <1>8, <3>1, <4>1 DEF C
            <4>2. CASE c # n
                BY <1>8, <4>2
            <4> QED
                BY <4>1, <4>2
        <3>3. /\ calls[u].at = "sent" /\ calls[u].op = "subscribe" =>
                        Elements(calls[u].batch) \subseteq lines[calls[u].on].channels
              /\ calls[u].at = "sent" /\ calls[u].op = "unsubscribe" =>
                        Elements(calls[u].batch) \intersect lines[calls[u].on].channels = {}
            BY <2>1 DEF CountInv, ChannelsInv
        <3>4. lines'[calls[u].on].channels \intersect Handled(u)
                = lines[calls[u].on].channels \intersect Handled(u)
            BY <2>1, <3>2
        <3>5. \A c \in DOMAIN lines' : c > calls'[u].on =>
                        lines'[c].channels \intersect Handled(u) = {}
            BY <1>8, <2>1, <3>1, <3>2
        <3> QED
            BY <2>2, <3>1, <3>3, <3>4, <3>5
    <2> QED
        BY <2>3, <2>4
<1>15. ChannelsInv'
    BY <1>14 DEF ChannelsInv
<1>16. ASSUME NEW op, NEW c
       PROVE  /\ \A x \in InFlight(op, c) : x \in InFlight(op, c)'
              /\ op = calls[t].op /\ c = n => \A x \in B : x \in InFlight(op, c)'
    <2>1. ASSUME NEW u \in Tasks, calls[u].at = "sent", calls[u].op = op, calls[u].on = c,
                 NEW x \in Elements(calls[u].batch)
          PROVE  x \in InFlight(op, c)'
        <3>1. u # t
            BY <1>1, <2>1
        <3>2. calls'[u] = calls[u]
            BY <1>7, <3>1
        <3> QED
            BY <2>1, <3>2 DEF InFlight
    <2>2. ASSUME op = calls[t].op, c = n, NEW x \in B
          PROVE  x \in InFlight(op, c)'
        <3>1. /\ calls'[t].at = "sent" /\ calls'[t].op = op /\ calls'[t].on = c
              /\ x \in Elements(calls'[t].batch)
            BY <1>5, <1>7, <2>2 DEF B
        <3> QED
            BY <3>1 DEF InFlight
    <2>3. \A x \in InFlight(op, c) : \E u \in Tasks :
            /\ calls[u].at = "sent" /\ calls[u].op = op /\ calls[u].on = c
            /\ x \in Elements(calls[u].batch)
        BY DEF InFlight
    <2> QED
        BY <2>1, <2>2, <2>3
<1>17. ASSUME NEW c \in DOMAIN lines'
       PROVE  /\ lines'[c].is = "open" /\ owner' # "abandoned" =>
                    lines'[c].channels \subseteq Elements(recorded') \union InFlight("subscribe", c)'
              /\ Len(lines') = 1 /\ lines'[c].is = "open" =>
                    Elements(recorded') \subseteq lines'[c].channels \union InFlight("unsubscribe", c)'
              /\ Cardinality(lines'[c].channels) <= Limit
    <2>1. /\ lines[c].is = "open" /\ owner # "abandoned" =>
                    lines[c].channels \subseteq Elements(recorded) \union InFlight("subscribe", c)
          /\ Len(lines) = 1 /\ lines[c].is = "open" =>
                    Elements(recorded) \subseteq lines[c].channels \union InFlight("unsubscribe", c)
          /\ Cardinality(lines[c].channels) <= Limit
        BY <1>8 DEF CountInv, SubscriptionsCounted, Limit
    <2>2. CASE c # n
        <3>1. lines'[c] = lines[c] /\ recorded' = recorded /\ owner' = owner
            BY <1>1, <1>8, <2>2
        <3>2. /\ \A x \in InFlight("subscribe", c) : x \in InFlight("subscribe", c)'
              /\ \A x \in InFlight("unsubscribe", c) : x \in InFlight("unsubscribe", c)'
            BY <1>16
        <3>3. Elements(recorded') = Elements(recorded)
            BY <3>1
        <3> QED
            BY <1>8, <2>1, <3>1, <3>2, <3>3
    <2>3. CASE c = n
        <3>1. lines'[c].channels = new
            BY <1>4, <1>8, <2>3
        <3>2. owner # "abandoned" =>
                /\ C \subseteq Elements(recorded) \union InFlight("subscribe", c)
                /\ new \subseteq Elements(recorded) \union InFlight("subscribe", c)'
            <4>1. owner # "abandoned" =>
                    C \subseteq Elements(recorded) \union InFlight("subscribe", c)
                BY <1>1, <2>1, <2>3 DEF C
            <4>2. /\ \A x \in InFlight("subscribe", c) : x \in InFlight("subscribe", c)'
                  /\ calls[t].op = "subscribe" => B \subseteq InFlight("subscribe", c)'
                BY <1>16, <2>3
            <4> QED
                BY <1>6, <4>1, <4>2
        <3>3. Len(lines) = 1 =>
                Elements(recorded) \subseteq new \union InFlight("unsubscribe", c)'
            <4>1. Len(lines) = 1 =>
                    Elements(recorded) \subseteq C \union InFlight("unsubscribe", c)
                BY <1>1, <2>1, <2>3 DEF C
            <4>2. /\ \A x \in InFlight("unsubscribe", c) : x \in InFlight("unsubscribe", c)'
                  /\ calls[t].op = "unsubscribe" => B \subseteq InFlight("unsubscribe", c)'
                BY <1>16, <2>3
            <4> QED
                BY <1>2, <1>6, <4>1, <4>2
        <3>4. CASE owner # "abandoned"
            <4>1. ASSUME NEW x \in new
                  PROVE  \/ x \in Elements(recorded)
                         \/ \E u \in Tasks : Subscribing(u) /\ x \in Elements(calls[u].batch)
                <5>1. CASE x \in C
                    BY <3>2, <3>4, <5>1 DEF InFlight, Subscribing, Busy
                <5>2. CASE x \notin C
                    BY <1>2, <1>6, <4>1, <5>2 DEF Subscribing, B
                <5> QED
                    BY <5>1, <5>2
            <4>2. Cardinality(new) <= Limit
                BY <4>1, WithinLimit DEF CountInv
            <4>3. Elements(recorded') = Elements(recorded)
                BY <1>1
            <4> QED
                BY <1>1, <1>8, <2>3, <3>1, <3>2, <3>3, <3>4, <4>2, <4>3
        <3>5. CASE owner = "abandoned"
            <4>1. calls[t].op = "unsubscribe"
                <5>1. usage = "stream" /\ (calls[t].op = "subscribe" => t = Stream)
                    BY <1>2, <3>5 DEF CountInv, CallsInv
                <5>2. t # Stream
                    BY <1>1, <3>5 DEF CountInv, SocketInv, OwnerInv
                <5> QED
                    BY <1>2, <5>1, <5>2
            <4>2. IsFiniteSet(C) /\ new \in SUBSET C
                BY <1>2, <1>6, <4>1 DEF CountInv, CapInv, C
            <4>3. /\ Cardinality(new) <= Cardinality(C) /\ Cardinality(new) \in Nat
                  /\ Cardinality(C) \in Nat
                BY <1>6, <4>2, FS_Subset, FS_CardinalityType
            <4>4. Cardinality(C) <= Limit
                BY <2>1, <2>3 DEF C
            <4>5. Cardinality(new) <= Limit
                BY <4>3, <4>4, AskedFinite
            <4>6. Elements(recorded') = Elements(recorded)
                BY <1>1
            <4> QED
                BY <1>1, <1>8, <2>3, <3>1, <3>3, <3>5, <4>5, <4>6
        <3> QED
            BY <3>4, <3>5
    <2> QED
        BY <2>2, <2>3
<1>18. SubscriptionsCounted'
    BY <1>17 DEF SubscriptionsCounted, Limit
<1> QED
    BY <1>10, <1>12, <1>15, <1>18 DEF CountInv

(* A call that ends takes its batch out of what is asked for.              *)
LEMMA AskedShrinks ==
    ASSUME CountInv, NEW t \in Tasks, calls' = [calls EXCEPT ![t] = NoCall]
    PROVE  /\ ~Busy(t)' /\ \A u \in Tasks : u # t => calls'[u] = calls[u]
           /\ Cardinality(Asked') \in Nat /\ Cardinality(Asked') <= Cardinality(Asked)
           /\ Subscribing(t) =>
                Cardinality(Asked') = Cardinality(Asked) - Len(calls[t].batch)
<1>1. calls \in [Tasks -> CallType]
    BY DEF CountInv, SocketInv, LinesInv
<1>2. ~Busy(t)' /\ \A u \in Tasks : u # t => calls'[u] = calls[u]
    BY <1>1 DEF Busy, NoCall
<1> DEFINE Own == {t} \X (1..Len(calls[t].batch))
<1>3. Asked' = {p \in Asked : p[1] # t}
    <2>1. \A u \in Tasks : u # t => Subscribing(u)' = Subscribing(u) /\ calls'[u] = calls[u]
        BY <1>2 DEF Subscribing, Busy
    <2>2. ~Subscribing(t)'
        BY <1>2 DEF Subscribing
    <2>3. Asked' = {p \in Tasks \X (1..MaxBatch) :
                        Subscribing(p[1])' /\ p[2] <= Len(calls'[p[1]].batch)}
        BY DEF Asked
    <2> HIDE DEF Subscribing
    <2> QED
        BY <2>1, <2>2, <2>3 DEF Asked
<1>4. IsFiniteSet(Asked) /\ Cardinality(Asked) \in Nat
    BY AskedFinite
<1>5. Asked' \in SUBSET Asked
    BY <1>3
<1>6. /\ IsFiniteSet(Asked') /\ Cardinality(Asked') \in Nat
      /\ Cardinality(Asked') <= Cardinality(Asked)
    BY <1>4, <1>5, FS_Subset, FS_CardinalityType
<1>7. ASSUME Subscribing(t)
      PROVE  Cardinality(Asked') = Cardinality(Asked) - Len(calls[t].batch)
    <2>1. Len(calls[t].batch) \in Nat /\ Len(calls[t].batch) <= MaxBatch /\ MaxBatch \in Nat
        BY <1>7, BatchIs, AskedFinite DEF CountInv, CallsInv, Subscribing
    <2>2. IsFiniteSet(Own) /\ Cardinality(Own) = Len(calls[t].batch)
        BY <2>1, PlacesCount
    <2>3. Asked = Asked' \union Own /\ Asked' \intersect Own = {}
        <3>1. {p \in Asked : p[1] = t} = Own
            <4>1. ASSUME NEW k \in 1..Len(calls[t].batch)
                  PROVE  <<t, k>> \in Asked
                BY <1>7, <2>1, <4>1 DEF Asked
            <4>2. ASSUME NEW p \in Asked, p[1] = t
                  PROVE  p \in Own
                <5>1. /\ p[2] \in 1..MaxBatch /\ p[2] <= Len(calls[t].batch)
                      /\ p = <<t, p[2]>>
                    BY <4>2 DEF Asked
                <5> QED
                    BY <2>1, <5>1
            <4> QED
                BY <4>1, <4>2
        <3> QED
            BY <1>3, <3>1
    <2> HIDE DEF Own
    <2>4. Cardinality(Asked' \union Own)
            = Cardinality(Asked') + Cardinality(Own) - Cardinality(Asked' \intersect Own)
        BY <1>6, <2>2, FS_Union
    <2>5. Cardinality({}) = 0
        BY FS_EmptySet
    <2>6. /\ Cardinality(Asked) = Cardinality(Asked' \union Own)
          /\ Cardinality(Asked' \intersect Own) = 0
        BY <2>3, <2>5
    <2> QED
        BY <1>6, <2>1, <2>2, <2>4, <2>6
<1> QED
    BY <1>2, <1>6, <1>7

(* A call that ends without its channels: the connection was closed, or    *)
(* the entering stream is cancelled and never used.                        *)
LEMMA AbortCounts ==
    ASSUME CountInv, SocketInv', NEW t \in Tasks, calls' = [calls EXCEPT ![t] = NoCall],
           UNCHANGED <<usage, ws, lines, recorded>>,
           \/ calls[t].at = "sending" /\ owner' = IF t = Stream THEN "abandoned" ELSE owner
           \/ t = Stream /\ owner = "entering" /\ owner' = "abandoned"
    PROVE  CountInv'
<1>1. /\ ~Busy(t)' /\ \A u \in Tasks : u # t => calls'[u] = calls[u]
      /\ Cardinality(Asked') \in Nat /\ Cardinality(Asked') <= Cardinality(Asked)
    BY AskedShrinks
<1>2. owner' \in {"entering", "abandoned"} => usage = "stream"
    BY DEF CountInv, CallsInv, SocketInv, OwnerInv
<1>3. CallsInv'
    BY <1>1, <1>2 DEF CountInv, CallsInv, Busy
<1>4. ChannelsInv'
    BY <1>1 DEF CountInv, ChannelsInv, Busy
<1>5. Len(recorded) \in Nat /\ Cardinality(Asked) \in Nat /\ Limit \in Nat
    BY AskedFinite DEF CountInv, CallsInv
<1>6. CapInv'
    <2>1. Len(recorded) + Cardinality(Asked) <= Limit
        BY DEF CountInv, CapInv
    <2>2. Len(recorded) + Cardinality(Asked') <= Limit
        BY <1>1, <1>5, <2>1
    <2> QED
        BY <2>2 DEF CountInv, CapInv, Limit
<1>7. calls[t].at = "sent" => t = Stream /\ owner' = "abandoned" /\ calls[t].op # "unsubscribe"
    BY DEF CountInv, CallsInv, Busy
<1>8. \A c, x : /\ x \in InFlight("unsubscribe", c) => x \in InFlight("unsubscribe", c)'
                /\ owner' # "abandoned" /\ x \in InFlight("subscribe", c) =>
                        x \in InFlight("subscribe", c)'
    BY <1>1, <1>7 DEF InFlight
<1>9. owner = "abandoned" => owner' = "abandoned"
    BY DEF CountInv, SocketInv, OwnerInv
<1>10. SubscriptionsCounted'
    BY <1>8, <1>9 DEF CountInv, SubscriptionsCounted
<1> QED
    BY <1>3, <1>4, <1>6, <1>10 DEF CountInv

(* What a call that returns makes of the record.                           *)
LEMMA RecordIs ==
    ASSUME CountInv, NEW t \in Tasks, Returns(t)
    PROVE  /\ recorded' \in Seq(Channels)
           /\ calls[t].op = "subscribe" =>
                /\ Elements(recorded') = Elements(recorded) \union Elements(calls[t].batch)
                /\ Len(recorded') = Len(recorded) + Len(calls[t].batch)
           /\ calls[t].op = "unsubscribe" =>
                /\ Elements(recorded') = Elements(recorded) \ Elements(calls[t].batch)
                /\ Len(recorded') <= Len(recorded)
<1> DEFINE b == calls[t].batch
<1>1. b \in Seq(Channels) /\ recorded \in Seq(Channels)
      /\ calls[t].op \in {"subscribe", "unsubscribe"}
    <2>1. Busy(t)
        BY DEF Returns, Busy
    <2> QED
        BY <2>1, BatchIs DEF CountInv, CallsInv
<1>2. recorded' = IF calls[t].op = "subscribe" THEN recorded \o b ELSE Without(recorded, Elements(b))
    BY DEF Returns
<1> HIDE DEF b
<1>3. CASE calls[t].op = "subscribe"
    <2> DEFINE q == recorded \o b
    <2>1. q \in Seq(Channels) /\ Len(q) = Len(recorded) + Len(b)
        BY <1>1
    <2>2. Elements(q) = Elements(recorded) \union Elements(b)
        <3>1. /\ DOMAIN q = 1..(Len(recorded) + Len(b)) /\ DOMAIN recorded = 1..Len(recorded)
              /\ DOMAIN b = 1..Len(b) /\ Len(recorded) \in Nat /\ Len(b) \in Nat
            BY <1>1
        <3>2. /\ \A k \in 1..Len(recorded) : q[k] = recorded[k] /\ k \in DOMAIN q
              /\ \A k \in 1..Len(b) : q[Len(recorded) + k] = b[k] /\ Len(recorded) + k \in DOMAIN q
            BY <1>1, <3>1
        <3>3. ASSUME NEW k \in DOMAIN q
              PROVE  q[k] \in Elements(recorded) \union Elements(b)
            <4>1. CASE k \in 1..Len(recorded)
                BY <3>1, <3>2, <4>1 DEF Elements
            <4>2. CASE k \notin 1..Len(recorded)
                <5>1. k - Len(recorded) \in 1..Len(b) /\ k = Len(recorded) + (k - Len(recorded))
                    BY <3>1, <4>2
                <5> HIDE DEF q
                <5>2. q[k] = b[k - Len(recorded)]
                    BY <3>2, <5>1
                <5> QED
                    BY <3>1, <5>1, <5>2 DEF Elements
            <4> QED
                BY <4>1, <4>2
        <3> HIDE DEF q
        <3>4. Elements(q) \subseteq Elements(recorded) \union Elements(b)
            BY <3>3 DEF Elements
        <3>5. Elements(recorded) \subseteq Elements(q) /\ Elements(b) \subseteq Elements(q)
            BY <3>1, <3>2 DEF Elements
        <3> QED
            BY <3>4, <3>5
    <2> QED
        BY <1>2, <1>3, <2>1, <2>2 DEF b
<1>4. CASE calls[t].op = "unsubscribe"
    <2>1. recorded' = Without(recorded, Elements(b))
        BY <1>2, <1>4
    <2> QED
        BY <1>1, <1>4, <2>1, WithoutIs DEF b
<1> QED
    BY <1>1, <1>3, <1>4

(* A call that returns moves its batch from what is asked for to the       *)
(* record, or takes it out of the record.                                  *)
LEMMA ReturnsCounts ==
    ASSUME CountInv, SocketInv', NEW t \in Tasks, Returns(t)
    PROVE  CountInv'
<1> DEFINE B == Elements(calls[t].batch)
           n == calls[t].on
<1>1. /\ calls[t].at = "sent" /\ calls' = [calls EXCEPT ![t] = NoCall]
      /\ owner' = (IF t = Stream THEN "in" ELSE owner)
      /\ UNCHANGED <<usage, ws, lines, heartbeat, reader>>
    BY DEF Returns
<1>2. /\ Busy(t) /\ n \in DOMAIN lines /\ lines # <<>> /\ calls[t].batch \in Batches[t]
      /\ calls[t].op \in {"subscribe", "unsubscribe"}
      /\ lines \in Seq(LineType) /\ DOMAIN lines = 1..Len(lines) /\ Len(lines) \in Nat
    <2>1. Busy(t)
        BY <1>1 DEF Busy
    <2> QED
        BY <2>1 DEF CountInv, CallsInv, SocketInv, LinesInv
<1>3. /\ ~Busy(t)' /\ \A u \in Tasks : u # t => calls'[u] = calls[u]
      /\ Cardinality(Asked') \in Nat /\ Cardinality(Asked') <= Cardinality(Asked)
      /\ Subscribing(t) => Cardinality(Asked') = Cardinality(Asked) - Len(calls[t].batch)
    BY <1>1, AskedShrinks
<1>4. /\ recorded' \in Seq(Channels)
      /\ calls[t].op = "subscribe" =>
            /\ Elements(recorded') = Elements(recorded) \union B
            /\ Len(recorded') = Len(recorded) + Len(calls[t].batch)
      /\ calls[t].op = "unsubscribe" =>
            /\ Elements(recorded') = Elements(recorded) \ B
            /\ Len(recorded') <= Len(recorded)
    BY RecordIs
<1>5. CallsInv'
    BY <1>1, <1>2, <1>3, <1>4 DEF CountInv, CallsInv, Busy
<1>6. ChannelsInv'
    BY <1>1, <1>3 DEF CountInv, ChannelsInv, Busy
<1>7. CapInv'
    <2>1. /\ Len(recorded) \in Nat /\ Len(recorded') \in Nat /\ Cardinality(Asked) \in Nat
          /\ Limit \in Nat /\ Len(recorded) + Cardinality(Asked) <= Limit
          /\ Len(calls[t].batch) \in Nat
        BY <1>2, <1>4, AskedFinite, BatchIs DEF CountInv, CapInv, CallsInv
    <2>2. Len(recorded') + Cardinality(Asked') <= Limit
        <3>1. CASE calls[t].op = "subscribe"
            BY <1>2, <1>3, <1>4, <2>1, <3>1 DEF Subscribing
        <3>2. CASE calls[t].op = "unsubscribe"
            BY <1>3, <1>4, <2>1, <3>2
        <3> QED
            BY <1>2, <3>1, <3>2
    <2> QED
        BY <1>1, <2>2 DEF CountInv, CapInv, Limit
<1>8. ASSUME NEW op, NEW c, NEW x \in InFlight(op, c)
      PROVE  x \in InFlight(op, c)' \/ (op = calls[t].op /\ x \in B)
    BY <1>3 DEF InFlight
<1>9. ASSUME NEW c \in DOMAIN lines, lines[c].is = "open", calls[t].op = "unsubscribe"
      PROVE  lines[c].channels \intersect B = {}
    <2>1. c = ws /\ ws # None
        BY <1>9, NumbersAreNotNone DEF CountInv, SocketInv, OwnerInv
    <2>2. c = Len(lines)
        BY <2>1 DEF CountInv, CallsInv
    <2>3. CASE c = n
        BY <1>1, <1>2, <1>9, <2>3 DEF CountInv, ChannelsInv
    <2>4. CASE c # n
        <3>1. c > n
            BY <1>2, <2>2, <2>4
        <3>2. B \subseteq Handled(t)
            BY <1>2, BatchIs
        <3> HIDE DEF B
        <3> QED
            BY <1>2, <1>9, <3>1, <3>2 DEF CountInv, ChannelsInv
    <2> QED
        BY <2>3, <2>4
<1>10. ASSUME NEW c \in DOMAIN lines'
       PROVE  /\ lines'[c].is = "open" /\ owner' # "abandoned" =>
                    lines'[c].channels \subseteq Elements(recorded') \union InFlight("subscribe", c)'
              /\ Len(lines') = 1 /\ lines'[c].is = "open" =>
                    Elements(recorded') \subseteq lines'[c].channels \union InFlight("unsubscribe", c)'
              /\ Cardinality(lines'[c].channels) <= Limit
    <2>1. /\ c \in DOMAIN lines /\ lines' = lines
          /\ lines[c].is = "open" /\ owner # "abandoned" =>
                    lines[c].channels \subseteq Elements(recorded) \union InFlight("subscribe", c)
          /\ Len(lines) = 1 /\ lines[c].is = "open" =>
                    Elements(recorded) \subseteq lines[c].channels \union InFlight("unsubscribe", c)
          /\ Cardinality(lines[c].channels) <= Limit
        BY <1>1 DEF CountInv, SubscriptionsCounted, Limit
    <2>2. owner = "abandoned" => owner' = "abandoned"
        BY <1>1 DEF CountInv, SocketInv, OwnerInv
    <2> HIDE DEF B
    <2>3. ASSUME lines[c].is = "open", owner' # "abandoned", NEW x \in lines[c].channels
          PROVE  x \in Elements(recorded') \/ x \in InFlight("subscribe", c)'
        <3>1. x \in Elements(recorded) \/ x \in InFlight("subscribe", c)
            BY <2>1, <2>2, <2>3
        <3>2. x \in InFlight("subscribe", c) =>
                x \in InFlight("subscribe", c)' \/ (calls[t].op = "subscribe" /\ x \in B)
            BY <1>8
        <3>3. calls[t].op = "unsubscribe" => x \notin B
            BY <1>9, <2>1, <2>3
        <3> QED
            BY <1>2, <1>4, <3>1, <3>2, <3>3
    <2>4. ASSUME Len(lines) = 1, lines[c].is = "open", NEW x \in Elements(recorded')
          PROVE  x \in lines[c].channels \/ x \in InFlight("unsubscribe", c)'
        <3>1. c = n
            BY <1>2, <2>1, <2>4
        <3>2. calls[t].op = "subscribe" => B \subseteq lines[c].channels
            BY <1>1, <1>2, <3>1 DEF CountInv, ChannelsInv, B
        <3>3. x \in Elements(recorded) => x \in lines[c].channels \/ x \in InFlight("unsubscribe", c)
            BY <2>1, <2>4
        <3>4. x \in InFlight("unsubscribe", c) =>
                x \in InFlight("unsubscribe", c)' \/ (calls[t].op = "unsubscribe" /\ x \in B)
            BY <1>8
        <3> QED
            BY <1>2, <1>4, <2>4, <3>2, <3>3, <3>4
    <2> QED
        BY <2>1, <2>3, <2>4
<1>11. SubscriptionsCounted'
    BY <1>10 DEF SubscriptionsCounted, Limit
<1> QED
    BY <1>5, <1>6, <1>7, <1>11 DEF CountInv

(* Every step keeps the invariant.                                         *)
LEMMA CountStep == CountInv /\ [SocketNext]_socketVars => CountInv'
<1> SUFFICES ASSUME CountInv, [SocketNext]_socketVars
             PROVE  CountInv'
    OBVIOUS
<1>1. SocketInv'
    BY SocketStep DEF CountInv
<1>2. lines \in Seq(LineType)
    BY DEF CountInv, SocketInv, LinesInv
<1>3. CASE Connected
    BY <1>1, <1>3, ConnectedCounts
<1>4. ASSUME NEW t \in Tasks, Subscribe(t)
      PROVE  CountInv'
    BY <1>1, <1>4, BeginsCounts DEF Subscribe
<1>5. ASSUME NEW t \in Tasks, Unsubscribe(t)
      PROVE  CountInv'
    BY <1>1, <1>5, BeginsCounts DEF Unsubscribe
<1>6. ASSUME NEW t \in Tasks, Delivered(t)
      PROVE  CountInv'
    BY <1>1, <1>6, DeliveredCounts
<1>7. ASSUME NEW t \in Tasks, Returns(t)
      PROVE  CountInv'
    BY <1>1, <1>7, ReturnsCounts
<1>8. ASSUME NEW t \in Tasks, SendFails(t)
      PROVE  CountInv'
    BY <1>1, <1>8, AbortCounts DEF SendFails
<1>9. CASE EnterCancelled
    BY <1>1, <1>9, AbortCounts, StreamIsTask DEF EnterCancelled
<1>10. CASE HeartbeatCancelled
    <2>1. owner = "cancelling" /\ owner' = "closing" /\ lines' = [lines EXCEPT ![ws].is = "closed"]
          /\ UNCHANGED <<usage, ws, recorded, calls>>
        BY <1>10 DEF HeartbeatCancelled, ClosesLine
    <2>2. ws \in DOMAIN lines
        BY <2>1 DEF CountInv, SocketInv, LinesInv, OwnerInv
    <2>3. /\ DOMAIN lines' = DOMAIN lines /\ Len(lines') = Len(lines)
          /\ \A c \in DOMAIN lines : /\ lines'[c].channels = lines[c].channels
                                     /\ lines'[c].is = "open" => lines[c].is = "open"
        BY <1>2, <2>1, <2>2 DEF LineType
    <2> QED
        BY <1>1, <2>1, <2>3, QuietCounts
<1>11. CASE Drop
    <2>1. ws # None /\ lines' = [lines EXCEPT ![ws].is = "dropped"]
          /\ UNCHANGED <<usage, owner, ws, recorded, calls>>
        BY <1>11 DEF Drop
    <2>2. ws \in DOMAIN lines
        BY <2>1 DEF CountInv, SocketInv, LinesInv
    <2>3. /\ DOMAIN lines' = DOMAIN lines /\ Len(lines') = Len(lines)
          /\ \A c \in DOMAIN lines : /\ lines'[c].channels = lines[c].channels
                                     /\ lines'[c].is = "open" => lines[c].is = "open"
        BY <1>2, <2>1, <2>2 DEF LineType
    <2> QED
        BY <1>1, <2>1, <2>3, QuietCounts
<1>12. CASE \/ Connect \/ ConnectFails \/ Close \/ Closed \/ EnterRefused \/ PingFails \/ Read
            \/ Receive \/ UNCHANGED socketVars
    <2>1. /\ UNCHANGED <<usage, lines, recorded, calls>> /\ ws' \in {ws, None}
          /\ owner = "abandoned" => owner' = "abandoned"
          /\ owner' \in {"entering", "abandoned"} => owner \in {"entering", "abandoned"}
        BY <1>12 DEF Connect, ConnectFails, Close, Closed, EnterRefused, PingFails, Read, Receive,
                     socketVars
    <2> QED
        BY <1>1, <2>1, QuietCounts
<1> QED
    BY <1>3, <1>4, <1>5, <1>6, <1>7, <1>8, <1>9, <1>10, <1>11, <1>12 DEF SocketNext

(* Where it starts.                                                        *)
LEMMA CountStart == SocketInit => CountInv
<1> SUFFICES ASSUME SocketInit
             PROVE  CountInv
    OBVIOUS
<1>1. SocketInv
    BY InitSocket
<1>2. \A t \in Tasks : ~Busy(t) /\ ~Subscribing(t)
    BY DEF SocketInit, NoCall, Busy, Subscribing
<1>3. CallsInv /\ ChannelsInv /\ SubscriptionsCounted
    BY <1>2 DEF SocketInit, CallsInv, ChannelsInv, SubscriptionsCounted
<1>4. Asked = {}
    BY <1>2 DEF Asked
<1>5. Cardinality(Asked) = 0 /\ Limit \in Nat /\ Len(recorded) = 0 /\ DOMAIN lines = {}
    BY <1>4, FS_EmptySet, AskedFinite DEF SocketInit
<1>6. CapInv
    BY <1>5 DEF CapInv
<1> QED
    BY <1>1, <1>3, <1>6 DEF CountInv

(* What the venue sends is recorded or about to be, on the first           *)
(* connection the record holds nothing else, and the cap is overrun by at  *)
(* most a batch for every task but one.                                    *)
THEOREM SubscriptionsAreCounted == SocketSpec => []SubscriptionsCounted
<1>1. CountInv => SubscriptionsCounted
    BY DEF CountInv
<1> QED
    BY CountStart, <1>1, CountStep, PTL DEF SocketSpec

(***************************************************************************)
(* The ingest.  What a start has marked was handed over once; what the     *)
(* consumer may still keep of a hash is at most one signal of this start.  *)
(***************************************************************************)

KeptOf(h) == {q \in kept : q.dedup_hash = h}
Waiting(h) == IF \E t \in handling : DedupHash(t) = h THEN 1 ELSE 0
Unmarked(h) == IF h \notin seen /\ ingestRuns > 0 THEN 1 ELSE 0

IngestInv ==
    /\ ingestRuns \in Nat /\ (service = "started" => ingestRuns > 0)
    /\ handed \in [Hashes -> Nat] /\ seen \subseteq Hashes /\ handling \subseteq Readable
    /\ \A h \in Hashes : handed[h] = IF h \in seen THEN 1 ELSE 0
    /\ \A t \in handling : DedupHash(t) \in seen
    /\ \A t, u \in handling : DedupHash(t) = DedupHash(u) => t = u
    /\ IsFiniteSet(kept) /\ kept \subseteq {ParseSignal(t) : t \in Readable}
    /\ \A h \in Hashes : Cardinality(KeptOf(h)) + Waiting(h) + Unmarked(h) <= ingestRuns

(* The signals kept of a hash are finitely many.                           *)
LEMMA KeptAreFinite ==
    ASSUME IngestInv, NEW h
    PROVE  IsFiniteSet(KeptOf(h)) /\ Cardinality(KeptOf(h)) \in Nat
<1>1. KeptOf(h) \subseteq kept
    BY DEF KeptOf
<1>2. IsFiniteSet(KeptOf(h))
    BY <1>1, FS_Subset DEF IngestInv
<1> QED
    BY <1>2, FS_CardinalityType

(* What is marked or waits does not grow the count: a step that leaves the *)
(* kept signals alone.                                                     *)
LEMMA CountsKept ==
    ASSUME IngestInv, NEW h \in Hashes, UNCHANGED kept, ingestRuns' \in Nat,
           Waiting(h)' + Unmarked(h)' - ingestRuns' <= Waiting(h) + Unmarked(h) - ingestRuns
    PROVE  Cardinality(KeptOf(h))' + Waiting(h)' + Unmarked(h)' <= ingestRuns'
<1>1. Cardinality(KeptOf(h))' = Cardinality(KeptOf(h))
    BY DEF KeptOf
<1>2. /\ Waiting(h) \in Nat /\ Unmarked(h) \in Nat /\ Waiting(h)' \in Nat /\ Unmarked(h)' \in Nat
      /\ Cardinality(KeptOf(h)) \in Nat
    BY KeptAreFinite DEF Waiting, Unmarked
<1>3. ingestRuns \in Nat /\ Cardinality(KeptOf(h)) + Waiting(h) + Unmarked(h) <= ingestRuns
    BY DEF IngestInv
<1> QED
    BY <1>1, <1>2, <1>3

(* Every step keeps the invariant.                                         *)
LEMMA IngestStep == IngestInv /\ [IngestNext]_ingestVars => IngestInv'
<1> SUFFICES ASSUME IngestInv, [IngestNext]_ingestVars
             PROVE  IngestInv'
    OBVIOUS
<1>1. CASE UNCHANGED ingestVars
    BY <1>1 DEF ingestVars, IngestInv, KeptOf, Waiting, Unmarked
<1>2. CASE StartIngest
    <2>1. /\ ingestRuns' = ingestRuns + 1 /\ seen' = {} /\ handling' = {} /\ handed' = Empty
          /\ UNCHANGED kept /\ ingestRuns \in Nat /\ ingestRuns' \in Nat
        BY <1>2 DEF StartIngest, IngestInv
    <2>2. ASSUME NEW h \in Hashes
          PROVE  Cardinality(KeptOf(h))' + Waiting(h)' + Unmarked(h)' <= ingestRuns'
        <3>1. Waiting(h)' = 0 /\ Unmarked(h)' = 1 /\ Waiting(h) \in Nat /\ Unmarked(h) \in Nat
            BY <2>1 DEF Waiting, Unmarked
        <3> QED
            BY <2>1, <3>1, CountsKept
    <2>3. handed' \in [Hashes -> Nat] /\ \A h \in Hashes : handed'[h] = 0
        BY <2>1 DEF Empty
    <2> QED
        BY <2>1, <2>2, <2>3 DEF IngestInv
<1>3. CASE StopIngest
    <2>1. /\ service' = "stopped" /\ handling' \subseteq handling
          /\ UNCHANGED <<ingestRuns, seen, handed, kept>> /\ ingestRuns' \in Nat /\ ingestRuns \in Nat
        BY <1>3 DEF StopIngest, IngestInv
    <2>2. ASSUME NEW h \in Hashes
          PROVE  Cardinality(KeptOf(h))' + Waiting(h)' + Unmarked(h)' <= ingestRuns'
        <3>1. /\ Waiting(h)' <= Waiting(h) /\ Unmarked(h)' = Unmarked(h)
              /\ Waiting(h) \in Nat /\ Waiting(h)' \in Nat /\ Unmarked(h) \in Nat
            BY <2>1 DEF Waiting, Unmarked
        <3> QED
            BY <2>1, <3>1, CountsKept
    <2> QED
        BY <2>1, <2>2 DEF IngestInv
<1>4. ASSUME NEW t \in Texts, HandleUnparseable(t) \/ HandleDuplicate(t)
      PROVE  IngestInv'
    <2>1. UNCHANGED <<service, ingestRuns, seen, handling, handed, kept>>
        BY <1>4 DEF HandleUnparseable, HandleDuplicate
    <2> QED
        BY <2>1 DEF IngestInv, KeptOf, Waiting, Unmarked
<1>5. ASSUME NEW t \in Texts, HandleSignal(t)
      PROVE  IngestInv'
    <2> DEFINE k == DedupHash(t)
    <2>1. /\ service = "started" /\ t \in Readable /\ k \notin seen
          /\ handling' = handling \union {t} /\ handed' = [handed EXCEPT ![k] = @ + 1]
          /\ seen' = seen \union {k} /\ UNCHANGED <<service, ingestRuns, kept>>
        BY <1>5 DEF HandleSignal, HandsOver, Arrives
    <2>2. k \in Hashes
        BY <2>1 DEF Hashes
    <2>3. \A u \in handling : DedupHash(u) # k
        BY <2>1 DEF IngestInv
    <2>4. ASSUME NEW h \in Hashes
          PROVE  Cardinality(KeptOf(h))' + Waiting(h)' + Unmarked(h)' <= ingestRuns'
        <3>1. ingestRuns \in Nat /\ ingestRuns > 0 /\ ingestRuns' = ingestRuns
            BY <2>1 DEF IngestInv
        <3>2. CASE h = k
            <4>1. Waiting(h) = 0 /\ Unmarked(h) = 1 /\ Waiting(h)' = 1 /\ Unmarked(h)' = 0
                <5> HIDE DEF k
                <5>1. Waiting(h) = 0
                    BY <2>3, <3>2 DEF Waiting
                <5>2. Unmarked(h) = 1 /\ Unmarked(h)' = 0
                    BY <2>1, <3>1, <3>2 DEF Unmarked
                <5>3. Waiting(h)' = 1
                    BY <2>1, <3>2 DEF Waiting, k
                <5> QED
                    BY <5>1, <5>2, <5>3
            <4> QED
                BY <2>1, <3>1, <4>1, CountsKept
        <3>3. CASE h # k
            <4>1. Waiting(h)' = Waiting(h) /\ Unmarked(h)' = Unmarked(h)
                BY <2>1, <3>1, <3>3 DEF Waiting, Unmarked
            <4>2. Waiting(h) \in Nat /\ Unmarked(h) \in Nat
                BY DEF Waiting, Unmarked
            <4> QED
                BY <2>1, <3>1, <4>1, <4>2, CountsKept
        <3> QED
            BY <3>2, <3>3
    <2>5. /\ \A a, b \in handling' : DedupHash(a) = DedupHash(b) => a = b
          /\ \A a \in handling' : DedupHash(a) \in seen'
        BY <2>1, <2>3 DEF IngestInv
    <2> HIDE DEF k
    <2>6. /\ handed' \in [Hashes -> Nat]
          /\ \A h \in Hashes : handed'[h] = IF h \in seen' THEN 1 ELSE 0
        <3>1. /\ handed \in [Hashes -> Nat]
              /\ \A h \in Hashes : handed[h] = IF h \in seen THEN 1 ELSE 0
            BY DEF IngestInv
        <3>2. handed[k] = 0
            BY <2>1, <2>2, <3>1
        <3>3. handed'[k] = 1 /\ \A h \in Hashes : h # k => handed'[h] = handed[h]
            BY <2>1, <2>2, <3>1, <3>2
        <3>4. handed' \in [Hashes -> Nat]
            BY <2>1, <2>2, <3>1
        <3> QED
            BY <2>1, <2>2, <3>1, <3>3, <3>4
    <2> QED
        BY <2>1, <2>2, <2>4, <2>5, <2>6 DEF IngestInv
<1>6. ASSUME NEW t \in Texts, HandedOver(t)
      PROVE  IngestInv'
    <2> DEFINE k == DedupHash(t)
               p == ParseSignal(t)
    <2>1. /\ t \in handling /\ handling' = handling \ {t} /\ kept' \in {kept, kept \union {p}}
          /\ UNCHANGED <<service, ingestRuns, seen, handed>>
        BY <1>6 DEF HandedOver
    <2>2. t \in Readable /\ p.dedup_hash = k /\ p \in {ParseSignal(u) : u \in Readable}
        BY <2>1 DEF IngestInv, ParseSignal
    <2>3. IsFiniteSet(kept) /\ IsFiniteSet(kept')
        BY <2>1, FS_AddElement DEF IngestInv
    <2>4. ASSUME NEW h \in Hashes
          PROVE  Cardinality(KeptOf(h))' + Waiting(h)' + Unmarked(h)' <= ingestRuns'
        <3>1. /\ ingestRuns \in Nat /\ ingestRuns' = ingestRuns /\ Unmarked(h)' = Unmarked(h)
              /\ Unmarked(h) \in Nat /\ Waiting(h) \in Nat /\ Cardinality(KeptOf(h)) \in Nat
              /\ Cardinality(KeptOf(h)) + Waiting(h) + Unmarked(h) <= ingestRuns
            BY <2>1, KeptAreFinite DEF IngestInv, Unmarked, Waiting
        <3>2. CASE h = k
            <4>1. Waiting(h) = 1
                BY <2>1, <3>2 DEF Waiting
            <4>2. Waiting(h)' = 0
                BY <2>1, <3>2 DEF Waiting, IngestInv
            <4>3. KeptOf(h)' \in {KeptOf(h), KeptOf(h) \union {p}}
                <5> HIDE DEF p, k
                <5> QED
                    BY <2>1, <2>2, <3>2 DEF KeptOf
            <4>4. Cardinality(KeptOf(h) \union {p}) \in
                        {Cardinality(KeptOf(h)), Cardinality(KeptOf(h)) + 1}
                <5> HIDE DEF p
                <5> QED
                    BY KeptAreFinite, FS_AddElement
            <4>5. Cardinality(KeptOf(h))' \in {Cardinality(KeptOf(h)), Cardinality(KeptOf(h)) + 1}
                <5>1. CASE KeptOf(h)' = KeptOf(h)
                    BY <5>1
                <5>2. CASE KeptOf(h)' = KeptOf(h) \union {p}
                    BY <4>4, <5>2
                <5> QED
                    BY <4>3, <5>1, <5>2
            <4> QED
                BY <3>1, <4>1, <4>2, <4>5
        <3>3. CASE h # k
            <4>1. Waiting(h)' = Waiting(h)
                BY <2>1, <3>3 DEF Waiting
            <4>2. KeptOf(h)' = KeptOf(h)
                <5> HIDE DEF p, k
                <5> QED
                    BY <2>1, <2>2, <3>3 DEF KeptOf
            <4> QED
                BY <3>1, <4>1, <4>2
        <3> QED
            BY <3>2, <3>3
    <2> HIDE DEF p, k
    <2>5. kept' \subseteq {ParseSignal(u) : u \in Readable}
        BY <2>1, <2>2 DEF IngestInv
    <2> QED
        BY <2>1, <2>3, <2>4, <2>5 DEF IngestInv
<1> QED
    BY <1>1, <1>2, <1>3, <1>4, <1>5, <1>6 DEF IngestNext

(* Where it starts.                                                        *)
LEMMA IngestStart == IngestInit => IngestInv
<1> SUFFICES ASSUME IngestInit
             PROVE  IngestInv
    OBVIOUS
<1>1. ingestRuns = 0 /\ seen = {} /\ handling = {} /\ handed = Empty /\ kept = {}
      /\ service = "off"
    BY DEF IngestInit
<1>2. \A h : KeptOf(h) = {} /\ Waiting(h) = 0 /\ Unmarked(h) = 0
    BY <1>1 DEF KeptOf, Waiting, Unmarked
<1>3. Cardinality({}) = 0 /\ IsFiniteSet({})
    BY FS_EmptySet
<1> QED
    BY <1>1, <1>2, <1>3 DEF IngestInv, Empty

(* One start hands a message over once, and of each hash at most one       *)
(* signal is kept per start, however often Telegram delivers it.           *)
THEOREM MessagesAreHandedOnce == IngestSpec => []HandedOnce
<1>1. IngestInv => HandedOnce
    <2> SUFFICES ASSUME IngestInv, NEW p \in kept
                 PROVE  Cardinality({q \in kept : q.dedup_hash = p.dedup_hash}) <= ingestRuns
        BY DEF HandedOnce, IngestInv
    <2> DEFINE h == p.dedup_hash
    <2>1. h \in Hashes
        BY DEF IngestInv, ParseSignal, Hashes
    <2>2. Cardinality(KeptOf(h)) + Waiting(h) + Unmarked(h) <= ingestRuns /\ ingestRuns \in Nat
        BY <2>1 DEF IngestInv
    <2>3. Cardinality(KeptOf(h)) \in Nat /\ Waiting(h) \in Nat /\ Unmarked(h) \in Nat
        BY KeptAreFinite DEF Waiting, Unmarked
    <2> QED
        BY <2>2, <2>3 DEF KeptOf
<1> QED
    BY IngestStart, <1>1, IngestStep, PTL DEF IngestSpec

(***************************************************************************)
(* The bot.  What is on its way was clicked, on the keyboard of its id.    *)
(***************************************************************************)

BotInv ==
    /\ updates \subseteq clicked \union {Garbage} /\ resolving \subseteq clicked
    /\ \A u \in resolving : u.action \in handlers
    /\ \A c \in clicked : c.action \in Keyboard(c.id)
    /\ status \in [Approvals -> Decisions]
    /\ \A a \in Approvals : status[a] # "pending" =>
            \E c \in clicked :
                /\ c.id = a /\ c.action \in handlers \intersect Keyboard(a)
                /\ status[a] = IF backend = "pg" THEN ActionStatus[c.action] ELSE c.action

(* Every step keeps the invariant.                                         *)
LEMMA BotStep == BotInv /\ [BotNext]_botVars => BotInv'
<1> SUFFICES ASSUME BotInv, [BotNext]_botVars
             PROVE  BotInv'
    OBVIOUS
<1>1. CASE UNCHANGED botVars
    BY <1>1 DEF botVars, BotInv
<1>2. ASSUME NEW id \in Approvals \union Positions, Click(id)
      PROVE  BotInv'
    <2>1. PICK action \in Keyboard(id) :
            /\ updates' = updates \union {[action |-> action, id |-> id]}
            /\ clicked' = clicked \union {[action |-> action, id |-> id]}
        BY <1>2 DEF Click
    <2>2. UNCHANGED <<backend, handlers, resolving, status>>
        BY <1>2 DEF Click
    <2> QED
        BY <2>1, <2>2 DEF BotInv
<1>3. ASSUME NEW u \in updates \union resolving, ResolveApproval(u)
      PROVE  BotInv'
    <2>1. /\ u \in resolving /\ resolving' = resolving \ {u}
          /\ UNCHANGED <<backend, handlers, updates, clicked>>
        BY <1>3 DEF ResolveApproval
    <2>2. u \in clicked /\ u.action \in handlers /\ u.action \in Keyboard(u.id)
        BY <2>1 DEF BotInv
    <2>3. CASE UNCHANGED status
        BY <2>1, <2>3 DEF BotInv
    <2>4. CASE ~UNCHANGED status
        <3> DEFINE s == IF backend = "pg" THEN ActionStatus[u.action] ELSE u.action
        <3>1. u.id \in Approvals /\ status' = [status EXCEPT ![u.id] = s]
            BY <1>3, <2>4 DEF ResolveApproval, ResolvePg, ResolveMemory
        <3>2. u.action \in {"approve", "reject"}
            BY <2>2, <3>1 DEF Keyboard
        <3>3. s \in Decisions
            BY <3>2 DEF Decisions, Actions, ActionStatus
        <3> HIDE DEF s
        <3>4. status' \in [Approvals -> Decisions] /\ status'[u.id] = s
              /\ \A a \in Approvals : a # u.id => status'[a] = status[a]
            BY <3>1, <3>3 DEF BotInv
        <3>5. ASSUME NEW a \in Approvals, status'[a] # "pending"
              PROVE  \E c \in clicked' :
                        /\ c.id = a /\ c.action \in handlers' \intersect Keyboard(a)
                        /\ status'[a] = IF backend' = "pg" THEN ActionStatus[c.action] ELSE c.action
            <4>1. CASE a = u.id
                BY <2>1, <2>2, <3>4, <4>1 DEF s
            <4>2. CASE a # u.id
                BY <2>1, <3>4, <3>5, <4>2 DEF BotInv
            <4> QED
                BY <4>1, <4>2
        <3> QED
            BY <2>1, <3>4, <3>5 DEF BotInv
    <2> QED
        BY <2>3, <2>4
<1>4. ASSUME NEW id \in Approvals \union Positions, SendMessage(id)
      PROVE  BotInv'
    BY <1>4 DEF SendMessage, BotInv
<1>5. CASE Forge
    BY <1>5 DEF Forge, BotInv
<1>6. ASSUME NEW u \in updates \union resolving, DispatchUnknown(u) \/ AnswerCallbackQuery(u)
      PROVE  BotInv'
    BY <1>6 DEF DispatchUnknown, AnswerCallbackQuery, BotInv
<1>7. ASSUME NEW u \in updates \union resolving, DispatchCallback(u)
      PROVE  BotInv'
    BY <1>7 DEF DispatchCallback, Parsed, BotInv
<1> QED
    BY <1>1, <1>2, <1>3, <1>4, <1>5, <1>6, <1>7 DEF BotNext

(* In Postgres a decision stands.                                          *)
LEMMA DecisionStands ==
    BotInv /\ [BotNext]_botVars =>
        \A a \in Approvals : backend = "pg" /\ status[a] # "pending" => status'[a] = status[a]
<1> SUFFICES ASSUME BotInv, [BotNext]_botVars, NEW a \in Approvals,
                    backend = "pg", status[a] # "pending"
             PROVE  status'[a] = status[a]
    OBVIOUS
<1>1. CASE UNCHANGED status
    BY <1>1
<1>2. CASE \E u \in updates \union resolving : ResolveApproval(u)
    <2>1. PICK u \in updates \union resolving : ResolveApproval(u)
        BY <1>2
    <2>2. UNCHANGED status \/ (status[u.id] = "pending"
            /\ status' = [status EXCEPT ![u.id] = ActionStatus[u.action]])
        BY <2>1 DEF ResolveApproval, ResolvePg
    <2> QED
        BY <2>2 DEF BotInv
<1>3. UNCHANGED status \/ \E u \in updates \union resolving : ResolveApproval(u)
    BY DEF BotNext, botVars, SendMessage, Click, Forge, DispatchUnknown, DispatchCallback,
           AnswerCallbackQuery
<1> QED
    BY <1>1, <1>2, <1>3

(* Where it starts.                                                        *)
LEMMA BotStart == BotInit => BotInv
BY DEF BotInit, BotInv, Decisions

(* An approval is decided by a click on its own keyboard, and in Postgres  *)
(* the first decision stands.                                              *)
THEOREM DecisionsAreClicks == BotSpec => DecidedAsClicked
<1>1. BotInv => \A a \in Approvals : status[a] # "pending" =>
            \E c \in clicked :
                /\ c.id = a /\ c.action \in handlers \intersect Keyboard(a)
                /\ status[a] = IF backend = "pg" THEN ActionStatus[c.action] ELSE c.action
    BY DEF BotInv
<1>2. BotInv /\ [BotNext]_botVars =>
        [\A a \in Approvals :
            backend = "pg" /\ status[a] # "pending" => status'[a] = status[a]]_botVars
    BY DecisionStands
<1> QED
    BY BotStart, <1>1, <1>2, BotStep, PTL DEF BotSpec, DecidedAsClicked

(***************************************************************************)
(* The types of all four, in MCFeeds.                                      *)
(***************************************************************************)

(* The daemon: a written signal is one of the ticks'.                      *)
LEMMA ScanTypesStep ==
    ASSUME ScanInv, ScanTypeOK, [ScanNext]_scanVars
    PROVE  ScanTypeOK'
<1>1. ScanInv'
    BY ScanStep
<1>2. ticks' \in [Symbols -> TickType] /\ approvals' \in [Signals -> Nat]
    BY <1>1 DEF ScanInv, TypesInv
<1>3. ASSUME NEW s \in Symbols, Tick(s)
      PROVE  ScanTypeOK'
    <2>1. UNCHANGED loopVars
        BY <1>3 DEF Tick, Fetch, Evaluate, Report, AddParsedSignal, AddValidatedSignal,
                    AddApproval, Fail
    <2>2. TypesInv /\ Writing(s)
        BY DEF ScanInv
    <2>3. CASE AddParsedSignal(s) \/ AddValidatedSignal(s)
        <3>1. ticks[s].at \in Written
            BY <2>3 DEF AddParsedSignal, AddValidatedSignal, Written
        <3>2. Fired(s) \in Signals /\ Says(s) \in Verdicts
            BY <2>2, <3>1, FiredIs DEF Writing
        <3>3. parsed' \subseteq Signals /\ validated' \subseteq Signals \X Verdicts
            BY <2>3, <3>2 DEF AddParsedSignal, AddValidatedSignal, ScanTypeOK
        <3> QED
            BY <1>2, <2>1, <3>3 DEF ScanTypeOK, loopVars
    <2>4. CASE UNCHANGED <<parsed, validated>>
        BY <1>2, <2>1, <2>4 DEF ScanTypeOK, loopVars
    <2> QED
        BY <1>3, <2>3, <2>4 DEF Tick, Fetch, Evaluate, Report, AddApproval, Fail, tables
<1>4. CASE StartRound
    <2>1. round' \in 0..MaxRounds
        BY <1>4, ScanAssumption DEF StartRound, ScanTypeOK
    <2> QED
        BY <1>2, <1>4, <2>1 DEF StartRound, ScanTypeOK, tables
<1>5. CASE Crash
    <2>1. crashes' \in 0..MaxCrashes
        BY <1>5, ScanAssumption DEF Crash, ScanTypeOK
    <2> QED
        BY <1>2, <1>5, <2>1 DEF Crash, ScanTypeOK, tables
<1>6. CASE EndRound \/ Wake \/ Stop \/ Exit \/ Interrupt \/ Restart
    BY <1>2, <1>6 DEF EndRound, Wake, Stop, Exit, Interrupt, Restart, ScanTypeOK, tables
<1>7. CASE UNCHANGED scanVars
    BY <1>7 DEF scanVars, loopVars, tables, ScanTypeOK
<1> QED
    BY <1>3, <1>4, <1>5, <1>6, <1>7 DEF ScanNext

(* Where it starts.                                                        *)
LEMMA ScanTypesStart == ScanInit => ScanTypeOK
<1> SUFFICES ASSUME ScanInit
             PROVE  ScanTypeOK
    OBVIOUS
<1>1. ticks \in [Symbols -> TickType] /\ approvals \in [Signals -> Nat]
    BY ScanStart DEF ScanInv, TypesInv
<1>2. 0 \in 0..MaxRounds /\ 0 \in 0..MaxCrashes
    BY ScanAssumption
<1> QED
    BY <1>1, <1>2 DEF ScanInit, ScanTypeOK

(* The ingest.                                                             *)
LEMMA IngestTypesStep ==
    ASSUME IngestInv, IngestTypeOK, [IngestNext]_ingestVars
    PROVE  IngestTypeOK'
<1>1. IngestInv'
    BY IngestStep
<1>2. /\ handed' \in [Hashes -> Nat] /\ seen' \subseteq Hashes /\ handling' \subseteq Readable
      /\ kept' \subseteq {ParseSignal(t) : t \in Readable}
    BY <1>1 DEF IngestInv, Hashes, Readable
<1>3. CASE StartIngest
    <2>1. ingestRuns' \in 0..MaxIngestRuns
        BY <1>3, IngestAssumption DEF StartIngest, IngestTypeOK
    <2> QED
        BY <1>2, <1>3, <2>1 DEF StartIngest, IngestTypeOK
<1>4. CASE StopIngest \/ UNCHANGED ingestVars
    BY <1>2, <1>4 DEF StopIngest, IngestTypeOK, ingestVars
<1>5. ASSUME NEW t \in Texts, HandedOver(t)
      PROVE  IngestTypeOK'
    BY <1>2, <1>5 DEF HandedOver, IngestTypeOK
<1>6. ASSUME NEW t \in Texts, Arrives(t), UNCHANGED <<service, ingestRuns>>
      PROVE  IngestTypeOK'
    <2>1. deliveries[t] + 1 \in 0..MaxDeliveries
        BY <1>6, IngestAssumption DEF Arrives, IngestTypeOK
    <2>2. deliveries' \in [Texts -> 0..MaxDeliveries]
        BY <1>6, <2>1 DEF Arrives, IngestTypeOK
    <2> QED
        BY <1>2, <1>6, <2>2 DEF IngestTypeOK
<1> QED
    BY <1>3, <1>4, <1>5, <1>6
    DEF IngestNext, HandleUnparseable, HandleDuplicate, HandleSignal, HandsOver

(* Where it starts.                                                        *)
LEMMA IngestTypesStart == IngestInit => IngestTypeOK
BY IngestAssumption DEF IngestInit, IngestTypeOK, Empty

(* The bot.  What is clicked hangs under a keyboard.                       *)
LEMMA BotTypesStep ==
    ASSUME BotInv, BotTypeOK, [BotNext]_botVars
    PROVE  BotTypeOK'
<1>1. BotInv'
    BY BotStep
<1>2. status' \in [Approvals -> Decisions]
    BY <1>1 DEF BotInv
<1>3. ASSUME NEW id \in Approvals \union Positions, SendMessage(id)
      PROVE  BotTypeOK'
    BY <1>2, <1>3 DEF SendMessage, BotTypeOK
<1>4. ASSUME NEW id \in Approvals \union Positions, Click(id)
      PROVE  BotTypeOK'
    <2>1. PICK action \in Keyboard(id) :
            /\ updates' = updates \union {[action |-> action, id |-> id]}
            /\ clicked' = clicked \union {[action |-> action, id |-> id]}
        BY <1>4 DEF Click
    <2>2. [action |-> action, id |-> id] \in CallbackData
        BY DEF Keyboard, Actions, CallbackData
    <2> QED
        BY <1>2, <1>4, <2>1, <2>2 DEF Click, BotTypeOK
<1>5. CASE Forge \/ UNCHANGED botVars
    BY <1>2, <1>5 DEF Forge, BotTypeOK, botVars
<1>6. ASSUME NEW u \in updates \union resolving,
             DispatchUnknown(u) \/ ResolveApproval(u) \/ AnswerCallbackQuery(u)
      PROVE  BotTypeOK'
    BY <1>2, <1>6 DEF DispatchUnknown, ResolveApproval, AnswerCallbackQuery, BotTypeOK
<1>7. ASSUME NEW u \in updates \union resolving, DispatchCallback(u)
      PROVE  BotTypeOK'
    <2>1. u \in CallbackData
        BY <1>7 DEF DispatchCallback, Parsed, BotTypeOK
    <2> QED
        BY <1>2, <1>7, <2>1 DEF DispatchCallback, BotTypeOK
<1> QED
    BY <1>3, <1>4, <1>5, <1>6, <1>7 DEF BotNext

(* Where it starts.                                                        *)
LEMMA BotTypesStart == BotInit => BotTypeOK
BY BotStart DEF BotInit, BotTypeOK, BotInv, Actions

(* Connections are added, never removed.                                   *)
LEMMA LinesStay ==
    ASSUME SocketInv, SocketInv', [SocketNext]_socketVars
    PROVE  DOMAIN lines \subseteq DOMAIN lines'
<1> USE DEF SocketInv
<1>1. lines \in Seq(LineType) /\ lines' \in Seq(LineType)
    BY DEF LinesInv
<1>2. CASE Connected
    BY <1>1, <1>2 DEF Connected
<1>3. CASE HeartbeatCancelled \/ Drop
    BY <1>1, <1>3 DEF HeartbeatCancelled, ClosesLine, Drop
<1>4. ASSUME NEW t \in Tasks, Delivered(t)
      PROVE  DOMAIN lines \subseteq DOMAIN lines'
    <2>1. \E f : lines' = [lines EXCEPT ![calls[t].on] = f]
        BY <1>4 DEF Delivered
    <2> QED
        BY <1>1, <2>1
<1>5. CASE UNCHANGED lines
    BY <1>5
<1> QED
    BY <1>2, <1>3, <1>4, <1>5
    DEF SocketNext, socketVars, Connect, ConnectFails, Close, Closed, Subscribe, Unsubscribe,
        Send, Returns, SendFails, EnterRefused, EnterCancelled, PingFails, Read, Receive

(* The socket.                                                             *)
LEMMA SocketTypesStep ==
    ASSUME CountInv, SocketTypeOK, [SocketNext]_socketVars
    PROVE  SocketTypeOK'
<1>1. CountInv'
    BY CountStep
<1>2. DOMAIN lines \subseteq DOMAIN lines'
    BY <1>1, LinesStay DEF CountInv
<1>3. heartbeat' \in {heartbeat, "none", "beating", "ended"}
    BY DEF SocketNext, socketVars, Connect, Connected, ConnectFails, Close, HeartbeatCancelled,
           Closed, Subscribe, Unsubscribe, Send, Delivered, Returns, SendFails, EnterRefused,
           EnterCancelled, Drop, PingFails, Read, Receive
<1>4. reader' \in {reader, ws, None}
    BY DEF SocketNext, socketVars, Connect, Connected, ConnectFails, Close, HeartbeatCancelled,
           Closed, Subscribe, Unsubscribe, Send, Delivered, Returns, SendFails, EnterRefused,
           EnterCancelled, Drop, PingFails, Read, Receive
<1>5. reader' \in DOMAIN lines' \union {None} /\ heartbeat' \in {"none", "beating", "ended"}
    BY <1>2, <1>3, <1>4 DEF SocketTypeOK
<1> QED
    BY <1>1, <1>5 DEF CountInv, CallsInv, SocketInv, LinesInv, OwnerInv, LineType, SocketTypeOK

(* Where it starts.                                                        *)
LEMMA SocketTypesStart == SocketInit => SocketTypeOK
<1> SUFFICES ASSUME SocketInit
             PROVE  SocketTypeOK
    OBVIOUS
<1>1. calls \in [Tasks -> CallType]
    BY NoCallIs DEF SocketInit
<1> QED
    BY <1>1 DEF SocketInit, SocketTypeOK

(* What the types rest on, of the process that runs and those that do not. *)
FeedsInv == ScanInv /\ CountInv /\ IngestInv /\ BotInv

(* Whichever of the four processes runs, every variable keeps its type:    *)
(* signals in the tables are of the symbols, strategies and times of the   *)
(* scan, calls are of the batches of their tasks, and what resolves is a   *)
(* button's data.                                                          *)
THEOREM FeedsKeepTheirTypes == MCSpec => []FeedsTypeOK
<1>1. MCInit => FeedsInv /\ FeedsTypeOK
    BY ScanStart, ScanTypesStart, CountStart, SocketTypesStart, IngestStart, IngestTypesStart,
       BotStart, BotTypesStart DEF MCInit, FeedsInv, FeedsTypeOK
<1>2. [MCNext]_feedsVars =>
        /\ [ScanNext]_scanVars /\ [SocketNext]_socketVars
        /\ [IngestNext]_ingestVars /\ [BotNext]_botVars
    BY DEF MCNext, Scan, Socket, Ingest, Bot, feedsVars
<1>3. FeedsInv /\ [MCNext]_feedsVars => FeedsInv'
    BY <1>2, ScanStep, CountStep, IngestStep, BotStep DEF FeedsInv
<1>4. FeedsInv /\ FeedsTypeOK /\ [MCNext]_feedsVars => FeedsTypeOK'
    BY <1>2, ScanTypesStep, SocketTypesStep, IngestTypesStep, BotTypesStep
    DEF FeedsInv, FeedsTypeOK
<1> QED
    BY <1>1, <1>3, <1>4, PTL DEF MCSpec
=============================================================================
