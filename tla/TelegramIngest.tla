--------------------------- MODULE TelegramIngest ---------------------------
(***************************************************************************)
(* The user-session ingest (telegram_ingest/service.py, parser.py): each   *)
(* channel message is handled by a task of its own, which parses it, drops *)
(* what was seen before and hands the rest over.  A text is what the       *)
(* parser's expressions find in it.                                        *)
(***************************************************************************)
EXTENDS Naturals, FiniteSets

CONSTANTS
    Texts,            \* the messages of the channels
    MaxDeliveries,    \* bound of the deliveries of a message
    MaxIngestRuns,    \* bound of the starts of the service
    Nothing           \* None

Prices == Nat \union {Nothing}

ASSUME IngestAssumption ==
    /\ MaxDeliveries \in Nat /\ MaxIngestRuns \in Nat /\ Nothing \notin Nat
    /\ \A t \in Texts :
        /\ t.long \in BOOLEAN /\ t.short \in BOOLEAN
        /\ t.labelled \in Prices /\ t.afterSide \in Prices

VARIABLES
    service,      \* off, started or stopped
    ingestRuns,   \* starts so far
    deliveries,   \* how often each message arrived
    seen,         \* _seen_dedup_hashes
    handling,     \* the messages whose hand-over is awaited
    handed,       \* how often each hash was handed over, since the start
    kept          \* the signals whose consumer did not fail

ingestVars == <<service, ingestRuns, deliveries, seen, handling, handed, kept>>

-----------------------------------------------------------------------------
(* The parser.                                                             *)

(* Direction words of one side only.                                       *)
SideOf(t) == IF t.long THEN "long" ELSE "short"
Parses(t) == t.pair # Nothing /\ t.long # t.short

(* The labelled number, else the one after the side.                       *)
EntryOf(t) == IF t.labelled # Nothing THEN t.labelled ELSE t.afterSide

DedupHash(t) == <<t.pair, SideOf(t), EntryOf(t), t.sent>>

ParseSignal(t) ==
    [pair |-> t.pair, side |-> SideOf(t), entry |-> EntryOf(t), stop_loss |-> t.stop,
     dedup_hash |-> DedupHash(t)]

Readable == {t \in Texts : Parses(t)}
Hashes == {DedupHash(t) : t \in Readable}

-----------------------------------------------------------------------------
(* The service.                                                            *)

Empty == [h \in Hashes |-> 0]

IngestInit ==
    /\ service = "off" /\ ingestRuns = 0 /\ deliveries = [t \in Texts |-> 0]
    /\ seen = {} /\ handling = {} /\ handed = Empty /\ kept = {}

(* A new object: the dedup is in-process.                                  *)
StartIngest ==
    /\ service # "started" /\ ingestRuns < MaxIngestRuns
    /\ service' = "started" /\ ingestRuns' = ingestRuns + 1
    /\ seen' = {} /\ handling' = {} /\ handed' = Empty
    /\ UNCHANGED <<deliveries, kept>>

(* stop disconnects and leaves running handlers alone; a crash ends them.  *)
StopIngest ==
    /\ service = "started" /\ service' = "stopped"
    /\ handling' \in {handling, {}}
    /\ UNCHANGED <<ingestRuns, deliveries, seen, handed, kept>>

Arrives(t) ==
    /\ service = "started" /\ deliveries[t] < MaxDeliveries
    /\ deliveries' = [deliveries EXCEPT ![t] = @ + 1]

(* on_unparseable leaves the service's state alone.                        *)
HandleUnparseable(t) ==
    /\ Arrives(t) /\ t \notin Readable
    /\ UNCHANGED <<service, ingestRuns, seen, handling, handed, kept>>

HandleDuplicate(t) ==
    /\ Arrives(t) /\ t \in Readable /\ DedupHash(t) \in seen
    /\ UNCHANGED <<service, ingestRuns, seen, handling, handed, kept>>

HandsOver(t) ==
    /\ Arrives(t) /\ t \in Readable /\ DedupHash(t) \notin seen
    /\ handling' = handling \union {t}
    /\ handed' = [handed EXCEPT ![DedupHash(t)] = @ + 1]
    /\ UNCHANGED <<service, ingestRuns, kept>>

(* Defect: the hash is remembered once the consumer is done.               *)
Mutant_HandleSignal(t) == HandsOver(t) /\ UNCHANGED seen

(* Check and mark are one step, before the first await.                    *)
HandleSignal(t) == HandsOver(t) /\ seen' = seen \union {DedupHash(t)}

(* on_signal returns or raises; the mark stays either way.                 *)
HandedOver(t) ==
    /\ t \in handling /\ handling' = handling \ {t}
    /\ kept' \in {kept, kept \union {ParseSignal(t)}}
    /\ UNCHANGED <<service, ingestRuns, deliveries, seen, handed>>

IngestNext ==
    \/ StartIngest \/ StopIngest
    \/ \E t \in Texts : HandleUnparseable(t) \/ HandleDuplicate(t) \/ HandleSignal(t) \/ HandedOver(t)

IngestSpec == IngestInit /\ [][IngestNext]_ingestVars

-----------------------------------------------------------------------------
(* Every variable keeps its type.                                          *)
IngestTypeOK ==
    /\ service \in {"off", "started", "stopped"} /\ ingestRuns \in 0..MaxIngestRuns
    /\ deliveries \in [Texts -> 0..MaxDeliveries]
    /\ seen \subseteq Hashes /\ handling \subseteq Readable /\ handed \in [Hashes -> Nat]
    /\ kept \subseteq {ParseSignal(t) : t \in Readable}

(* However often a message is delivered and by how many handlers at once,  *)
(* one start hands its hash over once (service.py:94-98); what another     *)
(* message of that hash says, a corrected stop for one, is dropped, and so *)
(* is what the consumer failed on.                                         *)
HandedOnce ==
    /\ \A h \in Hashes : handed[h] = IF h \in seen THEN 1 ELSE 0
    /\ \A t, u \in handling : DedupHash(t) = DedupHash(u) => t = u
    /\ \A p \in kept : Cardinality({q \in kept : q.dedup_hash = p.dedup_hash}) <= ingestRuns
=============================================================================
