------------------------------ MODULE MCFeeds -------------------------------
(***************************************************************************)
(* The processes that feed the desk: the scanner daemon, the public        *)
(* websocket, the Telegram ingest and the Telegram bot.  They share no     *)
(* state and no property relates two of them, so a behaviour runs one of   *)
(* them, chosen at the start, instead of their interleavings.              *)
(***************************************************************************)
EXTENDS ScanDaemon, PublicSocket, TelegramIngest, ControlBot, TLC

CONSTANTS btc, eth, c1, c2, c3, c4, c5

VARIABLE process

feedsVars == <<process, scanVars, socketVars, ingestVars, botVars>>

MCSymbols == {btc, eth}
MCPlans == {[symbols |-> {btc, eth}, strategies |-> 1], [symbols |-> {btc}, strategies |-> 2]}
MCBatches == btc :> {<<c1, c2>>, <<c3>>} @@ eth :> {<<c4, c5>>} @@ Stream :> {<<Book>>}

MCConnections == [plain |-> 2, stream |-> 3]

(* A signal, its corrected stop, the same one a minute later, a short one, *)
(* one whose entry follows the side, and what does not parse.              *)
Text(pair, long, short, labelled, after, stop, sent) ==
    [pair |-> pair, long |-> long, short |-> short, labelled |-> labelled,
     afterSide |-> after, stop |-> stop, sent |-> sent]
MCTexts ==
    {Text(btc, TRUE, FALSE, 5, Nothing, 4, 1), Text(btc, TRUE, FALSE, 5, Nothing, 3, 1),
     Text(btc, TRUE, FALSE, 5, Nothing, 4, 2), Text(btc, FALSE, TRUE, 5, Nothing, 6, 1),
     Text(btc, TRUE, FALSE, Nothing, 5, 4, 1), Text(btc, TRUE, TRUE, 5, Nothing, 4, 1)}

MCInit ==
    /\ process \in {"scan", "socket", "ingest", "bot"}
    /\ ScanInit /\ SocketInit /\ IngestInit /\ BotInit
    /\ process # "scan" =>
        setup = [plan |-> CHOOSE p \in Plans : TRUE, mode |-> "paper",
                 store |-> "none", handlers |-> TRUE]
    /\ process # "socket" => usage = "plain"
    /\ process # "bot" => backend = "pg" /\ handlers = {}

Scan == process = "scan" /\ ScanNext /\ UNCHANGED <<process, socketVars, ingestVars, botVars>>
Socket ==
    process = "socket" /\ SocketNext /\ UNCHANGED <<process, scanVars, ingestVars, botVars>>
Ingest ==
    process = "ingest" /\ IngestNext /\ UNCHANGED <<process, scanVars, socketVars, botVars>>
Bot == process = "bot" /\ BotNext /\ UNCHANGED <<process, scanVars, socketVars, ingestVars>>
MCNext == Scan \/ Socket \/ Ingest \/ Bot

MCSpec == MCInit /\ [][MCNext]_feedsVars /\ ScanFairness

(* Every variable of the four keeps its type.                              *)
FeedsTypeOK == ScanTypeOK /\ SocketTypeOK /\ IngestTypeOK /\ BotTypeOK
=============================================================================
