------------------------------- MODULE MCDesk -------------------------------
(***************************************************************************)
(* The account tables, the sessions and the market routes of the API.  As  *)
(* in MCFeeds, the three share no state and a behaviour runs one of them.  *)
(***************************************************************************)
EXTENDS AccountTables, Sessions, MarketDesk

VARIABLE part

apiVars == <<part, tablesVars, sessionVars, deskVars>>

MCKeys == <<"ema_adx_trend", "vwap_rsi_meanrev", "fvg_ob">>

MCInit ==
    /\ part \in {"tables", "sessions", "market"}
    /\ TablesInit /\ SessionsInit /\ DeskInit
    /\ part # "tables" => tables = "memory"
    /\ part # "sessions" => authMode = "stub"

Tables == part = "tables" /\ TablesNext /\ UNCHANGED <<part, sessionVars, deskVars>>
SignOn == part = "sessions" /\ SessionsNext /\ UNCHANGED <<part, tablesVars, deskVars>>
Market == part = "market" /\ DeskNext /\ UNCHANGED <<part, tablesVars, sessionVars>>
MCNext == Tables \/ SignOn \/ Market

MCSpec == MCInit /\ [][MCNext]_apiVars

(* Every variable of the three keeps its type.                             *)
DeskTypeOK == TablesTypeOK /\ SessionsTypeOK /\ VisitsTypeOK
=============================================================================
