----------------------------- MODULE MarketDesk -----------------------------
(***************************************************************************)
(* The read-only market routes (routes.py) and what their connectors make  *)
(* of an answer of the wire.  A route opens a connector with a client of   *)
(* its own, awaits its calls in order and closes it in a finally clause.   *)
(***************************************************************************)
EXTENDS Naturals, Sequences, FiniteSets

CONSTANT Visits    \* the requests

VARIABLES visits    \* where each request is

deskVars == visits

Routes == {"klines", "indicators", "markets", "other_markets", "coinglass", "orderbook", "news"}

(* The connector calls of a route.                                         *)
Calls ==
    [klines |-> <<"klines">>, indicators |-> <<"klines">>, markets |-> <<"trading_pairs">>,
     other_markets |-> <<>>,
     coinglass |-> <<"open_interest", "funding", "liquidations", "long_short", "heatmap">>,
     orderbook |-> <<"order_book">>, news |-> <<"posts">>]

(* What stops a route before it has a client: an API key that is unset, a  *)
(* venue that is unknown.                                                  *)
Unavailable(route) == route \in {"coinglass", "news", "markets", "other_markets"}

-----------------------------------------------------------------------------
(* The connectors.                                                         *)

Wires == {"ok", "transport", "status", "code", "not_json", "bad_row"}

(* Rows read with [] raise what is not a ConnectorError; a heatmap row     *)
(* that does not parse is skipped.  News has no code.                      *)
Strict == {"klines", "trading_pairs", "order_book", "posts", "open_interest", "funding",
           "liquidations", "long_short"}

Outcome(call, wire) ==
    IF wire \in {"transport", "status"} \/ (wire = "code" /\ call # "posts")
    THEN "connector_error"
    ELSE IF wire = "not_json" \/ (wire = "bad_row" /\ call \in Strict) THEN "error"
    ELSE "rows"

(* klines refuses an interval before it asks.                              *)
RefusesArguments(call) == call = "klines"

(* What a route goes on after: list_markets after anything, coinglass      *)
(* after a ConnectorError of its last two.                                 *)
Degrades(route, call, outcome) ==
    \/ route = "markets"
    \/ route = "coinglass" /\ call \in {"long_short", "heatmap"} /\ outcome = "connector_error"

-----------------------------------------------------------------------------
(* The requests.                                                           *)

Fresh == [route |-> "none", at |-> "new", client |-> "none", outcomes |-> <<>>]

DeskInit == visits = [v \in Visits |-> Fresh]

Step(v, new) == visits' = [visits EXCEPT ![v] = new]

Open(v) ==
    \E route \in Routes :
        /\ visits[v].at = "new"
        /\ Step(v, [visits[v] EXCEPT
                !.route = route, !.at = "calling",
                !.client = IF Calls[route] = <<>> THEN "none" ELSE "open"])

TurnAway(v) ==
    \E route \in Routes :
        /\ visits[v].at = "new" /\ Unavailable(route)
        /\ Step(v, [visits[v] EXCEPT !.route = route, !.at = "failed"])

NextCall(v) == Calls[visits[v].route][Len(visits[v].outcomes) + 1]
CallsLeft(v) == Len(visits[v].outcomes) < Len(Calls[visits[v].route])

(* A call answers; an error that the route does not degrade on leaves for  *)
(* the finally clause.                                                     *)
Answers(v, outcome) ==
    Step(v, [visits[v] EXCEPT
        !.outcomes = Append(@, outcome),
        !.at = IF outcome = "rows" \/ Degrades(visits[v].route, NextCall(v), outcome)
               THEN "calling" ELSE "raising"])

Call(v) ==
    /\ visits[v].at = "calling" /\ CallsLeft(v)
    /\ \/ \E wire \in Wires : Answers(v, Outcome(NextCall(v), wire))
       \/ RefusesArguments(NextCall(v)) /\ Answers(v, "connector_error")

(* Defect: the client is closed on the way to the answer only.             *)
Mutant_Finally(v) ==
    /\ visits[v].at = "raising" \/ (visits[v].at = "calling" /\ ~CallsLeft(v))
    /\ Step(v, [visits[v] EXCEPT
            !.client = IF @ = "open" /\ visits[v].at = "calling" THEN "closed" ELSE @,
            !.at = IF visits[v].at = "raising" THEN "failed" ELSE "answered"])

Finally(v) ==
    /\ visits[v].at = "raising" \/ (visits[v].at = "calling" /\ ~CallsLeft(v))
    /\ Step(v, [visits[v] EXCEPT
            !.client = IF @ = "open" THEN "closed" ELSE @,
            !.at = IF visits[v].at = "raising" THEN "failed" ELSE "answered"])

DeskNext == \E v \in Visits : Open(v) \/ TurnAway(v) \/ Call(v) \/ Finally(v)

DeskSpec == DeskInit /\ [][DeskNext]_deskVars

-----------------------------------------------------------------------------
(* Every request keeps its type.                                           *)
VisitsTypeOK ==
    visits \in [Visits ->
        [route : Routes \union {"none"}, at : {"new", "calling", "raising", "answered", "failed"},
         client : {"none", "open", "closed"},
         outcomes : Seq({"rows", "connector_error", "error"})]]

(* A request that is over has closed the client it opened, whichever of    *)
(* its calls failed and how; the markets always answer, and an answer with *)
(* the derivatives context has its first three series.                     *)
EveryClientClosed ==
    \A v \in Visits : visits[v].at \in {"answered", "failed"} =>
        /\ visits[v].client # "open"
        /\ visits[v].route = "markets" /\ visits[v].client = "closed" => visits[v].at = "answered"
        /\ visits[v].route = "coinglass" /\ visits[v].at = "answered" =>
            \A k \in 1..3 : visits[v].outcomes[k] = "rows"
=============================================================================
