---------------------------- MODULE Desk_proofs ----------------------------
(***************************************************************************)
(* Proofs about the API's own parts: the sessions and the market routes.   *)
(* Each has an inductive invariant of its own; with that of the account    *)
(* tables they give the types of MCDesk.                                   *)
(***************************************************************************)
EXTENDS MCDesk, AccountTables_proofs, TLAPS

(***************************************************************************)
(* Sessions.  A minted token outlasts the launch token it was traded for   *)
(* by SessionTtl at most; this is what a later request inherits.           *)
(***************************************************************************)

MintedFromLaunch ==
    \A m \in minted : \E l \in launched : m.user = l.user /\ m.exp <= l.exp + SessionTtl

SessionsInv == SessionsTypeOK /\ MintedFromLaunch /\ SessionBounded

(* The sessions' invariant holds at the start.                             *)
LEMMA SessionsStart == SessionsInit => SessionsInv
BY SessionAssumption
   DEF SessionsInit, SessionsInv, SessionsTypeOK, MintedFromLaunch, SessionBounded, Subjects

(* A request only changes the answer, and answers by a session only with   *)
(* a minted token that has not expired.                                    *)
LEMMA RequestKeeps ==
    ASSUME SessionsInv, Request
    PROVE  SessionsInv'
<1>1. PICK session \in Presented \union {cookie}, bearer \in Bearers, header \in Subjects :
            CurrentUserId(session, bearer, header)
    BY DEF Request
<1>2. UNCHANGED <<clock, authMode, launched, minted, cookie>>
    BY <1>1 DEF CurrentUserId
<1>3. \/ Refused
      \/ \E u \in People : Acts(u, "header") \/ Acts(u, "bearer")
      \/ /\ authMode = "jwt" /\ VerifiesSession(session)
         /\ session.user \in People /\ Acts(session.user, "session")
    BY <1>1 DEF CurrentUserId, SessionsInv, SessionsTypeOK
<1>4. SessionsTypeOK'
    BY <1>2, <1>3 DEF SessionsInv, SessionsTypeOK, Refused, Acts, Subjects
<1>5. MintedFromLaunch'
    BY <1>2 DEF SessionsInv, MintedFromLaunch
<1>6. SessionBounded'
    <2>1. CASE VerifiesSession(session) /\ authMode = "jwt" /\ Acts(session.user, "session")
        <3>1. PICK l \in launched :
                session.user = l.user /\ session.exp <= l.exp + SessionTtl
            BY <2>1 DEF VerifiesSession, SessionsInv, MintedFromLaunch
        <3>2. l \in SignedToken /\ session \in SignedToken
            BY <2>1 DEF VerifiesSession, SessionsInv, SessionsTypeOK
        <3>3. clock < l.exp + SessionTtl
            BY <2>1, <3>1, <3>2, SessionAssumption
               DEF VerifiesSession, SessionsInv, SessionsTypeOK, SignedToken, Times
        <3> QED
            BY <1>2, <2>1, <3>1, <3>3 DEF SessionBounded, Acts
    <2>2. CASE answered'.by # "session"
        BY <2>2 DEF SessionBounded
    <2> QED
        BY <1>3, <2>1, <2>2 DEF Refused, Acts
<1> QED
    BY <1>4, <1>5, <1>6 DEF SessionsInv

(* Landing mints within the launch token's own time.                       *)
LEMMA LandingKeeps ==
    ASSUME SessionsInv, NEW token \in launched, SsoLanding(token)
    PROVE  SessionsInv'
<1>1. token \in SignedToken /\ token.exp >= clock /\ clock \in 0..MaxTime
    BY DEF SsoLanding, Launches, SessionsInv, SessionsTypeOK
<1>2. MintedFor(token.user) \in SignedToken
    BY <1>1, SessionAssumption DEF MintedFor, SignedToken, Times
<1>3. MintedFor(token.user).exp <= token.exp + SessionTtl
      /\ MintedFor(token.user).user = token.user
    BY <1>1, SessionAssumption DEF MintedFor, SignedToken, Times
<1>4. SessionsTypeOK'
    BY <1>2 DEF SsoLanding, SessionsInv, SessionsTypeOK
<1>5. MintedFromLaunch'
    BY <1>3 DEF SsoLanding, SessionsInv, MintedFromLaunch
<1>6. SessionBounded'
    BY DEF SsoLanding, SessionsInv, SessionBounded
<1> QED
    BY <1>4, <1>5, <1>6 DEF SessionsInv

(* Every step keeps the invariant.                                         *)
LEMMA SessionsStep == SessionsInv /\ [SessionsNext]_sessionVars => SessionsInv'
<1> SUFFICES ASSUME SessionsInv, [SessionsNext]_sessionVars
             PROVE  SessionsInv'
    OBVIOUS
<1>1. CASE UNCHANGED sessionVars
    BY <1>1 DEF sessionVars, SessionsInv, SessionsTypeOK, MintedFromLaunch, SessionBounded
<1>2. ASSUME NEW u \in Subjects, SignLaunch(u)
      PROVE  SessionsInv'
    <2>1. [user |-> u, exp |-> clock + LaunchTtl] \in SignedToken
        BY SessionAssumption DEF SessionsInv, SessionsTypeOK, SignedToken, Times
    <2>2. SessionsTypeOK'
        BY <1>2, <2>1 DEF SignLaunch, SessionsInv, SessionsTypeOK
    <2> QED
        BY <1>2, <2>2 DEF SignLaunch, SessionsInv, MintedFromLaunch, SessionBounded
<1>3. ASSUME NEW token \in launched, SsoLanding(token)
      PROVE  SessionsInv'
    BY <1>3, LandingKeeps
<1>4. CASE Logout
    BY <1>4 DEF Logout, SessionsInv, SessionsTypeOK, MintedFromLaunch, SessionBounded
<1>5. CASE Request
    BY <1>5, RequestKeeps
<1>6. CASE Hour
    <2>1. clock' \in 0..MaxTime
        BY <1>6, SessionAssumption DEF Hour, SessionsInv, SessionsTypeOK
    <2> QED
        BY <1>6, <2>1 DEF Hour, SessionsInv, SessionsTypeOK, MintedFromLaunch, SessionBounded
<1> QED
    BY <1>1, <1>2, <1>3, <1>4, <1>5, <1>6 DEF SessionsNext

(* A session acts for a user Nexo AI launched, and no longer than          *)
(* SessionTtl past the launch token, through landings and logouts.         *)
THEOREM SessionsAreBounded == SessionsSpec => []SessionBounded
<1>1. SessionsInv => SessionBounded
    BY DEF SessionsInv
<1> QED
    BY <1>1, SessionsStart, SessionsStep, PTL DEF SessionsSpec

(***************************************************************************)
(* The market routes.                                                      *)
(***************************************************************************)

(* Where a request is tells whether its client is open and what its calls  *)
(* said so far.                                                            *)
VisitOK(w) ==
    /\ w.at = "new" => w.client = "none" /\ w.outcomes = <<>>
    /\ w.at \in {"calling", "raising", "answered"} =>
            w.route \in Routes /\ Len(w.outcomes) <= Len(Calls[w.route])
    /\ w.at = "raising" => w.route # "markets"
    /\ w.at \in {"calling", "answered"} /\ w.route = "coinglass" =>
            \A k \in 1..3 : k <= Len(w.outcomes) => w.outcomes[k] = "rows"
    /\ w.at = "answered" => Len(w.outcomes) = Len(Calls[w.route])
    /\ w.at \in {"answered", "failed"} => w.client # "open"
    /\ w.at = "failed" /\ w.client = "closed" => w.route # "markets"

MarketInv == VisitsTypeOK /\ \A v \in Visits : VisitOK(visits[v])

VisitType ==
    [route : Routes \union {"none"}, at : {"new", "calling", "raising", "answered", "failed"},
     client : {"none", "open", "closed"},
     outcomes : Seq({"rows", "connector_error", "error"})]

(* A request that steps to a good record leaves the others as they were.   *)
LEMMA VisitSteps ==
    ASSUME MarketInv, NEW v \in Visits, NEW w \in VisitType, VisitOK(w), Step(v, w)
    PROVE  MarketInv'
BY DEF MarketInv, VisitsTypeOK, VisitType, Step

(* A route with a call left has a next one; only list_markets calls its    *)
(* own, and the first three of coinglass never degrade.                    *)
LEMMA NextCallIs ==
    ASSUME NEW v \in Visits, MarketInv, visits[v].at = "calling", CallsLeft(v)
    PROVE  /\ visits[v].route = "coinglass" /\ Len(visits[v].outcomes) + 1 \in 1..3 =>
                    NextCall(v) \notin {"long_short", "heatmap"}
BY DEF MarketInv, VisitOK, VisitsTypeOK, CallsLeft, NextCall, Calls, Routes

(* The fields of a record after a call.                                    *)
LEMMA Answered ==
    ASSUME NEW w \in VisitType, NEW place \in {"calling", "raising"},
           NEW outcome \in {"rows", "connector_error", "error"}
    PROVE  [w EXCEPT !.outcomes = Append(@, outcome), !.at = place]
            = [route |-> w.route, at |-> place, client |-> w.client,
               outcomes |-> Append(w.outcomes, outcome)]
<1> DEFINE more == Append(w.outcomes, outcome)
           w1 == [w EXCEPT !.outcomes = more]
<1>1. more \in Seq({"rows", "connector_error", "error"})
    BY DEF VisitType
<1> HIDE DEF more
<1>2. w1 = [route |-> w.route, at |-> w.at, client |-> w.client, outcomes |-> more]
    BY <1>1 DEF VisitType
<1>3. w1 \in VisitType
    BY <1>1, <1>2 DEF VisitType
<1> HIDE DEF w1
<1>4. [w1 EXCEPT !.at = place]
        = [route |-> w1.route, at |-> place, client |-> w1.client, outcomes |-> w1.outcomes]
    BY <1>3 DEF VisitType
<1>5. w1.route = w.route /\ w1.client = w.client /\ w1.outcomes = more
    BY <1>2
<1> QED
    BY <1>4, <1>5 DEF w1, more

(* A call adds what it said, and only rows or a degraded error go on.      *)
LEMMA AnswerKeeps ==
    ASSUME MarketInv, NEW v \in Visits, visits[v].at = "calling", CallsLeft(v),
           NEW outcome \in {"rows", "connector_error", "error"}, Answers(v, outcome)
    PROVE  MarketInv'
<1> DEFINE w == visits[v]
           w2 == [w EXCEPT
                    !.outcomes = Append(@, outcome),
                    !.at = IF outcome = "rows" \/ Degrades(w.route, NextCall(v), outcome)
                           THEN "calling" ELSE "raising"]
<1>1. w \in VisitType /\ VisitOK(w)
    BY DEF MarketInv, VisitsTypeOK, VisitType
<1> DEFINE place == IF outcome = "rows" \/ Degrades(w.route, NextCall(v), outcome)
                    THEN "calling" ELSE "raising"
<1>a. Append(w.outcomes, outcome) \in Seq({"rows", "connector_error", "error"})
    BY <1>1 DEF VisitType
<1>b. w2 = [route |-> w.route, at |-> place, client |-> w.client,
            outcomes |-> Append(w.outcomes, outcome)]
    <2>1. w2 = [w EXCEPT !.outcomes = Append(@, outcome), !.at = place]
        OBVIOUS
    <2>2. place \in {"calling", "raising"}
        OBVIOUS
    <2> HIDE DEF place, w2, w
    <2> QED
        BY <1>1, <2>1, <2>2, Answered
<1>2. /\ w2 \in VisitType
      /\ w2.outcomes = Append(w.outcomes, outcome) /\ w2.route = w.route
      /\ w2.client = w.client /\ w2.at \in {"calling", "raising"}
      /\ w2.at = "calling" <=> outcome = "rows" \/ Degrades(w.route, NextCall(v), outcome)
    <2> HIDE DEF w2, w
    <2>1. w2.at = place /\ place \in {"calling", "raising"}
          /\ (place = "calling" <=> outcome = "rows" \/ Degrades(w.route, NextCall(v), outcome))
        BY <1>b
    <2>2. w2.outcomes = Append(w.outcomes, outcome) /\ w2.route = w.route /\ w2.client = w.client
        BY <1>b
    <2>3. w2 \in VisitType
        BY <1>1, <1>a, <1>b DEF VisitType
    <2> QED
        BY <2>1, <2>2, <2>3
<1>3. Len(w2.outcomes) = Len(w.outcomes) + 1 /\ Len(w.outcomes) \in Nat
    BY <1>1, <1>2 DEF VisitType
<1>4. w2.route \in Routes /\ Len(w2.outcomes) <= Len(Calls[w2.route])
    <2>1. w.route \in Routes /\ Len(w.outcomes) < Len(Calls[w.route])
        BY <1>1 DEF VisitOK, CallsLeft
    <2>2. Len(Calls[w.route]) \in Nat
        BY <2>1 DEF Calls, Routes
    <2> QED
        BY <1>2, <1>3, <2>1, <2>2
<1>5. w2.at = "raising" => w2.route # "markets"
    BY <1>2 DEF Degrades
<1>6. w2.at = "calling" /\ w2.route = "coinglass" =>
            \A k \in 1..3 : k <= Len(w2.outcomes) => w2.outcomes[k] = "rows"
    <2> SUFFICES ASSUME w2.at = "calling", w2.route = "coinglass",
                        NEW k \in 1..3, k <= Len(w2.outcomes)
                 PROVE  w2.outcomes[k] = "rows"
        OBVIOUS
    <2>1. CASE k <= Len(w.outcomes)
        BY <1>1, <1>2, <2>1 DEF VisitOK, VisitType
    <2>2. CASE k = Len(w.outcomes) + 1
        <3>1. NextCall(v) \notin {"long_short", "heatmap"}
            BY <1>2, <2>2, NextCallIs
        <3>2. outcome = "rows"
            BY <1>2, <3>1 DEF Degrades
        <3> QED
            BY <1>1, <1>2, <2>2, <3>2 DEF VisitType
    <2> QED
        BY <1>3, <2>1, <2>2
<1>7. VisitOK(w2)
    BY <1>2, <1>4, <1>5, <1>6 DEF VisitOK
<1> QED
    BY <1>2, <1>7, VisitSteps DEF Answers

(* Every step of the routes keeps the invariant.                           *)
LEMMA MarketStep == MarketInv /\ [DeskNext]_deskVars => MarketInv'
<1> SUFFICES ASSUME MarketInv, [DeskNext]_deskVars
             PROVE  MarketInv'
    OBVIOUS
<1>1. CASE UNCHANGED deskVars
    BY <1>1 DEF deskVars, MarketInv, VisitsTypeOK
<1>2. ASSUME NEW v \in Visits, Open(v)
      PROVE  MarketInv'
    <2>1. PICK route \in Routes :
            /\ visits[v].at = "new"
            /\ Step(v, [visits[v] EXCEPT
                    !.route = route, !.at = "calling",
                    !.client = IF Calls[route] = <<>> THEN "none" ELSE "open"])
        BY <1>2 DEF Open
    <2>2. visits[v] \in VisitType /\ VisitOK(visits[v])
        BY DEF MarketInv, VisitsTypeOK, VisitType
    <2> DEFINE client == IF Calls[route] = <<>> THEN "none" ELSE "open"
               w == [visits[v] EXCEPT !.route = route, !.at = "calling", !.client = client]
    <2>3. client \in {"none", "open"}
        OBVIOUS
    <2>4. Step(v, w)
        BY <2>1
    <2> HIDE DEF client
    <2>5. w \in VisitType /\ w.outcomes = <<>> /\ w.at = "calling" /\ w.route \in Routes
        BY <2>1, <2>2, <2>3 DEF VisitType, VisitOK
    <2>6. Len(Calls[w.route]) \in Nat
        BY <2>5 DEF Calls, Routes
    <2>7. VisitOK(w)
        BY <2>5, <2>6 DEF VisitOK
    <2> QED
        BY <2>4, <2>5, <2>7, VisitSteps
<1>3. ASSUME NEW v \in Visits, TurnAway(v)
      PROVE  MarketInv'
    <2>1. PICK route \in Routes :
            /\ visits[v].at = "new"
            /\ Step(v, [visits[v] EXCEPT !.route = route, !.at = "failed"])
        BY <1>3 DEF TurnAway
    <2>2. visits[v] \in VisitType /\ VisitOK(visits[v])
        BY DEF MarketInv, VisitsTypeOK, VisitType
    <2> DEFINE w == [visits[v] EXCEPT !.route = route, !.at = "failed"]
    <2>3. w \in VisitType /\ w.outcomes = <<>> /\ w.at = "failed" /\ w.client = "none"
        BY <2>1, <2>2 DEF VisitType, VisitOK
    <2>4. VisitOK(w)
        BY <2>3 DEF VisitOK
    <2> QED
        BY <2>1, <2>3, <2>4, VisitSteps
<1>4. ASSUME NEW v \in Visits, Call(v)
      PROVE  MarketInv'
    <2>1. PICK outcome \in {"rows", "connector_error", "error"} : Answers(v, outcome)
        BY <1>4 DEF Call, Outcome
    <2> QED
        BY <1>4, <2>1, AnswerKeeps DEF Call
<1>5. ASSUME NEW v \in Visits, Finally(v)
      PROVE  MarketInv'
    <2> DEFINE client == IF visits[v].client = "open" THEN "closed" ELSE visits[v].client
               place == IF visits[v].at = "raising" THEN "failed" ELSE "answered"
               w == [visits[v] EXCEPT !.client = client, !.at = place]
    <2>1. visits[v] \in VisitType /\ VisitOK(visits[v])
        BY DEF MarketInv, VisitsTypeOK, VisitType
    <2>2. Step(v, w)
        BY <1>5 DEF Finally
    <2>3. /\ client \in {"none", "closed"} /\ place \in {"failed", "answered"}
          /\ place = "failed" <=> visits[v].at = "raising"
        BY <2>1 DEF VisitType
    <2>4. visits[v].at = "raising" \/ (visits[v].at = "calling" /\ ~CallsLeft(v))
        BY <1>5 DEF Finally
    <2> HIDE DEF client, place
    <2>5. /\ w \in VisitType /\ w.at = place /\ w.client = client
          /\ w.route = visits[v].route /\ w.outcomes = visits[v].outcomes
        BY <2>1, <2>3 DEF VisitType
    <2>6. w.route \in Routes /\ Len(w.outcomes) <= Len(Calls[w.route])
        BY <2>1, <2>4, <2>5 DEF VisitOK
    <2>7. Len(w.outcomes) \in Nat /\ Len(Calls[w.route]) \in Nat
        BY <2>5, <2>6 DEF VisitType, Calls, Routes
    <2>8. place = "answered" => Len(w.outcomes) = Len(Calls[w.route])
        BY <2>3, <2>4, <2>5, <2>6, <2>7 DEF CallsLeft
    <2> HIDE DEF w
    <2>9. VisitOK(w)
        BY <2>1, <2>3, <2>4, <2>5, <2>6, <2>8 DEF VisitOK
    <2> QED
        BY <2>2, <2>5, <2>9, VisitSteps
<1> QED
    BY <1>1, <1>2, <1>3, <1>4, <1>5 DEF DeskNext

(* Where it starts.                                                        *)
LEMMA MarketStart == DeskInit => MarketInv
BY DEF DeskInit, Fresh, MarketInv, VisitsTypeOK, VisitOK

(* A finished request has closed its client, list_markets answers, and an  *)
(* answer with derivatives context has its first three series.             *)
THEOREM ClientsAreClosed == DeskSpec => []EveryClientClosed
<1>1. MarketInv => EveryClientClosed
    <2> SUFFICES ASSUME MarketInv, NEW v \in Visits, visits[v].at \in {"answered", "failed"}
                 PROVE  /\ visits[v].client # "open"
                        /\ visits[v].route = "markets" /\ visits[v].client = "closed"
                                => visits[v].at = "answered"
                        /\ visits[v].route = "coinglass" /\ visits[v].at = "answered" =>
                                \A k \in 1..3 : visits[v].outcomes[k] = "rows"
        BY DEF EveryClientClosed
    <2>1. VisitOK(visits[v]) /\ Len(Calls["coinglass"]) = 5
        BY DEF MarketInv, Calls
    <2> QED
        BY <2>1 DEF VisitOK
<1> QED
    BY <1>1, MarketStart, MarketStep, PTL DEF DeskSpec

(***************************************************************************)
(* The types of MCDesk, where one of the three parts runs.                 *)
(***************************************************************************)

(* A request inserts rows of its own upload.                               *)
LEMMA TablesTypesStep ==
    ASSUME TablesInv, TablesTypeOK, [TablesNext]_tablesVars
    PROVE  TablesTypeOK'
<1>1. TablesInv'
    BY TablesStep
<1>2. fees' \subseteq UNION {Upload(r) : r \in Requests}
    <2>1. ASSUME NEW r \in Requests, InsertFeeRow(r)
          PROVE  fees' \subseteq UNION {Upload(q) : q \in Requests}
        <3>1. requests[r].at = "rows" /\ requests[r].ask.op = "put_fee_schedules"
              /\ requests[r].step \in Nat
            BY <2>1 DEF InsertFeeRow, TablesInv, OpsInv, OpAt, StoreTypes, RequestType
        <3>2. requests[r].step = 0 \/ requests[r].step < FeeRows
            <4>1. UploadOK(r)
                BY DEF TablesInv, FeesInv
            <4> QED
                BY <3>1, <4>1 DEF UploadOK
        <3>3. requests[r].step + 1 \in 1..FeeRows
            BY <3>1, <3>2, TablesAssumption
        <3>4. <<r, requests[r].step + 1>> \in Upload(r)
            BY <3>3 DEF Upload
        <3>5. fees' = fees \union {<<r, requests[r].step + 1>>}
            BY <2>1 DEF InsertFeeRow
        <3>6. fees \subseteq UNION {Upload(q) : q \in Requests}
            BY DEF TablesTypeOK
        <3> QED
            BY <3>4, <3>5, <3>6
    <2>2. ASSUME NEW r \in Requests, PutFeeSchedules(r)
          PROVE  fees' \subseteq UNION {Upload(q) : q \in Requests}
        BY <2>2 DEF PutFeeSchedules, TablesTypeOK
    <2>3. CASE UNCHANGED fees
        BY <2>3 DEF TablesTypeOK
    <2> QED
        BY <2>1, <2>2, <2>3
        DEF TablesNext, tablesVars, globalVars, Ask, Refuse, Cut, SetMode, WriteMode, Unlock,
            PutRiskProfile, GetRiskProfile, AddExchangeConnection, GetExchangeConnection,
            ListStrategies, SeedStrategy, ProvisionTenant, InsertTenant, SetTenantStatus
<1> QED
    BY <1>1, <1>2 DEF TablesInv, StoreTypes, TenantType, TablesTypeOK

(* Where it starts.                                                        *)
LEMMA TablesTypesStart == TablesInit => TablesTypeOK
BY TablesStart DEF TablesInit, TablesInv, StoreTypes, TenantType, TablesTypeOK

(* What the types rest on, of the part that runs and those that do not.    *)
ApiInv == TablesInv /\ SessionsInv /\ MarketInv

(* Whichever of the three parts runs, every variable keeps its type: the   *)
(* fee rows are of an upload and within it, the tokens expire within their *)
(* time, the calls of a route have answered in order.                      *)
THEOREM DeskKeepsItsTypes == MCSpec => []DeskTypeOK
<1>1. MCInit => ApiInv /\ TablesTypeOK
    BY TablesStart, TablesTypesStart, SessionsStart, MarketStart DEF MCInit, ApiInv
<1>2. [MCNext]_apiVars =>
        [TablesNext]_tablesVars /\ [SessionsNext]_sessionVars /\ [DeskNext]_deskVars
    BY DEF MCNext, Tables, SignOn, Market, apiVars
<1>3. ApiInv /\ TablesTypeOK /\ [MCNext]_apiVars => (ApiInv /\ TablesTypeOK)'
    BY <1>2, TablesStep, TablesTypesStep, SessionsStep, MarketStep DEF ApiInv
<1>4. ApiInv /\ TablesTypeOK => DeskTypeOK
    BY DEF ApiInv, SessionsInv, MarketInv, DeskTypeOK
<1> QED
    BY <1>1, <1>3, <1>4, PTL DEF MCSpec
=============================================================================
