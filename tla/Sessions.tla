------------------------------ MODULE Sessions ------------------------------
(***************************************************************************)
(* Who a request acts for (auth.py) and how a browser gets there (sso.py): *)
(* Nexo AI signs a launch token, the landing trades it for a session       *)
(* cookie, and each request is resolved from the cookie, a bearer token or *)
(* a header.  Time is counted in hours.                                    *)
(***************************************************************************)
EXTENDS Naturals, FiniteSets

CONSTANTS
    People,          \* user ids that are UUIDs
    NotUuid,         \* one that is not
    SessionTtl,      \* SESSION_TTL_SECONDS
    LaunchTtl,       \* how long Nexo AI signs for
    MaxTime,         \* bound of the clock
    MaxTokens,       \* bound of the tokens of either kind
    NoCookie

ASSUME SessionAssumption ==
    /\ SessionTtl \in Nat /\ LaunchTtl \in Nat /\ MaxTime \in Nat
    /\ MaxTokens \in Nat /\ NotUuid \notin People

VARIABLES
    clock,
    authMode,    \* NEXOCRYPTO_AUTH
    launched,    \* the launch tokens Nexo AI signed
    minted,      \* the session tokens signed here
    cookie,      \* nxc_session in the browser
    answered     \* the last request: whom it acted for, how, and when

sessionVars == <<clock, authMode, launched, minted, cookie, answered>>

Subjects == People \union {NotUuid}
Times == 0..(MaxTime + SessionTtl + LaunchTtl)
SignedToken == [user : Subjects, exp : Times]

SessionsInit ==
    /\ clock = 0 /\ authMode \in {"jwt", "stub"}
    /\ launched = {} /\ minted = {} /\ cookie = NoCookie
    /\ answered = [as |-> NotUuid, by |-> "none", at |-> 0]

-----------------------------------------------------------------------------
(* The single sign-on.                                                     *)

SignLaunch(u) ==
    /\ Cardinality(launched) < MaxTokens
    /\ launched' = launched \union {[user |-> u, exp |-> clock + LaunchTtl]}
    /\ UNCHANGED <<clock, authMode, minted, cookie, answered>>

(* Defect: the expiry of the launch token is not read.                     *)
Mutant_Launches(token) == token \in launched

(* _decode_launch_token: signed, decodable, in time.                       *)
Launches(token) == token \in launched /\ token.exp >= clock

MintedFor(u) == [user |-> u, exp |-> clock + SessionTtl]

(* A token may land again while it lasts; one that does not verify is a    *)
(* 401 and changes nothing.                                                *)
SsoLanding(token) ==
    /\ Launches(token) /\ Cardinality(minted) < MaxTokens
    /\ minted' = minted \union {MintedFor(token.user)} /\ cookie' = MintedFor(token.user)
    /\ UNCHANGED <<clock, authMode, launched, answered>>

(* The browser forgets the cookie; a copy of the token stays good.         *)
Logout ==
    /\ cookie # NoCookie /\ cookie' = NoCookie
    /\ UNCHANGED <<clock, authMode, launched, minted, answered>>

-----------------------------------------------------------------------------
(* current_user_id.  A header of a request is what it presents; a bearer   *)
(* or session that is not signed is "other".                               *)

Presented == minted \union {NoCookie, [user |-> NotUuid, exp |-> 0]}
Bearers == {"none", "other", "valid"}

VerifiesSession(token) == token \in minted /\ token.exp > clock

Acts(u, by) == answered' = [as |-> u, by |-> by, at |-> clock]
Refused == answered' = [as |-> NotUuid, by |-> "refused", at |-> clock]

(* In jwt mode the cookie decides if there is one: when it has expired, no *)
(* bearer token helps.                                                     *)
CurrentUserId(session, bearer, header) ==
    /\ IF authMode = "stub"
       THEN IF header \in People THEN Acts(header, "header") ELSE Refused
       ELSE IF session # NoCookie
       THEN IF VerifiesSession(session) /\ session.user \in People
            THEN Acts(session.user, "session") ELSE Refused
       ELSE IF bearer = "valid" THEN \E u \in People : Acts(u, "bearer") ELSE Refused
    /\ UNCHANGED <<clock, authMode, launched, minted, cookie>>

(* The browser sends its cookie, another client what it likes.             *)
Request ==
    \E session \in Presented \union {cookie}, bearer \in Bearers, header \in Subjects :
        CurrentUserId(session, bearer, header)

(* The browser drops a cookie at its max_age.                              *)
Hour ==
    /\ clock < MaxTime /\ clock' = clock + 1
    /\ cookie' = IF cookie # NoCookie /\ cookie.exp <= clock + 1 THEN NoCookie ELSE cookie
    /\ UNCHANGED <<authMode, launched, minted, answered>>

SessionsNext ==
    \/ \E u \in Subjects : SignLaunch(u)
    \/ \E token \in launched : SsoLanding(token)
    \/ Logout \/ Request \/ Hour

SessionsSpec == SessionsInit /\ [][SessionsNext]_sessionVars

-----------------------------------------------------------------------------
(* Every variable keeps its type.                                          *)
SessionsTypeOK ==
    /\ clock \in 0..MaxTime /\ authMode \in {"jwt", "stub"}
    /\ launched \subseteq SignedToken /\ minted \subseteq SignedToken
    /\ cookie \in minted \union {NoCookie}
    /\ answered \in [as : Subjects, by : {"none", "refused", "header", "session", "bearer"},
                     at : 0..MaxTime]

(* A session acts for a user Nexo AI signed a launch token for, and ends   *)
(* SessionTtl after that token at the latest: neither landing again nor    *)
(* keeping a copy after a logout (sso.py:129) makes it last longer.        *)
SessionBounded ==
    answered.by = "session" =>
        /\ authMode = "jwt"
        /\ \E token \in launched :
            answered.as = token.user /\ answered.at < token.exp + SessionTtl
=============================================================================
