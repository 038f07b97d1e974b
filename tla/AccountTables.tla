--------------------------- MODULE AccountTables ----------------------------
(***************************************************************************)
(* The account side of the API (routes.py, admin.py) over either store:    *)
(* modes, risk profiles, connections, the fee and strategy tables and the  *)
(* tenants.  PgStore commits each statement, so the requests interleave    *)
(* between them; an operation of InMemoryStore has no await inside.        *)
(***************************************************************************)
EXTENDS Naturals, Sequences, FiniteSets, SequencesExt

CONSTANTS
    Requests,          \* the requests, one operation each
    Accounts,          \* the users
    Externals,         \* external_user_id of the tenants
    StrategyKeys,      \* the seed of the strategies, in its order
    FeeRows            \* the rows of an upload

ASSUME TablesAssumption ==
    /\ FeeRows \in Nat \ {0}
    /\ StrategyKeys \in Seq(ToSet(StrategyKeys)) /\ StrategyKeys # <<>>

VARIABLES
    tables,       \* pg or memory
    mode,         \* of each user
    unlocked,     \* live_unlocked of each user
    profiles,     \* the risk profiles of each user, in the order of their ids
    connections,  \* the exchange connections of each user, oldest first
    fees,         \* rows of fee_schedules: <<upload, row>>
    strategies,   \* keys in the strategies table
    tenants,      \* rows of the tenants table
    requests      \* the requests

accountVars == <<mode, unlocked, profiles, connections>>
globalVars == <<fees, strategies, tenants>>
tablesVars == <<tables, accountVars, globalVars, requests>>

Modes == {"paper", "semi_auto", "full_auto"}
AllKeys == ToSet(StrategyKeys)

(* Defect: a status the table does not know.                               *)
Mutant_Statuses == {"active", "paused", "closed"}

(* _VALID_STATUSES                                                         *)
Statuses == {"active", "paused"}

(* What a request asks for.                                                *)
Asks ==
    [op : {"set_mode"}, user : Accounts, arg : Modes]
    \union [op : {"unlock", "put_risk_profile", "get_risk_profile", "add_connection",
                  "get_connection"}, user : Accounts]
    \union [op : {"put_fee_schedules", "list_strategies"}]
    \union [op : {"provision"}, arg : Externals]
    \union [op : {"set_status"}, arg : Externals, status : Statuses]

NotAsked == [op |-> "none"]
New == [ask |-> NotAsked, at |-> "new", step |-> 0, saw |-> {}]

TablesInit ==
    /\ tables \in {"pg", "memory"}
    /\ mode = [u \in Accounts |-> "paper"] /\ unlocked = [u \in Accounts |-> FALSE]
    /\ profiles = [u \in Accounts |-> <<>>] /\ connections = [u \in Accounts |-> <<>>]
    /\ fees = {} /\ tenants = {}
    /\ strategies = IF tables = "pg" THEN {} ELSE AllKeys
    /\ requests = [r \in Requests |-> New]

-----------------------------------------------------------------------------
(* How a request goes on.                                                  *)

Pg == tables = "pg"
Asked(r, op) == requests[r].at = "asked" /\ requests[r].ask.op = op
UserOf(r) == requests[r].ask.user
ArgOf(r) == requests[r].ask.arg

Moves(r, at, step, saw) ==
    requests' = [requests EXCEPT
        ![r] = [ask |-> requests[r].ask, at |-> at, step |-> step, saw |-> saw]]
Goto(r, at) == Moves(r, at, requests[r].step, requests[r].saw)
Saw(r, at, seen) == Moves(r, at, requests[r].step, seen)
Inserted(r, k, at) == Moves(r, at, k, requests[r].saw)

(* The caller is let in and its arguments are valid; else nothing happens. *)
Ask(r) ==
    /\ requests[r].at = "new"
    /\ \E a \in Asks : requests' = [requests EXCEPT
            ![r] = [ask |-> a, at |-> "asked", step |-> 0, saw |-> {}]]
    /\ UNCHANGED <<tables, accountVars, globalVars>>

Refuse(r) ==
    /\ requests[r].at = "new" /\ Goto(r, "refused")
    /\ UNCHANGED <<tables, accountVars, globalVars>>

(* The database or the process is lost between two statements.             *)
Cut(r) ==
    /\ Pg /\ requests[r].at \in {"asked", "write", "rows", "seed", "insert"}
    /\ Goto(r, "cut")
    /\ UNCHANGED <<tables, accountVars, globalVars>>

-----------------------------------------------------------------------------
(* Modes.                                                                  *)

Permitted(m, u) == m # "full_auto" /\ (m = "semi_auto" => unlocked[u])

(* set_mode looks at live_unlocked ...                                     *)
SetMode(r) ==
    /\ Asked(r, "set_mode")
    /\ IF ~Permitted(ArgOf(r), UserOf(r)) THEN Goto(r, "refused") /\ UNCHANGED mode
       ELSE IF Pg THEN Goto(r, "write") /\ UNCHANGED mode
            ELSE Goto(r, "done") /\ mode' = [mode EXCEPT ![UserOf(r)] = ArgOf(r)]
    /\ UNCHANGED <<tables, unlocked, profiles, connections, globalVars>>

(* ... and writes over another connection.                                 *)
WriteMode(r) ==
    /\ requests[r].at = "write" /\ Goto(r, "done")
    /\ mode' = [mode EXCEPT ![UserOf(r)] = ArgOf(r)]
    /\ UNCHANGED <<tables, unlocked, profiles, connections, globalVars>>

(* unlock_live_for_test: nothing else ever unlocks a user.                 *)
Unlock(r) ==
    /\ Asked(r, "unlock") /\ Goto(r, "done")
    /\ unlocked' = [unlocked EXCEPT ![UserOf(r)] = TRUE]
    /\ UNCHANGED <<tables, mode, profiles, connections, globalVars>>

-----------------------------------------------------------------------------
(* Risk profiles and connections.                                          *)

(* Postgres adds a default row under a random id; memory has one profile.  *)
PutRiskProfile(r) ==
    /\ Asked(r, "put_risk_profile") /\ Goto(r, "done")
    /\ \E k \in 1..(Len(profiles[UserOf(r)]) + 1) :
        profiles' = [profiles EXCEPT
            ![UserOf(r)] = IF Pg THEN InsertAt(@, k, r) ELSE <<r>>]
    /\ UNCHANGED <<tables, mode, unlocked, connections, globalVars>>

(* The row with the least id.                                              *)
GetRiskProfile(r) ==
    /\ Asked(r, "get_risk_profile")
    /\ Saw(r, "done", IF profiles[UserOf(r)] = <<>> THEN {} ELSE {Head(profiles[UserOf(r)])})
    /\ UNCHANGED <<tables, accountVars, globalVars>>

AddExchangeConnection(r) ==
    /\ Asked(r, "add_connection") /\ Goto(r, "done")
    /\ connections' = [connections EXCEPT ![UserOf(r)] = Append(@, r)]
    /\ UNCHANGED <<tables, mode, unlocked, profiles, globalVars>>

(* The keys an order is signed with: Postgres finds the newest, memory the *)
(* oldest.                                                                 *)
GetExchangeConnection(r) ==
    LET all == connections[UserOf(r)] IN
    /\ Asked(r, "get_connection")
    /\ Saw(r, "done", IF all = <<>> THEN {} ELSE IF Pg THEN {Last(all)} ELSE {Head(all)})
    /\ UNCHANGED <<tables, accountVars, globalVars>>

-----------------------------------------------------------------------------
(* Fees and strategies.                                                    *)

Upload(r) == {<<r, k>> : k \in 1..FeeRows}

PutFeeSchedules(r) ==
    /\ Asked(r, "put_fee_schedules")
    /\ IF Pg THEN Goto(r, "rows") /\ UNCHANGED fees
       ELSE Goto(r, "done") /\ fees' = Upload(r)
    /\ UNCHANGED <<tables, accountVars, strategies, tenants>>

(* A row a statement, and an answer after the last.                        *)
InsertFeeRow(r) ==
    LET k == requests[r].step + 1 IN
    /\ requests[r].at = "rows" /\ fees' = fees \union {<<r, k>>}
    /\ Inserted(r, k, IF k = FeeRows THEN "done" ELSE "rows")
    /\ UNCHANGED <<tables, accountVars, strategies, tenants>>

(* An empty table is seeded.                                               *)
ListStrategies(r) ==
    /\ Asked(r, "list_strategies")
    /\ Saw(r, IF strategies = {} THEN "seed" ELSE "done", strategies)
    /\ UNCHANGED <<tables, accountVars, globalVars>>

(* On conflict, do nothing.                                                *)
SeedStrategy(r) ==
    LET k == requests[r].step + 1 IN
    /\ requests[r].at = "seed" /\ strategies' = strategies \union {StrategyKeys[k]}
    /\ Inserted(r, k, IF k = Len(StrategyKeys) THEN "done" ELSE "seed")
    /\ UNCHANGED <<tables, accountVars, fees, tenants>>

-----------------------------------------------------------------------------
(* Tenants.  The token of a row is the request that made it.               *)

Rows(e) == {t \in tenants : t.external = e}
Row(r) == [external |-> ArgOf(r), token |-> r, status |-> "active"]

(* Defect: a tenant that is there gets a new token.                        *)
Mutant_ProvisionTenant(r) ==
    /\ Asked(r, "provision")
    /\ IF Rows(ArgOf(r)) # {} \/ ~Pg
       THEN /\ Saw(r, "done", {r})
            /\ tenants' = (tenants \ Rows(ArgOf(r))) \union {Row(r)}
       ELSE Goto(r, "insert") /\ UNCHANGED tenants
    /\ UNCHANGED <<tables, accountVars, fees, strategies>>

(* Found, the row's token is the answer; else an insert follows.           *)
ProvisionTenant(r) ==
    /\ Asked(r, "provision")
    /\ IF Rows(ArgOf(r)) # {}
       THEN Saw(r, "done", {t.token : t \in Rows(ArgOf(r))}) /\ UNCHANGED tenants
       ELSE IF Pg THEN Goto(r, "insert") /\ UNCHANGED tenants
            ELSE Saw(r, "done", {r}) /\ tenants' = tenants \union {Row(r)}
    /\ UNCHANGED <<tables, accountVars, fees, strategies>>

(* Defect: two requests that found no tenant both insert one.              *)
Mutant_InsertTenant(r) ==
    /\ requests[r].at = "insert"
    /\ Saw(r, "done", {r}) /\ tenants' = tenants \union {Row(r)}
    /\ UNCHANGED <<tables, accountVars, fees, strategies>>

(* external_user_id is unique: the later of two inserts raises.            *)
InsertTenant(r) ==
    /\ requests[r].at = "insert"
    /\ IF Rows(ArgOf(r)) # {} THEN Goto(r, "raised") /\ UNCHANGED tenants
       ELSE Saw(r, "done", {r}) /\ tenants' = tenants \union {Row(r)}
    /\ UNCHANGED <<tables, accountVars, fees, strategies>>

SetTenantStatus(r) ==
    /\ Asked(r, "set_status") /\ Goto(r, "done")
    /\ tenants' = {IF t.external = ArgOf(r) THEN [t EXCEPT !.status = requests[r].ask.status]
                   ELSE t : t \in tenants}
    /\ UNCHANGED <<tables, accountVars, fees, strategies>>

TablesNext ==
    \E r \in Requests :
        \/ Ask(r) \/ Refuse(r) \/ Cut(r)
        \/ SetMode(r) \/ WriteMode(r) \/ Unlock(r)
        \/ PutRiskProfile(r) \/ GetRiskProfile(r)
        \/ AddExchangeConnection(r) \/ GetExchangeConnection(r)
        \/ PutFeeSchedules(r) \/ InsertFeeRow(r) \/ ListStrategies(r) \/ SeedStrategy(r)
        \/ ProvisionTenant(r) \/ InsertTenant(r) \/ SetTenantStatus(r)

TablesSpec == TablesInit /\ [][TablesNext]_tablesVars
-----------------------------------------------------------------------------
(* Every variable keeps its type.                                          *)
TablesTypeOK ==
    /\ tables \in {"pg", "memory"}
    /\ mode \in [Accounts -> Modes] /\ unlocked \in [Accounts -> BOOLEAN]
    /\ profiles \in [Accounts -> Seq(Requests)] /\ connections \in [Accounts -> Seq(Requests)]
    /\ fees \subseteq UNION {Upload(r) : r \in Requests} /\ strategies \subseteq AllKeys
    /\ tenants \subseteq [external : Externals, token : Requests, status : {"active", "paused"}]
    /\ DOMAIN requests = Requests

(* A user trades semi-auto only if unlocked, though set_mode reads the     *)
(* gate in one transaction and writes in another (pg_store.py:491): what   *)
(* it read cannot lapse.  No one trades full-auto.                         *)
ModeGated ==
    \A u \in Accounts : mode[u] # "full_auto" /\ (mode[u] = "semi_auto" => unlocked[u])

(* An upload is there as a whole or not at all, but for one under way or   *)
(* cut (pg_store.py:580), whose first rows are there.                      *)
FeesWhole ==
    \A r \in Requests : Upload(r) \intersect fees # {} =>
        \/ Upload(r) \subseteq fees
        \/ /\ Pg /\ requests[r].at \in {"rows", "cut"}
           /\ fees \intersect Upload(r) = {<<r, k>> : k \in 1..requests[r].step}

(* The strategies are all listed, but for a seeding under way or cut       *)
(* (pg_store.py:601); one that was cut stays so, no one seeds again.       *)
StrategiesWhole ==
    /\ strategies \in {{}, AllKeys} \/ \E r \in Requests :
            requests[r].ask.op = "list_strategies" /\ requests[r].at \in {"seed", "cut"}
    /\ \A r \in Requests :
            requests[r].ask.op = "list_strategies" /\ requests[r].saw \notin {{}, AllKeys} =>
                \E q \in Requests \ {r} :
                    requests[q].ask.op = "list_strategies" /\ requests[q].step > 0

(* A tenant has one row, and every answer to its provisioning carries that *)
(* row's token, whoever asked at once (pg_store.py:646).                   *)
TenantsUnique ==
    /\ \A t, u \in tenants : t.external = u.external => t = u
    /\ \A r \in Requests : requests[r].ask.op = "provision" /\ requests[r].at = "done" =>
            requests[r].saw = {t.token : t \in Rows(ArgOf(r))}

(* What concurrent requests and failures leave in the shared tables.       *)
TablesWhole == FeesWhole /\ StrategiesWhole /\ TenantsUnique

AnswerTokens ==
    [r \in Requests |-> IF requests[r].ask.op = "provision" /\ requests[r].at = "done"
                        THEN requests[r].saw ELSE {}]

Registry == INSTANCE AccountRegistry WITH
                tokens <- [e \in Externals |-> {t.token : t \in Rows(e)}],
                statuses <- [e \in Externals |-> {t.status : t \in Rows(e)}],
                answers <- AnswerTokens

(* Modes and tenants are as if every request were one step, though the     *)
(* gate and the tenant are read in one transaction and written in another  *)
(* (pg_store.py:491, :646), other requests go on between the two, and      *)
(* either may be the last that is reached.                                 *)
AtomicAccounts == Registry!Spec
=============================================================================
