------------------------ MODULE AccountTables_proofs ------------------------
(***************************************************************************)
(* Proofs about the account tables.  Every operation moves one request;    *)
(* what the tables hold follows from where the requests are.  The          *)
(* inductive invariant has a part for the modes, one for the fees, one for *)
(* the strategies and one for the tenants; a lemma per part says which     *)
(* steps leave it alone, a lemma per operation shows the rest.             *)
(***************************************************************************)
EXTENDS AccountTables, TLAPS

Places == {"new", "asked", "refused", "cut", "write", "rows", "seed", "insert", "raised", "done"}

RequestType == [ask : Asks \union {NotAsked}, at : Places, step : Nat,
                saw : SUBSET (Requests \union AllKeys)]

TenantType == [external : Externals, token : Requests, status : {"active", "paused"}]

(* The types of the variables the properties are about.                    *)
StoreTypes ==
    /\ tables \in {"pg", "memory"}
    /\ mode \in [Accounts -> Modes] /\ unlocked \in [Accounts -> BOOLEAN]
    /\ profiles \in [Accounts -> Seq(Requests)] /\ connections \in [Accounts -> Seq(Requests)]
    /\ strategies \subseteq AllKeys /\ tenants \subseteq TenantType
    /\ requests \in [Requests -> RequestType]

(* Where a request waits between two statements tells its operation.       *)
OpAt(q) ==
    /\ q.at \notin {"new", "refused"} => q.ask \in Asks
    /\ q.at = "write" => q.ask.op = "set_mode"
    /\ q.at = "rows" => q.ask.op = "put_fee_schedules"
    /\ q.at = "seed" => q.ask.op = "list_strategies"
    /\ q.at = "insert" => q.ask.op = "provision"
    /\ q.at \in {"new", "asked"} => q.step = 0 /\ q.saw = {}
    /\ q.at \in {"write", "rows", "insert"} => Pg

(* A mode about to be written is permitted now.                            *)
ModesInv ==
    /\ ModeGated
    /\ \A r \in Requests : requests[r].at = "write" => Permitted(ArgOf(r), UserOf(r))

(* An upload has the rows its request has inserted.                        *)
UploadOK(q) ==
    \/ Upload(q) \intersect fees = {} /\ requests[q].step = 0
    \/ Upload(q) \intersect fees = {} /\ requests[q].ask.op # "put_fee_schedules"
    \/ ~Pg /\ requests[q].at = "done" /\ Upload(q) \intersect fees = {}
    \/ Upload(q) \subseteq fees /\ requests[q].at = "done"
    \/ /\ Pg /\ requests[q].at \in {"rows", "cut"}
       /\ requests[q].ask.op = "put_fee_schedules" /\ requests[q].step < FeeRows
       /\ fees \intersect Upload(q) = {<<q, k>> : k \in 1..requests[q].step}
FeesInv == \A q \in Requests : UploadOK(q)

Lists(r) == requests[r].ask.op = "list_strategies"

(* Who has seeded k strategies has them in the table.                      *)
KeysInv ==
    /\ StrategiesWhole
    /\ strategies \notin {{}, AllKeys} => \E r \in Requests : Lists(r) /\ requests[r].step > 0
    /\ \A r \in Requests : requests[r].at = "seed" =>
            /\ requests[r].saw = {} /\ requests[r].step < Len(StrategyKeys)
            /\ {StrategyKeys[k] : k \in 1..requests[r].step} \subseteq strategies

(* A provisioning that was answered has its row.                           *)
TenantsInv ==
    /\ TenantsUnique
    /\ \A r \in Requests : requests[r].ask.op = "provision" /\ requests[r].at = "done" =>
            Rows(ArgOf(r)) # {}

OpsInv == \A r \in Requests : OpAt(requests[r])

TablesInv == StoreTypes /\ OpsInv /\ ModesInv /\ FeesInv /\ KeysInv /\ TenantsInv

-----------------------------------------------------------------------------
(* How an operation moves its request.                                     *)

(* Request r leaves a place it can leave, and no other moves.              *)
Onward(r) ==
    /\ requests' \in [Requests -> RequestType] /\ tables' = tables
    /\ \A q \in Requests \ {r} : requests'[q] = requests[q]
    /\ requests[r].at \in {"new", "asked", "write", "rows", "seed", "insert"}
    /\ requests[r].at # "new" => requests'[r].ask = requests[r].ask
    /\ requests[r].at = "new" => requests'[r].at \in {"asked", "refused"}
    /\ requests'[r].step = requests[r].step

(* What an ask of each operation carries.                                  *)
LEMMA AsksAre ==
    ASSUME NEW a \in Asks
    PROVE  /\ a.op = "set_mode" => a.user \in Accounts /\ a.arg \in Modes
           /\ a.op \in {"unlock", "put_risk_profile", "get_risk_profile", "add_connection",
                        "get_connection"} => a.user \in Accounts
           /\ a.op = "provision" => a.arg \in Externals
           /\ a.op = "set_status" => a.arg \in Externals /\ a.status \in Statuses
BY DEF Asks

(* A request that moves has its new fields, and no other moves.            *)
LEMMA MovesTo ==
    ASSUME StoreTypes, NEW r \in Requests, NEW at \in Places, NEW step \in Nat,
           NEW saw \in SUBSET (Requests \union AllKeys), Moves(r, at, step, saw)
    PROVE  /\ requests' \in [Requests -> RequestType]
           /\ \A q \in Requests \ {r} : requests'[q] = requests[q]
           /\ requests'[r].ask = requests[r].ask /\ requests'[r].at = at
           /\ requests'[r].step = step /\ requests'[r].saw = saw
<1> DEFINE w == [ask |-> requests[r].ask, at |-> at, step |-> step, saw |-> saw]
<1>1. requests[r] \in RequestType
    BY DEF StoreTypes
<1>2. w \in RequestType
    BY <1>1 DEF RequestType
<1>3. requests' = [requests EXCEPT ![r] = w]
    BY DEF Moves
<1>4. w.ask = requests[r].ask /\ w.at = at /\ w.step = step /\ w.saw = saw
    OBVIOUS
<1> HIDE DEF w
<1> QED
    BY <1>2, <1>3, <1>4 DEF StoreTypes

(* The same for a request that only goes on.                               *)
LEMMA GotoMoves ==
    ASSUME StoreTypes, NEW r \in Requests, NEW at \in Places, Goto(r, at)
    PROVE  /\ requests' \in [Requests -> RequestType]
           /\ \A q \in Requests \ {r} : requests'[q] = requests[q]
           /\ requests'[r].ask = requests[r].ask /\ requests'[r].at = at
           /\ requests'[r].step = requests[r].step /\ requests'[r].saw = requests[r].saw
<1>1. requests[r].step \in Nat /\ requests[r].saw \in SUBSET (Requests \union AllKeys)
    BY DEF StoreTypes, RequestType
<1> QED
    BY <1>1, MovesTo DEF Goto

(* The same for one that goes on with what it saw.                         *)
LEMMA SawMoves ==
    ASSUME StoreTypes, NEW r \in Requests, NEW at \in Places,
           NEW seen \in SUBSET (Requests \union AllKeys), Saw(r, at, seen)
    PROVE  /\ requests' \in [Requests -> RequestType]
           /\ \A q \in Requests \ {r} : requests'[q] = requests[q]
           /\ requests'[r].ask = requests[r].ask /\ requests'[r].at = at
           /\ requests'[r].step = requests[r].step /\ requests'[r].saw = seen
<1>1. requests[r].step \in Nat
    BY DEF StoreTypes, RequestType
<1> QED
    BY <1>1, MovesTo DEF Saw

(* The requests keep their places' meaning when the one that moves does.   *)
LEMMA OpsKept ==
    ASSUME OpsInv, NEW r \in Requests, Onward(r), OpAt(requests[r])'
    PROVE  OpsInv'
BY DEF OpsInv, OpAt, Onward, Pg

(* A step that writes no mode and is not about to keeps ModesInv.          *)
LEMMA ModesKept ==
    ASSUME ModesInv, NEW r \in Requests, Onward(r), UNCHANGED <<mode, unlocked>>,
           requests'[r].at # "write"
    PROVE  ModesInv'
BY DEF ModesInv, ModeGated, Onward, Permitted, ArgOf, UserOf

(* A step that writes no fee row and cuts no upload but its own keeps      *)
(* FeesInv.                                                                *)
LEMMA FeesKept ==
    ASSUME StoreTypes, OpsInv, FeesInv, NEW r \in Requests, Onward(r), UNCHANGED fees,
           requests[r].at = "rows" => requests'[r].at = "cut"
    PROVE  FeesInv'
<1> SUFFICES ASSUME NEW q \in Requests
             PROVE  UploadOK(q)'
    BY DEF FeesInv
<1>1. CASE q # r
    BY <1>1 DEF FeesInv, UploadOK, Onward, Upload, Pg
<1>2. CASE q = r /\ requests[r].at = "new"
    <2>1. requests[r].step = 0
        BY <1>2 DEF OpsInv, OpAt
    <2>2. Upload(r) \intersect fees = {}
        BY <1>2 DEF FeesInv, UploadOK
    <2> QED
        BY <1>2, <2>1, <2>2 DEF Onward, UploadOK, Upload
<1>3. CASE q = r /\ requests[r].at # "new"
    BY <1>3 DEF FeesInv, UploadOK, Onward, Upload, Pg
<1> QED
    BY <1>1, <1>2, <1>3

(* A step that writes no strategy and lists none keeps KeysInv.            *)
LEMMA KeysKept ==
    ASSUME StoreTypes, OpsInv, KeysInv, NEW r \in Requests, Onward(r), UNCHANGED strategies,
           requests[r].at = "seed" => requests'[r].at = "cut",
           requests'[r].at # "seed",
           requests'[r].saw \in {{}, requests[r].saw} \/ requests'[r].ask.op # "list_strategies"
    PROVE  KeysInv'
<1>1. \A q \in Requests : Lists(q) /\ requests[q].step > 0 =>
            Lists(q)' /\ requests'[q].step > 0
    <2>1. requests[r].at = "new" => requests[r].step = 0
        BY DEF OpsInv, OpAt
    <2>2. ~(0 > 0)
        OBVIOUS
    <2> QED
        BY <2>1, <2>2 DEF Lists, Onward
<1>2. \A q \in Requests : Lists(q) /\ requests[q].at \in {"seed", "cut"} =>
            Lists(q)' /\ requests'[q].at \in {"seed", "cut"}
    BY DEF Lists, Onward
<1>3. (strategies \in {{}, AllKeys} \/ \E q \in Requests :
            Lists(q) /\ requests[q].at \in {"seed", "cut"})'
    BY <1>2 DEF KeysInv, StrategiesWhole, Lists
<1>4. ASSUME NEW q \in Requests, Lists(q)', requests'[q].saw \notin {{}, AllKeys}
      PROVE  \E p \in Requests \ {q} : Lists(p)' /\ requests'[p].step > 0
    <2>1. Lists(q) /\ requests[q].saw \notin {{}, AllKeys}
        BY <1>4 DEF Lists, Onward, OpsInv, OpAt
    <2> QED
        BY <1>1, <2>1 DEF KeysInv, StrategiesWhole, Lists
<1>5. StrategiesWhole'
    BY <1>3, <1>4 DEF StrategiesWhole, Lists
<1>6. (strategies \notin {{}, AllKeys} =>
            \E q \in Requests : Lists(q) /\ requests[q].step > 0)'
    BY <1>1 DEF KeysInv
<1>7. (\A q \in Requests : requests[q].at = "seed" =>
            /\ requests[q].saw = {} /\ requests[q].step < Len(StrategyKeys)
            /\ {StrategyKeys[k] : k \in 1..requests[q].step} \subseteq strategies)'
    BY DEF KeysInv, Onward
<1> QED
    BY <1>5, <1>6, <1>7 DEF KeysInv

(* A step that writes no tenant and answers no provisioning keeps          *)
(* TenantsInv.                                                             *)
LEMMA TenantsKept ==
    ASSUME TenantsInv, NEW r \in Requests, Onward(r), UNCHANGED tenants,
           requests'[r].ask.op # "provision" \/ requests'[r].at # "done"
    PROVE  TenantsInv'
BY DEF TenantsInv, TenantsUnique, Onward, Rows, ArgOf
-----------------------------------------------------------------------------
(* The operations.                                                         *)

Kept == ModesInv' /\ FeesInv' /\ KeysInv' /\ TenantsInv'

(* An operation on none of the four parts keeps all of them.               *)
LEMMA QuietKeeps ==
    ASSUME TablesInv, NEW r \in Requests, Onward(r),
           UNCHANGED <<mode, unlocked, globalVars>>,
           requests'[r].at \notin {"write", "rows", "seed", "insert"},
           requests[r].at \in {"rows", "seed"} => requests'[r].at = "cut",
           requests'[r].saw \in {{}, requests[r].saw} \/ requests'[r].ask.op # "list_strategies",
           requests'[r].ask.op # "provision" \/ requests'[r].at # "done"
    PROVE  Kept
BY ModesKept, FeesKept, KeysKept, TenantsKept DEF TablesInv, Kept, globalVars

(* A request that is let in, refused or cut changes no table.              *)
LEMMA AskKeeps ==
    ASSUME TablesInv, NEW r \in Requests, Ask(r) \/ Refuse(r) \/ Cut(r)
    PROVE  TablesInv'
<1>1. UNCHANGED <<tables, accountVars, globalVars>>
    BY DEF Ask, Refuse, Cut
<1>2. StoreTypes /\ OpAt(requests[r]) /\ requests[r] \in RequestType
    BY DEF TablesInv, OpsInv, StoreTypes
<1>3. CASE Ask(r)
    <2>1. PICK a \in Asks : requests' = [requests EXCEPT
            ![r] = [ask |-> a, at |-> "asked", step |-> 0, saw |-> {}]]
        BY <1>3 DEF Ask
    <2> DEFINE w == [ask |-> a, at |-> "asked", step |-> 0, saw |-> {}]
    <2>2. w \in RequestType
        BY DEF RequestType, Places
    <2>3. w.ask = a /\ w.at = "asked" /\ w.step = 0 /\ w.saw = {}
        OBVIOUS
    <2>4. requests[r].at = "new" /\ requests[r].step = 0
        BY <1>2, <1>3 DEF Ask, OpAt
    <2> HIDE DEF w
    <2>5. requests' \in [Requests -> RequestType] /\ requests'[r] = w
          /\ \A q \in Requests \ {r} : requests'[q] = requests[q]
        BY <1>2, <2>1, <2>2 DEF StoreTypes, w
    <2>6. Onward(r) /\ OpAt(requests[r])'
        BY <1>1, <2>3, <2>4, <2>5 DEF Onward, OpAt
    <2>7. Kept
        BY <1>1, <2>3, <2>4, <2>5, <2>6, QuietKeeps DEF accountVars
    <2> QED
        BY <1>1, <1>2, <2>5, <2>6, <2>7, OpsKept
           DEF TablesInv, Kept, StoreTypes, accountVars, globalVars
<1>4. CASE Refuse(r) \/ Cut(r)
    <2>1. \/ requests[r].at = "new" /\ Goto(r, "refused")
          \/ /\ requests[r].at \in {"asked", "write", "rows", "seed", "insert"}
             /\ Goto(r, "cut")
        BY <1>4 DEF Refuse, Cut
    <2>2. PICK at \in {"refused", "cut"} :
            /\ Goto(r, at) /\ requests[r].at \in {"new", "asked", "write", "rows", "seed", "insert"}
            /\ at = "refused" <=> requests[r].at = "new"
        BY <2>1
    <2>3. at \in Places
        BY DEF Places
    <2>4. /\ requests' \in [Requests -> RequestType]
          /\ \A q \in Requests \ {r} : requests'[q] = requests[q]
          /\ requests'[r].ask = requests[r].ask /\ requests'[r].at = at
          /\ requests'[r].step = requests[r].step /\ requests'[r].saw = requests[r].saw
        BY <1>2, <2>2, <2>3, GotoMoves
    <2>5. Onward(r) /\ OpAt(requests[r])'
        BY <1>1, <1>2, <2>2, <2>4 DEF Onward, OpAt
    <2>6. Kept
        BY <1>1, <2>2, <2>4, <2>5, QuietKeeps DEF accountVars
    <2> QED
        BY <1>1, <1>2, <2>4, <2>5, <2>6, OpsKept
           DEF TablesInv, Kept, StoreTypes, accountVars, globalVars
<1> QED
    BY <1>3, <1>4

(* A request that was asked goes on, and only an operation of its own      *)
(* waits for a further statement.                                          *)
LEMMA AskedMoves ==
    ASSUME TablesInv, NEW r \in Requests, requests[r].at = "asked", tables' = tables,
           NEW at \in {"write", "rows", "seed", "insert", "refused", "done"},
           NEW seen \in SUBSET (Requests \union AllKeys), Saw(r, at, seen),
           at \in {"write", "rows", "insert"} => Pg,
           at = "write" => requests[r].ask.op = "set_mode",
           at = "rows" => requests[r].ask.op = "put_fee_schedules",
           at = "seed" => requests[r].ask.op = "list_strategies",
           at = "insert" => requests[r].ask.op = "provision"
    PROVE  /\ Onward(r) /\ OpsInv' /\ requests[r].ask \in Asks
           /\ requests'[r].at = at /\ requests'[r].saw = seen
           /\ requests'[r].ask = requests[r].ask
<1>1. StoreTypes /\ OpsInv /\ OpAt(requests[r]) /\ at \in Places
    BY DEF TablesInv, OpsInv, Places
<1>2. /\ requests' \in [Requests -> RequestType]
      /\ \A q \in Requests \ {r} : requests'[q] = requests[q]
      /\ requests'[r].ask = requests[r].ask /\ requests'[r].at = at
      /\ requests'[r].step = requests[r].step /\ requests'[r].saw = seen
    BY <1>1, SawMoves
<1>3. Onward(r)
    BY <1>2 DEF Onward
<1>4. OpAt(requests[r])' /\ requests[r].ask \in Asks
    BY <1>1, <1>2 DEF OpAt, Pg
<1> QED
    BY <1>1, <1>2, <1>3, <1>4, OpsKept

(* To go on is to see nothing new.                                         *)
LEMMA GotoIsSaw ==
    ASSUME StoreTypes, NEW r \in Requests, NEW at, Goto(r, at)
    PROVE  /\ Saw(r, at, requests[r].saw)
           /\ requests[r].saw \in SUBSET (Requests \union AllKeys)
BY DEF Goto, Saw, StoreTypes, RequestType

(* set_mode: what it permits stays permitted until it is written, for no   *)
(* one is ever locked again.                                               *)
LEMMA SetModeKeeps ==
    ASSUME TablesInv, NEW r \in Requests, SetMode(r)
    PROVE  TablesInv'
<1>1. /\ requests[r].at = "asked" /\ requests[r].ask.op = "set_mode" /\ StoreTypes
      /\ UNCHANGED <<tables, unlocked, profiles, connections, globalVars>>
    BY DEF SetMode, Asked, TablesInv
<1>2. PICK at \in {"write", "refused", "done"} :
            /\ Goto(r, at) /\ (at = "write" => Pg)
            /\ at # "refused" => Permitted(ArgOf(r), UserOf(r))
            /\ at # "done" => UNCHANGED mode
            /\ at = "done" => mode' = [mode EXCEPT ![UserOf(r)] = ArgOf(r)]
    BY DEF SetMode
<1>3. /\ Onward(r) /\ OpsInv' /\ requests[r].ask \in Asks
      /\ requests'[r].at = at /\ requests'[r].saw = requests[r].saw
      /\ requests'[r].ask = requests[r].ask
    BY <1>1, <1>2, GotoIsSaw, AskedMoves
<1>4. UserOf(r) \in Accounts /\ ArgOf(r) \in Modes
    BY <1>1, <1>3, AsksAre DEF UserOf, ArgOf
<1>5. StoreTypes'
    <2>1. mode' \in [Accounts -> Modes]
        BY <1>1, <1>2, <1>4 DEF StoreTypes
    <2> QED
        BY <1>1, <1>3, <2>1 DEF StoreTypes, Onward, globalVars
<1>6. ModesInv'
    <2>1. ModeGated'
        BY <1>1, <1>2, <1>4 DEF TablesInv, ModesInv, ModeGated, Permitted, StoreTypes
    <2>2. \A q \in Requests : (requests[q].at = "write" => Permitted(ArgOf(q), UserOf(q)))'
        BY <1>1, <1>2, <1>3 DEF TablesInv, ModesInv, Permitted, Onward, ArgOf, UserOf
    <2> QED
        BY <2>1, <2>2 DEF ModesInv
<1>7. FeesInv' /\ KeysInv' /\ TenantsInv'
    BY <1>1, <1>2, <1>3, FeesKept, KeysKept, TenantsKept DEF TablesInv, globalVars
<1> QED
    BY <1>3, <1>5, <1>6, <1>7 DEF TablesInv

(* The write of a mode.                                                    *)
LEMMA WriteModeKeeps ==
    ASSUME TablesInv, NEW r \in Requests, WriteMode(r)
    PROVE  TablesInv'
<1>1. /\ requests[r].at = "write" /\ Goto(r, "done") /\ StoreTypes /\ OpAt(requests[r])
      /\ mode' = [mode EXCEPT ![UserOf(r)] = ArgOf(r)]
      /\ UNCHANGED <<tables, unlocked, profiles, connections, globalVars>>
    BY DEF WriteMode, TablesInv, OpsInv
<1>2. /\ requests' \in [Requests -> RequestType]
      /\ \A q \in Requests \ {r} : requests'[q] = requests[q]
      /\ requests'[r].ask = requests[r].ask /\ requests'[r].at = "done"
      /\ requests'[r].step = requests[r].step /\ requests'[r].saw = requests[r].saw
    BY <1>1, GotoMoves DEF Places
<1>3. requests[r].ask \in Asks /\ requests[r].ask.op = "set_mode"
    BY <1>1 DEF OpAt
<1>4. UserOf(r) \in Accounts /\ ArgOf(r) \in Modes /\ Permitted(ArgOf(r), UserOf(r))
    BY <1>1, <1>3, AsksAre DEF UserOf, ArgOf, TablesInv, ModesInv
<1>5. Onward(r) /\ OpAt(requests[r])'
    BY <1>1, <1>2, <1>3 DEF Onward, OpAt
<1>6. StoreTypes'
    <2>1. mode' \in [Accounts -> Modes]
        BY <1>1, <1>4 DEF StoreTypes
    <2> QED
        BY <1>1, <1>2, <2>1 DEF StoreTypes, globalVars
<1>7. ModesInv'
    <2>1. ModeGated'
        BY <1>1, <1>4 DEF TablesInv, ModesInv, ModeGated, Permitted, StoreTypes
    <2>2. \A q \in Requests : (requests[q].at = "write" => Permitted(ArgOf(q), UserOf(q)))'
        BY <1>1, <1>2 DEF TablesInv, ModesInv, Permitted, ArgOf, UserOf
    <2> QED
        BY <2>1, <2>2 DEF ModesInv
<1>8. FeesInv' /\ KeysInv' /\ TenantsInv'
    BY <1>1, <1>2, <1>3, <1>5, FeesKept, KeysKept, TenantsKept DEF TablesInv, globalVars
<1> QED
    BY <1>5, <1>6, <1>7, <1>8, OpsKept DEF TablesInv

(* An unlock widens what is permitted.                                     *)
LEMMA UnlockKeeps ==
    ASSUME TablesInv, NEW r \in Requests, Unlock(r)
    PROVE  TablesInv'
<1>1. /\ requests[r].at = "asked" /\ requests[r].ask.op = "unlock" /\ Goto(r, "done")
      /\ StoreTypes /\ unlocked' = [unlocked EXCEPT ![UserOf(r)] = TRUE]
      /\ UNCHANGED <<tables, mode, profiles, connections, globalVars>>
    BY DEF Unlock, Asked, TablesInv
<1>2. /\ Onward(r) /\ OpsInv' /\ requests[r].ask \in Asks
      /\ requests'[r].at = "done" /\ requests'[r].saw = requests[r].saw
      /\ requests'[r].ask = requests[r].ask
    BY <1>1, GotoIsSaw, AskedMoves
<1>3. StoreTypes'
    BY <1>1, <1>2 DEF StoreTypes, Onward, globalVars
<1>4. \A u \in Accounts : unlocked[u] => unlocked'[u]
    BY <1>1 DEF StoreTypes
<1>5. ModeGated'
    BY <1>1, <1>4 DEF TablesInv, ModesInv, ModeGated
<1>6. ASSUME NEW q \in Requests, requests'[q].at = "write"
      PROVE  Permitted(ArgOf(q), UserOf(q))'
    <2>1. q # r /\ requests'[q] = requests[q]
        BY <1>2, <1>6 DEF Onward
    <2>2. requests[q].ask \in Asks /\ requests[q].ask.op = "set_mode"
        BY <1>6, <2>1 DEF TablesInv, OpsInv, OpAt
    <2>3. UserOf(q) \in Accounts
        BY <2>2, AsksAre DEF UserOf
    <2> QED
        BY <1>4, <1>6, <2>1, <2>3 DEF TablesInv, ModesInv, Permitted, ArgOf, UserOf
<1>7. ModesInv'
    BY <1>5, <1>6 DEF ModesInv
<1>8. FeesInv' /\ KeysInv' /\ TenantsInv'
    BY <1>1, <1>2, FeesKept, KeysKept, TenantsKept DEF TablesInv, globalVars
<1> QED
    BY <1>2, <1>3, <1>7, <1>8 DEF TablesInv

(* The profiles and connections are written and read by requests that      *)
(* change nothing else.                                                    *)
LEMMA ProfilesKeep ==
    ASSUME TablesInv, NEW r \in Requests,
           \/ PutRiskProfile(r) \/ GetRiskProfile(r)
           \/ AddExchangeConnection(r) \/ GetExchangeConnection(r)
    PROVE  TablesInv'
<1>1. /\ requests[r].at = "asked" /\ StoreTypes
      /\ requests[r].ask.op \in {"put_risk_profile", "get_risk_profile", "add_connection",
                                 "get_connection"}
      /\ UNCHANGED <<tables, mode, unlocked, globalVars>>
    BY DEF PutRiskProfile, GetRiskProfile, AddExchangeConnection, GetExchangeConnection,
           Asked, TablesInv, accountVars
<1>2. requests[r].ask \in Asks
    BY <1>1 DEF TablesInv, OpsInv, OpAt
<1>3. UserOf(r) \in Accounts
    BY <1>1, <1>2, AsksAre DEF UserOf
<1>4. profiles[UserOf(r)] \in Seq(Requests) /\ connections[UserOf(r)] \in Seq(Requests)
    BY <1>1, <1>3 DEF StoreTypes
<1>5. PICK seen \in SUBSET (Requests \union AllKeys) : Saw(r, "done", seen)
    <2>1. CASE PutRiskProfile(r) \/ AddExchangeConnection(r)
        BY <1>1, <2>1, GotoIsSaw DEF PutRiskProfile, AddExchangeConnection
    <2>2. CASE GetRiskProfile(r)
        <3> DEFINE seen == IF profiles[UserOf(r)] = <<>> THEN {} ELSE {Head(profiles[UserOf(r)])}
        <3>1. seen \in SUBSET (Requests \union AllKeys)
            BY <1>4
        <3> QED
            BY <2>2, <3>1 DEF GetRiskProfile
    <2>3. CASE GetExchangeConnection(r)
        <3> DEFINE all == connections[UserOf(r)]
                   seen == IF all = <<>> THEN {} ELSE IF Pg THEN {Last(all)} ELSE {Head(all)}
        <3>1. seen \in SUBSET (Requests \union AllKeys)
            BY <1>4 DEF Last
        <3> QED
            BY <2>3, <3>1 DEF GetExchangeConnection
    <2> QED
        BY <2>1, <2>2, <2>3
<1>6. /\ Onward(r) /\ OpsInv' /\ requests'[r].at = "done" /\ requests'[r].ask = requests[r].ask
    BY <1>1, <1>5, AskedMoves
<1>7. profiles' \in [Accounts -> Seq(Requests)]
    <2>1. CASE PutRiskProfile(r)
        <3>1. PICK k \in 1..(Len(profiles[UserOf(r)]) + 1) :
                profiles' = [profiles EXCEPT
                    ![UserOf(r)] = IF Pg THEN InsertAt(profiles[UserOf(r)], k, r) ELSE <<r>>]
            BY <2>1 DEF PutRiskProfile
        <3>2. InsertAt(profiles[UserOf(r)], k, r) \in Seq(Requests)
            <4>1. SubSeq(profiles[UserOf(r)], 1, k - 1) \in Seq(Requests)
                BY <1>4
            <4>2. SubSeq(profiles[UserOf(r)], k, Len(profiles[UserOf(r)])) \in Seq(Requests)
                BY <1>4
            <4> QED
                BY <4>1, <4>2 DEF InsertAt
        <3>3. <<r>> \in Seq(Requests)
            OBVIOUS
        <3> QED
            BY <1>1, <1>3, <3>1, <3>2, <3>3 DEF StoreTypes
    <2>2. CASE ~PutRiskProfile(r)
        BY <1>1, <2>2 DEF GetRiskProfile, AddExchangeConnection, GetExchangeConnection,
                          StoreTypes, accountVars
    <2> QED
        BY <2>1, <2>2
<1>8. connections' \in [Accounts -> Seq(Requests)]
    <2>1. CASE AddExchangeConnection(r)
        <3>1. connections' = [connections EXCEPT
                ![UserOf(r)] = Append(connections[UserOf(r)], r)]
            BY <2>1 DEF AddExchangeConnection
        <3>2. Append(connections[UserOf(r)], r) \in Seq(Requests)
            BY <1>4
        <3> QED
            BY <1>1, <1>3, <3>1, <3>2 DEF StoreTypes
    <2>2. CASE ~AddExchangeConnection(r)
        BY <1>1, <2>2 DEF GetRiskProfile, PutRiskProfile, GetExchangeConnection,
                          StoreTypes, accountVars
    <2> QED
        BY <2>1, <2>2
<1>9. Kept
    BY <1>1, <1>6, ModesKept, FeesKept, KeysKept, TenantsKept DEF TablesInv, Kept, globalVars
<1> QED
    BY <1>1, <1>6, <1>7, <1>8, <1>9 DEF TablesInv, Kept, StoreTypes, Onward, globalVars

(* An upload: memory replaces all rows, Postgres inserts one after another. *)
LEMMA UploadsDiffer ==
    ASSUME NEW r, NEW q, q # r
    PROVE  Upload(q) \intersect Upload(r) = {}
BY DEF Upload

(* put_fee_schedules.                                                      *)
LEMMA PutFeesKeeps ==
    ASSUME TablesInv, NEW r \in Requests, PutFeeSchedules(r)
    PROVE  TablesInv'
<1>1. /\ requests[r].at = "asked" /\ requests[r].ask.op = "put_fee_schedules"
      /\ StoreTypes /\ UNCHANGED <<tables, accountVars, strategies, tenants>>
      /\ requests[r].step = 0
    BY DEF PutFeeSchedules, Asked, TablesInv, OpsInv, OpAt
<1>2. PICK at \in {"rows", "done"} :
            /\ Goto(r, at) /\ (at = "rows" <=> Pg)
            /\ fees' = IF Pg THEN fees ELSE Upload(r)
    BY DEF PutFeeSchedules
<1>3. /\ Onward(r) /\ OpsInv' /\ requests'[r].at = at /\ requests'[r].saw = requests[r].saw
      /\ requests'[r].ask = requests[r].ask
    BY <1>1, <1>2, GotoIsSaw, AskedMoves
<1>4. StoreTypes'
    BY <1>1, <1>3 DEF StoreTypes, Onward, accountVars
<1>5. ModesInv' /\ KeysInv' /\ TenantsInv'
    BY <1>1, <1>2, <1>3, ModesKept, KeysKept, TenantsKept DEF TablesInv, accountVars
<1>6. \A q \in Requests : UploadOK(q)
    BY DEF TablesInv, FeesInv
<1>7. ASSUME NEW q \in Requests
      PROVE  UploadOK(q)'
    <2>1. CASE Pg /\ q # r
        BY <1>1, <1>2, <1>3, <1>6, <2>1 DEF UploadOK, Onward, Upload, Pg
    <2>2. CASE Pg /\ q = r
        BY <1>1, <1>2, <1>3, <1>6, <2>2 DEF UploadOK, Onward, Upload, Pg
    <2>3. CASE ~Pg /\ q = r
        BY <1>2, <1>3, <2>3 DEF UploadOK, Upload, Pg
    <2>4. CASE ~Pg /\ q # r
        <3>1. Upload(q) \intersect fees' = {}
            BY <1>2, <2>4, UploadsDiffer
        <3>2. requests'[q] = requests[q]
            BY <1>3, <2>4 DEF Onward
        <3> QED
            BY <1>1, <1>6, <2>4, <3>1, <3>2 DEF UploadOK, Upload, Pg
    <2> QED
        BY <2>1, <2>2, <2>3, <2>4
<1>8. FeesInv'
    BY <1>7 DEF FeesInv
<1> QED
    BY <1>3, <1>4, <1>5, <1>8 DEF TablesInv

(* The next row of an upload.                                              *)
LEMMA InsertFeeKeeps ==
    ASSUME TablesInv, NEW r \in Requests, InsertFeeRow(r)
    PROVE  TablesInv'
<1> DEFINE k == requests[r].step + 1
           at == IF k = FeeRows THEN "done" ELSE "rows"
<1>1. /\ requests[r].at = "rows" /\ requests[r].ask.op = "put_fee_schedules"
      /\ requests[r].ask \in Asks /\ Pg /\ StoreTypes
      /\ UNCHANGED <<tables, accountVars, strategies, tenants>>
      /\ fees' = fees \union {<<r, k>>} /\ Inserted(r, k, at)
    BY DEF InsertFeeRow, TablesInv, OpsInv, OpAt
<1>2. requests[r].step \in Nat /\ requests[r].saw \in SUBSET (Requests \union AllKeys)
    BY <1>1 DEF StoreTypes, RequestType
<1>3. at \in Places /\ k \in Nat
    BY <1>2 DEF Places
<1>4. /\ requests' \in [Requests -> RequestType]
      /\ \A q \in Requests \ {r} : requests'[q] = requests[q]
      /\ requests'[r].ask = requests[r].ask /\ requests'[r].at = at
      /\ requests'[r].step = k /\ requests'[r].saw = requests[r].saw
    <2> HIDE DEF k, at
    <2> QED
        BY <1>1, <1>2, <1>3, MovesTo DEF Inserted
<1>5. OpsInv'
    <2>1. OpAt(requests[r])'
        BY <1>1, <1>4 DEF OpAt, Pg
    <2> QED
        BY <1>1, <1>4, <2>1 DEF TablesInv, OpsInv, OpAt, Pg
<1>6. StoreTypes'
    BY <1>1, <1>4 DEF StoreTypes, accountVars
<1>7. ModesInv'
    BY <1>1, <1>4 DEF TablesInv, ModesInv, ModeGated, Permitted, ArgOf, UserOf, accountVars
<1>8. TenantsInv'
    BY <1>1, <1>4 DEF TablesInv, TenantsInv, TenantsUnique, Rows, ArgOf
<1>9. KeysInv'
    <2>1. \A q \in Requests : Lists(q)' = Lists(q)
        BY <1>4 DEF Lists
    <2>2. ~Lists(r)
        BY <1>1 DEF Lists
    <2>3. StrategiesWhole'
        BY <1>1, <1>4, <2>1, <2>2 DEF TablesInv, KeysInv, StrategiesWhole, Lists
    <2> QED
        BY <1>1, <1>4, <2>1, <2>2, <2>3 DEF TablesInv, KeysInv
<1>10. UploadOK(r)'
    <2>1. requests[r].step < FeeRows
          /\ fees \intersect Upload(r) = {<<r, n>> : n \in 1..requests[r].step}
        <3>1. UploadOK(r) /\ FeeRows \in Nat
            BY TablesAssumption DEF TablesInv, FeesInv
        <3>2. CASE Upload(r) \intersect fees = {} /\ requests[r].step = 0
            BY <3>1, <3>2, TablesAssumption
        <3> QED
            BY <1>1, <3>1, <3>2 DEF UploadOK
    <2>2. <<r, k>> \in Upload(r) /\ FeeRows \in Nat
        BY <1>2, <2>1, TablesAssumption DEF Upload
    <2>3. fees' \intersect Upload(r) = {<<r, n>> : n \in 1..k}
        BY <1>1, <1>2, <2>1, <2>2
    <2>4. CASE k = FeeRows
        <3>1. Upload(r) \subseteq fees'
            BY <2>3, <2>4 DEF Upload
        <3> QED
            BY <1>4, <2>4, <3>1 DEF UploadOK, Upload
    <2>5. CASE k # FeeRows
        <3>1. k < FeeRows
            BY <1>2, <2>1, <2>2, <2>5
        <3> QED
            BY <1>1, <1>4, <2>3, <2>5, <3>1 DEF UploadOK, Upload, Pg
    <2> QED
        BY <2>4, <2>5
<1>11. ASSUME NEW q \in Requests, q # r
       PROVE  UploadOK(q)'
    <2>1. UploadOK(q) /\ requests'[q] = requests[q]
        BY <1>4, <1>11 DEF TablesInv, FeesInv
    <2>2. fees' \intersect Upload(q) = fees \intersect Upload(q)
        BY <1>1, <1>11 DEF Upload
    <2>3. Upload(q) \subseteq fees => Upload(q) \subseteq fees'
        BY <1>1
    <2> QED
        BY <1>1, <2>1, <2>2, <2>3 DEF UploadOK, Upload, Pg
<1> QED
    BY <1>5, <1>6, <1>7, <1>8, <1>9, <1>10, <1>11 DEF TablesInv, FeesInv

(* A listing: an empty table is to be seeded, a partial one is another     *)
(* request's doing.                                                        *)
LEMMA ListKeeps ==
    ASSUME TablesInv, NEW r \in Requests, ListStrategies(r)
    PROVE  TablesInv'
<1> DEFINE at == IF strategies = {} THEN "seed" ELSE "done"
<1>1. /\ requests[r].at = "asked" /\ requests[r].ask.op = "list_strategies" /\ StoreTypes
      /\ UNCHANGED <<tables, accountVars, globalVars>> /\ Saw(r, at, strategies)
      /\ requests[r].step = 0
    BY DEF ListStrategies, Asked, TablesInv, OpsInv, OpAt
<1>2. strategies \in SUBSET (Requests \union AllKeys) /\ at \in {"seed", "done"}
    BY <1>1 DEF StoreTypes
<1>3. /\ Onward(r) /\ OpsInv' /\ requests'[r].at = at /\ requests'[r].saw = strategies
      /\ requests'[r].ask = requests[r].ask
    <2> HIDE DEF at
    <2> QED
        BY <1>1, <1>2, AskedMoves
<1>4. StoreTypes'
    BY <1>1, <1>3 DEF StoreTypes, Onward, accountVars, globalVars
<1>5. ModesInv' /\ FeesInv' /\ TenantsInv'
    BY <1>1, <1>3, ModesKept, FeesKept, TenantsKept DEF TablesInv, accountVars, globalVars
<1>6. \A q \in Requests : Lists(q)' = Lists(q) /\ requests'[q].step = requests[q].step
    BY <1>1, <1>3 DEF Lists, Onward
<1>7. (strategies \in {{}, AllKeys} \/ \E q \in Requests :
            Lists(q) /\ requests[q].at \in {"seed", "cut"})'
    <2>1. \A q \in Requests : requests[q].at \in {"seed", "cut"} =>
            requests'[q].at \in {"seed", "cut"}
        BY <1>1, <1>3 DEF Onward
    <2> QED
        BY <1>1, <1>6, <2>1 DEF TablesInv, KeysInv, StrategiesWhole, Lists, globalVars
<1>8. ASSUME NEW q \in Requests, Lists(q)', requests'[q].saw \notin {{}, AllKeys}
      PROVE  \E p \in Requests \ {q} : Lists(p)' /\ requests'[p].step > 0
    <2>1. CASE q = r
        <3>1. PICK p \in Requests : Lists(p) /\ requests[p].step > 0
            BY <1>3, <1>8, <2>1 DEF TablesInv, KeysInv
        <3>2. p # r
            BY <1>1, <3>1
        <3> QED
            BY <1>6, <2>1, <3>1, <3>2
    <2>2. CASE q # r
        BY <1>3, <1>6, <1>8, <2>2 DEF TablesInv, KeysInv, StrategiesWhole, Lists, Onward
    <2> QED
        BY <2>1, <2>2
<1>9. (strategies \notin {{}, AllKeys} => \E q \in Requests : Lists(q) /\ requests[q].step > 0)'
    BY <1>1, <1>6 DEF TablesInv, KeysInv, globalVars
<1>10. ASSUME NEW q \in Requests, requests'[q].at = "seed"
       PROVE  (/\ requests[q].saw = {} /\ requests[q].step < Len(StrategyKeys)
               /\ {StrategyKeys[k] : k \in 1..requests[q].step} \subseteq strategies)'
    <2>1. CASE q = r
        <3>1. Len(StrategyKeys) \in Nat /\ Len(StrategyKeys) # 0
            BY TablesAssumption
        <3>2. requests'[r].saw = {} /\ requests'[r].step = 0
            BY <1>1, <1>3, <1>6, <1>10, <2>1
        <3> QED
            BY <2>1, <3>1, <3>2
    <2>2. CASE q # r
        BY <1>1, <1>3, <1>10, <2>2 DEF TablesInv, KeysInv, Onward, globalVars
    <2> QED
        BY <2>1, <2>2
<1>11. KeysInv'
    BY <1>7, <1>8, <1>9, <1>10 DEF KeysInv, StrategiesWhole, Lists
<1> QED
    BY <1>3, <1>4, <1>5, <1>11 DEF TablesInv

(* The next strategy of a seeding; the last one completes the table.       *)
LEMMA SeedKeeps ==
    ASSUME TablesInv, NEW r \in Requests, SeedStrategy(r)
    PROVE  TablesInv'
<1> DEFINE k == requests[r].step + 1
           at == IF k = Len(StrategyKeys) THEN "done" ELSE "seed"
<1>1. /\ requests[r].at = "seed" /\ requests[r].ask.op = "list_strategies"
      /\ requests[r].ask \in Asks /\ StoreTypes
      /\ UNCHANGED <<tables, accountVars, fees, tenants>>
      /\ strategies' = strategies \union {StrategyKeys[k]} /\ Inserted(r, k, at)
    BY DEF SeedStrategy, TablesInv, OpsInv, OpAt
<1>2. requests[r].step \in Nat /\ requests[r].saw \in SUBSET (Requests \union AllKeys)
    BY <1>1 DEF StoreTypes, RequestType
<1>3. /\ at \in Places /\ k \in Nat \ {0} /\ Len(StrategyKeys) \in Nat
      /\ AllKeys = {StrategyKeys[n] : n \in 1..Len(StrategyKeys)}
    BY <1>2, TablesAssumption DEF Places, AllKeys, ToSet
<1>4. /\ requests[r].saw = {} /\ k <= Len(StrategyKeys)
      /\ {StrategyKeys[n] : n \in 1..requests[r].step} \subseteq strategies
    BY <1>1, <1>2, <1>3 DEF TablesInv, KeysInv
<1>5. /\ requests' \in [Requests -> RequestType]
      /\ \A q \in Requests \ {r} : requests'[q] = requests[q]
      /\ requests'[r].ask = requests[r].ask /\ requests'[r].at = at
      /\ requests'[r].step = k /\ requests'[r].saw = {}
    <2> HIDE DEF k, at
    <2> QED
        BY <1>1, <1>2, <1>3, <1>4, MovesTo DEF Inserted
<1>6. OpsInv'
    <2>1. OpAt(requests[r])'
        BY <1>1, <1>5 DEF OpAt, Pg
    <2> QED
        BY <1>1, <1>5, <2>1 DEF TablesInv, OpsInv, OpAt, Pg
<1>7. StrategyKeys[k] \in AllKeys
    BY <1>3, <1>4
<1>8. StoreTypes'
    BY <1>1, <1>5, <1>7 DEF StoreTypes, accountVars
<1>9. ModesInv'
    BY <1>1, <1>5 DEF TablesInv, ModesInv, ModeGated, Permitted, ArgOf, UserOf, accountVars
<1>10. TenantsInv'
    BY <1>1, <1>5 DEF TablesInv, TenantsInv, TenantsUnique, Rows, ArgOf
<1>11. FeesInv'
    <2>1. UploadOK(r)'
        <3>1. UploadOK(r)
            BY DEF TablesInv, FeesInv
        <3>2. Upload(r) \intersect fees = {}
            BY <1>1, <3>1 DEF UploadOK
        <3> QED
            BY <1>1, <1>5, <3>2 DEF UploadOK, Upload
    <2>2. ASSUME NEW q \in Requests, q # r
          PROVE  UploadOK(q)'
        BY <1>1, <1>5, <2>2 DEF TablesInv, FeesInv, UploadOK, Upload, Pg
    <2> QED
        BY <2>1, <2>2 DEF FeesInv
<1>12. {StrategyKeys[n] : n \in 1..k} \subseteq strategies'
    BY <1>1, <1>2, <1>4
<1>13. \A q \in Requests : Lists(q)' = Lists(q)
    BY <1>5 DEF Lists
<1>14. \A q \in Requests : requests[q].step > 0 => requests'[q].step > 0
    BY <1>3, <1>5
<1>15. (strategies \in {{}, AllKeys} \/ \E q \in Requests :
            Lists(q) /\ requests[q].at \in {"seed", "cut"})'
    <2>1. CASE k = Len(StrategyKeys)
        <3>1. strategies' = AllKeys
            BY <1>3, <1>8, <1>12, <2>1 DEF StoreTypes
        <3> QED
            BY <3>1
    <2>2. CASE k # Len(StrategyKeys)
        BY <1>1, <1>5, <2>2 DEF Lists
    <2> QED
        BY <2>1, <2>2
<1>16. ASSUME NEW q \in Requests, Lists(q)', requests'[q].saw \notin {{}, AllKeys}
       PROVE  \E p \in Requests \ {q} : Lists(p)' /\ requests'[p].step > 0
    BY <1>5, <1>13, <1>14, <1>16 DEF TablesInv, KeysInv, StrategiesWhole, Lists
<1>17. (\E q \in Requests : Lists(q) /\ requests[q].step > 0)'
    BY <1>1, <1>3, <1>5 DEF Lists
<1>18. ASSUME NEW q \in Requests, requests'[q].at = "seed"
       PROVE  (/\ requests[q].saw = {} /\ requests[q].step < Len(StrategyKeys)
               /\ {StrategyKeys[n] : n \in 1..requests[q].step} \subseteq strategies)'
    <2>1. CASE q = r
        <3>1. k < Len(StrategyKeys)
            BY <1>3, <1>4, <1>5, <1>18, <2>1
        <3> QED
            BY <1>5, <1>12, <2>1, <3>1
    <2>2. CASE q # r
        BY <1>1, <1>5, <1>18, <2>2 DEF TablesInv, KeysInv
    <2> QED
        BY <2>1, <2>2
<1>19. KeysInv'
    BY <1>15, <1>16, <1>17, <1>18 DEF KeysInv, StrategiesWhole, Lists
<1> QED
    BY <1>6, <1>8, <1>9, <1>10, <1>11, <1>19 DEF TablesInv

(* A new row for an id that had none.                                      *)
LEMMA RowAdded ==
    ASSUME TablesInv, NEW r \in Requests, Rows(ArgOf(r)) = {},
           requests[r].ask.op = "provision", requests'[r].ask = requests[r].ask,
           \A q \in Requests \ {r} : requests'[q] = requests[q],
           requests'[r].saw = {r}, tenants' = tenants \union {Row(r)}
    PROVE  TenantsInv'
<1>1. Row(r).external = ArgOf(r) /\ Row(r).token = r
    BY DEF Row
<1>2. \A t \in tenants : t.external # ArgOf(r)
    BY DEF Rows
<1>3. \A t, u \in tenants' : t.external = u.external => t = u
    BY <1>1, <1>2 DEF TablesInv, TenantsInv, TenantsUnique
<1>4. Rows(ArgOf(r))' = {Row(r)}
    BY <1>1, <1>2 DEF Rows, ArgOf
<1>5. ASSUME NEW q \in Requests, requests'[q].ask.op = "provision", requests'[q].at = "done"
      PROVE  (/\ requests[q].saw = {t.token : t \in Rows(ArgOf(q))}
              /\ Rows(ArgOf(q)) # {})'
    <2>1. CASE q = r
        BY <1>1, <1>4, <2>1
    <2>2. CASE q # r
        <3>1. requests'[q] = requests[q] /\ ArgOf(q)' = ArgOf(q)
            BY <2>2 DEF ArgOf
        <3>2. requests[q].saw = {t.token : t \in Rows(ArgOf(q))} /\ Rows(ArgOf(q)) # {}
            BY <1>5, <3>1 DEF TablesInv, TenantsInv, TenantsUnique
        <3>3. Rows(ArgOf(q))' = Rows(ArgOf(q))
            BY <1>1, <3>1, <3>2 DEF Rows
        <3> QED
            BY <3>1, <3>2, <3>3
    <2> QED
        BY <2>1, <2>2
<1> QED
    BY <1>3, <1>5 DEF TenantsInv, TenantsUnique

(* provision_tenant: the token that is there, or one that is inserted.     *)
LEMMA ProvisionKeeps ==
    ASSUME TablesInv, NEW r \in Requests, ProvisionTenant(r)
    PROVE  TablesInv'
<1>1. /\ requests[r].at = "asked" /\ requests[r].ask.op = "provision" /\ StoreTypes
      /\ UNCHANGED <<tables, accountVars, fees, strategies>>
    BY DEF ProvisionTenant, Asked, TablesInv
<1>2. requests[r].ask \in Asks
    BY <1>1 DEF TablesInv, OpsInv, OpAt
<1>3. ArgOf(r) \in Externals /\ Row(r) \in TenantType
    BY <1>1, <1>2, AsksAre DEF ArgOf, Row, TenantType
<1>4. CASE Rows(ArgOf(r)) # {}
    <2> DEFINE seen == {t.token : t \in Rows(ArgOf(r))}
    <2>1. seen \in SUBSET (Requests \union AllKeys)
        BY <1>1 DEF StoreTypes, TenantType, Rows
    <2>2. Saw(r, "done", seen) /\ UNCHANGED tenants
        BY <1>4 DEF ProvisionTenant
    <2>3. /\ Onward(r) /\ OpsInv' /\ requests'[r].at = "done" /\ requests'[r].saw = seen
          /\ requests'[r].ask = requests[r].ask
        BY <1>1, <2>1, <2>2, AskedMoves
    <2>4. TenantsInv'
        <3>1. ASSUME NEW q \in Requests, requests'[q].ask.op = "provision",
                     requests'[q].at = "done"
              PROVE  (/\ requests[q].saw = {t.token : t \in Rows(ArgOf(q))}
                      /\ Rows(ArgOf(q)) # {})'
            <4>1. ArgOf(q)' = ArgOf(q) /\ Rows(ArgOf(q))' = Rows(ArgOf(q))
                BY <2>2, <2>3 DEF ArgOf, Rows, Onward
            <4>2. q # r => requests'[q] = requests[q]
                BY <2>3 DEF Onward
            <4> QED
                BY <1>4, <2>3, <3>1, <4>1, <4>2 DEF TablesInv, TenantsInv, TenantsUnique
        <3> QED
            BY <2>2, <3>1 DEF TablesInv, TenantsInv, TenantsUnique
    <2>5. ModesInv' /\ FeesInv' /\ KeysInv'
        BY <1>1, <2>3, ModesKept, FeesKept, KeysKept DEF TablesInv, accountVars
    <2>6. StoreTypes'
        BY <1>1, <2>2, <2>3 DEF StoreTypes, Onward, accountVars
    <2> QED
        BY <2>3, <2>4, <2>5, <2>6 DEF TablesInv
<1>5. CASE Rows(ArgOf(r)) = {} /\ Pg
    <2>1. Goto(r, "insert") /\ UNCHANGED tenants
        BY <1>5 DEF ProvisionTenant
    <2>2. /\ Onward(r) /\ OpsInv' /\ requests'[r].at = "insert"
          /\ requests'[r].saw = requests[r].saw /\ requests'[r].ask = requests[r].ask
        BY <1>1, <1>5, <2>1, GotoIsSaw, AskedMoves
    <2>3. ModesInv' /\ FeesInv' /\ KeysInv' /\ TenantsInv'
        BY <1>1, <2>1, <2>2, ModesKept, FeesKept, KeysKept, TenantsKept
           DEF TablesInv, accountVars
    <2>4. StoreTypes'
        BY <1>1, <2>1, <2>2 DEF StoreTypes, Onward, accountVars
    <2> QED
        BY <2>2, <2>3, <2>4 DEF TablesInv
<1>6. CASE Rows(ArgOf(r)) = {} /\ ~Pg
    <2>1. Saw(r, "done", {r}) /\ tenants' = tenants \union {Row(r)}
        BY <1>6 DEF ProvisionTenant
    <2>2. /\ Onward(r) /\ OpsInv' /\ requests'[r].at = "done" /\ requests'[r].saw = {r}
          /\ requests'[r].ask = requests[r].ask
        BY <1>1, <2>1, AskedMoves
    <2>3. TenantsInv'
        BY <1>1, <1>6, <2>1, <2>2, RowAdded DEF Onward
    <2>4. ModesInv' /\ FeesInv' /\ KeysInv'
        BY <1>1, <2>2, ModesKept, FeesKept, KeysKept DEF TablesInv, accountVars
    <2>5. StoreTypes'
        BY <1>1, <1>3, <2>1, <2>2 DEF StoreTypes, Onward, accountVars
    <2> QED
        BY <2>2, <2>3, <2>4, <2>5 DEF TablesInv
<1> QED
    BY <1>4, <1>5, <1>6

(* The insert: the constraint lets one of two through.                     *)
LEMMA InsertTenantKeeps ==
    ASSUME TablesInv, NEW r \in Requests, InsertTenant(r)
    PROVE  TablesInv'
<1>1. /\ requests[r].at = "insert" /\ StoreTypes /\ OpAt(requests[r])
      /\ UNCHANGED <<tables, accountVars, fees, strategies>>
    BY DEF InsertTenant, TablesInv, OpsInv
<1>2. requests[r].ask \in Asks /\ requests[r].ask.op = "provision"
    BY <1>1 DEF OpAt
<1>3. ArgOf(r) \in Externals /\ Row(r) \in TenantType
    BY <1>2, AsksAre DEF ArgOf, Row, TenantType
<1>4. PICK at \in {"raised", "done"}, seen \in SUBSET (Requests \union AllKeys) :
            /\ Saw(r, at, seen)
            /\ at = "raised" => seen = requests[r].saw /\ tenants' = tenants
            /\ at = "done" => /\ seen = {r} /\ Rows(ArgOf(r)) = {}
                              /\ tenants' = tenants \union {Row(r)}
    <2>1. CASE Rows(ArgOf(r)) # {}
        BY <1>1, <2>1, GotoIsSaw DEF InsertTenant
    <2>2. CASE Rows(ArgOf(r)) = {}
        <3>1. {r} \in SUBSET (Requests \union AllKeys)
            OBVIOUS
        <3> QED
            BY <2>2, <3>1 DEF InsertTenant
    <2> QED
        BY <2>1, <2>2
<1>5. /\ requests' \in [Requests -> RequestType]
      /\ \A q \in Requests \ {r} : requests'[q] = requests[q]
      /\ requests'[r].ask = requests[r].ask /\ requests'[r].at = at
      /\ requests'[r].step = requests[r].step /\ requests'[r].saw = seen
    BY <1>1, <1>4, SawMoves DEF Places
<1>6. Onward(r) /\ OpAt(requests[r])'
    BY <1>1, <1>2, <1>5 DEF Onward, OpAt
<1>7. TenantsInv'
    <2>1. CASE at = "done"
        BY <1>2, <1>4, <1>5, <2>1, RowAdded
    <2>2. CASE at = "raised"
        BY <1>4, <1>5, <1>6, <2>2, TenantsKept DEF TablesInv
    <2> QED
        BY <2>1, <2>2
<1>8. ModesInv' /\ FeesInv' /\ KeysInv'
    BY <1>1, <1>2, <1>5, <1>6, ModesKept, FeesKept, KeysKept DEF TablesInv, accountVars
<1>9. StoreTypes'
    BY <1>1, <1>3, <1>4, <1>5 DEF StoreTypes, accountVars
<1> QED
    BY <1>6, <1>7, <1>8, <1>9, OpsKept DEF TablesInv

(* A status changes, a token never does.                                   *)
LEMMA SetStatusKeeps ==
    ASSUME TablesInv, NEW r \in Requests, SetTenantStatus(r)
    PROVE  TablesInv'
<1> DEFINE Changed(t) == IF t.external = ArgOf(r)
                     THEN [t EXCEPT !.status = requests[r].ask.status] ELSE t
<1>1. /\ requests[r].at = "asked" /\ requests[r].ask.op = "set_status" /\ StoreTypes
      /\ UNCHANGED <<tables, accountVars, fees, strategies>>
      /\ Goto(r, "done") /\ tenants' = {Changed(t) : t \in tenants}
    BY DEF SetTenantStatus, Asked, TablesInv
<1>2. /\ Onward(r) /\ OpsInv' /\ requests[r].ask \in Asks /\ requests'[r].at = "done"
      /\ requests'[r].saw = requests[r].saw /\ requests'[r].ask = requests[r].ask
    BY <1>1, GotoIsSaw, AskedMoves
<1>3. requests[r].ask.status \in {"active", "paused"}
    BY <1>1, <1>2, AsksAre DEF Statuses
<1>4. \A t \in tenants : /\ Changed(t) \in TenantType
                         /\ Changed(t).external = t.external /\ Changed(t).token = t.token
    BY <1>1, <1>3 DEF StoreTypes, TenantType
<1> HIDE DEF Changed
<1>5. tenants' \subseteq TenantType
    BY <1>1, <1>4
<1>6. \A t, u \in tenants' : t.external = u.external => t = u
    BY <1>1, <1>4 DEF TablesInv, TenantsInv, TenantsUnique
<1>7. ASSUME NEW q \in Requests, requests'[q].ask.op = "provision", requests'[q].at = "done"
      PROVE  (/\ requests[q].saw = {t.token : t \in Rows(ArgOf(q))}
              /\ Rows(ArgOf(q)) # {})'
    <2>1. requests'[q] = requests[q] /\ ArgOf(q)' = ArgOf(q)
        BY <1>1, <1>2, <1>7 DEF Onward, ArgOf
    <2>2. requests[q].saw = {t.token : t \in Rows(ArgOf(q))} /\ Rows(ArgOf(q)) # {}
        BY <1>7, <2>1 DEF TablesInv, TenantsInv, TenantsUnique
    <2>3. Rows(ArgOf(q))' = {Changed(t) : t \in Rows(ArgOf(q))}
        BY <1>1, <1>4, <2>1 DEF Rows
    <2>4. \A t \in Rows(ArgOf(q)) : t \in tenants
        BY DEF Rows
    <2>5. {t.token : t \in Rows(ArgOf(q))'} = {t.token : t \in Rows(ArgOf(q))}
        BY <1>4, <2>3, <2>4
    <2> QED
        BY <2>1, <2>2, <2>3, <2>5
<1>8. TenantsInv'
    BY <1>6, <1>7 DEF TenantsInv, TenantsUnique
<1>9. ModesInv' /\ FeesInv' /\ KeysInv'
    BY <1>1, <1>2, ModesKept, FeesKept, KeysKept DEF TablesInv, accountVars
<1>10. StoreTypes'
    BY <1>1, <1>2, <1>5 DEF StoreTypes, Onward, accountVars
<1> QED
    BY <1>2, <1>8, <1>9, <1>10 DEF TablesInv

-----------------------------------------------------------------------------
(* The tables start empty, but for the strategies in memory.               *)
LEMMA TablesStart == TablesInit => TablesInv
<1> SUFFICES ASSUME TablesInit
             PROVE  TablesInv
    OBVIOUS
<1>1. StoreTypes
    <2>1. New \in RequestType /\ <<>> \in Seq(Requests)
        BY DEF New, RequestType, Places
    <2> QED
        BY <2>1 DEF TablesInit, StoreTypes, Modes
<1>2. \A r \in Requests : requests[r] = New
    BY DEF TablesInit
<1>3. New.at = "new" /\ New.step = 0 /\ New.saw = {} /\ New.ask.op = "none"
    BY DEF New, NotAsked
<1>4. OpsInv /\ ModesInv
    BY <1>2, <1>3 DEF OpsInv, OpAt, ModesInv, ModeGated, TablesInit
<1>5. FeesInv
    BY <1>2, <1>3 DEF FeesInv, UploadOK, TablesInit
<1>6. KeysInv
    BY <1>2, <1>3 DEF KeysInv, StrategiesWhole, Lists, TablesInit
<1>7. TenantsInv
    BY <1>2, <1>3 DEF TenantsInv, TenantsUnique, TablesInit
<1> QED
    BY <1>1, <1>4, <1>5, <1>6, <1>7 DEF TablesInv

(* Every step keeps the invariant.                                         *)
LEMMA TablesStep == TablesInv /\ [TablesNext]_tablesVars => TablesInv'
<1> SUFFICES ASSUME TablesInv, [TablesNext]_tablesVars
             PROVE  TablesInv'
    OBVIOUS
<1>1. CASE UNCHANGED tablesVars
    <2>1. StoreTypes' /\ OpsInv'
        BY <1>1 DEF TablesInv, StoreTypes, OpsInv, OpAt, Pg, tablesVars, accountVars, globalVars
    <2>2. ModesInv' /\ FeesInv'
        BY <1>1 DEF TablesInv, ModesInv, ModeGated, Permitted, ArgOf, UserOf, FeesInv, UploadOK,
                    Upload, Pg, tablesVars, accountVars, globalVars
    <2>3. KeysInv' /\ TenantsInv'
        BY <1>1 DEF TablesInv, KeysInv, StrategiesWhole, Lists, TenantsInv, TenantsUnique, Rows,
                    ArgOf, tablesVars, globalVars
    <2> QED
        BY <2>1, <2>2, <2>3 DEF TablesInv
<1>2. CASE TablesNext
    <2>1. PICK r \in Requests :
            \/ Ask(r) \/ Refuse(r) \/ Cut(r)
            \/ SetMode(r) \/ WriteMode(r) \/ Unlock(r)
            \/ PutRiskProfile(r) \/ GetRiskProfile(r)
            \/ AddExchangeConnection(r) \/ GetExchangeConnection(r)
            \/ PutFeeSchedules(r) \/ InsertFeeRow(r) \/ ListStrategies(r) \/ SeedStrategy(r)
            \/ ProvisionTenant(r) \/ InsertTenant(r) \/ SetTenantStatus(r)
        BY <1>2 DEF TablesNext
    <2>2. CASE Ask(r) \/ Refuse(r) \/ Cut(r)
        BY <2>2, AskKeeps
    <2>3. CASE SetMode(r) \/ WriteMode(r) \/ Unlock(r)
        BY <2>3, SetModeKeeps, WriteModeKeeps, UnlockKeeps
    <2>4. CASE \/ PutRiskProfile(r) \/ GetRiskProfile(r)
               \/ AddExchangeConnection(r) \/ GetExchangeConnection(r)
        BY <2>4, ProfilesKeep
    <2>5. CASE PutFeeSchedules(r) \/ InsertFeeRow(r)
        BY <2>5, PutFeesKeeps, InsertFeeKeeps
    <2>6. CASE ListStrategies(r) \/ SeedStrategy(r)
        BY <2>6, ListKeeps, SeedKeeps
    <2>7. CASE ProvisionTenant(r) \/ InsertTenant(r) \/ SetTenantStatus(r)
        BY <2>7, ProvisionKeeps, InsertTenantKeeps, SetStatusKeeps
    <2> QED
        BY <2>1, <2>2, <2>3, <2>4, <2>5, <2>6, <2>7
<1> QED
    BY <1>1, <1>2

(* No one trades semi-auto who is not unlocked, and no one full-auto,      *)
(* though the gate is read in one transaction and the mode written in      *)
(* another.                                                                *)
THEOREM ModesAreGated == TablesSpec => []ModeGated
<1>1. TablesInv => ModeGated
    BY DEF TablesInv, ModesInv
<1> QED
    BY <1>1, TablesStart, TablesStep, PTL DEF TablesSpec

(* The shared tables: an upload is whole but for one that runs or was cut, *)
(* the strategies too, and an external id has one tenant and one token.    *)
THEOREM TablesAreWhole == TablesSpec => []TablesWhole
<1>1. TablesInv => FeesWhole
    <2> SUFFICES ASSUME TablesInv, NEW r \in Requests, Upload(r) \intersect fees # {}
                 PROVE  \/ Upload(r) \subseteq fees
                        \/ /\ Pg /\ requests[r].at \in {"rows", "cut"}
                           /\ fees \intersect Upload(r)
                                = {<<r, k>> : k \in 1..requests[r].step}
        BY DEF FeesWhole
    <2>1. UploadOK(r)
        BY DEF TablesInv, FeesInv
    <2> QED
        BY <2>1 DEF UploadOK
<1>2. TablesInv => StrategiesWhole /\ TenantsUnique
    BY DEF TablesInv, KeysInv, TenantsInv
<1>3. TablesInv => TablesWhole
    BY <1>1, <1>2 DEF TablesWhole
<1> QED
    BY <1>3, TablesStart, TablesStep, PTL DEF TablesSpec

-----------------------------------------------------------------------------
(* The registry.  A request that moves leaves the answers of the others;   *)
(* the step that writes a mode, answers a provisioning or changes a tenant *)
(* is the step of the registry, and all others leave it alone.             *)

(* What moves in a step of a request.                                      *)
Alone(r) ==
    /\ \A q \in Requests \ {r} : requests'[q] = requests[q]
    /\ requests[r].at # "done"

(* A request that moves has its new place, and no other moves.             *)
LEMMA MovesAlone ==
    ASSUME StoreTypes, NEW r \in Requests, NEW at, NEW step, NEW saw, Moves(r, at, step, saw)
    PROVE  /\ \A q \in Requests \ {r} : requests'[q] = requests[q]
           /\ requests'[r].ask = requests[r].ask /\ requests'[r].at = at
           /\ requests'[r].saw = saw
<1> DEFINE w == [ask |-> requests[r].ask, at |-> at, step |-> step, saw |-> saw]
<1>1. requests' = [requests EXCEPT ![r] = w] /\ DOMAIN requests = Requests
    BY DEF Moves, StoreTypes
<1>2. w.ask = requests[r].ask /\ w.at = at /\ w.saw = saw
    OBVIOUS
<1> HIDE DEF w
<1> QED
    BY <1>1, <1>2

(* A step that answers no provisioning leaves the answers.                 *)
LEMMA AnswersStay ==
    ASSUME NEW r \in Requests, Alone(r),
           requests'[r].ask.op # "provision" \/ requests'[r].at # "done"
    PROVE  AnswerTokens' = AnswerTokens
<1>1. \A q \in Requests :
        (IF requests'[q].ask.op = "provision" /\ requests'[q].at = "done"
         THEN requests'[q].saw ELSE {})
        = (IF requests[q].ask.op = "provision" /\ requests[q].at = "done"
           THEN requests[q].saw ELSE {})
    BY DEF Alone
<1> QED
    BY <1>1 DEF AnswerTokens

(* A step that answers one changes its answer only.                        *)
LEMMA AnswersGrow ==
    ASSUME NEW r \in Requests, Alone(r),
           requests'[r].ask.op = "provision", requests'[r].at = "done"
    PROVE  /\ AnswerTokens' = [AnswerTokens EXCEPT ![r] = requests'[r].saw]
           /\ AnswerTokens[r] = {}
<1>1. \A q \in Requests \ {r} :
        (IF requests'[q].ask.op = "provision" /\ requests'[q].at = "done"
         THEN requests'[q].saw ELSE {})
        = (IF requests[q].ask.op = "provision" /\ requests[q].at = "done"
           THEN requests[q].saw ELSE {})
    BY DEF Alone
<1>2. AnswerTokens[r] = {}
    BY DEF Alone, AnswerTokens
<1> QED
    BY <1>1, <1>2 DEF AnswerTokens

Tokens == [e \in Externals |-> {t.token : t \in Rows(e)}]
StatusesOf == [e \in Externals |-> {t.status : t \in Rows(e)}]

(* The registry is left alone by a step that writes none of it.            *)
LEMMA RegistryStays ==
    ASSUME UNCHANGED <<mode, unlocked, tenants>>, NEW r \in Requests, Alone(r),
           requests'[r].ask.op # "provision" \/ requests'[r].at # "done"
    PROVE  UNCHANGED Registry!vars
<1>1. AnswerTokens' = AnswerTokens
    BY AnswersStay
<1>2. \A e : Rows(e)' = Rows(e)
    BY DEF Rows
<1> QED
    BY <1>1, <1>2 DEF Registry!vars

(* Most steps write none of it.                                            *)
LEMMA OthersStay ==
    ASSUME TablesInv, NEW r \in Requests,
           \/ Ask(r) \/ Refuse(r) \/ Cut(r)
           \/ PutRiskProfile(r) \/ GetRiskProfile(r)
           \/ AddExchangeConnection(r) \/ GetExchangeConnection(r)
           \/ PutFeeSchedules(r) \/ InsertFeeRow(r) \/ ListStrategies(r) \/ SeedStrategy(r)
    PROVE  UNCHANGED Registry!vars
<1>1. StoreTypes /\ OpAt(requests[r])
    BY DEF TablesInv, OpsInv
<1>2. UNCHANGED <<mode, unlocked, tenants>>
    BY DEF Ask, Refuse, Cut, PutRiskProfile, GetRiskProfile, AddExchangeConnection,
           GetExchangeConnection, PutFeeSchedules, InsertFeeRow, ListStrategies, SeedStrategy,
           accountVars, globalVars
<1>3. CASE Ask(r)
    <2>1. PICK a \in Asks : requests' = [requests EXCEPT
            ![r] = [ask |-> a, at |-> "asked", step |-> 0, saw |-> {}]]
        BY <1>3 DEF Ask
    <2>2. Alone(r) /\ requests'[r].at = "asked"
        BY <1>1, <1>3, <2>1 DEF Alone, Ask, StoreTypes
    <2> QED
        BY <1>2, <2>2, RegistryStays
<1>4. CASE Refuse(r) \/ Cut(r)
    <2>1. PICK at \in {"refused", "cut"} :
            Moves(r, at, requests[r].step, requests[r].saw) /\ requests[r].at # "done"
        BY <1>4 DEF Refuse, Cut, Goto
    <2>2. Alone(r) /\ requests'[r].at # "done"
        BY <1>1, <2>1, MovesAlone DEF Alone
    <2> QED
        BY <1>2, <2>2, RegistryStays
<1>5. CASE ~(Ask(r) \/ Refuse(r) \/ Cut(r))
    <2>1. requests[r].ask.op # "provision" /\ requests[r].at # "done"
        BY <1>1, <1>5 DEF PutRiskProfile, GetRiskProfile, AddExchangeConnection,
           GetExchangeConnection, PutFeeSchedules, InsertFeeRow, ListStrategies, SeedStrategy,
           Asked, OpAt
    <2>2. \E at, step, saw : Moves(r, at, step, saw)
        BY <1>5 DEF PutRiskProfile, GetRiskProfile, AddExchangeConnection,
           GetExchangeConnection, PutFeeSchedules, InsertFeeRow, ListStrategies, SeedStrategy,
           Goto, Saw, Inserted
    <2>3. Alone(r) /\ requests'[r].ask = requests[r].ask
        BY <1>1, <2>1, <2>2, MovesAlone DEF Alone
    <2> QED
        BY <1>2, <2>1, <2>3, RegistryStays
<1> QED
    BY <1>3, <1>4, <1>5

(* The modes: what is written is permitted when it is written.             *)
LEMMA ModesStep ==
    ASSUME TablesInv, NEW r \in Requests, SetMode(r) \/ WriteMode(r) \/ Unlock(r)
    PROVE  [Registry!Next]_(Registry!vars)
<1>1. StoreTypes /\ OpAt(requests[r]) /\ requests[r].at # "done"
    BY DEF TablesInv, OpsInv, SetMode, WriteMode, Unlock, Asked
<1>2. requests[r].ask \in Asks /\ requests[r].ask.op \in {"set_mode", "unlock"}
    BY <1>1 DEF SetMode, WriteMode, Unlock, Asked, OpAt
<1>3. UserOf(r) \in Accounts /\ (requests[r].ask.op = "set_mode" => ArgOf(r) \in Modes)
    BY <1>2, AsksAre DEF UserOf, ArgOf
<1>4. UNCHANGED tenants /\ \E at, step, saw : Moves(r, at, step, saw)
    BY DEF SetMode, WriteMode, Unlock, Goto, globalVars
<1>5. Alone(r) /\ requests'[r].ask = requests[r].ask
    BY <1>1, <1>4, MovesAlone DEF Alone
<1>6. AnswerTokens' = AnswerTokens
    BY <1>2, <1>5, AnswersStay
<1>7. \A e : Rows(e)' = Rows(e)
    BY <1>4 DEF Rows
<1>8. CASE UNCHANGED <<mode, unlocked>>
    BY <1>2, <1>4, <1>5, <1>8, RegistryStays
<1>9. CASE Unlock(r)
    <2>1. Registry!Unlock(UserOf(r))
        BY <1>6, <1>7, <1>9 DEF Unlock, Registry!Unlock
    <2> QED
        BY <1>3, <2>1 DEF Registry!Next
<1>10. CASE ~Unlock(r) /\ ~UNCHANGED <<mode, unlocked>>
    <2>1. /\ mode' = [mode EXCEPT ![UserOf(r)] = ArgOf(r)] /\ UNCHANGED unlocked
          /\ Permitted(ArgOf(r), UserOf(r)) /\ requests[r].ask.op = "set_mode"
        BY <1>1, <1>10 DEF SetMode, WriteMode, Asked, TablesInv, ModesInv, OpAt
    <2>2. ArgOf(r) \in {"paper", "semi_auto"}
        BY <1>3, <2>1 DEF Permitted, Modes
    <2>3. Registry!SetMode(UserOf(r), ArgOf(r))
        BY <1>6, <1>7, <2>1 DEF Registry!SetMode, Permitted
    <2> QED
        BY <1>3, <2>2, <2>3 DEF Registry!Next
<1> QED
    BY <1>8, <1>9, <1>10

(* The provisioning that makes a row.                                      *)
LEMMA RowStep ==
    ASSUME TablesInv, NEW r \in Requests, Alone(r), NEW x \in Externals, x = ArgOf(r),
           requests'[r].ask = requests[r].ask, requests[r].ask.op = "provision",
           requests'[r].at = "done", requests'[r].saw = {r}, Rows(x) = {},
           tenants' = tenants \union {Row(r)}, UNCHANGED <<mode, unlocked>>
    PROVE  Registry!Provision(r, x)
<1>1. Row(r).external = x /\ Row(r).token = r /\ Row(r).status = "active"
    BY DEF Row
<1>2. \A e : Rows(e)' = IF e = x THEN {Row(r)} ELSE Rows(e)
    BY <1>1 DEF Rows
<1>3. /\ AnswerTokens' = [AnswerTokens EXCEPT ![r] = {r}] /\ AnswerTokens[r] = {}
    BY AnswersGrow
<1>4. Tokens[x] = {} /\ StatusesOf[x] = {}
    BY DEF Tokens, StatusesOf
<1>5. Tokens' = [Tokens EXCEPT ![x] = {r}]
    <2>1. \A e \in Externals : {t.token : t \in Rows(e)'} = IF e = x THEN {r} ELSE Tokens[e]
        BY <1>1, <1>2 DEF Tokens
    <2>2. Tokens' = [e \in Externals |-> {t.token : t \in Rows(e)'}]
        BY DEF Tokens
    <2> QED
        BY <2>1, <2>2 DEF Tokens
<1>6. StatusesOf' = [StatusesOf EXCEPT ![x] = {"active"}]
    <2>1. \A e \in Externals :
            {t.status : t \in Rows(e)'} = IF e = x THEN {"active"} ELSE StatusesOf[e]
        BY <1>1, <1>2 DEF StatusesOf
    <2>2. StatusesOf' = [e \in Externals |-> {t.status : t \in Rows(e)'}]
        BY DEF StatusesOf
    <2> QED
        BY <2>1, <2>2 DEF StatusesOf
<1>7. Tokens'[x] = {r}
    BY <1>5 DEF Tokens
<1> QED
    BY <1>3, <1>4, <1>5, <1>6, <1>7 DEF Registry!Provision, Tokens, StatusesOf

(* Both ways to answer a provisioning are one step of the registry.        *)
LEMMA ProvisionStep ==
    ASSUME TablesInv, NEW r \in Requests, ProvisionTenant(r) \/ InsertTenant(r)
    PROVE  [Registry!Next]_(Registry!vars)
<1>1. /\ StoreTypes /\ OpAt(requests[r]) /\ requests[r].at # "done"
      /\ UNCHANGED <<mode, unlocked>>
    BY DEF TablesInv, OpsInv, ProvisionTenant, InsertTenant, Asked, accountVars
<1>2. requests[r].ask \in Asks /\ requests[r].ask.op = "provision"
    BY <1>1 DEF ProvisionTenant, InsertTenant, Asked, OpAt
<1>3. PICK x \in Externals : x = ArgOf(r)
    BY <1>2, AsksAre DEF ArgOf
<1>4. \E at, step, saw : Moves(r, at, step, saw)
    BY DEF ProvisionTenant, InsertTenant, Goto, Saw
<1>5. Alone(r) /\ requests'[r].ask = requests[r].ask
    BY <1>1, <1>4, MovesAlone DEF Alone
<1>6. CASE Goto(r, "insert") \/ Goto(r, "raised")
    <2>1. requests'[r].at # "done"
        BY <1>1, <1>6, MovesAlone DEF Goto
    <2>2. UNCHANGED tenants
        <3>1. \A at, saw : Saw(r, at, saw) => requests'[r].at = at
            BY <1>1, MovesAlone DEF Saw
        <3> QED
            BY <2>1, <3>1 DEF ProvisionTenant, InsertTenant
    <2> QED
        BY <1>1, <1>5, <2>1, <2>2, RegistryStays
<1>7. CASE Saw(r, "done", {r}) /\ Rows(x) = {} /\ tenants' = tenants \union {Row(r)}
    <2>1. requests'[r].at = "done" /\ requests'[r].saw = {r}
        BY <1>1, <1>7, MovesAlone DEF Saw
    <2>2. Registry!Provision(r, x)
        BY <1>1, <1>2, <1>3, <1>5, <1>7, <2>1, RowStep
    <2> QED
        BY <1>3, <2>2 DEF Registry!Next
<1>8. CASE /\ Saw(r, "done", {t.token : t \in Rows(x)})
           /\ Rows(x) # {} /\ UNCHANGED tenants
    <2> DEFINE seen == {t.token : t \in Rows(x)}
    <2>1. requests'[r].at = "done" /\ requests'[r].saw = seen
        BY <1>1, <1>8, MovesAlone DEF Saw
    <2>2. /\ AnswerTokens' = [AnswerTokens EXCEPT ![r] = seen] /\ AnswerTokens[r] = {}
        BY <1>2, <1>5, <2>1, AnswersGrow
    <2>3. Tokens' = Tokens /\ StatusesOf' = StatusesOf
        BY <1>8 DEF Tokens, StatusesOf, Rows
    <2>4. Tokens[x] = seen /\ seen # {}
        BY <1>3, <1>8 DEF Tokens
    <2> HIDE DEF seen
    <2>5. Registry!Provision(r, x)
        BY <1>1, <2>2, <2>3, <2>4 DEF Registry!Provision, Tokens, StatusesOf
    <2> QED
        BY <1>3, <2>5 DEF Registry!Next
<1> QED
    BY <1>3, <1>6, <1>7, <1>8 DEF ProvisionTenant, InsertTenant

(* A status is set in one step, or there is no tenant to set it of.        *)
LEMMA StatusStep ==
    ASSUME TablesInv, NEW r \in Requests, SetTenantStatus(r)
    PROVE  [Registry!Next]_(Registry!vars)
<1>0. PICK x \in Externals, s \in Statuses : x = ArgOf(r) /\ s = requests[r].ask.status
    <2>1. requests[r].ask \in Asks /\ requests[r].ask.op = "set_status"
        BY DEF TablesInv, OpsInv, OpAt, SetTenantStatus, Asked
    <2> QED
        BY <2>1, AsksAre DEF ArgOf
<1> DEFINE Changed(t) == IF t.external = x THEN [t EXCEPT !.status = s] ELSE t
<1>1. /\ StoreTypes /\ requests[r].at = "asked" /\ requests[r].ask.op = "set_status"
      /\ Moves(r, "done", requests[r].step, requests[r].saw)
      /\ UNCHANGED <<mode, unlocked>> /\ tenants' = {Changed(t) : t \in tenants}
    BY <1>0 DEF SetTenantStatus, Asked, Goto, TablesInv, accountVars
<1>4. Alone(r) /\ requests'[r].ask = requests[r].ask
    BY <1>1, MovesAlone DEF Alone
<1>5. AnswerTokens' = AnswerTokens
    BY <1>1, <1>4, AnswersStay
<1>6. \A t \in tenants : /\ Changed(t).external = t.external /\ Changed(t).token = t.token
                         /\ Changed(t).status = IF t.external = x THEN s ELSE t.status
    BY <1>1 DEF StoreTypes, TenantType
<1> HIDE DEF Changed
<1>7. \A e : Rows(e)' = {Changed(t) : t \in Rows(e)} /\ Rows(e) \subseteq tenants
    BY <1>1, <1>6 DEF Rows
<1>8. Tokens' = Tokens
    <2>1. \A e \in Externals : {t.token : t \in Rows(e)'} = {t.token : t \in Rows(e)}
        BY <1>6, <1>7
    <2>2. Tokens' = [e \in Externals |-> {t.token : t \in Rows(e)'}]
        BY DEF Tokens
    <2> QED
        BY <2>1, <2>2 DEF Tokens
<1>9. \A e \in Externals : {t.status : t \in Rows(e)'}
                           = IF e = x /\ Rows(x) # {} THEN {s} ELSE StatusesOf[e]
    <2>1. ASSUME NEW e \in Externals
          PROVE  {t.status : t \in Rows(e)'}
                 = IF e = x /\ Rows(x) # {} THEN {s} ELSE {t.status : t \in Rows(e)}
        <3>1. \A t \in Rows(e) : t.external = e /\ t \in tenants
            BY DEF Rows
        <3>2. {t.status : t \in Rows(e)'} = {Changed(t).status : t \in Rows(e)}
            BY <1>7
        <3> QED
            BY <1>6, <3>1, <3>2
    <2> QED
        BY <2>1 DEF StatusesOf
<1>10. StatusesOf' = IF Rows(x) # {} THEN [StatusesOf EXCEPT ![x] = {s}] ELSE StatusesOf
    <2>1. StatusesOf' = [e \in Externals |-> {t.status : t \in Rows(e)'}]
        BY DEF StatusesOf
    <2> QED
        BY <1>9, <2>1 DEF StatusesOf
<1>11. CASE Rows(x) = {}
    BY <1>1, <1>5, <1>8, <1>10, <1>11 DEF Registry!vars, Tokens, StatusesOf
<1>12. CASE Rows(x) # {}
    <2>1. Tokens[x] # {}
        BY <1>0, <1>12 DEF Tokens
    <2>2. Registry!SetStatus(x, s)
        BY <1>1, <1>5, <1>8, <1>10, <1>12, <2>1 DEF Registry!SetStatus, Tokens, StatusesOf
    <2> QED
        BY <1>0, <2>2 DEF Registry!Next
<1> QED
    BY <1>11, <1>12

(* The accounts are as if every request on them were one step, for any     *)
(* number of requests that interleave over either store.                   *)
THEOREM AccountsAreAtomic == TablesSpec => AtomicAccounts
<1>1. TablesInit => Registry!Init
    <2> SUFFICES ASSUME TablesInit
                 PROVE  Registry!Init
        OBVIOUS
    <2>1. \A e : Rows(e) = {}
        BY DEF TablesInit, Rows
    <2>2. \A r \in Requests : requests[r].at = "new"
        BY DEF TablesInit, New
    <2> QED
        BY <2>1, <2>2 DEF TablesInit, Registry!Init, AnswerTokens
<1>2. TablesInv /\ [TablesNext]_tablesVars => [Registry!Next]_(Registry!vars)
    <2> SUFFICES ASSUME TablesInv, [TablesNext]_tablesVars
                 PROVE  [Registry!Next]_(Registry!vars)
        OBVIOUS
    <2>1. CASE UNCHANGED tablesVars
        BY <2>1 DEF tablesVars, accountVars, globalVars, Registry!vars, AnswerTokens, Rows
    <2>2. CASE TablesNext
        <3>1. PICK r \in Requests :
                \/ Ask(r) \/ Refuse(r) \/ Cut(r)
                \/ SetMode(r) \/ WriteMode(r) \/ Unlock(r)
                \/ PutRiskProfile(r) \/ GetRiskProfile(r)
                \/ AddExchangeConnection(r) \/ GetExchangeConnection(r)
                \/ PutFeeSchedules(r) \/ InsertFeeRow(r) \/ ListStrategies(r) \/ SeedStrategy(r)
                \/ ProvisionTenant(r) \/ InsertTenant(r) \/ SetTenantStatus(r)
            BY <2>2 DEF TablesNext
        <3>2. CASE SetMode(r) \/ WriteMode(r) \/ Unlock(r)
            BY <3>2, ModesStep
        <3>3. CASE ProvisionTenant(r) \/ InsertTenant(r)
            BY <3>3, ProvisionStep
        <3>4. CASE SetTenantStatus(r)
            BY <3>4, StatusStep
        <3> QED
            BY <3>1, <3>2, <3>3, <3>4, OthersStay
    <2> QED
        BY <2>1, <2>2
<1> QED
    BY <1>1, <1>2, TablesStart, TablesStep, PTL
       DEF TablesSpec, AtomicAccounts, Registry!Spec
=============================================================================
