-------------------------- MODULE RiskEngine_proofs --------------------------
(***************************************************************************)
(* What the engine's gates keep true of the account, for every set of      *)
(* signals, every risk profile, every number of undecided approvals and    *)
(* every result a position may have.                                       *)
(***************************************************************************)
EXTENDS RiskEngine, Recursion_proofs, FiniteSetTheorems, TLAPS

(* What an approval has established of the account and of the entry.       *)
LEMMA ApprovedFacts ==
    ASSUME TypeOK, NEW s \in Signals, NEW mode, ~Refused(s, mode)
    PROVE  /\ Margin(s) \in Nat
           /\ RiskAmount \in Nat
           /\ RiskAmount * BPS <= account.equity * Profile.risk
  <1>1. /\ s \in SignalType /\ Profile \in ProfileType
        /\ account.equity \in Int
    BY RiskAssumption DEF TypeOK, AccountType
  <1>2. /\ s.entry > 0 /\ Leverage(s) > 0 /\ StopDistance(s) > 0 /\ account.equity > 0
    BY <1>1 DEF Refused, LiquidationTooClose, SizeRefused, Leverage, StopDistance, Abs,
                SignalType, ProfileType
  <1>3. /\ s.entry \in Nat /\ Leverage(s) \in Nat /\ StopDistance(s) \in Nat
        /\ Profile.risk \in Nat /\ account.equity \in Nat
    BY <1>1, <1>2 DEF Leverage, StopDistance, Abs, SignalType, ProfileType
  <1>4. ASSUME NEW n \in Nat, NEW d \in Nat, d > 0
        PROVE  n \div d \in Nat /\ (n \div d) * d <= n
    BY <1>4, SMTT(30)
  <1>5. ASSUME NEW n \in Nat, NEW d \in Nat PROVE n * d \in Nat
    BY <1>5, SMTT(30)
  <1>6. ASSUME NEW n \in Nat, NEW d \in Nat, n > 0, d > 0 PROVE n * d > 0
    BY <1>6, SMTT(30)
  <1>7. Margin(s) \in Nat
    <2>1. StopDistance(s) * Leverage(s) \in Nat /\ StopDistance(s) * Leverage(s) > 0
      BY <1>2, <1>3, <1>5, <1>6
    <2>2. Profile.risk * s.entry \in Nat
      BY <1>3, <1>5
    <2>3. QED
      BY <2>1, <2>2, <1>4 DEF Margin
  <1>8. RiskAmount \in Nat /\ RiskAmount * BPS <= account.equity * Profile.risk
    <2>1. account.equity * Profile.risk \in Nat
      BY <1>3, <1>5
    <2>2. BPS \in Nat /\ BPS > 0
      BY DEF BPS
    <2>3. QED
      BY <2>1, <2>2, <1>4 DEF RiskAmount
  <1>9. QED
    BY <1>7, <1>8

LEMMA InitTypeOK == Init => TypeOK
  <1> SUFFICES ASSUME Init PROVE TypeOK
    OBVIOUS
  <1> USE RiskAssumption DEF Init
  <1>1. account \in AccountType
    BY DEF AccountType
  <1>2. NoEntry \in EntryType
    BY DEF NoEntry, EntryType
  <1>3. QED
    BY <1>1, <1>2 DEF TypeOK

LEMMA NextTypeOK == TypeOK /\ [Next]_vars => TypeOK'
  <1> SUFFICES ASSUME TypeOK, [Next]_vars PROVE TypeOK'
    OBVIOUS
  <1> USE RiskAssumption DEF TypeOK
  <1>1. ASSUME NEW e \in Entries, NEW s \in Signals, NEW mode \in Modes, Authorize(s, mode, e)
        PROVE  TypeOK'
    <2>1. Margin(s) \in Nat /\ RiskAmount \in Nat
      BY <1>1, ApprovedFacts DEF Authorize
    <2>2. s.pair \in Pairs /\ s.key \in Keys
      BY DEF Pairs, Keys
    <2>3. [pair |-> s.pair, margin |-> Margin(s), risk |-> RiskAmount] \in EntryType
      BY <2>1, <2>2 DEF EntryType
    <2>4. idem' \in [Keys -> Nat] /\ approvedAt' \in [Keys -> Nat \union {None}]
      BY <1>1, <2>2 DEF Authorize
    <2>5. QED
      BY <1>1, <2>3, <2>4 DEF Authorize
  <1>2. ASSUME NEW e \in Entries, Execute(e) PROVE TypeOK'
    BY <1>2 DEF Execute, AccountType
  <1>3. NoEntry \in EntryType
    BY DEF NoEntry, EntryType
  <1>4. ASSUME NEW e \in Entries, Drop(e) PROVE TypeOK'
    BY <1>3, <1>4 DEF Drop, Forget
  <1>5. ASSUME NEW e \in Entries, NEW pnl \in Results, Settle(e, pnl) PROVE TypeOK'
    <2> DEFINE equity == account.equity + pnl
    <2>0. /\ pnl \in Int /\ equity \in Int
          /\ (IF equity > account.peak THEN equity ELSE account.peak) \in Nat
          /\ account.daily + pnl \in Int /\ account.weekly + pnl \in Int
      BY DEF AccountType
    <2>1. account' \in AccountType
      BY <1>5, <2>0 DEF Settle, AccountType
    <2>2. QED
      BY <1>3, <1>5, <2>1 DEF Settle, Forget
  <1>6. CASE Keep
    <2>1. ASSUME TradeAges PROVE account' \in AccountType
      BY <2>1 DEF TradeAges, AccountType
    <2>2. ASSUME NewDay \/ NewWeek PROVE account' \in AccountType
      BY <2>2 DEF NewDay, NewWeek, AccountType
    <2>3. ASSUME PriceTick \/ Spike PROVE account' \in AccountType
      BY <2>3 DEF PriceTick, Spike, AccountType
    <2>4. ASSUME SetLock \/ SetGate PROVE account' \in AccountType
      BY <2>4 DEF SetLock, SetGate, AccountType
    <2>5. account' \in AccountType
      BY <1>6, <2>1, <2>2, <2>3, <2>4 DEF Keep
    <2>6. QED
      BY <1>6, <2>5 DEF Keep
  <1>7. CASE Tick
    BY <1>7 DEF Tick
  <1>8. CASE UNCHANGED vars
    BY <1>8 DEF vars
  <1>9. QED
    BY <1>1, <1>2, <1>4, <1>5, <1>6, <1>7, <1>8 DEF Next

(* The account, the entries and the claims stay well typed: no approval    *)
(* sizes a position below zero.                                            *)
THEOREM TypeCorrect == Spec => []TypeOK
  BY InitTypeOK, NextTypeOK, PTL DEF Spec

-----------------------------------------------------------------------------
(* How a step moves an entry between the sets the caps count.              *)
LEMMA LiveFinite ==
    ASSUME TypeOK
    PROVE  /\ IsFiniteSet(In("queued")) /\ Cardinality(In("queued")) \in Nat
           /\ IsFiniteSet(In("open")) /\ Cardinality(In("open")) \in Nat
           /\ IsFiniteSet(Live) /\ Cardinality(Live) \in Nat
           /\ Cardinality(Live) <= Cardinality(In("queued")) + Cardinality(In("open"))
  <1>1. In("queued") \in SUBSET Entries /\ In("open") \in SUBSET Entries
    BY DEF In
  <1>2. IsFiniteSet(In("queued")) /\ IsFiniteSet(In("open"))
    BY <1>1, RiskAssumption, FS_Subset
  <1>3. /\ IsFiniteSet(Live)
        /\ Cardinality(Live) = Cardinality(In("queued")) + Cardinality(In("open"))
                                 - Cardinality(In("queued") \cap In("open"))
    BY <1>2, FS_Union DEF Live
  <1>4. IsFiniteSet(In("queued") \cap In("open"))
    BY <1>2, FS_Intersection
  <1>5. /\ Cardinality(In("queued")) \in Nat /\ Cardinality(In("open")) \in Nat
        /\ Cardinality(Live) \in Nat /\ Cardinality(In("queued") \cap In("open")) \in Nat
    BY <1>2, <1>3, <1>4, FS_CardinalityType
  <1>6. QED
    BY <1>2, <1>3, <1>5

LEMMA QueueCounts ==
    ASSUME TypeOK, NEW e \in Entries, stage[e] = "free",
           stage' = [stage EXCEPT ![e] = "queued"]
    PROVE  /\ Cardinality(In("queued"))' = Cardinality(In("queued")) + 1
           /\ Cardinality(Live)' = Cardinality(Live) + 1
  <1>1. /\ In("queued")' = In("queued") \union {e} /\ e \notin In("queued")
        /\ Live' = Live \union {e} /\ e \notin Live
    BY DEF TypeOK, In, Live
  <1>2. QED
    BY <1>1, LiveFinite, FS_AddElement

LEMMA ExecuteCounts ==
    ASSUME TypeOK, NEW e \in Entries, stage[e] = "queued",
           stage' = [stage EXCEPT ![e] = "open"]
    PROVE  /\ Cardinality(In("queued"))' = Cardinality(In("queued")) - 1
           /\ Cardinality(Live)' = Cardinality(Live)
  <1>1. /\ In("queued")' = In("queued") \ {e} /\ e \in In("queued")
        /\ Live' = Live
    BY DEF TypeOK, In, Live
  <1>2. QED
    BY <1>1, LiveFinite, FS_RemoveElement

LEMMA ForgetCounts ==
    ASSUME TypeOK, NEW e \in Entries, stage[e] # "free",
           stage' = [stage EXCEPT ![e] = "free"]
    PROVE  /\ Cardinality(In("queued"))' <= Cardinality(In("queued"))
           /\ Cardinality(In("queued"))' \in Nat
           /\ Cardinality(Live)' = Cardinality(Live) - 1
  <1>1. /\ In("queued")' = In("queued") \ {e}
        /\ Live' = Live \ {e} /\ e \in Live
    BY DEF TypeOK, In, Live
  <1>2. /\ IsFiniteSet(In("queued") \ {e})
        /\ Cardinality(In("queued") \ {e}) \in
             {Cardinality(In("queued")), Cardinality(In("queued")) - 1}
    <2>1. IsFiniteSet(In("queued"))
      BY LiveFinite
    <2>2. QED
      BY <2>1, FS_RemoveElement
  <1>3. Cardinality(In("queued") \ {e}) \in Nat
    BY <1>2, FS_CardinalityType
  <1>4. Cardinality(Live \ {e}) = Cardinality(Live) - 1
    <2>1. IsFiniteSet(Live)
      BY LiveFinite
    <2>2. QED
      BY <1>1, <2>1, FS_RemoveElement
  <1>5. Cardinality(In("queued"))' = Cardinality(In("queued") \ {e})
    BY <1>1
  <1>6. Cardinality(Live)' = Cardinality(Live \ {e})
    BY <1>1
  <1>7. Cardinality(In("queued")) \in Nat
    BY LiveFinite
  <1>8. QED
    BY <1>2, <1>3, <1>4, <1>5, <1>6, <1>7

LEMMA NextEntriesBounded == TypeOK /\ EntriesBounded /\ [Next]_vars => EntriesBounded'
  <1> SUFFICES ASSUME TypeOK, EntriesBounded, [Next]_vars PROVE EntriesBounded'
    OBVIOUS
  <1>0. /\ Profile.open \in Nat /\ Profile.hour \in Nat /\ Pending \in Nat
        /\ account.hour \in Nat
    BY RiskAssumption DEF ProfileType, TypeOK, AccountType
  <1>1. ASSUME NEW e \in Entries, NEW s \in Signals, NEW mode \in Modes, Authorize(s, mode, e)
        PROVE  EntriesBounded'
    <2>1. /\ Cardinality(In("open")) < Profile.open /\ account.hour < Profile.hour
          /\ Cardinality(In("queued")) < Pending
      BY <1>0, <1>1, LiveFinite DEF Authorize, Refused, AtCap
    <2>2. /\ Cardinality(In("queued"))' = Cardinality(In("queued")) + 1
          /\ Cardinality(Live)' = Cardinality(Live) + 1
          /\ account' = account
      BY <1>1, QueueCounts DEF Authorize
    <2>3. QED
      BY <1>0, <2>1, <2>2, LiveFinite DEF EntriesBounded
  <1>2. ASSUME NEW e \in Entries, Execute(e) PROVE EntriesBounded'
    <2>1. /\ Cardinality(In("queued"))' = Cardinality(In("queued")) - 1
          /\ Cardinality(Live)' = Cardinality(Live)
      BY <1>2, ExecuteCounts DEF Execute
    <2>2. account'.hour = account.hour + 1
      BY <1>2 DEF Execute, TypeOK, AccountType
    <2>3. QED
      BY <1>0, <2>1, <2>2, LiveFinite DEF EntriesBounded
  <1>3. ASSUME NEW e \in Entries, Drop(e) \/ \E pnl \in Results : Settle(e, pnl)
        PROVE  EntriesBounded'
    <2>1. /\ Cardinality(In("queued"))' <= Cardinality(In("queued"))
          /\ Cardinality(In("queued"))' \in Nat
          /\ Cardinality(Live)' = Cardinality(Live) - 1
      BY <1>3, ForgetCounts DEF Drop, Settle, Forget
    <2>2. account'.hour = account.hour
      BY <1>3 DEF Drop, Settle, TypeOK, AccountType
    <2>3. QED
      BY <1>0, <2>1, <2>2, LiveFinite DEF EntriesBounded
  <1>4. ASSUME stage' = stage
        PROVE  In("queued")' = In("queued") /\ Live' = Live
    BY <1>4 DEF In, Live
  <1>5. CASE Keep
    <2>1. account'.hour \in Nat /\ account'.hour <= account.hour
      BY <1>5 DEF Keep, TradeAges, NewDay, NewWeek, PriceTick, Spike, SetLock, SetGate,
                  TypeOK, AccountType
    <2>2. QED
      BY <1>0, <1>4, <1>5, <2>1, LiveFinite DEF Keep, EntriesBounded
  <1>6. CASE Tick \/ UNCHANGED vars
    BY <1>4, <1>6 DEF Tick, vars, EntriesBounded
  <1>7. QED
    BY <1>1, <1>2, <1>3, <1>5, <1>6 DEF Next

LEMMA InitEmpty == Init => Cardinality(In("queued")) = 0 /\ Cardinality(Live) = 0
  <1>1. Init => In("queued") = {} /\ Live = {}
    BY DEF Init, In, Live
  <1>2. QED
    BY <1>1, FS_EmptySet

(* However many approvals are undecided, the caps on open positions and on *)
(* trades per hour are exceeded by at most Pending - 1.                    *)
THEOREM EntriesStayBounded == Spec => []EntriesBounded
  <1>1. Init => EntriesBounded
    BY InitEmpty, RiskAssumption DEF Init, EntriesBounded, ProfileType
  <1>2. QED
    BY <1>1, NextEntriesBounded, TypeCorrect, PTL DEF Spec

-----------------------------------------------------------------------------
(* A product of naturals is a natural and grows with its factors.          *)
LEMMA Product ==
    ASSUME NEW m \in Nat, NEW n \in Nat, NEW q \in Nat, n <= q
    PROVE  m * n \in Nat /\ m * n <= m * q /\ n * m <= q * m
  BY SMTT(60)

LEMMA Distributes ==
    ASSUME NEW l \in Int, NEW m \in Int, NEW n \in Int
    PROVE  (l + m) * n = l * n + m * n
  BY SMTT(60)

(* A loss within a limit and k risk amounts of a peak.                     *)
Bounded(loss, limit, risk, k, peak) == loss * BPS < (limit + k * risk) * peak

(* It stays within when the loss shrinks, the peak or k grows.             *)
LEMMA LossKept ==
    ASSUME NEW loss \in Int, NEW less \in Int, NEW limit \in Nat, NEW risk \in Nat,
           NEW k \in Nat, NEW j \in Nat, NEW peak \in Nat, NEW higher \in Nat,
           less <= loss, k <= j, peak <= higher,
           Bounded(loss, limit, risk, k, peak)
    PROVE  Bounded(less, limit, risk, j, higher)
  <1>1. less * BPS <= loss * BPS
    BY DEF BPS
  <1>2. k * risk \in Nat /\ j * risk \in Nat /\ k * risk <= j * risk
    BY Product
  <1>3. /\ (limit + k * risk) * peak <= (limit + j * risk) * peak
        /\ (limit + j * risk) * peak <= (limit + j * risk) * higher
        /\ (limit + k * risk) * peak \in Nat /\ (limit + j * risk) * peak \in Nat
        /\ (limit + j * risk) * higher \in Nat
    <2> DEFINE a == limit + k * risk
               b == limit + j * risk
    <2>1. a \in Nat /\ b \in Nat /\ a <= b
      BY <1>2
    <2> HIDE DEF a, b
    <2>2. /\ a * peak <= b * peak /\ b * peak <= b * higher
          /\ a * peak \in Nat /\ b * peak \in Nat /\ b * higher \in Nat
      BY <2>1, Product
    <2>3. QED
      BY <2>2 DEF a, b
  <1>4. loss * BPS \in Int /\ less * BPS \in Int
    BY DEF BPS
  <1>5. QED
    BY <1>1, <1>3, <1>4 DEF Bounded

(* ... or when there is no loss left.                                      *)
LEMMA LossKeptOrGone ==
    ASSUME NEW loss \in Int, NEW less \in Int, NEW limit \in Nat \ {0}, NEW risk \in Nat,
           NEW k \in Nat, NEW j \in Nat, NEW peak \in Nat \ {0}, NEW higher \in Nat,
           less <= loss \/ less <= 0, k <= j, peak <= higher,
           Bounded(loss, limit, risk, k, peak)
    PROVE  Bounded(less, limit, risk, j, higher)
  <1>1. CASE less <= loss
    BY <1>1, LossKept
  <1>2. CASE less <= 0
    <2>1. limit * peak > 0
      BY SMTT(60)
    <2>2. limit + 0 * risk = limit
      OBVIOUS
    <2>3. Bounded(0, limit, risk, 0, peak)
      BY <2>1, <2>2 DEF BPS, Bounded
    <2>4. 0 \in Int /\ 0 \in Nat /\ 0 <= j /\ limit \in Nat /\ peak \in Nat
      OBVIOUS
    <2>5. QED
      BY <1>2, <2>3, <2>4, LossKept
  <1>3. QED
    BY <1>1, <1>2

(* ... and one risk amount further after one more loss of at most that.    *)
LEMMA LossGrows ==
    ASSUME NEW loss \in Int, NEW more \in Int, NEW limit \in Nat, NEW risk \in Nat,
           NEW k \in Nat, NEW peak \in Nat, NEW higher \in Nat, NEW r \in Nat,
           more <= loss + r, r * BPS <= risk * peak, peak <= higher,
           Bounded(loss, limit, risk, k, peak)
    PROVE  Bounded(more, limit, risk, k + 1, higher)
  <1>1. more * BPS <= loss * BPS + r * BPS
    BY DEF BPS
  <1>2. (k + 1) * risk = k * risk + risk /\ k * risk \in Nat
    BY Product, Distributes, SMTT(60)
  <1>3. (limit + (k + 1) * risk) * peak = (limit + k * risk) * peak + risk * peak
    <2> DEFINE a == limit + k * risk
    <2>1. a \in Int /\ limit + (k + 1) * risk = a + risk
      BY <1>2
    <2> HIDE DEF a
    <2>2. (a + risk) * peak = a * peak + risk * peak
      BY <2>1, Distributes
    <2>3. QED
      BY <2>1, <2>2 DEF a
  <1>4. /\ (limit + (k + 1) * risk) * peak <= (limit + (k + 1) * risk) * higher
        /\ (limit + (k + 1) * risk) * peak \in Nat
        /\ (limit + (k + 1) * risk) * higher \in Nat
    <2> DEFINE b == limit + (k + 1) * risk
    <2>1. b \in Nat
      BY <1>2
    <2> HIDE DEF b
    <2>2. b * peak <= b * higher /\ b * peak \in Nat /\ b * higher \in Nat
      BY <2>1, Product
    <2>3. QED
      BY <2>2 DEF b
  <1>5. /\ loss * BPS \in Int /\ more * BPS \in Int /\ r * BPS \in Int
        /\ risk * peak \in Nat /\ (limit + k * risk) * peak \in Int
    <2>1. risk * peak \in Nat
      BY Product
    <2>2. (limit + k * risk) * peak \in Nat
      BY <1>2, Product
    <2>3. QED
      BY <2>1, <2>2 DEF BPS
  <1>6. QED
    BY <1>1, <1>3, <1>4, <1>5 DEF Bounded

-----------------------------------------------------------------------------
(* What makes LossesBounded inductive: no live entry risks more than the   *)
(* profile allows of the highest peak, and none is missing from the bound. *)
RisksFit ==
    /\ account.peak > 0 /\ account.equity <= account.peak
    /\ \A e \in Live : entry[e].risk * BPS <= Profile.risk * account.peak

LossInv == TypeOK /\ EntriesBounded /\ RisksFit /\ LossesBounded

Slack == Profile.open + Pending - 1 - Cardinality(Live)

LEMMA LossTypes ==
    ASSUME LossInv
    PROVE  /\ Profile.risk \in Nat /\ Profile.daily \in Nat \ {0}
           /\ Profile.weekly \in Nat \ {0} /\ Profile.drawdown \in Nat \ {0}
           /\ Profile.open \in Nat /\ Pending \in Nat
           /\ account.peak \in Nat \ {0} /\ account.equity \in Int
           /\ account.daily \in Int /\ account.weekly \in Int
           /\ Slack \in Nat
  <1>1. /\ Profile.risk \in Nat /\ Profile.daily \in Nat \ {0}
        /\ Profile.weekly \in Nat \ {0} /\ Profile.drawdown \in Nat \ {0}
        /\ Profile.open \in Nat /\ Pending \in Nat
    BY RiskAssumption DEF ProfileType
  <1>2. /\ account.peak \in Nat \ {0} /\ account.equity \in Int
        /\ account.daily \in Int /\ account.weekly \in Int
    BY DEF LossInv, RisksFit, TypeOK, AccountType
  <1>3. Slack \in Nat
    BY <1>1, LiveFinite DEF LossInv, EntriesBounded, Slack
  <1>4. QED
    BY <1>1, <1>2, <1>3

(* A step that leaves the account's money alone or improves it, and does   *)
(* not admit an entry, keeps the losses bounded.                           *)
LEMMA KeepLosses ==
    ASSUME LossInv, account'.equity = account.equity, account'.peak = account.peak,
           account'.daily = account.daily \/ account'.daily = 0,
           account'.weekly = account.weekly \/ account'.weekly = 0,
           Slack' \in Nat, Slack <= Slack'
    PROVE  LossesBounded'
  <1> DEFINE k == Slack
             j == Slack'
             peak == account.peak
             risk == Profile.risk
  <1>0. /\ k \in Nat /\ j \in Nat /\ k <= j /\ risk \in Nat
        /\ peak \in Nat \ {0} /\ peak \in Nat /\ peak <= peak
        /\ Profile.daily \in Nat \ {0} /\ Profile.weekly \in Nat \ {0}
        /\ Profile.drawdown \in Nat
    BY LossTypes
  <1>1. /\ Bounded(-account.daily, Profile.daily, risk, k, peak)
        /\ Bounded(-account.weekly, Profile.weekly, risk, k, peak)
        /\ Bounded(account.peak - account.equity, Profile.drawdown, risk, k, peak)
    BY DEF LossInv, LossesBounded, Within, Slack, Bounded
  <1>2. /\ -account'.daily <= -account.daily \/ -account'.daily <= 0
        /\ -account'.weekly <= -account.weekly \/ -account'.weekly <= 0
        /\ -account'.daily \in Int /\ -account'.weekly \in Int
        /\ account'.peak - account'.equity <= account.peak - account.equity
        /\ account'.peak - account'.equity \in Int
        /\ account.peak - account.equity \in Int
        /\ -account.daily \in Int /\ -account.weekly \in Int
    BY LossTypes
  <1> HIDE DEF k, j, peak, risk
  <1>3. Bounded(-account'.daily, Profile.daily, risk, j, peak)
    BY <1>0, <1>1, <1>2, LossKeptOrGone
  <1>4. Bounded(-account'.weekly, Profile.weekly, risk, j, peak)
    BY <1>0, <1>1, <1>2, LossKeptOrGone
  <1>5. Bounded(account'.peak - account'.equity, Profile.drawdown, risk, j, peak)
    <2> DEFINE loss == account.peak - account.equity
               less == account'.peak - account'.equity
    <2>1. /\ Bounded(loss, Profile.drawdown, risk, k, peak)
          /\ loss \in Int /\ less \in Int /\ less <= loss
      BY <1>1, <1>2
    <2> HIDE DEF loss, less
    <2>2. Bounded(less, Profile.drawdown, risk, j, peak)
      BY <1>0, <2>1, LossKept
    <2>3. QED
      BY <2>2 DEF less
  <1>6. QED
    BY <1>3, <1>4, <1>5 DEF LossesBounded, Within, Slack, Bounded, j, peak, risk

(* The risks fit after a step under which every live entry was live before *)
(* or fits by itself.                                                      *)
LEMMA RisksKept ==
    ASSUME LossInv, account'.peak \in Nat, account.peak <= account'.peak,
           account'.equity <= account'.peak,
           \A e \in Live' :
              \/ e \in Live /\ entry'[e] = entry[e]
              \/ entry'[e].risk * BPS <= Profile.risk * account'.peak
    PROVE  RisksFit'
  <1>1. account'.peak > 0
    BY DEF LossInv, RisksFit, TypeOK, AccountType
  <1>2. ASSUME NEW e \in Live', e \in Live, entry'[e] = entry[e]
        PROVE  entry'[e].risk * BPS <= Profile.risk * account'.peak
    <2>1. e \in Live /\ e \in Entries
      BY <1>2 DEF Live, In
    <2>2. entry[e].risk * BPS <= Profile.risk * account.peak
      BY <2>1 DEF LossInv, RisksFit
    <2>3. /\ Profile.risk * account.peak \in Nat
          /\ Profile.risk * account.peak <= Profile.risk * account'.peak
      BY LossTypes, Product
    <2>4. Profile.risk * account'.peak \in Nat
      BY LossTypes, Product
    <2>5. entry[e].risk \in Nat
      BY <2>1 DEF LossInv, TypeOK, EntryType
    <2>6. entry[e].risk * BPS \in Nat
      BY <2>5 DEF BPS
    <2>7. entry'[e] = entry[e]
      BY <1>2
    <2>8. QED
      BY <2>2, <2>3, <2>4, <2>6, <2>7
  <1>3. QED
    BY <1>1, <1>2 DEF RisksFit

LEMMA AuthorizeLosses ==
    ASSUME LossInv, TypeOK', EntriesBounded',
           NEW e \in Entries, NEW s \in Signals, NEW mode \in Modes, Authorize(s, mode, e)
    PROVE  RisksFit' /\ LossesBounded'
  <1> DEFINE j == Slack'
             peak == account.peak
             risk == Profile.risk
  <1>1. account' = account /\ ~LossLimitReached
    BY DEF Authorize, Refused
  <1>2. /\ j \in Nat /\ risk \in Nat /\ peak \in Nat \ {0} /\ peak \in Nat /\ peak <= peak
        /\ Profile.daily \in Nat \ {0} /\ Profile.weekly \in Nat \ {0}
        /\ Profile.drawdown \in Nat \ {0}
        /\ 0 \in Nat /\ 0 <= j
        /\ -account.daily \in Int /\ -account.weekly \in Int
        /\ account.peak - account.equity \in Int
    <2>1. Cardinality(Live)' \in Nat
      <3>1. Live' \in SUBSET Entries
        BY DEF Live, In
      <3>2. QED
        BY <3>1, RiskAssumption, FS_Subset, FS_CardinalityType
    <2>2. j \in Nat
      BY <2>1, LossTypes DEF Slack, EntriesBounded
    <2>3. QED
      BY <2>2, LossTypes
  <1>3. ASSUME NEW loss \in Int, NEW limit \in Nat \ {0}, ~Reaches(loss, limit)
        PROVE  Bounded(loss, limit, risk, j, peak)
    <2>1. limit * peak \in Nat /\ limit * peak > 0
      BY <1>2, <1>3, SMTT(60)
    <2>2. loss * BPS < limit * peak
      <3>1. CASE loss > 0
        BY <1>3, <2>1, <3>1 DEF Reaches, BPS
      <3>2. CASE loss <= 0
        BY <2>1, <3>2 DEF BPS
      <3>3. QED
        BY <3>1, <3>2
    <2>3. limit + 0 * risk = limit /\ limit \in Nat /\ loss <= loss
      BY <1>2
    <2>4. Bounded(loss, limit, risk, 0, peak)
      BY <2>2, <2>3 DEF Bounded
    <2> HIDE DEF j, peak, risk
    <2>5. QED
      BY <1>2, <2>3, <2>4, LossKept
  <1>4. /\ Bounded(-account.daily, Profile.daily, risk, j, peak)
        /\ Bounded(-account.weekly, Profile.weekly, risk, j, peak)
        /\ Bounded(account.peak - account.equity, Profile.drawdown, risk, j, peak)
    <2>1. /\ ~Reaches(-account.daily, Profile.daily)
          /\ ~Reaches(-account.weekly, Profile.weekly)
          /\ ~Reaches(account.peak - account.equity, Profile.drawdown)
      BY <1>1, LossTypes DEF LossLimitReached
    <2> HIDE DEF j, peak, risk
    <2>2. QED
      BY <1>2, <1>3, <2>1
  <1>5. LossesBounded'
    BY <1>1, <1>4 DEF LossesBounded, Within, Slack, Bounded
  <1>6. RisksFit'
    <2>1. entry'[e].risk = RiskAmount
      BY DEF Authorize, LossInv, TypeOK
    <2>2. RiskAmount \in Nat /\ RiskAmount * BPS <= account.equity * Profile.risk
      BY ApprovedFacts DEF Authorize, LossInv
    <2>3. account.equity > 0 /\ account.equity <= account.peak
      BY LossTypes DEF Authorize, Refused, SizeRefused, LossInv, RisksFit
    <2>4. account.equity * Profile.risk \in Nat
          /\ account.equity * Profile.risk <= Profile.risk * account.peak
      <3>1. account.equity \in Nat
        BY <2>3, LossTypes
      <3>2. account.equity * Profile.risk = Profile.risk * account.equity
        BY <3>1, LossTypes
      <3>3. QED
        BY <2>3, <3>1, <3>2, LossTypes, Product
    <2>5. Profile.risk * account.peak \in Nat
      BY LossTypes, Product
    <2>6. entry'[e].risk * BPS <= Profile.risk * account'.peak
      BY <1>1, <2>1, <2>2, <2>4, <2>5 DEF BPS
    <2>7. /\ Live' \subseteq Live \union {e}
          /\ \A f \in Live' \ {e} : entry'[f] = entry[f]
      BY DEF Authorize, Live, In, LossInv, TypeOK
    <2>8. /\ \A f \in Live' :
                \/ f \in Live /\ entry'[f] = entry[f]
                \/ entry'[f].risk * BPS <= Profile.risk * account'.peak
          /\ account'.peak \in Nat /\ account.peak <= account'.peak
          /\ account'.equity <= account'.peak
      BY <1>1, <2>3, <2>6, <2>7, LossTypes
    <2>9. QED
      BY <2>8, RisksKept
  <1>7. QED
    BY <1>5, <1>6

LEMMA SettleLosses ==
    ASSUME LossInv, TypeOK', EntriesBounded',
           NEW e \in Entries, NEW pnl \in Results, Settle(e, pnl)
    PROVE  RisksFit' /\ LossesBounded'
  <1> DEFINE k == Slack
             r == entry[e].risk
             peak == account.peak
             higher == account'.peak
             risk == Profile.risk
             d == -account.daily
             w == -account.weekly
             q == account.peak - account.equity
             dd == -account'.daily
             ww == -account'.weekly
             qq == account'.peak - account'.equity
  <1>1. e \in Live /\ r \in Nat /\ r * BPS <= risk * peak
    BY DEF Settle, Live, In, LossInv, TypeOK, EntryType, RisksFit
  <1>2. /\ pnl \in Int /\ pnl >= -r
        /\ account'.equity = account.equity + pnl
        /\ account'.daily = account.daily + pnl
        /\ account'.weekly = account.weekly + pnl
        /\ account'.peak = IF account.equity + pnl > account.peak
                           THEN account.equity + pnl ELSE account.peak
    BY RiskAssumption DEF Settle, LossInv, TypeOK, AccountType
  <1>3. account.equity <= account.peak
    BY DEF LossInv, RisksFit
  <1>4. /\ higher \in Nat /\ peak <= higher /\ account'.equity <= higher
        /\ d \in Int /\ w \in Int /\ q \in Int
        /\ dd \in Int /\ ww \in Int /\ qq \in Int
        /\ dd <= d + r /\ ww <= w + r /\ qq <= q + r
    BY <1>1, <1>2, <1>3, LossTypes
  <1>5. /\ k \in Nat /\ risk \in Nat /\ peak \in Nat
        /\ Profile.daily \in Nat /\ Profile.weekly \in Nat /\ Profile.drawdown \in Nat
    BY LossTypes
  <1>6. Slack' = k + 1
    <2>1. Cardinality(Live)' = Cardinality(Live) - 1
      BY ForgetCounts DEF Settle, Forget, LossInv
    <2>2. Cardinality(Live) \in Nat
      BY LiveFinite DEF LossInv
    <2>3. QED
      BY <2>1, <2>2, LossTypes DEF Slack
  <1>7. /\ Bounded(d, Profile.daily, risk, k, peak)
        /\ Bounded(w, Profile.weekly, risk, k, peak)
        /\ Bounded(q, Profile.drawdown, risk, k, peak)
    BY DEF LossInv, LossesBounded, Within, Slack, Bounded
  <1>8. /\ Bounded(dd, Profile.daily, risk, k + 1, higher)
        /\ Bounded(ww, Profile.weekly, risk, k + 1, higher)
        /\ Bounded(qq, Profile.drawdown, risk, k + 1, higher)
    <2> HIDE DEF k, r, peak, higher, risk, d, w, q, dd, ww, qq
    <2>1. QED
      BY <1>1, <1>4, <1>5, <1>7, LossGrows
  <1>9. LossesBounded'
    <2>1. /\ Bounded(dd, Profile.daily, risk, Slack', higher)
          /\ Bounded(ww, Profile.weekly, risk, Slack', higher)
          /\ Bounded(qq, Profile.drawdown, risk, Slack', higher)
      <3> HIDE DEF k, r, peak, higher, risk, d, w, q, dd, ww, qq
      <3>1. QED
        BY <1>6, <1>8
    <2>2. QED
      BY <2>1 DEF LossesBounded, Within, Slack, Bounded
  <1>10. RisksFit'
    <2>1. \A f \in Live' : f \in Live /\ entry'[f] = entry[f]
      BY DEF Settle, Forget, Live, In, LossInv, TypeOK
    <2>2. QED
      BY <1>4, <2>1, RisksKept
  <1>11. QED
    BY <1>9, <1>10

(* The steps that neither admit nor settle an entry.                       *)
LEMMA QuietLosses ==
    ASSUME LossInv, TypeOK', EntriesBounded',
           account'.equity = account.equity, account'.peak = account.peak,
           account'.daily = account.daily \/ account'.daily = 0,
           account'.weekly = account.weekly \/ account'.weekly = 0,
           Live' \subseteq Live, \A e \in Live' : entry'[e] = entry[e]
    PROVE  RisksFit' /\ LossesBounded'
  <1>1. Slack' \in Nat /\ Slack <= Slack'
    <2>1. /\ Cardinality(Live) \in Nat /\ Cardinality(Live)' \in Nat
          /\ Cardinality(Live)' <= Cardinality(Live)
      <3>1. IsFiniteSet(Live) /\ Live' \in SUBSET Live
        BY LiveFinite DEF LossInv
      <3>2. QED
        BY <3>1, FS_Subset, FS_CardinalityType
    <2>2. Cardinality(Live)' <= Profile.open + Pending - 1
      BY DEF EntriesBounded
    <2>3. QED
      BY <2>1, <2>2, LossTypes DEF Slack
  <1>2. LossesBounded'
    BY <1>1, KeepLosses
  <1>3. /\ account'.peak \in Nat /\ account.peak <= account'.peak
        /\ account'.equity <= account'.peak
        /\ \A f \in Live' : f \in Live /\ entry'[f] = entry[f]
    BY LossTypes DEF LossInv, RisksFit
  <1>4. QED
    BY <1>2, <1>3, RisksKept

LEMMA NextLossInv == LossInv /\ [Next]_vars => LossInv'
  <1> SUFFICES ASSUME LossInv, [Next]_vars PROVE LossInv'
    OBVIOUS
  <1>1. TypeOK' /\ EntriesBounded'
    BY NextTypeOK, NextEntriesBounded DEF LossInv
  <1>2. TypeOK
    BY DEF LossInv
  <1> HIDE DEF LossInv
  <1>3. RisksFit' /\ LossesBounded'
    <2>1. ASSUME NEW e \in Entries, NEW s \in Signals, NEW mode \in Modes, Authorize(s, mode, e)
          PROVE  RisksFit' /\ LossesBounded'
      BY <1>1, <2>1, AuthorizeLosses
    <2>2. ASSUME NEW e \in Entries, Execute(e) PROVE RisksFit' /\ LossesBounded'
      <3>1. /\ account'.equity = account.equity /\ account'.peak = account.peak
            /\ account'.daily = account.daily /\ account'.weekly = account.weekly
        BY <1>2, <2>2 DEF Execute, TypeOK, AccountType
      <3>2. Live' \subseteq Live /\ \A f \in Live' : entry'[f] = entry[f]
        BY <1>2, <2>2 DEF Execute, TypeOK, Live, In
      <3>3. QED
        BY <1>1, <3>1, <3>2, QuietLosses
    <2>3. ASSUME NEW e \in Entries, Drop(e) PROVE RisksFit' /\ LossesBounded'
      <3>1. account' = account
        BY <2>3 DEF Drop
      <3>2. Live' \subseteq Live /\ \A f \in Live' : entry'[f] = entry[f]
        BY <1>2, <2>3 DEF Drop, Forget, TypeOK, Live, In
      <3>3. QED
        BY <1>1, <3>1, <3>2, QuietLosses
    <2>4. ASSUME NEW e \in Entries, NEW pnl \in Results, Settle(e, pnl)
          PROVE  RisksFit' /\ LossesBounded'
      BY <1>1, <2>4, SettleLosses
    <2>5. CASE Keep
      <3>1. /\ account'.equity = account.equity /\ account'.peak = account.peak
            /\ account'.daily = account.daily \/ account'.daily = 0
            /\ account'.weekly = account.weekly \/ account'.weekly = 0
        BY <1>2, <2>5 DEF Keep, TradeAges, NewDay, NewWeek, PriceTick, Spike, SetLock, SetGate,
                          TypeOK, AccountType
      <3>2. Live' \subseteq Live /\ \A f \in Live' : entry'[f] = entry[f]
        BY <2>5 DEF Keep, Live, In
      <3>3. QED
        BY <1>1, <3>1, <3>2, QuietLosses
    <2>6. CASE Tick \/ UNCHANGED vars
      <3>1. account' = account
        BY <2>6 DEF Tick, vars
      <3>2. Live' \subseteq Live /\ \A f \in Live' : entry'[f] = entry[f]
        BY <2>6 DEF Tick, vars, Live, In
      <3>3. QED
        BY <1>1, <3>1, <3>2, QuietLosses
    <2>7. QED
      BY <2>1, <2>2, <2>3, <2>4, <2>5, <2>6 DEF Next
  <1>4. QED
    BY <1>1, <1>3 DEF LossInv

LEMMA InitLossInv == Init => LossInv
  <1> SUFFICES ASSUME Init PROVE LossInv
    OBVIOUS
  <1>1. TypeOK
    BY InitTypeOK
  <1>2. EntriesBounded
    BY InitEmpty, RiskAssumption DEF Init, EntriesBounded, ProfileType
  <1>3. RisksFit
    BY RiskAssumption DEF Init, RisksFit, Live, In
  <1>4. Slack \in Nat
    BY InitEmpty, RiskAssumption DEF Slack, ProfileType
  <1>5. ASSUME NEW limit \in Nat \ {0} PROVE Bounded(0, limit, Profile.risk, Slack, Equity)
    <2>1. limit * Equity > 0
      BY <1>5, RiskAssumption, SMTT(60)
    <2>2. Profile.risk \in Nat /\ Equity \in Nat /\ Equity <= Equity
      BY RiskAssumption DEF ProfileType
    <2>3. limit + 0 * Profile.risk = limit /\ limit \in Nat
      BY <1>5, <2>2
    <2>4. Bounded(0, limit, Profile.risk, 0, Equity)
      BY <2>1, <2>3 DEF Bounded, BPS
    <2>5. 0 \in Int /\ 0 \in Nat /\ 0 <= 0 /\ 0 <= Slack
      BY <1>4
    <2>6. QED
      BY <1>4, <2>2, <2>3, <2>4, <2>5, LossKept
  <1>6. LossesBounded
    <2>1. /\ -account.daily = 0 /\ -account.weekly = 0
          /\ account.peak - account.equity = 0 /\ account.peak = Equity
      <3>1. /\ account.daily = 0 /\ account.weekly = 0
            /\ account.peak = Equity /\ account.equity = Equity
        BY DEF Init
      <3>2. ASSUME NEW n \in Int PROVE n - n = 0 /\ (n = 0 => -n = 0)
        OBVIOUS
      <3>3. account.daily \in Int /\ account.weekly \in Int /\ Equity \in Int
        BY <3>1, RiskAssumption
      <3>4. QED
        BY <3>1, <3>2, <3>3
    <2>2. /\ Bounded(0, Profile.daily, Profile.risk, Slack, Equity)
          /\ Bounded(0, Profile.weekly, Profile.risk, Slack, Equity)
          /\ Bounded(0, Profile.drawdown, Profile.risk, Slack, Equity)
      BY <1>5, RiskAssumption DEF ProfileType
    <2>3. QED
      BY <2>1, <2>2 DEF LossesBounded, Within, Slack, Bounded
  <1>7. QED
    BY <1>1, <1>2, <1>3, <1>6 DEF LossInv

(* Every loss the engine limits stays below its limit plus one risk amount *)
(* for each position that may have been admitted beside the one that       *)
(* reached it.                                                             *)
THEOREM LossesStayBounded == Spec => []LossesBounded
  <1>1. LossInv => LossesBounded
    BY DEF LossInv
  <1>2. QED
    BY <1>1, InitLossInv, NextLossInv, PTL DEF Spec

-----------------------------------------------------------------------------
LEMMA NextKeyHeld == TypeOK /\ KeyHeldByApproval /\ [Next]_vars => KeyHeldByApproval'
  <1> SUFFICES ASSUME TypeOK, KeyHeldByApproval, [Next]_vars,
                      NEW k \in Keys, Claimed(k)'
               PROVE  approvedAt'[k] # None /\ idem'[k] = approvedAt'[k] + TTL
    BY DEF KeyHeldByApproval, Keys
  <1>1. ASSUME NEW e \in Entries, NEW s \in Signals, NEW mode \in Modes, Authorize(s, mode, e)
        PROVE  approvedAt'[k] # None /\ idem'[k] = approvedAt'[k] + TTL
    <2>1. now # None
      BY RiskAssumption DEF TypeOK
    <2>2. CASE k = s.key
      BY <1>1, <2>1, <2>2 DEF Authorize, TypeOK
    <2>3. CASE k # s.key
      BY <1>1, <2>3 DEF Authorize, TypeOK, KeyHeldByApproval, Claimed
    <2>4. QED
      BY <2>2, <2>3
  <1>2. CASE /\ UNCHANGED <<idem, approvedAt>>
             /\ now' \in Nat /\ now <= now'
    <2>1. Claimed(k)
      BY <1>2, RiskAssumption DEF Claimed, TypeOK
    <2>2. QED
      BY <1>2, <2>1 DEF KeyHeldByApproval
  <1>3. ASSUME NEW e \in Entries, Execute(e) \/ Drop(e) \/ \E pnl \in Results : Settle(e, pnl)
        PROVE  UNCHANGED <<idem, approvedAt>> /\ now' = now
    BY <1>3 DEF Execute, Drop, Settle, Forget
  <1>4. CASE Keep \/ UNCHANGED vars
    BY <1>2, <1>4 DEF Keep, vars, TypeOK
  <1>5. CASE Tick
    BY <1>2, <1>5 DEF Tick, TypeOK
  <1>6. now \in Nat /\ now <= now
    BY DEF TypeOK
  <1>7. QED
    BY <1>1, <1>2, <1>3, <1>4, <1>5, <1>6 DEF Next

(* A key is only ever held because of an approval given less than TTL ago: *)
(* a refusal burns none.                                                   *)
THEOREM KeysAreHeldByApprovals == Spec => []KeyHeldByApproval
  <1>1. Init => KeyHeldByApproval
    BY DEF Init, KeyHeldByApproval, Claimed
  <1>2. QED
    BY <1>1, NextKeyHeld, TypeCorrect, PTL DEF Spec

-----------------------------------------------------------------------------
(* The sum of the margins of a set of entries.  The library's sum takes    *)
(* its elements in the order CHOOSE gives; below, a function w of entries  *)
(* stands for the variable entry or for its next value.                    *)
Pick(s) == CHOOSE x \in s : TRUE
Summed(w, S, g) ==
    g = [s \in SUBSET S |-> IF s = {} THEN 0 ELSE w[Pick(s)].margin + g[s \ {Pick(s)}]]
Total(w, S) == (CHOOSE g : Summed(w, S, g))[S]

(* Exposure is such a sum.                                                 *)
LEMMA ExposureIsTotal == ASSUME NEW S PROVE Exposure(S) = Total(entry, S)
  BY DEF Exposure, MapThenSumSet, MapThenFoldSet, Total, Summed, Pick

(* Two such sums agree on every set both are defined on.                   *)
LEMMA SumsAgree ==
    ASSUME NEW w, NEW S, IsFiniteSet(S), NEW T, NEW g, NEW h,
           Summed(w, S, g), Summed(w, T, h), NEW U \in SUBSET S, U \in SUBSET T
    PROVE  g[U] = h[U]
  <1> DEFINE D == {V \in SUBSET S : V \in SUBSET T /\ g[V] # h[V]}
  <1> SUFFICES ASSUME D # {} PROVE FALSE
    OBVIOUS
  <1>1. PICK V \in D : \A W \in D : W \subseteq V => W = V
    <2>1. D \in SUBSET SUBSET S
      OBVIOUS
    <2> HIDE DEF D
    <2>2. QED
      BY <2>1, Smallest
  <1>2. ASSUME V # {} PROVE FALSE
    <2>1. Pick(V) \in V
      BY <1>2 DEF Pick
    <2>2. V \ {Pick(V)} \notin D
      BY <1>1, <2>1
    <2>3. g[V \ {Pick(V)}] = h[V \ {Pick(V)}]
      BY <2>2
    <2>4. g[V] = w[Pick(V)].margin + g[V \ {Pick(V)}]
      BY <1>2 DEF Summed
    <2>5. h[V] = w[Pick(V)].margin + h[V \ {Pick(V)}]
      BY <1>2 DEF Summed
    <2>6. QED
      BY <2>3, <2>4, <2>5
  <1>3. ASSUME V = {} PROVE FALSE
    BY <1>3 DEF Summed
  <1>4. QED
    BY <1>2, <1>3

(* The recursion the sum is defined by has a solution.                     *)
LEMMA SumExists ==
    ASSUME NEW w, NEW S, IsFiniteSet(S)
    PROVE  \E g : Summed(w, S, g)
  <1> DEFINE D == {T \in SUBSET S : ~\E g : Summed(w, T, g)}
  <1> SUFFICES ASSUME D # {} PROVE FALSE
    OBVIOUS
  <1>1. PICK T \in D : \A V \in D : V \subseteq T => V = T
    <2>1. D \in SUBSET SUBSET S
      OBVIOUS
    <2> HIDE DEF D
    <2>2. QED
      BY <2>1, Smallest
  <1> DEFINE Sum(V) == CHOOSE g : Summed(w, V, g)
             Rest(V) == V \ {Pick(V)}
             G == [V \in SUBSET T |-> IF V = {} THEN 0 ELSE w[Pick(V)].margin + Sum(Rest(V))[Rest(V)]]
  <1>2. ASSUME NEW V \in SUBSET T, V # {}
        PROVE  /\ Rest(V) \in SUBSET V /\ Rest(V) \in SUBSET T /\ IsFiniteSet(Rest(V))
               /\ Summed(w, Rest(V), Sum(Rest(V)))
    <2>1. Pick(V) \in V
      BY <1>2 DEF Pick
    <2>2. Rest(V) \notin D /\ Rest(V) \in SUBSET S
      BY <1>1, <2>1
    <2>3. IsFiniteSet(Rest(V))
      BY <2>2, FS_Subset
    <2>4. QED
      BY <2>2, <2>3
  <1>3. ASSUME NEW V \in SUBSET T, V # {}
        PROVE  G[Rest(V)] = Sum(Rest(V))[Rest(V)]
    <2>0. Rest(V) \in SUBSET T
      BY <1>2, <1>3
    <2>1. CASE Rest(V) = {}
      <3>1. Summed(w, Rest(V), Sum(Rest(V)))
        BY <1>2, <1>3
      <3> HIDE DEF Sum
      <3>2. Sum({})[{}] = 0
        BY <2>1, <3>1 DEF Summed
      <3>3. QED
        BY <2>0, <2>1, <3>2
    <2>2. CASE Rest(V) # {}
      <3> DEFINE R == Rest(V)
                 RR == Rest(R)
      <3>1. /\ R \in SUBSET T /\ IsFiniteSet(R) /\ Summed(w, R, Sum(R))
            /\ RR \in SUBSET R /\ IsFiniteSet(RR) /\ Summed(w, RR, Sum(RR))
        BY <1>2, <1>3, <2>2, <2>0
      <3>2. G[R] = w[Pick(R)].margin + Sum(RR)[RR]
        BY <2>0, <2>2
      <3> HIDE DEF Sum
      <3>3. Sum(R)[R] = w[Pick(R)].margin + Sum(R)[RR]
        <4>1. R # {} /\ R \in SUBSET R /\ RR = R \ {Pick(R)}
          BY <2>2
        <4> HIDE DEF R, RR
        <4>2. QED
          BY <3>1, <4>1 DEF Summed
      <3>4. Sum(R)[RR] = Sum(RR)[RR]
        <4> HIDE DEF R, RR
        <4>1. QED
          BY <3>1, SumsAgree
      <3>5. QED
        BY <3>2, <3>3, <3>4
    <2>3. QED
      BY <2>1, <2>2
  <1>4. Summed(w, T, G)
    <2>1. ASSUME NEW V \in SUBSET T
          PROVE  (IF V = {} THEN 0 ELSE w[Pick(V)].margin + Sum(Rest(V))[Rest(V)])
                   = (IF V = {} THEN 0 ELSE w[Pick(V)].margin + G[Rest(V)])
      <3>1. V # {} => G[Rest(V)] = Sum(Rest(V))[Rest(V)]
        BY <1>3
      <3> HIDE DEF G, Sum, Rest
      <3>2. QED
        BY <3>1
    <2> HIDE DEF Sum
    <2>2. QED
      BY <2>1 DEF Summed
  <1>5. QED
    BY <1>1, <1>4

(* So the sum of no entries is 0, and one entry more adds its margin.      *)
LEMMA TotalEmpty == ASSUME NEW w PROVE Total(w, {}) = 0
  <1>1. PICK g : Summed(w, {}, g)
    BY SumExists, FS_EmptySet
  <1>2. Summed(w, {}, CHOOSE h : Summed(w, {}, h))
    BY <1>1
  <1>3. QED
    BY <1>2 DEF Total, Summed

LEMMA TotalPick ==
    ASSUME NEW w, NEW S, IsFiniteSet(S), S # {}
    PROVE  /\ Pick(S) \in S
           /\ Total(w, S) = w[Pick(S)].margin + Total(w, S \ {Pick(S)})
  <1> DEFINE g == CHOOSE f : Summed(w, S, f)
             R == S \ {Pick(S)}
             h == CHOOSE f : Summed(w, R, f)
  <1>1. Pick(S) \in S
    BY DEF Pick
  <1>2. IsFiniteSet(R)
    BY FS_Subset
  <1>3. Summed(w, S, g)
    BY SumExists
  <1>4. Summed(w, R, h)
    BY <1>2, SumExists
  <1>5. Total(w, S) = g[S] /\ Total(w, R) = h[R]
    BY DEF Total
  <1> HIDE DEF g, h
  <1>6. g[S] = w[Pick(S)].margin + g[R] /\ R \in SUBSET S /\ R \in SUBSET R
    BY <1>3 DEF Summed
  <1> HIDE DEF R
  <1>7. g[R] = h[R]
    BY <1>3, <1>4, <1>6, SumsAgree
  <1>8. QED
    BY <1>1, <1>5, <1>6, <1>7 DEF R

(* Whatever element is taken first.                                        *)
LEMMA TotalTypeAndTake ==
    ASSUME NEW w, NEW S, IsFiniteSet(S), \A x \in S : w[x].margin \in Nat
    PROVE  /\ Total(w, S) \in Nat
           /\ \A x \in S : Total(w, S) = w[x].margin + Total(w, S \ {x})
  <1> DEFINE Good(T) == /\ Total(w, T) \in Nat
                        /\ \A x \in T : Total(w, T) = w[x].margin + Total(w, T \ {x})
             D == {T \in SUBSET S : ~Good(T)}
  <1> SUFFICES ASSUME D # {} PROVE FALSE
    OBVIOUS
  <1>1. PICK T \in D : \A V \in D : V \subseteq T => V = T
    <2>1. D \in SUBSET SUBSET S
      OBVIOUS
    <2> HIDE DEF D
    <2>2. QED
      BY <2>1, Smallest
  <1>2. ASSUME NEW V \in SUBSET T, V # T PROVE Good(V)
    <2> HIDE DEF Good
    <2> QED
      BY <1>1, <1>2
  <1>3. T # {}
    <2>1. Good({})
      BY TotalEmpty
    <2> HIDE DEF Good
    <2>2. QED
      BY <1>1, <2>1
  <1>4. IsFiniteSet(T) /\ T \subseteq S
    BY FS_Subset
  <1> DEFINE y == Pick(T)
  <1>5. y \in T /\ Total(w, T) = w[y].margin + Total(w, T \ {y})
    BY <1>3, <1>4, TotalPick
  <1> HIDE DEF y, D
  <1>6. Total(w, T \ {y}) \in Nat /\ w[y].margin \in Nat
    BY <1>2, <1>4, <1>5
  <1>7. Total(w, T) \in Nat
    BY <1>5, <1>6
  <1>8. ASSUME NEW x \in T PROVE Total(w, T) = w[x].margin + Total(w, T \ {x})
    <2>1. CASE x = y
      BY <1>5, <2>1
    <2>2. CASE x # y
      <3>1. /\ x \in T \ {y} /\ y \in T \ {x} /\ (T \ {x}) \ {y} = (T \ {y}) \ {x}
            /\ T \ {x} # T /\ T \ {y} # T
            /\ T \ {x} \in SUBSET T /\ T \ {y} \in SUBSET T /\ (T \ {y}) \ {x} \in SUBSET T
            /\ (T \ {y}) \ {x} # T
        BY <1>5, <2>2
      <3>2. Total(w, T \ {y}) = w[x].margin + Total(w, (T \ {y}) \ {x})
        BY <1>2, <3>1
      <3>3. Total(w, T \ {x}) = w[y].margin + Total(w, (T \ {y}) \ {x})
        BY <1>2, <3>1
      <3>4. Total(w, (T \ {y}) \ {x}) \in Nat /\ w[x].margin \in Nat
        BY <1>2, <1>4, <3>1
      <3>5. QED
        BY <1>5, <1>6, <3>2, <3>3, <3>4
    <2>3. QED
      BY <2>1, <2>2
  <1>9. Good(T)
    BY <1>7, <1>8
  <1>10. QED
    BY <1>1, <1>9 DEF D

(* The sum depends on the margins of its entries only.                     *)
LEMMA TotalSame ==
    ASSUME NEW w, NEW v, NEW S, IsFiniteSet(S), \A x \in S : w[x].margin = v[x].margin
    PROVE  Total(w, S) = Total(v, S)
  <1> DEFINE D == {T \in SUBSET S : Total(w, T) # Total(v, T)}
  <1> SUFFICES ASSUME D # {} PROVE FALSE
    OBVIOUS
  <1>1. PICK T \in D : \A V \in D : V \subseteq T => V = T
    <2>1. D \in SUBSET SUBSET S
      OBVIOUS
    <2> HIDE DEF D
    <2>2. QED
      BY <2>1, Smallest
  <1>2. T # {}
    BY TotalEmpty
  <1>3. IsFiniteSet(T) /\ T \subseteq S
    BY FS_Subset
  <1>4. /\ Pick(T) \in T
        /\ Total(w, T) = w[Pick(T)].margin + Total(w, T \ {Pick(T)})
        /\ Total(v, T) = v[Pick(T)].margin + Total(v, T \ {Pick(T)})
    BY <1>2, <1>3, TotalPick
  <1>5. Total(w, T \ {Pick(T)}) = Total(v, T \ {Pick(T)})
    BY <1>1, <1>4
  <1>6. Total(w, T) = Total(v, T)
    BY <1>3, <1>4, <1>5
  <1>7. QED
    BY <1>1, <1>6

(* Beside a set of entries, others of at most a margin a each.             *)
LEMMA TotalBeside ==
    ASSUME NEW w, NEW A, IsFiniteSet(A), NEW S, IsFiniteSet(S), A \cap S = {},
           NEW a \in Nat, \A x \in A : w[x].margin \in Nat,
           \A x \in S : w[x].margin \in Nat /\ w[x].margin <= a
    PROVE  Total(w, A \union S) <= Total(w, A) + Cardinality(S) * a
  <1> DEFINE D == {T \in SUBSET S : ~(Total(w, A \union T) <= Total(w, A) + Cardinality(T) * a)}
  <1> SUFFICES ASSUME D # {} PROVE FALSE
    OBVIOUS
  <1>1. PICK T \in D : \A V \in D : V \subseteq T => V = T
    <2>1. D \in SUBSET SUBSET S
      OBVIOUS
    <2> HIDE DEF D
    <2>2. QED
      BY <2>1, Smallest
  <1>2. Total(w, A) \in Nat
    BY TotalTypeAndTake
  <1>3. T # {}
    <2>1. ASSUME T = {} PROVE FALSE
      <3>1. Cardinality(T) = 0 /\ A \union T = A
        BY <2>1, FS_EmptySet
      <3>2. Total(w, A \union T) = Total(w, A)
        BY <3>1
      <3> HIDE DEF D
      <3>3. Cardinality(T) * a = 0
        BY <3>1, SMT
      <3>4. Total(w, A \union T) <= Total(w, A) + Cardinality(T) * a
        BY <1>2, <3>2, <3>3
      <3>5. QED
        BY <1>1, <3>4 DEF D
    <2>2. QED
      BY <2>1
  <1>4. PICK x \in T : TRUE
    BY <1>3
  <1> DEFINE R == T \ {x}
             k == Cardinality(R)
  <1>5. /\ IsFiniteSet(T) /\ IsFiniteSet(R) /\ IsFiniteSet(A \union T)
        /\ IsFiniteSet(A \union R)
        /\ Cardinality(T) = k + 1 /\ k \in Nat
    <2>1. IsFiniteSet(T) /\ IsFiniteSet(R)
      BY FS_Subset
    <2>2. Cardinality(R) = Cardinality(T) - 1
      BY <2>1, FS_RemoveElement
    <2>3. Cardinality(R) \in Nat /\ Cardinality(T) \in Nat
      BY <2>1, FS_CardinalityType
    <2>4. IsFiniteSet(A \union T) /\ IsFiniteSet(A \union R)
      BY <2>1, FS_Union
    <2> HIDE DEF R, D
    <2>5. QED
      BY <2>1, <2>2, <2>3, <2>4 DEF k
  <1>6. /\ x \in A \union T /\ (A \union T) \ {x} = A \union R
        /\ \A z \in A \union T : w[z].margin \in Nat
        /\ \A z \in A \union R : w[z].margin \in Nat
        /\ w[x].margin \in Nat /\ w[x].margin <= a
    OBVIOUS
  <1>7. Total(w, A \union T) = w[x].margin + Total(w, A \union R)
    BY <1>5, <1>6, TotalTypeAndTake
  <1>8. Total(w, A \union R) \in Nat /\ Total(w, A \union T) \in Nat
    BY <1>5, <1>6, TotalTypeAndTake
  <1>9. Total(w, A \union R) <= Total(w, A) + k * a
    BY <1>1, <1>4
  <1> HIDE DEF k
  <1>10. (k + 1) * a = k * a + a /\ k * a \in Nat
    BY <1>5, SMTT(60)
  <1>11. Total(w, A \union T) <= Total(w, A) + Cardinality(T) * a
    BY <1>2, <1>5, <1>6, <1>7, <1>8, <1>9, <1>10
  <1>12. QED
    BY <1>1, <1>11

-----------------------------------------------------------------------------
(* The exposure.                                                           *)

(* Every approved entry was sized within the asset cap; with that, the     *)
(* bound on the exposure carries over to the next step.                    *)
ExposureInv ==
    /\ TypeOK
    /\ \A e \in Live : entry[e].margin <= Profile.asset
    /\ ExposureBounded

LEMMA NextExposure == ExposureInv /\ [Next]_vars => ExposureInv'
  <1> SUFFICES ASSUME ExposureInv, [Next]_vars PROVE ExposureInv'
    OBVIOUS
  <1> DEFINE Bound == Profile.total + (Pending - 1) * Profile.asset
  <1>0. /\ Profile.total \in Nat /\ Profile.asset \in Nat /\ Pending \in Nat \ {0}
        /\ TypeOK /\ TypeOK'
        /\ \A e \in Entries : entry[e].margin \in Nat /\ entry'[e].margin \in Nat
        /\ Live \subseteq Entries /\ Live' \subseteq Entries
    BY RiskAssumption, NextTypeOK DEF ExposureInv, ProfileType, TypeOK, EntryType, Live, In
  <1>1. /\ Total(entry, Live) <= Bound
        /\ IsFiniteSet(Live)
        /\ Total(entry, Live) \in Nat
    <2>1. Total(entry, Live) <= Bound
      BY ExposureIsTotal DEF ExposureInv, ExposureBounded
    <2>2. IsFiniteSet(Live)
      BY <1>0, LiveFinite
    <2>3. QED
      BY <1>0, <2>1, <2>2, TotalTypeAndTake
  <1>2. SUFFICES /\ \A e \in Live' : entry'[e].margin <= Profile.asset
                 /\ Total(entry', Live') <= Bound
    <2>1. Exposure(Live)' = Total(entry', Live')
      BY DEF Exposure, MapThenSumSet, MapThenFoldSet, Total, Summed, Pick
    <2>2. QED
      BY <1>0, <1>2, <2>1 DEF ExposureInv, ExposureBounded
  <1>3. ASSUME NEW e \in Entries, NEW s \in Signals, NEW mode \in Modes, Authorize(s, mode, e)
        PROVE  /\ \A d \in Live' : entry'[d].margin <= Profile.asset
               /\ Total(entry', Live') <= Bound
    <2> DEFINE Q == In("queued")
               O == In("open")
               m == Margin(s)
    <2>1. /\ m \in Nat /\ ~(m > Profile.asset) /\ ~(Exposure(O) + m > Profile.total)
      <3>1. ~Refused(s, mode)
        BY <1>3 DEF Authorize
      <3>2. m \in Nat
        BY <1>0, <3>1, ApprovedFacts
      <3> HIDE DEF O, m
      <3>3. QED
        BY <3>1, <3>2 DEF Refused, SizeRefused, O, m
    <2>2. /\ IsFiniteSet(Q) /\ IsFiniteSet(O) /\ IsFiniteSet(O \union Q)
          /\ Cardinality(Q) \in 0..(Pending - 1)
      <3>1. /\ IsFiniteSet(Q) /\ IsFiniteSet(O) /\ Cardinality(Q) \in Nat
            /\ Cardinality(Q) < Pending
        BY <1>0, <1>3, LiveFinite DEF Authorize
      <3>2. IsFiniteSet(O \union Q)
        BY <3>1, FS_Union
      <3>3. QED
        BY <1>0, <3>1, <3>2
    <2>3. /\ Live = O \union Q /\ O \cap Q = {} /\ e \notin Live /\ Live' = Live \union {e}
      BY <1>0, <1>3 DEF Authorize, TypeOK, Live, In
    <2>4. /\ entry'[e].margin = m
          /\ \A d \in Live : entry'[d] = entry[d]
      BY <1>0, <1>3, <2>3 DEF Authorize, TypeOK
    <2> HIDE DEF Q, O, m
    <2>5. Total(entry', Live) = Total(entry, Live)
      BY <1>1, <2>4, TotalSame
    <2>6. Total(entry', Live') = m + Total(entry, Live)
      <3>1. IsFiniteSet(Live') /\ e \in Live' /\ Live' \ {e} = Live
        BY <1>1, <2>3, FS_AddElement
      <3>2. \A x \in Live' : entry'[x].margin \in Nat
        BY <1>0
      <3>3. Total(entry', Live') = entry'[e].margin + Total(entry', Live)
        BY <3>1, <3>2, TotalTypeAndTake
      <3>4. QED
        BY <2>4, <2>5, <3>3
    <2>7. /\ Total(entry, O) + m <= Profile.total /\ Total(entry, O) \in Nat
      <3>1. Exposure(O) = Total(entry, O)
        BY ExposureIsTotal
      <3>2. \A x \in O : entry[x].margin \in Nat
        BY <1>0, <2>3
      <3>3. Total(entry, O) \in Nat
        BY <2>2, <3>2, TotalTypeAndTake
      <3>4. QED
        BY <1>0, <2>1, <3>1, <3>3
    <2>8. Total(entry, Live) <= Total(entry, O) + Cardinality(Q) * Profile.asset
      <3>1. /\ \A x \in O : entry[x].margin \in Nat
            /\ \A x \in Q : entry[x].margin \in Nat /\ entry[x].margin <= Profile.asset
        BY <1>0, <2>3 DEF ExposureInv
      <3>2. QED
        BY <1>0, <2>2, <2>3, <3>1, TotalBeside
    <2>9. /\ Cardinality(Q) * Profile.asset <= (Pending - 1) * Profile.asset
          /\ Cardinality(Q) * Profile.asset \in Nat /\ (Pending - 1) * Profile.asset \in Nat
      <3>1. Cardinality(Q) \in Nat /\ Pending - 1 \in Nat /\ Cardinality(Q) <= Pending - 1
        BY <1>0, <2>2
      <3>2. QED
        BY <1>0, <3>1, Product
    <2>10. Total(entry', Live') <= Bound
      BY <1>0, <1>1, <2>1, <2>6, <2>7, <2>8, <2>9
    <2>11. QED
      BY <1>0, <2>1, <2>3, <2>4, <2>10 DEF ExposureInv
  <1>4. ASSUME NEW e \in Entries, Drop(e) \/ \E pnl \in Results : Settle(e, pnl)
        PROVE  /\ \A d \in Live' : entry'[d].margin <= Profile.asset
               /\ Total(entry', Live') <= Bound
    <2>1. /\ e \in Live /\ Live' = Live \ {e}
          /\ \A d \in Live' : entry'[d] = entry[d]
      BY <1>0, <1>4 DEF Drop, Settle, Forget, TypeOK, Live, In
    <2>2. IsFiniteSet(Live')
      BY <1>1, <2>1, FS_RemoveElement
    <2>3. Total(entry', Live') = Total(entry, Live')
      BY <2>1, <2>2, TotalSame
    <2>4. /\ Total(entry, Live) = entry[e].margin + Total(entry, Live')
          /\ Total(entry, Live') \in Nat
      <3>1. /\ \A x \in Live : entry[x].margin \in Nat
            /\ \A x \in Live' : entry[x].margin \in Nat
        BY <1>0, <2>1
      <3>2. QED
        BY <1>1, <2>1, <2>2, <3>1, TotalTypeAndTake
    <2>5. Bound \in Int
      <3>1. (Pending - 1) * Profile.asset \in Nat
        BY <1>0, Product
      <3>2. QED
        BY <1>0, <3>1
    <2> HIDE DEF Bound
    <2>6. Total(entry', Live') <= Bound
      BY <1>0, <1>1, <2>1, <2>3, <2>4, <2>5
    <2>7. QED
      BY <2>1, <2>6 DEF ExposureInv
  <1>5. ASSUME Live' = Live, entry' = entry
        PROVE  /\ \A d \in Live' : entry'[d].margin <= Profile.asset
               /\ Total(entry', Live') <= Bound
    BY <1>1, <1>5 DEF ExposureInv
  <1>6. ASSUME NEW e \in Entries, Execute(e) PROVE Live' = Live /\ entry' = entry
    BY <1>0, <1>6 DEF Execute, TypeOK, Live, In
  <1>7. CASE Keep \/ Tick \/ UNCHANGED vars
    <2>1. Live' = Live /\ entry' = entry
      BY <1>7 DEF Keep, Tick, vars, Live, In
    <2>2. QED
      BY <1>5, <2>1
  <1>8. QED
    BY <1>3, <1>4, <1>5, <1>6, <1>7 DEF Next, ExposureInv

LEMMA InitExposure == Init => ExposureInv
  <1> SUFFICES ASSUME Init PROVE ExposureInv
    OBVIOUS
  <1>1. Live = {}
    BY DEF Init, Live, In
  <1>2. Exposure({}) = 0
    BY ExposureIsTotal, TotalEmpty
  <1>3. (Pending - 1) * Profile.asset \in Nat /\ Profile.total \in Nat
    BY RiskAssumption, Product DEF ProfileType
  <1>4. ExposureBounded
    BY <1>1, <1>2, <1>3 DEF ExposureBounded
  <1>5. QED
    BY <1>1, <1>4, InitTypeOK DEF ExposureInv

(* The margin of all positions, the undecided ones included, is over the   *)
(* total cap by at most one asset cap for every other undecided approval   *)
(* (size_position adds to the exposure of the open positions only).        *)
THEOREM ExposureStaysBounded == Spec => []ExposureBounded
  <1>1. ExposureInv => ExposureBounded
    BY DEF ExposureInv
  <1>2. QED
    BY <1>1, InitExposure, NextExposure, PTL DEF Spec
=============================================================================
