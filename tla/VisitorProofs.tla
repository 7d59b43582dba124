---------------------------- MODULE VisitorProofs ----------------------------
(***************************************************************************)
(* Proofs about LiveDO, for any number of connections and addresses and    *)
(* any limits, and about the dashboard as a part of Visitor, for any       *)
(* models, filters, rankings and links.                                    *)
(***************************************************************************)
EXTENDS Visitor, FiniteSetTheorems, TLAPS

-----------------------------------------------------------------------------
(* The live feed.                                                          *)

(* Only streams that exist have sessions: the controller a connection adds *)
(* to the map is not in it yet.                                            *)
SessionsExist == \A c \in sessions : stream[c] # "none"

IndInv == TypeOK /\ SessionsCounted /\ WithinLimits /\ AlarmArmed /\ SessionsExist

-----------------------------------------------------------------------------
(* The sessions of an address are finitely many.                           *)
LEMMA OfIpFinite ==
  ASSUME NEW S \in SUBSET Conns, NEW i \in Ips
  PROVE  /\ IsFiniteSet(S) /\ IsFiniteSet(OfIp(i, S))
         /\ Cardinality(S) \in Nat /\ Cardinality(OfIp(i, S)) \in Nat
         /\ Cardinality(OfIp(i, S)) <= Cardinality(S)
<1>1. IsFiniteSet(S)
  BY FS_Subset, LiveDOAssumption
<1>2. OfIp(i, S) \subseteq S
  BY DEF OfIp
<1> QED
  BY <1>1, <1>2, FS_Subset, FS_CardinalityType

(* Adding a controller adds one to the count of its address only.          *)
LEMMA OfIpAdd ==
  ASSUME NEW S \in SUBSET Conns, NEW c \in Conns, c \notin S, NEW i \in Ips
  PROVE  Cardinality(OfIp(i, S \cup {c}))
           = Cardinality(OfIp(i, S)) + (IF i = IpOf[c] THEN 1 ELSE 0)
<1>1. CASE i = IpOf[c]
  <2>1. OfIp(i, S \cup {c}) = OfIp(i, S) \cup {c} /\ c \notin OfIp(i, S)
    BY <1>1 DEF OfIp
  <2> QED
    BY <1>1, <2>1, OfIpFinite, FS_AddElement
<1>2. CASE i # IpOf[c]
  <2>1. OfIp(i, S \cup {c}) = OfIp(i, S)
    BY <1>2 DEF OfIp
  <2> QED
    BY <1>2, <2>1, OfIpFinite
<1> QED
  BY <1>1, <1>2

(* Removing controllers that are there takes away their number.            *)
LEMMA OfIpRemove ==
  ASSUME NEW S \in SUBSET Conns, NEW T \in SUBSET S, NEW i \in Ips
  PROVE  Cardinality(OfIp(i, S \ T)) = Cardinality(OfIp(i, S)) - Cardinality(OfIp(i, T))
<1>1. OfIp(i, S \ T) = OfIp(i, S) \ OfIp(i, T)
  BY DEF OfIp
<1>2. OfIp(i, S) \cap OfIp(i, T) = OfIp(i, T)
  BY DEF OfIp
<1>3. /\ IsFiniteSet(OfIp(i, S)) /\ IsFiniteSet(OfIp(i, T))
      /\ Cardinality(OfIp(i, S)) \in Nat /\ Cardinality(OfIp(i, T)) \in Nat
  BY OfIpFinite, T \in SUBSET Conns
<1>4. Cardinality(OfIp(i, S) \ OfIp(i, T))
        = Cardinality(OfIp(i, S)) - Cardinality(OfIp(i, S) \cap OfIp(i, T))
  BY <1>3, FS_Difference
<1> QED
  BY <1>1, <1>2, <1>4

-----------------------------------------------------------------------------
(* What an accepted connection does to the maps.                           *)
LEMMA RegisterKeeps ==
  ASSUME IndInv, NEW c \in Conns, Register(c)
  PROVE  /\ stream' \in [Conns -> Streams] /\ sessions' \in SUBSET Conns
         /\ ipCounts' \in [Ips -> Nat]
         /\ SessionsCounted' /\ WithinLimits' /\ SessionsExist'
<1> USE DEF IndInv, TypeOK
<1>1. c \notin sessions
  BY DEF Register, SessionsExist
<1>2. stream' \in [Conns -> Streams] /\ sessions' \in SUBSET Conns
  BY DEF Register, Streams
<1>3. IpOf[c] \in Ips /\ ipCounts' \in [Ips -> Nat]
  <2>1. IpOf[c] \in Ips
    BY LiveDOAssumption
  <2> QED
    BY <2>1 DEF Register
<1>4. SessionsCounted'
  <2>1. SUFFICES ASSUME NEW i \in Ips
                 PROVE  ipCounts'[i] = Cardinality(OfIp(i, sessions \cup {c}))
    BY DEF Register, SessionsCounted, OfIp
  <2>2. ipCounts'[i] = ipCounts[i] + (IF i = IpOf[c] THEN 1 ELSE 0)
    BY <1>3 DEF Register
  <2>3. ipCounts[i] = Cardinality(OfIp(i, sessions))
    BY DEF SessionsCounted
  <2> QED
    BY <2>2, <2>3, <1>1, OfIpAdd
<1>5. WithinLimits'
  <2>1. Cardinality(sessions') = Cardinality(sessions) + 1
    BY <1>1, OfIpFinite, FS_AddElement, LiveDOAssumption, FS_Subset DEF Register
  <2>2. Cardinality(sessions) \in Nat
    BY LiveDOAssumption, FS_Subset, FS_CardinalityType
  <2>3. Cardinality(sessions') <= MAX_TOTAL_CLIENTS
    BY <2>1, <2>2, LiveDOAssumption DEF Register, HasRoom
  <2>4. ASSUME NEW i \in Ips
        PROVE  ipCounts'[i] <= MAX_PER_IP
    <3>1. ipCounts[i] <= MAX_PER_IP
      BY DEF SessionsCounted, WithinLimits
    <3> QED
      BY <3>1, <1>3, LiveDOAssumption DEF Register, HasRoom
  <2> QED
    BY <1>4, <2>3, <2>4 DEF WithinLimits, SessionsCounted
<1>6. SessionsExist'
  BY DEF SessionsExist, Register
<1> QED
  BY <1>2, <1>3, <1>4, <1>5, <1>6

(* What drop() does to the maps, whoever is dropped.                       *)
LEMMA DropKeeps ==
  ASSUME IndInv, NEW S, Drop(S)
  PROVE  /\ sessions' \subseteq sessions
         /\ ipCounts' \in [Ips -> Nat]
         /\ SessionsCounted' /\ WithinLimits'
<1> USE DEF IndInv, TypeOK
<1> DEFINE gone == S \cap sessions
<1>1. sessions' = sessions \ gone /\ gone \in SUBSET sessions
  BY DEF Drop
<1>2. ASSUME NEW i \in Ips
      PROVE  /\ ipCounts'[i] = ipCounts[i] - Cardinality(OfIp(i, gone))
             /\ ipCounts'[i] = Cardinality(OfIp(i, sessions'))
             /\ ipCounts'[i] \in Nat
  <2>1. ipCounts'[i] = IF Cardinality(OfIp(i, gone)) >= ipCounts[i] THEN 0
                       ELSE ipCounts[i] - Cardinality(OfIp(i, gone))
    BY DEF Drop
  <2>2. Cardinality(OfIp(i, sessions')) = ipCounts[i] - Cardinality(OfIp(i, gone))
    BY <1>1, OfIpRemove DEF SessionsCounted
  <2>3. /\ Cardinality(OfIp(i, gone)) \in Nat
        /\ Cardinality(OfIp(i, sessions')) \in Nat
    BY <1>1, OfIpFinite, gone \in SUBSET Conns, sessions' \in SUBSET Conns
  <2>4. ipCounts[i] \in Nat
    OBVIOUS
  <2> QED
    BY <2>1, <2>2, <2>3, <2>4
<1>3. ipCounts' \in [Ips -> Nat]
  BY <1>2 DEF Drop
<1>4. SessionsCounted'
  BY <1>2 DEF SessionsCounted, OfIp
<1>5. WithinLimits'
  <2>1. Cardinality(sessions') <= Cardinality(sessions) /\ Cardinality(sessions) \in Nat
        /\ Cardinality(sessions') \in Nat
    BY <1>1, LiveDOAssumption, FS_Subset, FS_CardinalityType
  <2>2. Cardinality(sessions') <= MAX_TOTAL_CLIENTS
    BY <2>1, LiveDOAssumption DEF WithinLimits
  <2>3. ASSUME NEW i \in Ips
        PROVE  Cardinality(OfIp(i, sessions')) <= MAX_PER_IP
    <3>1. ipCounts[i] <= MAX_PER_IP /\ ipCounts[i] \in Nat
      BY DEF SessionsCounted, WithinLimits
    <3>2. Cardinality(OfIp(i, gone)) \in Nat
      BY <1>1, OfIpFinite, gone \in SUBSET Conns
    <3> QED
      BY <3>1, <3>2, <1>2, LiveDOAssumption
  <2> QED
    BY <2>2, <2>3 DEF WithinLimits, OfIp
<1> QED
  BY <1>1, <1>3, <1>4, <1>5

-----------------------------------------------------------------------------
LEMMA InitEstablishes == Init => IndInv
<1> SUFFICES ASSUME Init PROVE IndInv
  OBVIOUS
<1>1. TypeOK
  BY DEF Init, TypeOK, Streams
<1>2. \A i \in Ips : OfIp(i, {}) = {}
  BY DEF OfIp
<1>3. Cardinality({}) = 0
  BY FS_EmptySet
<1>4. SessionsCounted /\ WithinLimits
  <2>1. sessions = {} /\ \A i \in Ips : ipCounts[i] = 0
    BY DEF Init
  <2>2. \A i \in Ips : Cardinality(OfIp(i, sessions)) = 0
    BY <1>2, <1>3, <2>1
  <2> QED
    BY <1>3, <2>1, <2>2, LiveDOAssumption DEF SessionsCounted, WithinLimits
<1>5. AlarmArmed /\ SessionsExist
  BY DEF Init, AlarmArmed, SessionsExist
<1> QED
  BY <1>1, <1>4, <1>5 DEF IndInv

LEMMA StepPreserves == IndInv /\ [Next]_vars => IndInv'
<1> SUFFICES ASSUME IndInv, [Next]_vars PROVE IndInv'
  OBVIOUS
<1> USE DEF TypeOK
<1>1. ASSUME NEW c \in Conns, Connect(c) PROVE IndInv'
  BY <1>1, RegisterKeeps DEF IndInv, Connect, AlarmArmed
<1>2. ASSUME NEW c \in Conns, ConnectUnalarmed(c) PROVE IndInv'
  <2>1. faults' \in Nat /\ faults' # 0
    BY <1>2 DEF ConnectUnalarmed, IndInv
  <2> QED
    BY <1>2, <2>1, RegisterKeeps DEF IndInv, ConnectUnalarmed, AlarmArmed
<1>3. ASSUME NEW c \in Conns, Break(c) PROVE IndInv'
  BY <1>3 DEF IndInv, Break, Streams, SessionsCounted, WithinLimits, AlarmArmed,
              SessionsExist, OfIp
<1>4. ASSUME NEW c \in Conns, Cancel(c) PROVE IndInv'
  <2>1. stream' \in [Conns -> Streams]
    BY <1>4 DEF IndInv, Cancel, Streams
  <2>2. sessions' \subseteq sessions /\ ipCounts' \in [Ips -> Nat]
        /\ SessionsCounted' /\ WithinLimits'
    BY <1>4, DropKeeps DEF Cancel
  <2>3. AlarmArmed' /\ SessionsExist'
    BY <1>4, <2>2 DEF IndInv, Cancel, AlarmArmed, SessionsExist
  <2> QED
    BY <1>4, <2>1, <2>2, <2>3 DEF IndInv, Cancel
<1>5. CASE Broadcast
  <2>1. sessions' \subseteq sessions /\ ipCounts' \in [Ips -> Nat]
        /\ SessionsCounted' /\ WithinLimits'
    BY <1>5, DropKeeps DEF Broadcast
  <2> QED
    BY <1>5, <2>1 DEF IndInv, Broadcast, AlarmArmed, SessionsExist
<1>6. CASE Alarm
  <2>1. sessions' \subseteq sessions /\ ipCounts' \in [Ips -> Nat]
        /\ SessionsCounted' /\ WithinLimits'
    BY <1>6, DropKeeps DEF Alarm
  <2> QED
    BY <1>6, <2>1 DEF IndInv, Alarm, AlarmArmed, SessionsExist
<1>7. CASE AlarmFails
  <2>1. sessions' \subseteq sessions /\ ipCounts' \in [Ips -> Nat]
        /\ SessionsCounted' /\ WithinLimits'
    BY <1>7, DropKeeps DEF AlarmFails
  <2> QED
    BY <1>7, <2>1 DEF IndInv, AlarmFails, AlarmArmed, SessionsExist
<1>8. CASE Evict
  <2>1. \A i \in Ips : OfIp(i, {}) = {}
    BY DEF OfIp
  <2>2. Cardinality({}) = 0
    BY FS_EmptySet
  <2>3. SessionsCounted' /\ WithinLimits'
    BY <1>8, <2>1, <2>2, LiveDOAssumption DEF Evict, SessionsCounted, WithinLimits, OfIp
  <2>4. TypeOK' /\ AlarmArmed' /\ SessionsExist'
    BY <1>8 DEF IndInv, Evict, Streams, AlarmArmed, SessionsExist
  <2> QED
    BY <2>3, <2>4 DEF IndInv
<1>9. CASE UNCHANGED vars
  BY <1>9 DEF vars, IndInv, SessionsCounted, WithinLimits, AlarmArmed, SessionsExist, OfIp
<1> QED
  BY <1>1, <1>2, <1>3, <1>4, <1>5, <1>6, <1>7, <1>8, <1>9 DEF Next

-----------------------------------------------------------------------------
LEMMA IndInvHolds == Spec => []IndInv
  BY InitEstablishes, StepPreserves, PTL DEF Spec

(* The maps, the streams and the alarm keep their types.                   *)
THEOREM TypeCorrect == Spec => []TypeOK
<1>1. IndInv => TypeOK
  BY DEF IndInv
<1> QED
  BY <1>1, IndInvHolds, PTL

(* No place is leaked and none is given back twice, for any number of      *)
(* clients: an address's counter is the number of its sessions.            *)
THEOREM CountsAreExact == Spec => []SessionsCounted
<1>1. IndInv => SessionsCounted
  BY DEF IndInv
<1> QED
  BY <1>1, IndInvHolds, PTL

(* Both limits hold of the sessions themselves, whatever the limits are.   *)
THEOREM LimitsHold == Spec => []WithinLimits
<1>1. IndInv => WithinLimits
  BY DEF IndInv
<1> QED
  BY <1>1, IndInvHolds, PTL

(* While storage works, sessions never outlive their alarm.                *)
THEOREM SessionsArePinged == Spec => []AlarmArmed
<1>1. IndInv => AlarmArmed
  BY DEF IndInv
<1> QED
  BY <1>1, IndInvHolds, PTL

-----------------------------------------------------------------------------
(* The dashboard's rows.  What the page holds is a record with the fields  *)
(* of its state, whatever they are.                                        *)
IsState(s) ==
  s \in [selected : {s.selected}, set : BOOLEAN, provider : {s.provider}, loading : BOOLEAN,
         error : BOOLEAN,
         data : [of : {s.data.of}, rows : {s.data.rows}, fresh : BOOLEAN]]

(* Every request under way is for the filter that was last committed, and  *)
(* so are the rows that are about to be shown: an answer ends the loading  *)
(* that a new filter began, and only one for that filter can come.         *)
Following ==
  /\ IsState(queued)
  /\ \A r \in requests : r.of = page.provider
  /\ ~queued.loading /\ ~queued.error => queued.data.of = page.provider

LEMMA BlankState ==
  ASSUME NEW sel, NEW set \in BOOLEAN, NEW s, s = [D!Blank EXCEPT !.selected = sel, !.set = set]
  PROVE  IsState(s) /\ s.loading
BY DEF D!Blank, D!NoData, IsState

LEMMA InitFollows == D!Init => Following
<1> SUFFICES ASSUME D!Init PROVE Following
  OBVIOUS
<1>1. PICK link : /\ queued = [D!Blank EXCEPT !.selected = D!Parsed(link), !.set = link # <<>>]
                  /\ page = D!Blank /\ requests = {[of |-> All, initial |-> TRUE]}
  BY DEF D!Init
<1>2. IsState(queued) /\ queued.loading
  BY <1>1, BlankState
<1> QED
  BY <1>1, <1>2 DEF D!Blank, Following

LEMMA CommitFollows ==
  ASSUME Following, D!Commit
  PROVE  Following'
<1> DEFINE seen     == [queued EXCEPT !.data.fresh = FALSE, !.set = FALSE]
           filtered == queued.provider # page.provider
           data     == [queued.data EXCEPT !.fresh = FALSE]
<1>1. IsState(queued)
  BY DEF Following
<1>2. /\ seen.provider = queued.provider /\ seen.loading = queued.loading
      /\ seen.error = queued.error /\ seen.data.of = queued.data.of /\ IsState(seen)
  <2>1. data \in [of : {queued.data.of}, rows : {queued.data.rows}, fresh : BOOLEAN]
    BY <1>1 DEF IsState
  <2>2. data.of = queued.data.of /\ data.rows = queued.data.rows
    BY <2>1
  <2>3. /\ seen.data = data /\ seen.provider = queued.provider /\ seen.loading = queued.loading
        /\ seen.error = queued.error /\ seen.selected = queued.selected
        /\ seen \in [selected : {queued.selected}, set : BOOLEAN, provider : {queued.provider},
                     loading : BOOLEAN, error : BOOLEAN, data : {data}]
    BY <1>1 DEF IsState
  <2> HIDE DEF seen, data
  <2> QED
    BY <2>1, <2>2, <2>3 DEF IsState
<1> HIDE DEF seen
<1> DEFINE rows  == queued.data.rows
           looks == \/ queued.data = D!NoData \/ queued.data.fresh
                    \/ Len(queued.selected) # Len(page.selected)
           leads == looks /\ rows # <<>> /\ queued.selected = <<>> /\ ~auto
           sel   == IF filtered THEN <<>> ELSE IF leads THEN D!Leaders(rows) ELSE seen.selected
           set   == filtered \/ leads
<1>3. queued' = [seen EXCEPT !.selected = sel, !.set = set,
                             !.loading = @ \/ filtered, !.error = @ /\ ~filtered]
  BY Zenon DEF D!Commit, seen
<1> HIDE DEF sel, leads
<1>4. /\ page' = seen
      /\ IF filtered THEN requests' = {[of |-> queued.provider, initial |-> TRUE]}
                     ELSE requests' = requests
  BY DEF D!Commit, D!Fetch, seen
<1>5. /\ IsState(queued') /\ queued'.provider = queued.provider
      /\ ~queued'.loading => ~queued.loading /\ ~filtered
      /\ ~queued'.error => ~queued.error \/ filtered
      /\ queued'.data.of = queued.data.of
  BY <1>2, <1>3 DEF IsState
<1>6. page'.provider = queued.provider
  BY <1>2, <1>4
<1>7. CASE filtered
  BY <1>4, <1>5, <1>6, <1>7 DEF Following
<1>8. CASE ~filtered
  BY <1>4, <1>5, <1>6, <1>8 DEF Following
<1> QED
  BY <1>7, <1>8

LEMMA StepFollows ==
  ASSUME Following, [D!Next]_(D!vars)
  PROVE  Following'
<1>1. CASE D!Refetch
  BY <1>1 DEF D!Refetch, D!Fetch, Following
<1>2. ASSUME NEW r \in requests, D!Answer(r)
      PROVE  Following'
  <2>1. PICK rows : queued' = [queued EXCEPT !.data = [of |-> r.of, rows |-> rows, fresh |-> TRUE],
                                             !.loading = FALSE, !.error = FALSE]
    BY <1>2 DEF D!Answer
  <2>2. IsState(queued') /\ queued'.data.of = r.of
    BY <2>1 DEF Following, IsState
  <2> QED
    BY <1>2, <2>2 DEF D!Answer, Following
<1>3. ASSUME NEW r \in requests, D!Fail(r)
      PROVE  Following'
  <2>1. IsState(queued') /\ (queued' = queued \/ queued'.error)
    BY <1>3 DEF D!Fail, Following, IsState
  <2> QED
    BY <1>3, <2>1 DEF D!Fail, Following
<1>4. CASE D!HashChanged
  <2>1. CASE D!Leave
    <3>1. IsState(D!Blank) /\ D!Blank.loading
      BY DEF D!Blank, D!NoData, IsState
    <3> QED
      BY <2>1, <3>1 DEF D!Leave, Following
  <2>2. CASE D!Mount(hash.compare)
    <3>1. IsState(queued') /\ queued'.loading
      BY <2>2, BlankState DEF D!Mount
    <3> QED
      BY <2>2, <3>1 DEF D!Mount, D!Fetch, D!Blank, Following
  <2>3. CASE D!Adopt
    <3>1. /\ IsState(queued') /\ queued'.loading = queued.loading
          /\ queued'.error = queued.error /\ queued'.data = queued.data
      BY <2>3 DEF D!Adopt, Following, IsState
    <3> QED
      BY <2>3, <3>1 DEF D!Adopt, Following
  <2> QED
    BY <1>4, <2>1, <2>2, <2>3 DEF D!HashChanged
<1>5. CASE D!Edit \/ \E q \in Providers : D!ChangeProvider(q)
  <2>1. /\ IsState(queued') /\ queued'.loading = queued.loading
        /\ queued'.error = queued.error /\ queued'.data = queued.data
    <3>1. CASE D!Edit
      <4>1. PICK sel : queued' = [queued EXCEPT !.selected = sel, !.set = TRUE]
        BY <3>1 DEF D!Edit
      <4> QED
        BY <4>1 DEF Following, IsState
    <3>2. CASE \E q \in Providers : D!ChangeProvider(q)
      <4>1. PICK q : queued' = [queued EXCEPT !.provider = q]
        BY <3>2 DEF D!ChangeProvider
      <4> QED
        BY <4>1 DEF Following, IsState
    <3> QED
      BY <1>5, <3>1, <3>2
  <2>2. UNCHANGED <<page, requests>>
    BY <1>5 DEF D!Edit, D!ChangeProvider
  <2> QED
    BY <2>1, <2>2 DEF Following
<1>6. ASSUME UNCHANGED <<page, queued, requests>>
      PROVE  Following'
  BY <1>6 DEF Following, IsState
<1> QED
  BY <1>1, <1>2, <1>3, <1>4, <1>5, <1>6, CommitFollows
  DEF D!Next, D!OpenLink, D!Navigate, D!vars

LEMMA VisitorFollows == VisitorSpec => []Following
<1>1. VisitorInit => Following
  BY InitFollows DEF VisitorInit
<1>2. Following /\ [VisitorNext]_<<part, vars, dashboard>> => Following'
  <2> SUFFICES ASSUME Following, [VisitorNext]_<<part, vars, dashboard>>
               PROVE  Following'
    OBVIOUS
  <2>1. [D!Next]_(D!vars)
    BY DEF VisitorNext, dashboard, D!vars
  <2> QED
    BY <2>1, StepFollows
<1> QED
  BY <1>1, <1>2, PTL DEF VisitorSpec

(* However filter changes, refetches, failures, links and visits of other  *)
(* pages interleave with commits and answers, the rows on display are      *)
(* those of the filter on display (useLeaderboard.ts, Dashboard.tsx).      *)
THEOREM RowsAreOfTheFilter == VisitorSpec => []RowsFollowFilter
<1>1. Following => RowsFollowFilter
  BY DEF Following, RowsFollowFilter, D!RowsFollowFilter, D!Shows
<1> QED
  BY <1>1, VisitorFollows, PTL

-----------------------------------------------------------------------------
Counted == clicks \in Nat

LEMMA ClicksCounted == VisitorSpec => []Counted
<1>1. VisitorInit => Counted
  <2>1. D!Init => clicks = 0
    BY DEF D!Init
  <2> QED
    BY <2>1 DEF VisitorInit, Counted
<1>2. Counted /\ [VisitorNext]_<<part, vars, dashboard>> => Counted'
  <2>1. D!Next => D!Click \/ clicks' = clicks
    BY DEF D!Next, D!Commit, D!Refetch, D!HashChanged, D!Edit, D!Answer, D!Fail,
           D!ChangeProvider, D!OpenLink, D!Navigate
  <2>2. [VisitorNext]_<<part, vars, dashboard>> => D!Next \/ clicks' = clicks
    BY DEF VisitorNext, dashboard
  <2>3. clicks \in Nat /\ D!Click => clicks' \in Nat
    BY DEF D!Click
  <2> QED
    BY <2>1, <2>2, <2>3 DEF Counted
<1> QED
  BY <1>1, <1>2, PTL DEF VisitorSpec

(* No effect and no event leads back from another page to the dashboard:   *)
(* only a click does (Dashboard.tsx, App.tsx).                             *)
THEOREM OnlyTheUserReturns == VisitorSpec => NavigationSticks
<1> DEFINE Returns == hash.page = "other" /\ hash'.page = "dashboard" => clicks' > clicks
<1>1. Counted /\ [VisitorNext]_<<part, vars, dashboard>> => [Returns]_(D!vars)
  <2> SUFFICES ASSUME clicks \in Nat, D!Next, hash.page = "other", hash'.page = "dashboard"
               PROVE  clicks' > clicks
    BY DEF VisitorNext, dashboard, D!vars, Counted
  <2>1. CASE D!Click
    BY <2>1 DEF D!Click
  <2>2. CASE hash' = hash
    BY <2>2
  <2> QED
    BY <2>1, <2>2 DEF D!Next, D!Commit, D!Own, D!Refetch, D!HashChanged, D!Leave, D!Adopt,
       D!Edit, D!Answer, D!Fail, D!ChangeProvider, D!OpenLink, D!Navigate
<1> HIDE DEF Returns
<1>2. VisitorSpec => [][Returns]_(D!vars)
  BY <1>1, ClicksCounted, PTL DEF VisitorSpec
<1> QED
  BY <1>2 DEF NavigationSticks, D!NavigationSticks, Returns

-----------------------------------------------------------------------------
(* What the page holds is what it should be.                               *)

(* Every rank up to their number is that of one of finitely many numbers.  *)
LEMMA NthExists ==
  ASSUME NEW S \in SUBSET Nat, IsFiniteSet(S)
  PROVE  /\ Cardinality(S) \in Nat
         /\ \A n \in 1 .. Cardinality(S) :
              \E i \in S : Cardinality({j \in S : j <= i}) = n
<1> DEFINE UpTo(i) == {j \in S : j <= i}
           rank    == [i \in S |-> Cardinality(UpTo(i))]
           size    == Cardinality(S)
<1>1. size \in Nat
  BY FS_CardinalityType
<1>2. ASSUME NEW i \in S
      PROVE  IsFiniteSet(UpTo(i)) /\ Cardinality(UpTo(i)) \in 1 .. size
  <2>1. UpTo(i) \in SUBSET S /\ i \in UpTo(i)
    OBVIOUS
  <2> HIDE DEF UpTo
  <2>2. IsFiniteSet(UpTo(i)) /\ Cardinality(UpTo(i)) <= size
    BY <2>1, FS_Subset
  <2>3. Cardinality(UpTo(i)) \in Nat /\ Cardinality(UpTo(i)) # 0
    BY <2>1, <2>2, FS_CardinalityType, FS_EmptySet
  <2> HIDE DEF size
  <2> QED
    BY <1>1, <2>2, <2>3
<1>3. ASSUME NEW i \in S, NEW k \in S, i < k
      PROVE  Cardinality(UpTo(i)) # Cardinality(UpTo(k))
  <2>0. i \in Nat /\ k \in Nat /\ \A j \in S : j \in Nat
    OBVIOUS
  <2>1. UpTo(i) \in SUBSET UpTo(k) /\ k \in UpTo(k) /\ k \notin UpTo(i)
    <3>1. ASSUME NEW j \in UpTo(i) PROVE j \in UpTo(k)
      BY <1>3, <2>0
    <3>2. k \in UpTo(k)
      BY <2>0
    <3>3. k \notin UpTo(i)
      BY <1>3, <2>0
    <3> QED
      BY <3>1, <3>2, <3>3
  <2>2. IsFiniteSet(UpTo(k))
    BY <1>2
  <2> HIDE DEF UpTo
  <2> QED
    BY <2>1, <2>2, FS_Subset
<1>4. \A i \in S : rank[i] = Cardinality(UpTo(i))
  OBVIOUS
<1> HIDE DEF UpTo
<1>5. rank \in Injection(S, 1 .. size)
  <2>1. \A i \in S : rank[i] \in 1 .. size
    BY <1>2, <1>4
  <2>2. ASSUME NEW i \in S, NEW k \in S, rank[i] = rank[k] PROVE i = k
    <3>1. i \in Nat /\ k \in Nat /\ ~(i < k) /\ ~(k < i)
      BY <1>3, <1>4, <2>2
    <3> QED
      BY <3>1
  <2> QED
    BY <2>1, <2>2 DEF Injection, IsInjective
<1>6. IsFiniteSet(1 .. size) /\ Cardinality(1 .. size) = size
  <2> HIDE DEF size
  <2>1. Cardinality(1 .. size) = IF 1 > size THEN 0 ELSE size - 1 + 1
    BY <1>1, FS_Interval
  <2> QED
    BY <1>1, <2>1, FS_Interval
<1> HIDE DEF rank
<1>7. rank \in Surjection(S, 1 .. size)
  BY <1>5, <1>6, FS_Injection
<1> QED
  BY <1>1, <1>4, <1>7 DEF Surjection, UpTo

LEMMA MinIs ==
  ASSUME NEW x \in Int, NEW y \in Int
  PROVE  D!Min({x, y}) = IF x <= y THEN x ELSE y
<1> DEFINE low == IF x <= y THEN x ELSE y
<1>1. \A z \in {x, y} : (\A u \in {x, y} : z =< u) <=> z = low
  BY SMT
<1>2. low \in {x, y}
  OBVIOUS
<1> HIDE DEF low
<1>3. D!Min({x, y}) = low
  BY <1>1, <1>2 DEF D!Min
<1> QED
  BY <1>3 DEF low

LEMMA SameCardinality == \A S : D!Cardinality(S) = Cardinality(S)
BY Zenon DEF D!Cardinality, Cardinality

(* However a link is spelled, a selection comes of it.                     *)
LEMMA ParsedSelects ==
  ASSUME NEW link \in Seq(Models)
  PROVE  D!Parsed(link) \in D!Selection
<1> DEFINE firsts == {i \in DOMAIN link : \A j \in 1 .. i - 1 : link[j] # link[i]}
           Rank(i) == D!Cardinality({j \in firsts : j <= i})
           Nth(n) == CHOOSE i \in firsts : Rank(i) = n
           len    == D!Min({MAX_COMPARE, D!Cardinality(firsts)})
<1>1. D!Parsed(link) = [n \in 1 .. len |-> link[Nth(n)]]
  BY DEF D!Parsed
<1>2. DOMAIN link = 1 .. Len(link) /\ Len(link) \in Nat
  OBVIOUS
<1>3. firsts \in SUBSET Nat /\ IsFiniteSet(firsts)
  <2>1. firsts \in SUBSET (1 .. Len(link)) /\ firsts \in SUBSET Nat
    BY <1>2
  <2>2. IsFiniteSet(1 .. Len(link))
    BY <1>2, FS_Interval
  <2> HIDE DEF firsts
  <2> QED
    BY <2>1, <2>2, FS_Subset
<1>4. ASSUME NEW i \in firsts, NEW k \in firsts, link[i] = link[k]
      PROVE  i = k
  <2>1. i \in 1 .. Len(link) /\ k \in 1 .. Len(link)
    BY <1>2
  <2>2. ~(i < k) /\ ~(k < i)
    BY <1>4, <2>1
  <2> QED
    BY <2>1, <2>2
<1>5. \A i \in firsts : link[i] \in Models
  OBVIOUS
<1> HIDE DEF firsts
<1>6. /\ Cardinality(firsts) \in Nat
      /\ \A n \in 1 .. Cardinality(firsts) : \E i \in firsts : Rank(i) = n
  BY <1>3, NthExists, SameCardinality
<1> HIDE DEF Rank
<1>7. len = IF MAX_COMPARE <= Cardinality(firsts) THEN MAX_COMPARE ELSE Cardinality(firsts)
  <2>1. MAX_COMPARE \in Int /\ Cardinality(firsts) \in Int
    BY <1>6, VisitorAssumption
  <2> QED
    BY <2>1, MinIs, SameCardinality
<1> HIDE DEF len
<1>8. len \in Nat /\ len <= MAX_COMPARE /\ len <= Cardinality(firsts)
  BY <1>6, <1>7, VisitorAssumption
<1>9. \A n \in 1 .. len : Nth(n) \in firsts /\ Rank(Nth(n)) = n
  BY <1>6, <1>8
<1> HIDE DEF Nth
<1> DEFINE s == [n \in 1 .. len |-> link[Nth(n)]]
<1>10. s \in Seq(Models) /\ Len(s) = len /\ DOMAIN s = 1 .. len
  BY <1>5, <1>8, <1>9
<1>11. \A n, m \in 1 .. len : s[n] = s[m] => n = m
  BY <1>4, <1>9
<1> HIDE DEF s
<1>12. s \in D!Selection
  BY <1>8, <1>10, <1>11 DEF D!Selection, D!IsInjective
<1> QED
  BY <1>1, <1>12 DEF s

LEMMA RowsLead ==
  ASSUME NEW rows \in D!Rows
  PROVE  D!Leaders(rows) \in D!Selection
<1>1. /\ rows \in Seq(Models)
      /\ \A i, j \in DOMAIN rows : rows[i] = rows[j] => i = j
  <2>1. CASE rows = <<>>
    BY <2>1
  <2>2. CASE rows \in UNION {Boards[x] : x \in Providers}
    BY <2>2, VisitorAssumption
  <2> QED
    BY <2>1, <2>2 DEF D!Rows
<1> DEFINE n == IF Len(rows) < TOP THEN Len(rows) ELSE TOP
           s == SubSeq(rows, 1, n)
<1>2. n \in Nat /\ n <= Len(rows) /\ n <= MAX_COMPARE /\ Len(rows) \in Nat
  BY <1>1, VisitorAssumption
<1> HIDE DEF n
<1>3. /\ s \in Seq(Models) /\ Len(s) = n /\ DOMAIN s = 1 .. n
      /\ \A i \in 1 .. n : s[i] = rows[i] /\ i \in DOMAIN rows
  BY <1>1, <1>2
<1>4. D!Leaders(rows) = s
  BY DEF D!Leaders, n
<1> HIDE DEF s
<1>5. \A i, j \in DOMAIN s : s[i] = s[j] => i = j
  BY <1>1, <1>3
<1>6. s \in D!Selection
  BY <1>2, <1>3, <1>5 DEF D!Selection, D!IsInjective
<1> QED
  BY <1>4, <1>6

(* An edit of a selection is one.                                          *)
LEMMA EditsSelect ==
  ASSUME NEW sel \in D!Selection, NEW ms \in SUBSET Models, NEW s \in D!Edits(sel, ms)
  PROVE  s \in D!Selection
<1>1. /\ sel \in Seq(Models) /\ Len(sel) <= MAX_COMPARE /\ Len(sel) \in Nat
      /\ MAX_COMPARE \in Nat /\ DOMAIN sel = 1 .. Len(sel)
      /\ \A i, j \in 1 .. Len(sel) : sel[i] = sel[j] => i = j
  BY VisitorAssumption DEF D!Selection, D!IsInjective
<1>2. CASE s = <<>>
  BY <1>1, <1>2 DEF D!Selection, D!IsInjective
<1>3. ASSUME NEW i \in DOMAIN sel, s = D!RemoveAt(sel, i)
      PROVE  s \in D!Selection
  <2>1. i \in 1 .. Len(sel) /\ i \in Nat /\ 1 <= i /\ i <= Len(sel)
    BY <1>1
  <2> DEFINE front == SubSeq(sel, 1, i - 1)
             back  == SubSeq(sel, i + 1, Len(sel))
             from(j) == IF j < i THEN j ELSE j + 1
  <2>2. s = front \o back
    BY <1>3 DEF D!RemoveAt
  <2>3. /\ front \in Seq(Models) /\ Len(front) = i - 1
        /\ \A j \in 1 .. i - 1 : front[j] = sel[j]
    BY <1>1, <2>1
  <2>4. /\ back \in Seq(Models) /\ Len(back) = Len(sel) - i
        /\ \A j \in 1 .. Len(sel) - i : back[j] = sel[i + j]
    BY <1>1, <2>1
  <2> HIDE DEF front, back
  <2>5. s \in Seq(Models) /\ Len(s) = Len(front) + Len(back)
    <3>1. front \in Seq(Models) /\ back \in Seq(Models)
      BY <2>3, <2>4
    <3>2. front \o back \in Seq(Models) /\ Len(front \o back) = Len(front) + Len(back)
      BY <3>1
    <3> QED
      BY <2>2, <3>2
  <2>6. Len(s) = Len(sel) - 1 /\ DOMAIN s = 1 .. Len(sel) - 1
    BY <1>1, <2>1, <2>3, <2>4, <2>5
  <2>7. ASSUME NEW j \in 1 .. Len(sel) - 1
        PROVE  s[j] = sel[from(j)] /\ from(j) \in 1 .. Len(sel)
    <3>1. CASE j < i
      <4>1. j \in 1 .. i - 1
        BY <2>1, <3>1
      <4>2. s[j] = front[j]
        BY <2>1, <2>2, <2>3, <2>4, <4>1
      <4> QED
        BY <1>1, <2>3, <3>1, <4>1, <4>2
    <3>2. CASE ~(j < i)
      <4>1. j - (i - 1) \in 1 .. Len(sel) - i /\ i + (j - (i - 1)) = j + 1
        BY <1>1, <2>1, <3>2
      <4>2. s[j] = back[j - (i - 1)]
        <5> HIDE DEF from
        <5>1. /\ front \in Seq(Models) /\ back \in Seq(Models)
              /\ Len(front) = i - 1 /\ Len(back) = Len(sel) - i
          BY <2>3, <2>4
        <5>2. j > Len(front) /\ j <= Len(front) + Len(back) /\ j \in Nat
          BY <1>1, <2>1, <3>2, <5>1
        <5>3. (front \o back)[j] = back[j - Len(front)]
          BY <5>1, <5>2
        <5> QED
          BY <2>2, <5>1, <5>3
      <4>3. s[j] = sel[j + 1]
        BY <2>4, <4>1, <4>2
      <4> QED
        BY <1>1, <3>2, <4>3
    <3> QED
      BY <3>1, <3>2
  <2>8. \A j, k \in 1 .. Len(sel) - 1 : from(j) = from(k) => j = k
    BY <1>1, <2>1
  <2> HIDE DEF from
  <2>9. \A j, k \in DOMAIN s : s[j] = s[k] => j = k
    BY <1>1, <2>6, <2>7, <2>8
  <2> QED
    BY <1>1, <2>5, <2>6, <2>9 DEF D!Selection, D!IsInjective
<1>4. ASSUME NEW i \in DOMAIN sel, NEW m \in ms, m \notin D!ToSet(sel),
             s = [sel EXCEPT ![i] = m]
      PROVE  s \in D!Selection
  <2>1. /\ s \in Seq(Models) /\ Len(s) = Len(sel) /\ DOMAIN s = 1 .. Len(sel)
        /\ \A j \in 1 .. Len(sel) : s[j] = IF j = i THEN m ELSE sel[j]
    BY <1>1, <1>4
  <2>2. \A j \in 1 .. Len(sel) : sel[j] # m
    BY <1>1, <1>4 DEF D!ToSet
  <2>3. \A j, k \in DOMAIN s : s[j] = s[k] => j = k
    BY <1>1, <2>1, <2>2
  <2> QED
    BY <1>1, <2>1, <2>3 DEF D!Selection, D!IsInjective
<1>5. ASSUME NEW m \in ms, m \notin D!ToSet(sel), Len(sel) < MAX_COMPARE,
             s = Append(sel, m)
      PROVE  s \in D!Selection
  <2>1. /\ s \in Seq(Models) /\ Len(s) = Len(sel) + 1 /\ DOMAIN s = 1 .. Len(sel) + 1
        /\ \A j \in 1 .. Len(sel) : s[j] = sel[j]
        /\ s[Len(sel) + 1] = m
    BY <1>1, <1>5
  <2>2. \A j \in 1 .. Len(sel) : s[j] # m
    BY <1>1, <1>5, <2>1 DEF D!ToSet
  <2>3. \A j \in DOMAIN s : j = Len(sel) + 1 \/ j \in 1 .. Len(sel)
    BY <1>1, <2>1
  <2>4. \A j, k \in DOMAIN s : s[j] = s[k] => j = k
    BY <1>1, <2>1, <2>2, <2>3
  <2>5. Len(s) <= MAX_COMPARE
    BY <1>1, <1>5, <2>1
  <2> QED
    BY <2>1, <2>4, <2>5 DEF D!Selection, D!IsInjective
<1> QED
  BY <1>2, <1>3, <1>4, <1>5 DEF D!Edits

LEMMA BlankIsState ==
  ASSUME NEW sel \in D!Selection, NEW set \in BOOLEAN
  PROVE  [D!Blank EXCEPT !.selected = sel, !.set = set] \in D!State
BY VisitorAssumption DEF D!Blank, D!NoData, D!State, D!Rows

LEMMA EmptySelects == <<>> \in D!Selection
BY VisitorAssumption DEF D!Selection, D!IsInjective

LEMMA DashboardInit == D!Init => D!TypeOK
<1> SUFFICES ASSUME D!Init PROVE D!TypeOK
  OBVIOUS
<1>1. PICK link \in Links \cup {<<>>} :
        /\ hash = D!At("dashboard", <<>>)
        /\ events = IF link = <<>> THEN 0 ELSE 1
        /\ mounted = TRUE /\ page = D!Blank
        /\ queued = [D!Blank EXCEPT !.selected = D!Parsed(link), !.set = link # <<>>]
        /\ requests = {[of |-> All, initial |-> TRUE]} /\ auto = FALSE
  BY DEF D!Init
<1>2. D!Parsed(link) \in D!Selection
  <2>1. CASE link \in Links
    <3>1. link \in Seq(Models)
      BY <2>1, VisitorAssumption
    <3> QED
      BY <3>1, ParsedSelects
  <2>2. CASE link = <<>>
    <3>1. link \in Seq(Models)
      BY <2>2
    <3> QED
      BY <3>1, ParsedSelects
  <2> QED
    BY <2>1, <2>2
<1>3. queued \in D!State
  BY <1>1, <1>2, BlankIsState
<1>4. page \in D!State
  BY <1>1, EmptySelects, VisitorAssumption DEF D!Blank, D!NoData, D!State, D!Rows
<1>5. hash \in [page : {"dashboard", "other"}, compare : Seq(Models)]
  <2>1. <<>> \in Seq(Models)
    OBVIOUS
  <2> QED
    BY <1>1, <2>1 DEF D!At
<1>6. events \in Nat /\ requests \subseteq [of : Providers, initial : BOOLEAN]
  BY <1>1, VisitorAssumption
<1> QED
  BY <1>1, <1>3, <1>4, <1>5, <1>6 DEF D!TypeOK

(* Two changes of what the page holds.                                     *)
LEMMA StateSeen ==
  ASSUME NEW s \in D!State
  PROVE  /\ s.selected \in D!Selection /\ s.provider \in Providers /\ s.data.rows \in D!Rows
         /\ s.loading \in BOOLEAN /\ s.error \in BOOLEAN /\ s.set \in BOOLEAN
         /\ [s EXCEPT !.data.fresh = FALSE, !.set = FALSE] \in D!State
<1> DEFINE data == [s.data EXCEPT !.fresh = FALSE]
<1>1. data \in [of : Providers \cup {None}, rows : D!Rows, fresh : BOOLEAN]
  BY DEF D!State
<1>2. [s EXCEPT !.data.fresh = FALSE, !.set = FALSE]
        = [s EXCEPT !.data = data, !.set = FALSE]
  BY DEF D!State
<1> HIDE DEF data
<1>3. [s EXCEPT !.data = data, !.set = FALSE] \in D!State
  BY <1>1 DEF D!State
<1> QED
  BY <1>2, <1>3 DEF D!State

LEMMA StateChanged ==
  ASSUME NEW s \in D!State, NEW sel \in D!Selection, NEW set \in BOOLEAN,
         NEW loading \in BOOLEAN, NEW error \in BOOLEAN
  PROVE  [s EXCEPT !.selected = sel, !.set = set, !.loading = loading, !.error = error]
           \in D!State
BY DEF D!State

LEMMA CommitTypes ==
  ASSUME D!TypeOK, D!Commit
  PROVE  D!TypeOK'
<1> DEFINE seen     == [queued EXCEPT !.data.fresh = FALSE, !.set = FALSE]
           filtered == queued.provider # page.provider
           rows     == queued.data.rows
           looks    == \/ queued.data = D!NoData \/ queued.data.fresh
                       \/ Len(queued.selected) # Len(page.selected)
           leads    == looks /\ rows # <<>> /\ queued.selected = <<>> /\ ~auto
           sel      == IF filtered THEN <<>> ELSE IF leads THEN D!Leaders(rows) ELSE seen.selected
           set      == filtered \/ leads
<1>1. /\ queued \in D!State /\ page \in D!State /\ events \in Nat
      /\ hash \in [page : {"dashboard", "other"}, compare : Seq(Models)]
      /\ requests \subseteq [of : Providers, initial : BOOLEAN]
  BY DEF D!TypeOK
<1>2. /\ seen \in D!State /\ rows \in D!Rows /\ queued.selected \in D!Selection
      /\ queued.provider \in Providers
  BY <1>1, StateSeen
<1>3. queued' = [seen EXCEPT !.selected = sel, !.set = set,
                             !.loading = @ \/ filtered, !.error = @ /\ ~filtered]
  BY Zenon DEF D!Commit, seen
<1>4. /\ page' = seen /\ mounted' = mounted
      /\ auto' = (~filtered /\ (leads \/ (auto /\ ~(looks /\ rows = <<>>))))
      /\ \/ hash' = hash /\ events' = events
         \/ /\ hash' = D!At("dashboard", queued.selected)
            /\ events' \in {events, events + 1}
      /\ requests' \in {requests, {[of |-> queued.provider, initial |-> TRUE]}}
  BY DEF D!Commit, D!Write, D!Fetch, seen
<1> HIDE DEF seen
<1>5. sel \in D!Selection
  BY <1>2, EmptySelects, RowsLead, StateSeen
<1> HIDE DEF sel, leads, filtered, rows, looks
<1>6. queued' \in D!State
  <2>1. seen.loading \in BOOLEAN /\ seen.error \in BOOLEAN
    BY <1>2, StateSeen
  <2>2. (seen.loading \/ filtered) \in BOOLEAN /\ (seen.error /\ ~filtered) \in BOOLEAN
        /\ set \in BOOLEAN
    BY Zenon
  <2> HIDE DEF set
  <2>3. queued' = [seen EXCEPT !.selected = sel, !.set = set,
                               !.loading = seen.loading \/ filtered,
                               !.error = seen.error /\ ~filtered]
    BY <1>3
  <2> QED
    BY <1>2, <1>5, <2>2, <2>3, StateChanged
<1>7. auto' \in BOOLEAN
  BY <1>4, Zenon
<1>8. queued.selected \in Seq(Models)
  BY <1>2 DEF D!Selection
<1>9. /\ hash' \in [page : {"dashboard", "other"}, compare : Seq(Models)]
      /\ events' \in Nat
  <2>1. D!At("dashboard", queued.selected)
          \in [page : {"dashboard", "other"}, compare : Seq(Models)]
    BY <1>8 DEF D!At
  <2> QED
    BY <1>1, <1>4, <2>1
<1>10. requests' \subseteq [of : Providers, initial : BOOLEAN]
  <2>1. [of |-> queued.provider, initial |-> TRUE] \in [of : Providers, initial : BOOLEAN]
    BY <1>2
  <2> QED
    BY <1>1, <1>4, <2>1
<1> QED
  BY <1>2, <1>4, <1>6, <1>7, <1>9, <1>10 DEF D!TypeOK

LEMMA DashboardStep == D!TypeOK /\ [D!Next]_(D!vars) => D!TypeOK'
<1> SUFFICES ASSUME D!TypeOK, [D!Next]_(D!vars) PROVE D!TypeOK'
  OBVIOUS
<1> DEFINE Hashes == [page : {"dashboard", "other"}, compare : Seq(Models)]
           Fetches == [of : Providers, initial : BOOLEAN]
<1>1. /\ hash \in Hashes /\ events \in Nat /\ mounted \in BOOLEAN /\ auto \in BOOLEAN
      /\ page \in D!State /\ queued \in D!State /\ requests \subseteq Fetches
  BY DEF D!TypeOK
<1>2. hash.compare \in Seq(Models) /\ D!Parsed(hash.compare) \in D!Selection
  <2>1. hash.compare \in Seq(Models)
    BY <1>1
  <2> QED
    BY <2>1, ParsedSelects
<1>3. page.provider \in Providers /\ page.data.rows \in D!Rows /\ page.selected \in D!Selection
  BY <1>1, StateSeen
<1>4. /\ D!Blank \in D!State /\ D!At("dashboard", <<>>) \in Hashes
      /\ D!At("other", <<>>) \in Hashes
  <2>1. <<>> \in Seq(Models)
    OBVIOUS
  <2>2. D!Blank \in D!State
    BY EmptySelects, VisitorAssumption DEF D!Blank, D!NoData, D!State, D!Rows
  <2> QED
    BY <2>1, <2>2 DEF D!At
<1>5. \A x \in Providers, b \in BOOLEAN : {[of |-> x, initial |-> b]} \subseteq Fetches
  OBVIOUS
<1>6. ASSUME NEW h \in Hashes, D!Write(h)
      PROVE  hash' \in Hashes /\ events' \in Nat
  BY <1>1, <1>6 DEF D!Write
<1> HIDE DEF Hashes, Fetches
<1>7. CASE D!Refetch
  <2>1. requests' \subseteq Fetches
    BY <1>3, <1>5, <1>7 DEF D!Refetch, D!Fetch
  <2> QED
    BY <1>1, <1>7, <2>1 DEF D!Refetch, D!TypeOK, Fetches, Hashes
<1>8. ASSUME NEW r \in requests, D!Answer(r) PROVE D!TypeOK'
  <2>1. PICK rows \in Boards[r.of] :
          queued' = [queued EXCEPT !.data = [of |-> r.of, rows |-> rows, fresh |-> TRUE],
                                   !.loading = FALSE, !.error = FALSE]
    BY <1>8 DEF D!Answer
  <2>2. r.of \in Providers /\ rows \in D!Rows
    BY <1>1 DEF Fetches, D!Rows
  <2>3. queued' \in D!State
    BY <1>1, <2>1, <2>2 DEF D!State
  <2> QED
    BY <1>1, <1>8, <2>3 DEF D!Answer, D!TypeOK, Fetches, Hashes
<1>9. ASSUME NEW r \in requests, D!Fail(r) PROVE D!TypeOK'
  <2>1. queued' \in D!State
    BY <1>1, <1>9 DEF D!Fail, D!State
  <2> QED
    BY <1>1, <1>9, <2>1 DEF D!Fail, D!TypeOK, Fetches, Hashes
<1>10. CASE D!HashChanged
  <2>1. events' \in Nat
    <3>1. events > 0
      BY <1>10 DEF D!HashChanged
    <3>2. events' = events - 1 \/ events' = (events - 1) + 1
      BY <1>10 DEF D!HashChanged
    <3> QED
      BY <1>1, <3>1, <3>2
  <2>2. CASE D!Leave
    BY <1>1, <1>4, <2>1, <2>2 DEF D!Leave, D!TypeOK, Fetches, Hashes
  <2>3. CASE D!Mount(hash.compare)
    <3>1. queued' \in D!State
      BY <1>2, <2>3, BlankIsState DEF D!Mount
    <3>2. requests' \subseteq Fetches
      BY <1>5, <2>3, VisitorAssumption DEF D!Mount, D!Fetch
    <3> QED
      BY <1>4, <2>1, <2>3, <3>1, <3>2 DEF D!Mount, D!TypeOK, Fetches, Hashes
  <2>4. CASE D!Adopt
    <3>2. queued' \in D!State
      BY <1>1, <1>2, <2>4 DEF D!Adopt, D!State
    <3>3. auto' \in BOOLEAN
      BY <1>1, <2>4 DEF D!Adopt
    <3> QED
      BY <1>1, <2>1, <2>4, <3>2, <3>3 DEF D!Adopt, D!TypeOK, Fetches, Hashes
  <2> QED
    BY <1>10, <2>2, <2>3, <2>4 DEF D!HashChanged
<1>11. CASE D!Edit
  <2>1. PICK s \in D!Edits(page.selected, D!ToSet(page.data.rows)) :
          queued' = [queued EXCEPT !.selected = s, !.set = TRUE]
    BY <1>11 DEF D!Edit
  <2>2. D!ToSet(page.data.rows) \in SUBSET Models
    BY <1>3, VisitorAssumption DEF D!Rows, D!ToSet
  <2>3. s \in D!Selection
    BY <1>3, <2>2, EditsSelect
  <2>4. queued' \in D!State
    BY <1>1, <2>1, <2>3 DEF D!State
  <2> QED
    BY <1>1, <1>11, <2>4 DEF D!Edit, D!TypeOK, Fetches, Hashes
<1>12. ASSUME NEW x \in Providers, D!ChangeProvider(x) PROVE D!TypeOK'
  <2>1. queued' \in D!State
    BY <1>1, <1>12 DEF D!ChangeProvider, D!State
  <2> QED
    BY <1>1, <1>12, <2>1 DEF D!ChangeProvider, D!TypeOK, Fetches, Hashes
<1>13. ASSUME NEW link \in Links, D!OpenLink(link) PROVE D!TypeOK'
  <2>1. D!At("dashboard", link) \in Hashes
    BY VisitorAssumption DEF D!At, Hashes
  <2>2. hash' \in Hashes /\ events' \in Nat
    BY <1>6, <1>13, <2>1 DEF D!OpenLink
  <2> QED
    BY <1>1, <1>13, <2>2 DEF D!OpenLink, D!TypeOK, Fetches, Hashes
<1>14. ASSUME NEW name \in {"dashboard", "other"}, D!Navigate(name) PROVE D!TypeOK'
  <2>1. D!At(name, D!Parsed(hash.compare)) \in Hashes
    BY <1>2 DEF D!At, Hashes, D!Selection
  <2>2. hash' \in Hashes /\ events' \in Nat
    BY <1>4, <1>6, <1>14, <2>1 DEF D!Navigate
  <2> QED
    BY <1>1, <1>14, <2>2 DEF D!Navigate, D!TypeOK, Fetches, Hashes
<1>15. CASE UNCHANGED D!vars
  BY <1>1, <1>15 DEF D!vars, D!TypeOK, Hashes, Fetches
<1> QED
  BY <1>7, <1>8, <1>9, <1>10, <1>11, <1>12, <1>13, <1>14, <1>15, CommitTypes DEF D!Next

(* Whatever links are opened, filters changed, selections edited, pages    *)
(* left and answers lost: the page holds selections of different models,   *)
(* never more than can be compared, committed and queued (parseCompareIds, *)
(* Leaderboard.toggle, ChartModelSelector); and the feed keeps its types.  *)
THEOREM VisitorTypes == VisitorSpec => []VisitorTypeOK
<1> DEFINE Inv == IndInv /\ D!TypeOK
<1>1. VisitorInit => Inv
  BY InitEstablishes, DashboardInit DEF VisitorInit
<1>2. Inv /\ [VisitorNext]_<<part, vars, dashboard>> => Inv'
  <2> SUFFICES ASSUME IndInv, D!TypeOK, [VisitorNext]_<<part, vars, dashboard>>
               PROVE  IndInv' /\ D!TypeOK'
    OBVIOUS
  <2>1. [D!Next]_(D!vars) /\ [Next]_vars
    BY DEF VisitorNext, dashboard, D!vars
  <2> QED
    BY <2>1, DashboardStep, StepPreserves
<1>3. Inv => VisitorTypeOK
  BY DEF IndInv, VisitorTypeOK
<1> QED
  BY <1>1, <1>2, <1>3, PTL DEF VisitorSpec
=============================================================================
