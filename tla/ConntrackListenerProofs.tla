----------------------- MODULE ConntrackListenerProofs -----------------------
(***************************************************************************)
(* Proofs about ConntrackListener, for every set of connections, addresses  *)
(* and interfaces: the listener keeps its own lists and NatApp's cache      *)
(* sound whichever calls fail; as long as the calls they name succeed, it   *)
(* knows whether the table exists, and forgets what the kernel has closed.  *)
(* The steps of NatApp are those of NatAppProofs.                           *)
(***************************************************************************)
EXTENDS ConntrackListener, NatAppProofs

StaUsed == {i \in Sta : sta[i] # NoAddr}

ListenerShape ==
    /\ wanUp \in BOOLEAN /\ wanIp \in PubIp \cup {NoAddr}
    /\ wanUp => wanIp \in PubIp
    /\ natIfs \in [Iface -> Addr \cup {NoAddr}]
    /\ nonNatIfs \in [Iface -> (Addr \ NatAddr) \cup {NoAddr}]
    /\ sta \in [Sta -> Addr \cup {NoAddr}]
    /\ staCnt = Cardinality(StaUsed)
    /\ reup \in [ip : PubIp, mode : Backhaul] \cup {NoWan}
    /\ alive \subseteq Conn

ListenerIInv == IInv /\ ListenerShape

LEMMA StaIsFinite == IsFiniteSet(Sta) /\ Cardinality(Sta) = MaxSta
  BY ListenerConstants, FS_Interval DEF Sta

LEMMA StaUsedFinite ==
    IsFiniteSet(StaUsed) /\ Cardinality(StaUsed) \in 0 .. MaxSta
<1>1. StaUsed \in SUBSET Sta
  BY DEF StaUsed
<1> QED
  BY <1>1, StaIsFinite, FS_Subset, FS_CardinalityType, ListenerConstants

LEMMA ShapeImpliesType == ListenerIInv => ListenerTypeOK
<1> SUFFICES ASSUME ListenerIInv PROVE ListenerTypeOK
  OBVIOUS
<1>1. TypeOK
  BY InvImpliesType DEF ListenerIInv
<1>2. staCnt \in 0 .. MaxSta
  BY StaUsedFinite DEF ListenerIInv, ListenerShape
<1>3. reup \in [ip : PubIp \cup {NoAddr}, mode : Backhaul]
  BY DEF ListenerIInv, ListenerShape, NoWan, Backhaul
<1> QED
  BY <1>1, <1>2, <1>3 DEF ListenerIInv, ListenerShape, ListenerTypeOK

LEMMA WanFacts == /\ NoAddr \notin PubIp
                  /\ \A w \in [ip : PubIp, mode : Backhaul] : w # NoWan
  BY NothingIsNothing, AddressesAreAddr DEF NoWan

LEMMA InitListener == ListenerInit => ListenerIInv
<1> SUFFICES ASSUME ListenerInit PROVE ListenerIInv
  OBVIOUS
<1>1. IInv
  BY InitIInv DEF ListenerInit
<1>2. StaUsed = {}
  BY DEF ListenerInit, StaUsed
<1>3. staCnt = Cardinality(StaUsed)
  BY <1>2, FS_EmptySet DEF ListenerInit
<1> QED
  BY <1>1, <1>3 DEF ListenerIInv, ListenerShape, ListenerInit

-----------------------------------------------------------------------------
(* Each handler keeps the lists, and NatApp's state by the lemmas of the     *)
(* calls it makes.                                                         *)

\* A rule made of a message is a rule, whatever the state of the WAN.
LEMMA SeenIsRule ==
    ASSUME ListenerIInv, NEW c \in Conn
    PROVE  Seen(c) \in Rule /\ Seen(c).conn = c
<1>1. wanIp \in PubIp \cup {NoAddr} /\ wanIp \in Addr \cup {NoAddr}
  BY AddressesAreAddr DEF ListenerIInv, ListenerShape
<1>2. Priv[c] \in Addr
  BY AddressesAreAddr
<1> QED
  BY <1>1, <1>2 DEF Seen, Rule

LEMMA SameLists ==
    ASSUME ListenerShape, UNCHANGED <<natIfs, nonNatIfs, sta, staCnt, alive>>,
           wanUp' \in BOOLEAN, wanIp' \in PubIp \cup {NoAddr},
           wanUp' => wanIp' \in PubIp,
           reup' \in [ip : PubIp, mode : Backhaul] \cup {NoWan}
    PROVE  ListenerShape'
  BY DEF ListenerShape, StaUsed

LEMMA SameWan ==
    ASSUME ListenerShape, UNCHANGED <<wanUp, wanIp, reup>>,
           natIfs' \in [Iface -> Addr \cup {NoAddr}],
           nonNatIfs' \in [Iface -> (Addr \ NatAddr) \cup {NoAddr}],
           sta' \in [Sta -> Addr \cup {NoAddr}],
           staCnt' = Cardinality(StaUsed'), alive' \subseteq Conn
    PROVE  ListenerShape'
  BY DEF ListenerShape

LEMMA WanKeeps ==
    ASSUME ListenerIInv,
           \/ \E ip \in PubIp, mode \in Backhaul : TriggerWANUp(ip, mode)
           \/ \E ip \in PubIp : WanDown(ip)
           \/ Reup
    PROVE  ListenerIInv'
<1>0. IInv /\ ListenerShape
  BY DEF ListenerIInv
<1>1. ASSUME NEW ip \in PubIp, NEW mode \in Backhaul, CreateTable(ip, mode),
             todo' = todo, reup' \in {reup, NoWan},
             UNCHANGED <<natIfs, nonNatIfs, sta, staCnt, alive>>
      PROVE  ListenerIInv'
  <2>1. IInv'
    BY <1>0, <1>1, AddTableInv DEF CreateTable
  <2>2. wanUp' = TRUE /\ wanIp' = ip
    BY <1>1 DEF CreateTable
  <2>3. reup' \in [ip : PubIp, mode : Backhaul] \cup {NoWan}
    BY <1>0, <1>1 DEF ListenerShape
  <2>4. ListenerShape'
    BY <1>0, <1>1, <2>2, <2>3, SameLists
  <2> QED
    BY <2>1, <2>4 DEF ListenerIInv
<1>2. ASSUME NEW ip, TriggerWANDown(ip), todo' = todo,
             reup' \in [ip : PubIp, mode : Backhaul] \cup {NoWan},
             UNCHANGED <<natIfs, nonNatIfs, sta, staCnt, alive>>
      PROVE  ListenerIInv'
  <2>1. IInv'
    BY <1>0, <1>2, DeleteTableInv DEF TriggerWANDown
  <2>2. /\ wanUp' \in BOOLEAN /\ wanIp' \in PubIp \cup {NoAddr}
        /\ wanUp' => wanIp' \in PubIp
    BY <1>0, <1>2 DEF TriggerWANDown, ListenerShape
  <2>3. ListenerShape'
    BY <1>0, <1>2, <2>2, SameLists
  <2> QED
    BY <2>1, <2>3 DEF ListenerIInv
<1>3. ASSUME NEW ip \in PubIp, NEW mode \in Backhaul, TriggerWANUp(ip, mode)
      PROVE  ListenerIInv'
  <2>0. todo' = todo /\ UNCHANGED <<natIfs, nonNatIfs, sta, staCnt, alive>>
    BY <1>3 DEF TriggerWANUp
  <2>1. CASE UNCHANGED <<tableVars, cacheVars, temp, pwr, wanUp, wanIp, reup>>
    <3>1. CacheInv'
      BY <1>0, <2>1, UnchangedCache DEF IInv, tableVars
    <3>2. IInv'
      BY <1>0, <2>0, <2>1, <3>1 DEF IInv, TableShape, WaitShape, PwrShape, tableVars
    <3>3. ListenerShape'
      BY <1>0, <2>0, <2>1, SameLists DEF ListenerShape
    <3> QED
      BY <3>2, <3>3 DEF ListenerIInv
  <2>2. CASE TriggerWANDown(wanIp) /\ reup' = [ip |-> ip, mode |-> mode]
    BY <1>2, <2>0, <2>2
  <2>3. CASE CreateTable(ip, mode) /\ UNCHANGED reup
    BY <1>1, <2>0, <2>3
  <2> QED
    BY <1>3, <2>1, <2>2, <2>3 DEF TriggerWANUp
<1>4. ASSUME NEW ip \in PubIp, WanDown(ip) PROVE ListenerIInv'
  <2>1. reup' \in [ip : PubIp, mode : Backhaul] \cup {NoWan}
    BY <1>0, <1>4 DEF WanDown, ListenerShape
  <2> QED
    BY <1>2, <1>4, <2>1 DEF WanDown
<1>5. ASSUME Reup PROVE ListenerIInv'
  <2>1. reup.ip \in PubIp /\ reup.mode \in Backhaul
    BY <1>0, <1>5 DEF Reup, ListenerShape
  <2> QED
    BY <1>1, <1>5, <2>1 DEF Reup
<1> QED
  BY <1>3, <1>4, <1>5

LEMMA MessageKeeps ==
    ASSUME ListenerIInv, NEW c \in Conn, Opened(c) \/ Closed(c)
    PROVE  ListenerIInv'
<1>0. IInv /\ ListenerShape /\ CacheInv /\ TableShape
  BY DEF ListenerIInv, IInv
<1>1. UNCHANGED <<tableVars, pwr, todo, listenerVars>> /\ up' = up
  BY DEF Opened, Closed, tableVars
<1>2. Seen(c) \in Rule
  BY SeenIsRule
<1>3. CacheInv'
  <2>1. CASE UNCHANGED cacheVars
    BY <1>0, <1>1, <2>1, UnchangedCache
  <2>2. CASE CacheEntry(Seen(c))
    BY <1>0, <1>1, <1>2, <2>2, CacheEntryKeeps
  <2>3. CASE \E ok \in BOOLEAN : AddEntry(Seen(c), ok)
    BY <1>0, <1>1, <1>2, <2>3, AddEntryKeeps DEF TableShape
  <2>4. CASE Forget(Key(Seen(c)))
    BY <1>0, <1>1, <2>4, DeleteEntryKeeps DEF Forget
  <2> QED
    BY <2>1, <2>2, <2>3, <2>4 DEF Opened, Closed
<1>4. temp' \in [TempSlot -> Rule \cup {NoRule}]
  <2>1. \/ UNCHANGED temp \/ AddTempEntry(Seen(c))
        \/ DeleteTempEntry(Key(Seen(c)))
    BY DEF Opened, Closed, Forget
  <2> QED
    BY <1>0, <1>2, <2>1, TempKeeps DEF IInv, WaitShape, TempSlot
<1>5. IInv'
  BY <1>0, <1>1, <1>3, <1>4
  DEF IInv, TableShape, WaitShape, PwrShape, tableVars, TempSlot
<1>6. alive' \subseteq Conn
  BY <1>0 DEF Opened, Closed, ListenerShape
<1>7. ListenerShape'
  BY <1>0, <1>1, <1>6 DEF ListenerShape, listenerVars, StaUsed
<1> QED
  BY <1>5, <1>7 DEF ListenerIInv

\* The lists after an address enters or leaves one.
LEMMA ListFacts ==
    ASSUME NEW n \in Nat, NEW A, NEW list \in [1 .. n -> A \cup {NoAddr}], NEW a
    PROVE  /\ Erased(list, a) \in [1 .. n -> A \cup {NoAddr}]
           /\ ErasedOnce(list, a) \in [1 .. n -> A \cup {NoAddr}]
           /\ a \in A => \A i : [list EXCEPT ![i] = a] \in [1 .. n -> A \cup {NoAddr}]
  BY DEF Erased, ErasedOnce

\* A handler for a neighbour's address makes these calls, in this combination.
LEMMA NeighbourInv ==
    ASSUME IInv, NEW a \in Client, UNCHANGED tableVars,
           \/ UNCHANGED cacheVars
           \/ UpdatePwrSaveIf(a) \/ ResetPwrSaveIf(a)
           \/ DelEntriesOnClntDiscon(a) \/ DelEntriesOnSTAClntDiscon(a),
           \/ UNCHANGED pwr
           \/ UpdatePwrSaveIf(a) \/ ForgetPwrSave(a),
           UNCHANGED temp \/ DropTempEntries(a),
           UNCHANGED todo \/ \E dummy \in BOOLEAN : StartFlush(a, dummy)
    PROVE  IInv'
<1>1. up' = up /\ a \in Addr /\ TableShape'
  BY OfferedFacts DEF tableVars, IInv, TableShape
<1>2. CacheInv'
  BY <1>1, UnchangedCache, UpdatePwrSaveIfKeeps, ResetPwrSaveIfKeeps,
     DelEntriesOnClntDisconKeeps, DelEntriesOnSTAClntDisconKeeps
  DEF IInv, TableShape
<1>3. PwrShape'
  <2>1. CASE UNCHANGED pwr
    BY <2>1 DEF IInv, PwrShape
  <2>2. CASE UpdatePwrSaveIf(a) \/ ForgetPwrSave(a)
    BY <1>1, <2>2, PwrKeeps DEF IInv
  <2> QED
    BY <2>1, <2>2
<1>4. temp' \in [TempSlot -> Rule \cup {NoRule}]
  BY TempKeeps DEF IInv, WaitShape, TempSlot
<1>5. todo' \in {<< >>} \cup {<<f>> : f \in Flush}
  BY <1>1, StartedFlush DEF IInv, WaitShape
<1> QED
  BY <1>1, <1>2, <1>3, <1>4, <1>5 DEF IInv, WaitShape, TempSlot

LEMMA NatClientKeeps ==
    ASSUME ListenerIInv, NEW a \in Client,
           \/ NatClientAdd(a) \/ NatClientDel(a)
           \/ NonNatClientAdd(a) \/ NonNatClientDel(a) \/ PowerSave(a)
    PROVE  ListenerIInv'
<1>0. IInv /\ ListenerShape /\ a \in Addr /\ MaxIface \in Nat
  BY OfferedFacts, ListenerConstants DEF ListenerIInv
<1>1. IInv'
  <2>1. CASE NatClientAdd(a)
    BY <1>0, <2>1, NeighbourInv DEF NatClientAdd, ResetPwrSaveIf
  <2>2. CASE NatClientDel(a)
    BY <1>0, <2>2, NeighbourInv DEF NatClientDel, DelEntriesOnClntDiscon
  <2>3. CASE NonNatClientAdd(a)
    BY <1>0, <2>3, NeighbourInv DEF NonNatClientAdd
  <2>4. CASE NonNatClientDel(a)
    BY <1>0, <2>4, NeighbourInv DEF NonNatClientDel, DelEntriesOnClntDiscon
  <2>5. CASE PowerSave(a)
    BY <1>0, <2>5, NeighbourInv DEF PowerSave, ResetPwrSaveIf
  <2> QED
    BY <2>1, <2>2, <2>3, <2>4, <2>5
<1>2. /\ UNCHANGED <<wanUp, wanIp, reup, sta, staCnt, alive>>
      /\ natIfs' \in [Iface -> Addr \cup {NoAddr}]
      /\ nonNatIfs' \in [Iface -> (Addr \ NatAddr) \cup {NoAddr}]
  <2>1. natIfs \in [1 .. MaxIface -> Addr \cup {NoAddr}]
    BY <1>0 DEF ListenerShape, Iface
  <2>2. nonNatIfs \in [1 .. MaxIface -> (Addr \ NatAddr) \cup {NoAddr}]
    BY <1>0 DEF ListenerShape, Iface
  <2>3. CASE NatClientAdd(a)
    BY ZenonT(60), <1>0, <2>1, <2>2, <2>3, ListFacts DEF NatClientAdd, Iface
  <2>4. CASE NatClientDel(a)
    BY <1>0, <2>1, <2>2, <2>4, ListFacts DEF NatClientDel, Iface
  <2>5. CASE NonNatClientAdd(a)
    <3>1. a \in Addr \ NatAddr
      BY <1>0, <2>5 DEF NonNatClientAdd
    <3> QED
      BY <1>0, <2>1, <2>2, <2>5, <3>1, ListFacts DEF NonNatClientAdd, Iface
  <2>6. CASE NonNatClientDel(a)
    BY <1>0, <2>1, <2>2, <2>6, ListFacts DEF NonNatClientDel, Iface
  <2>7. CASE PowerSave(a)
    BY <2>1, <2>2, <2>7 DEF PowerSave, listenerVars, Iface
  <2> QED
    BY <2>3, <2>4, <2>5, <2>6, <2>7
<1>3. ListenerShape'
  BY <1>0, <1>2, SameWan DEF ListenerShape, StaUsed
<1> QED
  BY <1>1, <1>3 DEF ListenerIInv

LEMMA StaClientKeeps ==
    ASSUME ListenerIInv, NEW a \in Client, StaClientAdd(a) \/ StaClientDel(a)
    PROVE  ListenerIInv'
<1>0. /\ IInv /\ ListenerShape /\ a \in Addr /\ a # NoAddr
      /\ sta \in [Sta -> Addr \cup {NoAddr}] /\ MaxSta \in Nat
      /\ staCnt = Cardinality(StaUsed) /\ staCnt \in Nat
  BY OfferedFacts, NothingIsNothing, ListenerConstants, StaUsedFinite
  DEF ListenerIInv, ListenerShape
<1>1. IInv'
  <2>1. CASE StaClientAdd(a)
    BY <1>0, <2>1, NeighbourInv DEF StaClientAdd
  <2>2. CASE StaClientDel(a)
    BY <1>0, <2>2, NeighbourInv DEF StaClientDel
  <2> QED
    BY <2>1, <2>2
<1>2. ASSUME NEW i \in Sta, NEW v \in Addr \cup {NoAddr}, sta' = [sta EXCEPT ![i] = v]
      PROVE  /\ sta' \in [Sta -> Addr \cup {NoAddr}]
             /\ v # NoAddr => StaUsed' = StaUsed \cup {i}
             /\ v = NoAddr => StaUsed' = StaUsed \ {i}
  BY <1>0, <1>2 DEF StaUsed
<1>3. sta' \in [Sta -> Addr \cup {NoAddr}] /\ staCnt' = Cardinality(StaUsed')
  <2>1. CASE UNCHANGED <<sta, staCnt>>
    BY <1>0, <2>1 DEF StaUsed
  <2>2. CASE StaClientAdd(a) /\ ~UNCHANGED <<sta, staCnt>>
    <3> DEFINE i == Least(StopsAt(sta, a))
    <3>1. /\ StopsAt(sta, a) # {} /\ sta[i] # a
          /\ sta' = [sta EXCEPT ![i] = a] /\ staCnt' = staCnt + 1
      BY <2>2 DEF StaClientAdd
    <3>2. StopsAt(sta, a) \in SUBSET Nat /\ StopsAt(sta, a) \subseteq Sta
      BY <1>0 DEF StopsAt, Sta
    <3>3. i \in StopsAt(sta, a)
      BY <3>1, <3>2, LeastIsElement
    <3>4. i \in Sta /\ sta[i] = NoAddr
      BY <1>0, <3>1, <3>3 DEF StopsAt
    <3> HIDE DEF i
    <3>5. sta' \in [Sta -> Addr \cup {NoAddr}] /\ StaUsed' = StaUsed \cup {i}
      BY <1>0, <1>2, <3>1, <3>4
    <3>6. i \notin StaUsed
      BY <3>4 DEF StaUsed
    <3> QED
      BY <1>0, <3>1, <3>5, <3>6, StaUsedFinite, FS_AddElement
  <2>3. CASE StaClientDel(a) /\ ~UNCHANGED <<sta, staCnt>>
    <3> DEFINE at == {i \in DOMAIN sta : sta[i] = a}
               i == Least(at)
    <3>1. /\ at # {}
          /\ sta' = [sta EXCEPT ![i] = NoAddr] /\ staCnt' = staCnt - 1
      BY <2>3 DEF StaClientDel, Contains, ErasedOnce
    <3>2. at \in SUBSET Nat /\ at \subseteq Sta
      BY <1>0 DEF Sta
    <3>3. i \in at
      BY <3>1, <3>2, LeastIsElement
    <3>4. i \in Sta /\ sta[i] = a
      BY <1>0, <3>3
    <3> HIDE DEF i
    <3>5. sta' \in [Sta -> Addr \cup {NoAddr}] /\ StaUsed' = StaUsed \ {i}
      BY <1>2, <3>1, <3>4
    <3>6. i \in StaUsed
      BY <1>0, <3>4 DEF StaUsed
    <3> QED
      BY <1>0, <3>1, <3>5, <3>6, StaUsedFinite, FS_RemoveElement
  <2> QED
    BY <2>1, <2>2, <2>3
<1>4. UNCHANGED <<wanUp, wanIp, natIfs, nonNatIfs, reup, alive>>
  BY DEF StaClientAdd, StaClientDel
<1>5. ListenerShape'
  BY <1>0, <1>3, <1>4, SameWan DEF ListenerShape
<1> QED
  BY <1>1, <1>5 DEF ListenerIInv

LEMMA NextListener == ListenerIInv /\ [ListenerNext]_allVars => ListenerIInv'
<1> SUFFICES ASSUME ListenerIInv, [ListenerNext]_allVars PROVE ListenerIInv'
  OBVIOUS
<1>1. CASE Continue
  <2>1. IInv'
    BY <1>1, FlushTempEntriesKeeps DEF Continue, ListenerIInv
  <2>2. ListenerShape'
    BY <1>1 DEF Continue, ListenerIInv, ListenerShape, listenerVars, StaUsed
  <2> QED
    BY <2>1, <2>2 DEF ListenerIInv
<1>2. CASE UNCHANGED allVars
  <2>1. CacheInv'
    BY <1>2, UnchangedCache DEF ListenerIInv, IInv, allVars, vars, tableVars
  <2>2. IInv'
    BY <1>2, <2>1 DEF ListenerIInv, IInv, TableShape, WaitShape, PwrShape,
                      allVars, vars, tableVars
  <2>3. ListenerShape'
    BY <1>2 DEF ListenerIInv, ListenerShape, allVars, listenerVars, StaUsed
  <2> QED
    BY <2>2, <2>3 DEF ListenerIInv
<1> QED
  BY <1>1, <1>2, WanKeeps, MessageKeeps, NatClientKeeps, StaClientKeeps
  DEF ListenerNext

-----------------------------------------------------------------------------
\* The listener's lists, its count of station clients and NatApp's state keep
\* their form, whichever calls fail; the count never leaves its array.
THEOREM ListenerTypeCorrect == ListenerSpec => []ListenerTypeOK
  BY InitListener, NextListener, ShapeImpliesType, PTL DEF ListenerSpec

\* Whatever messages and events the listener turns into calls, and whichever of
\* these fail, NatApp's cache is counted, without duplicates, and enabled only
\* where the driver holds the connection's rule.
THEOREM ListenerKeepsCache == ListenerSpec => []CacheSound
<1>1. ListenerIInv => CacheSound
  BY DEF ListenerIInv, IInv, CacheInv, CacheSound
<1> QED
  BY <1>1, InitListener, NextListener, PTL DEF ListenerSpec

-----------------------------------------------------------------------------
(* The table: what the listener knows of it.                               *)

TableDeletes == "deleteTable" \notin Faults
TableCallsSucceed == Faults \cap {"addTable", "deleteTable"} = {}

\* As long as deleting the table succeeds, the handle, the driver and the
\* listener agree on a table there is; creating one may have failed.
WanKnown == /\ up <=> tblHdl
            /\ tblHdl => wanUp /\ pubIp = wanIp
            /\ reup # NoWan => ~up

\* The NatApp call of a WAN handler that changes the table.
WanCall == \/ UNCHANGED <<tableVars, cacheVars>>
           \/ TableOp

LEMMA SameTable ==
    ASSUME ListenerNext, ~(\E ip \in PubIp, mode \in Backhaul : TriggerWANUp(ip, mode)),
           ~(\E ip \in PubIp : WanDown(ip)), ~Reup
    PROVE  UNCHANGED <<tableVars, wanUp, wanIp, reup>>
<1>1. ASSUME NEW c \in Conn, Opened(c) \/ Closed(c)
      PROVE  UNCHANGED <<tableVars, wanUp, wanIp, reup>>
  BY <1>1 DEF Opened, Closed, listenerVars
<1>2. ASSUME NEW a \in Client,
             \/ NatClientAdd(a) \/ NatClientDel(a)
             \/ NonNatClientAdd(a) \/ NonNatClientDel(a)
             \/ StaClientAdd(a) \/ StaClientDel(a) \/ PowerSave(a)
      PROVE  UNCHANGED <<tableVars, wanUp, wanIp, reup>>
  BY <1>2 DEF NatClientAdd, NatClientDel, NonNatClientAdd, NonNatClientDel,
              StaClientAdd, StaClientDel, PowerSave, listenerVars
<1>3. ASSUME Continue PROVE UNCHANGED <<tableVars, wanUp, wanIp, reup>>
  BY <1>3 DEF Continue, FlushTempEntries, listenerVars
<1> QED
  BY <1>1, <1>2, <1>3 DEF ListenerNext

LEMMA WanDownFacts ==
    ASSUME TableDeletes, ListenerIInv, WanKnown, NEW ip, TriggerWANDown(ip)
    PROVE  \/ DeleteFails(ip) /\ UNCHANGED <<tableVars, cacheVars, wanUp, wanIp>>
           \/ /\ ~DeleteFails(ip) /\ pubIp \in PubIp /\ ip \in PubIp
              /\ ~up' /\ ~tblHdl' /\ ~wanUp' /\ TableOp
<1>1. CASE DeleteFails(ip)
  BY <1>1 DEF TriggerWANDown, DeleteTable, DeleteFails
<1>2. CASE ~DeleteFails(ip)
  <2>1. tblHdl /\ pubIp = ip
    BY <1>2 DEF DeleteFails
  <2>2. ip \in PubIp
    BY <2>1 DEF WanKnown, ListenerIInv, ListenerShape
  <2>3. tblHdl' = FALSE /\ up' = FALSE
    BY <2>1 DEF TriggerWANDown, DeleteTable, TableDeletes
  <2>4. wanUp' = FALSE
    BY <1>2, <2>3 DEF TriggerWANDown, TableDeletes
  <2>5. TableOp
    BY <2>2 DEF TriggerWANDown, TableOp
  <2> QED
    BY <1>2, <2>1, <2>2, <2>3, <2>4, <2>5
<1> QED
  BY <1>1, <1>2

LEMMA WanStep ==
    ASSUME TableDeletes, ListenerIInv, WanKnown,
           \/ \E ip \in PubIp, mode \in Backhaul : TriggerWANUp(ip, mode)
           \/ \E ip \in PubIp : WanDown(ip)
           \/ Reup
    PROVE  /\ WanKnown' /\ WanCall
           /\ TableCallsSucceed /\ (wanUp => tblHdl) => (wanUp' => tblHdl')
<1>0. /\ tblHdl \in BOOLEAN /\ up \in BOOLEAN
      /\ reup \in [ip : PubIp, mode : Backhaul] \cup {NoWan}
  BY DEF ListenerIInv, IInv, TableShape, ListenerShape
<1>1. ASSUME NEW ip \in PubIp, NEW mode \in Backhaul, CreateTable(ip, mode), ~up,
             reup' = NoWan
      PROVE  /\ WanKnown' /\ WanCall
             /\ TableCallsSucceed => tblHdl'
  <2>1. wanUp' /\ wanIp' = ip /\ TableOp
    BY <1>1 DEF CreateTable, TableOp
  <2>2. \/ "addTable" \in Faults /\ tblHdl' = FALSE /\ up' = up
        \/ tblHdl' = TRUE /\ up' = TRUE /\ pubIp' = ip
    BY <1>1 DEF CreateTable, AddTable
  <2> QED
    BY <1>1, <2>1, <2>2 DEF WanKnown, WanCall, TableCallsSucceed
<1>2. ASSUME NEW ip \in PubIp, NEW mode \in Backhaul, TriggerWANUp(ip, mode)
      PROVE  /\ WanKnown' /\ WanCall
             /\ TableCallsSucceed /\ (wanUp => tblHdl) => (wanUp' => tblHdl')
  <2>1. CASE UNCHANGED <<tableVars, cacheVars, temp, pwr, wanUp, wanIp, reup>>
    BY <2>1 DEF WanKnown, WanCall, tableVars
  <2>2. CASE /\ wanUp /\ TriggerWANDown(wanIp)
             /\ reup' = [ip |-> ip, mode |-> mode]
    <3>1. CASE DeleteFails(wanIp) /\ UNCHANGED <<tableVars, cacheVars, wanUp, wanIp>>
      <4>1. ~up
        BY <3>1 DEF DeleteFails, WanKnown
      <4> QED
        BY <3>1, <4>1 DEF WanKnown, WanCall, tableVars
    <3>2. CASE ~up' /\ ~tblHdl' /\ ~wanUp' /\ TableOp
      BY <3>2 DEF WanKnown, WanCall
    <3> QED
      BY <2>2, <3>1, <3>2, WanDownFacts
  <2>3. CASE ~wanUp /\ CreateTable(ip, mode) /\ UNCHANGED reup
    <3>1. ~up /\ reup' = NoWan
      BY <1>2, <2>3 DEF WanKnown, TriggerWANUp, Ready
    <3> QED
      BY <1>1, <2>3, <3>1
  <2> QED
    BY <1>2, <2>1, <2>2, <2>3 DEF TriggerWANUp
<1>3. ASSUME NEW ip \in PubIp, WanDown(ip)
      PROVE  /\ WanKnown' /\ WanCall
             /\ TableCallsSucceed /\ (wanUp => tblHdl) => (wanUp' => tblHdl')
  <2>1. TriggerWANDown(ip) /\ reup' = reup
    BY <1>3 DEF WanDown
  <2>2. CASE UNCHANGED <<tableVars, cacheVars, wanUp, wanIp>>
    BY <2>1, <2>2 DEF WanKnown, WanCall, tableVars
  <2>3. CASE ~up' /\ ~tblHdl' /\ ~wanUp' /\ TableOp
    BY <2>1, <2>3 DEF WanKnown, WanCall
  <2> QED
    BY <2>1, <2>2, <2>3, WanDownFacts
<1>4. ASSUME Reup
      PROVE  /\ WanKnown' /\ WanCall
             /\ TableCallsSucceed /\ (wanUp => tblHdl) => (wanUp' => tblHdl')
  <2>1. reup.ip \in PubIp /\ reup.mode \in Backhaul /\ ~up /\ reup' = NoWan
    BY <1>0, <1>4 DEF Reup, WanKnown
  <2> QED
    BY <1>1, <1>4, <2>1 DEF Reup
<1> QED
  BY <1>2, <1>3, <1>4

LEMMA NextWan ==
    ASSUME TableDeletes, ListenerIInv, WanKnown, [ListenerNext]_allVars
    PROVE  /\ WanKnown'
           /\ TableCallsSucceed /\ (wanUp => tblHdl) => (wanUp' => tblHdl')
<1>1. CASE UNCHANGED <<tableVars, wanUp, wanIp, reup>>
  BY <1>1 DEF WanKnown, tableVars
<1>2. UNCHANGED allVars => UNCHANGED <<tableVars, wanUp, wanIp, reup>>
  BY DEF allVars, vars, listenerVars, tableVars
<1> QED
  BY <1>1, <1>2, WanStep, SameTable

LEMMA InitWan == ListenerInit => WanKnown /\ ~wanUp
  BY DEF ListenerInit, Init, WanKnown

\* As long as the driver creates and deletes tables when asked, the listener
\* believes the WAN to be up exactly while NatApp has a table for its address,
\* and never asks for a second one.
THEOREM WanKnowsTable == ASSUME TableCallsSucceed PROVE ListenerSpec => []WanMatchesTable
<1> DEFINE Inv == ListenerIInv /\ WanKnown /\ (wanUp => tblHdl)
<1>0. TableDeletes
  BY DEF TableCallsSucceed, TableDeletes
<1>1. ListenerInit => Inv
  BY InitListener, InitWan
<1>2. Inv /\ [ListenerNext]_allVars => Inv'
  BY <1>0, NextListener, NextWan
<1>3. Inv => WanMatchesTable
  <2>1. Inv => wanUp \in BOOLEAN /\ tblHdl \in BOOLEAN
    BY DEF ListenerIInv, ListenerShape, IInv, TableShape
  <2> QED
    BY <2>1 DEF WanKnown, WanMatchesTable
<1> QED
  BY <1>1, <1>2, <1>3, PTL DEF ListenerSpec

-----------------------------------------------------------------------------
(* Connections of NAT clients: nothing outlives what the kernel has closed.  *)

NatConn == {c \in Conn : {Priv[c], Tgt[c]} \subseteq NatAddr}

\* The interfaces of the NAT configuration serve its private subnet, which is
\* not one the WAN gets its address from.
NatClientsArePrivate ==
    \A c \in NatConn : Priv[c] \notin PubIp /\ {Priv[c], Tgt[c]} \cap Private # {}

\* A key for a connection of NAT clients names one of the open connections with
\* its own private address.
Tracked(key, open) == key[1] \in NatConn => key[2] = Priv[key[1]] /\ key[1] \in open
CacheTracked(c, open) == \A k \in Slot : Tracked(Key(c[k]), open)
TempTracked(w, open) == \A i \in TempSlot : Tracked(Key(w[i]), open)
WaitsOnce(w) ==
    \A i, j \in TempSlot : w[i].conn \in NatConn /\ w[i].conn = w[j].conn => i = j
\* A flush that gives its connections the public address is for another client.
DummiesAreOthers(td) == td # << >> /\ Head(td).dummy => Head(td).ip \notin NatAddr

\* The entries of d are those of c, but for the ones that left.
KeysStay(c, d) == \A k \in Slot : d[k].conn = NoConn \/ Key(d[k]) = Key(c[k])
\* Or that of r, which joined.
KeysAnd(c, d, r) ==
    \A k \in Slot : d[k].conn = NoConn \/ Key(d[k]) = Key(c[k]) \/ Key(d[k]) = Key(r)

LEMMA TrackedStay ==
    ASSUME NEW open, NEW c, NEW d, CacheTracked(c, open), KeysStay(c, d)
    PROVE  CacheTracked(d, open)
<1>1. NoConn \notin NatConn
  BY NothingIsNothing DEF NatConn
<1>2. \A k : Key(d[k])[1] = d[k].conn
  BY DEF Key
<1> QED
  BY <1>1, <1>2 DEF CacheTracked, KeysStay, Tracked

LEMMA TrackedAnd ==
    ASSUME NEW open, NEW c, NEW d, CacheTracked(c, open),
           NEW r, Tracked(Key(r), open), KeysAnd(c, d, r)
    PROVE  CacheTracked(d, open)
<1>1. NoConn \notin NatConn
  BY NothingIsNothing DEF NatConn
<1>2. \A k : Key(d[k])[1] = d[k].conn
  BY DEF Key
<1> QED
  BY <1>1, <1>2 DEF CacheTracked, KeysAnd, Tracked

LEMMA OffloadKeys ==
    ASSUME CacheInv, NEW hdl \in BOOLEAN, NEW mode, NEW c \in [Slot -> Entry], NEW n,
           NEW S \in SUBSET UsedIn(c), Offload(hdl, mode, c, n, S)
    PROVE  KeysStay(c, cache')
<1>1. PICK R, f : OffloadResult(hdl, c, n, S, R, f)
  BY OffloadFacts DEF CacheInv, CacheShape
<1> QED
  BY <1>1, EmptyFacts DEF OffloadResult, KeysStay

\* An entry whose rule or filter goes keeps its key.
LEMMA EnteredKey == \A k, on, h, D : Key(Entered(k, on, h, D)) = Key(cache[k])
  BY DEF Entered, Key

LEMMA TableOpKeys ==
    ASSUME IInv, TableOp PROVE KeysStay(cache, cache')
<1>0. /\ cache \in [Slot -> Entry] /\ CacheInv
      /\ \A k \in Slot : cache[k].hdl \in Handle \cup {NoId}
  BY DEF IInv, CacheInv, CacheShape, Entry
<1>1. CASE UNCHANGED cacheVars
  BY <1>1 DEF cacheVars, KeysStay
<1>2. ASSUME NEW mode, Offload(TRUE, mode, cache, curCnt, ToRestore)
      PROVE  KeysStay(cache, cache')
  <2>1. ToRestore \in SUBSET UsedIn(cache)
    BY DEF ToRestore, Used, UsedIn
  <2> QED
    BY <1>0, <1>2, <2>1, OffloadKeys
<1>3. ASSUME NEW D, cache' = [k \in Slot |-> Entered(k, FALSE, cache[k].hdl, D)]
      PROVE  KeysStay(cache, cache')
  BY <1>3, EnteredKey DEF KeysStay
<1> QED
  BY <1>1, <1>2, <1>3 DEF TableOp, AddTable, DeleteTable

LEMMA ClientOpKeys ==
    ASSUME IInv, NEW a,
           \/ UpdatePwrSaveIf(a) \/ ResetPwrSaveIf(a)
           \/ DelEntriesOnClntDiscon(a) \/ DelEntriesOnSTAClntDiscon(a)
    PROVE  KeysStay(cache, cache')
<1>0. /\ cache \in [Slot -> Entry] /\ CacheInv /\ tblHdl \in BOOLEAN
      /\ \A k \in Slot : /\ cache[k].hdl \in Handle \cup {NoId}
                         /\ cache[k].enabled \in BOOLEAN
  BY DEF IInv, CacheInv, CacheShape, TableShape, Entry
<1>1. CASE UNCHANGED cacheVars
  BY <1>1 DEF cacheVars, KeysStay
<1>2. CASE ResetPwrSaveIf(a)
  <2>1. AsleepFor(a) \in SUBSET UsedIn(cache)
    BY DEF AsleepFor, Used, UsedIn
  <2> QED
    BY <1>0, <1>2, <2>1, OffloadKeys DEF ResetPwrSaveIf
<1>3. CASE UpdatePwrSaveIf(a) /\ ~UNCHANGED cacheVars
  <2>1. PICK R \in DriverDrops(EnabledFor(a)), D \in ModemDrops(EnabledFor(a)) :
           cache' = [k \in Slot |->
                       IF k \in EnabledFor(a)
                       THEN Entered(k, k \notin R, IF k \in R THEN NoId ELSE cache[k].hdl, D)
                       ELSE cache[k]]
    BY <1>3 DEF UpdatePwrSaveIf
  <2> QED
    BY <2>1, EnteredKey DEF KeysStay
<1>4. CASE DelEntriesOnClntDiscon(a)
  <2>1. PICK R \in DriverDrops(EnabledFor(a)), D \in ModemDrops(EnabledFor(a)) :
           cache' = [k \in Slot |->
                       IF k \in EnabledFor(a)
                       THEN Entered(k, k \notin R, cache[k].hdl, D) ELSE cache[k]]
    BY <1>4 DEF DelEntriesOnClntDiscon
  <2> QED
    BY <2>1, EnteredKey DEF KeysStay
<1>5. CASE DelEntriesOnSTAClntDiscon(a)
  <2> DEFINE for == {k \in Used : Tgt[cache[k].conn] = a}
             on == {k \in for : cache[k].enabled}
  <2>1. PICK R \in DriverDrops(on), D \in ModemDrops(on) :
           cache' = [k \in Slot |->
                       IF k \in for \ (on \ R) THEN Empty
                       ELSE Entered(k, cache[k].enabled, cache[k].hdl, D)]
    BY <1>5 DEF DelEntriesOnSTAClntDiscon
  <2> QED
    BY <2>1, EnteredKey, EmptyFacts DEF KeysStay
<1> QED
  BY <1>1, <1>2, <1>3, <1>4, <1>5

LEMMA EntryOpKeys ==
    ASSUME IInv, NEW r \in Rule, NEW ok, AddEntry(r, ok) \/ CacheEntry(r)
    PROVE  KeysAnd(cache, cache', r)
<1>1. CASE UNCHANGED cacheVars
  BY <1>1 DEF cacheVars, KeysAnd
<1>2. CASE ~UNCHANGED cacheVars
  <2>1. ~ChkForDup(r) /\ Used # Slot
    BY <1>2 DEF AddEntry, CacheEntry, cacheVars
  <2> DEFINE k == Least(Slot \ Used)
             c == [cache EXCEPT ![k] = Cached(r)]
  <2>2. \/ cache' = c
        \/ Offload(TRUE, backhaul, c, curCnt + 1, {k})
    BY <1>2, <2>1 DEF AddEntry, CacheEntry, cacheVars
  <2>3. /\ k \in UsedIn(c) /\ c \in [Slot -> Entry]
        /\ cache \in [Slot -> Entry] /\ CacheInv
    BY <2>1, NewEntry DEF IInv, CacheInv, CacheShape
  <2>4. \A j \in Slot : Key(c[j]) = Key(cache[j]) \/ Key(c[j]) = Key(r)
    BY <2>3 DEF Cached, Key
  <2> HIDE DEF k, c
  <2>5. KeysStay(c, cache')
    <3>1. CASE cache' = c
      BY <3>1 DEF KeysStay
    <3>2. CASE Offload(TRUE, backhaul, c, curCnt + 1, {k})
      <4> DEFINE on == TRUE
      <4>1. on \in BOOLEAN /\ {k} \in SUBSET UsedIn(c)
        BY <2>3
      <4>2. Offload(on, backhaul, c, curCnt + 1, {k})
        BY <3>2
      <4> HIDE DEF on
      <4> QED
        BY <2>3, <4>1, <4>2, OffloadKeys
    <3> QED
      BY <2>2, <3>1, <3>2
  <2> QED
    BY <2>4, <2>5 DEF KeysStay, KeysAnd
<1> QED
  BY <1>1, <1>2
-----------------------------------------------------------------------------
TrackInv == /\ CacheTracked(cache, alive) /\ TempTracked(temp, alive)
            /\ WaitsOnce(temp) /\ DummiesAreOthers(todo)

\* The invariant of the theorem that follows.
ForgetInv == ListenerIInv /\ WanKnown /\ HeldInv /\ TrackInv

TempStays(w, v) == \A i \in TempSlot : v[i] = NoRule \/ v[i] = w[i]

LEMMA WaitingStay ==
    ASSUME NEW open, NEW w, NEW v, TempTracked(w, open), WaitsOnce(w), TempStays(w, v)
    PROVE  TempTracked(v, open) /\ WaitsOnce(v)
<1>1. NoRule.conn \notin NatConn /\ Key(NoRule)[1] = NoRule.conn
  BY NothingIsNothing DEF NatConn, NoRule, Key
<1>2. TempTracked(v, open)
  BY <1>1 DEF TempTracked, TempStays, Tracked
<1>3. WaitsOnce(v)
  BY <1>1 DEF WaitsOnce, TempStays
<1> QED
  BY <1>2, <1>3

LEMMA DropTempStays ==
    ASSUME IInv, NEW x, DropTempEntries(x) \/ DeleteTempEntry(x)
    PROVE  TempStays(temp, temp')
<1>1. temp \in [TempSlot -> Rule \cup {NoRule}]
  BY DEF IInv, WaitShape, TempSlot
<1> QED
  BY <1>1 DEF DropTempEntries, DeleteTempEntry, TempStays

\* A message about NAT clients is relevant, and has the client's own address.
LEMMA NatSeen ==
    ASSUME NatClientsArePrivate, ListenerIInv, NEW c \in NatConn
    PROVE  Relevant(c) /\ Key(Seen(c)) = <<c, Priv[c]>>
<1>1. c \in Conn /\ Priv[c] \in NatAddr /\ Tgt[c] \in NatAddr
  BY DEF NatConn
<1>2. nonNatIfs \in [Iface -> (Addr \ NatAddr) \cup {NoAddr}]
  BY DEF ListenerIInv, ListenerShape
<1>3. NoAddr \notin NatAddr
  BY NothingIsNothing, ListenerConstants
<1>4. ~Touches(nonNatIfs, c)
  BY <1>1, <1>2, <1>3 DEF Touches, Contains
<1>5. ~Dummy(c) /\ {Priv[c], Tgt[c]} \cap Private # {}
  BY <1>4 DEF Dummy, NatClientsArePrivate
<1>6. ~Stale(c) /\ ~Local(c)
  <2>1. Priv[c] \notin PubIp /\ Priv[c] # NoAddr
    BY <1>1, <1>3 DEF NatClientsArePrivate
  <2>2. wanIp \in PubIp \cup {NoAddr}
    BY DEF ListenerIInv, ListenerShape
  <2> QED
    BY <2>1, <2>2 DEF Stale, Local
<1> QED
  BY <1>5, <1>6 DEF Relevant, Seen, Key

LEMMA SeenTracked ==
    ASSUME NatClientsArePrivate, ListenerIInv, NEW c \in Conn, NEW open, c \in open
    PROVE  Tracked(Key(Seen(c)), open)
<1>1. Key(Seen(c))[1] = c
  BY DEF Key, Seen
<1>2. CASE c \in NatConn
  BY <1>2, NatSeen DEF Tracked
<1>3. CASE c \notin NatConn
  BY <1>1, <1>3 DEF Tracked
<1> QED
  BY <1>2, <1>3

LEMMA OpenedTracks ==
    ASSUME NatClientsArePrivate, ForgetInv, NEW c \in Conn, Opened(c)
    PROVE  TrackInv'
<1>0. /\ ListenerIInv /\ IInv /\ TrackInv /\ Seen(c) \in Rule
      /\ temp \in [TempSlot -> Rule \cup {NoRule}]
      /\ todo' = todo /\ alive' = alive \cup {c}
  BY SeenIsRule DEF ForgetInv, ListenerIInv, IInv, WaitShape, TempSlot, Opened
<1>1. CacheTracked(cache, alive') /\ TempTracked(temp, alive') /\ WaitsOnce(temp)
  BY <1>0 DEF TrackInv, CacheTracked, TempTracked, Tracked
<1>2. Tracked(Key(Seen(c)), alive')
  BY <1>0, SeenTracked
<1>3. CacheTracked(cache', alive')
  <2>1. CASE UNCHANGED cacheVars
    BY <1>1, <2>1 DEF cacheVars
  <2>2. CASE \E ok \in BOOLEAN : AddEntry(Seen(c), ok) \/ CacheEntry(Seen(c))
    BY <1>0, <1>1, <1>2, <2>2, EntryOpKeys, TrackedAnd
  <2> QED
    BY <2>1, <2>2 DEF Opened
<1>4. TempTracked(temp', alive') /\ WaitsOnce(temp')
  <2>1. CASE UNCHANGED temp
    BY <1>1, <2>1
  <2>2. CASE AddTempEntry(Seen(c)) /\ ~UNCHANGED temp
    <3> DEFINE room == {i \in TempSlot : temp[i] = NoRule}
               j == Least(room)
               r == Seen(c)
    <3>1. /\ room # {} /\ temp' = [temp EXCEPT ![j] = r]
          /\ \A i \in TempSlot : Key(temp[i]) # Key(r)
      BY <2>2 DEF AddTempEntry
    <3>2. j \in TempSlot
      BY <3>1, LeastIsElement DEF TempSlot
    <3>3. Key(r)[1] = r.conn /\ \A i : Key(temp[i])[1] = temp[i].conn
      BY DEF Key
    <3>4. /\ temp'[j] = r
          /\ \A i \in TempSlot : i # j => temp'[i] = temp[i]
      BY <1>0, <3>1, <3>2
    <3> HIDE DEF j, r
    <3>5. TempTracked(temp', alive')
      BY <1>1, <1>2, <3>4 DEF TempTracked, r
    <3>6. ASSUME NEW i \in TempSlot, temp[i].conn \in NatConn PROVE temp[i].conn # r.conn
      <4>1. Tracked(Key(temp[i]), alive') /\ Tracked(Key(r), alive')
        BY <1>1, <1>2 DEF TempTracked, r
      <4>2. Key(temp[i]) = <<temp[i].conn, temp[i].priv>> /\ Key(r) = <<r.conn, r.priv>>
        BY DEF Key
      <4> QED
        BY <3>1, <3>6, <4>1, <4>2 DEF Tracked
    <3>7. WaitsOnce(temp')
      BY <1>1, <3>2, <3>4, <3>6 DEF WaitsOnce
    <3> QED
      BY <3>5, <3>7
  <2> QED
    BY <2>1, <2>2 DEF Opened
<1> QED
  BY <1>0, <1>3, <1>4 DEF TrackInv

LEMMA ClosedTracks ==
    ASSUME NatClientsArePrivate, ForgetInv, NEW c \in Conn, Closed(c)
    PROVE  TrackInv' /\ CacheInv /\ (UNCHANGED cacheVars \/ \E key : DeleteEntry(key))
<1>0. /\ ListenerIInv /\ IInv /\ CacheInv /\ TrackInv
      /\ cache \in [Slot -> Entry]
      /\ temp \in [TempSlot -> Rule \cup {NoRule}]
      /\ todo' = todo /\ alive' = alive \ {c}
  BY DEF ForgetInv, ListenerIInv, IInv, CacheInv, CacheShape, WaitShape, TempSlot, Closed
<1>1. KeysStay(cache, cache')
  BY <1>0, EmptyFacts DEF Closed, Forget, DeleteEntry, KeysStay, cacheVars
<1>2. TempStays(temp, temp')
  BY <1>0, DropTempStays DEF Closed, Forget, TempStays
<1>3. /\ CacheTracked(cache', alive)
      /\ TempTracked(temp', alive) /\ WaitsOnce(temp')
  BY <1>0, <1>1, <1>2, TrackedStay, WaitingStay DEF TrackInv
<1>4. ASSUME c \in NatConn
      PROVE  /\ \A k \in Slot : cache'[k].conn # c
             /\ \A i \in TempSlot : temp'[i].conn # c
  <2> DEFINE key == <<c, Priv[c]>>
             at == {k \in Used : Key(cache[k]) = key}
             in == {i \in TempSlot : Key(temp[i]) = key}
  <2>1. DeleteEntry(key) /\ DeleteTempEntry(key)
    BY <1>0, <1>4, NatSeen DEF Closed, Forget
  <2>2. c # NoConn /\ Empty.conn = NoConn /\ NoRule.conn = NoConn
    BY NothingIsNothing, EmptyFacts DEF NoRule
  <2>3. \A k \in Slot : cache[k].conn = c => k \in at
    BY <1>0, <1>4, <2>2 DEF TrackInv, CacheTracked, Tracked, Key, Used
  <2>4. \A i \in TempSlot : temp[i].conn = c => i \in in
    BY <1>0, <1>4 DEF TrackInv, TempTracked, Tracked, Key
  <2>5. \A j, k \in at : j = k
    BY <1>0 DEF CacheInv, NoDuplicates
  <2>6. \A i, j \in in : i = j
    BY <1>0, <1>4 DEF TrackInv, WaitsOnce, Key
  <2>7. \A k \in Slot : cache'[k].conn # c
    <3>1. CASE at = {}
      BY <2>1, <2>3, <3>1 DEF DeleteEntry, cacheVars
    <3>2. CASE at # {}
      <4>1. cache' = [cache EXCEPT ![Least(at)] = Empty]
        BY <2>1, <3>2 DEF DeleteEntry
      <4>2. Least(at) \in at
        BY <3>2, LeastIsElement DEF Used, Slot
      <4> QED
        BY <1>0, <2>2, <2>3, <2>5, <4>1, <4>2 DEF Used
    <3> QED
      BY <3>1, <3>2
  <2>8. \A i \in TempSlot : temp'[i].conn # c
    <3>1. CASE in = {}
      BY <2>1, <2>4, <3>1 DEF DeleteTempEntry
    <3>2. CASE in # {}
      <4>1. temp' = [temp EXCEPT ![Least(in)] = NoRule]
        BY <2>1, <3>2 DEF DeleteTempEntry
      <4>2. Least(in) \in in
        BY <3>2, LeastIsElement DEF TempSlot
      <4> QED
        BY <1>0, <2>2, <2>4, <2>6, <4>1, <4>2
    <3> QED
      BY <3>1, <3>2
  <2> QED
    BY <2>7, <2>8
<1>5. /\ \A k : Key(cache'[k])[1] = cache'[k].conn
      /\ \A i : Key(temp'[i])[1] = temp'[i].conn
  BY DEF Key
<1>6. CacheTracked(cache', alive') /\ TempTracked(temp', alive')
  BY <1>0, <1>3, <1>4, <1>5 DEF CacheTracked, TempTracked, Tracked
<1>7. UNCHANGED cacheVars \/ \E key : DeleteEntry(key)
  BY DEF Closed, Forget
<1> QED
  BY <1>0, <1>3, <1>6, <1>7 DEF TrackInv
LEMMA FlushTracks ==
    ASSUME ForgetInv, FlushTempEntries, UNCHANGED alive
    PROVE  TrackInv'
<1> DEFINE f == Head(todo)
           i == Least(FlushNext(f))
           r == Dummied(temp[i], f)
<1>0. /\ IInv /\ TrackInv /\ f \in Flush /\ todo # << >>
      /\ temp \in [TempSlot -> Rule \cup {NoRule}]
      /\ CacheTracked(cache, alive) /\ TempTracked(temp, alive) /\ WaitsOnce(temp)
  BY DEF ForgetInv, ListenerIInv, IInv, WaitShape, TempSlot, FlushTempEntries, TrackInv
<1>1. CASE FlushNext(f) = {}
  BY <1>0, <1>1
  DEF FlushTempEntries, TrackInv, DummiesAreOthers, cacheVars
<1>2. CASE FlushNext(f) # {}
  <2>1. /\ todo' = <<[f EXCEPT !.from = i + 1]>>
        /\ \/ temp' = [temp EXCEPT ![i] = NoRule] /\ UNCHANGED cacheVars
           \/ \E ok \in BOOLEAN : /\ AddEntry(r, ok)
                                  /\ temp' = [temp EXCEPT ![i] = IF ok THEN NoRule ELSE r]
    BY <1>2 DEF FlushTempEntries
  <2>2. i \in FlushNext(f)
    BY <1>2, LeastIsElement DEF FlushNext, TempSlot
  <2>3. i \in TempSlot /\ temp[i] \in Rule /\ Waiting(temp[i], f.ip)
    BY <1>0, <2>2 DEF FlushNext, Waiting
  <2>4. r \in Rule /\ r.conn = temp[i].conn
    BY <1>0, <2>3, DummiedIsRule DEF Dummied, Rule
  <2>5. r.conn \in NatConn => r = temp[i]
    <3> SUFFICES ASSUME r.conn \in NatConn PROVE r = temp[i]
      OBVIOUS
    <3>1. Tracked(Key(temp[i]), alive)
      BY <1>0, <2>3 DEF TempTracked
    <3>2. temp[i].priv = Priv[r.conn]
      BY <2>4, <3>1 DEF Tracked, Key
    <3>3. f.ip \in NatAddr
      BY <2>3, <2>4, <3>2 DEF Waiting, NatConn
    <3>4. ~f.dummy
      BY <1>0, <3>3 DEF TrackInv, DummiesAreOthers
    <3> QED
      BY <3>4 DEF Dummied
  <2>6. Tracked(Key(r), alive)
    <3>1. Key(r)[1] = r.conn
      BY DEF Key
    <3> QED
      BY <1>0, <2>3, <2>5, <3>1 DEF TempTracked, Tracked
  <2>7. DummiesAreOthers(todo')
    <3>1. Head(todo').dummy = f.dummy /\ Head(todo').ip = f.ip
      BY <1>0, <2>1 DEF Flush
    <3> QED
      BY <1>0, <3>1 DEF TrackInv, DummiesAreOthers
  <2> HIDE DEF i, r
  <2>8. CacheTracked(cache', alive)
    <3>1. CASE UNCHANGED cacheVars
      BY <1>0, <3>1 DEF cacheVars
    <3>2. ASSUME NEW ok, AddEntry(r, ok) PROVE CacheTracked(cache', alive)
      <4>1. KeysAnd(cache, cache', r)
        BY <1>0, <2>4, <3>2, EntryOpKeys
      <4> QED
        BY <1>0, <2>6, <4>1, TrackedAnd
    <3> QED
      BY <2>1, <3>1, <3>2
  <2>9. TempTracked(temp', alive) /\ WaitsOnce(temp')
    <3>1. CASE temp' = [temp EXCEPT ![i] = NoRule]
      <4>1. TempStays(temp, temp')
        BY <1>0, <3>1 DEF TempStays
      <4> QED
        BY <1>0, <4>1, WaitingStay
    <3>2. CASE temp' = [temp EXCEPT ![i] = r]
      <4>1. temp'[i] = r /\ \A j \in TempSlot : j # i => temp'[j] = temp[j]
        BY <1>0, <2>3, <3>2
      <4>2. TempTracked(temp', alive)
        BY <1>0, <2>6, <4>1 DEF TempTracked
      <4>3. \A j \in TempSlot : temp'[j].conn = temp[j].conn
        BY <2>4, <4>1
      <4> QED
        BY <1>0, <4>2, <4>3 DEF WaitsOnce
    <3> QED
      BY <2>1, <3>1, <3>2
  <2> QED
    BY <2>7, <2>8, <2>9 DEF TrackInv
<1> QED
  BY <1>1, <1>2

\* The handler of a neighbour or WAN event, by what it leaves of the state.
LEMMA KeepTracks ==
    ASSUME ForgetInv, UNCHANGED alive, KeysStay(cache, cache'), TempStays(temp, temp'),
           \/ UNCHANGED todo
           \/ \E x, dummy : StartFlush(x, dummy) /\ (dummy => x \notin NatAddr)
    PROVE  TrackInv'
<1>1. DummiesAreOthers(todo')
  BY DEF ForgetInv, TrackInv, DummiesAreOthers, StartFlush
<1>2. CacheTracked(cache', alive)
  BY TrackedStay DEF ForgetInv, TrackInv
<1>3. TempTracked(temp', alive) /\ WaitsOnce(temp')
  BY WaitingStay DEF ForgetInv, TrackInv
<1> QED
  BY <1>1, <1>2, <1>3 DEF TrackInv

LEMMA WanForgets ==
    ASSUME DeletesSucceed, ForgetInv,
           \/ \E ip \in PubIp, mode \in Backhaul : TriggerWANUp(ip, mode)
           \/ \E ip \in PubIp : WanDown(ip)
           \/ Reup
    PROVE  HeldAreEnabled' /\ TrackInv'
<1>0. IInv /\ HeldInv /\ TableDeletes
  BY DEF ForgetInv, ListenerIInv, DeletesSucceed, TableDeletes
<1>1. UNCHANGED <<temp, todo, alive>>
  BY DEF TriggerWANUp, WanDown, Reup, CreateTable, TriggerWANDown, AddTable, DeleteTable
<1>2. WanCall
  BY <1>0, WanStep DEF ForgetInv
<1>3. KeysStay(cache, cache') /\ HeldAreEnabled'
  <2>1. CASE UNCHANGED <<tableVars, cacheVars>>
    BY <1>0, <2>1 DEF KeysStay, HeldInv, HeldAreEnabled, Used, cacheVars
  <2>2. CASE TableOp
    BY <1>0, <2>2, TableOpKeys, TableOpHeld DEF HeldInv
  <2> QED
    BY <1>2, <2>1, <2>2 DEF WanCall
<1>4. TempStays(temp, temp')
  BY <1>1 DEF TempStays
<1> QED
  BY <1>1, <1>3, <1>4, KeepTracks

LEMMA NeighbourForgets ==
    ASSUME ForgetInv, NEW a \in Client,
           \/ NatClientAdd(a) \/ NatClientDel(a)
           \/ NonNatClientAdd(a) \/ NonNatClientDel(a)
           \/ StaClientAdd(a) \/ StaClientDel(a) \/ PowerSave(a)
    PROVE  HeldAreEnabled' /\ TrackInv'
<1>0. IInv /\ CacheInv /\ HeldAreEnabled /\ tblHdl \in BOOLEAN
  BY DEF ForgetInv, ListenerIInv, IInv, HeldInv, TableShape
<1>1. /\ UNCHANGED alive
      /\ \/ UNCHANGED cacheVars
         \/ UpdatePwrSaveIf(a) \/ ResetPwrSaveIf(a)
         \/ DelEntriesOnClntDiscon(a) \/ DelEntriesOnSTAClntDiscon(a)
  BY DEF NatClientAdd, NatClientDel, NonNatClientAdd, NonNatClientDel,
         StaClientAdd, StaClientDel, PowerSave
<1>2. UNCHANGED temp \/ DropTempEntries(a)
  BY DEF NatClientAdd, NatClientDel, NonNatClientAdd, NonNatClientDel,
         StaClientAdd, StaClientDel, PowerSave
<1>3. \/ UNCHANGED todo
      \/ \E x, dummy : StartFlush(x, dummy) /\ (dummy => x \notin NatAddr)
  BY DEF NatClientAdd, NatClientDel, NonNatClientAdd, NonNatClientDel,
         StaClientAdd, StaClientDel, PowerSave
<1>4. KeysStay(cache, cache')
  <2>1. CASE UNCHANGED cacheVars
    BY <2>1 DEF cacheVars, KeysStay
  <2> QED
    BY <1>0, <1>1, <2>1, ClientOpKeys
<1>5. HeldAreEnabled'
  <2>1. CASE UNCHANGED cacheVars
    BY <1>0, <2>1 DEF cacheVars, HeldAreEnabled, Used
  <2>2. CASE ResetPwrSaveIf(a)
    <3>1. AsleepFor(a) \in SUBSET Used /\ \A k \in AsleepFor(a) : ~cache[k].enabled
      BY DEF AsleepFor
    <3> QED
      BY <1>0, <2>2, <3>1, CacheOffloadHeld DEF ResetPwrSaveIf
  <2> QED
    BY <1>0, <1>1, <2>1, <2>2, ClientsSleepHeld, TargetsLeaveHeld
<1>6. TempStays(temp, temp')
  <2>1. CASE UNCHANGED temp
    BY <2>1 DEF TempStays
  <2> QED
    BY <1>0, <1>2, <2>1, DropTempStays
<1> QED
  BY <1>1, <1>3, <1>4, <1>5, <1>6, KeepTracks

LEMMA NextForget ==
    ASSUME DeletesSucceed, NatClientsArePrivate, ForgetInv, [ListenerNext]_allVars
    PROVE  ForgetInv'
<1>0. IInv /\ CacheInv /\ HeldInv /\ HeldAreEnabled /\ TableDeletes
  BY DEF ForgetInv, ListenerIInv, IInv, HeldInv, DeletesSucceed, TableDeletes
<1>1. ListenerIInv'
  BY NextListener DEF ForgetInv
<1>2. WanKnown'
  BY <1>0, NextWan DEF ForgetInv
<1>3. HeldAreEnabled' /\ TrackInv'
  <2>1. ASSUME NEW c \in Conn, Opened(c) PROVE HeldAreEnabled' /\ TrackInv'
    <3>1. Seen(c) \in Rule
      BY SeenIsRule DEF ForgetInv
    <3>2. CASE UNCHANGED cacheVars
      BY <1>0, <2>1, <3>2, OpenedTracks DEF cacheVars, HeldAreEnabled, Used
    <3>3. CASE \E ok \in BOOLEAN : AddEntry(Seen(c), ok) \/ CacheEntry(Seen(c))
      BY <1>0, <2>1, <3>1, <3>3, OpenedTracks, AddEntryHeld
    <3> QED
      BY <2>1, <3>2, <3>3 DEF Opened
  <2>2. ASSUME NEW c \in Conn, Closed(c) PROVE HeldAreEnabled' /\ TrackInv'
    <3>1. TrackInv' /\ (UNCHANGED cacheVars \/ \E key : DeleteEntry(key))
      BY <2>2, ClosedTracks
    <3>2. CASE UNCHANGED cacheVars
      BY <1>0, <3>1, <3>2 DEF cacheVars, HeldAreEnabled, Used
    <3> QED
      BY <1>0, <3>1, <3>2, EntryGoesHeld
  <2>3. CASE Continue
    <3>1. TrackInv'
      BY <2>3, FlushTracks DEF Continue
    <3>2. CASE UNCHANGED cacheVars
      BY <1>0, <3>1, <3>2 DEF cacheVars, HeldAreEnabled, Used
    <3>3. CASE ~UNCHANGED cacheVars
      BY <1>0, <2>3, <3>1, <3>3, FlushAddsRule, AddEntryHeld DEF Continue
    <3> QED
      BY <3>2, <3>3
  <2>4. CASE UNCHANGED allVars
    <3>1. UNCHANGED <<cacheVars, temp, todo, alive>>
      BY <2>4 DEF allVars, vars
    <3> QED
      BY <1>0, <3>1 DEF ForgetInv, TrackInv, HeldAreEnabled, Used, cacheVars
  <2> QED
    BY <2>1, <2>2, <2>3, <2>4, WanForgets, NeighbourForgets DEF ListenerNext
<1>4. HeldInv'
  BY <1>2, <1>3 DEF HeldInv, WanKnown
<1> QED
  BY <1>1, <1>2, <1>3, <1>4 DEF ForgetInv

LEMMA InitForget == ListenerInit => ForgetInv
<1> SUFFICES ASSUME ListenerInit PROVE ForgetInv
  OBVIOUS
<1>1. ListenerIInv /\ WanKnown /\ HeldInv
  BY InitListener, InitWan, InitHeld DEF ListenerInit
<1>2. NoConn \notin NatConn /\ Empty.conn = NoConn /\ NoRule.conn = NoConn
  BY NothingIsNothing, EmptyFacts DEF NatConn, NoRule
<1>3. TrackInv
  BY <1>2 DEF ListenerInit, Init, TrackInv, CacheTracked, TempTracked, Tracked, Key,
              WaitsOnce, DummiesAreOthers, TempSlot
<1> QED
  BY <1>1, <1>3 DEF ForgetInv

\* When the driver deletes what it is asked to delete, nothing is cached,
\* translated or waiting for a connection of NAT clients that the kernel has
\* closed, whatever happened between its opening and its closing: its entry has
\* the key its closing asks for, and there is one only.
THEOREM ClosedForgotten ==
    ASSUME DeletesSucceed, NatClientsArePrivate
    PROVE  ListenerSpec => []ClosedNatAreForgotten
<1>1. ForgetInv => ClosedNatAreForgotten
  <2> SUFFICES ASSUME ForgetInv, NEW c \in Conn \ alive, c \in NatConn
               PROVE  /\ \A k \in Used : cache[k].conn # c
                      /\ \A h \in Handle : owner[h] # NoKey => owner[h][1] # c
                      /\ \A i \in TempSlot : temp[i].conn # c
    BY DEF ClosedNatAreForgotten, NatConn
  <2>1. \A k \in Slot : cache[k].conn # c
    BY DEF ForgetInv, TrackInv, CacheTracked, Tracked, Key
  <2>2. \A i \in TempSlot : temp[i].conn # c
    BY DEF ForgetInv, TrackInv, TempTracked, Tracked, Key
  <2>3. ASSUME NEW h \in Handle, owner[h] # NoKey PROVE owner[h][1] # c
    <3>1. PICK k \in Used : cache[k].enabled /\ cache[k].hdl = h
      BY <2>3 DEF ForgetInv, HeldInv, HeldAreEnabled
    <3>2. owner[h] = Key(cache[k])
      BY <3>1 DEF ForgetInv, ListenerIInv, IInv, CacheInv, EnabledAreHeld, Used
    <3> QED
      BY <2>1, <3>1, <3>2 DEF Key, Used
  <2> QED
    BY <2>1, <2>2, <2>3 DEF Used
<1>2. ForgetInv /\ [ListenerNext]_allVars => ForgetInv'
  BY NextForget
<1> QED
  BY <1>1, <1>2, InitForget, PTL DEF ListenerSpec
=============================================================================
