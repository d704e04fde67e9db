-------------------------- MODULE ConntrackListener --------------------------
(***************************************************************************)
(* The IPACM_ConntrackListener class, src/IPACM_ConntrackListener.cpp: it   *)
(* turns conntrack messages, WAN events and neighbour events into calls of *)
(* NatApp, which this module extends.                                      *)
(*                                                                         *)
(* All its handlers run on the thread of the command queue, one at a time; *)
(* one that makes several NatApp calls that change the same state takes    *)
(* several steps (todo, reup) which no other handler interrupts.           *)
(***************************************************************************)
EXTENDS NatApp

CONSTANTS NatAddr,     \* addresses on an interface of the NAT configuration
          Private,     \* addresses of a configured private subnet
          MaxIface,    \* MAX_IFACE_ADDRESS
          MaxSta,      \* MAX_STA_CLNT_IFACES
          StaSubnet    \* the targets of the subnet of STA client slot 0

ASSUME ListenerConstants == /\ NatAddr \subseteq Addr /\ Private \subseteq Addr
                            /\ StaSubnet \subseteq Addr
                            /\ MaxIface \in Nat /\ MaxSta \in Nat

VARIABLES wanUp,     \* WanUp
          wanIp,     \* wan_ipaddr
          natIfs,    \* nat_iface_ipv4_addr[]
          nonNatIfs, \* nonnat_iface_ipv4_addr[]
          sta,       \* sta_clnt_ipv4_addr[]
          staCnt,    \* StaClntCnt
          reup,      \* the WAN_UP whose table is still to be created
          alive      \* the kernel: connections in its conntrack table

listenerVars == <<wanUp, wanIp, natIfs, nonNatIfs, sta, staCnt, reup>>
allVars == <<vars, listenerVars, alive>>

Iface == 1 .. MaxIface
Sta == 1 .. MaxSta
NoWan == [ip |-> NoAddr, mode |-> "Q6_WAN"]

ListenerTypeOK ==
    /\ TypeOK
    /\ wanUp \in BOOLEAN /\ wanIp \in PubIp \cup {NoAddr}
    /\ natIfs \in [Iface -> Addr \cup {NoAddr}]
    /\ nonNatIfs \in [Iface -> Addr \cup {NoAddr}]
    /\ sta \in [Sta -> Addr \cup {NoAddr}]
    /\ staCnt \in 0 .. MaxSta
    /\ reup \in [ip : PubIp \cup {NoAddr}, mode : Backhaul]
    /\ alive \subseteq Conn

\* wan_ipaddr and backhaul_mode are not initialised by the constructor; no
\* conntrack message is received before the first WAN_UP sets both.
ListenerInit == /\ Init
                /\ wanUp = FALSE /\ wanIp = NoAddr
                /\ natIfs = [i \in Iface |-> NoAddr]
                /\ nonNatIfs = [i \in Iface |-> NoAddr]
                /\ sta = [i \in Sta |-> NoAddr]
                /\ staCnt = 0
                /\ reup = NoWan
                /\ alive = {}

\* The thread is between two events.
Ready == todo = << >> /\ reup = NoWan

-----------------------------------------------------------------------------
(* WAN_UP and WAN_DOWN.                                                    *)

CreateTable(ip, mode) ==
    /\ wanUp' = TRUE
    /\ wanIp' = ip
    /\ AddTable(ip, mode)

IgnoreFailure(ip) == FALSE                  \* mistake: it goes down regardless
\* DeleteTable returns an error.
DeleteFails(ip) == ~tblHdl \/ pubIp # ip

\* TriggerWANDown: unless DeleteTable fails.
TriggerWANDown(ip) ==
    /\ DeleteTable(ip)
    /\ IF DeleteFails(ip) \/ ("deleteTable" \in Faults /\ tblHdl')
       THEN UNCHANGED <<wanUp, wanIp>>
       ELSE wanUp' = FALSE /\ wanIp' = NoAddr

\* TriggerWANUp: a new address replaces the table, the old address is ignored.
TriggerWANUp(ip, mode) ==
    /\ Ready
    /\ IF wanUp
       THEN IF wanIp = ip
            THEN UNCHANGED <<tableVars, cacheVars, temp, pwr, wanUp, wanIp, reup>>
            ELSE TriggerWANDown(wanIp) /\ reup' = [ip |-> ip, mode |-> mode]
       ELSE CreateTable(ip, mode) /\ UNCHANGED reup
    /\ UNCHANGED <<todo, natIfs, nonNatIfs, sta, staCnt, alive>>

Reup == /\ reup # NoWan
        /\ CreateTable(reup.ip, reup.mode)
        /\ reup' = NoWan
        /\ UNCHANGED <<todo, natIfs, nonNatIfs, sta, staCnt, alive>>

WanDown(ip) == /\ Ready /\ wanUp
               /\ TriggerWANDown(ip)
               /\ UNCHANGED <<todo, natIfs, nonNatIfs, sta, staCnt, reup, alive>>

-----------------------------------------------------------------------------
(* Conntrack messages.                                                     *)

Contains(list, a) == \E i \in DOMAIN list : list[i] = a /\ a # NoAddr
Touches(list, c) == Contains(list, Priv[c]) \/ Contains(list, Tgt[c])

\* A connection of the device itself has a public address as its private one
\* and no NAT flag.  When that is not the address of the WAN now, "Neither source
\* Nor destination nat": the message is ignored.
Stale(c) == Priv[c] \in PubIp \ {wanIp}

\* An "embedded connection": its private address is that of the WAN.
Local(c) == Priv[c] = wanIp

Dummy(c) == /\ ~Touches(natIfs, c) /\ backhaul = "Q6_WAN"
            /\ Touches(nonNatIfs, c)

\* AddIface, and the special case of local connections.
Relevant(c) ==
    /\ ~Stale(c)
    /\ IF Local(c) THEN backhaul = "Q6_WAN"
       ELSE \/ Touches(natIfs, c) \/ Dummy(c)
            \/ {Priv[c], Tgt[c]} \cap Private # {}

Seen(c) == [conn |-> c, priv |-> IF ~Local(c) /\ Dummy(c) THEN wanIp ELSE Priv[c],
            pub |-> wanIp]

\* CheckSTAClient: "Check whether target is in STA client list or not".
Listed(c) == \E i \in 1 .. staCnt : sta[i] = Tgt[c]
UnknownSta(c) == /\ backhaul # "Q6_WAN" /\ staCnt # 0
                 /\ sta[1] # NoAddr /\ Tgt[c] \in StaSubnet
                 /\ ~Listed(c)

IsTemp(c) == \/ ~Local(c) /\ ~Touches(natIfs, c) /\ ~Dummy(c)
             \/ UnknownSta(c)

\* A TCP connection is established, which may be reported again, or a UDP one
\* is new.
Opened(c) ==
    /\ Ready
    /\ alive' = alive \cup {c}
    /\ IF ~Relevant(c) THEN UNCHANGED <<cacheVars, temp>>
       ELSE IF ~wanUp THEN CacheEntry(Seen(c)) /\ UNCHANGED temp
       ELSE IF IsTemp(c) THEN AddTempEntry(Seen(c)) /\ UNCHANGED cacheVars
       ELSE (\E ok \in BOOLEAN : AddEntry(Seen(c), ok)) /\ UNCHANGED temp
    /\ UNCHANGED <<tableVars, pwr, todo, listenerVars>>

ForgetEntryOnly(key) == DeleteEntry(key) /\ UNCHANGED temp      \* mistake
Forget(key) == DeleteEntry(key) /\ DeleteTempEntry(key)

\* It is destroyed, or TCP reaches FIN_WAIT.
Closed(c) ==
    /\ Ready /\ c \in alive
    /\ alive' = alive \ {c}
    /\ IF Relevant(c) THEN Forget(Key(Seen(c))) ELSE UNCHANGED <<cacheVars, temp>>
    /\ UNCHANGED <<tableVars, pwr, todo, listenerVars>>

-----------------------------------------------------------------------------
(* Neighbours.                                                             *)

\* The slots HandleNeighIpAddrAddEvt stops at: the address, or an empty one.
StopsAt(list, a) == {i \in DOMAIN list : list[i] \in {a, NoAddr}}
Erased(list, a) == [i \in DOMAIN list |-> IF list[i] = a THEN NoAddr ELSE list[i]]
ErasedOnce(list, a) ==
    [list EXCEPT ![Least({i \in DOMAIN list : list[i] = a})] = NoAddr]

\* HandleNeighIpAddrAddEvt: a client of a NAT interface gets an address.
NatClientAdd(a) ==
    /\ Ready /\ a \in NatAddr
    /\ IF StopsAt(natIfs, a) = {}
       THEN UNCHANGED <<cacheVars, pwr, natIfs, todo>>
       ELSE /\ natIfs' = [natIfs EXCEPT ![Least(StopsAt(natIfs, a))] = a]
            /\ ResetPwrSaveIf(a)
            /\ StartFlush(a, FALSE)
    /\ UNCHANGED <<tableVars, temp, wanUp, wanIp, nonNatIfs, sta, staCnt, reup, alive>>

\* HandleNeighIpAddrDelEvt.
NatClientDel(a) ==
    /\ Ready /\ Contains(natIfs, a)
    /\ natIfs' = Erased(natIfs, a)
    /\ DropTempEntries(a)
    /\ DelEntriesOnClntDiscon(a)
    /\ UNCHANGED <<tableVars, todo, wanUp, wanIp, nonNatIfs, sta, staCnt, reup, alive>>

\* HandleNonNatIPAddr, AddOp: no check whether the address is there already.
NonNatClientAdd(a) ==
    LET room == {i \in Iface : nonNatIfs[i] = NoAddr}
    IN  /\ Ready /\ a \notin NatAddr /\ backhaul = "Q6_WAN" /\ room # {}
        /\ nonNatIfs' = [nonNatIfs EXCEPT ![Least(room)] = a]
        /\ StartFlush(a, TRUE)
        /\ UNCHANGED <<tableVars, cacheVars, temp, pwr, wanUp, wanIp, natIfs,
                       sta, staCnt, reup, alive>>

NonNatClientDel(a) ==
    /\ Ready /\ backhaul = "Q6_WAN" /\ Contains(nonNatIfs, a)
    /\ nonNatIfs' = ErasedOnce(nonNatIfs, a)
    /\ DropTempEntries(a)
    /\ DelEntriesOnClntDiscon(a)
    /\ UNCHANGED <<tableVars, todo, wanUp, wanIp, natIfs, sta, staCnt, reup, alive>>

\* HandleSTAClientAddEvt and HandleSTAClientDelEvt: targets behind a station.
StaClientAdd(a) ==
    /\ Ready /\ staCnt < MaxSta
    /\ LET i == Least(StopsAt(sta, a))
       IN  IF StopsAt(sta, a) = {} \/ sta[i] = a
           THEN UNCHANGED <<sta, staCnt>>
           ELSE sta' = [sta EXCEPT ![i] = a] /\ staCnt' = staCnt + 1
    /\ StartFlush(a, FALSE)
    /\ UNCHANGED <<tableVars, cacheVars, temp, pwr, wanUp, wanIp, natIfs, nonNatIfs,
                   reup, alive>>

StaClientDel(a) ==
    /\ Ready
    /\ IF Contains(sta, a)
       THEN /\ sta' = ErasedOnce(sta, a)
            /\ staCnt' = staCnt - 1
            /\ DelEntriesOnSTAClntDiscon(a)
       ELSE UNCHANGED <<sta, staCnt, cacheVars>>
    /\ DropTempEntries(a)
    /\ UNCHANGED <<tableVars, pwr, todo, wanUp, wanIp, natIfs, nonNatIfs, reup, alive>>

\* IPACM_Wlan: a NAT client enters or leaves power save.
PowerSave(a) == /\ Ready /\ a \in NatAddr
                /\ UpdatePwrSaveIf(a) \/ ResetPwrSaveIf(a)
                /\ UNCHANGED <<tableVars, temp, todo, listenerVars, alive>>

\* The rest of a handler.
Continue == FlushTempEntries /\ UNCHANGED <<listenerVars, alive>>

ListenerNext ==
    \/ \E ip \in PubIp, mode \in Backhaul : TriggerWANUp(ip, mode)
    \/ \E ip \in PubIp : WanDown(ip)
    \/ Reup
    \/ \E c \in Conn : Opened(c) \/ Closed(c)
    \/ \E a \in Client : \/ NatClientAdd(a) \/ NatClientDel(a)
                         \/ NonNatClientAdd(a) \/ NonNatClientDel(a)
                         \/ StaClientAdd(a) \/ StaClientDel(a)
                         \/ PowerSave(a)
    \/ Continue

ListenerSpec == ListenerInit /\ [][ListenerNext]_allVars

-----------------------------------------------------------------------------
(* Properties.                                                             *)

\* The listener believes the WAN to be up exactly while NatApp has a table for
\* its address, and creates one only when the driver has none.
WanMatchesTable == /\ wanUp <=> tblHdl
                   /\ up <=> tblHdl
                   /\ wanUp => pubIp = wanIp
                   /\ reup # NoWan => ~up

\* "Delete the entry from Nat table on connection close": nothing is cached,
\* translated or waiting for a connection of NAT clients that the kernel has
\* closed (a client outside the NAT configuration has a dummy rule, which may
\* stay).
ClosedNatAreForgotten ==
    LET closed == {c \in Conn \ alive : {Priv[c], Tgt[c]} \subseteq NatAddr}
    IN  /\ \A k \in Used : cache[k].conn \notin closed
        /\ \A h \in Handle : owner[h] # NoKey => owner[h][1] \notin closed
        /\ \A i \in TempSlot : temp[i] # NoRule => temp[i].conn \notin closed
=============================================================================
