------------------------------- MODULE NatApp -------------------------------
(***************************************************************************)
(* The NatApp class of ipacm, src/IPACM_Conntrack_NATApp.cpp: the cache of  *)
(* NAT connections that decides which of them the IPA hardware translates. *)
(*                                                                         *)
(* A cached connection is enabled while the driver holds a rule for it.    *)
(* The cache outlives the NAT table: it is filled while the WAN is down    *)
(* and restored when the WAN returns with the same address.  Connections   *)
(* of clients in power save, or gone, stay cached but disabled.            *)
(* Connections whose interface is not known yet wait in temp.              *)
(*                                                                         *)
(* The driver is what NatTable promises: up, and owner, the connection of  *)
(* every handle.  The modem (on a PCIe backhaul) holds one filter rule per *)
(* downlink connection.  Faults names the calls that may fail.  The public *)
(* operations come in any order; module ConntrackListener narrows it.      *)
(***************************************************************************)
EXTENDS Naturals, FiniteSets, Sequences

CONSTANTS Conn,        \* protocol, ports and target of a connection
          NoConn,      \* an all-zero entry
          Addr,        \* IPv4 addresses: clients, targets, public ones
          NoAddr,      \* 0.0.0.0
          PubIp,       \* addresses the WAN may get
          Priv,        \* private_ip of each connection
          Tgt,         \* target_ip of each connection
          Alg,         \* connections through an ALG port
          DL,          \* connections the modem must know: DNAT or TCP
          MaxEntries,  \* max_entries
          MaxTemp,     \* MAX_TEMP_ENTRIES
          MaxPwr,      \* IPA_MAX_NUM_WIFI_CLIENTS
          Handle,      \* rule handles of the driver
          RuleId,      \* filter rules of the modem
          NoId,        \* the handle and rule id 0
          Faults       \* calls that may fail, besides a full driver table

ASSUME BoundsAreNatural == MaxEntries \in Nat /\ MaxTemp \in Nat /\ MaxPwr \in Nat
ASSUME NothingIsNothing == /\ NoConn \notin Conn /\ NoAddr \notin Addr
                           /\ NoId \notin Handle \cup RuleId
ASSUME AddressesAreAddr == /\ PubIp \subseteq Addr
                           /\ Priv \in [Conn -> Addr] /\ Tgt \in [Conn -> Addr]
ASSUME FaultsAreKnown ==
    Faults \subseteq {"add", "delete", "addTable", "deleteTable", "modem"}

(* A definition marked "mistake" is a plausible error in the one after it.  *)

Slot == 1 .. MaxEntries
NoKey == <<NoConn, NoAddr>>
Key(r) == <<r.conn, r.priv>>
Keys == Conn \X (Addr \cup {NoAddr})

\* A nat_table_entry on its way into the cache.  For a client behind a non-NAT
\* interface the dummy rule has the public address as its private one.
Rule == [conn : Conn, priv : Addr \cup {NoAddr}, pub : PubIp \cup {NoAddr}]
NoRule == [conn |-> NoConn, priv |-> NoAddr, pub |-> NoAddr]

Entry == [conn : Conn \cup {NoConn}, priv : Addr \cup {NoAddr},
          enabled : BOOLEAN, hdl : Handle \cup {NoId}, rid : RuleId \cup {NoId}]
Cached(r) == [conn |-> r.conn, priv |-> r.priv, enabled |-> FALSE,
              hdl |-> NoId, rid |-> NoId]
Empty == Cached(NoRule)

Backhaul == {"Q6_WAN", "Q6_MHI_WAN"}

\* A FlushTempEntries in progress, at temp[from].
Flush == [ip : Addr, dummy : BOOLEAN, from : 1 .. MaxTemp + 1]

VARIABLES tblHdl,    \* nat_table_hdl # 0
          pubIp,     \* pub_ip_addr
          pre,       \* pub_ip_addr_pre
          backhaul,  \* CtList->backhaul_mode
          cache,     \* cache[]
          curCnt,    \* curCnt
          temp,      \* temp[]
          pwr,       \* PwrSaveIfs[]
          up,        \* driver: a table exists
          owner,     \* driver: the connection each handle stands for
          modem,     \* filter rules installed in the modem
          todo       \* what the running operation has left to do

cacheVars == <<cache, curCnt, owner, modem>>
tableVars == <<tblHdl, pubIp, pre, backhaul, up>>
vars == <<tableVars, cacheVars, temp, pwr, todo>>

TypeOK == /\ tblHdl \in BOOLEAN /\ up \in BOOLEAN
          /\ pubIp \in PubIp \cup {NoAddr} /\ pre \in Addr \cup {NoAddr}
          /\ backhaul \in Backhaul
          /\ cache \in [Slot -> Entry]
          /\ curCnt \in 0 .. MaxEntries
          /\ temp \in [1 .. MaxTemp -> Rule \cup {NoRule}]
          /\ pwr \in [1 .. MaxPwr -> Addr \cup {NoAddr}]
          /\ owner \in [Handle -> Keys \cup {NoKey}]
          /\ modem \subseteq RuleId
          /\ todo \in {<< >>} \cup {<<f>> : f \in Flush}

-----------------------------------------------------------------------------
Used == {k \in Slot : cache[k].conn # NoConn}
Least(S) == CHOOSE k \in S : \A j \in S : k <= j
FreeHandle == {h \in Handle : owner[h] = NoKey}
OneToOne(S, T) == {f \in [S -> T] : \A a, b \in S : a # b => f[a] # f[b]}

\* Of the deletions asked for the slots S, the ones that succeed.
Succeed(call, S) == IF call \in Faults THEN SUBSET S ELSE {S}

\* Of the insertions asked for the slots S, the ones accepted: there must be room.
Accept(call, S, room) ==
    LET most == IF Cardinality(S) <= room THEN Cardinality(S) ELSE room
    IN  {R \in SUBSET S : /\ Cardinality(R) <= most
                          /\ call \notin Faults => Cardinality(R) = most}

\* The slots of S for which the modem gets a filter rule: "only with DL direction".
ModemRelevant(mode, c, S) == {k \in S : mode = "Q6_MHI_WAN" /\ c[k].conn \in DL}

KeepRefused(c, S, R) == c                   \* mistake: it stays in the cache
DropRefused(c, S, R) == [k \in Slot |-> IF k \in S \ R THEN Empty ELSE c[k]]

\* ipa_nat_add_ipv4_rule, then AddConnection, for the entries S of the cache c,
\* which has n entries; an entry the driver refuses leaves the cache.  With the
\* table handle 0 (~hdl) it refuses all.
Offload(hdl, mode, c, n, S) ==
    \E R \in (IF hdl THEN Accept("add", S, Cardinality(FreeHandle)) ELSE {{}}) :
    \E M \in Accept("modem", ModemRelevant(mode, c, R), Cardinality(RuleId \ modem)) :
    \E f \in OneToOne(R, FreeHandle), g \in OneToOne(M, RuleId \ modem) :
        /\ cache' = [k \in Slot |->
              IF k \in R
              THEN [conn |-> c[k].conn, priv |-> c[k].priv, enabled |-> TRUE,
                    hdl |-> f[k],
                    rid |-> IF k \in M THEN g[k]
                            ELSE IF k \in ModemRelevant(mode, c, R)
                            THEN NoId ELSE c[k].rid]
              ELSE DropRefused(c, S, R)[k]]
        /\ owner' = [h \in Handle |->
              IF \E k \in R : f[k] = h THEN Key(c[CHOOSE k \in R : f[k] = h])
              ELSE owner[h]]
        /\ modem' = modem \cup {g[k] : k \in M}
        /\ curCnt' = n - Cardinality(S \ R)

\* ipa_nat_del_ipv4_rule: the slots of S whose rule the driver deletes.
DriverDrops(S) ==
    IF tblHdl THEN Succeed("delete", {k \in S : owner[cache[k].hdl] # NoKey}) ELSE {{}}

\* DelConnection: the slots of S whose filter rule the modem deletes.
ModemDrops(S) ==
    Succeed("modem", {k \in ModemRelevant(backhaul, cache, S) : cache[k].rid # NoId})

ForgetRules(R) == [h \in Handle |-> IF \E k \in R : cache[k].hdl = h THEN NoKey ELSE owner[h]]
ForgetFilters(D) == modem \ {cache[k].rid : k \in D}

AsItWas(k, on, h, D) ==                     \* mistake: enabled is not reset
    [cache[k] EXCEPT !.hdl = h, !.rid = IF k \in D THEN NoId ELSE cache[k].rid]
RidKept(k, on, h, D) ==                     \* mistake: rule_id is not reset
    [cache[k] EXCEPT !.enabled = on, !.hdl = h]

\* The entry of slot k after the modem forgot the filter rules of the slots D.
Entered(k, on, h, D) ==
    [conn |-> cache[k].conn, priv |-> cache[k].priv, enabled |-> on, hdl |-> h,
     rid |-> IF k \in D THEN NoId ELSE cache[k].rid]

-----------------------------------------------------------------------------
\* PwrSaveIfs and pub_ip_addr_pre are not initialised by the constructor.
Init == /\ tblHdl = FALSE
        /\ pubIp = NoAddr
        /\ pre \in PubIp \cup {NoAddr}
        /\ backhaul = "Q6_WAN"
        /\ cache = [k \in Slot |-> Empty]
        /\ curCnt = 0
        /\ temp = [i \in 1 .. MaxTemp |-> NoRule]
        /\ pwr \in [1 .. MaxPwr -> Addr \cup {NoAddr}]
        /\ up = FALSE
        /\ owner = [h \in Handle |-> NoKey]
        /\ modem = {}
        /\ todo = << >>

WereLive == {k \in Used : cache[k].enabled}  \* mistake: but they were disabled
ToRestore == Used

\* AddTable: create the table; when the address is the one of the previous
\* table, insert every cached connection again.
AddTable(ip, mode) ==
    /\ backhaul' = mode
    /\ \/ /\ up \/ "addTable" \in Faults            \* the driver refuses
          /\ tblHdl' = FALSE
          /\ UNCHANGED <<pubIp, up, cacheVars>>
       \/ /\ ~up
          /\ up' = TRUE
          /\ tblHdl' = TRUE
          /\ pubIp' = ip
          /\ IF ip = pre THEN Offload(TRUE, mode, cache, curCnt, ToRestore)
                         ELSE UNCHANGED cacheVars
    /\ UNCHANGED <<pre, temp, pwr>>

\* DeleteTable: every entry is disabled, also when the driver then fails.
DeleteTable(ip) ==
    /\ IF ~tblHdl \/ pubIp # ip
       THEN UNCHANGED <<tableVars, cacheVars>>
       ELSE /\ \E D \in ModemDrops(Slot) :
                 /\ cache' = [k \in Slot |-> Entered(k, FALSE, cache[k].hdl, D)]
                 /\ modem' = ForgetFilters(D)
            /\ \/ /\ tblHdl' = FALSE
                  /\ up' = FALSE
                  /\ owner' = [h \in Handle |-> NoKey]
                  /\ pre' = pubIp
                  /\ pubIp' = NoAddr
               \/ /\ "deleteTable" \in Faults
                  /\ UNCHANGED <<tblHdl, up, owner, pre, pubIp>>
            /\ UNCHANGED <<backhaul, curCnt>>
    /\ UNCHANGED <<temp, pwr>>

DupOfEnabled(r) ==                          \* mistake: only among enabled entries
    \E k \in Used : cache[k].enabled /\ Key(cache[k]) = Key(r)
ChkForDup(r) == \E k \in Used : Key(cache[k]) = Key(r)
isPwrSaveIf(a) == \E i \in 1 .. MaxPwr : pwr[i] = a /\ a # NoAddr

\* AddEntry, and whether it returns 0 (it does for an invalid connection).
AddEntry(r, ok) ==
    IF ~tblHdl \/ r.conn \in Alg \/ (r.priv # NoAddr /\ (ChkForDup(r) \/ Used = Slot))
    THEN ok = FALSE /\ UNCHANGED cacheVars
    ELSE IF r.priv = NoAddr
    THEN ok = TRUE /\ UNCHANGED cacheVars
    ELSE LET k == Least(Slot \ Used)
             c == [cache EXCEPT ![k] = Cached(r)]
         IN  IF isPwrSaveIf(r.priv) \/ isPwrSaveIf(Tgt[r.conn])
             THEN /\ cache' = c /\ curCnt' = curCnt + 1
                  /\ ok = TRUE
                  /\ UNCHANGED <<owner, modem>>
             ELSE /\ Offload(TRUE, backhaul, c, curCnt + 1, {k})
                  /\ ok = (cache'[k] # Empty)

\* CacheEntry: what AddEntry is while the WAN is down.
CacheEntry(r) ==
    /\ IF r.priv = NoAddr \/ ChkForDup(r) \/ Used = Slot
       THEN UNCHANGED <<cache, curCnt>>
       ELSE /\ cache' = [cache EXCEPT ![Least(Slot \ Used)] = Cached(r)]
            /\ curCnt' = curCnt + 1
    /\ UNCHANGED <<owner, modem>>

\* DeleteEntry: the entry goes even when the driver or the modem fails.
DeleteEntry(key) ==
    LET at == {k \in Used : Key(cache[k]) = key}
        k == Least(at)
        on == {j \in {k} : cache[j].enabled}
    IN  IF at = {}
        THEN UNCHANGED cacheVars
        ELSE /\ \E R \in DriverDrops(on), D \in ModemDrops(on) :
                  /\ owner' = ForgetRules(R)
                  /\ modem' = ForgetFilters(D)
             /\ cache' = [cache EXCEPT ![k] = Empty]
             /\ curCnt' = curCnt - 1

EnabledFor(a) == {k \in Used : cache[k].priv = a /\ cache[k].enabled}

\* UpdatePwrSaveIf: a client goes to sleep.
UpdatePwrSaveIf(a) ==
    IF isPwrSaveIf(a)
    THEN UNCHANGED <<cacheVars, pwr>>
    ELSE /\ LET room == {i \in 1 .. MaxPwr : pwr[i] = NoAddr}
            IN  pwr' = IF room = {} THEN pwr ELSE [pwr EXCEPT ![Least(room)] = a]
         /\ \E R \in DriverDrops(EnabledFor(a)), D \in ModemDrops(EnabledFor(a)) :
              /\ cache' = [k \in Slot |->
                    IF k \in EnabledFor(a)
                    THEN Entered(k, k \notin R, IF k \in R THEN NoId ELSE cache[k].hdl, D)
                    ELSE cache[k]]
              /\ owner' = ForgetRules(R)
              /\ modem' = ForgetFilters(D)
         /\ UNCHANGED curCnt

ForgetPwrSave(a) ==
    LET at == {i \in 1 .. MaxPwr : pwr[i] = a}
    IN  pwr' = IF at = {} THEN pwr ELSE [pwr EXCEPT ![Least(at)] = NoAddr]

CachedFor(a) == {k \in Used : cache[k].priv = a}     \* mistake: enabled ones, too
AsleepFor(a) == {k \in Used : cache[k].priv = a /\ ~cache[k].enabled}

\* ResetPwrSaveIf: a client wakes up, or its address is announced again.
ResetPwrSaveIf(a) ==
    /\ ForgetPwrSave(a)
    /\ Offload(tblHdl, backhaul, cache, curCnt, AsleepFor(a))

\* DelEntriesOnClntDiscon: a client is gone; its connections stay cached.
DelEntriesOnClntDiscon(a) ==
    /\ ForgetPwrSave(a)
    /\ \E R \in DriverDrops(EnabledFor(a)), D \in ModemDrops(EnabledFor(a)) :
         /\ cache' = [k \in Slot |->
               IF k \in EnabledFor(a)
               THEN Entered(k, k \notin R, cache[k].hdl, D)
               ELSE cache[k]]
         /\ owner' = ForgetRules(R)
         /\ modem' = ForgetFilters(D)
    /\ UNCHANGED curCnt

\* DelEntriesOnSTAClntDiscon: a target is gone, and its connections with it.
DelEntriesOnSTAClntDiscon(a) ==
    LET for == {k \in Used : Tgt[cache[k].conn] = a}
        on == {k \in for : cache[k].enabled}
    IN  \E R \in DriverDrops(on), D \in ModemDrops(on) :
          /\ cache' = [k \in Slot |->
                IF k \in for \ (on \ R) THEN Empty
                ELSE Entered(k, cache[k].enabled, cache[k].hdl, D)]
          /\ owner' = ForgetRules(R)
          /\ modem' = ForgetFilters(D)
          /\ curCnt' = curCnt - Cardinality(for \ (on \ R))

-----------------------------------------------------------------------------
TempSlot == 1 .. MaxTemp

AddTempEntry(r) ==
    LET room == {i \in TempSlot : temp[i] = NoRule}
    IN  temp' = IF \/ r.conn \in Alg \/ ChkForDup(r) \/ room = {}
                   \/ \E i \in TempSlot : Key(temp[i]) = Key(r)
                THEN temp
                ELSE [temp EXCEPT ![Least(room)] = r]

DeleteTempEntry(key) ==
    LET at == {i \in TempSlot : Key(temp[i]) = key}
    IN  temp' = IF at = {} THEN temp ELSE [temp EXCEPT ![Least(at)] = NoRule]

Waiting(r, a) == r # NoRule /\ (r.priv = a \/ Tgt[r.conn] = a)

\* FlushTempEntries without isAdd forgets the connections of an address.
DropTempEntries(a) ==
    temp' = [i \in TempSlot |-> IF Waiting(temp[i], a) THEN NoRule ELSE temp[i]]

\* FlushTempEntries with isAdd: one matching entry a step; one that AddEntry
\* refuses stays, with its dummy address.
AfterNext(f) == {i \in TempSlot : i > f.from /\ Waiting(temp[i], f.ip)}  \* mistake
FlushNext(f) == {i \in TempSlot : i >= f.from /\ Waiting(temp[i], f.ip)}
Dummied(r, f) == IF f.dummy THEN [r EXCEPT !.priv = r.pub] ELSE r

FlushTempEntries ==
    /\ todo # << >>
    /\ LET f == Head(todo)
           i == Least(FlushNext(f))
           r == Dummied(temp[i], f)
       IN  IF FlushNext(f) = {}
           THEN /\ todo' = << >>
                /\ UNCHANGED <<temp, cacheVars>>
           ELSE /\ todo' = <<[f EXCEPT !.from = i + 1]>>
                /\ IF temp[i].pub # pubIp
                   THEN /\ temp' = [temp EXCEPT ![i] = NoRule]
                        /\ UNCHANGED cacheVars
                   ELSE \E ok \in BOOLEAN :
                          /\ AddEntry(r, ok)
                          /\ temp' = [temp EXCEPT ![i] = IF ok THEN NoRule ELSE r]
    /\ UNCHANGED <<tableVars, pwr>>

-----------------------------------------------------------------------------
\* What the callers may pass: a rule seen on public address p, as it is or with
\* the public address as its private one.
Rules == {[conn |-> c, priv |-> a, pub |-> p] : c \in Conn, a \in Addr, p \in PubIp}
\* Clients and targets are neighbours: their addresses are not those of the WAN.
Client == Addr \ PubIp
Offered == {r \in Rules : r.priv \in {Priv[r.conn], r.pub}}

\* TriggerWANUp deletes the old table first, which may fail.
TableOp == \/ /\ ~up \/ "deleteTable" \in Faults
              /\ \E ip \in PubIp, m \in Backhaul : AddTable(ip, m)
           \/ \E ip \in PubIp : DeleteTable(ip)

EntryOp == /\ \/ \E r \in Offered, ok \in BOOLEAN : AddEntry(r, ok)
              \/ \E r \in Offered : CacheEntry(r)
              \/ \E r \in Offered : DeleteEntry(Key(r))
              \/ \E a \in Client : DelEntriesOnSTAClntDiscon(a)
           /\ UNCHANGED <<tableVars, temp, pwr>>

ClientOp == /\ \E a \in Client : \/ UpdatePwrSaveIf(a)
                                 \/ ResetPwrSaveIf(a)
                                 \/ DelEntriesOnClntDiscon(a)
            /\ UNCHANGED <<tableVars, temp>>

TempOp == /\ \/ \E r \in Offered : AddTempEntry(r)
             \/ \E r \in Offered : DeleteTempEntry(Key(r))
             \/ \E a \in Client : DropTempEntries(a)
          /\ UNCHANGED <<tableVars, cacheVars, pwr>>

StartFlush(a, dummy) == todo' = <<[ip |-> a, dummy |-> dummy, from |-> 1]>>

Next == \/ /\ todo = << >>
           /\ \/ /\ TableOp \/ EntryOp \/ ClientOp \/ TempOp
                 /\ todo' = << >>
              \/ /\ \E a \in Client, dummy \in BOOLEAN : StartFlush(a, dummy)
                 /\ UNCHANGED <<tableVars, cacheVars, temp, pwr>>
        \/ FlushTempEntries

Spec == Init /\ [][Next]_vars

-----------------------------------------------------------------------------
(* Properties.                                                             *)

\* curCnt, adjusted in eight places, is the number of cached connections.
CountMatches == curCnt = Cardinality(Used)

\* A connection is cached at most once, whichever of its addresses it came with
\* and however it came: new, out of temp, or restored.
NoDuplicates == \A j, k \in Used : Key(cache[j]) = Key(cache[k]) => j = k

\* An enabled entry has a rule in the driver's table, under its own handle, and
\* that rule translates its own connection, whatever the driver refused before.
EnabledAreHeld ==
    \A k \in Slot : cache[k].enabled =>
        /\ up /\ cache[k].hdl \in Handle
        /\ owner[cache[k].hdl] = Key(cache[k])
        /\ Key(cache[k]) # NoKey

\* Whatever the driver refused and whenever, the cache is what the next call
\* takes it for: counted, without duplicates, and enabled only where held.
CacheSound == CountMatches /\ NoDuplicates /\ EnabledAreHeld

\* The table translates nothing the cache has forgotten: every rule in it is
\* the rule of an enabled entry.
HeldAreEnabled ==
    \A h \in Handle : owner[h] # NoKey => \E k \in Used : cache[k].enabled /\ cache[k].hdl = h

\* What the driver asks of its client (IpaNat!AddRule): no connection is
\* inserted while a handle stands for it.
HeldOnce == \A g, h \in Handle : owner[g] = owner[h] /\ owner[g] # NoKey => g = h

\* The modem's filter rules are those recorded by enabled entries, one each.
ModemMatches ==
    /\ modem = {cache[k].rid : k \in Used} \ {NoId}
    /\ \A k \in Used : cache[k].rid # NoId => cache[k].enabled
    /\ \A j, k \in Used : cache[j].rid = cache[k].rid /\ cache[j].rid # NoId => j = k

\* Neither end of a connection is in power save: AddEntry would offload it.
AwakeFor(k) == ~isPwrSaveIf(cache[k].priv) /\ ~isPwrSaveIf(Tgt[cache[k].conn])

\* When the table returns with the address it had, no cached connection is lost
\* and every one AddEntry would offload is translated again.  Nothing is said of
\* those of sleeping clients: AddEntry only caches them, AddTable does not ask.
RestoreIsComplete ==
    [][(~tblHdl /\ tblHdl' /\ pubIp' = pre) =>
          \A k \in Used : /\ Key(cache'[k]) = Key(cache[k])
                          /\ AwakeFor(k) => cache'[k].enabled]_vars

\* Once a flush for an address ends, a connection still waiting for it is one
\* AddEntry could not take: a duplicate, or the cache is full.
FlushIsComplete ==
    [][(todo # << >> /\ todo' = << >>) =>
          \A i \in TempSlot : Waiting(temp[i], Head(todo).ip) =>
              Used = Slot \/ ChkForDup(temp[i])]_vars
=============================================================================
