---------------------------- MODULE NatAppProofs ----------------------------
(***************************************************************************)
(* Proofs about NatApp, for every size of its tables, every set of         *)
(* connections and addresses, and whichever calls fail: type correctness,  *)
(* the count of cached connections, no connection cached twice, and every  *)
(* enabled entry held by the driver under its own handle.  As long as the  *)
(* calls they name succeed: nothing else translated, the modem's filters,  *)
(* complete restores and complete flushes.                                 *)
(***************************************************************************)
EXTENDS NatApp, FiniteSetTheorems, WellFoundedInduction, TLAPS

\* A nonempty set of naturals has a least element, which Least chooses.
LEMMA LeastExists ==
    ASSUME NEW S \in SUBSET Nat, S # {}
    PROVE  \E x \in S : \A y \in S : x <= y
<1> DEFINE R == {ss \in Nat \X Nat : ss[1] < ss[2]}
<1>1. IsWellFoundedOn(R, Nat)
  BY NatLessThanWellFounded DEF OpToRel
<1> HIDE DEF R
<1>2. PICK x \in S : \A y \in S : <<y, x>> \notin R
  BY <1>1, WFMin
<1>3. \A y \in S : ~(y < x)
  BY <1>2 DEF R
<1> QED
  BY <1>3

LEMMA LeastIsElement ==
    ASSUME NEW S \in SUBSET Nat, S # {}
    PROVE  Least(S) \in S
  BY LeastExists DEF Least

LEMMA LeastIsLeast ==
    ASSUME NEW S \in SUBSET Nat, NEW j \in S
    PROVE  Least(S) <= j
  BY LeastExists DEF Least

LEMMA SlotIsFinite == IsFiniteSet(Slot) /\ Cardinality(Slot) = MaxEntries
  BY BoundsAreNatural, FS_Interval DEF Slot

-----------------------------------------------------------------------------
(* The invariant, as a property of a cache c and of the driver's rules own.  *)
UsedIn(c) == {k \in Slot : c[k].conn # NoConn}
UniqueIn(c) == \A j, k \in UsedIn(c) : Key(c[j]) = Key(c[k]) => j = k
HeldIn(c, own, u) ==
    \A k \in Slot : c[k].enabled =>
        /\ u /\ c[k].hdl \in Handle
        /\ own[c[k].hdl] = Key(c[k])
        /\ Key(c[k]) # NoKey

CacheShape == /\ cache \in [Slot -> Entry]
              /\ owner \in [Handle -> Keys \cup {NoKey}]
              /\ modem \subseteq RuleId
TableShape == /\ tblHdl \in BOOLEAN /\ up \in BOOLEAN /\ (tblHdl => up)
              /\ pubIp \in PubIp \cup {NoAddr} /\ pre \in Addr \cup {NoAddr}
              /\ backhaul \in Backhaul
WaitShape == /\ temp \in [1 .. MaxTemp -> Rule \cup {NoRule}]
             /\ todo \in {<< >>} \cup {<<f>> : f \in Flush}
PwrShape == pwr \in [1 .. MaxPwr -> Addr \cup {NoAddr}]

CacheInv == CacheShape /\ CountMatches /\ NoDuplicates /\ EnabledAreHeld
IInv == TableShape /\ WaitShape /\ PwrShape /\ CacheInv

LEMMA RestateCacheInv ==
    CacheInv <=> /\ CacheShape
                 /\ curCnt = Cardinality(UsedIn(cache))
                 /\ UniqueIn(cache)
                 /\ HeldIn(cache, owner, up)
  BY DEF CacheInv, CountMatches, NoDuplicates, EnabledAreHeld, Used, UsedIn,
         UniqueIn, HeldIn

LEMMA CountBounded == ASSUME CacheInv PROVE curCnt \in 0 .. MaxEntries
<1>1. Used \subseteq Slot /\ curCnt = Cardinality(Used)
  BY DEF CacheInv, CountMatches, Used
<1> QED
  BY <1>1, SlotIsFinite, FS_Subset, FS_CardinalityType, BoundsAreNatural

LEMMA InvImpliesType == IInv => TypeOK
  BY CountBounded DEF IInv, CacheInv, CacheShape, TableShape, WaitShape, PwrShape, TypeOK

-----------------------------------------------------------------------------
LEMMA EmptyFacts == /\ Empty \in Entry /\ ~Empty.enabled /\ Empty.conn = NoConn
  BY DEF Empty, Cached, NoRule, Entry

\* A connection that is cached has a key, and an enabled entry is a cached one.
LEMMA KeyFacts ==
    ASSUME NEW c \in [Slot -> Entry], NEW own \in [Handle -> Keys \cup {NoKey}],
           NEW u, HeldIn(c, own, u)
    PROVE  /\ \A k \in UsedIn(c) : Key(c[k]) \in Keys
           /\ \A k \in Slot : c[k].enabled => k \in UsedIn(c)
           /\ NoKey \notin Keys
<1>1. NoKey \notin Keys
  BY NothingIsNothing DEF NoKey, Keys
<1>2. \A k \in UsedIn(c) : Key(c[k]) \in Keys
  BY DEF UsedIn, Key, Keys, Entry
<1>3. ASSUME NEW k \in Slot, c[k].enabled PROVE k \in UsedIn(c)
  <2>1. Key(c[k]) \in Keys
    BY <1>3 DEF HeldIn
  <2>2. c[k].conn \in Conn
    BY <2>1 DEF Keys, Key
  <2> QED
    BY <2>2, NothingIsNothing DEF UsedIn
<1> QED
  BY <1>1, <1>2, <1>3

\* The parts of the cache invariant after a step.
LEMMA NextCacheInv ==
    ASSUME CacheShape', curCnt' = Cardinality(UsedIn(cache')),
           UniqueIn(cache'), HeldIn(cache', owner', up')
    PROVE  CacheInv'
  BY DEF CacheInv, CountMatches, NoDuplicates, EnabledAreHeld, Used, UsedIn,
         UniqueIn, HeldIn

\* Entries that leave a cache, and the others that keep their keys.
LEMMA EntriesLeave ==
    ASSUME NEW c \in [Slot -> Entry], NEW d \in [Slot -> Entry], UniqueIn(c),
           NEW G \in SUBSET UsedIn(c),
           \A k \in G : d[k].conn = NoConn,
           \A k \in Slot \ G : Key(d[k]) = Key(c[k])
    PROVE  /\ UniqueIn(d)
           /\ UsedIn(d) = UsedIn(c) \ G
           /\ Cardinality(UsedIn(d)) = Cardinality(UsedIn(c)) - Cardinality(G)
<1>1. \A k \in Slot \ G : d[k].conn = c[k].conn
  BY DEF Key
<1>2. UsedIn(d) = UsedIn(c) \ G
  BY <1>1 DEF UsedIn
<1>3. UniqueIn(d)
  BY <1>2 DEF UniqueIn, UsedIn
<1>4. IsFiniteSet(UsedIn(c)) /\ UsedIn(c) \cap G = G
  BY SlotIsFinite, FS_Subset DEF UsedIn
<1> QED
  BY <1>2, <1>3, <1>4, FS_Difference

LEMMA AcceptFacts ==
    ASSUME NEW call, NEW S, NEW room, NEW R \in Accept(call, S, room)
    PROVE  R \subseteq S
  BY DEF Accept

\* What an insertion of the disabled entries S of a cache c does: R are the ones
\* the driver accepts, f their handles, free before.
OffloadResult(hdl, c, n, S, R, f) ==
    /\ R \subseteq S /\ (R # {} => hdl)
    /\ hdl => R \in Accept("add", S, Cardinality(FreeHandle))
    /\ f \in [R -> FreeHandle] /\ \A j, k \in R : f[j] = f[k] => j = k
    /\ cache' \in [Slot -> Entry] /\ modem' \subseteq RuleId
    /\ curCnt' = n - Cardinality(S \ R)
    /\ owner' = [h \in Handle |->
          IF \E k \in R : f[k] = h THEN Key(c[CHOOSE k \in R : f[k] = h])
          ELSE owner[h]]
    /\ \A k \in Slot :
          /\ k \in R => /\ Key(cache'[k]) = Key(c[k])
                        /\ cache'[k].hdl = f[k] /\ cache'[k].enabled
          /\ k \in S \ R => cache'[k] = Empty
          /\ k \notin S => cache'[k] = c[k]

LEMMA OffloadFacts ==
    ASSUME NEW hdl \in BOOLEAN, NEW mode, NEW c \in [Slot -> Entry], NEW n,
           modem \subseteq RuleId, NEW S \in SUBSET UsedIn(c),
           Offload(hdl, mode, c, n, S)
    PROVE  \E R, f : OffloadResult(hdl, c, n, S, R, f)
<1> DEFINE new(R, M, f, g) ==
        [k \in Slot |->
            IF k \in R
            THEN [conn |-> c[k].conn, priv |-> c[k].priv, enabled |-> TRUE,
                  hdl |-> f[k],
                  rid |-> IF k \in M THEN g[k]
                          ELSE IF k \in ModemRelevant(mode, c, R)
                          THEN NoId ELSE c[k].rid]
            ELSE DropRefused(c, S, R)[k]]
<1> DEFINE result(R, M, f, g) ==
        /\ cache' = new(R, M, f, g)
        /\ owner' = [h \in Handle |->
              IF \E k \in R : f[k] = h THEN Key(c[CHOOSE k \in R : f[k] = h])
              ELSE owner[h]]
        /\ modem' = modem \cup {g[k] : k \in M}
        /\ curCnt' = n - Cardinality(S \ R)
       filters(R) == Accept("modem", ModemRelevant(mode, c, R), Cardinality(RuleId \ modem))
<1>a. PICK R \in (IF hdl THEN Accept("add", S, Cardinality(FreeHandle)) ELSE {{}}) :
        \E M \in filters(R) :
        \E f \in OneToOne(R, FreeHandle), g \in OneToOne(M, RuleId \ modem) :
            result(R, M, f, g)
  BY DEF Offload
<1>b. PICK M \in filters(R) :
        \E f \in OneToOne(R, FreeHandle), g \in OneToOne(M, RuleId \ modem) :
            result(R, M, f, g)
  BY <1>a
<1>1. PICK f \in OneToOne(R, FreeHandle), g \in OneToOne(M, RuleId \ modem) :
        result(R, M, f, g)
  BY <1>b
<1>2. /\ R \subseteq S /\ R \subseteq Slot /\ S \subseteq Slot
      /\ M \subseteq R
      /\ f \in [R -> FreeHandle] /\ g \in [M -> RuleId \ modem]
      /\ \A j, k \in R : f[j] = f[k] => j = k
      /\ R # {} => hdl
  BY AcceptFacts DEF ModemRelevant, OneToOne, UsedIn
<1>3. ASSUME NEW k \in Slot
      PROVE  /\ cache'[k] \in Entry
             /\ k \in R => /\ Key(cache'[k]) = Key(c[k])
                           /\ cache'[k].hdl = f[k] /\ cache'[k].enabled
             /\ k \in S \ R => cache'[k] = Empty
             /\ k \notin S => cache'[k] = c[k]
  <2>1. c[k] \in Entry
    OBVIOUS
  <2>2. CASE k \in R
    <3>1. f[k] \in Handle /\ (k \in M => g[k] \in RuleId)
      BY <1>2, <2>2 DEF FreeHandle
    <3>2. cache'[k] = [conn |-> c[k].conn, priv |-> c[k].priv, enabled |-> TRUE,
                       hdl |-> f[k],
                       rid |-> IF k \in M THEN g[k]
                               ELSE IF k \in ModemRelevant(mode, c, R)
                               THEN NoId ELSE c[k].rid]
      BY <1>1, <2>2
    <3> QED
      BY <1>2, <2>1, <2>2, <3>1, <3>2 DEF Entry, Key
  <2>3. CASE k \notin R
    <3>1. cache'[k] = IF k \in S \ R THEN Empty ELSE c[k]
      BY <1>1, <2>3 DEF DropRefused
    <3> QED
      BY <1>2, <2>1, <2>3, <3>1, EmptyFacts
  <2> QED
    BY <2>2, <2>3
<1>4. cache' \in [Slot -> Entry]
  <2>1. cache' = [k \in Slot |-> cache'[k]]
    BY <1>1
  <2> QED
    BY <1>3, <2>1
<1>5. modem' \subseteq RuleId
  BY <1>1, <1>2
<1>6. owner' = [h \in Handle |->
          IF \E k \in R : f[k] = h THEN Key(c[CHOOSE k \in R : f[k] = h])
          ELSE owner[h]] /\ curCnt' = n - Cardinality(S \ R)
  BY <1>1
<1> HIDE DEF new, result, filters
<1>7. hdl => R \in Accept("add", S, Cardinality(FreeHandle))
  OBVIOUS
<1>8. OffloadResult(hdl, c, n, S, R, f)
  BY <1>2, <1>3, <1>4, <1>5, <1>6, <1>7 DEF OffloadResult
<1> QED
  BY <1>8

\* The accepted connections get their handles, and no other handle changes.
LEMMA NewOwners ==
    ASSUME NEW hdl, NEW c, NEW n, NEW S, NEW R, NEW f,
           OffloadResult(hdl, c, n, S, R, f),
           owner \in [Handle -> Keys \cup {NoKey}],
           \A k \in R : Key(c[k]) \in Keys
    PROVE  /\ \A k \in R : f[k] \in Handle /\ owner'[f[k]] = Key(c[k])
           /\ \A h \in Handle : (~\E k \in R : f[k] = h) => owner'[h] = owner[h]
           /\ \A h \in Handle : owner[h] # NoKey => owner'[h] = owner[h]
           /\ owner' \in [Handle -> Keys \cup {NoKey}]
<1>1. /\ f \in [R -> FreeHandle] /\ \A j, k \in R : f[j] = f[k] => j = k
      /\ owner' = [h \in Handle |->
            IF \E k \in R : f[k] = h THEN Key(c[CHOOSE k \in R : f[k] = h])
            ELSE owner[h]]
  BY DEF OffloadResult
<1>2. ASSUME NEW k \in R PROVE f[k] \in Handle /\ owner'[f[k]] = Key(c[k])
  <2>1. f[k] \in Handle
    BY <1>1 DEF FreeHandle
  <2>2. (CHOOSE j \in R : f[j] = f[k]) = k
    BY <1>1
  <2> QED
    BY <1>1, <2>1, <2>2
<1>3. \A h \in Handle : (~\E k \in R : f[k] = h) => owner'[h] = owner[h]
  BY <1>1
<1>4. \A h \in Handle : owner[h] # NoKey => ~\E k \in R : f[k] = h
  BY <1>1 DEF FreeHandle
<1>5. ASSUME NEW h \in Handle PROVE owner'[h] \in Keys \cup {NoKey}
  <2>1. CASE \E k \in R : f[k] = h
    BY <1>2, <2>1
  <2>2. CASE ~\E k \in R : f[k] = h
    BY <1>3, <2>2
  <2> QED
    BY <2>1, <2>2
<1>6. owner' = [h \in Handle |-> owner'[h]]
  BY <1>1
<1> QED
  BY <1>2, <1>3, <1>4, <1>5, <1>6

\* Inserting disabled entries of a cache: those the driver accepts get a free
\* handle, which names no entry; the others leave.
LEMMA OffloadStep ==
    ASSUME NEW hdl \in BOOLEAN, NEW mode, NEW c \in [Slot -> Entry],
           UniqueIn(c), NEW n, n = Cardinality(UsedIn(c)),
           owner \in [Handle -> Keys \cup {NoKey}], modem \subseteq RuleId,
           HeldIn(c, owner, up'), hdl => up',
           NEW S \in SUBSET UsedIn(c), \A k \in S : ~c[k].enabled,
           Offload(hdl, mode, c, n, S)
    PROVE  CacheInv'
<1>1. PICK R, f : OffloadResult(hdl, c, n, S, R, f)
  BY OffloadFacts
<1>2. /\ R \subseteq S /\ S \subseteq Slot /\ f \in [R -> FreeHandle]
      /\ (R # {} => hdl) /\ cache' \in [Slot -> Entry] /\ modem' \subseteq RuleId
      /\ curCnt' = n - Cardinality(S \ R)
  BY <1>1 DEF OffloadResult, UsedIn
<1>3. ASSUME NEW k \in Slot
      PROVE  /\ k \in R => /\ Key(cache'[k]) = Key(c[k])
                           /\ cache'[k].hdl = f[k] /\ cache'[k].enabled
             /\ k \in S \ R => cache'[k] = Empty
             /\ k \notin S => cache'[k] = c[k]
  BY <1>1 DEF OffloadResult
<1>4. /\ UniqueIn(cache')
      /\ Cardinality(UsedIn(cache')) = n - Cardinality(S \ R)
  <2>1. S \ R \in SUBSET UsedIn(c)
    OBVIOUS
  <2>2. \A k \in S \ R : cache'[k].conn = NoConn
    BY <1>2, <1>3, EmptyFacts
  <2>3. \A k \in Slot \ (S \ R) : Key(cache'[k]) = Key(c[k])
    BY <1>3
  <2> QED
    BY <1>2, <2>1, <2>2, <2>3, EntriesLeave
<1>5. curCnt' = Cardinality(UsedIn(cache'))
  BY <1>2, <1>4
<1>6. /\ \A k \in UsedIn(c) : Key(c[k]) \in Keys
      /\ NoKey \notin Keys
  BY KeyFacts
<1>7. /\ \A k \in R : f[k] \in Handle /\ owner'[f[k]] = Key(c[k])
      /\ \A h \in Handle : owner[h] # NoKey => owner'[h] = owner[h]
      /\ owner' \in [Handle -> Keys \cup {NoKey}]
  BY <1>1, <1>2, <1>6, NewOwners
<1>8. HeldIn(cache', owner', up')
  <2> SUFFICES ASSUME NEW k \in Slot, cache'[k].enabled
               PROVE  /\ up' /\ cache'[k].hdl \in Handle
                      /\ owner'[cache'[k].hdl] = Key(cache'[k])
                      /\ Key(cache'[k]) # NoKey
    BY DEF HeldIn
  <2>1. CASE k \in R
    <3>1. Key(cache'[k]) = Key(c[k]) /\ cache'[k].hdl = f[k]
      BY <1>3, <2>1
    <3>2. f[k] \in Handle /\ owner'[f[k]] = Key(c[k]) /\ up'
      BY <1>2, <1>7, <2>1
    <3> QED
      BY <1>2, <1>6, <2>1, <3>1, <3>2
  <2>2. CASE k \notin R
    <3>1. k \notin S
      BY <1>3, <2>2, EmptyFacts
    <3>2. cache'[k] = c[k]
      BY <1>3, <3>1
    <3> QED
      BY <1>7, <3>2 DEF HeldIn
  <2> QED
    BY <2>1, <2>2
<1> QED
  BY <1>2, <1>4, <1>5, <1>7, <1>8, NextCacheInv DEF CacheShape

-----------------------------------------------------------------------------
\* What deletions leave: the driver forgets the rules of the enabled entries R,
\* whose entries leave or are disabled; no other entry uses their handles.
LEMMA RulesLeave ==
    ASSUME CacheInv, NEW R \in SUBSET {k \in Slot : cache[k].enabled},
           NEW G \in SUBSET UsedIn(cache),
           cache' \in [Slot -> Entry], owner' = ForgetRules(R), up' = up,
           \A k \in G : cache'[k] = Empty,
           \A k \in Slot \ G :
               /\ Key(cache'[k]) = Key(cache[k])
               /\ cache'[k].enabled =>
                     cache[k].enabled /\ k \notin R /\ cache'[k].hdl = cache[k].hdl,
           modem' \subseteq RuleId,
           curCnt' = curCnt - Cardinality(G)
    PROVE  CacheInv'
<1>1. /\ CacheShape /\ curCnt = Cardinality(UsedIn(cache))
      /\ UniqueIn(cache) /\ HeldIn(cache, owner, up)
  BY RestateCacheInv
<1>2. cache \in [Slot -> Entry] /\ owner \in [Handle -> Keys \cup {NoKey}]
  BY <1>1 DEF CacheShape
<1>3. /\ UniqueIn(cache')
      /\ curCnt' = Cardinality(UsedIn(cache'))
  BY <1>1, <1>2, EntriesLeave, EmptyFacts
<1>4. owner' \in [Handle -> Keys \cup {NoKey}]
  BY <1>2 DEF ForgetRules
<1>5. HeldIn(cache', owner', up')
  <2> SUFFICES ASSUME NEW k \in Slot, cache'[k].enabled
               PROVE  /\ up' /\ cache'[k].hdl \in Handle
                      /\ owner'[cache'[k].hdl] = Key(cache'[k])
                      /\ Key(cache'[k]) # NoKey
    BY DEF HeldIn
  <2>1. k \notin G
    BY EmptyFacts
  <2>2. /\ Key(cache'[k]) = Key(cache[k]) /\ cache[k].enabled
        /\ k \notin R /\ cache'[k].hdl = cache[k].hdl
    BY <2>1
  <2>3. /\ up /\ cache[k].hdl \in Handle
        /\ owner[cache[k].hdl] = Key(cache[k])
        /\ Key(cache[k]) # NoKey
    BY <1>1, <2>2 DEF HeldIn
  <2>4. \A j \in R : cache[j].hdl # cache[k].hdl
    <3> SUFFICES ASSUME NEW j \in R, cache[j].hdl = cache[k].hdl PROVE FALSE
      OBVIOUS
    <3>1. owner[cache[j].hdl] = Key(cache[j])
      BY <1>1 DEF HeldIn
    <3>2. Key(cache[j]) = Key(cache[k])
      BY <2>3, <3>1
    <3>3. j \in UsedIn(cache) /\ k \in UsedIn(cache)
      BY <1>1, <1>2, <2>2, KeyFacts
    <3> QED
      BY <1>1, <2>2, <3>2, <3>3 DEF UniqueIn
  <2>5. owner'[cache[k].hdl] = owner[cache[k].hdl]
    BY <2>3, <2>4 DEF ForgetRules
  <2> QED
    BY <2>2, <2>3, <2>5
<1> QED
  BY <1>3, <1>4, <1>5, NextCacheInv DEF CacheShape

\* What the driver and the modem delete is among what they were asked to delete.
LEMMA DropFacts ==
    ASSUME NEW S, NEW R \in DriverDrops(S), NEW D \in ModemDrops(S)
    PROVE  R \subseteq S /\ D \subseteq S
  BY DEF DriverDrops, ModemDrops, Succeed, ModemRelevant

LEMMA EnteredFacts ==
    ASSUME CacheInv, NEW k \in Slot, NEW on \in BOOLEAN,
           NEW h \in Handle \cup {NoId}, NEW D
    PROVE  /\ Entered(k, on, h, D) \in Entry
           /\ Key(Entered(k, on, h, D)) = Key(cache[k])
           /\ Entered(k, on, h, D).enabled = on
           /\ Entered(k, on, h, D).hdl = h
<1>1. cache[k] \in Entry
  BY DEF CacheInv, CacheShape
<1> QED
  BY <1>1 DEF Entered, Entry, Key

LEMMA UnchangedCache ==
    ASSUME CacheInv, UNCHANGED cacheVars, up' = up PROVE CacheInv'
  BY DEF CacheInv, CacheShape, CountMatches, NoDuplicates, EnabledAreHeld, Used,
         cacheVars

LEMMA ForgetFiltersShape == ASSUME CacheInv, NEW D PROVE ForgetFilters(D) \subseteq RuleId
  BY DEF CacheInv, CacheShape, ForgetFilters

-----------------------------------------------------------------------------
(* Each operation keeps the cache invariant.                               *)


\* The enabled entries S are disabled, but those whose rule the driver keeps;
\* g is the handle each records afterwards.
LEMMA EntriesSleep ==
    ASSUME CacheInv, up' = up, curCnt' = curCnt,
           NEW S \in SUBSET Slot, \A k \in S : cache[k].enabled,
           NEW R \in DriverDrops(S), NEW D \in ModemDrops(S),
           NEW g \in [Slot -> Handle \cup {NoId}],
           \A k \in S \ R : g[k] = cache[k].hdl,
           cache' = [k \in Slot |->
               IF k \in S THEN Entered(k, k \notin R, g[k], D) ELSE cache[k]],
           owner' = ForgetRules(R), modem' = ForgetFilters(D)
    PROVE  CacheInv'
<1>1. /\ R \subseteq S
      /\ cache \in [Slot -> Entry] /\ curCnt \in Nat
  BY DropFacts, CountBounded DEF CacheInv, CacheShape
<1>2. ASSUME NEW k \in Slot
      PROVE  /\ cache'[k] \in Entry
             /\ Key(cache'[k]) = Key(cache[k])
             /\ cache'[k].enabled =>
                   cache[k].enabled /\ k \notin R /\ cache'[k].hdl = cache[k].hdl
  <2>1. CASE k \in S
    <3>1. cache'[k] = Entered(k, k \notin R, g[k], D)
      BY <2>1
    <3>2. /\ cache'[k] \in Entry
          /\ Key(cache'[k]) = Key(cache[k])
          /\ cache'[k].enabled = (k \notin R)
          /\ cache'[k].hdl = g[k]
      <4> DEFINE on == k \notin R
      <4>1. cache'[k] = Entered(k, on, g[k], D) /\ on \in BOOLEAN
        BY <3>1
      <4>2. g[k] \in Handle \cup {NoId}
        OBVIOUS
      <4> HIDE DEF on
      <4>3. /\ cache'[k] \in Entry /\ Key(cache'[k]) = Key(cache[k])
            /\ cache'[k].enabled = on /\ cache'[k].hdl = g[k]
        BY <4>1, <4>2, EnteredFacts
      <4> QED
        BY <4>3 DEF on
    <3> QED
      BY <2>1, <3>2
  <2>2. CASE k \notin S
    <3>1. cache'[k] = cache[k]
      BY <2>2
    <3> QED
      BY <1>1, <2>2, <3>1
  <2> QED
    BY <2>1, <2>2
<1>3. cache' \in [Slot -> Entry]
  <2>1. cache' = [k \in Slot |-> cache'[k]]
    OBVIOUS
  <2> QED
    BY <1>2, <2>1
<1>4. curCnt' = curCnt - Cardinality({})
  BY <1>1, FS_EmptySet
<1>5. R \in SUBSET {k \in Slot : cache[k].enabled} /\ modem' \subseteq RuleId
  BY <1>1, ForgetFiltersShape
<1> QED
  BY <1>2, <1>3, <1>4, <1>5, RulesLeave

LEMMA EnabledForFacts ==
    ASSUME CacheInv, NEW a
    PROVE  /\ EnabledFor(a) \in SUBSET Slot
           /\ \A k \in EnabledFor(a) : cache[k].enabled
           /\ \A k \in Slot : cache[k].hdl \in Handle \cup {NoId}
  BY DEF EnabledFor, Used, CacheInv, CacheShape, Entry

LEMMA DelEntriesOnClntDisconKeeps ==
    ASSUME CacheInv, up' = up, NEW a, DelEntriesOnClntDiscon(a)
    PROVE  CacheInv'
<1> DEFINE S == EnabledFor(a)
           g == [k \in Slot |-> cache[k].hdl]
<1>1. PICK R \in DriverDrops(S), D \in ModemDrops(S) :
        /\ cache' = [k \in Slot |->
              IF k \in S THEN Entered(k, k \notin R, cache[k].hdl, D) ELSE cache[k]]
        /\ owner' = ForgetRules(R)
        /\ modem' = ForgetFilters(D)
  BY DEF DelEntriesOnClntDiscon
<1>2. curCnt' = curCnt
  BY DEF DelEntriesOnClntDiscon
<1>3. /\ S \in SUBSET Slot /\ \A k \in S : cache[k].enabled
      /\ g \in [Slot -> Handle \cup {NoId}]
      /\ \A k \in Slot : g[k] = cache[k].hdl
  BY EnabledForFacts
<1> HIDE DEF S, g
<1>4. cache' = [k \in Slot |->
          IF k \in S THEN Entered(k, k \notin R, g[k], D) ELSE cache[k]]
  BY <1>1, <1>3
<1> QED
  BY <1>1, <1>2, <1>3, <1>4, EntriesSleep

LEMMA UpdatePwrSaveIfKeeps ==
    ASSUME CacheInv, up' = up, NEW a, UpdatePwrSaveIf(a)
    PROVE  CacheInv'
<1> DEFINE S == EnabledFor(a)
<1>1. CASE isPwrSaveIf(a)
  BY <1>1, UnchangedCache DEF UpdatePwrSaveIf, cacheVars
<1>2. CASE ~isPwrSaveIf(a)
  <2>1. PICK R \in DriverDrops(S), D \in ModemDrops(S) :
          /\ cache' = [k \in Slot |->
                IF k \in S
                THEN Entered(k, k \notin R, IF k \in R THEN NoId ELSE cache[k].hdl, D)
                ELSE cache[k]]
          /\ owner' = ForgetRules(R)
          /\ modem' = ForgetFilters(D)
    BY <1>2 DEF UpdatePwrSaveIf
  <2>2. curCnt' = curCnt
    BY <1>2 DEF UpdatePwrSaveIf
  <2> DEFINE g == [k \in Slot |-> IF k \in R THEN NoId ELSE cache[k].hdl]
  <2>3. /\ S \in SUBSET Slot /\ \A k \in S : cache[k].enabled
        /\ g \in [Slot -> Handle \cup {NoId}]
        /\ \A k \in Slot : g[k] = IF k \in R THEN NoId ELSE cache[k].hdl
    BY EnabledForFacts
  <2> HIDE DEF S, g
  <2>4. /\ cache' = [k \in Slot |->
              IF k \in S THEN Entered(k, k \notin R, g[k], D) ELSE cache[k]]
        /\ \A k \in S \ R : g[k] = cache[k].hdl
    BY <2>1, <2>3
  <2> QED
    BY <2>1, <2>2, <2>3, <2>4, EntriesSleep
<1> QED
  BY <1>1, <1>2

LEMMA ResetPwrSaveIfKeeps ==
    ASSUME CacheInv, tblHdl \in BOOLEAN, tblHdl => up, up' = up,
           NEW a, ResetPwrSaveIf(a)
    PROVE  CacheInv'
<1>1. Offload(tblHdl, backhaul, cache, curCnt, AsleepFor(a))
  BY DEF ResetPwrSaveIf
<1>2. /\ AsleepFor(a) \in SUBSET UsedIn(cache)
      /\ \A k \in AsleepFor(a) : ~cache[k].enabled
  BY DEF AsleepFor, Used, UsedIn
<1>3. /\ CacheShape /\ curCnt = Cardinality(UsedIn(cache))
      /\ UniqueIn(cache) /\ HeldIn(cache, owner, up')
  BY RestateCacheInv
<1> QED
  BY <1>1, <1>2, <1>3, OffloadStep DEF CacheShape

LEMMA DelEntriesOnSTAClntDisconKeeps ==
    ASSUME CacheInv, up' = up, NEW a, DelEntriesOnSTAClntDiscon(a)
    PROVE  CacheInv'
<1> DEFINE for == {k \in Used : Tgt[cache[k].conn] = a}
           on == {k \in for : cache[k].enabled}
<1>1. PICK R \in DriverDrops(on), D \in ModemDrops(on) :
        /\ cache' = [k \in Slot |->
              IF k \in for \ (on \ R) THEN Empty
              ELSE Entered(k, cache[k].enabled, cache[k].hdl, D)]
        /\ owner' = ForgetRules(R)
        /\ modem' = ForgetFilters(D)
        /\ curCnt' = curCnt - Cardinality(for \ (on \ R))
  BY DEF DelEntriesOnSTAClntDiscon
<1>2. /\ R \subseteq on /\ for \subseteq UsedIn(cache)
      /\ on \subseteq {k \in for : cache[k].enabled}
      /\ cache \in [Slot -> Entry]
  BY DropFacts DEF Used, UsedIn, CacheInv, CacheShape
<1> HIDE DEF for, on
<1> DEFINE G == for \ (on \ R)
<1>3. ASSUME NEW k \in Slot
      PROVE  /\ cache'[k] \in Entry
             /\ k \in G => cache'[k] = Empty
             /\ k \notin G => /\ Key(cache'[k]) = Key(cache[k])
                             /\ cache'[k].enabled = cache[k].enabled
                             /\ cache'[k].hdl = cache[k].hdl
  <2>1. /\ cache[k].enabled \in BOOLEAN
        /\ cache[k].hdl \in Handle \cup {NoId}
    BY <1>2 DEF Entry
  <2>2. CASE k \in G
    BY <1>1, <2>2, EmptyFacts
  <2>3. CASE k \notin G
    BY <1>1, <2>1, <2>3, EnteredFacts
  <2> QED
    BY <2>2, <2>3
<1>4. cache' \in [Slot -> Entry]
  <2>1. cache' = [k \in Slot |-> cache'[k]]
    BY <1>1
  <2> QED
    BY <1>3, <2>1
<1>5. R \in SUBSET {k \in Slot : cache[k].enabled} /\ R \subseteq G
  BY <1>2 DEF UsedIn
<1>6. G \in SUBSET UsedIn(cache) /\ modem' \subseteq RuleId
  BY <1>1, <1>2, ForgetFiltersShape
<1> HIDE DEF G
<1>7. /\ \A k \in G : cache'[k] = Empty
      /\ \A k \in Slot \ G :
           /\ Key(cache'[k]) = Key(cache[k])
           /\ cache'[k].enabled =>
                 cache[k].enabled /\ k \notin R /\ cache'[k].hdl = cache[k].hdl
  BY <1>3, <1>5, <1>6 DEF UsedIn
<1>8. curCnt' = curCnt - Cardinality(G) /\ owner' = ForgetRules(R)
  BY <1>1 DEF G
<1> QED
  BY <1>4, <1>5, <1>6, <1>7, <1>8, RulesLeave

LEMMA DeleteEntryKeeps ==
    ASSUME CacheInv, up' = up, NEW key, DeleteEntry(key)
    PROVE  CacheInv'
<1> DEFINE at == {k \in Used : Key(cache[k]) = key}
           k == Least(at)
           on == {j \in {k} : cache[j].enabled}
<1>1. CASE at = {}
  BY <1>1, UnchangedCache DEF DeleteEntry
<1>2. CASE at # {}
  <2>1. PICK R \in DriverDrops(on), D \in ModemDrops(on) :
          /\ owner' = ForgetRules(R)
          /\ modem' = ForgetFilters(D)
    BY <1>2 DEF DeleteEntry
  <2>2. /\ cache' = [cache EXCEPT ![k] = Empty]
        /\ curCnt' = curCnt - 1
    BY <1>2 DEF DeleteEntry
  <2>3. k \in at
    BY <1>2, LeastIsElement DEF Used, Slot
  <2>4. /\ k \in UsedIn(cache) /\ k \in Slot
        /\ cache \in [Slot -> Entry]
        /\ R \subseteq {j \in {k} : cache[j].enabled}
    BY <2>3, DropFacts DEF Used, UsedIn, CacheInv, CacheShape
  <2> HIDE DEF k
  <2>5. /\ cache' \in [Slot -> Entry]
        /\ \A j \in {k} : cache'[j] = Empty
        /\ \A j \in Slot \ {k} : cache'[j] = cache[j] /\ j \notin R
    BY <2>2, <2>4, EmptyFacts
  <2>6. curCnt' = curCnt - Cardinality({k})
    BY <2>2, FS_Singleton
  <2>7. modem' \subseteq RuleId
    BY <2>1, ForgetFiltersShape
  <2>8. {k} \in SUBSET UsedIn(cache) /\ R \in SUBSET {j \in Slot : cache[j].enabled}
    BY <2>4
  <2> QED
    BY <2>1, <2>5, <2>6, <2>7, <2>8, RulesLeave
<1> QED
  BY <1>1, <1>2

\* A connection that is not cached, entered in the first free slot.
LEMMA NewEntry ==
    ASSUME CacheInv, NEW r \in Rule, ~ChkForDup(r), Used # Slot
    PROVE  LET k == Least(Slot \ Used)
               c == [cache EXCEPT ![k] = Cached(r)]
           IN  /\ k \in UsedIn(c) /\ ~c[k].enabled
               /\ c \in [Slot -> Entry]
               /\ UniqueIn(c) /\ HeldIn(c, owner, up)
               /\ curCnt + 1 = Cardinality(UsedIn(c))
<1> DEFINE k == Least(Slot \ Used)
           c == [cache EXCEPT ![k] = Cached(r)]
<1>1. Slot \ Used \in SUBSET Nat /\ Slot \ Used # {}
  BY DEF Used, Slot
<1>2. k \in Slot \ Used
  BY <1>1, LeastIsElement
<1>3. /\ CacheShape /\ curCnt = Cardinality(UsedIn(cache))
      /\ UniqueIn(cache) /\ HeldIn(cache, owner, up)
  BY RestateCacheInv
<1>4. cache \in [Slot -> Entry]
  BY <1>3 DEF CacheShape
<1>5. /\ Cached(r) \in Entry /\ ~Cached(r).enabled
      /\ Cached(r).conn # NoConn /\ Key(Cached(r)) = Key(r)
  BY NothingIsNothing DEF Cached, Entry, Rule, Key
<1> HIDE DEF k
<1>6. /\ c \in [Slot -> Entry] /\ c[k] = Cached(r)
      /\ \A j \in Slot \ {k} : c[j] = cache[j]
  BY <1>2, <1>4, <1>5
<1> HIDE DEF c
<1>7. UsedIn(c) = UsedIn(cache) \cup {k} /\ k \notin UsedIn(cache)
  BY <1>2, <1>5, <1>6 DEF UsedIn, Used
<1>8. UniqueIn(c)
  <2>1. \A j \in UsedIn(cache) : Key(cache[j]) # Key(r)
    BY DEF ChkForDup, UsedIn, Used
  <2>2. \A j \in UsedIn(cache) : j \in Slot \ {k}
    BY <1>7 DEF UsedIn
  <2> QED
    BY <1>3, <1>5, <1>6, <1>7, <2>1, <2>2 DEF UniqueIn
<1>9. HeldIn(c, owner, up)
  BY <1>3, <1>5, <1>6 DEF HeldIn
<1>10. curCnt + 1 = Cardinality(UsedIn(c))
  <2>1. IsFiniteSet(UsedIn(cache))
    BY SlotIsFinite, FS_Subset DEF UsedIn
  <2> QED
    BY <1>3, <1>7, <2>1, FS_AddElement
<1>11. k \in UsedIn(c) /\ ~c[k].enabled
  BY <1>5, <1>6, <1>7
<1> QED
  BY <1>6, <1>8, <1>9, <1>10, <1>11 DEF c, k

LEMMA AddEntryKeeps ==
    ASSUME CacheInv, tblHdl => up, up' = up,
           NEW r \in Rule, NEW ok, AddEntry(r, ok)
    PROVE  CacheInv'
<1>1. CASE UNCHANGED cacheVars
  BY <1>1, UnchangedCache
<1>2. CASE ~UNCHANGED cacheVars
  <2>1. /\ tblHdl /\ r.priv # NoAddr /\ ~ChkForDup(r) /\ Used # Slot
    BY <1>2 DEF AddEntry
  <2> DEFINE k == Least(Slot \ Used)
             c == [cache EXCEPT ![k] = Cached(r)]
  <2>2. \/ /\ cache' = c /\ curCnt' = curCnt + 1
           /\ UNCHANGED <<owner, modem>>
        \/ Offload(TRUE, backhaul, c, curCnt + 1, {k})
    BY <1>2, <2>1 DEF AddEntry
  <2>3. /\ k \in UsedIn(c) /\ ~c[k].enabled
        /\ c \in [Slot -> Entry]
        /\ UniqueIn(c) /\ HeldIn(c, owner, up)
        /\ curCnt + 1 = Cardinality(UsedIn(c))
    BY <2>1, NewEntry
  <2>4. /\ owner \in [Handle -> Keys \cup {NoKey}] /\ modem \subseteq RuleId
    BY DEF CacheInv, CacheShape
  <2> HIDE DEF k, c
  <2>5. CASE /\ cache' = c /\ curCnt' = curCnt + 1
             /\ UNCHANGED <<owner, modem>>
    BY <2>3, <2>4, <2>5, NextCacheInv DEF CacheShape
  <2>6. CASE Offload(TRUE, backhaul, c, curCnt + 1, {k})
    <3>1. {k} \in SUBSET UsedIn(c) /\ \A j \in {k} : ~c[j].enabled
      BY <2>3
    <3>2. TRUE => up'
      BY <2>1
    <3>3. HeldIn(c, owner, up')
      BY <2>3
    <3> QED
      BY <2>3, <2>4, <2>6, <3>1, <3>2, <3>3, OffloadStep
  <2> QED
    BY <2>2, <2>5, <2>6
<1> QED
  BY <1>1, <1>2

LEMMA CacheEntryKeeps ==
    ASSUME CacheInv, up' = up, NEW r \in Rule, CacheEntry(r)
    PROVE  CacheInv'
<1>1. CASE r.priv = NoAddr \/ ChkForDup(r) \/ Used = Slot
  BY <1>1, UnchangedCache DEF CacheEntry, cacheVars
<1>2. CASE ~(r.priv = NoAddr \/ ChkForDup(r) \/ Used = Slot)
  <2> DEFINE k == Least(Slot \ Used)
             c == [cache EXCEPT ![k] = Cached(r)]
  <2>1. /\ cache' = c /\ curCnt' = curCnt + 1
        /\ UNCHANGED <<owner, modem>>
    BY <1>2 DEF CacheEntry
  <2>2. /\ c \in [Slot -> Entry]
        /\ UniqueIn(c) /\ HeldIn(c, owner, up)
        /\ curCnt + 1 = Cardinality(UsedIn(c))
    BY <1>2, NewEntry
  <2>3. /\ owner \in [Handle -> Keys \cup {NoKey}] /\ modem \subseteq RuleId
    BY DEF CacheInv, CacheShape
  <2> HIDE DEF k, c
  <2> QED
    BY <2>1, <2>2, <2>3, NextCacheInv DEF CacheShape
<1> QED
  BY <1>1, <1>2

\* While there is no table no entry is enabled: all may be inserted again.
LEMMA AddTableKeeps ==
    ASSUME CacheInv, up \in BOOLEAN, NEW ip, NEW mode, AddTable(ip, mode)
    PROVE  CacheInv'
<1>1. CASE UNCHANGED <<up, cacheVars>>
  BY <1>1, UnchangedCache
<1>2. CASE ~up /\ up' /\ UNCHANGED cacheVars
  BY <1>2 DEF cacheVars, CacheInv, CacheShape, CountMatches, NoDuplicates,
              EnabledAreHeld, Used
<1>3. CASE ~up /\ up' /\ Offload(TRUE, mode, cache, curCnt, ToRestore)
  <2>1. /\ CacheShape /\ curCnt = Cardinality(UsedIn(cache))
        /\ UniqueIn(cache) /\ HeldIn(cache, owner, up)
    BY RestateCacheInv
  <2>2. \A k \in Slot : ~cache[k].enabled
    BY <1>3, <2>1 DEF HeldIn
  <2>3. /\ ToRestore \in SUBSET UsedIn(cache)
        /\ \A k \in ToRestore : ~cache[k].enabled
        /\ HeldIn(cache, owner, up')
    BY <2>2 DEF ToRestore, Used, UsedIn, HeldIn
  <2>4. TRUE => up'
    BY <1>3
  <2> QED
    BY <1>3, <2>1, <2>3, <2>4, OffloadStep DEF CacheShape
<1> QED
  BY <1>1, <1>2, <1>3 DEF AddTable

LEMMA DeleteTableKeeps ==
    ASSUME CacheInv, NEW ip, DeleteTable(ip)
    PROVE  CacheInv'
<1>1. CASE ~tblHdl \/ pubIp # ip
  BY <1>1, UnchangedCache DEF DeleteTable, tableVars
<1>2. CASE ~(~tblHdl \/ pubIp # ip)
  <2>1. PICK D \in ModemDrops(Slot) :
          /\ cache' = [k \in Slot |-> Entered(k, FALSE, cache[k].hdl, D)]
          /\ modem' = ForgetFilters(D)
    BY <1>2 DEF DeleteTable
  <2>2. /\ curCnt' = curCnt
        /\ owner' = [h \in Handle |-> NoKey] \/ owner' = owner
    BY <1>2 DEF DeleteTable
  <2>3. /\ CacheShape /\ curCnt = Cardinality(UsedIn(cache))
        /\ UniqueIn(cache) /\ curCnt \in Nat
    BY RestateCacheInv, CountBounded
  <2>4. ASSUME NEW k \in Slot
        PROVE  /\ cache'[k] \in Entry /\ ~cache'[k].enabled
               /\ Key(cache'[k]) = Key(cache[k])
    <3>1. cache[k].hdl \in Handle \cup {NoId}
      BY <2>3 DEF CacheShape, Entry
    <3> DEFINE on == FALSE
    <3>2. cache'[k] = Entered(k, on, cache[k].hdl, D) /\ on \in BOOLEAN
      BY <2>1
    <3> HIDE DEF on
    <3>3. /\ cache'[k] \in Entry /\ cache'[k].enabled = on
          /\ Key(cache'[k]) = Key(cache[k])
      BY <3>1, <3>2, EnteredFacts
    <3> QED
      BY <3>3 DEF on
  <2>5. cache' \in [Slot -> Entry]
    <3>1. cache' = [k \in Slot |-> cache'[k]]
      BY <2>1
    <3> QED
      BY <2>4, <3>1
  <2>6. /\ UniqueIn(cache')
        /\ Cardinality(UsedIn(cache')) = Cardinality(UsedIn(cache)) - Cardinality({})
    <3>1. /\ {} \in SUBSET UsedIn(cache)
          /\ \A k \in {} : cache'[k].conn = NoConn
          /\ \A k \in Slot \ {} : Key(cache'[k]) = Key(cache[k])
      BY <2>4
    <3> QED
      BY <2>3, <2>5, <3>1, EntriesLeave DEF CacheShape
  <2>7. curCnt' = Cardinality(UsedIn(cache'))
    BY <2>2, <2>3, <2>6, FS_EmptySet
  <2>8. HeldIn(cache', owner', up')
    BY <2>4 DEF HeldIn
  <2>9. owner' \in [Handle -> Keys \cup {NoKey}] /\ modem' \subseteq RuleId
    BY <2>1, <2>2, <2>3, ForgetFiltersShape DEF CacheShape
  <2> QED
    BY <2>5, <2>6, <2>7, <2>8, <2>9, NextCacheInv DEF CacheShape
<1> QED
  BY <1>1, <1>2

-----------------------------------------------------------------------------
(* The rest of the state, and the whole invariant.                         *)

LEMMA InitIInv == Init => IInv
<1> SUFFICES ASSUME Init PROVE IInv
  OBVIOUS
<1>1. /\ cache = [k \in Slot |-> Empty] /\ \A k \in Slot : cache[k] = Empty
  BY DEF Init
<1>2. Used = {} /\ curCnt = 0
  BY <1>1, EmptyFacts DEF Used, Init
<1>3. CacheInv
  <2>1. CountMatches
    BY <1>2, FS_EmptySet DEF CountMatches
  <2>2. NoDuplicates
    BY <1>2 DEF NoDuplicates
  <2>3. EnabledAreHeld
    BY <1>1, EmptyFacts DEF EnabledAreHeld
  <2>4. CacheShape
    BY <1>1, EmptyFacts DEF CacheShape, Init
  <2> QED
    BY <2>1, <2>2, <2>3, <2>4 DEF CacheInv
<1>4. TableShape
  BY AddressesAreAddr DEF Init, TableShape, Backhaul
<1>5. WaitShape /\ PwrShape
  BY DEF Init, WaitShape, PwrShape
<1> QED
  BY <1>3, <1>4, <1>5 DEF IInv

LEMMA OfferedFacts == Offered \subseteq Rule /\ Client \subseteq Addr
  BY AddressesAreAddr DEF Offered, Rules, Rule, Client

LEMMA DummiedIsRule ==
    ASSUME NEW r \in Rule, NEW f \in Flush PROVE Dummied(r, f) \in Rule
<1>1. r.pub \in Addr \cup {NoAddr}
  BY AddressesAreAddr DEF Rule
<1>2. [r EXCEPT !.priv = r.pub] \in Rule
  BY <1>1 DEF Rule
<1> QED
  BY <1>2 DEF Dummied

LEMMA AddTableInv ==
    ASSUME IInv, NEW ip \in PubIp, NEW m \in Backhaul, AddTable(ip, m),
           todo' \in {todo, << >>}
    PROVE  IInv'
<1>1. CacheInv'
  BY AddTableKeeps DEF IInv, TableShape
<1>2. TableShape'
  BY AddressesAreAddr DEF AddTable, IInv, TableShape
<1>3. UNCHANGED <<temp, pwr>>
  BY DEF AddTable
<1> QED
  BY <1>1, <1>2, <1>3 DEF IInv, WaitShape, PwrShape

LEMMA DeleteTableInv ==
    ASSUME IInv, NEW ip, DeleteTable(ip), todo' \in {todo, << >>}
    PROVE  IInv'
<1>1. CacheInv'
  BY DeleteTableKeeps DEF IInv
<1>2. TableShape'
  BY AddressesAreAddr DEF DeleteTable, IInv, TableShape, tableVars
<1>3. UNCHANGED <<temp, pwr>>
  BY DEF DeleteTable
<1> QED
  BY <1>1, <1>2, <1>3 DEF IInv, WaitShape, PwrShape

LEMMA TableOpKeeps ==
    ASSUME IInv, TableOp, todo' = << >> PROVE IInv'
  BY AddTableInv, DeleteTableInv DEF TableOp

LEMMA EntryOpKeeps ==
    ASSUME IInv, EntryOp, todo' = << >> PROVE IInv'
<1>1. CacheInv'
  BY AddEntryKeeps, CacheEntryKeeps, DeleteEntryKeeps,
     DelEntriesOnSTAClntDisconKeeps, OfferedFacts
  DEF EntryOp, IInv, TableShape, tableVars
<1> QED
  BY <1>1 DEF EntryOp, IInv, TableShape, WaitShape, PwrShape, tableVars

LEMMA PwrKeeps ==
    ASSUME PwrShape, NEW a \in Addr, UpdatePwrSaveIf(a) \/ ForgetPwrSave(a)
    PROVE  PwrShape'
<1>1. \/ pwr' = pwr
      \/ \E i : pwr' = [pwr EXCEPT ![i] = a]
      \/ \E i : pwr' = [pwr EXCEPT ![i] = NoAddr]
  BY DEF UpdatePwrSaveIf, ForgetPwrSave
<1> QED
  BY <1>1 DEF PwrShape

LEMMA ClientOpKeeps ==
    ASSUME IInv, ClientOp, todo' = << >> PROVE IInv'
<1>1. CacheInv'
  BY UpdatePwrSaveIfKeeps, ResetPwrSaveIfKeeps, DelEntriesOnClntDisconKeeps
  DEF ClientOp, IInv, TableShape, tableVars
<1>2. PwrShape'
  BY PwrKeeps, OfferedFacts
  DEF ClientOp, ResetPwrSaveIf, DelEntriesOnClntDiscon, IInv
<1> QED
  BY <1>1, <1>2 DEF ClientOp, IInv, TableShape, WaitShape, tableVars

LEMMA TempKeeps ==
    ASSUME temp \in [TempSlot -> Rule \cup {NoRule}],
           \/ \E r \in Rule : AddTempEntry(r)
           \/ \E key : DeleteTempEntry(key)
           \/ \E a : DropTempEntries(a)
    PROVE  temp' \in [TempSlot -> Rule \cup {NoRule}]
<1>1. ASSUME NEW r \in Rule, AddTempEntry(r)
      PROVE  temp' \in [TempSlot -> Rule \cup {NoRule}]
  BY <1>1 DEF AddTempEntry
<1>2. ASSUME NEW key, DeleteTempEntry(key)
      PROVE  temp' \in [TempSlot -> Rule \cup {NoRule}]
  BY <1>2 DEF DeleteTempEntry
<1>3. ASSUME NEW a, DropTempEntries(a)
      PROVE  temp' \in [TempSlot -> Rule \cup {NoRule}]
  BY <1>3 DEF DropTempEntries
<1> QED
  BY <1>1, <1>2, <1>3

LEMMA TempOpKeeps ==
    ASSUME IInv, TempOp, todo' = << >> PROVE IInv'
<1>1. CacheInv'
  BY UnchangedCache DEF TempOp, IInv, tableVars
<1>2. temp' \in [TempSlot -> Rule \cup {NoRule}]
  BY TempKeeps, OfferedFacts DEF TempOp, IInv, WaitShape, TempSlot
<1> QED
  BY <1>1, <1>2 DEF TempOp, IInv, TableShape, WaitShape, PwrShape, tableVars, TempSlot

LEMMA StartedFlush ==
    ASSUME NEW a \in Addr, NEW dummy \in BOOLEAN, StartFlush(a, dummy)
    PROVE  todo' \in {<<f>> : f \in Flush}
<1>1. [ip |-> a, dummy |-> dummy, from |-> 1] \in Flush
  BY BoundsAreNatural DEF Flush
<1> QED
  BY <1>1 DEF StartFlush

LEMMA StartFlushKeeps ==
    ASSUME IInv, NEW a \in Client, NEW dummy \in BOOLEAN, StartFlush(a, dummy),
           UNCHANGED <<tableVars, cacheVars, temp, pwr>>
    PROVE  IInv'
<1>1. CacheInv'
  BY UnchangedCache DEF IInv, tableVars
<1>2. todo' \in {<<f>> : f \in Flush}
  BY OfferedFacts, StartedFlush
<1> QED
  BY <1>1, <1>2 DEF IInv, TableShape, WaitShape, PwrShape, tableVars

LEMMA FlushTempEntriesKeeps ==
    ASSUME IInv, FlushTempEntries PROVE IInv'
<1> DEFINE f == Head(todo)
           i == Least(FlushNext(f))
           r == Dummied(temp[i], f)
<1>1. f \in Flush /\ todo = <<f>>
  BY DEF FlushTempEntries, IInv, WaitShape
<1>2. /\ UNCHANGED <<tableVars, pwr>> /\ up' = up
      /\ temp \in [TempSlot -> Rule \cup {NoRule}]
      /\ CacheInv /\ (tblHdl => up)
  BY DEF FlushTempEntries, IInv, WaitShape, TableShape, tableVars, TempSlot
<1>3. CASE FlushNext(f) = {}
  <2>1. todo' = << >> /\ UNCHANGED <<temp, cacheVars>>
    BY <1>3 DEF FlushTempEntries
  <2>2. CacheInv'
    BY <1>2, <2>1, UnchangedCache
  <2> QED
    BY <1>2, <2>1, <2>2 DEF IInv, WaitShape, TableShape, PwrShape, tableVars
<1>4. CASE FlushNext(f) # {}
  <2>1. /\ todo' = <<[f EXCEPT !.from = i + 1]>>
        /\ IF temp[i].pub # pubIp
           THEN /\ temp' = [temp EXCEPT ![i] = NoRule]
                /\ UNCHANGED cacheVars
           ELSE \E ok \in BOOLEAN :
                  /\ AddEntry(r, ok)
                  /\ temp' = [temp EXCEPT ![i] = IF ok THEN NoRule ELSE r]
    BY <1>4 DEF FlushTempEntries
  <2>2. FlushNext(f) \in SUBSET Nat
    BY DEF FlushNext, TempSlot
  <2>3. i \in FlushNext(f)
    BY <1>4, <2>2, LeastIsElement
  <2>4. i \in TempSlot /\ temp[i] # NoRule
    BY <2>3 DEF FlushNext, Waiting
  <2> HIDE DEF i
  <2>5. temp[i] \in Rule
    BY <1>2, <2>4
  <2>6. r \in Rule
    BY <1>1, <2>5, DummiedIsRule
  <2> HIDE DEF r
  <2>7. CacheInv' /\ temp' \in [TempSlot -> Rule \cup {NoRule}]
    <3>1. CASE temp[i].pub # pubIp
      BY <1>2, <2>1, <3>1, UnchangedCache
    <3>2. CASE temp[i].pub = pubIp
      <4>1. PICK ok \in BOOLEAN :
              /\ AddEntry(r, ok)
              /\ temp' = [temp EXCEPT ![i] = IF ok THEN NoRule ELSE r]
        BY <2>1, <3>2
      <4>2. CacheInv'
        BY <1>2, <2>6, <4>1, AddEntryKeeps
      <4> QED
        BY <1>2, <2>6, <4>1, <4>2
    <3> QED
      BY <3>1, <3>2
  <2> DEFINE g == [f EXCEPT !.from = i + 1]
  <2>8. g \in Flush
    <3>1. i + 1 \in 1 .. MaxTemp + 1
      BY <2>4, BoundsAreNatural DEF TempSlot
    <3> HIDE DEF f
    <3> QED
      BY <1>1, <3>1 DEF Flush
  <2>9. todo' = <<g>>
    BY <2>1
  <2> HIDE DEF g
  <2>10. WaitShape'
    BY <2>7, <2>8, <2>9 DEF WaitShape, TempSlot
  <2> QED
    BY <1>2, <2>7, <2>10 DEF IInv, TableShape, PwrShape, tableVars
<1> QED
  BY <1>3, <1>4

LEMMA NextIInv == IInv /\ [Next]_vars => IInv'
<1> SUFFICES ASSUME IInv, [Next]_vars PROVE IInv'
  OBVIOUS
<1>1. CASE TableOp /\ todo' = << >>
  BY <1>1, TableOpKeeps
<1>2. CASE EntryOp /\ todo' = << >>
  BY <1>2, EntryOpKeeps
<1>3. CASE ClientOp /\ todo' = << >>
  BY <1>3, ClientOpKeeps
<1>4. CASE TempOp /\ todo' = << >>
  BY <1>4, TempOpKeeps
<1>5. CASE /\ \E a \in Client, dummy \in BOOLEAN : StartFlush(a, dummy)
           /\ UNCHANGED <<tableVars, cacheVars, temp, pwr>>
  BY <1>5, StartFlushKeeps
<1>6. CASE FlushTempEntries
  BY <1>6, FlushTempEntriesKeeps
<1>7. CASE UNCHANGED vars
  <2>1. CacheInv'
    BY <1>7, UnchangedCache DEF IInv, vars, tableVars
  <2> QED
    BY <1>7, <2>1 DEF IInv, TableShape, WaitShape, PwrShape, vars, tableVars
<1> QED
  BY <1>1, <1>2, <1>3, <1>4, <1>5, <1>6, <1>7 DEF Next

-----------------------------------------------------------------------------
\* The cache, the waiting entries and the driver's rules keep their form, and
\* curCnt stays within the cache, whichever calls fail.
THEOREM TypeCorrect == Spec => []TypeOK
  BY InitIInv, NextIInv, InvImpliesType, PTL DEF Spec

\* curCnt is the number of cached connections: AddEntry, CacheEntry, the
\* refused insertions and the deletions all adjust it by what they change.
THEOREM CountIsExact == Spec => []CountMatches
<1>1. IInv => CountMatches
  BY DEF IInv, CacheInv
<1> QED
  BY <1>1, InitIInv, NextIInv, PTL DEF Spec

\* No connection is cached twice, whether it came from the listener, out of
\* temp or with the public address as its private one.
THEOREM CachedOnce == Spec => []NoDuplicates
<1>1. IInv => NoDuplicates
  BY DEF IInv, CacheInv
<1> QED
  BY <1>1, InitIInv, NextIInv, PTL DEF Spec

\* An enabled entry is translated by the driver under its own handle.
THEOREM EnabledHeld == Spec => []EnabledAreHeld
<1>1. IInv => EnabledAreHeld
  BY DEF IInv, CacheInv
<1> QED
  BY <1>1, InitIInv, NextIInv, PTL DEF Spec

\* The three hold together, whichever calls fail: what the run natapp_faults
\* checks on a small cache.
THEOREM CacheAlwaysSound == Spec => []CacheSound
<1>1. IInv => CacheSound
  BY DEF IInv, CacheInv, CacheSound
<1> QED
  BY <1>1, InitIInv, NextIInv, PTL DEF Spec

-----------------------------------------------------------------------------
(* As long as deletions succeed, the driver translates nothing else.       *)

DeletesSucceed == Faults \cap {"delete", "deleteTable"} = {}

\* Without failing deletions the table handle is known while a table exists.
HeldInv == (up => tblHdl) /\ HeldAreEnabled

LEMMA OffloadHeld ==
    ASSUME NEW hdl \in BOOLEAN, NEW mode, NEW c \in [Slot -> Entry], NEW n,
           owner \in [Handle -> Keys \cup {NoKey}], modem \subseteq RuleId,
           NEW S \in SUBSET UsedIn(c), \A k \in S : ~c[k].enabled,
           \A h \in Handle : owner[h] # NoKey =>
               \E k \in UsedIn(c) : c[k].enabled /\ c[k].hdl = h,
           Offload(hdl, mode, c, n, S)
    PROVE  HeldAreEnabled'
<1>1. PICK R, f : OffloadResult(hdl, c, n, S, R, f)
  BY OffloadFacts
<1>2. R \subseteq UsedIn(c)
  BY <1>1 DEF OffloadResult
<1>3. \A k \in R : Key(c[k]) \in Keys
  BY <1>2 DEF UsedIn, Key, Keys, Entry
<1>4. \A h \in Handle : (~\E k \in R : f[k] = h) => owner'[h] = owner[h]
  BY <1>1, <1>3, NewOwners
<1> SUFFICES ASSUME NEW h \in Handle, owner'[h] # NoKey
             PROVE  \E k \in Slot : /\ cache'[k].conn # NoConn
                                   /\ cache'[k].enabled /\ cache'[k].hdl = h
  BY DEF HeldAreEnabled, Used
<1>5. CASE \E k \in R : f[k] = h
  <2>1. PICK k \in R : f[k] = h
    BY <1>5
  <2>2. /\ k \in Slot /\ Key(cache'[k]) = Key(c[k]) /\ c[k].conn # NoConn
        /\ cache'[k].hdl = h /\ cache'[k].enabled
    BY <1>1, <1>2, <2>1 DEF OffloadResult, UsedIn
  <2> QED
    BY <2>2 DEF Key
<1>6. CASE ~\E k \in R : f[k] = h
  <2>1. PICK k \in UsedIn(c) : c[k].enabled /\ c[k].hdl = h
    BY <1>4, <1>6
  <2>2. k \in Slot /\ c[k].conn # NoConn /\ cache'[k] = c[k]
    BY <1>1, <2>1 DEF OffloadResult, UsedIn
  <2> QED
    BY <2>1, <2>2
<1> QED
  BY <1>5, <1>6

\* A deletion that leaves every other enabled entry enabled, with its handle.
LEMMA RulesLeaveHeld ==
    ASSUME CacheInv, HeldAreEnabled, NEW R, owner' = ForgetRules(R),
           \A k \in Used \ R : cache[k].enabled =>
               /\ Key(cache'[k]) = Key(cache[k])
               /\ cache'[k].enabled /\ cache'[k].hdl = cache[k].hdl
    PROVE  HeldAreEnabled'
<1> SUFFICES ASSUME NEW h \in Handle, owner'[h] # NoKey
             PROVE  \E k \in Slot : /\ cache'[k].conn # NoConn
                                   /\ cache'[k].enabled /\ cache'[k].hdl = h
  BY DEF HeldAreEnabled, Used
<1>1. owner[h] # NoKey /\ ~\E k \in R : cache[k].hdl = h
  BY DEF ForgetRules
<1>2. PICK k \in Used : cache[k].enabled /\ cache[k].hdl = h
  BY <1>1 DEF HeldAreEnabled
<1>3. k \in Used \ R /\ k \in Slot /\ cache[k].conn # NoConn
  BY <1>1, <1>2 DEF Used
<1>4. /\ Key(cache'[k]) = Key(cache[k])
      /\ cache'[k].enabled /\ cache'[k].hdl = h
  BY <1>2, <1>3
<1> QED
  BY <1>3, <1>4 DEF Key

LEMMA ClientsSleepHeld ==
    ASSUME CacheInv, HeldAreEnabled, NEW a,
           UpdatePwrSaveIf(a) \/ DelEntriesOnClntDiscon(a)
    PROVE  HeldAreEnabled'
<1>1. CASE UNCHANGED cacheVars
  BY <1>1 DEF cacheVars, HeldAreEnabled, Used
<1>2. CASE ~UNCHANGED cacheVars
  <2>1. \E R, D :
          /\ owner' = ForgetRules(R)
          /\ \A k \in Slot \ R : cache'[k] =
                IF k \in EnabledFor(a) THEN Entered(k, k \notin R, cache[k].hdl, D)
                ELSE cache[k]
    <3>1. CASE UpdatePwrSaveIf(a)
      <4>1. PICK R \in DriverDrops(EnabledFor(a)), D \in ModemDrops(EnabledFor(a)) :
              /\ owner' = ForgetRules(R)
              /\ cache' = [k \in Slot |->
                    IF k \in EnabledFor(a)
                    THEN Entered(k, k \notin R, IF k \in R THEN NoId ELSE cache[k].hdl, D)
                    ELSE cache[k]]
        BY <1>2, <3>1 DEF UpdatePwrSaveIf, cacheVars
      <4>2. \A k \in Slot \ R : cache'[k] =
                IF k \in EnabledFor(a) THEN Entered(k, k \notin R, cache[k].hdl, D)
                ELSE cache[k]
        BY <4>1
      <4> QED
        BY <4>1, <4>2
    <3>2. CASE DelEntriesOnClntDiscon(a)
      <4>1. PICK R \in DriverDrops(EnabledFor(a)), D \in ModemDrops(EnabledFor(a)) :
              /\ owner' = ForgetRules(R)
              /\ cache' = [k \in Slot |->
                    IF k \in EnabledFor(a)
                    THEN Entered(k, k \notin R, cache[k].hdl, D)
                    ELSE cache[k]]
        BY <1>2, <3>2 DEF DelEntriesOnClntDiscon
      <4>2. \A k \in Slot \ R : cache'[k] =
                IF k \in EnabledFor(a) THEN Entered(k, k \notin R, cache[k].hdl, D)
                ELSE cache[k]
        BY <4>1
      <4> QED
        BY <4>1, <4>2
    <3> QED
      BY <3>1, <3>2
  <2>2. PICK R, D :
          /\ owner' = ForgetRules(R)
          /\ \A k \in Slot \ R : cache'[k] =
                IF k \in EnabledFor(a) THEN Entered(k, k \notin R, cache[k].hdl, D)
                ELSE cache[k]
    BY <2>1
  <2>3. ASSUME NEW k \in Used \ R, cache[k].enabled
        PROVE  /\ Key(cache'[k]) = Key(cache[k])
               /\ cache'[k].enabled /\ cache'[k].hdl = cache[k].hdl
    <3>1. k \in Slot \ R /\ k \in Slot
      BY DEF Used
    <3> DEFINE on == k \notin R
    <3>2. on \in BOOLEAN
      OBVIOUS
    <3>3. CASE k \in EnabledFor(a)
      <4>1. cache'[k] = Entered(k, on, cache[k].hdl, D)
        BY <2>2, <3>1, <3>3
      <4>2. cache[k].hdl \in Handle \cup {NoId}
        BY <3>1, EnabledForFacts
      <4> HIDE DEF on
      <4>3. /\ Key(cache'[k]) = Key(cache[k])
            /\ cache'[k].enabled = on /\ cache'[k].hdl = cache[k].hdl
        BY <3>1, <3>2, <4>1, <4>2, EnteredFacts
      <4> QED
        BY <4>3 DEF on
    <3>4. CASE k \notin EnabledFor(a)
      BY <2>2, <2>3, <3>1, <3>4
    <3> QED
      BY <3>3, <3>4
  <2> QED
    BY <2>2, <2>3, RulesLeaveHeld
<1> QED
  BY <1>1, <1>2

LEMMA TargetsLeaveHeld ==
    ASSUME CacheInv, HeldAreEnabled, NEW a, DelEntriesOnSTAClntDiscon(a)
    PROVE  HeldAreEnabled'
<1> DEFINE for == {k \in Used : Tgt[cache[k].conn] = a}
           on == {k \in for : cache[k].enabled}
<1>1. PICK R \in DriverDrops(on), D \in ModemDrops(on) :
        /\ cache' = [k \in Slot |->
              IF k \in for \ (on \ R) THEN Empty
              ELSE Entered(k, cache[k].enabled, cache[k].hdl, D)]
        /\ owner' = ForgetRules(R)
  BY DEF DelEntriesOnSTAClntDiscon
<1>2. ASSUME NEW k \in Used \ R, cache[k].enabled
      PROVE  /\ Key(cache'[k]) = Key(cache[k])
             /\ cache'[k].enabled /\ cache'[k].hdl = cache[k].hdl
  <2>1. k \in Slot /\ k \notin for \ (on \ R)
    BY <1>2 DEF Used
  <2>2. /\ cache[k].enabled \in BOOLEAN
        /\ cache[k].hdl \in Handle \cup {NoId}
    BY <2>1 DEF CacheInv, CacheShape, Entry
  <2>3. cache'[k] = Entered(k, cache[k].enabled, cache[k].hdl, D)
    BY <1>1, <2>1
  <2>4. /\ Key(cache'[k]) = Key(cache[k])
        /\ cache'[k].enabled = cache[k].enabled /\ cache'[k].hdl = cache[k].hdl
    BY <2>1, <2>2, <2>3, EnteredFacts
  <2> QED
    BY <1>2, <2>4
<1> QED
  BY <1>1, <1>2, RulesLeaveHeld

\* The driver deletes all the rules it is asked for, if the table is known.
LEMMA AllRulesGo ==
    ASSUME DeletesSucceed, CacheInv, up => tblHdl,
           NEW S \in SUBSET Used, \A k \in S : cache[k].enabled,
           NEW R \in DriverDrops(S)
    PROVE  R = S
<1>1. \A k \in S : up /\ owner[cache[k].hdl] # NoKey
  BY DEF CacheInv, EnabledAreHeld, Used
<1>2. CASE S = {}
  BY <1>2 DEF DriverDrops, Succeed
<1>3. CASE S # {}
  <2>1. tblHdl /\ {k \in S : owner[cache[k].hdl] # NoKey} = S
    BY <1>1, <1>3
  <2> QED
    BY <2>1 DEF DriverDrops, Succeed, DeletesSucceed
<1> QED
  BY <1>2, <1>3

LEMMA EntryGoesHeld ==
    ASSUME DeletesSucceed, CacheInv, HeldInv, NEW key, DeleteEntry(key)
    PROVE  HeldAreEnabled'
<1> DEFINE at == {k \in Used : Key(cache[k]) = key}
           k == Least(at)
           on == {j \in {k} : cache[j].enabled}
<1>1. CASE at = {}
  BY <1>1 DEF DeleteEntry, cacheVars, HeldInv, HeldAreEnabled, Used
<1>2. CASE at # {}
  <2>1. PICK R \in DriverDrops(on) : owner' = ForgetRules(R)
    BY <1>2 DEF DeleteEntry
  <2>2. cache' = [cache EXCEPT ![k] = Empty]
    BY <1>2 DEF DeleteEntry
  <2>3. k \in at
    BY <1>2, LeastIsElement DEF Used, Slot
  <2>4. R = on
    BY <2>3, AllRulesGo DEF HeldInv
  <2> HIDE DEF k
  <2>5. \A j \in Used \ R : cache[j].enabled => cache'[j] = cache[j]
    BY <2>2, <2>4 DEF Used, CacheInv, CacheShape
  <2> QED
    BY <2>1, <2>5, RulesLeaveHeld DEF HeldInv
<1> QED
  BY <1>1, <1>2

LEMMA AddEntryHeld ==
    ASSUME CacheInv, HeldAreEnabled, NEW r \in Rule, NEW ok,
           AddEntry(r, ok) \/ CacheEntry(r)
    PROVE  HeldAreEnabled'
<1>1. CASE UNCHANGED cacheVars
  BY <1>1 DEF cacheVars, HeldAreEnabled, Used
<1>2. CASE ~UNCHANGED cacheVars
  <2>1. ~ChkForDup(r) /\ Used # Slot
    BY <1>2 DEF AddEntry, CacheEntry, cacheVars
  <2> DEFINE k == Least(Slot \ Used)
             c == [cache EXCEPT ![k] = Cached(r)]
  <2>2. \/ cache' = c /\ UNCHANGED owner
        \/ Offload(TRUE, backhaul, c, curCnt + 1, {k})
    BY <1>2, <2>1 DEF AddEntry, CacheEntry, cacheVars
  <2>3. k \in UsedIn(c) /\ ~c[k].enabled /\ c \in [Slot -> Entry]
    BY <2>1, NewEntry
  <2>4. /\ owner \in [Handle -> Keys \cup {NoKey}] /\ modem \subseteq RuleId
        /\ cache \in [Slot -> Entry]
    BY DEF CacheInv, CacheShape
  <2>5. k \notin Used
    <3>1. Slot \ Used \in SUBSET Nat /\ Slot \ Used # {}
      BY <2>1 DEF Used, Slot
    <3> QED
      BY <3>1, LeastIsElement
  <2> HIDE DEF k
  <2>6. \A j \in Used : j \in UsedIn(c) /\ c[j] = cache[j]
    BY <2>4, <2>5 DEF Used, UsedIn
  <2>7. \A h \in Handle : owner[h] # NoKey =>
            \E j \in UsedIn(c) : c[j].enabled /\ c[j].hdl = h
    BY <2>6 DEF HeldAreEnabled
  <2> HIDE DEF c
  <2>8. CASE cache' = c /\ UNCHANGED owner
    BY <2>7, <2>8 DEF HeldAreEnabled, Used, UsedIn
  <2>9. CASE Offload(TRUE, backhaul, c, curCnt + 1, {k})
    <3>1. {k} \in SUBSET UsedIn(c) /\ \A j \in {k} : ~c[j].enabled
      BY <2>3
    <3> QED
      BY <2>3, <2>4, <2>7, <2>9, <3>1, OffloadHeld
  <2> QED
    BY <2>2, <2>8, <2>9
<1> QED
  BY <1>1, <1>2

\* Inserting disabled entries of the cache as it is: a client's, or all.
LEMMA CacheOffloadHeld ==
    ASSUME CacheInv, HeldAreEnabled, NEW hdl \in BOOLEAN, NEW mode,
           NEW S \in SUBSET Used, \A k \in S : ~cache[k].enabled,
           Offload(hdl, mode, cache, curCnt, S)
    PROVE  HeldAreEnabled'
<1>1. /\ S \in SUBSET UsedIn(cache)
      /\ \A h \in Handle : owner[h] # NoKey =>
            \E j \in UsedIn(cache) : cache[j].enabled /\ cache[j].hdl = h
  BY DEF HeldAreEnabled, Used, UsedIn
<1>2. /\ owner \in [Handle -> Keys \cup {NoKey}] /\ modem \subseteq RuleId
      /\ cache \in [Slot -> Entry]
  BY DEF CacheInv, CacheShape
<1> QED
  BY <1>1, <1>2, OffloadHeld

LEMMA TableOpHeld ==
    ASSUME DeletesSucceed, IInv, HeldInv, TableOp
    PROVE  HeldInv'
<1>1. ASSUME NEW ip, NEW mode, ~up, AddTable(ip, mode) PROVE HeldInv'
  <2>1. up' => tblHdl'
    BY <1>1 DEF AddTable
  <2>2. \A k \in Slot : ~cache[k].enabled
    BY <1>1 DEF IInv, CacheInv, EnabledAreHeld
  <2>3. CASE Offload(TRUE, mode, cache, curCnt, ToRestore)
    <3>1. ToRestore \in SUBSET Used /\ \A k \in ToRestore : ~cache[k].enabled
      BY <2>2 DEF ToRestore, Used
    <3> QED
      BY <2>1, <2>3, <3>1, CacheOffloadHeld DEF IInv, HeldInv
  <2>4. CASE UNCHANGED cacheVars
    BY <2>1, <2>4 DEF HeldInv, HeldAreEnabled, Used, cacheVars
  <2> QED
    BY <1>1, <2>3, <2>4 DEF AddTable
<1>2. ASSUME NEW ip, DeleteTable(ip) PROVE HeldInv'
  <2>1. CASE UNCHANGED <<tableVars, cacheVars>>
    BY <2>1 DEF HeldInv, HeldAreEnabled, Used, tableVars, cacheVars
  <2>2. CASE ~up' /\ owner' = [h \in Handle |-> NoKey]
    BY <2>2 DEF HeldInv, HeldAreEnabled
  <2> QED
    BY <1>2, <2>1, <2>2 DEF DeleteTable, DeletesSucceed
<1> QED
  BY <1>1, <1>2 DEF TableOp, DeletesSucceed

\* What a flush hands to AddEntry is a rule.
LEMMA FlushAddsRule ==
    ASSUME IInv, FlushTempEntries, ~UNCHANGED cacheVars
    PROVE  \E r \in Rule, ok \in BOOLEAN : AddEntry(r, ok)
<1> DEFINE f == Head(todo)
           i == Least(FlushNext(f))
           r == Dummied(temp[i], f)
<1>1. FlushNext(f) # {} /\ \E ok \in BOOLEAN : AddEntry(r, ok)
  BY DEF FlushTempEntries
<1>2. f \in Flush /\ temp \in [TempSlot -> Rule \cup {NoRule}]
  BY DEF FlushTempEntries, IInv, WaitShape, TempSlot
<1>3. FlushNext(f) \in SUBSET Nat
  BY DEF FlushNext, TempSlot
<1>4. i \in FlushNext(f)
  BY <1>1, <1>3, LeastIsElement
<1>5. temp[i] \in Rule
  BY <1>2, <1>4 DEF FlushNext, Waiting
<1>6. r \in Rule
  BY <1>2, <1>5, DummiedIsRule
<1> QED
  BY <1>1, <1>6

LEMMA NextHeld ==
    ASSUME DeletesSucceed, IInv, HeldInv, [Next]_vars
    PROVE  HeldInv'
<1>0. CacheInv /\ HeldAreEnabled /\ (up => tblHdl)
  BY DEF IInv, HeldInv
<1>1. CASE TableOp
  BY <1>1, TableOpHeld
<1>2. CASE EntryOp
  <2>1. HeldAreEnabled'
    BY <1>0, <1>2, AddEntryHeld, EntryGoesHeld, TargetsLeaveHeld, OfferedFacts
    DEF EntryOp, HeldInv
  <2> QED
    BY <1>0, <1>2, <2>1 DEF EntryOp, HeldInv, tableVars
<1>3. CASE ClientOp
  <2>1. PICK a \in Client : \/ UpdatePwrSaveIf(a) \/ DelEntriesOnClntDiscon(a)
                           \/ ResetPwrSaveIf(a)
    BY <1>3 DEF ClientOp
  <2>2. ASSUME ResetPwrSaveIf(a) PROVE HeldAreEnabled'
    <3>1. /\ AsleepFor(a) \in SUBSET Used /\ \A k \in AsleepFor(a) : ~cache[k].enabled
          /\ tblHdl \in BOOLEAN
      BY DEF AsleepFor, IInv, TableShape
    <3> QED
      BY <1>0, <2>2, <3>1, CacheOffloadHeld DEF ResetPwrSaveIf
  <2>3. HeldAreEnabled'
    BY <1>0, <2>1, <2>2, ClientsSleepHeld
  <2> QED
    BY <1>0, <1>3, <2>3 DEF ClientOp, HeldInv, tableVars
<1>4. CASE UNCHANGED <<tableVars, cacheVars>>
  BY <1>0, <1>4 DEF HeldInv, HeldAreEnabled, Used, tableVars, cacheVars
<1>5. CASE FlushTempEntries /\ ~UNCHANGED cacheVars
  <2>1. \E r \in Rule, ok \in BOOLEAN : AddEntry(r, ok)
    BY <1>5, FlushAddsRule
  <2>2. HeldAreEnabled'
    BY <1>0, <2>1, AddEntryHeld
  <2> QED
    BY <1>0, <1>5, <2>2 DEF FlushTempEntries, HeldInv, tableVars
<1>6. TempOp => UNCHANGED <<tableVars, cacheVars>>
  BY DEF TempOp
<1>7. FlushTempEntries => UNCHANGED tableVars
  BY DEF FlushTempEntries
<1>8. UNCHANGED vars => UNCHANGED <<tableVars, cacheVars>>
  BY DEF vars, tableVars
<1> QED
  BY <1>1, <1>2, <1>3, <1>4, <1>5, <1>6, <1>7, <1>8 DEF Next

LEMMA InitHeld == Init => HeldInv
  BY DEF Init, HeldInv, HeldAreEnabled

\* As long as the driver deletes what it is asked to delete, every rule in its
\* table is the rule of an enabled entry, also when insertions, tables and the
\* modem fail: no translation outlives the connection's entry.
THEOREM HeldEnabled == ASSUME DeletesSucceed PROVE Spec => []HeldAreEnabled
<1>1. Init => IInv /\ HeldInv
  BY InitIInv, InitHeld
<1>2. IInv /\ HeldInv /\ [Next]_vars => (IInv /\ HeldInv)'
  BY NextIInv, NextHeld
<1>3. HeldInv => HeldAreEnabled
  BY DEF HeldInv
<1> QED
  BY <1>1, <1>2, <1>3, PTL DEF Spec

\* Under the same condition no connection has two rules in the driver's table.
THEOREM HeldOnceOnly == ASSUME DeletesSucceed PROVE Spec => []HeldOnce
<1>1. Init => IInv /\ HeldInv
  BY InitIInv, InitHeld
<1>2. IInv /\ HeldInv /\ [Next]_vars => (IInv /\ HeldInv)'
  BY NextIInv, NextHeld
<1>3. IInv /\ HeldInv => HeldOnce
  <2> SUFFICES ASSUME IInv, HeldInv, NEW g \in Handle, NEW h \in Handle,
                      owner[g] = owner[h], owner[g] # NoKey
               PROVE  g = h
    BY DEF HeldOnce
  <2>1. PICK j \in Used : cache[j].enabled /\ cache[j].hdl = g
    BY DEF HeldInv, HeldAreEnabled
  <2>2. PICK k \in Used : cache[k].enabled /\ cache[k].hdl = h
    BY DEF HeldInv, HeldAreEnabled
  <2>3. Key(cache[j]) = owner[g] /\ Key(cache[k]) = owner[h]
    BY <2>1, <2>2 DEF IInv, CacheInv, EnabledAreHeld, Used
  <2>4. j = k
    BY <2>3 DEF IInv, CacheInv, NoDuplicates
  <2> QED
    BY <2>1, <2>2, <2>4
<1> QED
  BY <1>1, <1>2, <1>3, PTL DEF Spec

-----------------------------------------------------------------------------
(* The modem's filter rules, while the table and the modem delete what they *)
(* are asked to.                                                           *)

ModemDeletes == Faults \cap {"deleteTable", "modem"} = {}

\* The filter rules m of a modem are those the enabled entries of c record.
FiltersIn(c, m, mode) ==
    /\ m = {c[k].rid : k \in Slot} \ {NoId}
    /\ \A k \in Slot : c[k].rid # NoId =>
          c[k].enabled /\ c[k].conn \in DL /\ mode = "Q6_MHI_WAN"
    /\ \A j, k \in Slot : c[j].rid = c[k].rid /\ c[j].rid # NoId => j = k

ModemInv == (up => tblHdl) /\ FiltersIn(cache, modem, backhaul)

LEMMA InitModem == Init => ModemInv
<1> SUFFICES ASSUME Init PROVE ModemInv
  OBVIOUS
<1>1. \A k \in Slot : cache[k] = Empty
  BY DEF Init
<1>2. Empty.rid = NoId
  BY DEF Empty, Cached
<1> QED
  BY <1>1, <1>2 DEF Init, ModemInv, FiltersIn

LEMMA ModemInvMatches == ASSUME CacheInv, ModemInv PROVE ModemMatches
<1>1. \A k \in Slot : cache[k].enabled => k \in Used
  BY KeyFacts, RestateCacheInv DEF CacheShape, Used, UsedIn
<1>2. Used \subseteq Slot
  BY DEF Used
<1>3. \A k \in Slot : cache[k].rid # NoId => k \in Used
  BY <1>1 DEF ModemInv, FiltersIn
<1>4. modem = {cache[k].rid : k \in Used} \ {NoId}
  BY <1>2, <1>3 DEF ModemInv, FiltersIn
<1> QED
  BY <1>2, <1>4 DEF ModemInv, FiltersIn, ModemMatches

\* Inserting disabled entries: the filter rules recorded for those that get one
\* are new ones, and nothing is lost with those that leave.
LEMMA OffloadFilters ==
    ASSUME NEW hdl \in BOOLEAN, NEW mode, NEW c \in [Slot -> Entry], NEW n,
           modem \subseteq RuleId, FiltersIn(c, modem, mode),
           NEW S \in SUBSET Slot, \A k \in S : ~c[k].enabled,
           Offload(hdl, mode, c, n, S)
    PROVE  FiltersIn(cache', modem', mode)
<1> DEFINE new(R, M, f, g) ==
        [k \in Slot |->
            IF k \in R
            THEN [conn |-> c[k].conn, priv |-> c[k].priv, enabled |-> TRUE,
                  hdl |-> f[k],
                  rid |-> IF k \in M THEN g[k]
                          ELSE IF k \in ModemRelevant(mode, c, R)
                          THEN NoId ELSE c[k].rid]
            ELSE DropRefused(c, S, R)[k]]
<1> DEFINE result(R, M, f, g) ==
        /\ cache' = new(R, M, f, g)
        /\ owner' = [h \in Handle |->
              IF \E k \in R : f[k] = h THEN Key(c[CHOOSE k \in R : f[k] = h])
              ELSE owner[h]]
        /\ modem' = modem \cup {g[k] : k \in M}
        /\ curCnt' = n - Cardinality(S \ R)
       filters(R) == Accept("modem", ModemRelevant(mode, c, R), Cardinality(RuleId \ modem))
<1>a. PICK R \in (IF hdl THEN Accept("add", S, Cardinality(FreeHandle)) ELSE {{}}) :
        \E M \in filters(R) :
        \E f \in OneToOne(R, FreeHandle), g \in OneToOne(M, RuleId \ modem) :
            result(R, M, f, g)
  BY DEF Offload
<1>b. PICK M \in filters(R) :
        \E f \in OneToOne(R, FreeHandle), g \in OneToOne(M, RuleId \ modem) :
            result(R, M, f, g)
  BY <1>a
<1>1. PICK f \in OneToOne(R, FreeHandle), g \in OneToOne(M, RuleId \ modem) :
        result(R, M, f, g)
  BY <1>b
<1>2. /\ R \subseteq S /\ M \subseteq R
      /\ g \in [M -> RuleId \ modem] /\ \A j, k \in M : g[j] = g[k] => j = k
      /\ \A k \in M : mode = "Q6_MHI_WAN" /\ c[k].conn \in DL
  BY AcceptFacts DEF ModemRelevant, OneToOne
<1>3. \A k \in S : c[k].rid = NoId
  BY DEF FiltersIn
<1>4. Empty.rid = NoId
  BY DEF Empty, Cached
<1>5. ASSUME NEW k \in Slot
      PROVE  /\ k \in M => /\ cache'[k].rid = g[k] /\ cache'[k].enabled
                           /\ cache'[k].conn = c[k].conn
             /\ k \notin M /\ k \in S => cache'[k].rid = NoId
             /\ k \notin S => cache'[k] = c[k]
  <2>1. CASE k \in R
    <3>1. cache'[k] = [conn |-> c[k].conn, priv |-> c[k].priv, enabled |-> TRUE,
                       hdl |-> f[k],
                       rid |-> IF k \in M THEN g[k]
                               ELSE IF k \in ModemRelevant(mode, c, R)
                               THEN NoId ELSE c[k].rid]
      BY <1>1, <2>1
    <3> QED
      BY <1>2, <1>3, <2>1, <3>1
  <2>2. CASE k \notin R
    <3>1. cache'[k] = IF k \in S \ R THEN Empty ELSE c[k]
      BY <1>1, <2>2 DEF DropRefused
    <3> QED
      BY <1>2, <1>4, <2>2, <3>1
  <2> QED
    BY <2>1, <2>2
<1>6. modem' = modem \cup {g[k] : k \in M}
  BY <1>1
<1> HIDE DEF new, result, filters
<1>7. modem = {c[k].rid : k \in Slot} \ {NoId}
  BY DEF FiltersIn
<1>8. \A k \in M : g[k] \in RuleId \ modem /\ g[k] # NoId /\ k \in Slot
  BY <1>2, NothingIsNothing
<1>9. modem' = {cache'[k].rid : k \in Slot} \ {NoId}
  <2>1. ASSUME NEW x \in modem' PROVE x \in {cache'[k].rid : k \in Slot} \ {NoId}
    <3>1. CASE x \in modem
      <4>1. PICK k \in Slot : c[k].rid = x /\ x # NoId
        BY <1>7, <3>1
      <4>2. cache'[k] = c[k]
        BY <1>3, <1>5, <4>1
      <4> QED
        BY <4>1, <4>2
    <3>2. CASE x \notin modem
      <4>1. PICK k \in M : x = g[k]
        BY <1>6, <3>2
      <4> QED
        BY <1>5, <1>8, <4>1
    <3> QED
      BY <3>1, <3>2
  <2>2. ASSUME NEW k \in Slot, cache'[k].rid # NoId PROVE cache'[k].rid \in modem'
    <3>1. CASE k \in M
      BY <1>5, <1>6, <3>1
    <3>2. CASE k \notin M
      BY <1>5, <1>6, <1>7, <2>2, <3>2
    <3> QED
      BY <3>1, <3>2
  <2> QED
    BY <2>1, <2>2
<1>10. ASSUME NEW k \in Slot, cache'[k].rid # NoId
       PROVE  cache'[k].enabled /\ cache'[k].conn \in DL /\ mode = "Q6_MHI_WAN"
  <2>1. CASE k \in M
    BY <1>2, <1>5, <2>1
  <2>2. CASE k \notin M
    BY <1>5, <1>10, <2>2 DEF FiltersIn
  <2> QED
    BY <2>1, <2>2
<1>11. ASSUME NEW j \in Slot, NEW k \in Slot,
              cache'[j].rid = cache'[k].rid, cache'[j].rid # NoId
       PROVE  j = k
  <2>1. \A i \in Slot : i \notin M /\ cache'[i].rid # NoId =>
            cache'[i].rid = c[i].rid /\ c[i].rid \in modem
    BY <1>5, <1>7
  <2>2. \A i \in M : cache'[i].rid = g[i] /\ g[i] \notin modem
    BY <1>5, <1>8
  <2>3. CASE j \in M /\ k \in M
    BY <1>2, <1>11, <2>2, <2>3
  <2>4. CASE j \notin M /\ k \notin M
    BY <1>11, <2>1, <2>4 DEF FiltersIn
  <2> QED
    BY <1>11, <2>1, <2>2, <2>3, <2>4
<1> QED
  BY <1>9, <1>10, <1>11 DEF FiltersIn

\* The modem forgets the filter rules of the slots D; every other entry that
\* records one stays as it is.
LEMMA FiltersLeave ==
    ASSUME CacheInv, FiltersIn(cache, modem, backhaul), NEW D \in SUBSET Slot,
           modem' = ForgetFilters(D),
           \A k \in Slot :
               \/ cache'[k].rid = NoId /\ (k \in D \/ cache[k].rid = NoId)
               \/ /\ k \notin D /\ cache'[k].rid = cache[k].rid
                  /\ cache'[k].conn = cache[k].conn
                  /\ cache'[k].enabled = cache[k].enabled
    PROVE  FiltersIn(cache', modem', backhaul)
<1>1. /\ modem = {cache[k].rid : k \in Slot} \ {NoId}
      /\ \A k \in Slot : cache[k].rid # NoId =>
            cache[k].enabled /\ cache[k].conn \in DL /\ backhaul = "Q6_MHI_WAN"
      /\ \A j, k \in Slot : cache[j].rid = cache[k].rid /\ cache[j].rid # NoId => j = k
  BY DEF FiltersIn
<1>2. modem' = {cache'[k].rid : k \in Slot} \ {NoId}
  <2>1. ASSUME NEW x \in modem' PROVE x \in {cache'[k].rid : k \in Slot} \ {NoId}
    <3>1. x \in modem /\ \A k \in D : cache[k].rid # x
      BY DEF ForgetFilters
    <3>2. PICK k \in Slot : cache[k].rid = x /\ x # NoId
      BY <1>1, <3>1
    <3>3. cache'[k].rid = x
      BY <3>1, <3>2
    <3> QED
      BY <3>2, <3>3
  <2>2. ASSUME NEW k \in Slot, cache'[k].rid # NoId PROVE cache'[k].rid \in modem'
    <3>1. k \notin D /\ cache'[k].rid = cache[k].rid
      BY <2>2
    <3>2. cache[k].rid \in modem
      BY <1>1, <2>2, <3>1
    <3>3. \A j \in D : cache[j].rid # cache[k].rid
      BY <1>1, <2>2, <3>1
    <3> QED
      BY <3>1, <3>2, <3>3 DEF ForgetFilters
  <2> QED
    BY <2>1, <2>2
<1>3. \A k \in Slot : cache'[k].rid # NoId =>
          cache'[k].enabled /\ cache'[k].conn \in DL /\ backhaul = "Q6_MHI_WAN"
  BY <1>1
<1>4. \A j, k \in Slot : cache'[j].rid = cache'[k].rid /\ cache'[j].rid # NoId => j = k
  BY <1>1
<1> QED
  BY <1>2, <1>3, <1>4 DEF FiltersIn

\* The modem deletes every filter rule of the entries it is asked about.
LEMMA AllFiltersGo ==
    ASSUME ModemDeletes, FiltersIn(cache, modem, backhaul),
           NEW S \in SUBSET Slot, NEW D \in ModemDrops(S)
    PROVE  D = {k \in S : cache[k].rid # NoId}
<1>1. D = {k \in ModemRelevant(backhaul, cache, S) : cache[k].rid # NoId}
  BY DEF ModemDrops, Succeed, ModemDeletes
<1> QED
  BY <1>1 DEF ModemRelevant, FiltersIn

\* An entry of a set S whose filter rules go, entered again.
LEMMA EnteredFilters ==
    ASSUME CacheInv, NEW S \in SUBSET Slot, NEW D, D = {k \in S : cache[k].rid # NoId},
           NEW k \in S, NEW on, NEW h
    PROVE  Entered(k, on, h, D).rid = NoId /\ (k \in D \/ cache[k].rid = NoId)
  BY DEF Entered

LEMMA TablesFilters ==
    ASSUME ModemDeletes, CacheInv, ModemInv, TableOp PROVE ModemInv'
<1>0. cache \in [Slot -> Entry] /\ modem \subseteq RuleId
  BY DEF CacheInv, CacheShape
<1>1. ASSUME NEW ip, NEW mode, ~up, AddTable(ip, mode) PROVE ModemInv'
  <2>1. \A k \in Slot : ~cache[k].enabled
    BY <1>1 DEF CacheInv, EnabledAreHeld
  <2>2. FiltersIn(cache, modem, mode)
    BY <2>1 DEF ModemInv, FiltersIn
  <2>3. backhaul' = mode /\ (up' => tblHdl')
    <3>1. backhaul' = mode
      BY <1>1 DEF AddTable
    <3>2. up' => tblHdl'
      BY <1>1 DEF AddTable
    <3> QED
      BY <3>1, <3>2
  <2>4. CASE UNCHANGED cacheVars
    BY <2>2, <2>3, <2>4 DEF ModemInv, FiltersIn, cacheVars
  <2>5. CASE Offload(TRUE, mode, cache, curCnt, ToRestore)
    <3>1. ToRestore \in SUBSET Slot /\ \A k \in ToRestore : ~cache[k].enabled
      BY <2>1 DEF ToRestore, Used
    <3>2. FiltersIn(cache', modem', mode)
      BY <1>0, <2>2, <2>5, <3>1, OffloadFilters
    <3> QED
      BY <2>3, <3>2 DEF ModemInv
  <2> QED
    BY <1>1, <2>4, <2>5 DEF AddTable
<1>2. ASSUME NEW ip, DeleteTable(ip) PROVE ModemInv'
  <2>1. CASE UNCHANGED <<tableVars, cacheVars>>
    BY <2>1 DEF ModemInv, FiltersIn, tableVars, cacheVars
  <2>2. CASE ~UNCHANGED <<tableVars, cacheVars>>
    <3>1. PICK D \in ModemDrops(Slot) :
            /\ cache' = [k \in Slot |-> Entered(k, FALSE, cache[k].hdl, D)]
            /\ modem' = ForgetFilters(D)
      BY <1>2, <2>2 DEF DeleteTable
    <3>2. ~up' /\ backhaul' = backhaul
      BY <1>2, <2>2 DEF DeleteTable, ModemDeletes
    <3>3. Slot \in SUBSET Slot /\ D = {k \in Slot : cache[k].rid # NoId}
      BY <3>1, AllFiltersGo DEF ModemInv
    <3>4. \A k \in Slot : cache'[k].rid = NoId /\ (k \in D \/ cache[k].rid = NoId)
      BY ZenonT(60), <3>1, <3>3, EnteredFilters
    <3>5. FiltersIn(cache', modem', backhaul)
      BY <3>1, <3>3, <3>4, FiltersLeave DEF ModemInv
    <3> QED
      BY <3>2, <3>5 DEF ModemInv
  <2> QED
    BY <2>1, <2>2
<1> QED
  BY <1>1, <1>2 DEF TableOp, ModemDeletes

LEMMA NewEntryFilters ==
    ASSUME CacheInv, FiltersIn(cache, modem, backhaul),
           NEW r \in Rule, NEW ok, AddEntry(r, ok) \/ CacheEntry(r)
    PROVE  FiltersIn(cache', modem', backhaul)
<1>1. CASE UNCHANGED cacheVars
  BY <1>1 DEF cacheVars, FiltersIn
<1>2. CASE ~UNCHANGED cacheVars
  <2>1. ~ChkForDup(r) /\ Used # Slot
    BY <1>2 DEF AddEntry, CacheEntry, cacheVars
  <2> DEFINE k == Least(Slot \ Used)
             c == [cache EXCEPT ![k] = Cached(r)]
  <2>2. \/ cache' = c /\ UNCHANGED modem
        \/ Offload(TRUE, backhaul, c, curCnt + 1, {k})
    BY <1>2, <2>1 DEF AddEntry, CacheEntry, cacheVars
  <2>3. ~c[k].enabled /\ c \in [Slot -> Entry]
    BY <2>1, NewEntry
  <2>4. modem \subseteq RuleId /\ cache \in [Slot -> Entry]
    BY DEF CacheInv, CacheShape
  <2>5. k \in Slot \ Used
    <3>1. Slot \ Used \in SUBSET Nat /\ Slot \ Used # {}
      BY <2>1 DEF Used, Slot
    <3> QED
      BY <3>1, LeastIsElement
  <2> HIDE DEF k
  <2>6. c[k].rid = NoId /\ \A j \in Slot \ {k} : c[j] = cache[j]
    BY <2>4, <2>5 DEF Cached
  <2>7. cache[k].rid = NoId
    <3>1. ~cache[k].enabled
      BY <2>4, <2>5, KeyFacts, RestateCacheInv DEF CacheShape, Used, UsedIn
    <3> QED
      BY <2>5, <3>1 DEF FiltersIn
  <2> HIDE DEF c
  <2>8. FiltersIn(c, modem, backhaul)
    <3>1. {c[j].rid : j \in Slot} \ {NoId} = {cache[j].rid : j \in Slot} \ {NoId}
      BY <2>5, <2>6, <2>7
    <3> QED
      BY <2>6, <3>1 DEF FiltersIn
  <2>9. CASE cache' = c /\ UNCHANGED modem
    BY <2>8, <2>9
  <2>10. CASE Offload(TRUE, backhaul, c, curCnt + 1, {k})
    <3>1. {k} \in SUBSET Slot /\ \A j \in {k} : ~c[j].enabled
      BY <2>3, <2>5
    <3> QED
      BY <2>3, <2>4, <2>8, <2>10, <3>1, OffloadFilters
  <2> QED
    BY <2>2, <2>9, <2>10
<1> QED
  BY <1>1, <1>2

LEMMA EntryGoesFilters ==
    ASSUME ModemDeletes, CacheInv, FiltersIn(cache, modem, backhaul),
           NEW key, DeleteEntry(key)
    PROVE  FiltersIn(cache', modem', backhaul)
<1> DEFINE at == {k \in Used : Key(cache[k]) = key}
           k == Least(at)
           on == {j \in {k} : cache[j].enabled}
<1>1. CASE at = {}
  BY <1>1 DEF DeleteEntry, cacheVars, FiltersIn
<1>2. CASE at # {}
  <2>1. PICK D \in ModemDrops(on) : modem' = ForgetFilters(D)
    BY <1>2 DEF DeleteEntry
  <2>2. cache' = [cache EXCEPT ![k] = Empty]
    BY <1>2 DEF DeleteEntry
  <2>3. k \in at
    BY <1>2, LeastIsElement DEF Used, Slot
  <2>4. k \in Slot /\ on \in SUBSET Slot
    BY <2>3 DEF Used
  <2>5. D = {j \in on : cache[j].rid # NoId}
    BY <2>1, <2>4, AllFiltersGo
  <2>6. Empty.rid = NoId
    BY DEF Empty, Cached
  <2> HIDE DEF k
  <2>7. k \in D \/ cache[k].rid = NoId
    BY <2>4, <2>5 DEF FiltersIn
  <2>8. cache'[k].rid = NoId /\ \A j \in Slot \ {k} : cache'[j] = cache[j] /\ j \notin D
    BY <2>2, <2>4, <2>5, <2>6 DEF CacheInv, CacheShape
  <2>9. D \in SUBSET Slot
    BY <2>4, <2>5
  <2> QED
    BY <2>1, <2>7, <2>8, <2>9, FiltersLeave
<1> QED
  BY <1>1, <1>2

\* The enabled entries S are entered again, without their filter rules.
LEMMA EntriesSleepFilters ==
    ASSUME ModemDeletes, CacheInv, FiltersIn(cache, modem, backhaul),
           NEW S \in SUBSET Slot, NEW D \in ModemDrops(S), modem' = ForgetFilters(D),
           \A k \in S : \E on, h : cache'[k] = Entered(k, on, h, D),
           \A k \in Slot \ S : cache'[k] = cache[k]
    PROVE  FiltersIn(cache', modem', backhaul)
<1>1. D = {k \in S : cache[k].rid # NoId}
  BY AllFiltersGo
<1>2. \A k \in S : cache'[k].rid = NoId /\ (k \in D \/ cache[k].rid = NoId)
  BY <1>1, EnteredFilters
<1>3. \A k \in Slot \ S : k \notin D /\ cache'[k] = cache[k]
  BY <1>1
<1>4. D \in SUBSET Slot
  BY <1>1
<1> QED
  BY <1>2, <1>3, <1>4, FiltersLeave

LEMMA ClientsSleepFilters ==
    ASSUME ModemDeletes, CacheInv, FiltersIn(cache, modem, backhaul), NEW a,
           UpdatePwrSaveIf(a) \/ DelEntriesOnClntDiscon(a)
    PROVE  FiltersIn(cache', modem', backhaul)
<1>1. CASE UNCHANGED cacheVars
  BY <1>1 DEF cacheVars, FiltersIn
<1>2. CASE ~UNCHANGED cacheVars
  <2> DEFINE S == EnabledFor(a)
  <2>1. S \in SUBSET Slot
    BY EnabledForFacts
  <2>2. CASE UpdatePwrSaveIf(a)
    <3>1. PICK R \in DriverDrops(S), D \in ModemDrops(S) :
            /\ cache' = [k \in Slot |->
                  IF k \in S
                  THEN Entered(k, k \notin R, IF k \in R THEN NoId ELSE cache[k].hdl, D)
                  ELSE cache[k]]
            /\ modem' = ForgetFilters(D)
      BY <1>2, <2>2 DEF UpdatePwrSaveIf, cacheVars
    <3> HIDE DEF S
    <3>2. /\ \A k \in S : \E on, h : cache'[k] = Entered(k, on, h, D)
          /\ \A k \in Slot \ S : cache'[k] = cache[k]
      <4>1. ASSUME NEW k \in S PROVE \E on, h : cache'[k] = Entered(k, on, h, D)
        <5> DEFINE on == k \notin R
                   h == IF k \in R THEN NoId ELSE cache[k].hdl
        <5>1. cache'[k] = Entered(k, on, h, D)
          BY <2>1, <3>1
        <5> HIDE DEF on, h
        <5> QED
          BY <5>1
      <4> QED
        BY <3>1, <4>1
    <3> QED
      BY <2>1, <3>1, <3>2, EntriesSleepFilters
  <2>3. CASE DelEntriesOnClntDiscon(a)
    <3>1. PICK R \in DriverDrops(S), D \in ModemDrops(S) :
            /\ cache' = [k \in Slot |->
                  IF k \in S
                  THEN Entered(k, k \notin R, cache[k].hdl, D)
                  ELSE cache[k]]
            /\ modem' = ForgetFilters(D)
      BY <1>2, <2>3 DEF DelEntriesOnClntDiscon
    <3> HIDE DEF S
    <3>2. /\ \A k \in S : \E on, h : cache'[k] = Entered(k, on, h, D)
          /\ \A k \in Slot \ S : cache'[k] = cache[k]
      <4>1. ASSUME NEW k \in S PROVE \E on, h : cache'[k] = Entered(k, on, h, D)
        <5> DEFINE on == k \notin R
                   h == cache[k].hdl
        <5>1. cache'[k] = Entered(k, on, h, D)
          BY <2>1, <3>1
        <5> HIDE DEF on, h
        <5> QED
          BY <5>1
      <4> QED
        BY <3>1, <4>1
    <3> QED
      BY <2>1, <3>1, <3>2, EntriesSleepFilters
  <2> QED
    BY <2>2, <2>3
<1> QED
  BY <1>1, <1>2

LEMMA TargetsLeaveFilters ==
    ASSUME ModemDeletes, CacheInv, FiltersIn(cache, modem, backhaul), NEW a,
           DelEntriesOnSTAClntDiscon(a)
    PROVE  FiltersIn(cache', modem', backhaul)
<1> DEFINE for == {k \in Used : Tgt[cache[k].conn] = a}
           on == {k \in for : cache[k].enabled}
<1>1. PICK R \in DriverDrops(on), D \in ModemDrops(on) :
        /\ cache' = [k \in Slot |->
              IF k \in for \ (on \ R) THEN Empty
              ELSE Entered(k, cache[k].enabled, cache[k].hdl, D)]
        /\ modem' = ForgetFilters(D)
  BY DEF DelEntriesOnSTAClntDiscon
<1>2. for \subseteq Slot /\ on \in SUBSET Slot
  BY DEF Used
<1>3. D = {k \in on : cache[k].rid # NoId}
  BY <1>1, <1>2, AllFiltersGo
<1>4. ASSUME NEW k \in Slot
      PROVE  \/ cache'[k].rid = NoId /\ (k \in D \/ cache[k].rid = NoId)
             \/ /\ k \notin D /\ cache'[k].rid = cache[k].rid
                /\ cache'[k].conn = cache[k].conn
                /\ cache'[k].enabled = cache[k].enabled
  <2>1. CASE k \in for \ (on \ R)
    <3>1. cache'[k].rid = NoId
      BY <1>1, <2>1 DEF Empty, Cached
    <3>2. k \in on \/ ~cache[k].enabled
      BY <2>1
    <3> QED
      BY <1>3, <3>1, <3>2 DEF FiltersIn
  <2>2. CASE k \notin for \ (on \ R)
    <3>1. cache'[k] = Entered(k, cache[k].enabled, cache[k].hdl, D)
      BY <1>1, <2>2
    <3> QED
      BY <1>3, <3>1 DEF Entered
  <2> QED
    BY <2>1, <2>2
<1>5. D \in SUBSET Slot
  BY <1>2, <1>3
<1> QED
  BY <1>1, <1>4, <1>5, FiltersLeave

LEMMA NextModem ==
    ASSUME ModemDeletes, IInv, ModemInv, [Next]_vars
    PROVE  ModemInv'
<1>0. CacheInv /\ FiltersIn(cache, modem, backhaul)
  BY DEF IInv, ModemInv
<1>1. CASE TableOp
  BY <1>0, <1>1, TablesFilters
<1>2. CASE EntryOp
  <2>1. FiltersIn(cache', modem', backhaul)
    BY <1>0, <1>2, NewEntryFilters, EntryGoesFilters, TargetsLeaveFilters, OfferedFacts
    DEF EntryOp
  <2> QED
    BY <1>2, <2>1 DEF EntryOp, ModemInv, tableVars
<1>3. CASE ClientOp
  <2>1. PICK a \in Client : \/ UpdatePwrSaveIf(a) \/ DelEntriesOnClntDiscon(a)
                           \/ ResetPwrSaveIf(a)
    BY <1>3 DEF ClientOp
  <2>2. ASSUME ResetPwrSaveIf(a) PROVE FiltersIn(cache', modem', backhaul)
    <3>1. /\ AsleepFor(a) \in SUBSET Slot /\ \A k \in AsleepFor(a) : ~cache[k].enabled
          /\ tblHdl \in BOOLEAN /\ cache \in [Slot -> Entry] /\ modem \subseteq RuleId
      BY DEF AsleepFor, Used, IInv, TableShape, CacheInv, CacheShape
    <3> QED
      BY <1>0, <2>2, <3>1, OffloadFilters DEF ResetPwrSaveIf
  <2>3. FiltersIn(cache', modem', backhaul)
    BY <1>0, <2>1, <2>2, ClientsSleepFilters
  <2> QED
    BY <1>3, <2>3 DEF ClientOp, ModemInv, tableVars
<1>4. CASE UNCHANGED <<tableVars, cacheVars>>
  BY <1>4 DEF ModemInv, FiltersIn, tableVars, cacheVars
<1>5. CASE FlushTempEntries /\ ~UNCHANGED cacheVars
  <2>1. \E r \in Rule, ok \in BOOLEAN : AddEntry(r, ok)
    BY <1>5, FlushAddsRule
  <2>2. FiltersIn(cache', modem', backhaul)
    BY <1>0, <2>1, NewEntryFilters
  <2> QED
    BY <1>5, <2>2 DEF FlushTempEntries, ModemInv, tableVars
<1>6. TempOp => UNCHANGED <<tableVars, cacheVars>>
  BY DEF TempOp
<1>7. FlushTempEntries => UNCHANGED tableVars
  BY DEF FlushTempEntries
<1>8. UNCHANGED vars => UNCHANGED <<tableVars, cacheVars>>
  BY DEF vars, tableVars
<1> QED
  BY <1>1, <1>2, <1>3, <1>4, <1>5, <1>6, <1>7, <1>8 DEF Next

\* As long as the modem and the table are deleted when asked, the modem's
\* filter rules are those the enabled entries record, one each: none is left
\* behind when a connection is disabled, dropped or its table goes, also when
\* the driver refuses insertions or single deletions.
THEOREM ModemFollowsCache == ASSUME ModemDeletes PROVE Spec => []ModemMatches
<1>1. Init => IInv /\ ModemInv
  BY InitIInv, InitModem
<1>2. IInv /\ ModemInv /\ [Next]_vars => (IInv /\ ModemInv)'
  BY NextIInv, NextModem
<1>3. IInv /\ ModemInv => ModemMatches
  BY ModemInvMatches DEF IInv
<1> QED
  BY <1>1, <1>2, <1>3, PTL DEF Spec

-----------------------------------------------------------------------------
(* What a returning table restores and what a flush leaves, when the driver *)
(* has room for the whole cache and refuses nothing else.                   *)

\* ipa_nat_add_ipv4_tbl is created for max_entries rules.
RoomForAll == IsFiniteSet(Handle) /\ MaxEntries <= Cardinality(Handle)

\* Without a table no handle stands for a connection, whichever calls fail.
NoTableNoRules == ~up => \A h \in Handle : owner[h] = NoKey

LEMMA ForgottenRules ==
    ASSUME NoTableNoRules, up' = up, NEW R, owner' = ForgetRules(R)
    PROVE  NoTableNoRules'
  BY DEF NoTableNoRules, ForgetRules

LEMMA OffloadNoTable ==
    ASSUME NoTableNoRules, CacheInv, NEW hdl \in BOOLEAN, NEW mode,
           NEW c \in [Slot -> Entry], NEW n, NEW S \in SUBSET UsedIn(c),
           hdl => up', up' = up, Offload(hdl, mode, c, n, S)
    PROVE  NoTableNoRules'
<1>1. modem \subseteq RuleId
  BY DEF CacheInv, CacheShape
<1>2. PICK R, f : OffloadResult(hdl, c, n, S, R, f)
  BY <1>1, OffloadFacts
<1> SUFFICES ASSUME ~up' PROVE \A h \in Handle : owner'[h] = NoKey
  BY DEF NoTableNoRules
<1>3. R = {} /\ ~up
  BY <1>2 DEF OffloadResult
<1>4. \A h \in Handle : owner'[h] = owner[h]
  BY <1>2, <1>3 DEF OffloadResult
<1> QED
  BY <1>3, <1>4 DEF NoTableNoRules

LEMMA NextNoTable ==
    ASSUME IInv, NoTableNoRules, [Next]_vars PROVE NoTableNoRules'
<1>0. CacheInv /\ tblHdl \in BOOLEAN /\ up \in BOOLEAN /\ (tblHdl => up)
  BY DEF IInv, TableShape
<1>1. ASSUME up' = up, UNCHANGED owner PROVE NoTableNoRules'
  BY <1>1 DEF NoTableNoRules
<1>2. ASSUME up' PROVE NoTableNoRules'
  BY <1>2 DEF NoTableNoRules
<1>3. ASSUME NEW r \in Rule, NEW ok, AddEntry(r, ok) \/ CacheEntry(r), up' = up
      PROVE  NoTableNoRules'
  <2>1. UNCHANGED owner \/ tblHdl
    BY <1>3 DEF AddEntry, CacheEntry, cacheVars
  <2> QED
    BY <1>0, <1>1, <1>2, <1>3, <2>1
<1>4. CASE TableOp
  <2>1. ASSUME NEW ip, NEW mode, AddTable(ip, mode) PROVE NoTableNoRules'
    BY <1>1, <1>2, <2>1 DEF AddTable, cacheVars
  <2>2. ASSUME NEW ip, DeleteTable(ip) PROVE NoTableNoRules'
    <3>1. CASE UNCHANGED <<tableVars, cacheVars>>
      BY <1>1, <3>1 DEF tableVars, cacheVars
    <3>2. CASE owner' = [h \in Handle |-> NoKey]
      BY <3>2 DEF NoTableNoRules
    <3>3. CASE UNCHANGED <<tblHdl, up, owner, pre, pubIp>>
      BY <1>1, <3>3
    <3> QED
      BY <2>2, <3>1, <3>2, <3>3 DEF DeleteTable
  <2> QED
    BY <1>4, <2>1, <2>2 DEF TableOp
<1>5. CASE EntryOp
  <2>0. up' = up
    BY <1>5 DEF EntryOp, tableVars
  <2>1. ASSUME NEW key, DeleteEntry(key) PROVE NoTableNoRules'
    <3>1. UNCHANGED owner \/ \E R : owner' = ForgetRules(R)
      BY <2>1 DEF DeleteEntry, cacheVars
    <3> QED
      BY <1>1, <2>0, <3>1, ForgottenRules
  <2>2. ASSUME NEW a, DelEntriesOnSTAClntDiscon(a) PROVE NoTableNoRules'
    BY <2>0, <2>2, ForgottenRules DEF DelEntriesOnSTAClntDiscon
  <2> QED
    BY <1>3, <1>5, <2>0, <2>1, <2>2, OfferedFacts DEF EntryOp
<1>6. CASE ClientOp
  <2>0. up' = up
    BY <1>6 DEF ClientOp, tableVars
  <2>1. PICK a \in Client : \/ UpdatePwrSaveIf(a) \/ DelEntriesOnClntDiscon(a)
                           \/ ResetPwrSaveIf(a)
    BY <1>6 DEF ClientOp
  <2>2. CASE UpdatePwrSaveIf(a) \/ DelEntriesOnClntDiscon(a)
    <3>1. UNCHANGED owner \/ \E R : owner' = ForgetRules(R)
      BY <2>2 DEF UpdatePwrSaveIf, DelEntriesOnClntDiscon, cacheVars
    <3> QED
      BY <1>1, <2>0, <3>1, ForgottenRules
  <2>3. CASE ResetPwrSaveIf(a)
    <3>1. /\ AsleepFor(a) \in SUBSET UsedIn(cache) /\ cache \in [Slot -> Entry]
          /\ tblHdl => up'
      BY <1>0, <2>0 DEF AsleepFor, Used, UsedIn, CacheInv, CacheShape
    <3>2. Offload(tblHdl, backhaul, cache, curCnt, AsleepFor(a))
      BY <2>3 DEF ResetPwrSaveIf
    <3> QED
      BY <1>0, <2>0, <3>1, <3>2, OffloadNoTable
  <2> QED
    BY <2>1, <2>2, <2>3
<1>7. CASE UNCHANGED <<tableVars, cacheVars>>
  BY <1>1, <1>7 DEF tableVars, cacheVars
<1>8. CASE FlushTempEntries /\ ~UNCHANGED cacheVars
  <2>1. \E r \in Rule, ok \in BOOLEAN : AddEntry(r, ok)
    BY <1>8, FlushAddsRule
  <2> QED
    BY <1>3, <1>8, <2>1 DEF FlushTempEntries, tableVars
<1>9. /\ TempOp => UNCHANGED <<tableVars, cacheVars>>
      /\ FlushTempEntries => UNCHANGED tableVars
      /\ UNCHANGED vars => UNCHANGED <<tableVars, cacheVars>>
  BY DEF TempOp, FlushTempEntries, vars, tableVars
<1> QED
  BY <1>4, <1>5, <1>6, <1>7, <1>8, <1>9 DEF Next

\* Asked to insert no more than there is room for, the driver takes them all.
LEMMA AllAccepted ==
    ASSUME "add" \notin Faults, NEW S, IsFiniteSet(S), NEW room \in Nat,
           Cardinality(S) <= room, NEW R \in Accept("add", S, room)
    PROVE  R = S
<1>1. R \subseteq S /\ Cardinality(R) = Cardinality(S)
  BY FS_CardinalityType DEF Accept
<1> QED
  BY <1>1, FS_Subset

\* A table that returns with the address it had translates every connection
\* that was cached: nothing is dropped for want of room.
LEMMA RestoreStep ==
    ASSUME "add" \notin Faults, RoomForAll, IInv, NoTableNoRules, [Next]_vars,
           ~tblHdl, tblHdl', pubIp' = pre
    PROVE  \A k \in Used : cache'[k].enabled /\ Key(cache'[k]) = Key(cache[k])
<1>1. ~(UNCHANGED tableVars) /\ tblHdl' # tblHdl
  BY DEF tableVars
<1>2. TableOp
  BY <1>1 DEF Next, EntryOp, ClientOp, TempOp, FlushTempEntries, vars
<1>3. \A ip : ~DeleteTable(ip)
  BY <1>1 DEF DeleteTable
<1>4. PICK ip \in PubIp, m \in Backhaul : AddTable(ip, m)
  BY <1>2, <1>3 DEF TableOp
<1>5. ~up /\ Offload(TRUE, m, cache, curCnt, ToRestore)
  BY <1>4 DEF AddTable
<1>6. /\ cache \in [Slot -> Entry] /\ modem \subseteq RuleId
      /\ ToRestore \in SUBSET UsedIn(cache) /\ ToRestore = Used
  BY DEF IInv, CacheInv, CacheShape, ToRestore, Used, UsedIn
<1> DEFINE on == TRUE
<1>7. Offload(on, m, cache, curCnt, ToRestore) /\ on \in BOOLEAN
  BY <1>5
<1> HIDE DEF on
<1>8. PICK R, f : OffloadResult(on, cache, curCnt, ToRestore, R, f)
  BY <1>6, <1>7, OffloadFacts
<1>9. R \in Accept("add", ToRestore, Cardinality(FreeHandle))
  BY <1>8 DEF OffloadResult, on
<1>10. FreeHandle = Handle
  BY <1>5 DEF NoTableNoRules, FreeHandle
<1>11. /\ IsFiniteSet(ToRestore) /\ Cardinality(ToRestore) <= MaxEntries
       /\ Cardinality(ToRestore) \in Nat
  BY <1>6, SlotIsFinite, FS_Subset, FS_CardinalityType DEF Used
<1>12. Cardinality(Handle) \in Nat /\ Cardinality(ToRestore) <= Cardinality(Handle)
  BY <1>11, BoundsAreNatural, FS_CardinalityType DEF RoomForAll
<1>13. R = ToRestore
  BY <1>9, <1>10, <1>11, <1>12, AllAccepted
<1> QED
  BY <1>6, <1>8, <1>13 DEF OffloadResult, Used

\* As long as the driver has room and refuses no insertion, every cached
\* connection survives the return of the table with the address it had, and
\* those of clients awake are translated again, also after deletions of rules,
\* of tables and the modem have failed.
THEOREM RestoredAll ==
    ASSUME "add" \notin Faults, RoomForAll PROVE Spec => RestoreIsComplete
<1>1. Init => IInv /\ NoTableNoRules
  <2>1. Init => NoTableNoRules
    BY DEF Init, NoTableNoRules
  <2> QED
    BY <2>1, InitIInv
<1>2. IInv /\ NoTableNoRules /\ [Next]_vars => (IInv /\ NoTableNoRules)'
  BY NextIInv, NextNoTable
<1>3. IInv /\ NoTableNoRules /\ [Next]_vars =>
        [(~tblHdl /\ tblHdl' /\ pubIp' = pre) =>
            \A k \in Used : /\ Key(cache'[k]) = Key(cache[k])
                            /\ AwakeFor(k) => cache'[k].enabled]_vars
  BY RestoreStep
<1> QED
  BY <1>1, <1>2, <1>3, PTL DEF Spec, RestoreIsComplete

\* The driver deletes what it is asked to and takes what it has room for.
DriverReliable == Faults \cap {"add", "delete", "deleteTable"} = {}

\* What waits was seen on a public address and is of no ALG port; without a
\* table there is no public address.
WaitingSound ==
    /\ tblHdl \/ pubIp = NoAddr
    /\ \A i \in TempSlot : temp[i] # NoRule =>
          temp[i].pub \in PubIp /\ temp[i].conn \notin Alg

Refused(c, r) == UsedIn(c) = Slot \/ \E k \in UsedIn(c) : Key(c[k]) = Key(r)

\* What a flush has passed and left waiting was refused.
PassedAreRefused ==
    todo # << >> =>
        \A i \in TempSlot : i < Head(todo).from /\ Waiting(temp[i], Head(todo).ip) =>
            Refused(cache, temp[i])

FlushInv == WaitingSound /\ PassedAreRefused

LEMMA NextWaiting ==
    ASSUME DriverReliable, IInv, WaitingSound, [Next]_vars PROVE WaitingSound'
<1>0. /\ tblHdl \in BOOLEAN /\ up \in BOOLEAN /\ (tblHdl => up)
      /\ temp \in [TempSlot -> Rule \cup {NoRule}]
      /\ todo \in {<< >>} \cup {<<f>> : f \in Flush}
  BY DEF IInv, TableShape, WaitShape, TempSlot
<1>1. CASE UNCHANGED temp
  <2>1. ASSUME NEW ip, NEW m, ~up, AddTable(ip, m) PROVE tblHdl' \/ pubIp' = NoAddr
    BY <1>0, <2>1 DEF AddTable, WaitingSound
  <2>2. ASSUME NEW ip, DeleteTable(ip) PROVE tblHdl' \/ pubIp' = NoAddr
    BY <2>2 DEF DeleteTable, DriverReliable, WaitingSound, tableVars
  <2>3. TableOp \/ UNCHANGED tableVars
    BY DEF Next, EntryOp, ClientOp, TempOp, FlushTempEntries, vars
  <2>4. tblHdl' \/ pubIp' = NoAddr
    BY <2>1, <2>2, <2>3 DEF TableOp, DriverReliable, tableVars, WaitingSound
  <2> QED
    BY <1>1, <2>4 DEF WaitingSound
<1>2. CASE ~UNCHANGED temp
  <2>1. TempOp \/ FlushTempEntries
    BY <1>2 DEF Next, TableOp, AddTable, DeleteTable, EntryOp, ClientOp, vars
  <2>2. UNCHANGED <<tblHdl, pubIp>>
    BY <2>1 DEF TempOp, FlushTempEntries, tableVars
  <2>3. ASSUME NEW r \in Offered, AddTempEntry(r)
        PROVE  \A i \in TempSlot : temp'[i] # NoRule =>
                  temp'[i].pub \in PubIp /\ temp'[i].conn \notin Alg
    <3>1. r.pub \in PubIp /\ r.conn \notin Alg
      BY <1>2, <2>3 DEF AddTempEntry, Offered, Rules
    <3>2. \A i \in TempSlot : temp'[i] = temp[i] \/ temp'[i] = r
      BY <1>0, <1>2, <2>3 DEF AddTempEntry
    <3> QED
      BY <3>1, <3>2 DEF WaitingSound
  <2>4. ASSUME NEW key, DeleteTempEntry(key)
        PROVE  \A i \in TempSlot : temp'[i] # NoRule =>
                  temp'[i].pub \in PubIp /\ temp'[i].conn \notin Alg
    BY <1>0, <2>4 DEF DeleteTempEntry, WaitingSound
  <2>5. ASSUME NEW a, DropTempEntries(a)
        PROVE  \A i \in TempSlot : temp'[i] # NoRule =>
                  temp'[i].pub \in PubIp /\ temp'[i].conn \notin Alg
    BY <1>0, <2>5 DEF DropTempEntries, WaitingSound
  <2>6. ASSUME FlushTempEntries
        PROVE  \A i \in TempSlot : temp'[i] # NoRule =>
                  temp'[i].pub \in PubIp /\ temp'[i].conn \notin Alg
    <3> DEFINE f == Head(todo)
               i == Least(FlushNext(f))
               r == Dummied(temp[i], f)
    <3>1. FlushNext(f) # {}
      BY <1>2, <2>6 DEF FlushTempEntries
    <3>2. \/ temp' = [temp EXCEPT ![i] = NoRule]
          \/ temp' = [temp EXCEPT ![i] = r]
      BY <2>6, <3>1 DEF FlushTempEntries
    <3>3. i \in FlushNext(f)
      BY <3>1, LeastIsElement DEF FlushNext, TempSlot
    <3>4. i \in TempSlot /\ temp[i] # NoRule /\ temp[i] \in Rule
      BY <1>0, <3>3 DEF FlushNext, Waiting
    <3> HIDE DEF i
    <3>5. r.pub = temp[i].pub /\ r.conn = temp[i].conn
      BY <3>4 DEF Dummied, Rule
    <3> HIDE DEF r
    <3>6. \A j \in TempSlot : temp'[j] \in {temp[j], NoRule} \/ (j = i /\ temp'[j] = r)
      BY <1>0, <3>2
    <3> QED
      BY <3>4, <3>5, <3>6 DEF WaitingSound
  <2> QED
    BY <2>1, <2>2, <2>3, <2>4, <2>5, <2>6 DEF WaitingSound, TempOp
<1> QED
  BY <1>1, <1>2

\* Adding an entry takes none of the others away.
LEMMA CacheGrows ==
    ASSUME CacheInv, NEW r \in Rule, NEW ok, AddEntry(r, ok)
    PROVE  \A k \in Used : k \in Used' /\ Key(cache'[k]) = Key(cache[k])
<1>1. CASE UNCHANGED cacheVars
  BY <1>1 DEF cacheVars, Used
<1>2. CASE ~UNCHANGED cacheVars
  <2>1. ~ChkForDup(r) /\ Used # Slot
    BY <1>2 DEF AddEntry
  <2> DEFINE k == Least(Slot \ Used)
             c == [cache EXCEPT ![k] = Cached(r)]
  <2>2. \/ cache' = c
        \/ Offload(TRUE, backhaul, c, curCnt + 1, {k})
    BY <1>2, <2>1 DEF AddEntry
  <2>3. k \in UsedIn(c) /\ c \in [Slot -> Entry]
    BY <2>1, NewEntry
  <2>4. modem \subseteq RuleId /\ cache \in [Slot -> Entry]
    BY DEF CacheInv, CacheShape
  <2>5. k \in Slot \ Used
    <3>1. Slot \ Used \in SUBSET Nat /\ Slot \ Used # {}
      BY <2>1 DEF Used, Slot
    <3> QED
      BY <3>1, LeastIsElement
  <2> HIDE DEF k
  <2>6. \A j \in Used : j \in Slot /\ j \notin {k} /\ c[j] = cache[j]
    BY <2>4, <2>5 DEF Used
  <2> HIDE DEF c
  <2>7. \A j \in Used : cache'[j] = c[j]
    <3>1. CASE cache' = c
      BY <3>1
    <3>2. CASE Offload(TRUE, backhaul, c, curCnt + 1, {k})
      <4> DEFINE on == TRUE
      <4>1. on \in BOOLEAN /\ Offload(on, backhaul, c, curCnt + 1, {k})
        BY <3>2
      <4>2. {k} \in SUBSET UsedIn(c)
        BY <2>3
      <4> HIDE DEF on
      <4>3. PICK R, f : OffloadResult(on, c, curCnt + 1, {k}, R, f)
        BY <2>3, <2>4, <4>1, <4>2, OffloadFacts
      <4> QED
        BY <2>6, <4>3 DEF OffloadResult
    <3> QED
      BY <2>2, <3>1, <3>2
  <2> QED
    BY <2>6, <2>7 DEF Used
<1> QED
  BY <1>1, <1>2

LEMMA RefusedStays ==
    ASSUME CacheInv, NEW r \in Rule, NEW ok, AddEntry(r, ok), NEW x, Refused(cache, x)
    PROVE  Refused(cache', x)
<1>1. \A k \in UsedIn(cache) : k \in UsedIn(cache') /\ Key(cache'[k]) = Key(cache[k])
  BY CacheGrows DEF Used, UsedIn
<1>2. UsedIn(cache') \subseteq Slot
  BY DEF UsedIn
<1> QED
  BY <1>1, <1>2 DEF Refused

\* The driver has a free handle as long as the cache has a free slot: every
\* handle in use is that of an enabled entry.
LEMMA RoomInDriver ==
    ASSUME RoomForAll, HeldAreEnabled, Used # Slot
    PROVE  Cardinality(FreeHandle) \in Nat \ {0}
<1> DEFINE held == {h \in Handle : owner[h] # NoKey}
           hdls == {cache[k].hdl : k \in Used}
<1>1. /\ IsFiniteSet(Used) /\ Cardinality(Used) < MaxEntries
      /\ Cardinality(Used) \in Nat
  <2>1. Used \in SUBSET Slot
    BY DEF Used
  <2> QED
    BY <2>1, SlotIsFinite, FS_Subset, FS_CardinalityType, BoundsAreNatural
<1>2. IsFiniteSet(hdls) /\ Cardinality(hdls) <= Cardinality(Used)
  <2> DEFINE g == [k \in Used |-> cache[k].hdl]
  <2>1. g \in Surjection(Used, hdls)
    BY DEF Surjection
  <2> HIDE DEF hdls, g
  <2> QED
    BY <1>1, <2>1, FS_Surjection
<1>3. held \subseteq hdls
  BY DEF HeldAreEnabled
<1> HIDE DEF hdls, held
<1>4. Cardinality(held) <= Cardinality(hdls) /\ Cardinality(held) \in Nat /\ Cardinality(hdls) \in Nat
  BY <1>2, <1>3, FS_Subset, FS_CardinalityType
<1>5. held # Handle
  BY <1>1, <1>2, <1>4, FS_CardinalityType, BoundsAreNatural DEF RoomForAll
<1>6. FreeHandle # {}
  BY <1>5 DEF FreeHandle, held
<1>7. IsFiniteSet(FreeHandle)
  BY FS_Subset DEF RoomForAll, FreeHandle
<1> QED
  BY <1>6, <1>7, FS_EmptySet, FS_CardinalityType

\* AddEntry turns away only what is cached already or has no slot.
LEMMA TurnedAway ==
    ASSUME DriverReliable, RoomForAll, CacheInv, HeldAreEnabled,
           tblHdl, NEW r \in Rule, r.conn \notin Alg, AddEntry(r, FALSE)
    PROVE  Refused(cache, r)
<1> SUFFICES ASSUME ~ChkForDup(r), Used # Slot PROVE FALSE
  BY DEF Refused, ChkForDup, Used, UsedIn
<1> DEFINE k == Least(Slot \ Used)
           c == [cache EXCEPT ![k] = Cached(r)]
<1>1. Offload(TRUE, backhaul, c, curCnt + 1, {k}) /\ cache'[k] = Empty
  BY DEF AddEntry
<1>2. /\ k \in UsedIn(c) /\ c \in [Slot -> Entry] /\ modem \subseteq RuleId
  BY NewEntry DEF CacheInv, CacheShape
<1> HIDE DEF k, c
<1> DEFINE on == TRUE
<1>3. on \in BOOLEAN /\ Offload(on, backhaul, c, curCnt + 1, {k})
  BY <1>1
<1>4. {k} \in SUBSET UsedIn(c)
  BY <1>2
<1> HIDE DEF on
<1>5. PICK R, f : OffloadResult(on, c, curCnt + 1, {k}, R, f)
  BY <1>2, <1>3, <1>4, OffloadFacts
<1>6. R \in Accept("add", {k}, Cardinality(FreeHandle))
  BY <1>5 DEF OffloadResult, on
<1>7. R = {k}
  <2>1. IsFiniteSet({k}) /\ Cardinality({k}) = 1
    BY FS_Singleton
  <2>2. Cardinality(FreeHandle) \in Nat /\ 1 <= Cardinality(FreeHandle)
    BY RoomInDriver
  <2> QED
    BY <1>6, <2>1, <2>2, AllAccepted DEF DriverReliable
<1>8. Key(cache'[k]) = Key(c[k]) /\ c[k].conn # NoConn
  BY <1>2, <1>5, <1>7 DEF OffloadResult, UsedIn
<1> QED
  BY <1>1, <1>8, EmptyFacts DEF Key

LEMMA FlushStepRefuses ==
    ASSUME DriverReliable, RoomForAll, IInv, HeldInv, FlushInv, FlushTempEntries
    PROVE  PassedAreRefused'
<1> DEFINE f == Head(todo)
           i == Least(FlushNext(f))
           r == Dummied(temp[i], f)
<1>0. /\ CacheInv /\ f \in Flush /\ todo = <<f>>
      /\ temp \in [TempSlot -> Rule \cup {NoRule}]
  BY DEF FlushTempEntries, IInv, WaitShape, TempSlot
<1>1. CASE FlushNext(f) = {}
  BY <1>1 DEF FlushTempEntries, PassedAreRefused
<1>2. CASE FlushNext(f) # {}
  <2>1. /\ todo' = <<[f EXCEPT !.from = i + 1]>>
        /\ IF temp[i].pub # pubIp
           THEN /\ temp' = [temp EXCEPT ![i] = NoRule]
                /\ UNCHANGED cacheVars
           ELSE \E ok \in BOOLEAN :
                  /\ AddEntry(r, ok)
                  /\ temp' = [temp EXCEPT ![i] = IF ok THEN NoRule ELSE r]
    BY <1>2 DEF FlushTempEntries
  <2>2. FlushNext(f) \in SUBSET Nat
    BY DEF FlushNext, TempSlot
  <2>3. i \in FlushNext(f) /\ \A j \in FlushNext(f) : i <= j
    BY <1>2, <2>2, LeastIsElement, LeastIsLeast
  <2>4. i \in TempSlot /\ temp[i] \in Rule /\ temp[i] # NoRule
    BY <1>0, <2>3 DEF FlushNext, Waiting
  <2> HIDE DEF i
  <2>5. r \in Rule /\ r.pub = temp[i].pub /\ r.conn = temp[i].conn
    <3>1. r \in Rule
      BY <1>0, <2>4, DummiedIsRule
    <3> QED
      BY <2>4, <3>1 DEF Dummied, Rule
  <2> HIDE DEF r
  <2>6. Head(todo').ip = f.ip /\ Head(todo').from = i + 1
    <3> HIDE DEF f
    <3> QED
      BY <1>0, <2>1 DEF Flush
  <2>7. ASSUME NEW x, Refused(cache, x) PROVE Refused(cache', x)
    <3>1. CASE UNCHANGED cacheVars
      BY <2>7, <3>1 DEF cacheVars
    <3>2. CASE ~UNCHANGED cacheVars
      BY <1>0, <2>1, <2>5, <2>7, <3>2, RefusedStays
    <3> QED
      BY <3>1, <3>2
  <2> SUFFICES ASSUME NEW j \in TempSlot, j < i + 1, Waiting(temp'[j], f.ip)
               PROVE  Refused(cache', temp'[j])
    BY <2>6 DEF PassedAreRefused
  <2>8. CASE j = i
    <3>1. temp'[i] # NoRule
      BY <2>8 DEF Waiting
    <3>2. temp[i].pub = pubIp /\ AddEntry(r, FALSE) /\ temp'[i] = r
      BY <1>0, <2>1, <2>4, <3>1
    <3>3. tblHdl /\ r.conn \notin Alg
      <4>1. pubIp \in PubIp /\ NoAddr \notin PubIp
        BY <2>4, <3>2, NothingIsNothing, AddressesAreAddr DEF FlushInv, WaitingSound
      <4> QED
        BY <2>4, <2>5, <4>1 DEF FlushInv, WaitingSound
    <3>4. Refused(cache, r)
      BY <1>0, <2>5, <3>2, <3>3, TurnedAway DEF HeldInv
    <3>5. Refused(cache', r)
      BY <1>0, <2>5, <3>2, <3>4, RefusedStays
    <3> QED
      BY <2>8, <3>2, <3>5
  <2>9. CASE j # i
    <3>1. temp'[j] = temp[j]
      BY <1>0, <2>1, <2>9
    <3>2. j < f.from
      <4>1. i \in Nat /\ j \in Nat /\ f.from \in Nat
        BY <1>0, <2>4 DEF TempSlot, Flush
      <4>2. j \notin FlushNext(f)
        BY <2>3, <2>9, <4>1
      <4> QED
        BY <3>1, <4>1, <4>2 DEF FlushNext
    <3>3. Refused(cache, temp[j])
      <4>1. todo # << >>
        BY DEF FlushTempEntries
      <4> QED
        BY <4>1, <3>1, <3>2 DEF FlushInv, PassedAreRefused
    <3> QED
      BY <2>7, <3>1, <3>3
  <2> QED
    BY <2>8, <2>9
<1> QED
  BY <1>1, <1>2

LEMMA NextFlush ==
    ASSUME DriverReliable, RoomForAll, IInv, HeldInv, FlushInv, [Next]_vars
    PROVE  FlushInv'
<1>1. WaitingSound'
  BY NextWaiting DEF FlushInv
<1>2. PassedAreRefused'
  <2>1. CASE todo' = << >>
    BY <2>1 DEF PassedAreRefused
  <2>2. CASE \E a \in Client, dummy \in BOOLEAN : StartFlush(a, dummy)
    <3>1. Head(todo').from = 1
      BY <2>2 DEF StartFlush
    <3> QED
      BY <3>1 DEF PassedAreRefused, TempSlot
  <2>3. CASE FlushTempEntries
    BY <2>3, FlushStepRefuses
  <2>4. CASE UNCHANGED vars
    BY <2>4 DEF vars, cacheVars, FlushInv, PassedAreRefused
  <2> QED
    BY <2>1, <2>2, <2>3, <2>4 DEF Next
<1> QED
  BY <1>1, <1>2 DEF FlushInv

LEMMA FlushEnds ==
    ASSUME IInv, FlushInv, [Next]_vars, todo # << >>, todo' = << >>,
           NEW i \in TempSlot, Waiting(temp[i], Head(todo).ip)
    PROVE  Refused(cache, temp[i])
<1> DEFINE f == Head(todo)
<1>1. FlushTempEntries
  BY DEF Next, vars
<1>2. FlushNext(f) = {}
  <2> SUFFICES ASSUME FlushNext(f) # {} PROVE FALSE
    OBVIOUS
  <2>1. todo' = <<[f EXCEPT !.from = Least(FlushNext(f)) + 1]>>
    BY <1>1 DEF FlushTempEntries
  <2> QED
    BY <2>1
<1>3. f \in Flush
  BY DEF IInv, WaitShape
<1>4. i \in Nat /\ f.from \in Nat
  BY <1>3 DEF TempSlot, Flush
<1>5. i < f.from
  BY <1>2, <1>4 DEF FlushNext
<1>6. \A j \in TempSlot : j < f.from /\ Waiting(temp[j], f.ip) =>
          Refused(cache, temp[j])
  BY DEF FlushInv, PassedAreRefused
<1> QED
  BY <1>5, <1>6

LEMMA InitFlush == Init => FlushInv
  BY DEF Init, FlushInv, WaitingSound, PassedAreRefused, TempSlot

\* As long as the driver takes what it has room for and deletes what it is
\* asked to, a connection still waiting for an address once its flush ends is
\* one AddEntry could not take: FlushTempEntries passes over none.
THEOREM FlushedAll ==
    ASSUME DriverReliable, RoomForAll PROVE Spec => FlushIsComplete
<1> DEFINE Inv == IInv /\ HeldInv /\ FlushInv
<1>1. Init => Inv
  BY InitIInv, InitHeld, InitFlush
<1>2. DeletesSucceed
  BY DEF DriverReliable, DeletesSucceed
<1>3. Inv /\ [Next]_vars => Inv'
  BY <1>2, NextIInv, NextHeld, NextFlush
<1>4. Inv /\ [Next]_vars =>
        [(todo # << >> /\ todo' = << >>) =>
            \A i \in TempSlot : Waiting(temp[i], Head(todo).ip) =>
                Used = Slot \/ ChkForDup(temp[i])]_vars
  BY FlushEnds DEF Refused, ChkForDup, Used, UsedIn
<1> QED
  BY <1>1, <1>3, <1>4, PTL DEF Spec, FlushIsComplete
=============================================================================
