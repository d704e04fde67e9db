---------------------------- MODULE IpaNatProofs ----------------------------
(***************************************************************************)
(* Proofs about IpaNat, for every table size, every set of connections,    *)
(* every hash function and every pattern of DMA failures: type             *)
(* correctness, soundness of the handles, and that a handle keeps its      *)
(* meaning.  None of them needs to know what a chain looks like.           *)
(***************************************************************************)
EXTENDS IpaNat, FiniteSetTheorems, WellFoundedInduction, TLAPS

\* The least element of a nonempty set of naturals is one of its elements.
LEMMA LeastIsElement ==
    ASSUME NEW S \in SUBSET Nat, S # {}
    PROVE  Least(S) \in S /\ \A t \in S : Least(S) <= t
<1> DEFINE R == {ss \in Nat \X Nat : ss[1] < ss[2]}
<1>1. IsWellFoundedOn(R, Nat)
  BY NatLessThanWellFounded DEF OpToRel
<1> HIDE DEF R
<1>2. PICK x \in S : \A y \in S : <<y, x>> \notin R
  BY <1>1, WFMin
<1>3. \A y \in S : ~(y < x)
  BY <1>2 DEF R
<1>4. \A y \in S : x <= y
  BY <1>3
<1> QED
  BY <1>4 DEF Least

LEMMA SlotFacts ==
    /\ Slot \subseteq Nat /\ 0 \in Slot /\ Expn \subseteq Slot
    /\ \A s \in Expn : Entry(s) # 0
    /\ \A s \in Slot : Entry(s) # 0 <=> s \notin {0, N}
    /\ \A c \in Conn : DstHash[c] \in Slot /\ SrcHash[c] \in Slot
    /\ \A c \in Conn : Entry(DstHash[c]) # 0
  BY SizesAreNatural, HashesMissEntryZero DEF Slot, Expn, Entry

\* The scan for a free expansion entry returns 0 or an entry that is not used.
LEMMA FirstFreeIsFree ==
    ASSUME NEW used
    PROVE  /\ FirstFree(used) \in Slot
           /\ FirstFree(used) # 0 => /\ FirstFree(used) \notin used
                                    /\ Entry(FirstFree(used)) # 0
<1>1. CASE Expn \subseteq used
  BY <1>1, SlotFacts DEF FirstFree
<1>2. CASE ~(Expn \subseteq used)
  <2>1. Expn \ used \in SUBSET Nat /\ Expn \ used # {}
    BY <1>2, SlotFacts
  <2>2. Least(Expn \ used) \in Expn \ used
    BY <2>1, LeastIsElement
  <2> QED
    BY <1>2, <2>2, SlotFacts DEF FirstFree
<1> QED
  BY <1>1, <1>2

LEMMA LastOfIsSlot ==
    ASSUME NEW succ, NEW first
    PROVE  LastOf(succ, first) \in Slot
<1> DEFINE last == {s \in Chain(succ, first) : succ[s] = 0}
<1>1. Chain(succ, first) \subseteq Slot
  BY DEF Chain
<1> HIDE DEF last
<1>2. LastOf(succ, first) = IF last = {} THEN 0 ELSE CHOOSE s \in last : TRUE
  BY DEF LastOf, last
<1>3. last \subseteq Slot
  BY <1>1 DEF last
<1> QED
  BY <1>2, <1>3, SlotFacts

\* A new rule goes to an entry that is not enabled and whose number is not 0.
LEMMA PlaceFacts ==
    ASSUME TypeOK, NEW c \in Conn
    PROVE  /\ TblPlace(c) \in [at : Slot, prev : Slot]
           /\ TblPlace(c).at # 0 => /\ ~tbl[TblPlace(c).at].enable
                                    /\ Entry(TblPlace(c).at) # 0
           /\ IndexPlace(c) \in [at : Slot, prev : Slot]
<1> DEFINE last == LastOf(RuleNext, DstHash[c])
           ilast == LastOf(IndexNext, SrcHash[c])
           free == FirstFree(RulesUsed)
           ifree == FirstFree(IndexesUsed)
<1>1. last \in Slot /\ ilast \in Slot
  BY LastOfIsSlot
<1>2. /\ free \in Slot /\ (free # 0 => free \notin RulesUsed /\ Entry(free) # 0)
      /\ ifree \in Slot
  BY FirstFreeIsFree
<1>3. free # 0 => ~tbl[free].enable /\ Entry(free) # 0
  BY <1>2 DEF RulesUsed
<1>4. TblPlace(c) = IF ~tbl[DstHash[c]].enable
                    THEN [at |-> DstHash[c], prev |-> 0]
                    ELSE [at |-> IF last = 0 THEN 0 ELSE free, prev |-> last]
  BY DEF TblPlace
<1>5. IndexPlace(c) = IF idx[SrcHash[c]].ent = 0
                      THEN [at |-> SrcHash[c], prev |-> 0]
                      ELSE [at |-> IF ilast \in {0, ifree} THEN 0 ELSE ifree,
                            prev |-> ilast]
  BY DEF IndexPlace
<1> HIDE DEF last, ilast, free, ifree
<1> QED
  BY <1>1, <1>2, <1>3, <1>4, <1>5, SlotFacts

LEMMA CmdFacts ==
    ASSUME TypeOK, NEW s \in Slot, NEW i \in Slot
    PROVE  /\ RuleCmd(s) \in Cmd
           /\ RuleCmd(s).kind \in {"disable", "proto"} => RuleCmd(s).at = s
           /\ IndexCmds(i) \in Seq(Cmd)
           /\ \A k \in 1 .. Len(IndexCmds(i)) : IndexCmds(i)[k].kind \in {"ent", "inext"}
           /\ MovedIndex(i) \in Slot
<1>1. /\ tbl[s].prev \in Slot /\ tbl[s].next \in Slot
      /\ idx[i].next \in Slot /\ meta[i] \in Slot
      /\ idx[idx[i].next].ent \in Slot /\ idx[idx[i].next].next \in Slot
  BY DEF TypeOK, Rule, Index
<1>2. RuleCmd(s) \in Cmd /\ (RuleCmd(s).kind \in {"disable", "proto"} => RuleCmd(s).at = s)
  BY <1>1, SlotFacts DEF RuleCmd, Write, Cmd
<1> DEFINE n == idx[i].next
<1>6. /\ Write("inext", meta[i], n) \in Cmd /\ Write("ent", i, 0) \in Cmd
      /\ Write("ent", i, idx[n].ent) \in Cmd /\ Write("inext", i, idx[n].next) \in Cmd
  BY <1>1, SlotFacts DEF Write, Cmd
<1>3. IndexCmds(i) \in Seq(Cmd)
  <2> HIDE DEF n
  <2>1. \/ IndexCmds(i) = << Write("inext", meta[i], n) >>
        \/ IndexCmds(i) = << Write("ent", i, 0) >>
        \/ IndexCmds(i) = << Write("ent", i, idx[n].ent), Write("inext", i, idx[n].next) >>
    BY DEF IndexCmds, n
  <2>2. /\ << Write("inext", meta[i], n) >> \in Seq(Cmd)
        /\ << Write("ent", i, 0) >> \in Seq(Cmd)
    BY <1>6
  <2>3. << Write("ent", i, idx[n].ent), Write("inext", i, idx[n].next) >> \in Seq(Cmd)
    BY <1>6
  <2> QED
    BY <2>1, <2>2, <2>3
<1>4. \A k \in 1 .. Len(IndexCmds(i)) : IndexCmds(i)[k].kind \in {"ent", "inext"}
  BY <1>1 DEF IndexCmds, Write
<1>5. MovedIndex(i) \in Slot
  BY <1>1, SlotFacts DEF MovedIndex
<1> QED
  BY <1>2, <1>3, <1>4, <1>5

-----------------------------------------------------------------------------
(* The inductive invariant.                                                *)

IInv == TypeOK /\ HandlesSound /\ CallOk

LEMMA InitIInv == Init => IInv
<1> SUFFICES ASSUME Init PROVE IInv
  OBVIOUS
<1>1. ZeroRule \in Rule /\ ZeroIndex \in Index /\ IdleOp \in Op
  BY SlotFacts DEF ZeroRule, Rule, ZeroIndex, Index, IdleOp, Op
<1>2. TypeOK
  BY <1>1, SlotFacts DEF Init, TypeOK
<1> QED
  BY <1>2 DEF Init, IInv, HandlesSound, HandleOk, CallOk, IdleOp, Idle

LEMMA AddTableIInv == IInv /\ AddTable => IInv'
  BY DEF IInv, TypeOK, HandlesSound, HandleOk, Accepted, Deleting, CallOk, AddTable, Idle

LEMMA DelTableIInv == IInv /\ DelTable => IInv'
<1> SUFFICES ASSUME IInv, DelTable PROVE IInv'
  OBVIOUS
<1>1. ZeroRule \in Rule /\ ZeroIndex \in Index
  BY SlotFacts DEF ZeroRule, Rule, ZeroIndex, Index
<1>2. TypeOK'
  BY <1>1, SlotFacts DEF IInv, TypeOK, DelTable
<1>3. HandlesSound'
  BY DEF DelTable, HandlesSound, HandleOk
<1>4. CallOk'
  BY DEF DelTable, CallOk, Idle, IInv
<1> QED
  BY <1>2, <1>3, <1>4 DEF IInv

LEMMA AddRuleIInv ==
    ASSUME IInv, NEW c \in Conn, AddRule(c)
    PROVE  IInv'
<1> DEFINE t == TblPlace(c)
           i == IndexPlace(c)
           r == [conn |-> c, enable |-> FALSE, proto |-> "valid",
                 next |-> 0, prev |-> t.prev, indx |-> i.at]
           cmds == Link("next", t) \o << Write("entry", i.at, t.at) >>
                     \o Link("inext", i) \o << Write("enable", t.at, 0) >>
<1>1. /\ t \in [at : Slot, prev : Slot] /\ i \in [at : Slot, prev : Slot]
      /\ t.at # 0 => ~tbl[t.at].enable /\ Entry(t.at) # 0
  BY PlaceFacts DEF IInv
<1> HIDE DEF t, i
<1>2. CASE t.at = 0 \/ i.at = 0
  <2>1. ret' = "full" /\ UNCHANGED <<valid, tbl, idx, meta, ruleId, op>>
    BY <1>2 DEF AddRule, t, i
  <2> QED
    BY <2>1 DEF IInv, TypeOK, HandlesSound, HandleOk, Accepted, Deleting, CallOk, Idle
<1>3. CASE ~(t.at = 0 \/ i.at = 0)
  <2>1. /\ tbl' = [tbl EXCEPT ![t.at] = r]
        /\ meta' = IF i.at >= N THEN [meta EXCEPT ![i.at] = i.prev] ELSE meta
        /\ op' = AddOp(c, t.at, i.at, cmds)
        /\ Idle /\ UNCHANGED <<valid, idx, ruleId, ret>>
    BY <1>3 DEF AddRule, t, i
  <2>2. r \in Rule
    BY <1>1, SlotFacts DEF Rule
  <2>3. /\ Link("next", t) \in Seq(Cmd) /\ Link("inext", i) \in Seq(Cmd)
        /\ \A k \in 1 .. Len(Link("next", t)) : Link("next", t)[k].kind = "next"
        /\ \A k \in 1 .. Len(Link("inext", i)) : Link("inext", i)[k].kind = "inext"
    <3>1. Write("next", t.prev, t.at) \in Cmd /\ Write("inext", i.prev, i.at) \in Cmd
      BY <1>1 DEF Write, Cmd
    <3>2. << Write("next", t.prev, t.at) >> \in Seq(Cmd)
          /\ << Write("inext", i.prev, i.at) >> \in Seq(Cmd)
      BY <3>1
    <3> QED
      BY <3>2 DEF Link, Write
  <2>4. /\ Write("entry", i.at, t.at) \in Cmd /\ Write("enable", t.at, 0) \in Cmd
        /\ Write("entry", i.at, t.at).kind = "entry"
        /\ Write("enable", t.at, 0).kind = "enable"
    BY <1>1, SlotFacts DEF Write, Cmd
  <2>5. /\ cmds \in Seq(Cmd) /\ cmds # << >>
        /\ cmds[Len(cmds)] = Write("enable", t.at, 0)
        /\ \A k \in 1 .. Len(cmds) : cmds[k].kind \notin {"disable", "proto"}
    <3> DEFINE a == Link("next", t)
               b == Link("inext", i)
               x == Write("entry", i.at, t.at)
               y == Write("enable", t.at, 0)
    <3> HIDE DEF a, b, x, y
    <3>1. /\ a \in Seq(Cmd) /\ b \in Seq(Cmd) /\ x \in Cmd /\ y \in Cmd
          /\ x.kind = "entry" /\ y.kind = "enable"
          /\ \A k \in 1 .. Len(a) : a[k].kind = "next"
          /\ \A k \in 1 .. Len(b) : b[k].kind = "inext"
      BY <2>3, <2>4 DEF a, b, x, y
    <3> DEFINE f == a \o << x >>
               g == b \o << y >>
    <3>2. /\ f \in Seq(Cmd)
          /\ \A k \in 1 .. Len(f) : f[k].kind \in {"next", "entry"}
      BY <3>1
    <3>3. /\ g \in Seq(Cmd) /\ Len(g) > 0 /\ g[Len(g)] = y
          /\ \A k \in 1 .. Len(g) : g[k].kind \in {"inext", "enable"}
      BY <3>1
    <3>4. cmds = f \o g
      BY <3>1 DEF a, b, x, y
    <3> HIDE DEF f, g, cmds
    <3>5. /\ f \o g \in Seq(Cmd) /\ f \o g # << >> /\ (f \o g)[Len(f \o g)] = y
          /\ \A k \in 1 .. Len(f \o g) : (f \o g)[k].kind \notin {"disable", "proto"}
      BY SMTT(60), <3>2, <3>3
    <3> QED
      BY <3>4, <3>5 DEF y
  <2> HIDE DEF cmds, r
  <2>6. TypeOK'
    BY <2>1, <2>2, <2>5, <1>1, SlotFacts DEF IInv, TypeOK, Op, AddOp
  <2>7. \A h \in Handle : ruleId[h] # t.at
    BY <1>1, <1>3, <2>1 DEF IInv, HandlesSound, HandleOk, Accepted, Deleting, Idle
  <2>8. HandlesSound'
    BY <2>1, <2>7, <1>1 DEF IInv, TypeOK, HandlesSound, HandleOk, Accepted, Deleting, Idle, AddOp
  <2>9. CallOk'
    <3>1. tbl'[t.at] = r /\ r.conn = c /\ r.proto = "valid"
      BY <2>1, <1>1 DEF IInv, TypeOK, r
    <3>2. Entry(t.at) # 0
      BY <1>1, <1>3
    <3> QED
      BY <2>1, <2>5, <2>7, <3>1, <3>2 DEF CallOk, AddOp, Idle
  <2> QED
    BY <2>6, <2>8, <2>9 DEF IInv
<1> QED
  BY <1>2, <1>3

LEMMA DelRuleIInv ==
    ASSUME IInv, NEW h \in Handle, DelRule(h)
    PROVE  IInv'
<1> DEFINE s == ruleId[h]
           i == tbl[s].indx
           cmds == IndexCmds(i) \o << RuleCmd(s) >>
<1>1. UNCHANGED <<valid, tbl, idx, meta, ruleId>> /\ Idle
  BY DEF DelRule
<1>2. CASE ret' = "einval" /\ UNCHANGED op
  BY <1>1, <1>2 DEF IInv, TypeOK, HandlesSound, HandleOk, Accepted, Deleting, CallOk, Idle
<1>3. CASE /\ s # 0
           /\ op' = DelOp(tbl[s].conn, s, i, MovedIndex(i), h, cmds)
           /\ ret' = ret
  <2>1. s \in Slot /\ tbl[s].conn \in Conn \cup {NoConn} /\ i \in Slot
    BY DEF IInv, TypeOK, Rule
  <2> HIDE DEF s, i
  <2>2. /\ RuleCmd(s) \in Cmd /\ IndexCmds(i) \in Seq(Cmd) /\ MovedIndex(i) \in Slot
        /\ RuleCmd(s).kind \in {"disable", "proto"} => RuleCmd(s).at = s
        /\ \A k \in 1 .. Len(IndexCmds(i)) : IndexCmds(i)[k].kind \in {"ent", "inext"}
    BY <2>1, CmdFacts DEF IInv
  <2>3. /\ cmds \in Seq(Cmd)
        /\ \A k \in 1 .. Len(cmds) : cmds[k].kind \in {"disable", "proto"} => cmds[k].at = s
    <3> DEFINE a == IndexCmds(i)
               y == RuleCmd(s)
    <3> HIDE DEF a, y
    <3>1. /\ a \in Seq(Cmd) /\ y \in Cmd /\ (y.kind \in {"disable", "proto"} => y.at = s)
          /\ \A k \in 1 .. Len(a) : a[k].kind \in {"ent", "inext"}
      BY <2>2 DEF a, y
    <3>2. /\ a \o << y >> \in Seq(Cmd)
          /\ \A k \in 1 .. Len(a \o << y >>) :
                (a \o << y >>)[k].kind \in {"disable", "proto"} => (a \o << y >>)[k].at = s
      BY <3>1
    <3> QED
      BY <3>2 DEF a, y
  <2> HIDE DEF cmds
  <2>4. TypeOK'
    BY <1>1, <1>3, <2>1, <2>2, <2>3 DEF IInv, TypeOK, Op, DelOp
  <2>5. HandlesSound'
    BY <1>1, <1>3 DEF IInv, HandlesSound, HandleOk, Accepted, Deleting, Idle, DelOp
  <2>6. CallOk'
    BY <1>1, <1>3, <2>3 DEF CallOk, DelOp, Idle, s
  <2> QED
    BY <2>4, <2>5, <2>6 DEF IInv
<1>4. Accepted(h) => s # 0
  BY SizesAreNatural DEF Accepted, Entry
<1> QED
  BY <1>2, <1>3, <1>4 DEF DelRule

LEMMA EmptyLength == ASSUME NEW t, t = << >> PROVE Len(t) = 0
  OBVIOUS

LEMMA HeadAndTail ==
    ASSUME NEW S, NEW q \in Seq(S), q # << >>
    PROVE  /\ Head(q) \in S /\ Tail(q) \in Seq(S) /\ Head(q) = q[1]
           /\ \A k \in 1 .. Len(Tail(q)) : k + 1 \in 1 .. Len(q) /\ Tail(q)[k] = q[k + 1]
           /\ Tail(q) # << >> => Tail(q)[Len(Tail(q))] = q[Len(q)]
           /\ Tail(q) = << >> => Head(q) = q[Len(q)]
           /\ 1 \in 1 .. Len(q)
<1>1. /\ Head(q) \in S /\ Tail(q) \in Seq(S) /\ Head(q) = q[1]
      /\ 1 \in 1 .. Len(q)
  OBVIOUS
<1>2. \A k \in 1 .. Len(Tail(q)) : k + 1 \in 1 .. Len(q) /\ Tail(q)[k] = q[k + 1]
  OBVIOUS
<1>3. Tail(q) # << >> => Tail(q)[Len(Tail(q))] = q[Len(q)]
  OBVIOUS
<1>4. Tail(q) = << >> => Head(q) = q[Len(q)]
  <2> DEFINE tl == Len(Tail(q))
             ln == Len(q)
  <2>1. tl = ln - 1 /\ ln \in Nat
    OBVIOUS
  <2>2. Tail(q) = << >> => tl = 0
    BY EmptyLength
  <2> HIDE DEF tl, ln
  <2>3. Tail(q) = << >> => ln = 1
    BY <2>1, <2>2
  <2> QED
    BY <2>3, <1>1 DEF ln
<1> QED
  BY <1>1, <1>2, <1>3, <1>4

LEMMA DoWriteIInv == IInv /\ DoWrite => IInv'
<1> SUFFICES ASSUME IInv, DoWrite PROVE IInv'
  OBVIOUS
<1> DEFINE c == Head(op.cmds)
           rest == Tail(op.cmds)
<1>1. /\ op.cmds \in Seq(Cmd) /\ op.cmds # << >>
      /\ op.pc \in {"idle", "add", "del"} /\ op.slot \in Slot
  BY DEF IInv, TypeOK, Op, DoWrite
<1>2. /\ c \in Cmd /\ rest \in Seq(Cmd) /\ c = op.cmds[1]
      /\ \A k \in 1 .. Len(rest) : k + 1 \in 1 .. Len(op.cmds) /\ rest[k] = op.cmds[k + 1]
      /\ rest # << >> => rest[Len(rest)] = op.cmds[Len(op.cmds)]
      /\ rest = << >> => c = op.cmds[Len(op.cmds)]
      /\ 1 \in 1 .. Len(op.cmds)
  BY <1>1, HeadAndTail
<1>3. /\ tbl' = [tbl EXCEPT ![c.at] = WrittenRule(c, tbl[c.at])]
      /\ idx' = [idx EXCEPT ![c.at] = WrittenIndex(c, idx[c.at])]
      /\ op' = [op EXCEPT !.cmds = rest]
      /\ UNCHANGED <<valid, meta, ruleId, ret>>
  BY DEF DoWrite
<1> HIDE DEF c, rest
<1>4. c.at \in Slot /\ c.val \in Slot
  BY <1>2 DEF Cmd
<1>5. /\ WrittenRule(c, tbl[c.at]) \in Rule /\ WrittenIndex(c, idx[c.at]) \in Index
      /\ WrittenRule(c, tbl[c.at]).conn = tbl[c.at].conn
      /\ c.kind # "proto" => WrittenRule(c, tbl[c.at]).proto = tbl[c.at].proto
      /\ c.kind # "disable" =>
            WrittenRule(c, tbl[c.at]).enable = tbl[c.at].enable \/
            WrittenRule(c, tbl[c.at]).enable = TRUE
      /\ c.kind = "enable" => WrittenRule(c, tbl[c.at]).enable = TRUE
  <2>1. tbl[c.at] \in Rule /\ idx[c.at] \in Index
    BY <1>4 DEF IInv, TypeOK
  <2> QED
    BY <1>4, <2>1, SlotFacts DEF WrittenRule, WrittenIndex, Rule, Index
<1>6. /\ tbl' \in [Slot -> Rule]
      /\ \A s \in Slot : tbl'[s] = IF s = c.at THEN WrittenRule(c, tbl[c.at]) ELSE tbl[s]
  BY <1>3, <1>4, <1>5 DEF IInv, TypeOK
<1>7. op' \in Op /\ op'.pc = op.pc /\ op'.slot = op.slot /\ op'.hdl = op.hdl /\ op'.cmds = rest
  BY <1>2, <1>3 DEF IInv, TypeOK, Op
<1>8. TypeOK'
  BY <1>3, <1>4, <1>5, <1>6, <1>7 DEF IInv, TypeOK
<1>9. CASE op.pc = "add"
  <2>1. c.kind \notin {"disable", "proto"}
    BY <1>2, <1>9 DEF IInv, CallOk
  <2>2. \A s \in Slot : /\ tbl'[s].conn = tbl[s].conn
                        /\ tbl'[s].proto = tbl[s].proto
                        /\ tbl[s].enable => tbl'[s].enable
    BY <1>4, <1>5, <1>6, <2>1
  <2>3. HandlesSound'
    BY <1>3, <1>7, <2>2 DEF IInv, TypeOK, HandlesSound, HandleOk, Accepted, Deleting
  <2>4. rest = << >> => tbl'[op.slot].enable
    <3> SUFFICES ASSUME rest = << >> PROVE tbl'[op.slot].enable
      OBVIOUS
    <3>1. c = Write("enable", op.slot, 0)
      BY <1>1, <1>2, <1>9 DEF IInv, CallOk
    <3>2. c.kind = "enable" /\ c.at = op.slot
      BY <3>1 DEF Write
    <3> QED
      BY <3>2, <1>1, <1>5, <1>6
  <2>5. /\ \A k \in 1 .. Len(rest) : rest[k].kind \notin {"disable", "proto"}
        /\ rest # << >> => rest[Len(rest)] = Write("enable", op.slot, 0)
    BY <1>1, <1>2, <1>9 DEF IInv, CallOk
  <2>6. CallOk'
    BY <1>1, <1>3, <1>7, <1>9, <2>2, <2>4, <2>5 DEF IInv, CallOk, Idle
  <2> QED
    BY <1>8, <2>3, <2>6 DEF IInv
<1>10. CASE op.pc = "del"
  <2>1. c.kind \in {"disable", "proto"} => c.at = op.slot
    BY <1>2, <1>10 DEF IInv, CallOk
  <2>2. \A s \in Slot \ {op.slot} : /\ tbl'[s].conn = tbl[s].conn
                                    /\ tbl'[s].proto = tbl[s].proto
                                    /\ tbl[s].enable => tbl'[s].enable
    BY <1>4, <1>5, <1>6, <2>1
  <2>3. \A h \in Handle : ~Deleting(h) => ruleId[h] # op.slot
    BY <1>10 DEF IInv, CallOk, HandlesSound, HandleOk, Accepted, Deleting
  <2>4. HandlesSound'
    BY <1>3, <1>7, <2>2, <2>3 DEF IInv, TypeOK, HandlesSound, HandleOk, Accepted, Deleting
  <2>5. \A k \in 1 .. Len(rest) : rest[k].kind \in {"disable", "proto"} => rest[k].at = op.slot
    BY <1>2, <1>10 DEF IInv, CallOk
  <2>6. CallOk'
    BY <1>3, <1>7, <1>10, <2>5 DEF IInv, CallOk, Idle
  <2> QED
    BY <1>8, <2>4, <2>6 DEF IInv
<1>11. CASE op.pc = "idle"
  BY <1>1, <1>11 DEF IInv, CallOk, Idle
<1> QED
  BY <1>1, <1>9, <1>10, <1>11

LEMMA AddDmaFailsIInv == IInv /\ AddDmaFails => IInv'
<1> SUFFICES ASSUME IInv, AddDmaFails PROVE IInv'
  OBVIOUS
<1> DEFINE rest == Tail(op.cmds)
<1>1. /\ op.cmds \in Seq(Cmd) /\ op.cmds # << >> /\ op.pc = "add" /\ op.slot \in Slot
      /\ UNCHANGED <<valid, tbl, idx, meta, ruleId>>
  BY DEF IInv, TypeOK, Op, AddDmaFails
<1>2. CASE op' = IdleOp /\ ret' = "eio"
  <2>1. IdleOp \in Op
    BY SlotFacts DEF IdleOp, Op
  <2> QED
    BY <1>1, <1>2, <2>1
    DEF IInv, TypeOK, HandlesSound, HandleOk, Accepted, Deleting, CallOk, IdleOp, Idle
<1>3. CASE /\ Head(op.cmds).kind \in {"next", "inext"}
           /\ op' = [op EXCEPT !.cmds = Tail(@)]
           /\ ret' = ret
  <2>1. /\ rest \in Seq(Cmd)
        /\ \A k \in 1 .. Len(rest) : k + 1 \in 1 .. Len(op.cmds) /\ rest[k] = op.cmds[k + 1]
        /\ rest # << >> => rest[Len(rest)] = op.cmds[Len(op.cmds)]
        /\ rest = << >> => Head(op.cmds) = op.cmds[Len(op.cmds)]
    BY <1>1, HeadAndTail
  <2>2. op' = [op EXCEPT !.cmds = rest]
    BY <1>3
  <2>3. op.cmds[Len(op.cmds)].kind = "enable"
    BY <1>1 DEF IInv, CallOk, Write
  <2>4. rest # << >>
    BY <2>1, <2>3, <1>3
  <2> HIDE DEF rest
  <2>5. op' \in Op /\ op'.pc = op.pc /\ op'.slot = op.slot /\ op'.hdl = op.hdl /\ op'.cmds = rest
    BY <2>1, <2>2 DEF IInv, TypeOK, Op
  <2>6. TypeOK'
    BY <1>1, <1>3, <2>5 DEF IInv, TypeOK
  <2>7. HandlesSound'
    BY <1>1, <2>5 DEF IInv, HandlesSound, HandleOk, Accepted, Deleting
  <2>8. /\ \A k \in 1 .. Len(rest) : rest[k].kind \notin {"disable", "proto"}
        /\ rest[Len(rest)] = Write("enable", op.slot, 0)
    BY <1>1, <2>1, <2>4 DEF IInv, CallOk
  <2>9. CallOk'
    BY <1>1, <2>4, <2>5, <2>8 DEF IInv, CallOk, Idle
  <2> QED
    BY <2>6, <2>7, <2>9 DEF IInv
<1> QED
  BY <1>2, <1>3 DEF AddDmaFails

\* The first free handle is one that ipa_nati_parse_ipv4_rule_hdl accepts: the
\* handles below the last one are more than the entries a rule can be in.
LEMMA FreeHandleIsParsed ==
    ASSUME TypeOK, HandlesSound, NEW h \in Handle,
           \A g \in Handle : g < h => ruleId[g] # 0
    PROVE  h < N + E
<1> SUFFICES ASSUME ~(h < N + E) PROVE FALSE
  OBVIOUS
<1> DEFINE S == 1 .. N + E - 1
           T == Slot \ {0, N}
           f == [g \in S |-> ruleId[g]]
<1>1. /\ N \in Nat /\ E \in Nat /\ N > 1 /\ E > 0
      /\ h = N + E /\ S \subseteq Handle /\ \A g \in S : g < h
  BY SizesAreNatural DEF Handle
<1>2. \A g \in S : /\ ruleId[g] \in T
                    /\ \A k \in S : ruleId[k] = ruleId[g] => k = g
  <2> TAKE g \in S
  <2>1. g \in Handle /\ ruleId[g] # 0 /\ ruleId[g] \in Slot
    BY <1>1 DEF TypeOK
  <2>2. Accepted(g) /\ \A k \in Handle : ruleId[k] = ruleId[g] => k = g
    BY <2>1 DEF HandlesSound, HandleOk
  <2> QED
    BY <1>1, <2>1, <2>2, SlotFacts DEF Accepted
<1>3. IsFiniteSet(S) /\ Cardinality(S) = N + E - 1
  BY <1>1, FS_Interval
<1>4. IsFiniteSet(T) /\ Cardinality(T) = N + E - 2
  <2>1. IsFiniteSet(0 .. N + E - 1) /\ Cardinality(0 .. N + E - 1) = N + E
    BY <1>1, FS_Interval
  <2>2. IsFiniteSet(Slot) /\ Cardinality(Slot) = N + E
    BY <2>1 DEF Slot
  <2>3. 0 \in Slot /\ N \in Slot \ {0}
    BY <1>1 DEF Slot
  <2>4. IsFiniteSet(Slot \ {0}) /\ Cardinality(Slot \ {0}) = N + E - 1
    BY <1>1, <2>2, <2>3, FS_RemoveElement
  <2>5. /\ IsFiniteSet((Slot \ {0}) \ {N})
        /\ Cardinality((Slot \ {0}) \ {N}) = Cardinality(Slot \ {0}) - 1
    BY <2>3, <2>4, FS_RemoveElement
  <2>6. (Slot \ {0}) \ {N} = T
    OBVIOUS
  <2> QED
    BY <1>1, <2>4, <2>5, <2>6
<1>5. f \in [S -> T]
  BY <1>2
<1>6. Cardinality(T) < Cardinality(S)
  BY <1>1, <1>3, <1>4
<1> HIDE DEF S, T, f
<1>7. PICK x \in S, y \in S : x # y /\ f[x] = f[y]
  BY <1>3, <1>4, <1>5, <1>6, FS_PigeonHole
<1>8. ruleId[x] = ruleId[y]
  BY <1>7 DEF f
<1> QED
  BY <1>2, <1>7, <1>8

LEMMA AddDoneIInv == IInv /\ AddDone => IInv'
<1> SUFFICES ASSUME IInv, AddDone PROVE IInv'
  OBVIOUS
<1>1. /\ op.pc = "add" /\ op.cmds = << >> /\ op' = IdleOp
      /\ UNCHANGED <<valid, tbl, idx, meta>> /\ op.slot \in Slot
  BY DEF IInv, TypeOK, Op, AddDone
<1>2. IdleOp \in Op
  BY SlotFacts DEF IdleOp, Op
<1>3. CallOk'
  BY <1>1 DEF CallOk, IdleOp, Idle
<1>4. CASE ret' = "einval" /\ UNCHANGED ruleId
  BY <1>1, <1>2, <1>3, <1>4 DEF IInv, TypeOK, HandlesSound, HandleOk, Accepted, Deleting
<1>5. CASE /\ ~(\A h \in Handle : ruleId[h] # 0)
           /\ ret' = "ok"
           /\ ruleId' = [ruleId EXCEPT ![FirstFreeHandle] = op.slot]
  <2> DEFINE h == FirstFreeHandle
  <2>1. /\ h \in Handle /\ ruleId[h] = 0
        /\ \A g \in Handle : g < h => ruleId[g] # 0
    <3> DEFINE free == {g \in Handle : ruleId[g] = 0}
    <3>1. free # {} /\ free \in SUBSET Nat
      BY <1>5 DEF Handle
    <3>2. Least(free) \in free /\ \A g \in free : Least(free) <= g
      BY <3>1, LeastIsElement
    <3>3. \A g \in Handle : g < Least(free) => ruleId[g] # 0
      BY <3>2 DEF Handle
    <3> QED
      BY <3>2, <3>3 DEF FirstFreeHandle
  <2>9. h < N + E
    BY <2>1, FreeHandleIsParsed DEF IInv
  <2> HIDE DEF h
  <2>2. /\ ruleId' \in [Handle -> Slot]
        /\ \A g \in Handle : ruleId'[g] = IF g = h THEN op.slot ELSE ruleId[g]
    BY <1>1, <1>5, <2>1 DEF IInv, TypeOK, h
  <2>3. TypeOK'
    BY <1>1, <1>2, <1>5, <2>2 DEF IInv, TypeOK
  <2>4. /\ \A g \in Handle : ruleId[g] # op.slot
        /\ tbl[op.slot].enable /\ tbl[op.slot].proto = "valid" /\ tbl[op.slot].conn \in Conn
        /\ Entry(op.slot) # 0
    BY <1>1 DEF IInv, CallOk
  <2>5. HandlesSound'
    BY <1>1, <2>2, <2>4, <2>9 DEF IInv, HandlesSound, HandleOk, Accepted, Deleting
  <2> QED
    BY <2>3, <2>5, <1>3 DEF IInv
<1> QED
  BY <1>4, <1>5 DEF AddDone

\* The rules that the end of a deletion leaves: of any rule but the deleted
\* one, a valid one keeps its connection, and stays enabled.
LEMMA DelDoneRules ==
    ASSUME IInv, DelDone
    PROVE  /\ tbl' \in [Slot -> Rule]
           /\ \A s \in Slot \ {op.slot} :
                 tbl[s].proto = "valid" =>
                     /\ tbl'[s].conn = tbl[s].conn
                     /\ tbl'[s].proto = "valid"
                     /\ tbl[s].enable => tbl'[s].enable
<1> DEFINE s == op.slot
           i == op.islot
           n == tbl[s].next
           j == idx[i].ent
           isHead == s < N /\ n # 0
           after == IF s >= N /\ n # 0
                    THEN [tbl EXCEPT ![n].prev = tbl[s].prev]
                    ELSE tbl
           reset == IF isHead THEN after ELSE [after EXCEPT ![s] = ZeroRule]
           moved == [reset EXCEPT ![j].indx = i]
           Keeps(t) == /\ t \in [Slot -> Rule]
                       /\ \A k \in Slot \ {s} : /\ t[k].conn = tbl[k].conn
                                               /\ t[k].proto = tbl[k].proto
                                               /\ t[k].enable = tbl[k].enable
<1>1. tbl \in [Slot -> Rule] /\ s \in Slot /\ i \in Slot /\ idx \in [Slot -> Index]
  BY DEF IInv, TypeOK, Op
<1>2. tbl[s] \in Rule /\ idx[i] \in Index /\ ZeroRule \in Rule
  BY <1>1, SlotFacts DEF ZeroRule, Rule
<1>3. n \in Slot /\ j \in Slot /\ tbl[s].prev \in Slot
  BY <1>2 DEF Rule, Index
<1>4. tbl' = DropDeadHeads(moved) \/ tbl' = DropDeadHeads(reset)
  BY DEF DelDone
<1> HIDE DEF s, i, n, j
<1>5. Keeps(after)
  <2>1. tbl[n] \in Rule
    BY <1>1, <1>3
  <2>2. [tbl[n] EXCEPT !.prev = tbl[s].prev] \in Rule
    BY <1>3, <2>1 DEF Rule
  <2> QED
    BY <1>1, <1>3, <2>1, <2>2 DEF Rule
<1> HIDE DEF after
<1>6. Keeps(reset)
  BY <1>1, <1>2, <1>5
<1> HIDE DEF reset
<1>7. Keeps(moved)
  <2>1. reset[j] \in Rule
    BY <1>3, <1>6
  <2>2. [reset[j] EXCEPT !.indx = i] \in Rule
    BY <1>1, <2>1 DEF Rule
  <2> QED
    BY <1>1, <1>3, <1>6, <2>1, <2>2 DEF Rule
<1> HIDE DEF moved
<1>8. ASSUME NEW t, Keeps(t), tbl' = DropDeadHeads(t)
      PROVE  /\ tbl' \in [Slot -> Rule]
             /\ \A k \in Slot \ {s} :
                   tbl[k].proto = "valid" =>
                       /\ tbl'[k].conn = tbl[k].conn
                       /\ tbl'[k].proto = "valid"
                       /\ tbl[k].enable => tbl'[k].enable
  BY <1>2, <1>8 DEF DropDeadHeads
<1>9. QED
  BY <1>4, <1>6, <1>7, <1>8 DEF s

LEMMA DelDoneIInv == IInv /\ DelDone => IInv'
<1> SUFFICES ASSUME IInv, DelDone PROVE IInv'
  OBVIOUS
<1> DEFINE i == op.islot
           m == op.inext
<1>1. /\ op.pc = "del" /\ op' = IdleOp /\ ret' = "ok" /\ UNCHANGED valid
      /\ ruleId' = [ruleId EXCEPT ![op.hdl] = 0]
      /\ i \in Slot /\ m \in Slot /\ op.slot \in Slot
  BY DEF IInv, TypeOK, Op, DelDone
<1>2. IdleOp \in Op /\ ZeroIndex \in Index
  BY SlotFacts DEF IdleOp, Op, ZeroIndex, Index
<1>3. /\ op.hdl \in Handle /\ ruleId[op.hdl] = op.slot
      /\ ruleId' \in [Handle -> Slot]
      /\ \A h \in Handle : ruleId'[h] = IF h = op.hdl THEN 0 ELSE ruleId[h]
  BY <1>1, SlotFacts DEF IInv, TypeOK, CallOk
<1>4. idx' \in [Slot -> Index] /\ meta' \in [Slot -> Slot]
  <2>1. \/ /\ idx' = [idx EXCEPT ![m] = ZeroIndex]
           /\ meta' = IF idx[m].next # 0
                      THEN [meta EXCEPT ![idx[m].next] = i] ELSE meta
        \/ /\ idx' = [idx EXCEPT ![i] = ZeroIndex]
           /\ meta' = IF i >= N /\ idx[i].next # 0
                      THEN [meta EXCEPT ![idx[i].next] = meta[i], ![i] = 0]
                      ELSE meta
    BY DEF DelDone
  <2>2. idx \in [Slot -> Index] /\ meta \in [Slot -> Slot] /\ 0 \in Slot
    BY SlotFacts DEF IInv, TypeOK
  <2>3. meta[i] \in Slot
    BY <1>1, <2>2
  <2> HIDE DEF i, m
  <2> QED
    BY <1>1, <1>2, <2>1, <2>2, <2>3
<1>5. TypeOK'
  BY <1>1, <1>2, <1>3, <1>4, DelDoneRules DEF IInv, TypeOK
<1>6. ASSUME NEW h \in Handle, ruleId'[h] # 0
      PROVE  /\ ruleId'[h] = ruleId[h] /\ h # op.hdl
             /\ tbl'[ruleId[h]].enable /\ tbl'[ruleId[h]].proto = "valid"
             /\ tbl'[ruleId[h]].conn \in Conn
             /\ Accepted(h)
  <2>1. h # op.hdl /\ ruleId'[h] = ruleId[h] /\ ruleId[h] # 0
    BY <1>3, <1>6
  <2>2. /\ tbl[ruleId[h]].enable /\ tbl[ruleId[h]].proto = "valid"
        /\ tbl[ruleId[h]].conn \in Conn /\ ruleId[h] # op.slot /\ ruleId[h] \in Slot
        /\ Accepted(h)
    BY <1>3, <2>1 DEF IInv, TypeOK, HandlesSound, HandleOk, Accepted, Deleting
  <2> QED
    BY <2>1, <2>2, DelDoneRules
<1>7. HandlesSound'
  BY <1>3, <1>6 DEF IInv, HandlesSound, HandleOk, Accepted
<1>8. CallOk'
  BY <1>1 DEF CallOk, IdleOp, Idle
<1> QED
  BY <1>5, <1>7, <1>8 DEF IInv

LEMMA NextIInv == IInv /\ [Next]_vars => IInv'
<1> SUFFICES ASSUME IInv, [Next]_vars PROVE IInv'
  OBVIOUS
<1>1. CASE AddTable
  BY <1>1, AddTableIInv
<1>2. CASE DelTable
  BY <1>2, DelTableIInv
<1>3. CASE \E c \in Conn : AddRule(c)
  BY <1>3, AddRuleIInv
<1>4. CASE \E h \in Handle : DelRule(h)
  BY <1>4, DelRuleIInv
<1>5. CASE DoWrite
  BY <1>5, DoWriteIInv
<1>6. CASE AddDmaFails
  BY <1>6, AddDmaFailsIInv
<1>7. CASE AddDone
  BY <1>7, AddDoneIInv
<1>8. CASE DelDone
  BY <1>8, DelDoneIInv
<1>9. CASE UNCHANGED vars
  BY <1>9 DEF vars, IInv, TypeOK, HandlesSound, HandleOk, Accepted, Deleting, CallOk, Idle
<1> QED
  BY <1>1, <1>2, <1>3, <1>4, <1>5, <1>6, <1>7, <1>8, <1>9 DEF Next

\* The driver's tables and the call in progress always have their types: every
\* index it computes, stores or patches is an entry of the tables.
THEOREM TypeCorrect == Spec => []TypeOK
<1>1. IInv => TypeOK
  BY DEF IInv
<1> QED
  BY <1>1, InitIInv, NextIInv, PTL DEF Spec

\* Two handles never name the same rule, and a handle the client holds is one
\* that can be parsed and names an enabled rule of a connection, whatever DMA
\* commands fail.  That the last handle of a full table can be parsed is a
\* counting argument: entry 0 of either table never holds a rule.
THEOREM HandlesAreSound == Spec => []HandlesSound
<1>1. IInv => HandlesSound
  BY DEF IInv
<1> QED
  BY <1>1, InitIInv, NextIInv, PTL DEF Spec

\* A call never disables, invalidates or overwrites a rule of another handle.
THEOREM CallsAreConfined == Spec => []CallOk
<1>1. IInv => CallOk
  BY DEF IInv
<1> QED
  BY <1>1, InitIInv, NextIInv, PTL DEF Spec

-----------------------------------------------------------------------------
(* A handle keeps its meaning.                                             *)

\* The property of one step.
KeepsMeaning ==
    \A h \in Handle :
        (ruleId[h] # 0 /\ ruleId'[h] # 0) =>
            /\ ruleId'[h] = ruleId[h]
            /\ tbl'[ruleId[h]].conn = tbl[ruleId[h]].conn

LEMMA NextKeepsMeaning == IInv /\ [Next]_vars => KeepsMeaning
<1> SUFFICES ASSUME IInv, [Next]_vars, NEW h \in Handle, ruleId[h] # 0, ruleId'[h] # 0
             PROVE  ruleId'[h] = ruleId[h] /\ tbl'[ruleId[h]].conn = tbl[ruleId[h]].conn
  BY DEF KeepsMeaning
<1> DEFINE s == ruleId[h]
<1>1. s \in Slot /\ tbl \in [Slot -> Rule] /\ op \in Op
  BY DEF IInv, TypeOK
<1>2. CASE UNCHANGED <<tbl, ruleId>>
  BY <1>2
<1>3. CASE DelTable
  BY <1>3 DEF DelTable
<1>4. ASSUME NEW c \in Conn, AddRule(c)
      PROVE  ruleId'[h] = ruleId[h] /\ tbl'[s].conn = tbl[s].conn
  <2>1. tbl[s].enable
    BY <1>4 DEF IInv, HandlesSound, HandleOk, Accepted, Deleting, AddRule, Idle
  <2>2. TblPlace(c).at # 0 => TblPlace(c).at # s
    BY <2>1, PlaceFacts DEF IInv
  <2>3. ruleId' = ruleId
    BY <1>4 DEF AddRule
  <2>4. tbl'[s] = tbl[s]
    BY <1>1, <1>4, <2>2 DEF AddRule
  <2> QED
    BY <2>3, <2>4
<1>5. CASE DoWrite
  <2> DEFINE c == Head(op.cmds)
  <2>1. /\ ruleId' = ruleId /\ op.cmds # << >>
        /\ tbl' = [tbl EXCEPT ![c.at] = WrittenRule(c, tbl[c.at])]
    BY <1>5 DEF DoWrite
  <2>2. op.cmds \in Seq(Cmd)
    BY <1>1 DEF Op
  <2>3. c \in Cmd
    BY <2>1, <2>2, HeadAndTail
  <2> HIDE DEF c
  <2>4. c.at \in Slot
    BY <2>3 DEF Cmd
  <2>5. tbl[c.at] \in Rule
    BY <1>1, <2>4
  <2>6. WrittenRule(c, tbl[c.at]).conn = tbl[c.at].conn
    BY <2>5 DEF WrittenRule, Rule
  <2> QED
    BY <1>1, <2>1, <2>4, <2>6
<1>6. CASE AddDone
  <2>1. ruleId' = ruleId \/ ruleId' = [ruleId EXCEPT ![FirstFreeHandle] = op.slot]
    BY <1>6 DEF AddDone
  <2>2. ruleId'[h] # ruleId[h] => ruleId[h] = 0
    <3> DEFINE free == {g \in Handle : ruleId[g] = 0}
    <3>1. SUFFICES ASSUME ruleId'[h] # ruleId[h] PROVE FALSE
      OBVIOUS
    <3>2. h = FirstFreeHandle /\ ~(\A g \in Handle : ruleId[g] # 0)
      BY <1>6, <3>1 DEF AddDone, IInv, TypeOK
    <3>3. free # {} /\ free \in SUBSET Nat
      BY <3>2 DEF Handle
    <3>4. Least(free) \in free
      BY <3>3, LeastIsElement
    <3> QED
      BY <3>2, <3>4 DEF FirstFreeHandle
  <2> QED
    BY <1>6, <2>2 DEF AddDone
<1>7. CASE DelDone
  <2>1. /\ op.hdl \in Handle /\ ruleId[op.hdl] = op.slot
        /\ ruleId' = [ruleId EXCEPT ![op.hdl] = 0]
    BY <1>7 DEF IInv, CallOk, DelDone
  <2>2. h # op.hdl /\ ruleId'[h] = ruleId[h]
    BY <2>1 DEF IInv, TypeOK
  <2>3. s # op.slot /\ tbl[s].proto = "valid"
    BY <1>7, <2>1, <2>2 DEF IInv, HandlesSound, HandleOk, Accepted, Deleting
  <2> QED
    BY <1>1, <1>7, <2>2, <2>3, DelDoneRules
<1> QED
  BY <1>2, <1>3, <1>4, <1>5, <1>6, <1>7
  DEF Next, vars, AddTable, DelRule, AddDmaFails

\* From the insertion to the deletion a handle stands for one connection: no
\* call gives it to another rule or replaces the rule under it.
THEOREM HandlesMeaningKept == Spec => HandlesKeepMeaning
<1>1. IInv /\ [Next]_vars => [KeepsMeaning]_vars
  BY NextKeepsMeaning
<1> QED
  BY <1>1, InitIInv, NextIInv, PTL DEF Spec, HandlesKeepMeaning, KeepsMeaning
=============================================================================
