------------------------------- MODULE IpaNat -------------------------------
(***************************************************************************)
(* The IPA NAT driver, ipanat/src/ipa_nat_drvi.c: one IPv4 NAT table in    *)
(* memory shared with the IPA hardware.                                    *)
(*                                                                         *)
(* The rule table is a hash table over the target side of a connection:    *)
(* table_entries base entries, each the head of a chain that continues in  *)
(* the expansion entries.  The index table has the same shape, is hashed   *)
(* over the private side, and its entries point to rules.  The hardware    *)
(* walks a rule chain for inbound packets and an index chain for outbound  *)
(* ones, at any time: software therefore changes a field the hardware may  *)
(* be reading by a DMA command, and the order of these commands matters.   *)
(*                                                                         *)
(* An operation is one call of ipa_nat_add_ipv4_rule or                    *)
(* ipa_nat_del_ipv4_rule.  Its first step decides everything it will write *)
(* (op.cmds); each later step performs one write, so that the hardware can *)
(* look at the table between any two of them.  Entry 0 of every table is   *)
(* unused and 0 is the null index, as in the code.                         *)
(***************************************************************************)
EXTENDS Naturals, Sequences, FiniteSets

CONSTANTS Conn,        \* the connections (public/private/target tuples)
          NoConn,      \* the tuple of an entry that was reset to zero
          N,           \* table_entries: a power of two
          E,           \* expn_table_entries
          DstHash,     \* dst_hash() of each connection
          SrcHash,     \* src_hash() of each connection
          DmaMayFail   \* TRUE: an IPA_IOC_NAT_DMA ioctl may return an error

ASSUME SizesAreNatural == /\ N \in Nat /\ N > 1
                          /\ E \in Nat /\ E > 0
ASSUME NoConnIsNoConn == NoConn \notin Conn
\* dst_hash() and src_hash() map a hash of zero to N - 1 (module NatArith).
ASSUME HashesMissEntryZero == /\ DstHash \in [Conn -> 1 .. N - 1]
                              /\ SrcHash \in [Conn -> 1 .. N - 1]
ASSUME DmaMayFailIsBoolean == DmaMayFail \in BOOLEAN

(* A definition marked "mistake" is a plausible error in the one after it:  *)
(* the project checks that each property notices one of them.               *)

\* An absolute index: below N a base entry, from N on expansion entry s - N.
Slot == 0 .. N + E - 1
Expn == N + 1 .. N + E - 1
Handle == 1 .. N + E

Rule == [conn : Conn \cup {NoConn}, enable : BOOLEAN,
         proto : {"zero", "valid", "invalid"},
         next : Slot, prev : Slot, indx : Slot]
Index == [ent : Slot, next : Slot]

ZeroRule == [conn |-> NoConn, enable |-> FALSE, proto |-> "zero",
             next |-> 0, prev |-> 0, indx |-> 0]
ZeroIndex == [ent |-> 0, next |-> 0]

\* One write to the shared tables: a DMA command, or (entry) the memcpy of a
\* whole index entry.
Cmd == [kind : {"next", "enable", "disable", "proto", "entry", "ent", "inext"},
        at : Slot, val : Slot]

Op == [pc : {"idle", "add", "del"}, conn : Conn \cup {NoConn}, slot : Slot,
       islot : Slot, inext : Slot, hdl : Handle \cup {0}, cmds : Seq(Cmd)]

IdleOp == [pc |-> "idle", conn |-> NoConn, slot |-> 0, islot |-> 0,
           inext |-> 0, hdl |-> 0, cmds |-> << >>]
AddOp(c, s, i, cmds) == [pc |-> "add", conn |-> c, slot |-> s, islot |-> i,
                         inext |-> 0, hdl |-> 0, cmds |-> cmds]
DelOp(c, s, i, n, h, cmds) == [pc |-> "del", conn |-> c, slot |-> s, islot |-> i,
                               inext |-> n, hdl |-> h, cmds |-> cmds]

VARIABLES valid,     \* ip4_tbl[0].valid
          tbl,       \* base and expansion rules
          idx,       \* base and expansion index entries
          meta,      \* index_expn_table_meta[].prev_index
          ruleId,    \* rule_id_array[h - 1]: the rule of handle h
          op,        \* the call in progress
          ret        \* what the last call returned

vars == <<valid, tbl, idx, meta, ruleId, op, ret>>

TypeOK == /\ valid \in BOOLEAN
          /\ tbl \in [Slot -> Rule]
          /\ idx \in [Slot -> Index]
          /\ meta \in [Slot -> Slot]
          /\ ruleId \in [Handle -> Slot]
          /\ op \in Op
          /\ ret \in {"ok", "einval", "full", "eio"}

-----------------------------------------------------------------------------
(* Chains.  w[k] is the entry after k hops: at most every usable expansion  *)
(* entry follows a base entry.  Entry 0 is never linked, so a walk that     *)
(* ends stays at 0.                                                         *)

Chain(succ, first) ==
    LET w[k \in 0 .. E] == IF k = 0 THEN first ELSE succ[w[k - 1]]
    IN  {w[k] : k \in 0 .. E} \cap (Slot \ {0})

RuleNext == [s \in Slot |-> tbl[s].next]
IndexNext == [s \in Slot |-> idx[s].next]

\* The entry a walk ends at; 0 when it meets an entry that is its own successor
\* ("Prev index and next index should not be same").
LastOf(succ, first) ==
    LET last == {s \in Chain(succ, first) : succ[s] = 0}
    IN  IF last = {} THEN 0 ELSE CHOOSE s \in last : TRUE

Least(S) == CHOOSE s \in S : \A t \in S : s <= t

MiddleRulesUsed == {s \in Slot : tbl[s].enable /\ tbl[s].next # 0}    \* mistake
RulesUsed == {s \in Slot : tbl[s].enable}
IndexesUsed == {s \in Slot : idx[s].ent # 0}

\* The scan starts one entry too early: entry 0 of the expansion table.
FirstFreeFromZero(used) ==                  \* mistake
    LET all == N .. N + E - 1
    IN  IF all \subseteq used THEN 0 ELSE Least(all \ used)

\* The first free expansion entry, 0 when there is none.
FirstFree(used) == IF Expn \subseteq used THEN 0 ELSE Least(Expn \ used)

-----------------------------------------------------------------------------
(* Where a new rule goes: its entry and the entry that will point to it.    *)

TblPlace(c) ==
    LET head == DstHash[c]
        last == LastOf(RuleNext, head)
    IN  IF ~tbl[head].enable
        THEN [at |-> head, prev |-> 0]
        ELSE [at |-> IF last = 0 THEN 0 ELSE FirstFree(RulesUsed), prev |-> last]

IndexPlace(c) ==
    LET head == SrcHash[c]
        last == LastOf(IndexNext, head)
        free == FirstFree(IndexesUsed)
    IN  IF idx[head].ent = 0
        THEN [at |-> head, prev |-> 0]
        ELSE [at |-> IF last \in {0, free} THEN 0 ELSE free, prev |-> last]

Write(k, a, v) == [kind |-> k, at |-> a, val |-> v]

NoLink(k, place) == << >>                   \* mistake: the chain is not extended

\* Point prev to the new entry by DMA, when there is a previous entry.
Link(k, place) ==
    IF place.prev = 0 THEN << >> ELSE << Write(k, place.prev, place.at) >>

-----------------------------------------------------------------------------
(* Deletion: the writes that unlink rule s and its index entry i.  A rule   *)
(* or index entry is the only one or the head of its chain when it is a     *)
(* base entry, in the middle or last when it is an expansion entry.         *)

RuleCmd(s) ==
    IF s >= N
    THEN Write("next", tbl[s].prev, tbl[s].next)          \* MIDDLE, LAST
    ELSE IF tbl[s].next = 0
         THEN Write("disable", s, 0)                      \* ONLY_ONE
         ELSE Write("proto", s, 0)                        \* HEAD

SwappedIndexCmds(i) ==                      \* mistake: next is moved before ent
    LET n == idx[i].next
    IN  IF i >= N
        THEN << Write("inext", meta[i], n) >>
        ELSE IF n = 0
             THEN << Write("ent", i, 0) >>
             ELSE << Write("inext", i, idx[n].next), Write("ent", i, idx[n].ent) >>

IndexCmds(i) ==
    LET n == idx[i].next
    IN  IF i >= N
        THEN << Write("inext", meta[i], n) >>             \* MIDDLE, LAST
        ELSE IF n = 0
             THEN << Write("ent", i, 0) >>                \* ONLY_ONE
             ELSE << Write("ent", i, idx[n].ent),         \* HEAD: the next
                     Write("inext", i, idx[n].next) >>    \* entry moves here

FarMovedIndex(i) ==                         \* mistake: the base size added twice
    IF i >= N THEN 0 ELSE idx[i].next + N

\* The index entry that a deletion moves into the base entry i, 0 when none.
MovedIndex(i) == IF i >= N THEN 0 ELSE idx[i].next

KeepDeadHeads(t) == t                       \* mistake: they are never freed

\* Base entries whose rule was deleted while their chain went on stay enabled
\* with an invalid protocol; they are freed once nothing follows them.
DropDeadHeads(t) ==
    [s \in Slot |-> IF s < N /\ t[s].proto = "invalid" /\ t[s].next = 0
                    THEN ZeroRule ELSE t[s]]

-----------------------------------------------------------------------------
Init == /\ valid = FALSE
        /\ tbl = [s \in Slot |-> ZeroRule]
        /\ idx = [s \in Slot |-> ZeroIndex]
        /\ meta = [s \in Slot |-> 0]
        /\ ruleId = [h \in Handle |-> 0]
        /\ op = IdleOp
        /\ ret = "ok"

Idle == op.pc = "idle"

\* ipa_nati_add_ipv4_tbl: map the table and clear it.
AddTable ==
    /\ Idle /\ ~valid
    /\ valid' = TRUE
    /\ ret' = "ok"
    /\ UNCHANGED <<tbl, idx, meta, ruleId, op>>

\* ipa_nati_del_ipv4_table: the kernel frees the table, software forgets it.
\* The next table is cleared before the hardware sees it, so is this one.
DelTable ==
    /\ Idle /\ valid
    /\ valid' = FALSE
    /\ tbl' = [s \in Slot |-> ZeroRule]
    /\ idx' = [s \in Slot |-> ZeroIndex]
    /\ meta' = [s \in Slot |-> 0]
    /\ ruleId' = [h \in Handle |-> 0]
    /\ ret' = "ok"
    /\ UNCHANGED op

\* The client holds a handle of c (NatApp never inserts a connection twice).
Held(c) == \E h \in Handle : ruleId[h] # 0 /\ tbl[ruleId[h]].conn = c

\* ipa_nati_add_ipv4_rule up to the memcpy of the disabled rule.
AddRule(c) ==
    LET t == TblPlace(c)
        i == IndexPlace(c)
    IN  /\ Idle /\ valid /\ ~Held(c)
        /\ IF t.at = 0 \/ i.at = 0
           THEN /\ ret' = "full"
                /\ UNCHANGED <<tbl, meta, op>>
           ELSE /\ tbl' = [tbl EXCEPT ![t.at] =
                             [conn |-> c, enable |-> FALSE, proto |-> "valid",
                              next |-> 0, prev |-> t.prev, indx |-> i.at]]
                /\ meta' = IF i.at >= N THEN [meta EXCEPT ![i.at] = i.prev] ELSE meta
                /\ op' = AddOp(c, t.at, i.at,
                               Link("next", t) \o << Write("entry", i.at, t.at) >>
                               \o Link("inext", i) \o << Write("enable", t.at, 0) >>)
                /\ ret' = ret
        /\ UNCHANGED <<valid, idx, ruleId>>

\* The number of a rule within its own table.
Entry(s) == IF s < N THEN s ELSE s - N

\* ipa_nati_parse_ipv4_rule_hdl finds a rule: it refuses the last of the handles
\* that ipa_nati_make_rule_hdl searches, and the number 0 in either table.
Accepted(h) == h < N + E /\ Entry(ruleId[h]) # 0

\* ipa_nati_del_ipv4_rule up to the DMA ioctl.
DelRule(h) ==
    LET s == ruleId[h]
        i == tbl[s].indx
    IN  /\ Idle
        /\ IF ~Accepted(h) \/ ~valid \/ ~tbl[s].enable
           THEN ret' = "einval" /\ UNCHANGED op
           ELSE \/ /\ op' = DelOp(tbl[s].conn, s, i, MovedIndex(i), h,
                                  IndexCmds(i) \o << RuleCmd(s) >>)
                   /\ ret' = ret
                \/ /\ DmaMayFail
                   /\ ret' = "einval"
                   /\ UNCHANGED op
        /\ UNCHANGED <<valid, tbl, idx, meta, ruleId>>

WrittenRule(c, r) ==
    CASE c.kind = "next"    -> [r EXCEPT !.next = c.val]
      [] c.kind = "enable"  -> [r EXCEPT !.enable = TRUE]
      [] c.kind = "disable" -> [r EXCEPT !.enable = FALSE]
      [] c.kind = "proto"   -> [r EXCEPT !.proto = "invalid"]
      [] OTHER              -> r

WrittenIndex(c, i) ==
    CASE c.kind = "entry" -> [ent |-> c.val, next |-> 0]
      [] c.kind = "ent"   -> [i EXCEPT !.ent = c.val]
      [] c.kind = "inext" -> [i EXCEPT !.next = c.val]
      [] OTHER            -> i

\* The next write of the call in progress reaches the tables.
DoWrite ==
    /\ op.cmds # << >>
    /\ LET c == Head(op.cmds)
       IN  /\ tbl' = [tbl EXCEPT ![c.at] = WrittenRule(c, @)]
           /\ idx' = [idx EXCEPT ![c.at] = WrittenIndex(c, @)]
    /\ op' = [op EXCEPT !.cmds = Tail(@)]
    /\ UNCHANGED <<valid, meta, ruleId, ret>>

\* A DMA ioctl of an insertion fails.  ipa_nati_write_next_index only logs it;
\* a failed enable ends the call with -EIO.
AddDmaFails ==
    /\ DmaMayFail /\ op.pc = "add" /\ op.cmds # << >>
    /\ \/ /\ Head(op.cmds).kind \in {"next", "inext"}
          /\ op' = [op EXCEPT !.cmds = Tail(@)]
          /\ ret' = ret
       \/ /\ Head(op.cmds).kind = "enable"
          /\ op' = IdleOp
          /\ ret' = "eio"
    /\ UNCHANGED <<valid, tbl, idx, meta, ruleId>>

FirstFreeHandle == Least({h \in Handle : ruleId[h] = 0})

AddDone ==
    /\ op.pc = "add" /\ op.cmds = << >>
    /\ IF \A h \in Handle : ruleId[h] # 0
       THEN ret' = "einval" /\ UNCHANGED ruleId
       ELSE ret' = "ok" /\ ruleId' = [ruleId EXCEPT ![FirstFreeHandle] = op.slot]
    /\ op' = IdleOp
    /\ UNCHANGED <<valid, tbl, idx, meta>>

\* The rest of ipa_nati_post_del_dma_cmd after the ioctl, then
\* ipa_nati_del_dead_ipv4_head_nodes and the release of the handle.  What it
\* writes is no longer reachable by the hardware.
DelDone ==
    /\ op.pc = "del" /\ op.cmds = << >>
    /\ LET s == op.slot
           i == op.islot
           m == op.inext
           isHead == s < N /\ tbl[s].next # 0
           after == IF s >= N /\ tbl[s].next # 0
                    THEN [tbl EXCEPT ![tbl[s].next].prev = tbl[s].prev]
                    ELSE tbl
           reset == IF isHead THEN after ELSE [after EXCEPT ![s] = ZeroRule]
       IN  IF m # 0
           THEN /\ tbl' = DropDeadHeads([reset EXCEPT ![idx[i].ent].indx = i])
                /\ meta' = IF idx[m].next # 0
                           THEN [meta EXCEPT ![idx[m].next] = i] ELSE meta
                /\ idx' = [idx EXCEPT ![m] = ZeroIndex]
           ELSE /\ tbl' = DropDeadHeads(reset)
                /\ meta' = IF i >= N /\ idx[i].next # 0
                           THEN [meta EXCEPT ![idx[i].next] = meta[i], ![i] = 0]
                           ELSE meta
                /\ idx' = [idx EXCEPT ![i] = ZeroIndex]
    /\ ruleId' = [ruleId EXCEPT ![op.hdl] = 0]
    /\ op' = IdleOp
    /\ ret' = "ok"
    /\ UNCHANGED valid

Next == \/ AddTable
        \/ DelTable
        \/ \E c \in Conn : AddRule(c)
        \/ \E h \in Handle : DelRule(h)
        \/ DoWrite
        \/ AddDmaFails
        \/ AddDone
        \/ DelDone

Spec == Init /\ [][Next]_vars

-----------------------------------------------------------------------------
(* What the hardware finds.                                                *)

Matches(s, c) == tbl[s].enable /\ tbl[s].proto = "valid" /\ tbl[s].conn = c

\* Inbound: the rules matched along the chain of the target-side hash.
Inbound(c) == {s \in Chain(RuleNext, DstHash[c]) : Matches(s, c)}

\* Outbound: the rules matched through the index chain of the private-side hash.
Outbound(c) ==
    {s \in {idx[i].ent : i \in Chain(IndexNext, SrcHash[c])} : Matches(s, c)}

Deleting(h) == op.pc = "del" /\ op.hdl = h

-----------------------------------------------------------------------------
(* Properties.                                                             *)

\* While other rules are inserted into and unlinked from its chains, a rule
\* whose handle is held stays visible to the hardware in both directions, and
\* no second rule answers for it: this is what the order of the DMA commands
\* (ReorderCmds, the disabled copy of a new rule) is for.  Between calls the
\* hardware translates no connection whose handle nobody holds.
HardwareSeesHeld ==
    /\ \A h \in Handle :
          ruleId[h] # 0 /\ ~Deleting(h) =>
              LET c == tbl[ruleId[h]].conn
              IN  Inbound(c) = {ruleId[h]} /\ Outbound(c) = {ruleId[h]}
    /\ Idle => \A c \in Conn : Inbound(c) \cup Outbound(c) # {} => Held(c)

\* Two handles never stand for the same rule, and a held handle is one that
\* ipa_nati_parse_ipv4_rule_hdl accepts (the encoder's search goes one handle
\* further than the parser's check, and a rule in entry 0 of the expansion table
\* would get a handle that can never be given back) and names an enabled rule.
HandleOk(h) ==
    ruleId[h] # 0 =>
        /\ Accepted(h)
        /\ \A g \in Handle : ruleId[g] = ruleId[h] => g = h
        /\ ~Deleting(h) => /\ tbl[ruleId[h]].enable
                           /\ tbl[ruleId[h]].proto = "valid"
                           /\ tbl[ruleId[h]].conn \in Conn
HandlesSound == \A h \in Handle : HandleOk(h)

\* The call in progress touches nobody else's rule: an insertion works on an
\* entry no handle names and enables it last, a deletion disables or invalidates
\* only the entry of its own handle.  With HandlesSound this is inductive.
CallOk ==
    /\ Idle => op.cmds = << >>
    /\ op.pc = "add" =>
         /\ Entry(op.slot) # 0
         /\ tbl[op.slot].conn \in Conn /\ tbl[op.slot].proto = "valid"
         /\ \A h \in Handle : ruleId[h] # op.slot
         /\ \A k \in 1 .. Len(op.cmds) : op.cmds[k].kind \notin {"disable", "proto"}
         /\ IF op.cmds = << >>
            THEN tbl[op.slot].enable
            ELSE op.cmds[Len(op.cmds)] = Write("enable", op.slot, 0)
    /\ op.pc = "del" =>
         /\ op.slot # 0 /\ op.hdl \in Handle /\ ruleId[op.hdl] = op.slot
         /\ \A k \in 1 .. Len(op.cmds) :
               op.cmds[k].kind \in {"disable", "proto"} => op.cmds[k].at = op.slot

\* Between calls the software fields agree with the links the hardware
\* follows: the predecessor kept in a rule (or in index_expn_table_meta) is
\* the entry that points to it, and a rule and its index entry name each
\* other.  Deletions patch three entries of each table to keep this.  When
\* every handle has been given back the tables are as they were created: no
\* entry is lost, whatever the order of the deletions.
LinksAgree ==
    Idle =>
        /\ \A s, t \in Slot \ {0} : tbl[s].next = t => tbl[t].prev = s
        /\ \A s, t \in Slot \ {0} : idx[s].next = t => meta[t] = s
        /\ \A s \in Slot : Matches(s, tbl[s].conn) => idx[tbl[s].indx].ent = s
        /\ \A i \in Slot : idx[i].ent # 0 => /\ tbl[idx[i].ent].indx = i
                                            /\ tbl[idx[i].ent].proto = "valid"
        /\ (\A h \in Handle : ruleId[h] = 0) =>
              tbl = [s \in Slot |-> ZeroRule] /\ idx = [s \in Slot |-> ZeroIndex]

\* A handle stands for one connection from the insertion to the deletion.
HandlesKeepMeaning ==
    [][\A h \in Handle :
          (ruleId[h] # 0 /\ ruleId'[h] # 0) =>
              /\ ruleId'[h] = ruleId[h]
              /\ tbl'[ruleId[h]].conn = tbl[ruleId[h]].conn]_vars

-----------------------------------------------------------------------------
(* The driver implements NatTable.                                         *)

Abs == INSTANCE NatTable WITH
           up      <- valid,
           owner   <- [h \in Handle |-> IF ruleId[h] = 0 THEN NoConn
                                        ELSE tbl[ruleId[h]].conn],
           pending <- IF op.pc = "add" /\ op.cmds = << >> THEN op.conn ELSE NoConn,
           xlate   <- {<<"in", c>> : c \in {d \in Conn : Inbound(d) # {}}}
                      \cup {<<"out", c>> : c \in {d \in Conn : Outbound(d) # {}}}

ImplementsNatTable == Abs!Spec
=============================================================================
