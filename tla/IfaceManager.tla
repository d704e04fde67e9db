---------------------------- MODULE IfaceManager ----------------------------
(***************************************************************************)
(* The event dispatcher and the life of the interface instances of ipacm:  *)
(* src/IPACM_EvtDispatcher.cpp, src/IPACM_IfaceManager.cpp and the event   *)
(* callbacks of IPACM_Lan, IPACM_Wlan and IPACM_Wan as far as they create  *)
(* and delete instances, in the Android build.                             *)
(*                                                                         *)
(* Netlink and driver threads post link events at any time.  The command-  *)
(* queue thread takes one event (EventQueue) and walks the list of         *)
(* registrations; a callback may append to that list or delete the nodes   *)
(* of its own object, also the node being visited, of which the walk keeps *)
(* a copy.  A LAN or WLAN instance that goes down closes in two steps, by  *)
(* an internal event to itself; a WAN instance deletes itself at once.     *)
(***************************************************************************)
EXTENDS Naturals, FiniteSets, Sequences

CONSTANTS Iface,       \* supported interfaces
          InitialCat,  \* their category in the configuration
          Obj,         \* memory for instances
          Manager,     \* the IPACM_IfaceManager
          NoIface,     \* events without data
          NoMessage,
          MaxPosted    \* bound: external events waiting at a time

ASSUME CategoriesAreKnown == InitialCat \in [Iface -> {"UNKNOWN_IF", "LAN_IF", "WAN_IF"}]
ASSUME NothingIsNoObj == Manager \notin Obj /\ NoIface \notin Iface
ASSUME BoundIsNatural == MaxPosted \in Nat

(* A definition marked "mistake" is a plausible error in the one after it.  *)

LinkEvent == {"LINK_UP", "LINK_DOWN", "USB_LINK_UP", "WLAN_AP_LINK_UP",
              "WLAN_STA_LINK_UP", "WLAN_LINK_DOWN"}
Msg(e, i) == [event |-> e, iface |-> i]
DeleteSelf == {Msg("LAN_DELETE_SELF", i) : i \in Iface}
Ssr == Msg("SSR_NOTICE", NoIface)
Sent == {Msg(e, i) : e \in LinkEvent, i \in Iface} \cup DeleteSelf \cup {Ssr}
ASSUME NothingIsNoMessage == NoMessage \notin Sent

Category == {"UNKNOWN_IF", "LAN_IF", "WLAN_IF", "WAN_IF"}

\* What an instance is: IPACM_Lan, IPACM_Wlan, or IPACM_Wan in sta mode or not.
Class == {"Lan", "Wlan", "WanSta", "Wan"}
Free == [iface |-> NoIface, class |-> "none", active |-> FALSE]
Instance == [iface : Iface, class : Class, active : BOOLEAN]

VARIABLES internal, external, handled,  \* the event queue
          list,  \* registrations in the dispatcher, oldest first
          cur,   \* the registration ProcessEvt visits next, or << >>
          obj,   \* iface_instances, and the memory not in use
          cat,   \* iface_table[].if_cat
          asked  \* what the events posted so far ask each interface to be

queueVars == <<internal, external, handled>>
lifeVars == <<list, obj, cat>>
vars == <<queueVars, lifeVars, cur, asked>>

Q == INSTANCE EventQueue WITH
         Message <- Sent, Internal <- DeleteSelf \cup {Ssr}

\* registr calls in create_iface_instance, in their order.
DeleteSelfFirst(class) ==                   \* mistake
    CASE class = "Lan" -> <<"ADDR_ADD", "LAN_DELETE_SELF", "LINK_DOWN">>
      [] class = "Wlan" -> <<"LAN_DELETE_SELF", "ADDR_ADD", "SSR_NOTICE", "WLAN_LINK_DOWN">>
      [] class = "WanSta" -> <<"ADDR_ADD", "WLAN_LINK_DOWN">>
      [] class = "Wan" -> <<"ADDR_ADD", "LINK_DOWN">>
Registered(class) ==
    CASE class = "Lan" -> <<"ADDR_ADD", "LINK_DOWN", "LAN_DELETE_SELF">>
      [] class = "Wlan" -> <<"ADDR_ADD", "SSR_NOTICE", "WLAN_LINK_DOWN", "LAN_DELETE_SELF">>
      [] class = "WanSta" -> <<"ADDR_ADD", "WLAN_LINK_DOWN">>
      [] class = "Wan" -> <<"ADDR_ADD", "LINK_DOWN">>
NodesOf(o, class) ==
    [k \in 1 .. Len(Registered(class)) |-> <<Registered(class)[k], o>>]
ManagerNodes == <<<<"LINK_UP", Manager>>, <<"WLAN_AP_LINK_UP", Manager>>,
                  <<"WLAN_STA_LINK_UP", Manager>>, <<"USB_LINK_UP", Manager>>>>

Live == {o \in Obj : obj[o] # Free}
Of(i) == {o \in Live : obj[o].iface = i}

LifeTypeOK ==
    /\ Q!QueueTypeOK
    /\ \A k \in 1 .. Len(list) :
          list[k] \in (LinkEvent \cup {"ADDR_ADD", "SSR_NOTICE", "LAN_DELETE_SELF"})
                      \X (Obj \cup {Manager})
    /\ obj \in [Obj -> Instance \cup {Free}]
    /\ cat \in [Iface -> Category]
    /\ asked \in [Iface -> Class \cup {"none"}]
    /\ handled = NoMessage => cur = << >>

Init == /\ Q!Init
        /\ list = ManagerNodes
        /\ cur = << >>
        /\ obj = [o \in Obj |-> Free]
        /\ cat = InitialCat
        /\ asked = [i \in Iface |-> "none"]

-----------------------------------------------------------------------------
(* Creating and deleting instances.                                        *)

SearchInstance(i) == Of(i) # {}

\* create_iface_instance: the class follows the category and is_sta_mode.
ClassFor(c, sta) == CASE c = "LAN_IF" -> "Lan"
                      [] c = "WLAN_IF" -> "Wlan"
                      [] c = "WAN_IF" -> IF sta THEN "WanSta" ELSE "Wan"
                      [] OTHER -> "none"

Create(i, c, sta) ==
    IF SearchInstance(i) \/ ClassFor(c, sta) = "none"
    THEN UNCHANGED <<list, obj>>
    ELSE \E o \in Obj \ Live :
           /\ obj' = [obj EXCEPT ![o] = [iface |-> i, class |-> ClassFor(c, sta),
                                         active |-> TRUE]]
           /\ list' = list \o NodesOf(o, ClassFor(c, sta))

\* The destructors: deregistr from the dispatcher and from the manager.  What an
\* instance registered stands together (ListMatchesInstances).
Mine(o) == {k \in 1 .. Len(list) : list[k][2] = o}
Delete(o) ==
    /\ LET mine == Mine(o)
       IN  \E b \in mine :
              /\ mine = b .. b + Cardinality(mine) - 1
              /\ list' = SubSeq(list, 1, b - 1) \o SubSeq(list, b + Cardinality(mine), Len(list))
    /\ obj' = [obj EXCEPT ![o] = Free]

-----------------------------------------------------------------------------
(* Callbacks.                                                              *)

\* IPACM_IfaceManager::event_callback.
ManagerCallback(m) ==
    LET i == m.iface
    IN  /\ CASE m.event = "LINK_UP" ->
                  /\ IF cat[i] = "WAN_IF" THEN Create(i, cat[i], FALSE)
                                          ELSE UNCHANGED <<list, obj>>
                  /\ UNCHANGED cat
             [] m.event = "USB_LINK_UP" ->
                  /\ Create(i, cat[i], FALSE)
                  /\ UNCHANGED cat
             [] m.event \in {"WLAN_AP_LINK_UP", "WLAN_STA_LINK_UP"} ->
                  LET sta == m.event = "WLAN_STA_LINK_UP"
                      c == IF sta THEN "WAN_IF" ELSE "WLAN_IF"
                  IN  IF cat[i] = "UNKNOWN_IF"
                      THEN cat' = [cat EXCEPT ![i] = c] /\ Create(i, c, sta)
                      ELSE UNCHANGED lifeVars
        /\ UNCHANGED <<internal, external>>

CatKept(i) == UNCHANGED cat                 \* mistake: not reset to unknown
CatReset(i) == cat' = [cat EXCEPT ![i] = "UNKNOWN_IF"]

StayActive(o) ==                            \* mistake: still active
    /\ Q!Post(Msg("LAN_DELETE_SELF", obj[o].iface))
    /\ UNCHANGED <<list, obj>>
CloseSilently(o) ==                         \* mistake: nothing posted
    /\ obj' = [obj EXCEPT ![o].active = FALSE]
    /\ UNCHANGED <<list, internal, external>>

\* handle_down_evt of a LAN or WLAN instance: inactive, delete-self posted.
Close(o) ==
    /\ obj' = [obj EXCEPT ![o].active = FALSE]
    /\ Q!Post(Msg("LAN_DELETE_SELF", obj[o].iface))
    /\ UNCHANGED list

\* IPACM_Lan::event_callback, IPACM_Wlan::event_callback.
LanCallback(o, m) ==
    LET i == obj[o].iface
        down == IF obj[o].class = "Lan" THEN "LINK_DOWN" ELSE "WLAN_LINK_DOWN"
    IN  IF m.iface = i /\ m.event = "LAN_DELETE_SELF"
        THEN Delete(o) /\ UNCHANGED <<cat, internal, external>>
        ELSE IF m.iface = i /\ m.event = down /\ obj[o].active
        THEN /\ Close(o)
             /\ IF obj[o].class = "Wlan" THEN CatReset(i) ELSE UNCHANGED cat
        ELSE UNCHANGED <<lifeVars, internal, external>>

\* IPACM_Wan::event_callback; in sta mode the category is unknown again.
WanCallback(o, m) ==
    LET i == obj[o].iface
    IN  /\ IF m.iface = i
           THEN /\ Delete(o)
                /\ IF obj[o].class = "WanSta" THEN CatReset(i) ELSE UNCHANGED cat
           ELSE UNCHANGED lifeVars
        /\ UNCHANGED <<internal, external>>

-----------------------------------------------------------------------------
\* Which class the events of an interface ask for, given what they asked before:
\* the first link-up after a link-down counts.
Asks(before, i, e) ==
    LET up == CASE InitialCat[i] = "LAN_IF" /\ e = "USB_LINK_UP" -> "Lan"
                [] InitialCat[i] = "WAN_IF" /\ e \in {"LINK_UP", "USB_LINK_UP"} -> "Wan"
                [] InitialCat[i] = "UNKNOWN_IF" /\ e = "WLAN_AP_LINK_UP" -> "Wlan"
                [] InitialCat[i] = "UNKNOWN_IF" /\ e = "WLAN_STA_LINK_UP" -> "WanSta"
                [] OTHER -> "none"
        down == IF InitialCat[i] = "UNKNOWN_IF" THEN "WLAN_LINK_DOWN" ELSE "LINK_DOWN"
    IN  IF e = down THEN "none"
        ELSE IF before = "none" THEN up ELSE before

\* PostEvt by the netlink thread or the driver thread.
PostLink(e, i) ==
    /\ Len(external) < MaxPosted
    /\ Q!Post(Msg(e, i))
    /\ asked' = [asked EXCEPT ![i] = Asks(asked[i], i, e)]
    /\ UNCHANGED <<handled, lifeVars, cur>>

PostSsr ==
    /\ internal = << >>
    /\ Q!Post(Ssr)
    /\ UNCHANGED <<handled, lifeVars, cur, asked>>

\* MessageQueue::Process takes an event; ProcessEvt starts at the list's head.
Take == /\ Q!Take
        /\ cur' = Head(list)
        /\ UNCHANGED <<lifeVars, asked>>

\* ProcessEvt visits the next registration for the event.
PositionOf(n) == CHOOSE k \in 1 .. Len(list) : list[k] = n
Matching == {k \in PositionOf(cur) .. Len(list) : list[k][1] = handled.event}
Nearest == CHOOSE k \in Matching : \A j \in Matching : k <= j
IsListed(n) == \E k \in 1 .. Len(list) : list[k] = n

Visit ==
    /\ handled # NoMessage /\ cur # << >> /\ IsListed(cur)
    /\ Matching # {}
    /\ LET o == list[Nearest][2]
       IN  /\ cur' = IF Nearest = Len(list) THEN << >> ELSE list[Nearest + 1]
           /\ CASE o = Manager -> ManagerCallback(handled)
                [] o # Manager /\ obj[o].class \in {"Lan", "Wlan"} -> LanCallback(o, handled)
                [] OTHER -> WanCallback(o, handled)
    /\ UNCHANGED <<handled, asked>>

Finish == /\ handled # NoMessage
          /\ cur # << >> => IsListed(cur) /\ Matching = {}
          /\ Q!Finish
          /\ cur' = << >>
          /\ UNCHANGED <<lifeVars, asked>>

Next == \/ \E e \in LinkEvent, i \in Iface : PostLink(e, i)
        \/ PostSsr
        \/ Take \/ Visit \/ Finish

\* The command-queue thread runs; callbacks return.
Spec == Init /\ [][Next]_vars /\ WF_vars(Take) /\ WF_vars(Visit) /\ WF_vars(Finish)

-----------------------------------------------------------------------------
(* Properties.                                                             *)

\* The walk never follows the link of a registration to one that was freed
\* ("IPA_LAN_DELETE_SELF should be always last").  The dispatcher knows the
\* manager and the live instances, one of an interface at most, each with all
\* its registrations one after another, and no instance that was deleted.
RegisteredInOne(o) ==
    LET nodes == NodesOf(o, obj[o].class)
    IN  \E b \in 0 .. Len(list) - Len(nodes) :
            /\ SubSeq(list, b + 1, b + Len(nodes)) = nodes
            /\ Mine(o) = b + 1 .. b + Len(nodes)
ListMatchesInstances ==
    /\ cur # << >> => IsListed(cur)
    /\ \A o \in Live : RegisteredInOne(o)
    /\ \A k \in 1 .. Len(list) : list[k][2] \in Live \cup {Manager}
    /\ \A o, p \in Live : obj[o].iface = obj[p].iface => o = p

\* An instance is closed by one event to itself, never two: a second one could
\* delete the instance that follows it.
Closing(i) == \E o \in Of(i) : ~obj[o].active
ClosingIsDeletedOnce ==
    \A i \in Iface :
        LET m == Msg("LAN_DELETE_SELF", i)
            queued == Cardinality({k \in 1 .. Len(internal) : internal[k] = m})
        IN  /\ queued <= 1
            /\ queued = 1 => Closing(i) /\ handled # m
            /\ Closing(i) => queued = 1 \/ handled = m

\* When nothing is left to handle, every interface is what the events posted
\* for it, by all threads in their order, ask for: no link event was lost.
SettlesAsAsked ==
    (internal = << >> /\ external = << >> /\ handled = NoMessage) =>
        \A i \in Iface :
            IF asked[i] = "none" THEN Of(i) = {}
            ELSE \E o \in Of(i) : obj[o].class = asked[i] /\ obj[o].active

\* A closing instance is deleted in the end, whatever else is posted.
ClosingEnds == \A o \in Obj : (o \in Live /\ ~obj[o].active) ~> o \notin Live
=============================================================================
