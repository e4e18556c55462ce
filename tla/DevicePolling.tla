--------------------------- MODULE DevicePolling ---------------------------
(***************************************************************************)
(* One poll after another of a device whose snapshot needs several         *)
(* exchanges: async_get_snapshot of the Bolid classes behind an S2000-PP   *)
(* (equipment/bolid.py) and of the Samsung controller                      *)
(* (equipment/fourvrs.py).  Between two polls the device object keeps a    *)
(* cursor over values it reads in turn, and latches: binary states that    *)
(* follow alarm and restore codes of a zone and stay as they are without.  *)
(*                                                                         *)
(* A zone's primary state and its expanded states are read by two          *)
(* requests, and the zone may change between them.                         *)
(***************************************************************************)
EXTENDS Integers, Sequences

CONSTANTS
    NumKeys,  \* values read in turn: Keys == 1..NumKeys
    Burst     \* how many of them one poll of the Samsung controller reads

ASSUME PollingAssumption ==
    /\ NumKeys \in Nat \ {0}
    /\ Burst \in 1..NumKeys

Keys == 1..NumKeys

(* The codes that set and reset a latch, and how its class decides.        *)
Latches ==
    [tamper      |-> [alarm |-> {149}, restored |-> {152}, by |-> "expanded"],
     measurement |-> [alarm |-> {82}, restored |-> {83}, by |-> "expanded"],
     glass       |-> [alarm |-> {3}, restored |-> {24, 110}, by |-> "primary first"],
     wiredTamper |-> [alarm |-> {149}, restored |-> {152}, by |-> "both"],
     fault       |-> [alarm |-> {41}, restored |-> {39}, by |-> "both"],
     opening     |-> [alarm |-> {3, 36, 58, 118, 119},
                      restored |-> {22, 24, 35, 110, 117}, by |-> "both"],
     water       |-> [alarm |-> {79}, restored |-> {80}, by |-> "primary only"],
     caseTamper  |-> [alarm |-> {149}, restored |-> {152}, by |-> "first"]]

(* A meter polls its counter by itself: not the radio meter, which has its *)
(* automatic polling switched off (bolid.py:3889).                         *)
Polled == DOMAIN Latches \cup {"mip", "thermo", "single", "meter", "extended"}

(* The exchanges of one poll, in order.                                    *)
Program(k) ==
    CASE k = "mip" -> <<"value", "primary", "expanded">>
      [] k \in {"thermo", "single", "meter"} -> <<"primary", "expanded", "value">>
      [] k = "extended" -> [i \in 1..Burst |-> "value"]
      [] k \in DOMAIN Latches -> <<"primary", "expanded">>
      [] OTHER -> <<>>

VARIABLES
    kind,     \* what the device is
    step,     \* the exchange the poll has come to; 0 between polls
    cursor,   \* _numeric_cursor, _extended_cursor
    read,     \* what the poll has read of the zone: primary and expanded
    latch,    \* the latched state
    zone,     \* the zone of the device, now
    shown     \* history: the codes the zone had since the poll began

pollVars == <<kind, step, cursor, read, latch, zone, shown>>

Quiet == [primary |-> 0, expanded |-> <<>>]

(* States of a zone worth telling apart: one alarm and one restore code,   *)
(* in every combination.                                                   *)
Zones(k) ==
    IF k \notin DOMAIN Latches THEN {Quiet}
    ELSE LET a == CHOOSE c \in Latches[k].alarm : TRUE
             r == CHOOSE c \in Latches[k].restored : TRUE
         IN  [primary : {0, a, r},
              expanded : {<<>>, <<a>>, <<r>>, <<a, r>>}]

CodesOf(z) == {z.primary} \cup {z.expanded[i] : i \in DOMAIN z.expanded}

PollInit ==
    /\ step = 0
    /\ cursor = 1
    /\ read = Quiet
    /\ latch = "unknown"
    /\ zone \in Zones(kind)
    /\ shown = {}

-----------------------------------------------------------------------------
(* Mutant: no evidence counts as restored.                                 *)
DecideAlways(codes, l, old) ==
    IF codes \cap l.alarm # {} THEN "alarm" ELSE "restored"

(* Evidence for one position and none for the other; else the old state.   *)
Decide(codes, l, old) ==
    CASE codes \cap l.alarm # {} /\ codes \cap l.restored = {} -> "alarm"
      [] codes \cap l.alarm = {} /\ codes \cap l.restored # {} -> "restored"
      [] OTHER -> old

Active(e) == {e[i] : i \in DOMAIN e}

(* Glass: the primary state goes before the expanded ones.                 *)
PrimaryFirst(p, e, l, old) ==
    LET votes == {Decide({p}, l, "unknown"), Decide(Active(e), l, "unknown")}
    IN  CASE "alarm" \in votes -> "alarm"
          [] "alarm" \notin votes /\ "restored" \in votes -> "restored"
          [] OTHER -> old

(* A code of a comes before any of b.                                      *)
Leads(a, b, codes) ==
    \E i \in DOMAIN codes : codes[i] \in a /\ \A j \in 1..(i - 1) : codes[j] \notin b

(* The power supply: the first code that means anything.                   *)
FirstMarked(p, e, l) ==
    CASE Leads(l.alarm, l.restored, <<p>> \o e) -> "alarm"
      [] Leads(l.restored, l.alarm, <<p>> \o e) -> "restored"
      [] OTHER -> "unknown"

(* Water: the primary state alone.                                         *)
PrimaryOnly(p, l) == Decide({p}, l, "unknown")

ExpandedOnly(e, l, old) == Decide(Active(e), l, old)

(* The latch after a poll that read the primary state p and the expanded e.*)
Latched(k, p, e, old) ==
    LET l == Latches[k]
    IN  CASE l.by = "expanded" -> ExpandedOnly(e, l, old)
          [] l.by = "both" -> Decide(Active(e) \cup {p}, l, old)
          [] l.by = "primary only" -> PrimaryOnly(p, l)
          [] l.by = "first" -> FirstMarked(p, e, l)
          [] l.by = "primary first" -> PrimaryFirst(p, e, l, old)

At(exchange) == step > 0 /\ Program(kind)[step] = exchange

(* The poll goes on, or publishes what it has.                             *)
Proceed == step' = IF step = Len(Program(kind)) THEN 0 ELSE step + 1

StartPoll ==
    /\ step = 0
    /\ Program(kind) # <<>>
    /\ step' = 1
    /\ shown' = CodesOf(zone)
    /\ UNCHANGED <<kind, cursor, read, latch, zone>>

(* An exchange fails: the poll is given up, the object stays as it is.     *)
PollFails ==
    /\ step > 0
    /\ step' = 0
    /\ read' = Quiet
    /\ shown' = {}
    /\ UNCHANGED <<kind, cursor, latch, zone>>

(* async_read_zone_states: primary states by FC03, ...                     *)
ReadPrimary ==
    /\ At("primary")
    /\ read' = [read EXCEPT !.primary = zone.primary]
    /\ Proceed
    /\ UNCHANGED <<kind, cursor, latch, zone, shown>>

(* ... expanded states by FC04, and the latch follows both.                *)
ReadExpanded ==
    /\ At("expanded")
    /\ read' = Quiet
    /\ latch' = IF kind \in DOMAIN Latches
                THEN Latched(kind, read.primary, zone.expanded, latch) ELSE latch
    /\ Proceed
    /\ shown' = {}
    /\ UNCHANGED <<kind, cursor, zone>>

-----------------------------------------------------------------------------
(* Mutant: the cursor wraps one too early.                                 *)
AdvancedShort(c) == (c % (NumKeys - 1)) + 1

Advanced(c) == (c % NumKeys) + 1

(* A READY result, or an index of the controller: the cursor moves on.     *)
Ready(k) ==
    /\ At("value")
    /\ cursor = k
    /\ cursor' = IF kind \in {"single", "meter"} THEN cursor ELSE Advanced(cursor)
    /\ Proceed
    /\ UNCHANGED <<kind, read, latch, zone, shown>>

(* PENDING, RETRYABLE, or an exception that is no more than that the value *)
(* is not there: the cursor stays, and the poll goes on.                   *)
NotReady ==
    /\ At("value")
    /\ kind # "extended"
    /\ Proceed
    /\ UNCHANGED <<kind, cursor, read, latch, zone, shown>>

ZoneChanges ==
    /\ zone' \in Zones(kind) \ {zone}
    /\ shown' = IF step > 0 THEN shown \cup CodesOf(zone') ELSE shown
    /\ UNCHANGED <<kind, step, cursor, read, latch>>

Exchange ==
    \/ ReadPrimary
    \/ ReadExpanded
    \/ \E k \in Keys : Ready(k)
    \/ NotReady
    \/ PollFails

-----------------------------------------------------------------------------
(* A latch changes only to a position the zone had a code for during the   *)
(* poll, whatever was read before it and between which two requests the    *)
(* zone changed (bolid.py:3054, :3290, :3370, :3489, :3719, :4495, :2344). *)
LatchSeen ==
    [][latch' # latch =>
         \/ latch' = "alarm" /\ shown \cap Latches[kind].alarm # {}
         \/ latch' = "restored" /\ shown \cap Latches[kind].restored # {}
         \/ latch' = "unknown" /\ Latches[kind].by \in {"primary only", "first"}]_latch

(* The values the device reads in turn: one at least, all by the cursor.   *)
InTurn ==
    CASE kind \in {"mip", "thermo", "extended"} -> Keys
      [] kind \in {"single", "meter"} -> {1}
      [] OTHER -> {}

(* Every value of a device is read again and again, although a poll reads  *)
(* one or a few and starts over at the cursor after a failure, if each     *)
(* gets an answer now and then (bolid.py:2286, :4915, fourvrs.py:1113).    *)
EachIsRefreshed == \A k \in Keys : k \in InTurn => []<><<Ready(k)>>_pollVars
=============================================================================
