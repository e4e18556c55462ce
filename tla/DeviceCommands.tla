--------------------------- MODULE DeviceCommands ---------------------------
(***************************************************************************)
(* Write commands to devices that answer a write with more than its echo:  *)
(* relays of an S2000-PP (exception 15, repeated writes, readback), the    *)
(* Haier and Samsung controllers of fourvrs.py (a result register, then    *)
(* readback), ER-G (readback, and two parameters one of which limits the   *)
(* other), TRM-138 (an output that must not be assigned), and for          *)
(* comparison the air conditioners that only echo.                         *)
(*                                                                         *)
(* A command is one section of the client's request lock, so there is one  *)
(* at a time; but a controller goes on with what it accepted after the     *)
(* command that sent it has failed, and people use the front panel.        *)
(***************************************************************************)
EXTENDS Integers, Sequences

CONSTANTS
    MaxAttempts,  \* S2000_PP_FC05_MAX_ATTEMPTS
    MaxAccepted   \* bound for TLC: writes a controller takes at a time

ASSUME CommandsAssumption == MaxAttempts \in Nat \ {0} /\ MaxAccepted \in Nat \ {0}

(* Resetting the usage counters of the Samsung controller has a result     *)
(* register of its own, and so is a device of its own here.                *)
Controllers == {"haier", "extended", "counters"}
Commanded == {"relay", "climate", "erman", "owen"} \cup Controllers

VARIABLES
    target,    \* what the device is
    pc,       \* what the running command does next; "idle": there is none
    current,  \* the command: the writes it was asked for, and if it reads them back
    rest,     \* the writes it still has to make
    loop,     \* locals of the loop around the current write, see Fresh
    outcome,  \* of the last command
    device,   \* the registers and coils of the device
    accepted, \* writes the device has accepted and not executed yet
    result,   \* its result register
    held      \* history: what the device held of it since it began

commandVars == <<target, pc, current, rest, loop, outcome,
                 device, accepted, result, held>>

Registers(m) ==
    CASE m = "relay" -> {"coil"}
      [] m = "erman" -> {"p101", "p102"}
      [] m = "owen" -> {"assigned", "output"}
      [] m = "counters" -> {}
      [] OTHER -> {"mode", "power"}

Values(m) == IF m = "erman" THEN 0..2 ELSE 0..1

To(r, v) == [x \in {r} |-> v]
Both(v)  == [x \in {"mode", "power"} |-> v]

(* What the entities of a device may ask for: writes in order, one of them *)
(* perhaps of two registers.                                               *)
Asked(writes) == [writes |-> writes, confirm |-> TRUE]

Commands(m) ==
    CASE m = "relay" -> {Asked(<<To("coil", v)>>) : v \in Values(m)}
      [] m = "erman" -> {Asked(<<To(r, v)>>) : r \in Registers(m), v \in Values(m)}
      [] m = "owen" -> {Asked(<<To("output", v)>>) : v \in Values(m)}
      [] m \in {"climate", "haier"} ->
             {Asked(<<To("mode", 1), To("power", 1)>>), Asked(<<To("power", 0)>>)}
      [] m = "extended" ->
             {Asked(<<Both(1)>>), Asked(<<To("power", 0)>>)}
             \cup {[writes |-> <<To("filter", 1)>>, confirm |-> FALSE]}
      [] m = "counters" -> {[writes |-> <<To("usage", 1)>>, confirm |-> FALSE]}
      [] OTHER -> {}

Pairs(d) == {<<r, d[r]>> : r \in DOMAIN d}

Executed(w) == [r \in DOMAIN device |-> IF r \in DOMAIN w THEN w[r] ELSE device[r]]

(* What a command asks for.                                                *)
Wanted(c) == UNION {Pairs(c.writes[i]) : i \in DOMAIN c.writes}

(* The device changes, and the history with it.                            *)
Becomes(d) == device' = d /\ held' = held \cup (Pairs(d) \cap Wanted(current))

(* Answers of exception 15, saw_pending, and if the deadline has passed.   *)
Fresh == [attempts |-> 0, pending |-> FALSE, late |-> FALSE]

CommandInit ==
    /\ pc = "idle"
    /\ current = Asked(<<>>)
    /\ rest = <<>>
    /\ loop = Fresh
    /\ outcome = "none"
    /\ device \in [Registers(target) -> Values(target)]
    /\ target = "erman" => device.p101 <= device.p102
    /\ accepted = <<>>
    /\ result = 0
    /\ held = {}

-----------------------------------------------------------------------------
StartCommand ==
    /\ pc = "idle"
    /\ current' \in Commands(target)
    /\ rest' = current'.writes
    /\ pc' = IF target \in {"erman", "owen"} THEN "check" ELSE "write"
    /\ outcome' = "running"
    /\ held' = Pairs(device) \cap Wanted(current')
    /\ UNCHANGED <<target, loop, device, accepted, result>>

(* The command ends, well or with an exception.                            *)
End(how) ==
    /\ pc' = "idle"
    /\ outcome' = how
    /\ rest' = <<>>
    /\ loop' = Fresh

(* The current write is done: on to the next one, or the end.              *)
NextWrite ==
    /\ loop' = Fresh
    /\ rest' = Tail(rest)
    /\ pc' = IF Len(rest) = 1 THEN "idle" ELSE "write"
    /\ outcome' = IF Len(rest) = 1 THEN "ok" ELSE outcome

(* Mutant: P102 goes down before P101.                                     *)
CheckedLimitFirst(w) ==
    CASE DOMAIN w = {"p101"} -> IF w.p101 > device.p102 THEN <<>> ELSE <<w>>
      [] DOMAIN w = {"p102"} ->
             IF device.p101 > w.p102 THEN <<w, To("p101", w.p102)>> ELSE <<w>>
      [] OTHER -> IF device.assigned = 1 THEN <<>> ELSE <<w>>

(* The writes a request leads to: P101 is kept below its limit P102, and   *)
(* an output that is assigned to a comparator is refused.                  *)
Checked(w) ==
    CASE DOMAIN w = {"p101"} -> IF w.p101 > device.p102 THEN <<>> ELSE <<w>>
      [] DOMAIN w = {"p102"} ->
             IF device.p101 > w.p102 THEN <<To("p101", w.p102), w>> ELSE <<w>>
      [] OTHER -> IF device.assigned = 1 THEN <<>> ELSE <<w>>

Check ==
    /\ pc = "check"
    /\ LET writes == Checked(Head(rest))
       IN  IF writes = <<>> THEN End("failed")
           ELSE /\ rest' = writes
                /\ pc' = "write"
                /\ UNCHANGED <<outcome, loop>>
    /\ UNCHANGED <<target, current, device, accepted, result, held>>

(* The device executes the write and echoes it.                            *)
WriteEchoed ==
    /\ pc = "write"
    /\ target \notin Controllers
    /\ Becomes(Executed(Head(rest)))
    /\ IF target \in {"erman", "owen"}
       THEN pc' = "read" /\ UNCHANGED <<rest, loop, outcome>>
       ELSE NextWrite
    /\ UNCHANGED <<target, current, accepted, result>>

(* A controller echoes the write and has accepted it; the Haier says so in *)
(* its result register at once.                                            *)
WriteAccepted ==
    /\ pc = "write"
    /\ target \in Controllers
    /\ Len(accepted) < MaxAccepted
    /\ accepted' = Append(accepted, Head(rest))
    /\ result' = IF target = "haier" THEN 1 ELSE result
    /\ pc' = "wait"
    /\ UNCHANGED <<target, current, rest, loop, outcome, device, held>>

(* The S2000-PP answers exception 15: the write is repeated, and after the *)
(* last attempt the relay is read.                                         *)
WritePending ==
    /\ pc = "write"
    /\ target = "relay"
    /\ loop' = [loop EXCEPT !.attempts = @ + 1]
    /\ pc' = IF loop'.attempts = MaxAttempts THEN "read" ELSE "write"
    /\ accepted' = <<Head(rest)>>
    /\ UNCHANGED <<target, current, rest, outcome, device, result, held>>

(* The result that ends the wait well.  The Samsung controller keeps the   *)
(* result of the command before, so 2 counts only after 1 was seen; 5, an  *)
(* acknowledgement, is enough for the usage counters.                      *)
Confirmed ==
    CASE target = "haier" -> result = 2
      [] OTHER -> loop.pending /\ \/ result = 2
                                  \/ result = 5 /\ target = "counters"

Refused ==
    CASE target = "haier" -> result \notin {1, 2}
      [] OTHER -> result \in {3, 4}

(* Mutant: the result is awaited without a deadline.                       *)
Unlimited == FALSE

OutOfTime == loop.late

(* One turn of the loop that reads the result register.                    *)
Wait ==
    /\ pc = "wait"
    /\ \/ /\ Confirmed
          /\ IF current.confirm
             THEN pc' = "read" /\ UNCHANGED <<rest, loop, outcome>>
             ELSE NextWrite
       \/ /\ ~Confirmed
          /\ Refused \/ OutOfTime
          /\ End("failed")
       \/ /\ ~Confirmed /\ ~Refused /\ ~OutOfTime
          /\ loop' = [loop EXCEPT !.pending = @ \/ result = 1]
          /\ UNCHANGED <<pc, rest, outcome>>
    /\ UNCHANGED <<target, current, device, accepted, result, held>>

Deadline ==
    /\ pc = "wait"
    /\ loop' = [loop EXCEPT !.late = TRUE]
    /\ UNCHANGED <<target, pc, current, rest, outcome,
                   device, accepted, result, held>>

(* Mutant: what is read back is not compared.                              *)
ReadBackBlindly ==
    /\ pc = "read"
    /\ NextWrite
    /\ UNCHANGED <<target, current, device, accepted, result, held>>

ReadBack ==
    /\ pc = "read"
    /\ IF \A r \in DOMAIN Head(rest) : device[r] = Head(rest)[r]
       THEN NextWrite ELSE End("failed")
    /\ UNCHANGED <<target, current, device, accepted, result, held>>

(* An exchange fails; a write among them may have had its effect, which it *)
(* then has at once (a controller's may come later, see Finishes).         *)
CommandFails ==
    /\ pc # "idle"
    /\ End("failed")
    /\ \/ UNCHANGED <<device, accepted, result, held>>
       \/ /\ pc = "write"
          /\ target \notin Controllers
          /\ Becomes(Executed(Head(rest)))
          /\ UNCHANGED <<accepted, result>>
       \/ /\ pc = "write"
          /\ target \in Controllers
          /\ Len(accepted) < MaxAccepted
          /\ accepted' = Append(accepted, Head(rest))
          /\ UNCHANGED <<device, result, held>>
    /\ UNCHANGED <<target, current>>

CommandStep ==
    \/ Check
    \/ WriteEchoed
    \/ WriteAccepted
    \/ WritePending
    \/ Wait
    \/ ReadBack
    \/ CommandFails

-----------------------------------------------------------------------------
(* The device.  It begins with what it accepted, ...                       *)
Begins ==
    /\ accepted # <<>>
    /\ target \in Controllers
    /\ result' = 1
    /\ UNCHANGED <<target, pc, current, rest, loop, outcome,
                   device, accepted, held>>

(* ... executes it or gives it up, and reports it.                         *)
Finishes ==
    /\ accepted # <<>>
    /\ accepted' = Tail(accepted)
    /\ \/ /\ Becomes(Executed(Head(accepted)))
          /\ \/ target = "relay" /\ UNCHANGED result
             \/ target # "relay" /\ result' = 2
             \/ target = "counters" /\ result' = 5
       \/ /\ result' = IF target = "relay" THEN result ELSE 3
          /\ UNCHANGED <<device, held>>
    /\ UNCHANGED <<target, pc, current, rest, loop, outcome>>

(* Somebody uses the front panel, or another master.                       *)
FrontPanel ==
    /\ target \in {"relay", "climate"} \cup Controllers
    /\ \E r \in DOMAIN device : \E v \in Values(target) \ {device[r]} :
           Becomes([device EXCEPT ![r] = v])
    /\ UNCHANGED <<target, pc, current, rest, loop, outcome,
                   accepted, result>>

DeviceStep ==
    \/ Begins
    \/ Finishes
    \/ FrontPanel

-----------------------------------------------------------------------------
(* A command that reads back or is echoed is reported as done only if the  *)
(* device has held every value it asked for at some time since the command *)
(* began: not because of a result, a pending write or a readback of an     *)
(* earlier command (s2000_pp.py:231-300, fourvrs.py:457-551, :1230-1293,   *)
(* erman.py:922).                                                          *)
ConfirmedTookEffect ==
    outcome = "ok" /\ current.confirm => Wanted(current) \subseteq held

(* Every command ends and frees the client's request lock, whatever the    *)
(* result register says or never says (fourvrs.py:482, :1256).             *)
CommandEnds == pc # "idle" ~> pc = "idle"

(* No sequence of commands leaves the ER-G with its manual frequency P101  *)
(* above its limit P102, even if one of them fails half-way                *)
(* (erman.py:836-870).                                                     *)
LimitKept == target = "erman" => device.p101 <= device.p102
=============================================================================
