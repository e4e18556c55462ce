------------------------------ MODULE Devices ------------------------------
(***************************************************************************)
(* One device with its polls and its commands.  Both use the client's      *)
(* request lock for as long as they take (the Samsung controller), or the  *)
(* device has only one of them that keeps anything between its exchanges:  *)
(* the polls of relays, ER-G and TRM-138 and the commands of detectors do  *)
(* not.                                                                    *)
(***************************************************************************)
EXTENDS DevicePolling, DeviceCommands

vars == <<pollVars, commandVars>>

Init ==
    /\ kind \in Polled \cup Commanded
    /\ target = kind
    /\ PollInit
    /\ CommandInit

(* A poll and a command take the lock in turn.                             *)
Poll(A)    == A /\ UNCHANGED commandVars
Command(A) == A /\ UNCHANGED pollVars

Next ==
    \/ pc = "idle" /\ Poll(StartPoll)
    \/ Poll(Exchange)
    \/ Poll(ZoneChanges)
    \/ step = 0 /\ Command(StartCommand)
    \/ Command(CommandStep)
    \/ Command(Deadline)
    \/ Command(DeviceStep)

Spec == Init /\ [][Next]_vars

(* Polls are scheduled for ever and get the lock in their turn (it is      *)
(* FIFO); every exchange and every deadline ends;                          *)
(* a read that is made again and again succeeds now and then (for a value  *)
(* of the S2000-PP, see PolledIsReleased of S2000PPSelector).  That an     *)
(* exchange fails is not assumed of a command that waits.                  *)
LiveSpec ==
    /\ Spec
    /\ SF_vars(pc = "idle" /\ Poll(StartPoll))
    /\ WF_vars(Poll(Exchange))
    /\ SF_vars(Poll(ReadPrimary))
    /\ SF_vars(Poll(ReadExpanded))
    /\ \A k \in Keys : SF_vars(Poll(Ready(k)))
    /\ WF_vars(Command(pc # "wait" /\ CommandStep))
    /\ WF_vars(Command(Wait))
    /\ WF_vars(Command(Deadline))
=============================================================================
