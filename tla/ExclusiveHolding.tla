-------------------------- MODULE ExclusiveHolding --------------------------
(***************************************************************************)
(* What the bookkeeping of shared things promises: a holder takes all it   *)
(* needs in one step, only what nobody holds, keeps it unchanged, and      *)
(* gives all of it up in one step.  Config entries hold the clients they   *)
(* have made (Lifecycle), which are of no use any more once given up, and  *)
(* identities and DPLS addresses (ConfigFlow), which may be taken again.   *)
(***************************************************************************)

CONSTANTS
    Holders,
    Reusable  \* what was given up may be taken again

VARIABLES
    held,     \* held[h]: what h holds
    gone      \* what was given up, if it is not reusable

holdingVars == <<held, gone>>

HoldingInit == held = [h \in Holders |-> {}] /\ gone = {}

Taken == UNION {held[h] : h \in Holders}

Take(h) ==
    /\ held[h] = {}
    /\ held' = [held EXCEPT ![h] = held'[h]]
    /\ held'[h] \cap (Taken \cup gone) = {}
    /\ UNCHANGED gone

(* Some holders give up what they hold.                                    *)
GiveUp ==
    /\ \A h \in Holders : held'[h] \in {held[h], {}}
    /\ held' = [h \in Holders |-> held'[h]]
    /\ gone' = IF Reusable THEN gone ELSE gone \cup (Taken \ Taken')

HoldingNext == (\E h \in Holders : Take(h)) \/ GiveUp

HoldingSpec == HoldingInit /\ [][HoldingNext]_holdingVars
=============================================================================
