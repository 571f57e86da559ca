---------------------------- MODULE Subscription ----------------------------
(***************************************************************************)
(* What a subscription promises its consumer (spec sections 4.2, 4.3 and   *)
(* 5), stated without calls, buffers or tasks: it is opened, hands events  *)
(* to its consumer only while open, at most `limit` of them per opening    *)
(* when it has a limit, and is closed.  Each opening starts a new,         *)
(* independent sequence with its own count.                                *)
(***************************************************************************)
EXTENDS Naturals

CONSTANTS
    Subs,      \* the subscription objects
    Limits,    \* the limits a subscription may be given
    NoLimit    \* "no limit"

VARIABLES
    sub_open,  \* the subscription is open
    yielded,   \* events handed to the consumer since it was last opened
    limit      \* its limit, fixed when it is constructed

svars == <<sub_open, yielded, limit>>

SInit ==
    /\ sub_open = [s \in Subs |-> FALSE]
    /\ yielded = [s \in Subs |-> 0]
    /\ limit \in [Subs -> Limits]

Open(s) ==
    /\ ~sub_open[s]
    /\ sub_open' = [sub_open EXCEPT ![s] = TRUE]
    /\ yielded' = [yielded EXCEPT ![s] = 0]
    /\ UNCHANGED limit

Yield(s) ==
    /\ sub_open[s]
    /\ limit[s] = NoLimit \/ yielded[s] < limit[s]
    /\ yielded' = [yielded EXCEPT ![s] = @ + 1]
    /\ UNCHANGED <<sub_open, limit>>

Close(s) ==
    /\ sub_open[s]
    /\ sub_open' = [sub_open EXCEPT ![s] = FALSE]
    /\ UNCHANGED <<yielded, limit>>

SNext == \E s \in Subs : Open(s) \/ Yield(s) \/ Close(s)

SSpec == SInit /\ [][SNext]_svars
=============================================================================
