--------------------------- MODULE BoundedChannel ---------------------------
(***************************************************************************)
(* What an edge of a pipeline promises to the nodes at its ends, without   *)
(* threads, waits and mutex: a bounded channel.  An item enters at most    *)
(* once, only while the channel is open and only where there is room or    *)
(* the oldest item may be dropped for it; items leave in the order they    *)
(* came, each to somebody who asked, or dropped.  EdgeQueue implements it. *)
(***************************************************************************)
EXTENDS Naturals, Sequences

CONSTANTS Items, Confs   \* Confs: [capacity, drop_policy]

VARIABLES
    conf,     \* chosen once
    open,
    held,     \* items in the channel, oldest first
    entered,  \* items that ever entered
    dropped   \* items dropped for newer ones

channelVars == <<conf, open, held, entered, dropped>>

Init ==
    /\ conf \in Confs
    /\ open = TRUE
    /\ held = <<>>
    /\ entered = {}
    /\ dropped = {}

Enter(e) ==
    /\ open
    /\ e \notin entered
    /\ entered' = entered \cup {e}
    /\ \/ /\ Len(held) < conf.capacity
          /\ held' = Append(held, e)
          /\ dropped' = dropped
       \/ /\ conf.drop_policy = "drop_oldest"
          /\ Len(held) = conf.capacity
          /\ held' = Append(Tail(held), e)
          /\ dropped' = dropped \cup {Head(held)}
    /\ UNCHANGED <<conf, open>>

Leave ==
    /\ held # <<>>
    /\ held' = Tail(held)
    /\ UNCHANGED <<conf, open, entered, dropped>>

OpenOrClose ==
    /\ open' \in BOOLEAN
    /\ UNCHANGED <<conf, held, entered, dropped>>

Next == (\E e \in Items : Enter(e)) \/ Leave \/ OpenOrClose

Spec == Init /\ [][Next]_channelVars
=============================================================================
