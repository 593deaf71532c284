---------------------------- MODULE FifoDispatch ----------------------------
(***************************************************************************)
(* What the command queue promises of dispatching, whatever polls overlap  *)
(* and whatever fails: every host is handed its commands in the order in   *)
(* which they were enqueued, each leaves the queue at most once, and none  *)
(* comes back.  Nothing is promised of what becomes of it afterwards.      *)
(***************************************************************************)
EXTENDS Naturals, Sequences

CONSTANT Hosts

VARIABLES log,      \* the host each command is addressed to, in order of enqueueing
          waiting   \* the commands that have not been handed out

Init == log = <<>> /\ waiting = {}

Submit(h) ==
    /\ log' = Append(log, h)
    /\ waiting' = waiting \cup {Len(log) + 1}

HandOut(c) ==
    /\ c \in waiting
    /\ \A d \in waiting : log[d] = log[c] => c <= d
    /\ waiting' = waiting \ {c}
    /\ UNCHANGED log

Next == (\E h \in Hosts : Submit(h)) \/ (\E c \in waiting : HandOut(c))

Spec == Init /\ [][Next]_<<log, waiting>>
=============================================================================
