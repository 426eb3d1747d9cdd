----------------------------- MODULE Lifecycle -----------------------------
(***************************************************************************)
(* What a box promises to whoever starts and closes it: parts come up only   *)
(* while it starts, a start that fails is followed by a close, and a box     *)
(* that has been closed has left nothing running.                            *)
(***************************************************************************)
CONSTANT Parts

VARIABLES
    phase,  \* "new", "starting", "started", "closing", "closed"
    up      \* the parts that run

state == <<phase, up>>

Init == phase = "new" /\ up = {}

To(from, next) == phase \in from /\ phase' = next

Begin == To({"new"}, "starting") /\ UNCHANGED up

(* Parts come up; one whose start has failed may be down again.             *)
Starting == To({"starting"}, "starting") /\ up' \in SUBSET Parts

Ready == To({"starting"}, "started") /\ UNCHANGED up

(* Close is called, or the start of a part fails and leaves it half up.     *)
Stop ==
    \/ To({"started"}, "closing") /\ UNCHANGED up
    \/ To({"starting"}, "closing") /\ \E p \in Parts : up' \in {up, up \union {p}}

Closing == To({"closing"}, "closing") /\ up' \in SUBSET up

Closed == To({"closing"}, "closed") /\ up = {} /\ UNCHANGED up

(* The process ends.                                                        *)
Crash == To({"new", "starting", "started", "closing"}, "closed") /\ up' = {}

Renew == To({"closed"}, "new") /\ UNCHANGED up

Next == Begin \/ Starting \/ Ready \/ Stop \/ Closing \/ Closed \/ Crash \/ Renew

Safety == Init /\ [][Next]_state

(* A start and a close come to an end.                                      *)
Ends == phase \in {"starting", "closing"} ~> phase \in {"started", "closed"}

Spec == Safety /\ Ends
=============================================================================
