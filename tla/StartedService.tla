--------------------------- MODULE StartedService ---------------------------
(***************************************************************************)
(* The service daemon (daemon/started_service.go, daemon/instance.go): the   *)
(* instance of a box it runs, its status, and the calls that start, reload   *)
(* and close it.  serviceAccess is released while an old instance is closed  *)
(* and while a new one starts; what happens under it is one step.           *)
(***************************************************************************)
EXTENDS Naturals, Sequences, FiniteSets

CONSTANTS
    Reloaders,   \* goroutines in StartOrReloadService
    Closers,     \* goroutines in CloseService and SetError
    Waiters,     \* goroutines in waitForStarted
    Instances,   \* instances, numbered from 1
    Queue,       \* what serviceStatusSubscriber holds
    Buffer,      \* what a subscription of serviceStatusObserver holds
    None

ASSUME StartedServiceConstants ==
    /\ Instances \in Nat /\ Queue \in Nat /\ Buffer \in Nat
    /\ None \notin 1..Instances

VARIABLES
    status,    \* serviceStatus
    instance,  \* StartedService.instance
    made,      \* instances created so far
    start,     \* Box.Start of each: "no", "running", "ok", "error"
    closed,    \* instances whose Box.Close was called
    pc,        \* StartOrReloadService: "idle", "closing", "starting", "started"
    mine,      \* its oldInstance, then its instance
    wait,      \* waitForStarted: "idle", "subscribe", "wait", "ok", "error"
    queue,     \* serviceStatusSubscriber: updates that the observer has not passed on
    events,    \* the subscription of each waiter
    seen,      \* waiters during whose call the status was STARTED
    behind,    \* waiters that subscribed while the queue held older updates
    mixed      \* a start was reported while another instance had taken its place

vars == <<status, instance, made, start, closed, pc, mine, wait, queue, events, seen, behind,
          mixed>>

Ids == 1..Instances
Statuses == {"IDLE", "STARTING", "STARTED", "STOPPING", "FATAL"}

TypeOK ==
    /\ status \in Statuses
    /\ instance \in Ids \union {None}
    /\ made \in 0..Instances
    /\ start \in [Ids -> {"no", "running", "ok", "error"}]
    /\ closed \subseteq Ids
    /\ pc \in [Reloaders -> {"idle", "closing", "starting", "started"}]
    /\ mine \in [Reloaders -> Ids \union {None}]
    /\ wait \in [Waiters -> {"idle", "subscribe", "wait", "ok", "error"}]
    /\ Len(queue) <= Queue /\ \A w \in Waiters : Len(events[w]) <= Buffer
    /\ seen \subseteq Waiters /\ behind \subseteq Waiters /\ mixed \in BOOLEAN

Init ==
    /\ status = "IDLE" /\ instance = None /\ made = 0
    /\ start = [i \in Ids |-> "no"] /\ closed = {}
    /\ pc = [r \in Reloaders |-> "idle"] /\ mine = [r \in Reloaders |-> None]
    /\ wait = [w \in Waiters |-> "idle"] /\ events = [w \in Waiters |-> <<>>]
    /\ queue = <<>> /\ seen = {} /\ behind = {} /\ mixed = FALSE

(* What a channel of this size holds after updates were sent to it without   *)
(* blocking: those that do not fit are dropped.                             *)
Fit(list, size) == SubSeq(list, 1, IF Len(list) < size THEN Len(list) ELSE size)

(* updateStatus, one or more times.                                         *)
UpdateStatus(list) ==
    /\ queue' = Fit(queue \o list, Queue)
    /\ status' = list[Len(list)]
    /\ seen' = IF \E i \in DOMAIN list : list[i] = "STARTED"
               THEN seen \union {w \in Waiters : wait[w] \in {"subscribe", "wait"}}
               ELSE seen
    /\ UNCHANGED <<events, behind>>

-----------------------------------------------------------------------------
(* newInstance and what follows up to the Unlock.                           *)
NewInstance(r) ==
    /\ \/ /\ UpdateStatus(<<"STARTING">>)
          /\ made' = made + 1
          /\ instance' = made + 1
          /\ start' = [start EXCEPT ![made + 1] = "running"]
          /\ pc' = [pc EXCEPT ![r] = "starting"]
          /\ mine' = [mine EXCEPT ![r] = made + 1]
       \/ /\ UpdateStatus(<<"STARTING", "FATAL">>)
          /\ pc' = [pc EXCEPT ![r] = "idle"]
          /\ mine' = [mine EXCEPT ![r] = None]
          /\ UNCHANGED <<made, instance, start>>
    /\ mixed' = FALSE

(* StartOrReloadService: the status is checked, and the old instance closed  *)
(* without the lock if there is one.                                        *)
StartOrReload(r) ==
    /\ pc[r] = "idle"
    /\ status \in {"IDLE", "STARTED", "STARTING"}
    /\ made + Cardinality({q \in Reloaders : pc[q] = "closing"}) < Instances
    /\ IF instance = None THEN NewInstance(r)
       ELSE /\ UpdateStatus(<<"STOPPING">>)
            /\ pc' = [pc EXCEPT ![r] = "closing"]
            /\ mine' = [mine EXCEPT ![r] = instance]
            /\ UNCHANGED <<instance, made, start, mixed>>
    /\ UNCHANGED <<closed, wait>>

(* _ = oldInstance.Close(); an instance already closed says ErrClosed.      *)
Reload(r) ==
    /\ pc[r] = "closing"
    /\ closed' = closed \union {mine[r]}
    /\ NewInstance(r)
    /\ UNCHANGED wait

(* instance.Start, without the lock; when it fails the box closes itself.   *)
BoxStart(r) ==
    /\ pc[r] = "starting"
    /\ pc' = [pc EXCEPT ![r] = "started"]
    /\ \/ start' = [start EXCEPT ![mine[r]] = "ok"] /\ UNCHANGED closed
       \/ start' = [start EXCEPT ![mine[r]] = "error"] /\ closed' = closed \union {mine[r]}
    /\ UNCHANGED <<status, instance, made, mine, wait, queue, events, seen, behind, mixed>>

Reported(r) == <<IF start[mine[r]] = "ok" THEN "STARTED" ELSE "FATAL">>

(* Mutant: the status is not looked at again after the start.               *)
MutStartReturns(r) ==
    /\ pc[r] = "started"
    /\ UpdateStatus(Reported(r)) /\ mixed' = (mine[r] # instance /\ instance # None)
    /\ pc' = [pc EXCEPT ![r] = "idle"] /\ mine' = [mine EXCEPT ![r] = None]
    /\ UNCHANGED <<instance, made, start, closed, wait>>

(* Mutant: an error of the start is returned and the status left.           *)
MutStartReturnsQuiet(r) ==
    /\ pc[r] = "started"
    /\ IF status # "STARTING" \/ start[mine[r]] # "ok"
       THEN UNCHANGED <<status, queue, events, seen, behind, mixed>>
       ELSE UpdateStatus(Reported(r)) /\ mixed' = (mine[r] # instance)
    /\ pc' = [pc EXCEPT ![r] = "idle"] /\ mine' = [mine EXCEPT ![r] = None]
    /\ UNCHANGED <<instance, made, start, closed, wait>>

(* The lock again: another call may have changed the status.                *)
StartReturns(r) ==
    /\ pc[r] = "started"
    /\ IF status # "STARTING" THEN UNCHANGED <<status, queue, events, seen, behind, mixed>>
       ELSE UpdateStatus(Reported(r)) /\ mixed' = (mine[r] # instance)
    /\ pc' = [pc EXCEPT ![r] = "idle"] /\ mine' = [mine EXCEPT ![r] = None]
    /\ UNCHANGED <<instance, made, start, closed, wait>>

-----------------------------------------------------------------------------
(* CloseService holds the lock while the instance closes; its Close fails if *)
(* the box has closed itself, or for a reason of its own.                   *)
CloseService(c) ==
    /\ status \in {"STARTING", "STARTED"}
    /\ closed' = closed \union ({instance} \ {None})
    /\ \/ /\ instance # None
          /\ UpdateStatus(<<"STOPPING", "FATAL">>)
          /\ UNCHANGED instance
       \/ /\ instance \notin closed
          /\ UpdateStatus(<<"STOPPING", "IDLE">>)
          /\ instance' = None
    /\ UNCHANGED <<made, start, pc, mine, wait, mixed>>

SetError(c) ==
    /\ status # "FATAL"
    /\ UpdateStatus(<<"FATAL">>)
    /\ UNCHANGED <<instance, made, start, closed, pc, mine, wait, mixed>>

-----------------------------------------------------------------------------
(* Mutant: a service that is starting counts as started.                    *)
MutWaitForStarted(w) ==
    /\ wait[w] = "idle"
    /\ wait' = [wait EXCEPT ![w] = IF status \in {"STARTED", "STARTING"} THEN "ok" ELSE "error"]
    /\ seen' = IF status = "STARTED" THEN seen \union {w} ELSE seen
    /\ UNCHANGED <<status, instance, made, start, closed, pc, mine, queue, events, behind, mixed>>

(* waitForStarted: the status is read under the lock, which is released      *)
(* before the subscription.                                                 *)
WaitForStarted(w) ==
    /\ wait[w] = "idle"
    /\ wait' = [wait EXCEPT ![w] = CASE status = "STARTED" -> "ok"
                                     [] status = "STARTING" -> "subscribe"
                                     [] OTHER -> "error"]
    /\ seen' = IF status = "STARTED" THEN seen \union {w} ELSE seen
    /\ UNCHANGED <<status, instance, made, start, closed, pc, mine, queue, events, behind, mixed>>

Subscribe(w) ==
    /\ wait[w] = "subscribe"
    /\ wait' = [wait EXCEPT ![w] = "wait"]
    /\ behind' = IF queue # <<>> THEN behind \union {w} ELSE behind
    /\ UNCHANGED <<status, instance, made, start, closed, pc, mine, queue, events, seen, mixed>>

(* The observer passes an update on to those who subscribe by then.         *)
PassOn ==
    /\ queue # <<>>
    /\ queue' = Tail(queue)
    /\ events' = [w \in Waiters |-> IF wait[w] = "wait"
                                    THEN Fit(Append(events[w], Head(queue)), Buffer)
                                    ELSE events[w]]
    /\ UNCHANGED <<status, instance, made, start, closed, pc, mine, wait, seen, behind, mixed>>

Receive(w) ==
    /\ wait[w] = "wait" /\ events[w] # <<>>
    /\ wait' = [wait EXCEPT ![w] = CASE Head(events[w]) = "STARTED" -> "ok"
                                     [] Head(events[w]) = "STARTING" -> "wait"
                                     [] OTHER -> "error"]
    /\ events' = [events EXCEPT ![w] = IF Head(@) = "STARTING" THEN Tail(@) ELSE <<>>]
    /\ UNCHANGED <<status, instance, made, start, closed, pc, mine, queue, seen, behind, mixed>>

(* The stream of the client ends; a call that has returned can be repeated. *)
WaitEnds(w) ==
    /\ wait[w] # "idle"
    /\ wait' = [wait EXCEPT ![w] = "idle"]
    /\ events' = [events EXCEPT ![w] = <<>>]
    /\ seen' = seen \ {w} /\ behind' = behind \ {w}
    /\ UNCHANGED <<status, instance, made, start, closed, pc, mine, queue, mixed>>

Next ==
    \/ \E r \in Reloaders : StartOrReload(r) \/ Reload(r) \/ BoxStart(r) \/ StartReturns(r)
    \/ \E c \in Closers : CloseService(c) \/ SetError(c)
    \/ PassOn
    \/ \E w \in Waiters : WaitForStarted(w) \/ Subscribe(w) \/ Receive(w) \/ WaitEnds(w)

Spec == Init /\ [][Next]_vars

(* The calls proceed: Box.Start and Box.Close return.                       *)
FairSpec ==
    Spec /\ \A r \in Reloaders : WF_vars(Reload(r) \/ BoxStart(r) \/ StartReturns(r))

-----------------------------------------------------------------------------
(* A service that says STARTED has an instance that has started and is not   *)
(* closed, however reloads, Close and errors interleave.  The exception: a   *)
(* start that ends while a later reload is starting its own instance takes   *)
(* that one's STARTING for its own (started_service.go:166-231).            *)
StartedIsRunning ==
    status = "STARTED" /\ ~mixed =>
        instance # None /\ start[instance] = "ok" /\ instance \notin closed

(* No instance is started while an earlier one is open: two would compete    *)
(* for ports, the TUN device and the cache file, also with several reloaders *)
(* (started_service.go:174-181).                                            *)
OneOpenInstance ==
    \A i, j \in Ids : i < j /\ start[j] # "no" => i \in closed \/ start[i] = "no"

(* The status and the instances agree (started_service.go:166-231).         *)
InstanceIsRight == StartedIsRunning /\ OneOpenInstance

(* waitForStarted returns without an error only if the service was STARTED   *)
(* during the call, unless updates of an earlier run were still on their way *)
(* to the subscriptions when it subscribed (started_service.go:126-164).    *)
WaiterSawStarted ==
    \A w \in Waiters \ behind : wait[w] = "ok" => w \in seen

(* A service that is starting or stopping comes to a rest                    *)
(* (started_service.go:166-231).                                            *)
ComesToRest ==
    status \in {"STARTING", "STOPPING"} ~> status \in {"IDLE", "STARTED", "FATAL"}
=============================================================================
