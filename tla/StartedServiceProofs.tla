------------------------ MODULE StartedServiceProofs ------------------------
(***************************************************************************)
(* Proofs about the service daemon, for any number of calls, instances and   *)
(* subscriptions and for queues of any length.                              *)
(***************************************************************************)
EXTENDS StartedService, FiniteSetTheorems, SequenceTheorems, TLAPS

Quiet == Statuses \ {"STARTED"}

(* The types the proof needs.                                               *)
Types ==
    /\ status \in Statuses
    /\ made \in Nat /\ made <= Instances
    /\ instance \in (1 .. made) \union {None}
    /\ start \in [Ids -> {"no", "running", "ok", "error"}]
    /\ closed \subseteq 1 .. made
    /\ pc \in [Reloaders -> {"idle", "closing", "starting", "started"}]
    /\ mine \in [Reloaders -> Ids \union {None}]
    /\ mixed \in BOOLEAN

(* The instances: they are numbered as they are made, the newest is the only *)
(* one that can be open, and the service's instance is the newest.          *)
InstancesInv ==
    /\ \A i \in Ids : start[i] # "no" => i <= made
    /\ instance # None => instance = made
    /\ \A i \in 1 .. made : i \in closed \/ i = instance

(* The calls: only one is between its Unlock and the close of the old        *)
(* instance, nothing takes that instance's place meanwhile, and each start   *)
(* belongs to an instance of its own.                                       *)
CallsInv ==
    /\ \A r \in Reloaders : pc[r] = "closing" =>
         /\ status \in {"STOPPING", "FATAL"}
         /\ made < Instances
         /\ mine[r] = instance /\ instance # None
    /\ \A r, q \in Reloaders : pc[r] = "closing" /\ pc[q] = "closing" => r = q
    /\ \A r \in Reloaders : pc[r] \in {"starting", "started"} => mine[r] \in 1 .. made
    /\ \A r \in Reloaders : pc[r] = "starting" => start[mine[r]] = "running"
    /\ \A r, q \in Reloaders :
         pc[r] = "starting" /\ pc[q] = "starting" /\ mine[r] = mine[q] => r = q

(* A service that is starting has an instance that is open, unless its start *)
(* failed.                                                                  *)
StatusInv ==
    /\ StartedIsRunning
    /\ status = "STARTING" =>
         instance # None /\ (instance \in closed => start[instance] = "error")

ServiceInv == Types /\ InstancesInv /\ CallsInv /\ StatusInv

(* A waiter that has not seen STARTED, and found no older updates when it     *)
(* subscribed, has none of it on its way.                                   *)
WaitersInv ==
    /\ status \in Statuses /\ queue \in Seq(Statuses)
    /\ wait \in [Waiters -> {"idle", "subscribe", "wait", "ok", "error"}]
    /\ events \in [Waiters -> Seq(Statuses)]
    /\ \A w \in Waiters : wait[w] # "wait" => events[w] = <<>>
    /\ \A w \in Waiters \ (behind \union seen) : wait[w] = "wait" =>
         queue \in Seq(Quiet) /\ events[w] \in Seq(Quiet)
    /\ WaiterSawStarted

-----------------------------------------------------------------------------
(* NewInstance, in a state where every instance so far is closed by the end  *)
(* of the step and no other call is closing one (started_service.go:183-205). *)
LEMMA NewInstanceKeeps ==
    ASSUME ServiceInv, NEW r \in Reloaders, NewInstance(r), made < Instances,
           closed' \subseteq 1 .. made, closed \subseteq closed',
           instance # None => instance \in closed',
           \A q \in Reloaders \ {r} : pc[q] # "closing"
    PROVE  ServiceInv'
<1>. USE DEF ServiceInv, Types
<1>1. CASE /\ UpdateStatus(<<"STARTING">>)
           /\ made' = made + 1
           /\ instance' = made + 1
           /\ start' = [start EXCEPT ![made + 1] = "running"]
           /\ pc' = [pc EXCEPT ![r] = "starting"]
           /\ mine' = [mine EXCEPT ![r] = made + 1]
  <2>1. status' = "STARTING" /\ mixed' = FALSE
    BY <1>1 DEF NewInstance, UpdateStatus
  <2>2. made + 1 \in Ids /\ made + 1 \notin closed' /\ made + 1 # None
    BY StartedServiceConstants DEF Ids
  <2>3. Types'
    <3>1. made' \in Nat /\ made' <= Instances /\ instance' \in 1 .. made'
      BY <1>1, StartedServiceConstants
    <3>2. closed' \subseteq 1 .. made'
      BY <1>1
    <3>3. status' \in Statuses /\ mixed' \in BOOLEAN
      BY <2>1, Zenon DEF Statuses
    <3>4. /\ start' \in [Ids -> {"no", "running", "ok", "error"}]
          /\ pc' \in [Reloaders -> {"idle", "closing", "starting", "started"}]
          /\ mine' \in [Reloaders -> Ids \union {None}]
      BY <1>1, <2>2
    <3>. QED BY <3>1, <3>2, <3>3, <3>4
  <2>4. InstancesInv'
    <3>1. \A i \in Ids : start'[i] # "no" => i <= made'
      BY <1>1, <2>2 DEF InstancesInv, Ids
    <3>2. \A i \in 1 .. made' : i \in closed' \/ i = instance'
      <4>. TAKE i \in 1 .. made'
      <4>1. CASE i = made + 1
        BY <1>1, <4>1
      <4>2. CASE i # made + 1
        <5>1. i \in 1 .. made
          BY <1>1, <4>2
        <5>2. i \in closed \/ i = instance
          BY <5>1 DEF InstancesInv
        <5>3. i \in closed \/ i \in closed'
          BY <5>2, <5>1, StartedServiceConstants
        <5>. QED BY <5>3
      <4>. QED BY <4>1, <4>2
    <3>. QED BY <1>1, <3>1, <3>2 DEF InstancesInv
  <2>5. CallsInv'
    BY <1>1, <2>2 DEF CallsInv, InstancesInv, Ids
  <2>6. StatusInv'
    BY <1>1, <2>1, <2>2 DEF StatusInv, StartedIsRunning
  <2>. QED BY <2>3, <2>4, <2>5, <2>6
<1>2. CASE /\ UpdateStatus(<<"STARTING", "FATAL">>)
           /\ pc' = [pc EXCEPT ![r] = "idle"]
           /\ mine' = [mine EXCEPT ![r] = None]
           /\ UNCHANGED <<made, instance, start>>
  <2>1. status' = "FATAL" /\ mixed' = FALSE
    BY <1>2 DEF NewInstance, UpdateStatus
  <2>3. Types'
    BY <1>2, <2>1, Zenon DEF Statuses
  <2>4. InstancesInv'
    BY <1>2 DEF InstancesInv
  <2>5. CallsInv'
    BY <1>2 DEF CallsInv
  <2>6. StatusInv'
    BY <2>1 DEF StatusInv, StartedIsRunning
  <2>. QED BY <2>3, <2>4, <2>5, <2>6
<1>. QED BY <1>1, <1>2 DEF NewInstance

(* What StartOrReloadService does keeps ServiceInv                           *)
(* (started_service.go:166-231).                                            *)
LEMMA ReloaderKeeps ==
    ASSUME ServiceInv, NEW r \in Reloaders,
           StartOrReload(r) \/ Reload(r) \/ BoxStart(r) \/ StartReturns(r)
    PROVE  ServiceInv'
<1>. USE DEF ServiceInv
<1>1. CASE StartOrReload(r)
  <2>1. \A q \in Reloaders : pc[q] # "closing"
    BY <1>1 DEF StartOrReload, CallsInv
  <2>2. made < Instances
    <3>1. {q \in Reloaders : pc[q] = "closing"} = {}
      BY <2>1
    <3>2. made + Cardinality({}) < Instances
      BY <1>1, <3>1 DEF StartOrReload
    <3>. QED BY <3>2, FS_EmptySet DEF Types
  <2>3. CASE instance = None
    <3>1. NewInstance(r) /\ closed' = closed
      BY <1>1, <2>3 DEF StartOrReload
    <3>. QED BY <2>1, <2>2, <2>3, <3>1, NewInstanceKeeps DEF Types
  <2>4. CASE instance # None
    <3>1. /\ UpdateStatus(<<"STOPPING">>)
          /\ pc' = [pc EXCEPT ![r] = "closing"]
          /\ mine' = [mine EXCEPT ![r] = instance]
          /\ UNCHANGED <<instance, made, start, mixed, closed>>
      BY <1>1, <2>4 DEF StartOrReload
    <3>2. status' = "STOPPING"
      BY <3>1 DEF UpdateStatus
    <3>3. Types'
      BY <3>1, <3>2, StartedServiceConstants DEF Types, Statuses, Ids
    <3>4. InstancesInv'
      BY <3>1 DEF InstancesInv
    <3>5. CallsInv'
      BY <2>1, <2>2, <2>4, <3>1, <3>2 DEF CallsInv, Types
    <3>6. StatusInv'
      BY <3>2 DEF StatusInv, StartedIsRunning
    <3>. QED BY <3>3, <3>4, <3>5, <3>6
  <2>. QED BY <2>3, <2>4
<1>2. CASE Reload(r)
  <2>1. /\ NewInstance(r) /\ closed' = closed \union {instance}
        /\ instance # None /\ made < Instances
        /\ \A q \in Reloaders \ {r} : pc[q] # "closing"
    BY <1>2 DEF Reload, CallsInv
  <2>2. closed' \subseteq 1 .. made
    BY <2>1 DEF Types
  <2>. QED BY <2>1, <2>2, NewInstanceKeeps
<1>3. CASE BoxStart(r)
  <2>1. /\ pc[r] = "starting" /\ pc' = [pc EXCEPT ![r] = "started"]
        /\ UNCHANGED <<status, instance, made, mine, mixed>>
        /\ \/ start' = [start EXCEPT ![mine[r]] = "ok"] /\ closed' = closed
           \/ /\ start' = [start EXCEPT ![mine[r]] = "error"]
              /\ closed' = closed \union {mine[r]}
    BY <1>3 DEF BoxStart
  <2>2. mine[r] \in 1 .. made /\ mine[r] \in Ids /\ start[mine[r]] = "running"
    BY <2>1, StartedServiceConstants DEF CallsInv, Types, Ids
  <2>3. Types'
    BY <2>1, <2>2, Zenon DEF Types
  <2>4. InstancesInv'
    BY <2>1, <2>2 DEF InstancesInv, Types
  <2>5. CallsInv'
    <3>1. \A q \in Reloaders : pc'[q] = IF q = r THEN "started" ELSE pc[q]
      BY <2>1 DEF Types
    <3>2. \A q \in Reloaders : pc'[q] = "starting" => start'[mine'[q]] = "running"
      <4>. SUFFICES ASSUME NEW q \in Reloaders, pc'[q] = "starting"
                    PROVE  start'[mine'[q]] = "running"
        OBVIOUS
      <4>1. q # r /\ pc[q] = "starting" /\ mine[q] # mine[r]
        BY <2>1, <3>1 DEF CallsInv
      <4>2. mine[q] \in Ids /\ start[mine[q]] = "running"
        BY <4>1, StartedServiceConstants DEF CallsInv, Types, Ids
      <4>. QED BY <2>1, <2>2, <4>1, <4>2 DEF Types
    <3>. QED BY <2>1, <3>1, <3>2 DEF CallsInv
  <2>6. StatusInv'
    <3>1. ASSUME status = "STARTED", ~mixed
          PROVE  instance # None /\ start'[instance] = "ok" /\ instance \notin closed'
      <4>1. instance # None /\ start[instance] = "ok" /\ instance \notin closed
        BY <3>1 DEF StatusInv, StartedIsRunning
      <4>2. instance \in Ids /\ instance # mine[r]
        BY <2>2, <4>1, StartedServiceConstants DEF Types, Ids
      <4>. QED BY <2>1, <4>1, <4>2 DEF Types
    <3>2. ASSUME status = "STARTING"
          PROVE  instance # None /\ (instance \in closed' => start'[instance] = "error")
      <4>1. instance # None /\ (instance \in closed => start[instance] = "error")
        BY <3>2 DEF StatusInv
      <4>2. instance \in Ids
        BY <4>1, StartedServiceConstants DEF Types, Ids
      <4>. QED BY <2>1, <2>2, <4>1, <4>2 DEF Types
    <3>3. status' = status /\ mixed' = mixed /\ instance' = instance
      BY <2>1
    <3>. QED BY <3>1, <3>2, <3>3 DEF StatusInv, StartedIsRunning
  <2>. QED BY <2>3, <2>4, <2>5, <2>6
<1>4. CASE StartReturns(r)
  <2>1. /\ pc[r] = "started" /\ pc' = [pc EXCEPT ![r] = "idle"]
        /\ mine' = [mine EXCEPT ![r] = None]
        /\ UNCHANGED <<instance, made, start, closed>>
    BY <1>4 DEF StartReturns
  <2>2. \/ status' = status /\ mixed' = mixed
        \/ /\ status = "STARTING"
           /\ status' = IF start[mine[r]] = "ok" THEN "STARTED" ELSE "FATAL"
           /\ mixed' = (mine[r] # instance)
    BY <1>4 DEF StartReturns, UpdateStatus, Reported
  <2>3. Types'
    BY <2>1, <2>2, Zenon DEF Types, Statuses
  <2>4. InstancesInv'
    BY <2>1 DEF InstancesInv
  <2>5. CallsInv'
    BY <2>1, <2>2 DEF CallsInv, Types
  <2>6. StatusInv'
    BY <2>1, <2>2, Zenon DEF StatusInv, StartedIsRunning, Types
  <2>. QED BY <2>3, <2>4, <2>5, <2>6
<1>. QED BY <1>1, <1>2, <1>3, <1>4

(* So do CloseService and SetError (started_service.go:233-281).            *)
LEMMA CloserKeeps ==
    ASSUME ServiceInv, NEW c \in Closers, CloseService(c) \/ SetError(c)
    PROVE  ServiceInv'
<1>. USE DEF ServiceInv
<1>1. CASE CloseService(c)
  <2>1. /\ status \in {"STARTING", "STARTED"}
        /\ closed' = closed \union ({instance} \ {None})
        /\ UNCHANGED <<made, start, pc, mine, mixed>>
        /\ \/ status' = "FATAL" /\ instance' = instance
           \/ status' = "IDLE" /\ instance' = None
    BY <1>1 DEF CloseService, UpdateStatus
  <2>2. \A q \in Reloaders : pc[q] # "closing"
    BY <2>1 DEF CallsInv
  <2>3. Types'
    BY <2>1, Zenon DEF Types, Statuses
  <2>4. InstancesInv'
    BY <2>1 DEF InstancesInv, Types
  <2>5. CallsInv'
    BY <2>1, <2>2 DEF CallsInv
  <2>6. StatusInv'
    BY <2>1 DEF StatusInv, StartedIsRunning
  <2>. QED BY <2>3, <2>4, <2>5, <2>6
<1>2. CASE SetError(c)
  <2>1. status' = "FATAL" /\ UNCHANGED <<instance, made, start, closed, pc, mine, mixed>>
    BY <1>2 DEF SetError, UpdateStatus
  <2>3. Types'
    BY <2>1 DEF Types, Statuses
  <2>4. InstancesInv'
    BY <2>1 DEF InstancesInv
  <2>5. CallsInv'
    BY <2>1 DEF CallsInv
  <2>6. StatusInv'
    BY <2>1 DEF StatusInv, StartedIsRunning
  <2>. QED BY <2>3, <2>4, <2>5, <2>6
<1>. QED BY <1>1, <1>2

(* ServiceInv is inductive.                                                 *)
LEMMA ServiceInvStep ==
    ASSUME ServiceInv, [Next]_vars
    PROVE  ServiceInv'
<1>1. CASE UNCHANGED <<status, instance, made, start, closed, pc, mine, mixed>>
  BY <1>1 DEF ServiceInv, Types, InstancesInv, CallsInv, StatusInv, StartedIsRunning
<1>2. CASE \E r \in Reloaders :
             StartOrReload(r) \/ Reload(r) \/ BoxStart(r) \/ StartReturns(r)
  BY <1>2, ReloaderKeeps
<1>3. CASE \E c \in Closers : CloseService(c) \/ SetError(c)
  BY <1>3, CloserKeeps
<1>4. CASE \/ PassOn
           \/ \E w \in Waiters : WaitForStarted(w) \/ Subscribe(w) \/ Receive(w) \/ WaitEnds(w)
  BY <1>1, <1>4 DEF PassOn, WaitForStarted, Subscribe, Receive, WaitEnds
<1>5. CASE UNCHANGED vars
  BY <1>1, <1>5 DEF vars
<1>. QED BY <1>2, <1>3, <1>4, <1>5 DEF Next

(* The status and the instances agree, however reloads, Close, errors and     *)
(* starts that end late interleave: a service that says STARTED runs the     *)
(* instance it has, and two instances are never open at once                 *)
(* (started_service.go:166-281).                                            *)
THEOREM InstanceIsRightHolds == Spec => []InstanceIsRight
<1>1. Init => ServiceInv
  <2>. SUFFICES ASSUME Init PROVE ServiceInv
    OBVIOUS
  <2>1. Types
    <3>1. made \in Nat /\ made <= Instances
      BY StartedServiceConstants DEF Init
    <3>2. /\ status \in Statuses /\ mixed \in BOOLEAN /\ closed \subseteq 1 .. made
          /\ instance \in (1 .. made) \union {None}
      BY Zenon DEF Init, Statuses
    <3>3. /\ start \in [Ids -> {"no", "running", "ok", "error"}]
          /\ pc \in [Reloaders -> {"idle", "closing", "starting", "started"}]
          /\ mine \in [Reloaders -> Ids \union {None}]
      BY DEF Init
    <3>. QED BY <3>1, <3>2, <3>3 DEF Types
  <2>2. InstancesInv
    BY DEF Init, InstancesInv, Ids
  <2>3. CallsInv
    BY DEF Init, CallsInv
  <2>4. StatusInv
    BY DEF Init, StatusInv, StartedIsRunning
  <2>. QED BY <2>1, <2>2, <2>3, <2>4 DEF ServiceInv
<1>2. ServiceInv /\ [Next]_vars => ServiceInv'
  BY ServiceInvStep
<1>3. ServiceInv => InstanceIsRight
  <2>. SUFFICES ASSUME ServiceInv PROVE InstanceIsRight OBVIOUS
  <2>1. StartedIsRunning
    BY DEF ServiceInv, StatusInv
  <2>2. ASSUME NEW i \in Ids, NEW j \in Ids, i < j, start[j] # "no" PROVE i \in closed
    <3>1. j \in 1 .. made /\ i \in 1 .. made /\ i # made
      BY <2>2, StartedServiceConstants DEF ServiceInv, Types, InstancesInv, Ids
    <3>. QED BY <3>1, StartedServiceConstants DEF ServiceInv, Types, InstancesInv
  <2>. QED BY <2>1, <2>2 DEF InstanceIsRight, OneOpenInstance
<1>. QED BY <1>1, <1>2, <1>3, PTL DEF Spec

-----------------------------------------------------------------------------
(* What a channel keeps of a list is part of it.                            *)
LEMMA FitIsPart ==
    ASSUME NEW S, NEW s \in Seq(S), NEW size \in Nat
    PROVE  Fit(s, size) \in Seq(S)
<1>. DEFINE n == IF Len(s) < size THEN Len(s) ELSE size
<1>1. n \in 0 .. Len(s)
  BY LenProperties
<1>2. SubSeq(s, 1, n) \in Seq(S)
  BY <1>1, SubSeqProperties
<1>. QED BY <1>2 DEF Fit

(* updateStatus: the queue holds no STARTED of which a waiter that is         *)
(* subscribed, or about to, has not been there (started_service.go:112-118). *)
LEMMA UpdateKeeps ==
    ASSUME WaitersInv, NEW list \in Seq(Statuses), list # <<>>, UpdateStatus(list),
           wait' = wait
    PROVE  WaitersInv'
<1>1. /\ status' = list[Len(list)] /\ events' = events /\ behind' = behind
      /\ seen \subseteq seen' /\ queue' = Fit(queue \o list, Queue)
  BY DEF UpdateStatus
<1>2. status' \in Statuses
  BY <1>1, ElementOfSeq, EmptySeq, LenProperties
<1>3. queue' \in Seq(Statuses)
  BY <1>1, FitIsPart, ConcatProperties, StartedServiceConstants, Zenon DEF WaitersInv
<1>4. ASSUME NEW w \in Waiters \ (behind' \union seen'), wait'[w] = "wait"
      PROVE  queue' \in Seq(Quiet) /\ events'[w] \in Seq(Quiet)
  <2>1. queue \in Seq(Quiet) /\ events[w] \in Seq(Quiet)
    BY <1>1, <1>4 DEF WaitersInv
  <2>2. \A i \in DOMAIN list : list[i] # "STARTED"
    BY <1>4 DEF UpdateStatus
  <2>3. list \in Seq(Quiet)
    <3>1. \A i \in 1 .. Len(list) : list[i] \in Quiet
      BY <2>2, ElementOfSeq, LenProperties DEF Quiet
    <3>2. list = [i \in 1 .. Len(list) |-> list[i]] /\ Len(list) \in Nat
      BY LenProperties
    <3>. QED BY <3>1, <3>2, IsASeq
  <2>. QED BY <1>1, <2>1, <2>3, FitIsPart, ConcatProperties, StartedServiceConstants, Zenon
<1>5. WaiterSawStarted'
  BY <1>1 DEF WaitersInv, WaiterSawStarted
<1>6. \A w \in Waiters : wait'[w] # "wait" => events'[w] = <<>>
  BY <1>1 DEF WaitersInv
<1>. QED BY <1>1, <1>2, <1>3, <1>4, <1>5, <1>6 DEF WaitersInv

(* The calls that change the status keep WaitersInv                          *)
(* (started_service.go:166-281).                                            *)
LEMMA ServiceKeepsWaiters ==
    ASSUME WaitersInv,
           \/ \E r \in Reloaders : StartOrReload(r) \/ Reload(r) \/ BoxStart(r) \/ StartReturns(r)
           \/ \E c \in Closers : CloseService(c) \/ SetError(c)
    PROVE  WaitersInv'
<1>. DEFINE Told == {<<"STARTING">>, <<"STARTING", "FATAL">>, <<"STOPPING">>, <<"STARTED">>,
                     <<"FATAL">>, <<"STOPPING", "FATAL">>, <<"STOPPING", "IDLE">>}
<1>1. wait' = wait
  BY Zenon DEF StartOrReload, Reload, BoxStart, StartReturns, CloseService, SetError
<1>2. \/ \E list \in Told : UpdateStatus(list)
      \/ UNCHANGED <<status, queue, events, seen, behind>>
  <2>1. ASSUME NEW r \in Reloaders, NewInstance(r) PROVE <1>2!1
    BY <2>1 DEF NewInstance
  <2>2. ASSUME NEW r \in Reloaders, StartOrReload(r) PROVE <1>2!1
    BY <2>1, <2>2 DEF StartOrReload
  <2>3. ASSUME NEW r \in Reloaders, Reload(r) PROVE <1>2!1
    BY <2>1, <2>3 DEF Reload
  <2>4. ASSUME NEW r \in Reloaders, BoxStart(r) PROVE <1>2!2
    BY <2>4 DEF BoxStart
  <2>5. ASSUME NEW r \in Reloaders, StartReturns(r) PROVE <1>2
    <3>1. Reported(r) \in Told
      BY DEF Reported
    <3>. HIDE DEF Told
    <3>. QED BY <2>5, <3>1 DEF StartReturns
  <2>6. ASSUME NEW c \in Closers, CloseService(c) \/ SetError(c) PROVE <1>2!1
    BY <2>6 DEF CloseService, SetError
  <2>. QED BY <2>2, <2>3, <2>4, <2>5, <2>6
<1>3. \A list \in Told : list \in Seq(Statuses) /\ list # <<>>
  <2>1. \A a, b \in Statuses : <<a>> \in Seq(Statuses) /\ <<a, b>> \in Seq(Statuses)
    OBVIOUS
  <2>2. \A a, b : <<a>> # <<>> /\ <<a, b>> # <<>>
    OBVIOUS
  <2>. QED BY <2>1, <2>2, Zenon DEF Statuses
<1>4. CASE UNCHANGED <<status, queue, events, seen, behind>>
  BY <1>1, <1>4 DEF WaitersInv, WaiterSawStarted
<1>. HIDE DEF Told
<1>. QED BY <1>1, <1>2, <1>3, <1>4, UpdateKeeps

(* So do the waiters, and the observer that passes updates on                *)
(* (started_service.go:126-164).                                            *)
LEMMA WaitersKeep ==
    ASSUME WaitersInv,
           \/ PassOn
           \/ \E w \in Waiters : WaitForStarted(w) \/ Subscribe(w) \/ Receive(w) \/ WaitEnds(w)
    PROVE  WaitersInv'
<1>. USE DEF WaitersInv
<1>1. CASE PassOn
  <2>1. Head(queue) \in Statuses /\ queue' \in Seq(Statuses)
    BY <1>1, HeadTailProperties DEF PassOn
  <2>2. \A w \in Waiters : events'[w] = IF wait[w] = "wait"
                                          THEN Fit(Append(events[w], Head(queue)), Buffer)
                                          ELSE events[w]
    BY <1>1 DEF PassOn
  <2>3. events' \in [Waiters -> Seq(Statuses)]
    <3>1. ASSUME NEW w \in Waiters PROVE events'[w] \in Seq(Statuses)
      <4>1. Append(events[w], Head(queue)) \in Seq(Statuses)
        BY <2>1
      <4>2. Fit(Append(events[w], Head(queue)), Buffer) \in Seq(Statuses)
        BY <4>1, FitIsPart, StartedServiceConstants, Zenon
      <4>. QED BY <2>2, <4>2
    <3>. QED BY <1>1, <3>1 DEF PassOn
  <2>4. ASSUME NEW w \in Waiters \ (behind \union seen), wait[w] = "wait"
        PROVE  queue' \in Seq(Quiet) /\ events'[w] \in Seq(Quiet)
    <3>1. queue \in Seq(Quiet) /\ events[w] \in Seq(Quiet)
      BY <2>4
    <3>2. Head(queue) \in Quiet /\ queue' \in Seq(Quiet)
      BY <1>1, <3>1, HeadTailProperties DEF PassOn
    <3>3. Append(events[w], Head(queue)) \in Seq(Quiet)
      BY <3>1, <3>2
    <3>4. Fit(Append(events[w], Head(queue)), Buffer) \in Seq(Quiet)
      BY <3>3, FitIsPart, StartedServiceConstants, Zenon
    <3>. QED BY <2>2, <2>4, <3>2, <3>4
  <2>5. UNCHANGED <<status, wait, seen, behind>>
    BY <1>1 DEF PassOn
  <2>6. \A w \in Waiters : wait'[w] # "wait" => events'[w] = <<>>
    BY <2>2, <2>5
  <2>7. WaiterSawStarted'
    BY <2>5 DEF WaiterSawStarted
  <2>. QED BY <2>1, <2>3, <2>4, <2>5, <2>6, <2>7
<1>2. ASSUME NEW w \in Waiters, WaitForStarted(w) PROVE WaitersInv'
  <2>1. /\ wait[w] = "idle" /\ UNCHANGED <<status, queue, events, behind>>
        /\ seen \subseteq seen' /\ (status = "STARTED" => w \in seen')
    BY <1>2 DEF WaitForStarted
  <2>2. \E v \in {"ok", "subscribe", "error"} :
           wait' = [wait EXCEPT ![w] = v] /\ (v = "ok" => status = "STARTED")
    BY <1>2, Zenon DEF WaitForStarted
  <2>. QED BY <2>1, <2>2 DEF WaiterSawStarted
<1>3. ASSUME NEW w \in Waiters, Subscribe(w) PROVE WaitersInv'
  <2>1. /\ wait[w] = "subscribe" /\ wait' = [wait EXCEPT ![w] = "wait"]
        /\ UNCHANGED <<status, queue, events, seen>>
        /\ behind \subseteq behind' /\ (queue # <<>> => w \in behind')
    BY <1>3 DEF Subscribe
  <2>2. <<>> \in Seq(Quiet)
    OBVIOUS
  <2>. QED BY <2>1, <2>2 DEF WaiterSawStarted
<1>4. ASSUME NEW w \in Waiters, Receive(w) PROVE WaitersInv'
  <2>1. /\ wait[w] = "wait" /\ events[w] # <<>>
        /\ UNCHANGED <<status, queue, seen, behind>>
    BY <1>4 DEF Receive
  <2>2. /\ Head(events[w]) \in Statuses /\ Tail(events[w]) \in Seq(Statuses)
        /\ events[w] \in Seq(Quiet) =>
             Head(events[w]) \in Quiet /\ Tail(events[w]) \in Seq(Quiet)
    BY <2>1, HeadTailProperties
  <2>3. CASE Head(events[w]) = "STARTING"
    <3>1. wait' = [wait EXCEPT ![w] = "wait"] /\ events' = [events EXCEPT ![w] = Tail(events[w])]
      BY <1>4, <2>3 DEF Receive
    <3>. QED BY <2>1, <2>2, <3>1 DEF WaiterSawStarted
  <2>4. CASE Head(events[w]) # "STARTING"
    <3>1. /\ events' = [events EXCEPT ![w] = <<>>]
          /\ wait' = [wait EXCEPT ![w] = IF Head(events[w]) = "STARTED" THEN "ok" ELSE "error"]
      BY <1>4, <2>4, Zenon DEF Receive
    <3>2. <<>> \in Seq(Statuses)
      OBVIOUS
    <3>3. w \notin behind /\ Head(events[w]) = "STARTED" => w \in seen
      BY <2>1, <2>2 DEF Quiet
    <3>. QED BY <2>1, <3>1, <3>2, <3>3 DEF WaiterSawStarted
  <2>. QED BY <2>3, <2>4
<1>5. ASSUME NEW w \in Waiters, WaitEnds(w) PROVE WaitersInv'
  <2>1. /\ wait' = [wait EXCEPT ![w] = "idle"] /\ events' = [events EXCEPT ![w] = <<>>]
        /\ seen' = seen \ {w} /\ behind' = behind \ {w} /\ UNCHANGED <<status, queue>>
    BY <1>5 DEF WaitEnds
  <2>2. <<>> \in Seq(Statuses)
    OBVIOUS
  <2>. QED BY <2>1, <2>2 DEF WaiterSawStarted
<1>. QED BY <1>1, <1>2, <1>3, <1>4, <1>5

(* A call of waitForStarted that returns without an error saw the service     *)
(* STARTED, unless it subscribed behind older updates, whatever the sizes of  *)
(* the queue and of the subscriptions (started_service.go:126-164).         *)
THEOREM WaiterSawStartedHolds == Spec => []WaiterSawStarted
<1>1. Init => WaitersInv
  BY DEF Init, WaitersInv, WaiterSawStarted, Statuses
<1>2. WaitersInv /\ [Next]_vars => WaitersInv'
  <2>. SUFFICES ASSUME WaitersInv, [Next]_vars PROVE WaitersInv'
    OBVIOUS
  <2>1. CASE UNCHANGED vars
    BY <2>1 DEF WaitersInv, WaiterSawStarted, vars
  <2>. QED BY <2>1, ServiceKeepsWaiters, WaitersKeep DEF Next
<1>3. WaitersInv => WaiterSawStarted
  BY DEF WaitersInv
<1>. QED BY <1>1, <1>2, <1>3, PTL DEF Spec
=============================================================================
