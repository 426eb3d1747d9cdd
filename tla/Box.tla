-------------------------------- MODULE Box --------------------------------
(***************************************************************************)
(* The box (box.go): it starts its parts stage by stage, closes all of them  *)
(* when one fails or when it is told to, and is created again by a reload.   *)
(* The start of the outbounds is that of StartOrder, the rule-set that the    *)
(* router starts, updates and closes that of RemoteRuleSet.                   *)
(***************************************************************************)
EXTENDS StartOrder, RemoteRuleSet

CONSTANTS
    MaxFaults   \* bound: parts that fail, calls of Close and crashes

VARIABLES
    phase,   \* "new", "starting", "started", "closing", "closed"
    target,  \* the steps of PreStart, for the tools of the command line, or of Start
    done,    \* the steps taken
    shut,    \* the parts that Close has closed
    stage,   \* the last stage of each part; of a manager: started and stage
    live,    \* the parts some stage of which has run and that are not closed
    faults,  \* how many of these are still to come
    ruled,   \* whether there is a rule-set
    faulty   \* the parts that may fail

boxVars == <<phase, target, done, shut, stage, live, faults, ruled, faulty>>
vars == <<boxVars, orderVars, ruleSetVars>>

-----------------------------------------------------------------------------
(* The stages, StartStateInitialize to StartStateStarted, and None.         *)
Initialize == 1
Starts == 2
PostStart == 3
Started == 4

Managers == {"dns-transport", "outbound", "inbound", "endpoint", "service"}
Parts == Managers \union {"logger", "internal", "network", "dns-router", "connection", "router"}

(* adapter.Start and adapter.StartNamed: one stage of a list of parts.      *)
Stage(s, list) == [i \in DOMAIN list |-> <<list[i], s>>]

preStart ==
    << <<"logger", Starts>>, <<"internal", Initialize>> >>
    \o Stage(Initialize, <<"network", "dns-transport", "dns-router", "connection", "router",
                           "outbound", "inbound", "endpoint", "service">>)
    \o Stage(Starts, <<"outbound", "dns-transport", "dns-router", "network", "connection",
                       "router">>)

start ==
    preStart
    \o Stage(Starts, <<"internal", "inbound", "endpoint", "service">>)
    \o Stage(PostStart, <<"outbound", "network", "dns-transport", "dns-router", "connection",
                          "router", "inbound", "endpoint", "service", "internal">>)
    \o Stage(Started, <<"network", "dns-transport", "dns-router", "connection", "router",
                        "outbound", "inbound", "endpoint", "service", "internal">>)

(* Mutant: what the inbounds hand over to is closed before them.            *)
MutcloseOrder ==
    <<"service", "endpoint", "outbound", "inbound", "router", "connection", "dns-router",
      "dns-transport", "network", "internal", "logger">>

closeOrder ==
    <<"service", "endpoint", "inbound", "outbound", "router", "connection", "dns-router",
      "dns-transport", "network", "internal", "logger">>

(* The stages in which a part does something; endpoints are started with the *)
(* outbounds.                                                               *)
Acts(p, s) ==
    CASE p = "connection" -> FALSE
      [] p = "dns-router" -> s = Starts
      [] p = "network"    -> s # Started
      [] p = "router"     -> s # Initialize
      [] p = "endpoint"   -> s # Starts
      [] OTHER            -> TRUE

(* ... and can fail: monitors of the network that do not start are only       *)
(* logged, and Cleanup of the rule-sets returns nothing.                    *)
CanFail(p, s) ==
    /\ Acts(p, s) /\ p \in faulty
    /\ <<p, s>> \notin {<<"network", PostStart>>, <<"router", Started>>}

-----------------------------------------------------------------------------
BoxInit ==
    /\ phase = "new" /\ target \in {Len(preStart), Len(start)} /\ done = 0 /\ shut = 0 /\ faults \in 0..MaxFaults
    /\ stage = [p \in Parts |-> 0] /\ live = {}
    /\ ruled \in BOOLEAN /\ faulty \in SUBSET Parts

TypeOK ==
    /\ phase \in {"new", "starting", "started", "closing", "closed"}
    /\ target \in {Len(preStart), Len(start)} /\ done \in 0..target
    /\ shut \in 0..Len(closeOrder)
    /\ stage \in [Parts -> 0..4] /\ live \subseteq Parts
    /\ faults \in 0..MaxFaults /\ ruled \in BOOLEAN /\ faulty \subseteq Parts
    /\ OrderTypeOK /\ RuleSetTypeOK

Begin ==
    /\ phase = "new" /\ phase' = "starting"
    /\ UNCHANGED <<target, done, shut, stage, live, faults, ruled, faulty, orderVars, ruleSetVars>>

At(p, s) == phase = "starting" /\ done < target /\ start[done + 1] = <<p, s>>

(* The part has been told to take the stage.                                *)
Enter(p, s) ==
    /\ stage' = [stage EXCEPT ![p] = s]
    /\ live' = IF Acts(p, s) THEN live \union {p} ELSE live

Succeeds == done' = done + 1 /\ UNCHANGED <<phase, faults>>
Fails == phase' = "closing" /\ UNCHANGED done
Fault == faults > 0 /\ faults' = faults - 1

(* A part takes a stage, or returns an error that ends the start.           *)
StartStage(p, s) ==
    /\ At(p, s)
    /\ <<p, s>> # <<"outbound", Starts>>
    /\ ruled => <<p, s>> # <<"router", Starts>>
    /\ Enter(p, s)
    /\ Succeeds \/ (CanFail(p, s) /\ Fault /\ Fails)
    /\ UNCHANGED <<target, shut, ruled, faulty, orderVars, ruleSetVars>>

(* The outbounds and endpoints start in the order of their dependencies.    *)
StartOutbounds ==
    /\ At("outbound", Starts)
    /\ Enter("outbound", Starts)
    /\ \/ /\ Pass
          /\ IF result' = "failed" THEN "outbound" \in faulty /\ Fault ELSE UNCHANGED faults
       \/ NoDefault /\ "outbound" \in faulty /\ Fault
    /\ UNCHANGED <<phase, target, done, shut, ruled, faulty, ruleSetVars>>

OutboundsStarted ==
    /\ At("outbound", Starts) /\ result # "running"
    /\ IF result = "ok" THEN Succeeds ELSE Fails /\ UNCHANGED faults
    /\ UNCHANGED <<target, shut, stage, live, ruled, faulty, orderVars, ruleSetVars>>

(* The router starts its rule-set, which may have to be fetched first.      *)
StartRuleSet ==
    /\ ruled /\ At("router", Starts) /\ "router" \notin live
    /\ StartContext
    /\ Enter("router", Starts)
    /\ UNCHANGED <<phase, target, done, shut, faults, ruled, faulty, orderVars>>

RuleSetStarted ==
    /\ ruled /\ At("router", Starts) /\ "router" \in live
    /\ \/ pc = "idle" /\ Succeeds
       \/ pc = "down" /\ Fails /\ UNCHANGED faults
    /\ UNCHANGED <<target, shut, stage, live, ruled, faulty, orderVars, ruleSetVars>>

Finish ==
    /\ phase = "starting" /\ done = target
    /\ phase' = "started"
    /\ UNCHANGED <<target, done, shut, stage, live, faults, ruled, faulty, orderVars,
                   ruleSetVars>>

Close ==
    /\ phase = "started" /\ phase' = "closing"
    /\ Fault
    /\ UNCHANGED <<target, done, shut, stage, live, ruled, faulty, orderVars, ruleSetVars>>

(* Mutant: a manager counts as started once all of it is.                   *)
MutCloses(p) == p \in Managers => stage[p] = Started

(* A manager that was not started returns at once, the others close all.    *)
Closes(p) == p \in Managers => stage[p] # 0

(* Close goes on whatever the parts return.                                 *)
ClosePart ==
    /\ phase = "closing" /\ shut < Len(closeOrder)
    /\ shut' = shut + 1
    /\ LET p == closeOrder[shut + 1] IN
       /\ IF Closes(p)
          THEN stage' = [stage EXCEPT ![p] = 0] /\ live' = live \ {p}
          ELSE UNCHANGED <<stage, live>>
       /\ CASE p = "endpoint" /\ Closes(p) -> CloseItems(Tags \ ByTag)
            [] p = "outbound" /\ Closes(p) -> CloseItems(ByTag)
            [] OTHER -> UNCHANGED orderVars
       /\ IF p = "router" /\ pc # "down" THEN CloseRuleSet ELSE UNCHANGED ruleSetVars
    /\ UNCHANGED <<phase, target, done, faults, ruled, faulty>>

Closed ==
    /\ phase = "closing" /\ shut = Len(closeOrder)
    /\ phase' = "closed"
    /\ UNCHANGED <<target, done, shut, stage, live, faults, ruled, faulty, orderVars,
                   ruleSetVars>>

(* The process ends.                                                        *)
Crash ==
    /\ phase \notin {"new", "closed"} /\ phase' = "closed"
    /\ Fault
    /\ stage' = [p \in Parts |-> 0] /\ live' = {}
    /\ CloseItems(Tags)
    /\ IF pc # "down" THEN CloseRuleSet ELSE UNCHANGED ruleSetVars
    /\ UNCHANGED <<target, done, shut, ruled, faulty>>

(* A reload, or the next start of the process: box.New with the same options. *)
New ==
    /\ phase = "closed" /\ phase' = "new"
    /\ done' = 0 /\ shut' = 0
    /\ stage' = [p \in Parts |-> 0] /\ live' = {}
    /\ IF result = "closed" THEN NewManager ELSE UNCHANGED orderVars
    /\ UNCHANGED <<target, faults, ruled, faulty, ruleSetVars>>

-----------------------------------------------------------------------------
(* loopUpdate runs from PostStart of the router until its Close.            *)
Looping == "router" \in live /\ stage["router"] >= PostStart

RuleSetStep ==
    /\ ruled
    /\ (LoopUpdate /\ Looping) \/ Fetch \/ FetchFails \/ \E c \in Contents : Publish(c)
    /\ UNCHANGED <<boxVars, orderVars>>

BoxStep ==
    \/ Begin \/ StartOutbounds \/ OutboundsStarted \/ StartRuleSet \/ RuleSetStarted
    \/ \E p \in Parts, s \in Initialize..Started : StartStage(p, s)
    \/ Finish \/ ClosePart \/ Closed \/ New

Next == BoxStep \/ RuleSetStep \/ Close \/ Crash

Init == BoxInit /\ OrderInit /\ RuleSetInit

(* Start and Close run, and a closed box is started again; the ticker fires, *)
(* and a request that does not fail is answered: requests have no deadline. *)
Waits == phase = "started" \/ (At("router", Starts) /\ ruled /\ pc \notin {"idle", "down"})
Unasked == pc = "down" \/ (pc = "idle" /\ ~Looping)
Fairness ==
    /\ []<>Waits \/ []<><<BoxStep>>_vars
    /\ []<>Unasked \/ []<><<RuleSetStep /\ (LoopUpdate \/ Fetch)>>_vars

Spec == Init /\ [][Next]_vars /\ Fairness

-----------------------------------------------------------------------------
(* Whenever an inbound may accept a connection, there is all it takes to      *)
(* route it, in a start that fails and while the box closes: the outbounds   *)
(* run, the DNS servers, the network and the router have started, and the    *)
(* rule-set has been loaded (box.go:457-544).                               *)
ServesWhenReady ==
    "inbound" \in live /\ stage["inbound"] >= Starts =>
        /\ result \in {"ok", "closed"} /\ ByTag \subseteq running
        /\ \A p \in {"dns-transport", "dns-router", "network", "router"} :
              p \in live /\ stage[p] >= Starts
        /\ ruled => loaded # None

(* The box keeps the promise of Lifecycle with its parts, the outbounds and   *)
(* the rule-set: whatever fails or crashes, nothing comes up after Close has *)
(* begun, nothing is left when it has ended, and both ends are reached       *)
(* (box.go:407-544, adapter/outbound/manager.go:173-200, and the others).   *)
L == INSTANCE Lifecycle WITH
        Parts <- Parts \union Tags \union {"rule-set"},
        up <- live \union running \union (IF pc = "down" THEN {} ELSE {"rule-set"})
ImplementsLifecycle == L!Spec

(* CatchesUp of RemoteRuleSet, for a rule-set that stops and starts with its *)
(* box, unless the box is only pre-started, where no loop updates it         *)
(* (box.go:407-544, rule_set_remote.go:205-313).                            *)
RulesCatchUp == ruled /\ target = Len(start) => CatchesUp
=============================================================================
