------------------------------ MODULE URLTest ------------------------------
(***************************************************************************)
(* The selection of a URL test group (protocol/group/urltest.go): urlTest    *)
(* measures the outbounds, performUpdateCheck selects one for each network   *)
(* from the histories (common/urltest), which failed dials delete meanwhile. *)
(* The flag checking lets one urlTest run at a time (module URLTestLoop).   *)
(***************************************************************************)
EXTENDS Naturals, Sequences, FiniteSets

CONSTANTS
    Outbounds,          \* sequence: URLTestGroup.outbounds
    Networks,           \* sequence: TCP, UDP
    Supports,           \* Outbound.Network(): the networks of each outbound
    RealTag,            \* the tag of the history of each outbound
    Delays,             \* delays a test can give
    Tolerance,          \* URLTestGroup.tolerance
    Wrap,               \* 2^16, the range of a delay
    InterruptExternal,  \* URLTestGroup.interruptExternalConnections
    Conns,              \* connections, each made once
    None

Outs == {Outbounds[i] : i \in 1..Len(Outbounds)}
Nets == {Networks[i] : i \in 1..Len(Networks)}
Tags == Outs \union {RealTag[o] : o \in Outs}

(* The bounds under which Select compares as meant: a sum of delay and       *)
(* tolerance below 2^16, and no delay of 0, which Select takes for "none".  *)
ASSUME URLTestConstants ==
    /\ Outbounds \in Seq(Outs) /\ Networks \in Seq(Nets) /\ Networks # <<>>
    /\ \A i, j \in 1..Len(Networks) : Networks[i] = Networks[j] => i = j
    /\ Delays \subseteq 1..Wrap - 1 /\ Tolerance \in Nat /\ Wrap \in Nat
    /\ \A d \in Delays : d + Tolerance < Wrap
    /\ None \notin Outs /\ None \notin Delays

VARIABLES
    history,   \* HistoryStorage.delayHistory: the delay of each tag, or None
    selected,  \* selectedOutboundTCP and selectedOutboundUDP
    pc,        \* urlTest: "idle", "test", "select", "interrupt"
    todo,      \* the real tags under test
    turn,      \* the network performUpdateCheck is at
    pass,      \* Select: the next outbound, minOutbound, minDelay
    was,       \* the delay of the selected outbound when Select began
    updated,   \* performUpdateCheck's local
    conn,      \* each connection: "none", "dialing", "open", "closed"
    via,       \* its network and outbound
    external,  \* the connections of inbounds
    late       \* connections dialed without a selection or across an interruption

vars == <<history, selected, pc, todo, turn, pass, was, updated, conn, via, external, late>>

Idle == [at |-> 0, out |-> None, delay |-> 0]

TypeOK ==
    /\ history \in [Tags -> Delays \union {None}]
    /\ selected \in [Nets -> Outs \union {None}]
    /\ pc \in {"idle", "test", "select", "interrupt"}
    /\ todo \subseteq Tags
    /\ turn \in 0..Len(Networks)
    /\ pass \in [at : 0..Len(Outbounds) + 1, out : Outs \union {None}, delay : Delays \union {0}]
    /\ was \in Delays \union {None}
    /\ updated \in BOOLEAN
    /\ conn \in [Conns -> {"none", "dialing", "open", "closed"}]
    /\ via \in [Conns -> (Nets \X Outs) \union {None}]
    /\ external \subseteq Conns /\ late \subseteq Conns

Init ==
    /\ history = [t \in Tags |-> None]
    /\ selected = [n \in Nets |-> None]
    /\ pc = "idle" /\ todo = {} /\ turn = 0 /\ pass = Idle /\ was = None
    /\ updated = FALSE
    /\ conn = [x \in Conns |-> "none"]
    /\ via = [x \in Conns |-> None]
    /\ external = {} /\ late = {}

Dials == <<conn, via, external, late>>
Check == <<pc, todo, turn, pass, was, updated>>

-----------------------------------------------------------------------------
(* urlTest: every real tag without a recent history is tested, or every one. *)
UrlTest(tags) ==
    /\ pc = "idle"
    /\ {RealTag[o] : o \in {p \in Outs : history[RealTag[p]] = None}} \subseteq tags
    /\ pc' = "test" /\ todo' = tags
    /\ UNCHANGED <<history, selected, turn, pass, was, updated, Dials>>

(* One test in the batch: Store, or Delete when it fails.                   *)
Tested(t, d) ==
    /\ pc = "test" /\ t \in todo
    /\ history' = [history EXCEPT ![t] = d]
    /\ todo' = todo \ {t}
    /\ UNCHANGED <<selected, pc, turn, pass, was, updated, Dials>>

(* The start of Select: the delay of the selected outbound, if it has one.  *)
Begin(n) ==
    LET cur == selected[n]
        has == IF cur = None THEN None ELSE history[RealTag[cur]] IN
    /\ pass' = [at |-> 1, out |-> IF has = None THEN None ELSE cur,
                delay |-> IF has = None THEN 0 ELSE has]
    /\ was' = has

(* b.Wait, and performUpdateCheck begins.                                   *)
BatchWait ==
    /\ pc = "test" /\ todo = {}
    /\ pc' = "select" /\ turn' = 1 /\ updated' = FALSE
    /\ Begin(Networks[1])
    /\ UNCHANGED <<history, selected, todo, Dials>>

(* Mutant: the tolerance is not added.                                      *)
MutBetter(delay, d) == delay = 0 \/ delay > d

(* Mutant: the tolerance is added twice.                                    *)
MutBetterSticks(delay, d) == delay = 0 \/ delay > (d + 2 * Tolerance) % Wrap

(* minDelay == 0 || minDelay > history.Delay+g.tolerance, in 16 bits        *)
Better(delay, d) == delay = 0 \/ delay > (d + Tolerance) % Wrap

(* Select: one turn of its loop, which reads one history.                   *)
SelectNext ==
    /\ pc = "select" /\ pass.at \in 1..Len(Outbounds)
    /\ LET o == Outbounds[pass.at]
           d == history[RealTag[o]]
           skip == Networks[turn] \notin Supports[o] \/ d = None
       IN  pass' = IF skip THEN [pass EXCEPT !.at = @ + 1]
                   ELSE IF Better(pass.delay, d)
                   THEN [at |-> pass.at + 1, out |-> o, delay |-> d]
                   ELSE [pass EXCEPT !.at = @ + 1]
    /\ UNCHANGED <<history, selected, pc, todo, turn, was, updated, Dials>>

(* Select's result without a history: the first outbound with the network.  *)
First(n) ==
    LET able == {i \in 1..Len(Outbounds) : n \in Supports[Outbounds[i]]} IN
    IF able = {} THEN None
    ELSE Outbounds[CHOOSE i \in able : \A j \in able : i <= j]

(* performUpdateCheck's condition: exists is false for the fallback.        *)
Takes(n) ==
    LET out == IF pass.out = None THEN First(n) ELSE pass.out IN
    out # None /\ (selected[n] = None \/ (pass.out # None /\ out # selected[n]))

(* Select returns, its result is taken or not, and the next network begins. *)
Update ==
    LET n == Networks[turn]
        out == IF pass.out = None THEN First(n) ELSE pass.out IN
    /\ pc = "select" /\ pass.at = Len(Outbounds) + 1
    /\ selected' = IF Takes(n) THEN [selected EXCEPT ![n] = out] ELSE selected
    /\ updated' = (updated \/ (Takes(n) /\ selected[n] # None))
    /\ IF turn < Len(Networks)
       THEN turn' = turn + 1 /\ Begin(Networks[turn + 1]) /\ UNCHANGED pc
       ELSE turn' = 0 /\ pass' = Idle /\ was' = None /\ pc' = "interrupt"
    /\ UNCHANGED <<history, todo, Dials>>

(* Mutant: only the connections of inbounds are interrupted.                *)
MutInterrupt ==
    /\ pc = "interrupt"
    /\ pc' = "idle"
    /\ conn' = [x \in Conns |-> IF updated /\ conn[x] = "open" /\ x \in external
                                THEN "closed" ELSE conn[x]]
    /\ late' = late \union {x \in Conns : conn[x] = "dialing"}
    /\ updated' = FALSE
    /\ UNCHANGED <<history, selected, todo, turn, pass, was, via, external>>

(* The group is interrupted if a selection has changed, and checking is      *)
(* cleared.                                                                 *)
Interrupt ==
    LET hit == {x \in Conns : conn[x] = "open" /\ (x \notin external \/ InterruptExternal)} IN
    /\ pc = "interrupt"
    /\ pc' = "idle"
    /\ conn' = [x \in Conns |-> IF updated /\ x \in hit THEN "closed" ELSE conn[x]]
    /\ late' = late \union {x \in Conns : updated /\ conn[x] = "dialing"}
    /\ updated' = FALSE
    /\ UNCHANGED <<history, selected, todo, turn, pass, was, via, external>>

-----------------------------------------------------------------------------
(* DialContext and ListenPacket: the selected outbound, or else what Select  *)
(* returns (any outbound that can be its result).                           *)
DialContext(x, n, o, ext) ==
    /\ conn[x] = "none"
    /\ n \in Supports[o]
    /\ selected[n] \in {o, None}
    /\ conn' = [conn EXCEPT ![x] = "dialing"]
    /\ via' = [via EXCEPT ![x] = <<n, o>>]
    /\ external' = IF ext THEN external \union {x} ELSE external
    /\ late' = IF selected[n] = None THEN late \union {x} ELSE late
    /\ UNCHANGED <<history, selected, Check>>

(* The dial succeeds and the connection joins the interrupt group.          *)
Dialed(x) ==
    /\ conn[x] = "dialing"
    /\ conn' = [conn EXCEPT ![x] = "open"]
    /\ UNCHANGED <<history, selected, Check, via, external, late>>

(* The dial fails: the history under the outbound's own tag is deleted.     *)
DialFailed(x) ==
    /\ conn[x] = "dialing"
    /\ conn' = [conn EXCEPT ![x] = "closed"]
    /\ history' = [history EXCEPT ![via[x][2]] = None]
    /\ UNCHANGED <<selected, Check, via, external, late>>

ConnClose(x) ==
    /\ conn[x] = "open"
    /\ conn' = [conn EXCEPT ![x] = "closed"]
    /\ UNCHANGED <<history, selected, Check, via, external, late>>

Next ==
    \/ \E tags \in SUBSET {RealTag[o] : o \in Outs} : UrlTest(tags)
    \/ \E t \in todo, d \in Delays \union {None} : Tested(t, d)
    \/ BatchWait \/ SelectNext \/ Update \/ Interrupt
    \/ \E x \in Conns :
          \/ Dialed(x) \/ DialFailed(x) \/ ConnClose(x)
          \/ \E n \in Nets, o \in Outs, ext \in BOOLEAN : DialContext(x, n, o, ext)

Spec == Init /\ [][Next]_vars

-----------------------------------------------------------------------------
(* A selection is only given up for an outbound that was measured, and only  *)
(* if its own delay was lost or is above the new one by more than the        *)
(* tolerance, whatever histories dials delete during the pass               *)
(* (urltest.go:287-329, 412-429).                                           *)
SwitchIsWorthIt ==
    [][\A n \in Nets : selected[n] # None /\ selected'[n] # selected[n] =>
          /\ pass.out = selected'[n]
          /\ was = None \/ was > pass.delay + Tolerance]_vars

(* During a pass, what it has chosen is within the tolerance of every        *)
(* outbound it has gone by and whose history still stands: no dial in        *)
(* between adds a history (urltest.go:306-318).                             *)
WithinTolerance ==
    pc = "select" =>
        \A i \in 1..pass.at - 1 :
            LET d == history[RealTag[Outbounds[i]]] IN
            Networks[turn] \in Supports[Outbounds[i]] /\ d # None =>
                pass.out # None /\ pass.delay <= d + Tolerance

(* After a check, a connection dialed with a selection, and not across an    *)
(* interruption, goes through the outbound selected for its network          *)
(* (urltest.go:120-162, 412-429).                                           *)
ConnectionsFollowSelection ==
    pc = "idle" =>
        \A x \in Conns \ late :
            conn[x] = "open" /\ (x \notin external \/ InterruptExternal) =>
                via[x][2] = selected[via[x][1]]
=============================================================================
