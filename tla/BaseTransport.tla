--------------------------- MODULE BaseTransport ---------------------------
(***************************************************************************)
(* The life cycle shared by the DNS transports (dns/transport/base.go):    *)
(* queries enter through BeginQuery and leave through EndQuery, and        *)
(* Shutdown stops new queries, cancels the running ones and waits for them *)
(* to leave.  Every critical section of BaseTransport.mutex is one action. *)
(***************************************************************************)
EXTENDS Naturals, FiniteSets

CONSTANTS
    Queries,    \* goroutines that call Exchange
    Closers     \* goroutines that call Close

ASSUME FiniteQueries == IsFiniteSet(Queries)

VARIABLES
    state,            \* BaseTransport.state
    inFlight,         \* BaseTransport.inFlight
    queriesComplete,  \* the field: "nil", or "open" for the channel Shutdown made
    drained,          \* that channel has been closed
    closeCtxDone,     \* closeCancel() has been called
    active,           \* the queries between BeginQuery and EndQuery
    closePc           \* where each closer is in Shutdown

baseVars == <<state, inFlight, queriesComplete, drained, closeCtxDone, active, closePc>>

States == {"New", "Started", "Closing", "Closed"}
ClosePcs == {"idle", "cancel", "cancelWait", "wait", "drained", "timeout", "closed"}

BaseTypeOK ==
    /\ state \in States
    /\ inFlight \in Nat
    /\ queriesComplete \in {"nil", "open"}
    /\ drained \in BOOLEAN
    /\ closeCtxDone \in BOOLEAN
    /\ active \subseteq Queries
    /\ closePc \in [Closers -> ClosePcs]

BaseInit ==
    /\ state = "New"
    /\ inFlight = 0
    /\ queriesComplete = "nil"
    /\ drained = FALSE
    /\ closeCtxDone = FALSE
    /\ active = {}
    /\ closePc = [s \in Closers |-> "idle"]

-----------------------------------------------------------------------------
(* SetStarted reports ErrTransportClosed, and changes nothing, from Closing *)
(* on; a second call of a started transport changes nothing either.         *)
SetStarted ==
    /\ state = "New"
    /\ state' = "Started"
    /\ UNCHANGED <<inFlight, queriesComplete, drained, closeCtxDone, active, closePc>>

(* Mutant: an EndQuery that forgets the closer.                             *)
MutEndQueryNoSignal(q) ==
    /\ q \in active
    /\ active' = active \ {q}
    /\ inFlight' = IF inFlight > 0 THEN inFlight - 1 ELSE inFlight
    /\ UNCHANGED <<state, closeCtxDone, closePc, drained, queriesComplete>>

(* BeginQuery that succeeds.  It returns false when the state is not         *)
(* Started, and the caller gives up without another call.                   *)
BeginQuery(q) ==
    /\ q \notin active
    /\ state = "Started"
    /\ inFlight' = inFlight + 1
    /\ active' = active \union {q}
    /\ UNCHANGED <<state, queriesComplete, drained, closeCtxDone, closePc>>

EndQuery(q) ==
    /\ q \in active
    /\ active' = active \ {q}
    /\ inFlight' = IF inFlight > 0 THEN inFlight - 1 ELSE inFlight
    /\ IF inFlight' = 0 /\ queriesComplete = "open"
       THEN queriesComplete' = "nil" /\ drained' = TRUE
       ELSE UNCHANGED <<queriesComplete, drained>>
    /\ UNCHANGED <<state, closeCtxDone, closePc>>

(* The critical section at the head of Shutdown: nothing was started,       *)
(* nothing is running, or there are queries to wait for.  A Shutdown that    *)
(* finds Closing or Closed returns and changes nothing.                     *)
Shutdown(s) ==
    /\ closePc[s] = "idle"
    /\ \/ /\ state = "New" \/ (state = "Started" /\ inFlight = 0)
          /\ state' = "Closed"
          /\ closePc' = [closePc EXCEPT ![s] = "cancel"]
          /\ UNCHANGED queriesComplete
       \/ /\ state = "Started" /\ inFlight # 0
          /\ state' = "Closing"
          /\ queriesComplete' = "open"
          /\ closePc' = [closePc EXCEPT ![s] = "cancelWait"]
    /\ UNCHANGED <<inFlight, drained, closeCtxDone, active>>

(* closeCancel(), called after the mutex has been released.                 *)
ShutdownCancel(s) ==
    /\ closePc[s] \in {"cancel", "cancelWait"}
    /\ closeCtxDone' = TRUE
    /\ closePc' = [closePc EXCEPT ![s] = IF @ = "cancel" THEN "closed" ELSE "wait"]
    /\ UNCHANGED <<state, inFlight, queriesComplete, drained, active>>

(* The two cases of the select at the end of Shutdown.                      *)
ShutdownDrained(s) ==
    /\ closePc[s] = "wait" /\ drained
    /\ state' = "Closed"
    /\ closePc' = [closePc EXCEPT ![s] = "drained"]
    /\ UNCHANGED <<inFlight, queriesComplete, drained, closeCtxDone, active>>

ShutdownTimeout(s) ==
    /\ closePc[s] = "wait"
    /\ state' = "Closed"
    /\ closePc' = [closePc EXCEPT ![s] = "timeout"]
    /\ UNCHANGED <<inFlight, queriesComplete, drained, closeCtxDone, active>>

CloserStep(s) == Shutdown(s) \/ ShutdownCancel(s) \/ ShutdownDrained(s) \/ ShutdownTimeout(s)

BaseNext ==
    \/ SetStarted
    \/ \E q \in Queries : BeginQuery(q) \/ EndQuery(q)
    \/ \E s \in Closers : CloserStep(s)

BaseSpec == BaseInit /\ [][BaseNext]_baseVars

-----------------------------------------------------------------------------
(* The counter and the channel agree with the queries: inFlight counts them, *)
(* and the channel a closer waits on is open exactly while one of them is    *)
(* still inside.                                                            *)
InFlightExact == inFlight = Cardinality(active)

(* No lost wake-up (EndQuery, base.go:81): a closer that waits for the       *)
(* queries either has a query left to wake it or has been woken.            *)
NoLostWakeup ==
    \A s \in Closers : closePc[s] \in {"cancelWait", "wait"} =>
        IF drained THEN active = {} ELSE active # {} /\ queriesComplete = "open"

(* A Shutdown that reports that the queries are complete, or that found      *)
(* none, leaves a transport in which no query runs, then or later.          *)
GracefulCloseIsQuiet ==
    (\E s \in Closers : closePc[s] \in {"cancel", "closed", "drained"})
        => active = {} /\ state = "Closed"

(* Shutdown waits for the queries, no longer and no less (base.go:81-139).   *)
ShutdownIsGraceful == NoLostWakeup /\ GracefulCloseIsQuiet

(* Exactly one closer decides: whoever finds Closing or Closed returns.     *)
OneClosingOwner ==
    \A s, t \in Closers :
        closePc[s] # "idle" /\ closePc[t] # "idle" => s = t

(* After closeCancel has been called no query enters (BeginQuery refuses),   *)
(* and the state never goes back.                                           *)
NoEntryAfterCancel == [][closeCtxDone => active' \subseteq active]_baseVars

(* The inductive invariant: the owner's place in Shutdown determines the     *)
(* state, and the channel and the counter follow the active queries.        *)
BaseIndInv ==
    /\ BaseTypeOK
    /\ InFlightExact
    /\ NoLostWakeup
    /\ OneClosingOwner
    /\ state \in {"New", "Started"} =>
          /\ ~drained /\ ~closeCtxDone /\ queriesComplete = "nil"
          /\ \A s \in Closers : closePc[s] = "idle"
    /\ state = "New" => active = {}
    /\ drained => active = {}
    /\ \A s \in Closers :
          /\ closePc[s] \in {"cancelWait", "wait"} => state = "Closing"
          /\ closePc[s] \in {"cancel", "closed", "drained", "timeout"} => state = "Closed"
          /\ closePc[s] \in {"cancel", "closed", "drained"} => active = {}
=============================================================================
