----------------------------- MODULE Connector -----------------------------
(***************************************************************************)
(* The shared connection of a DNS transport (dns/transport/connector.go):  *)
(* any number of goroutines call Get, one of them dials, the others wait   *)
(* for it, and Close and Reset may come at any moment.  Every critical      *)
(* section of Connector.access is one action.  A caller calls Get once: a   *)
(* further call is a further caller.  Conns bounds how many dials succeed.  *)
(***************************************************************************)
EXTENDS Naturals

CONSTANTS
    Callers,     \* goroutines that call Get
    Conns,       \* the connections the dials may return
    NoConn       \* no connection

ASSUME ConnectorConstants == NoConn \notin Conns

VARIABLES
    connection,     \* Connector.connection
    hasConnection,  \* Connector.hasConnection
    connecting,     \* Connector.connecting: is there a channel
    closed,         \* Connector.closed
    connState,      \* Connection.done of each connection; "none" before its dial
    getPc,          \* where each caller is in Get
    conn,           \* the connection a caller's dial or Get returned, NoConn for an error
    fresh           \* a connection was installed since the last Reset

connectorVars == <<connection, hasConnection, connecting, closed, connState, getPc, conn,
                   fresh>>

GetPcs == {"idle", "entry", "waiting", "woken", "dialing", "dialed", "returned"}

ConnectorTypeOK ==
    /\ connection \in Conns \union {NoConn}
    /\ hasConnection \in BOOLEAN
    /\ connecting \in BOOLEAN
    /\ closed \in BOOLEAN
    /\ connState \in [Conns -> {"none", "open", "closed"}]
    /\ getPc \in [Callers -> GetPcs]
    /\ conn \in [Callers -> Conns \union {NoConn}]
    /\ fresh \in BOOLEAN

ConnectorInit ==
    /\ connection = NoConn
    /\ hasConnection = FALSE
    /\ connecting = FALSE
    /\ closed = FALSE
    /\ connState = [c \in Conns |-> "none"]
    /\ getPc = [q \in Callers |-> "idle"]
    /\ conn = [q \in Callers |-> NoConn]
    /\ fresh = FALSE

Live == hasConnection /\ connState[connection] = "open"

Return(q, c) ==
    /\ getPc' = [getPc EXCEPT ![q] = "returned"]
    /\ conn' = [conn EXCEPT ![q] = c]

-----------------------------------------------------------------------------
GetCall(q) ==
    /\ getPc[q] = "idle"
    /\ getPc' = [getPc EXCEPT ![q] = "entry"]
    /\ UNCHANGED <<connection, hasConnection, connecting, closed, connState, conn, fresh>>

(* The critical section at the head of Get's loop has four outcomes.        *)
AtHead(q) == getPc[q] \in {"entry", "woken"}

GetClosed(q) ==
    /\ AtHead(q) /\ closed
    /\ Return(q, NoConn)
    /\ UNCHANGED <<connection, hasConnection, connecting, closed, connState, fresh>>

GetCurrent(q) ==
    /\ AtHead(q) /\ ~closed /\ Live
    /\ Return(q, connection)
    /\ UNCHANGED <<connection, hasConnection, connecting, closed, connState, fresh>>

(* Mutant: the dialling goroutine is not announced to the others.           *)
MutGetWaitOrDial(q) ==
    /\ AtHead(q) /\ ~closed /\ ~Live
    /\ hasConnection' = FALSE
    /\ getPc' = [getPc EXCEPT ![q] = IF connecting THEN "waiting" ELSE "dialing"]
    /\ UNCHANGED <<connection, connecting, closed, connState, conn, fresh>>

GetWaitOrDial(q) ==
    /\ AtHead(q) /\ ~closed /\ ~Live
    /\ hasConnection' = FALSE
    /\ connecting' = TRUE
    /\ getPc' = [getPc EXCEPT ![q] = IF connecting THEN "waiting" ELSE "dialing"]
    /\ UNCHANGED <<connection, closed, connState, conn, fresh>>

(* The caller's context, or the transport's, ends the wait.                 *)
GetCancelled(q) ==
    /\ getPc[q] \in {"waiting", "woken"}
    /\ Return(q, NoConn)
    /\ UNCHANGED <<connection, hasConnection, connecting, closed, connState, fresh>>

(* dialWithCancellation returns a new connection, whatever its name ...      *)
DialSucceeds(q, c) ==
    /\ getPc[q] = "dialing" /\ connState[c] = "none"
    /\ c = CHOOSE d \in Conns : connState[d] = "none"
    /\ connState' = [connState EXCEPT ![c] = "open"]
    /\ conn' = [conn EXCEPT ![q] = c]
    /\ getPc' = [getPc EXCEPT ![q] = "dialed"]
    /\ UNCHANGED <<connection, hasConnection, connecting, closed, fresh>>

(* ... or an error, when the server cannot be reached or a context ends.    *)
DialFails(q) ==
    /\ getPc[q] = "dialing"
    /\ getPc' = [getPc EXCEPT ![q] = "dialed"]
    /\ UNCHANGED <<connection, hasConnection, connecting, closed, connState, conn, fresh>>

(* The critical section after the dial: close(c.connecting) wakes every      *)
(* waiter; an error is returned, a connection that comes after Close is      *)
(* closed, and any other is installed.                                      *)
Wake == [w \in Callers |-> IF getPc[w] = "waiting" THEN "woken" ELSE getPc[w]]

(* Mutant: Close is not noticed.                                            *)
MutDialDoneAfterClose(q) ==
    /\ getPc[q] = "dialed"
    /\ connecting' = FALSE
    /\ getPc' = [Wake EXCEPT ![q] = "returned"]
    /\ IF conn[q] # NoConn
       THEN /\ connection' = conn[q] /\ hasConnection' = TRUE
            /\ fresh' = TRUE
       ELSE UNCHANGED <<connection, hasConnection, fresh>>
    /\ UNCHANGED <<closed, connState, conn>>

DialDone(q) ==
    /\ getPc[q] = "dialed"
    /\ connecting' = FALSE
    /\ getPc' = [Wake EXCEPT ![q] = "returned"]
    /\ \/ /\ conn[q] = NoConn
          /\ UNCHANGED <<connection, hasConnection, connState, conn, fresh>>
       \/ /\ conn[q] # NoConn /\ closed
          /\ connState' = [connState EXCEPT ![conn[q]] = "closed"]
          /\ conn' = [conn EXCEPT ![q] = NoConn]
          /\ UNCHANGED <<connection, hasConnection, fresh>>
       \/ /\ conn[q] # NoConn /\ ~closed
          /\ connection' = conn[q]
          /\ hasConnection' = TRUE
          /\ fresh' = TRUE
          /\ UNCHANGED <<connState, conn>>
    /\ UNCHANGED closed

-----------------------------------------------------------------------------
Drop ==
    /\ hasConnection' = FALSE
    /\ connState' = IF hasConnection
                    THEN [connState EXCEPT ![connection] = "closed"] ELSE connState

(* A second Close returns at once.                                          *)
ConnectorClose ==
    /\ ~closed
    /\ closed' = TRUE
    /\ Drop
    /\ UNCHANGED <<connection, connecting, getPc, conn, fresh>>

ConnectorReset ==
    /\ fresh' = FALSE
    /\ Drop
    /\ UNCHANGED <<connection, connecting, closed, getPc, conn>>

(* CloseWithError from a reader or a writer of the connection.              *)
ConnFails(c) ==
    /\ connState[c] = "open"
    /\ connState' = [connState EXCEPT ![c] = "closed"]
    /\ UNCHANGED <<connection, hasConnection, connecting, closed, getPc, conn, fresh>>

GetHead(q) == GetClosed(q) \/ GetCurrent(q) \/ GetWaitOrDial(q)
DialReturns(q) == DialFails(q) \/ \E c \in Conns : DialSucceeds(q, c)

ConnectorNext ==
    \/ \E q \in Callers : \/ GetCall(q) \/ GetHead(q) \/ GetCancelled(q)
                          \/ DialReturns(q) \/ DialDone(q)
    \/ ConnectorClose \/ ConnectorReset
    \/ \E c \in Conns : ConnFails(c)

ConnectorSpec == ConnectorInit /\ [][ConnectorNext]_connectorVars

-----------------------------------------------------------------------------
Dialing(q) == getPc[q] \in {"dialing", "dialed"}

(* Single flight: at most one caller is between make(chan) and close(chan),  *)
(* and the field is set exactly while one is, so close(c.connecting)         *)
(* (connector.go:88) closes the channel this caller made, never nil.        *)
SingleFlight ==
    /\ \A p, q \in Callers : Dialing(p) /\ Dialing(q) => p = q
    /\ connecting <=> \E q \in Callers : Dialing(q)

(* Nothing leaks: an open connection is the current one or still in the      *)
(* hands of the goroutine that dialled it, so Close, Reset or the failure    *)
(* branch of Get will close it.  In particular nothing is open once the      *)
(* connector is closed and no dial is running.                              *)
NoOrphanConnection ==
    \A c \in Conns : connState[c] = "open" =>
        \/ hasConnection /\ connection = c /\ ~closed
        \/ \E q \in Callers : getPc[q] = "dialed" /\ conn[q] = c

(* What Get hands out was installed since the last Reset; only a dial that   *)
(* Reset overtook (its connection is installed later) can be older.         *)
CurrentSinceReset == hasConnection => fresh

(* No lost wake-up: whoever waits, waits for a dial that is running, also    *)
(* when the dial fails, or Close and Reset come meanwhile                   *)
(* (connector.go:66-89).                                                    *)
WaiterHasDialer ==
    \A w \in Callers : getPc[w] = "waiting" => \E q \in Callers : Dialing(q)

(* The callers of Get share one dial (connector.go:58-89).                  *)
DialIsShared == SingleFlight /\ WaiterHasDialer

(* The inductive invariant adds that there is no current connection while a  *)
(* dial runs (the new one would overwrite it) or after Close, and that only  *)
(* a finished dial holds one, which was dialled.                            *)
ConnectorIndInv ==
    /\ ConnectorTypeOK
    /\ SingleFlight
    /\ NoOrphanConnection
    /\ CurrentSinceReset
    /\ WaiterHasDialer
    /\ hasConnection => ~closed /\ ~connecting /\ connection \in Conns
    /\ \A q \in Callers : getPc[q] \in {"idle", "entry", "waiting", "woken", "dialing"}
                            => conn[q] = NoConn
    /\ \A q \in Callers : conn[q] # NoConn => connState[conn[q]] # "none"
=============================================================================
