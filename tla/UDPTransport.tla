---------------------------- MODULE UDPTransport ----------------------------
(***************************************************************************)
(* The UDP DNS transport (dns/transport/udp.go): BaseTransport, Connector,  *)
(* the query identifiers with their callbacks, and one recvLoop per         *)
(* connection.  The network may lose, delay, duplicate and reorder.         *)
(* Buffer sizes are 0, the initial udpSize, and 1, a larger one that the    *)
(* queries of BigQueries advertise with EDNS0.                              *)
(***************************************************************************)
EXTENDS BaseTransport, Connector

CONSTANTS
    IdSpace,      \* number of query identifiers, 2^16 in the code
    BigQueries,   \* queries with an EDNS0 size above the initial one
    None,         \* no callback, no response
    MaxResets     \* bound on the network changes

(* The queries are the callers of the connector.                            *)
ASSUME UDPConstants ==
    /\ Callers = Queries /\ BigQueries \subseteq Queries
    /\ IdSpace \in Nat \ {0} /\ MaxResets \in Nat /\ None \notin Queries
    /\ None \notin [to : Queries, answer : Queries]

VARIABLES
    udpSize,      \* UDPTransport.udpSize
    queryId,      \* UDPTransport.queryId
    callbacks,    \* UDPTransport.callbacks: the query behind each identifier, or None
    pc,           \* where each call of Exchange is
    response,     \* udpCallback.response: the query whose answer it is, or None
    sent,         \* requests written: the answer to each may come at any time, or never
    recvPc,       \* where the recvLoop of each connection is
    recvSize,     \* the size of the buffer it reads into
    captured,     \* the callback it looked up and its message, or None
    overtaken,    \* connections that a Reset found dialled but not yet installed
    networkResets \* the network changes so far

udpVars == <<udpSize, queryId, callbacks, pc, response, sent, recvPc, recvSize, captured,
             overtaken, networkResets>>
vars == <<baseVars, connectorVars, udpVars>>

Ids == 0 .. IdSpace - 1
Size(q) == IF q \in BigQueries THEN 1 ELSE 0

TypeOK ==
    /\ BaseTypeOK /\ ConnectorTypeOK
    /\ udpSize \in {0, 1} /\ queryId \in Ids
    /\ callbacks \in [Ids -> Queries \union {None}]
    /\ pc \in [Queries -> {"start", "size", "reset", "get", "write", "await", "end",
                           "done"}]
    /\ response \in [Queries -> Queries \union {None}]
    /\ sent \subseteq [conn : Conns, id : Ids, query : Queries]
    /\ recvPc \in [Conns -> {"load", "read", "deliver", "stopped"}]
    /\ recvSize \in [Conns -> {0, 1}]
    /\ captured \in [Conns -> [to : Queries, answer : Queries] \union {None}]
    /\ overtaken \subseteq Conns
    /\ networkResets \in 0 .. MaxResets

Init ==
    /\ BaseInit /\ ConnectorInit
    /\ udpSize = 0 /\ queryId = 0
    /\ callbacks = [i \in Ids |-> None]
    /\ pc = [q \in Queries |-> "start"]
    /\ response = [q \in Queries |-> None]
    /\ sent = {}
    /\ recvPc = [c \in Conns |-> "load"]
    /\ recvSize = [c \in Conns |-> 0]
    /\ captured = [c \in Conns |-> None]
    /\ overtaken = {}
    /\ networkResets = 0

Goto(q, from, to) == pc[q] = from /\ pc' = [pc EXCEPT ![q] = to]

-----------------------------------------------------------------------------
(* Mutant: the query is counted without a look at the state.                *)
MutBegin(q) ==
    /\ Goto(q, "start", "size")
    /\ inFlight' = inFlight + 1 /\ active' = active \union {q}
    /\ UNCHANGED <<state, queriesComplete, drained, closeCtxDone, closePc, connectorVars, udpSize,
                   queryId, callbacks, response, sent, recvPc, recvSize, captured, overtaken,
                   networkResets>>

(* Exchange: BeginQuery, or ErrTransportClosed.                             *)
Begin(q) ==
    /\ Goto(q, "start", "size") /\ BeginQuery(q)
    /\ UNCHANGED <<connectorVars, udpSize, queryId, callbacks, response, sent, recvPc, recvSize,
                   captured, overtaken, networkResets>>

Refused(q) ==
    /\ Goto(q, "start", "done") /\ state # "Started"
    /\ UNCHANGED <<baseVars, connectorVars, udpSize, queryId, callbacks, response, sent, recvPc,
                   recvSize, captured, overtaken, networkResets>>

(* Mutant: the size is raised without a Reset.                              *)
MutRaiseSize(q) ==
    /\ Goto(q, "size", "get")
    /\ udpSize' = IF Size(q) > udpSize THEN Size(q) ELSE udpSize
    /\ UNCHANGED <<baseVars, connectorVars, queryId, callbacks, response, sent, recvPc, recvSize,
                   captured, overtaken, networkResets>>

(* exchange: the loop around CompareAndSwap raises udpSize atomically, and   *)
(* only then comes the Reset.                                               *)
RaiseSize(q) ==
    /\ Goto(q, "size", IF Size(q) > udpSize THEN "reset" ELSE "get")
    /\ udpSize' = IF Size(q) > udpSize THEN Size(q) ELSE udpSize
    /\ UNCHANGED <<baseVars, connectorVars, queryId, callbacks, response, sent, recvPc, recvSize,
                   captured, overtaken, networkResets>>

Overtake == overtaken' = overtaken \union
    {conn[q] : q \in {p \in Queries : getPc[p] = "dialed" /\ conn[p] # NoConn}}

SizeReset(q) ==
    /\ Goto(q, "reset", "get") /\ ConnectorReset /\ Overtake
    /\ UNCHANGED <<baseVars, udpSize, queryId, callbacks, response, sent, recvPc, recvSize,
                   captured, networkResets>>

(* connector.Get; a wait there ends early only if the query's context or     *)
(* the transport's is done.                                                 *)
Get(q) ==
    /\ pc[q] = "get" /\ UNCHANGED <<pc, baseVars, udpSize, queryId, callbacks, response, sent,
                                    recvPc, recvSize, captured, overtaken, networkResets>>
    /\ GetCall(q) \/ GetHead(q) \/ DialReturns(q) \/ DialDone(q)

GetTimeout(q) ==
    /\ pc[q] = "get" /\ GetCancelled(q)
    /\ UNCHANGED <<pc, baseVars, udpSize, queryId, callbacks, response, sent, recvPc, recvSize,
                   captured, overtaken, networkResets>>

(* nextAvailableQueryId counts up, modulo 2^16, from the last identifier to  *)
(* the first one without a callback; a full round without one is an error.  *)
FreeSteps == {k \in 1 .. IdSpace : callbacks[(queryId + k) % IdSpace] = None}

(* Mutant: the lowest free identifier.                                      *)
MutNextAvailableQueryId ==
    CHOOSE i \in Ids : callbacks[i] = None /\ \A j \in Ids : callbacks[j] = None => i <= j

nextAvailableQueryId ==
    (queryId + (CHOOSE k \in FreeSteps : \A j \in FreeSteps : k <= j)) % IdSpace

(* With a connection, the callback is registered under callbackAccess.      *)
Register(q) ==
    /\ getPc[q] = "returned" /\ conn[q] # NoConn /\ FreeSteps # {}
    /\ Goto(q, "get", "write")
    /\ queryId' = nextAvailableQueryId
    /\ callbacks' = [callbacks EXCEPT ![nextAvailableQueryId] = q]
    /\ UNCHANGED <<baseVars, connectorVars, udpSize, response, sent, recvPc, recvSize, captured,
                   overtaken, networkResets>>

(* Get returned an error, or there is no free identifier.                   *)
GetError(q) ==
    /\ getPc[q] = "returned" /\ (conn[q] = NoConn \/ FreeSteps = {})
    /\ Goto(q, "get", "end")
    /\ UNCHANGED <<baseVars, connectorVars, udpSize, queryId, callbacks, response, sent, recvPc,
                   recvSize, captured, overtaken, networkResets>>

IdOf(q) == CHOOSE i \in Ids : callbacks[i] = q

(* conn.Write succeeds on an open connection ...                            *)
Write(q) ==
    /\ Goto(q, "write", "await") /\ connState[conn[q]] = "open"
    /\ sent' = sent \union {[conn |-> conn[q], id |-> IdOf(q), query |-> q]}
    /\ UNCHANGED <<baseVars, connectorVars, udpSize, queryId, callbacks, response, recvPc,
                   recvSize, captured, overtaken, networkResets>>

(* Mutant: the identifier of a query without an answer is not released.     *)
MutRelease(q) ==
    callbacks' = IF response[q] # None THEN [callbacks EXCEPT ![IdOf(q)] = None] ELSE callbacks

(* From here on every return of exchange makes the deferred delete.         *)
Release(q) == callbacks' = [callbacks EXCEPT ![IdOf(q)] = None]

(* ... and its failure closes the connection.                               *)
WriteFails(q) ==
    /\ Goto(q, "write", "end") /\ Release(q)
    /\ connState' = [connState EXCEPT ![conn[q]] = "closed"]
    /\ UNCHANGED <<baseVars, connection, hasConnection, connecting, closed, getPc, conn, fresh,
                   udpSize, queryId, response, sent, recvPc, recvSize, captured, overtaken,
                   networkResets>>

Leave(q, from, to) ==
    /\ Goto(q, from, to) /\ Release(q)
    /\ UNCHANGED <<baseVars, connectorVars, udpSize, queryId, response, sent, recvPc, recvSize,
                   captured, overtaken, networkResets>>

(* The message does not pack.                                               *)
PackFails(q) == Leave(q, "write", "end")

(* The cases of the select.  A truncated answer is then asked again over    *)
(* TCP, at "end": exchangeTCP touches no state of the transport.            *)
Answered(q) == response[q] # None /\ Leave(q, "await", "end")

(* Mutant: the select does not watch the transport's context.               *)
MutAborted(q) == Leave(q, "await", "end") /\ connState[conn[q]] = "closed"

Aborted(q) ==
    /\ Leave(q, "await", "end")
    /\ closeCtxDone \/ connState[conn[q]] = "closed"

AwaitTimeout(q) == Leave(q, "await", "end")

End(q) ==
    /\ Goto(q, "end", "done") /\ EndQuery(q)
    /\ UNCHANGED <<connectorVars, udpSize, queryId, callbacks, response, sent, recvPc, recvSize,
                   captured, overtaken, networkResets>>

-----------------------------------------------------------------------------
(* recvLoop: allocate a buffer of the current size, read, look the callback  *)
(* up, deliver.                                                             *)
Recv(c, from, to) == recvPc[c] = from /\ recvPc' = [recvPc EXCEPT ![c] = to]

RecvLoad(c) ==
    /\ connState[c] # "none" /\ Recv(c, "load", "read")
    /\ recvSize' = [recvSize EXCEPT ![c] = udpSize]
    /\ UNCHANGED <<baseVars, connectorVars, udpSize, queryId, callbacks, pc, response, sent,
                   captured, overtaken, networkResets>>

(* A datagram of size s; one that the buffer cuts off does not unpack.      *)
RecvMessage(c, m, s) ==
    /\ connState[c] = "open" /\ m.conn = c /\ s <= Size(m.query)
    /\ IF s <= recvSize[c] /\ callbacks[m.id] # None
       THEN /\ Recv(c, "read", "deliver")
            /\ captured' = [captured EXCEPT ![c] = [to |-> callbacks[m.id], answer |-> m.query]]
       ELSE Recv(c, "read", "load") /\ UNCHANGED captured
    /\ recvSize' = [recvSize EXCEPT ![c] = 0]
    /\ UNCHANGED <<baseVars, connectorVars, udpSize, queryId, callbacks, pc, response, sent,
                   overtaken, networkResets>>

Deliver(c) ==
    /\ Recv(c, "deliver", "load")
    /\ response' = [response EXCEPT ![captured[c].to] =
                                        IF @ = None THEN captured[c].answer ELSE @]
    /\ captured' = [captured EXCEPT ![c] = None]
    /\ UNCHANGED <<baseVars, connectorVars, udpSize, queryId, callbacks, pc, sent, recvSize,
                   overtaken, networkResets>>

(* A read error, or the end of the connection, ends the loop.               *)
RecvFails(c) ==
    /\ connState[c] # "none" /\ Recv(c, "read", "stopped")
    /\ connState' = [connState EXCEPT ![c] = "closed"]
    /\ recvSize' = [recvSize EXCEPT ![c] = 0]
    /\ UNCHANGED <<baseVars, connection, hasConnection, connecting, closed, getPc, conn, fresh,
                   udpSize, queryId, callbacks, pc, response, sent, captured, overtaken,
                   networkResets>>

-----------------------------------------------------------------------------
Start == SetStarted /\ UNCHANGED <<connectorVars, udpVars>>

(* UDPTransport.Close: BaseTransport.Close, then connector.Close.  A second  *)
(* Close finds Closing or Closed and comes to connector.Close at once, also  *)
(* while the first one still waits for the queries.                         *)
CloseBase(s) == CloserStep(s) /\ UNCHANGED <<connectorVars, udpVars>>

CloseConnector ==
    /\ state \in {"Closing", "Closed"} /\ ConnectorClose
    /\ UNCHANGED <<baseVars, udpVars>>

(* A network change, at most MaxResets times.                               *)
Reset ==
    /\ networkResets < MaxResets /\ networkResets' = networkResets + 1
    /\ ConnectorReset /\ Overtake
    /\ UNCHANGED <<baseVars, udpSize, queryId, callbacks, pc, response, sent, recvPc, recvSize,
                   captured>>

ExchangeStep(q) ==
    \/ Begin(q) \/ Refused(q) \/ RaiseSize(q) \/ SizeReset(q) \/ Get(q) \/ GetError(q)
    \/ Register(q) \/ PackFails(q) \/ Write(q) \/ WriteFails(q)
    \/ Answered(q) \/ Aborted(q) \/ End(q)

RecvStep(c) ==
    \/ RecvLoad(c) \/ Deliver(c) \/ RecvFails(c)
    \/ \E m \in sent, s \in {0, 1} : RecvMessage(c, m, s)

Next ==
    \/ Start \/ Reset \/ CloseConnector
    \/ \E q \in Queries : ExchangeStep(q) \/ GetTimeout(q) \/ AwaitTimeout(q)
    \/ \E s \in Closers : CloseBase(s)
    \/ \E c \in Conns : RecvStep(c)

Spec == Init /\ [][Next]_vars

(* Goroutines run: a query that began takes the steps it can take, dials     *)
(* return, and one that waits in Get notices the end of the transport's      *)
(* context.  No answer, no timeout and no step of a closer is assumed.      *)
Fairness ==
    \A q \in Queries :
        WF_vars(pc[q] # "start" /\ (ExchangeStep(q) \/ (closeCtxDone /\ GetTimeout(q))))

FairSpec == Spec /\ Fairness

-----------------------------------------------------------------------------
(* The transport uses its BaseTransport and its Connector as they are meant  *)
(* to be used: every behaviour is one of the component, whose theorems then  *)
(* hold of it (udp.go:86-133, 160-208).                                     *)
ImplementsBaseTransport == BaseSpec
ImplementsConnector == ConnectorSpec
ImplementsParts == ImplementsBaseTransport /\ ImplementsConnector

(* While fewer queries than identifiers follow it, a late answer reaches no  *)
(* other query: nextAvailableQueryId (udp.go:105) does not hand a released   *)
(* identifier out again before the counter has come round.                  *)
AnswerIsForQuery == \A q \in Queries : response[q] \in {None, q}

(* An identifier is taken exactly while its query is between the             *)
(* registration and the deferred delete (udp.go:176-189): none is lost, on   *)
(* whatever path the query ends.                                            *)
NoLostId ==
    \A q \in Queries :
        Cardinality({i \in Ids : callbacks[i] = q}) =
            IF pc[q] \in {"write", "await"} THEN 1 ELSE 0

(* A query that advertised a large buffer awaits its answer on a connection  *)
(* that reads with a small one only until the Reset that follows the raise   *)
(* (udp.go:160), or if that Reset came while the connection was dialled but  *)
(* not yet installed.                                                       *)
NarrowReadIsTransient ==
    \A q \in BigQueries :
        LET c == conn[q] IN
        /\ pc[q] = "await" /\ connState[c] = "open" /\ recvPc[c] = "read"
        /\ recvSize[c] < udpSize
        => c \in overtaken \/ \E p \in Queries : pc[p] = "reset"

(* Nothing is left behind: when a Close has returned and the queries have    *)
(* ended, every connection is closed, also those dialled during the close.  *)
NothingOpenAfterClose ==
    closed /\ active = {} => \A c \in Conns : connState[c] # "open"

(* Closing ends every running query without its own timeout, except for the  *)
(* TCP fallback, which ends by itself; so Shutdown does not need its         *)
(* timeout (udp.go:210-220, connector.go:72-80).                            *)
CloseEndsQueries == closeCtxDone ~> active = {}

(* Where a query is determines whether it counts as active, whether it can   *)
(* be in the connector, and whether an identifier, and only one, is its own. *)
ExchangeInv ==
    /\ \A q \in Queries : q \in active <=> pc[q] \notin {"start", "done"}
    /\ \A q \in Queries : getPc[q] \notin {"idle", "returned"} => pc[q] = "get"
    /\ \A q \in Queries : pc[q] \in {"write", "await"} =>
          conn[q] \in Conns /\ \E i \in Ids : callbacks[i] = q
    /\ \A i \in Ids : callbacks[i] # None => pc[callbacks[i]] \in {"write", "await"}
    /\ \A i, j \in Ids : callbacks[i] # None /\ callbacks[i] = callbacks[j] => i = j

(* A recvLoop delivers only to a callback it has found.                     *)
DeliverInv == \A c \in Conns : recvPc[c] = "deliver" => captured[c] # None

(* The inductive invariant on top of those of the two parts.                *)
IndInv == TypeOK /\ ExchangeInv /\ DeliverInv
=============================================================================
