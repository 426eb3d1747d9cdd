------------------------- MODULE UDPTransportProofs -------------------------
(***************************************************************************)
(* TLAPS proofs about the UDP transport and its two parts: BaseTransport,    *)
(* for any finite set of queries and any closers; Connector, for any         *)
(* callers, connections and resets; and UDPTransport, which implements both. *)
(***************************************************************************)
EXTENDS UDPTransport, FiniteSetTheorems, WellFoundedInduction, TLAPS

(* A free identifier exists unless FreeSteps is empty: nextAvailableQueryId  *)
(* is one of the range, without a callback.                                 *)
LEMMA NextAvailableIsFree ==
    ASSUME queryId \in Ids, FreeSteps # {}
    PROVE  nextAvailableQueryId \in Ids /\ callbacks[nextAvailableQueryId] = None
<1>1. FreeSteps \subseteq Nat
  BY UDPConstants DEF FreeSteps
<1>2. \E k \in FreeSteps : \A j \in FreeSteps : k <= j
  <2>1. PICK k \in FreeSteps : \A j \in FreeSteps : ~(<<j, k>> \in OpToRel(<, Nat))
    BY <1>1, WFMin, NatLessThanWellFounded, Zenon
  <2>2. ASSUME NEW j \in FreeSteps PROVE k <= j
    <3>1. j \in Nat /\ k \in Nat /\ <<j, k>> \in Nat \X Nat /\ <<j, k>>[1] = j /\ <<j, k>>[2] = k
      BY <1>1, Zenon
    <3>2. ~(j < k)
      BY <2>1, <3>1, Zenon DEF OpToRel
    <3> QED
      BY <3>1, <3>2
  <2> QED
    BY <2>2, Zenon
<1>3. PICK k \in FreeSteps :
        nextAvailableQueryId = (queryId + k) % IdSpace
  BY <1>2, Zenon DEF nextAvailableQueryId
<1>4. (queryId + k) % IdSpace \in Ids
  BY <1>1, UDPConstants DEF Ids
<1> QED
  BY <1>3, <1>4, Zenon DEF FreeSteps

(* The variables of the transport stay in their types; those of the two      *)
(* parts are their own invariants' matter.                                  *)
LEMMA NextTypeOK ==
    ASSUME TypeOK, ExchangeInv, DeliverInv, BaseTypeOK', ConnectorTypeOK', [Next]_vars
    PROVE  TypeOK'
<1> USE DEF TypeOK, Goto
<1>1. CASE Start \/ Reset \/ CloseConnector
  <2>1. overtaken' \subseteq Conns /\ networkResets' \in 0 .. MaxResets
    BY <1>1, UDPConstants DEF Start, Reset, CloseConnector, udpVars, Overtake, ConnectorTypeOK
  <2> QED
    BY <1>1, <2>1, Zenon DEF Start, Reset, CloseConnector, udpVars
<1>2. ASSUME NEW q \in Queries, Begin(q) \/ Refused(q) \/ End(q) \/ GetError(q) PROVE TypeOK'
  BY <1>2, Zenon DEF Begin, Refused, End, GetError
<1>3. ASSUME NEW q \in Queries, RaiseSize(q) PROVE TypeOK'
  BY <1>3, Zenon DEF RaiseSize, Size
<1>4. ASSUME NEW q \in Queries, SizeReset(q) PROVE TypeOK'
  BY <1>4, UDPConstants DEF SizeReset, Overtake, ConnectorTypeOK
<1>5. ASSUME NEW q \in Queries, Get(q) \/ GetTimeout(q) PROVE TypeOK'
  BY <1>5, Zenon DEF Get, GetTimeout
<1>6. ASSUME NEW q \in Queries, Register(q) PROVE TypeOK'
  BY <1>6, NextAvailableIsFree, Zenon DEF Register
<1>7. ASSUME NEW q \in Queries, Write(q) PROVE TypeOK'
  <2>1. conn[q] \in Conns /\ IdOf(q) \in Ids
    BY <1>7, Zenon DEF Write, IdOf, ExchangeInv
  <2>2. sent' \subseteq [conn : Conns, id : Ids, query : Queries]
    BY <1>7, <2>1 DEF Write
  <2> QED
    BY <1>7, <2>2, Zenon DEF Write
<1>8. ASSUME NEW q \in Queries, NEW from \in {"write", "await"}, Leave(q, from, "end")
      PROVE  TypeOK'
  BY <1>8, Zenon DEF Leave, Release
<1>9. ASSUME NEW q \in Queries, WriteFails(q) PROVE TypeOK'
  BY <1>9, Zenon DEF WriteFails, Release
<1>10. ASSUME NEW s \in Closers, CloseBase(s) PROVE TypeOK'
  BY <1>10, Zenon DEF CloseBase, udpVars
<1>11. ASSUME NEW c \in Conns, RecvLoad(c) \/ RecvFails(c) PROVE TypeOK'
  BY <1>11 DEF RecvLoad, RecvFails, Recv
<1>12. ASSUME NEW c \in Conns, Deliver(c) PROVE TypeOK'
  <2>1. captured[c] \in [to : Queries, answer : Queries]
    BY <1>12, Zenon DEF Deliver, Recv, DeliverInv
  <2>2. captured[c].to \in Queries /\ captured[c].answer \in Queries
    BY <2>1, Zenon
  <2>3. response' \in [Queries -> Queries \union {None}]
    BY <1>12, <2>2, Zenon DEF Deliver
  <2> QED
    BY <1>12, <2>3, Zenon DEF Deliver, Recv
<1>13. ASSUME NEW c \in Conns, NEW m \in sent, NEW s \in {0, 1}, RecvMessage(c, m, s)
       PROVE  TypeOK'
  <2>1. m.id \in Ids /\ m.query \in Queries
    BY Zenon
  <2>2. captured' \in [Conns -> [to : Queries, answer : Queries] \union {None}]
    BY <1>13, <2>1 DEF RecvMessage
  <2> QED
    BY <1>13, <2>2, Zenon DEF RecvMessage, Recv
<1>14. CASE UNCHANGED vars
  BY <1>14, Zenon DEF vars, udpVars
<1> HIDE DEF TypeOK, Goto
<1>15. ASSUME NEW q \in Queries, ExchangeStep(q) \/ GetTimeout(q) \/ AwaitTimeout(q) PROVE TypeOK'
  BY <1>2, <1>3, <1>4, <1>5, <1>6, <1>7, <1>8, <1>9, <1>15, Zenon
     DEF ExchangeStep, PackFails, Answered, Aborted, AwaitTimeout
<1>16. ASSUME NEW c \in Conns, RecvStep(c) PROVE TypeOK'
  BY <1>11, <1>12, <1>13, <1>16, Zenon DEF RecvStep
<1> QED
  BY <1>1, <1>10, <1>14, <1>15, <1>16, Zenon DEF Next

LEMMA NextExchangeInv ==
    ASSUME TypeOK, ExchangeInv, [Next]_vars
    PROVE  ExchangeInv'
<1> USE DEF ExchangeInv
<1> DEFINE Same == UNCHANGED <<active, getPc, conn, pc, callbacks>>
<1>0. ASSUME Same PROVE ExchangeInv'
  BY <1>0, Zenon
<1>1. CASE Start \/ Reset \/ CloseConnector
  BY <1>0, <1>1, Zenon DEF Start, SetStarted, Reset, CloseConnector, ConnectorClose, ConnectorReset,
     udpVars, baseVars, connectorVars
<1>2. ASSUME NEW q \in Queries, Begin(q) \/ Refused(q) \/ End(q) PROVE ExchangeInv'
  BY <1>2 DEF Begin, Refused, End, Goto, BeginQuery, EndQuery, connectorVars, baseVars, TypeOK
<1>3. ASSUME NEW q \in Queries, RaiseSize(q) \/ SizeReset(q) \/ GetError(q) \/ Write(q)
      PROVE  ExchangeInv'
  <2>1. UNCHANGED <<active, getPc, conn, callbacks>>
    BY <1>3, Zenon DEF RaiseSize, SizeReset, GetError, Write, ConnectorReset, baseVars,
       connectorVars
  <2>2. CASE RaiseSize(q) \/ SizeReset(q)
    BY <2>1, <2>2 DEF RaiseSize, SizeReset, Goto, TypeOK
  <2>3. CASE GetError(q)
    BY <2>1, <2>3 DEF GetError, Goto, TypeOK
  <2>4. CASE Write(q)
    BY <2>1, <2>4 DEF Write, Goto, TypeOK
  <2> QED
    BY <1>3, <2>2, <2>3, <2>4, Zenon
<1>4. ASSUME NEW q \in Queries, Get(q) \/ GetTimeout(q) PROVE ExchangeInv'
  <2> DEFINE Others == \A p \in Queries \ {q} :
                /\ getPc[p] \in {"idle", "returned"} => getPc'[p] = getPc[p]
                /\ conn'[p] = conn[p]
  <2>a. ASSUME GetCall(q) \/ GetHead(q) \/ GetCancelled(q) PROVE Others
    BY <2>a, UDPConstants DEF GetCall, GetHead, GetClosed, GetCurrent, GetWaitOrDial,
       GetCancelled, Return, ConnectorTypeOK, TypeOK
  <2>b. ASSUME DialReturns(q) PROVE Others
    BY <2>b, UDPConstants DEF DialReturns, DialFails, DialSucceeds, ConnectorTypeOK, TypeOK
  <2>c. ASSUME DialDone(q) PROVE Others
    BY <2>c, UDPConstants DEF DialDone, Wake, ConnectorTypeOK, TypeOK
  <2>1. pc[q] = "get" /\ UNCHANGED <<active, pc, callbacks>> /\ Others
    BY <1>4, <2>a, <2>b, <2>c, Zenon DEF Get, GetTimeout, baseVars
  <2>2. \A p \in Queries \ {q} : getPc'[p] \notin {"idle", "returned"} => pc[p] = "get"
    BY <2>1, Zenon
  <2> QED
    BY <2>1, <2>2
<1>5. ASSUME NEW q \in Queries, Register(q) PROVE ExchangeInv'
  <2> DEFINE n == nextAvailableQueryId
  <2>1. n \in Ids /\ callbacks[n] = None
    BY <1>5, NextAvailableIsFree, Zenon DEF Register, TypeOK
  <2>2. /\ pc[q] = "get" /\ pc' = [pc EXCEPT ![q] = "write"]
        /\ callbacks' = [callbacks EXCEPT ![n] = q]
        /\ UNCHANGED <<active, getPc, conn>>
        /\ conn[q] \in Conns /\ getPc[q] = "returned"
    BY <1>5, UDPConstants DEF Register, Goto, baseVars, connectorVars, TypeOK, ConnectorTypeOK
  <2> HIDE DEF n
  <2>3. callbacks'[n] = q /\ \A i \in Ids \ {n} : callbacks'[i] = callbacks[i]
    BY <2>1, <2>2 DEF TypeOK
  <2>4. pc'[q] = "write" /\ \A p \in Queries \ {q} : pc'[p] = pc[p]
    BY <2>2 DEF TypeOK
  <2>5. \A i \in Ids : callbacks[i] # q
    BY <2>2, UDPConstants
  <2>6. \A i, j \in Ids : callbacks'[i] # None /\ callbacks'[i] = callbacks'[j] => i = j
    BY <2>3, <2>5
  <2>7. \A i \in Ids : callbacks'[i] # None => pc'[callbacks'[i]] \in {"write", "await"}
    BY <2>3, <2>4, <2>5 DEF TypeOK
  <2>8. \A p \in Queries : pc'[p] \in {"write", "await"} =>
              conn'[p] \in Conns /\ \E i \in Ids : callbacks'[i] = p
    <3> SUFFICES ASSUME NEW p \in Queries, pc'[p] \in {"write", "await"}
                 PROVE  conn'[p] \in Conns /\ \E i \in Ids : callbacks'[i] = p
      BY Zenon
    <3>1. CASE p = q
      BY <2>1, <2>2, <2>3, <3>1, Zenon
    <3>2. CASE p # q
      BY <2>1, <2>2, <2>3, <2>4, <3>2, UDPConstants
    <3> QED
      BY <3>1, <3>2, Zenon
  <2> QED
    BY <2>2, <2>4, <2>6, <2>7, <2>8
<1>6. ASSUME NEW q \in Queries, NEW from \in {"write", "await"}, Goto(q, from, "end"),
             Release(q), UNCHANGED <<active, getPc, conn>>
      PROVE  ExchangeInv'
  <2>1. IdOf(q) \in Ids /\ callbacks[IdOf(q)] = q
    BY <1>6, Zenon DEF IdOf, Goto
  <2>2. /\ callbacks'[IdOf(q)] = None
        /\ \A i \in Ids \ {IdOf(q)} : callbacks'[i] = callbacks[i] /\ callbacks[i] # q
    BY <1>6, <2>1, UDPConstants DEF Release, TypeOK
  <2>3. pc'[q] = "end" /\ \A p \in Queries \ {q} : pc'[p] = pc[p]
    BY <1>6 DEF Goto, TypeOK
  <2>4. \A i \in Ids : callbacks'[i] # None => pc'[callbacks'[i]] \in {"write", "await"}
    BY <2>1, <2>2, <2>3 DEF TypeOK
  <2>5. \A p \in Queries : pc'[p] \in {"write", "await"} =>
              conn'[p] \in Conns /\ \E i \in Ids : callbacks'[i] = p
    BY <1>6, <2>1, <2>2, <2>3
  <2>6. \A i, j \in Ids : callbacks'[i] # None /\ callbacks'[i] = callbacks'[j] => i = j
    BY <2>2
  <2> QED
    BY <1>6, <2>3, <2>4, <2>5, <2>6 DEF Goto
<1>7. ASSUME NEW q \in Queries, WriteFails(q) \/ PackFails(q) \/ Answered(q) \/ Aborted(q)
                                \/ AwaitTimeout(q)
      PROVE  ExchangeInv'
  BY <1>6, <1>7, Zenon DEF WriteFails, PackFails, Answered, Aborted, AwaitTimeout, Leave,
     connectorVars,
     baseVars
<1>8. ASSUME NEW s \in Closers, CloseBase(s) PROVE ExchangeInv'
  BY <1>0, <1>8, Zenon DEF CloseBase, CloserStep, Shutdown, ShutdownCancel, ShutdownDrained,
     ShutdownTimeout, udpVars, connectorVars
<1>9. ASSUME NEW c \in Conns, RecvStep(c) PROVE ExchangeInv'
  BY <1>0, <1>9, Zenon DEF RecvStep, RecvLoad, RecvMessage, Deliver, RecvFails, baseVars,
     connectorVars
<1>10. CASE UNCHANGED vars
  BY <1>0, <1>10, Zenon DEF vars, udpVars, baseVars, connectorVars
<1> HIDE DEF ExchangeInv
<1>11. ASSUME NEW q \in Queries, ExchangeStep(q) PROVE ExchangeInv'
  BY <1>2, <1>3, <1>4, <1>5, <1>7, <1>11, Zenon DEF ExchangeStep
<1> QED
  BY <1>1, <1>4, <1>7, <1>8, <1>9, <1>10, <1>11, Zenon DEF Next

LEMMA NextDeliverInv ==
    ASSUME TypeOK, DeliverInv, [Next]_vars
    PROVE  DeliverInv'
<1> USE DEF DeliverInv
<1>1. ASSUME NEW c \in Conns, RecvLoad(c) \/ Deliver(c) \/ RecvFails(c) PROVE DeliverInv'
  BY <1>1 DEF RecvLoad, Deliver, RecvFails, Recv, TypeOK
<1>2. ASSUME NEW c \in Conns, NEW m \in sent, NEW s \in {0, 1}, RecvMessage(c, m, s)
      PROVE  DeliverInv'
  <2>1. callbacks[m.id] # None => [to |-> callbacks[m.id], answer |-> m.query] # None
    BY UDPConstants DEF TypeOK
  <2> QED
    BY <1>2, <2>1 DEF RecvMessage, Recv, TypeOK
<1>3. ASSUME UNCHANGED <<recvPc, captured>> PROVE DeliverInv'
  BY <1>3, Zenon
<1>4. ASSUME NEW q \in Queries, ExchangeStep(q) \/ GetTimeout(q) \/ AwaitTimeout(q)
      PROVE  UNCHANGED <<recvPc, captured>>
  BY <1>4, Zenon DEF ExchangeStep, Begin, Refused, RaiseSize, SizeReset, Get, GetTimeout, GetError,
     Register, PackFails, Write, WriteFails, Leave, Answered, Aborted, AwaitTimeout, End
<1> HIDE DEF DeliverInv
<1>5. ASSUME NEW c \in Conns, RecvStep(c) PROVE DeliverInv'
  BY <1>1, <1>2, <1>5, Zenon DEF RecvStep
<1> QED
  BY <1>3, <1>4, <1>5, Zenon DEF Next, vars, udpVars, Start, Reset, CloseConnector, CloseBase

-----------------------------------------------------------------------------
(* The set of active queries is finite, and entering or leaving changes its *)
(* cardinality by one.                                                      *)
LEMMA ActiveCardinality ==
    ASSUME NEW A, A \subseteq Queries, NEW q \in Queries
    PROVE  /\ IsFiniteSet(A) /\ Cardinality(A) \in Nat
           /\ (Cardinality(A) = 0) <=> (A = {})
           /\ q \notin A => Cardinality(A \union {q}) = Cardinality(A) + 1
           /\ q \in A => Cardinality(A \ {q}) = Cardinality(A) - 1
<1>1. IsFiniteSet(A)
  BY FiniteQueries, FS_Subset, Zenon
<1>2. Cardinality(A) \in Nat /\ ((Cardinality(A) = 0) <=> (A = {}))
  BY <1>1, FS_CardinalityType, FS_EmptySet, Zenon
<1>3. q \notin A => Cardinality(A \union {q}) = Cardinality(A) + 1
  BY <1>1, FS_AddElement, Zenon
<1>4. q \in A => Cardinality(A \ {q}) = Cardinality(A) - 1
  BY <1>1, FS_RemoveElement, Zenon
<1> QED
  BY <1>1, <1>2, <1>3, <1>4, Zenon

LEMMA InitBaseIndInv == BaseInit => BaseIndInv
<1> SUFFICES ASSUME BaseInit PROVE BaseIndInv
  BY Zenon
<1>1. Cardinality(active) = 0
  BY FS_EmptySet, Zenon DEF BaseInit
<1> QED
  BY <1>1, Zenon DEF BaseInit, BaseIndInv, BaseTypeOK, States, ClosePcs, InFlightExact,
     NoLostWakeup,
              OneClosingOwner

LEMMA BeginQueryIndInv ==
    ASSUME BaseIndInv, NEW q \in Queries, BeginQuery(q)
    PROVE  BaseIndInv'
<1> USE DEF BaseIndInv, BaseTypeOK, States, ClosePcs
<1>1. Cardinality(active \union {q}) = Cardinality(active) + 1
  BY ActiveCardinality, Zenon DEF BeginQuery
<1>2. BaseTypeOK' /\ InFlightExact'
  BY <1>1 DEF BeginQuery, InFlightExact
<1>3. \A s \in Closers : closePc[s] = "idle"
  BY Zenon DEF BeginQuery
<1> QED
  BY <1>2, <1>3, Zenon DEF BeginQuery, NoLostWakeup, OneClosingOwner

LEMMA EndQueryIndInv ==
    ASSUME BaseIndInv, NEW q \in Queries, EndQuery(q)
    PROVE  BaseIndInv'
<1> USE DEF BaseIndInv, BaseTypeOK, States, ClosePcs
<1>1. /\ Cardinality(active \ {q}) = Cardinality(active) - 1
      /\ Cardinality(active) \in Nat
      /\ (Cardinality(active \ {q}) = 0) <=> (active \ {q} = {})
  <2>1. active \ {q} \subseteq Queries
    BY Zenon
  <2> QED
    BY <2>1, ActiveCardinality, Zenon DEF EndQuery
<1>2. /\ q \in active /\ active' = active \ {q}
      /\ inFlight' = inFlight - 1
      /\ (inFlight' = 0) <=> (active' = {})
  BY <1>1, ActiveCardinality DEF EndQuery, InFlightExact
<1>3. BaseTypeOK' /\ InFlightExact'
  <2>1. drained' \in BOOLEAN /\ queriesComplete' \in {"nil", "open"}
    BY Zenon DEF EndQuery
  <2> QED
    BY <1>1, <1>2, <2>1 DEF EndQuery, InFlightExact
<1>4. NoLostWakeup' /\ OneClosingOwner'
  BY <1>2, Zenon DEF EndQuery, NoLostWakeup, OneClosingOwner
<1>5. drained' => active' = {}
  BY <1>2, Zenon DEF EndQuery
<1>6. state \in {"New", "Started"} => ~drained'
  BY <1>2, Zenon DEF EndQuery, NoLostWakeup
<1> QED
  BY <1>2, <1>3, <1>4, <1>5, <1>6, Zenon DEF EndQuery

LEMMA ShutdownIndInv ==
    ASSUME BaseIndInv, NEW s \in Closers, Shutdown(s)
    PROVE  BaseIndInv'
<1> USE DEF BaseIndInv, BaseTypeOK, States, ClosePcs
<1>1. (inFlight = 0) <=> (active = {})
  BY FS_EmptySet, FS_Subset, FiniteQueries, Zenon DEF InFlightExact
<1>2. BaseTypeOK' /\ InFlightExact'
  BY Zenon DEF Shutdown, InFlightExact
<1>3. CASE state = "New" \/ (state = "Started" /\ inFlight = 0)
  BY <1>1, <1>2, <1>3 DEF Shutdown, NoLostWakeup, OneClosingOwner
<1>4. CASE state = "Started" /\ inFlight # 0
  BY <1>1, <1>2, <1>4 DEF Shutdown, NoLostWakeup, OneClosingOwner
<1> QED
  BY <1>3, <1>4, Zenon DEF Shutdown

LEMMA CloserIndInv ==
    ASSUME BaseIndInv, NEW s \in Closers,
           ShutdownCancel(s) \/ ShutdownDrained(s) \/ ShutdownTimeout(s)
    PROVE  BaseIndInv'
<1> USE DEF BaseIndInv, BaseTypeOK, States, ClosePcs
<1>1. CASE ShutdownCancel(s)
  BY <1>1 DEF ShutdownCancel, InFlightExact, NoLostWakeup, OneClosingOwner
<1>2. CASE ShutdownDrained(s)
  BY <1>2, Zenon DEF ShutdownDrained, InFlightExact, NoLostWakeup, OneClosingOwner
<1>3. CASE ShutdownTimeout(s)
  BY <1>3, Zenon DEF ShutdownTimeout, InFlightExact, NoLostWakeup, OneClosingOwner
<1> QED
  BY <1>1, <1>2, <1>3, Zenon

LEMMA NextBaseIndInv == BaseIndInv /\ [BaseNext]_baseVars => BaseIndInv'
<1> SUFFICES ASSUME BaseIndInv, [BaseNext]_baseVars PROVE BaseIndInv'
  BY Zenon
<1>1. CASE SetStarted
  BY <1>1, Zenon DEF SetStarted, BaseIndInv, BaseTypeOK, States, ClosePcs, InFlightExact,
     NoLostWakeup,
              OneClosingOwner
<1>2. ASSUME NEW q \in Queries, BeginQuery(q) \/ EndQuery(q) PROVE BaseIndInv'
  BY <1>2, BeginQueryIndInv, EndQueryIndInv, Zenon
<1>3. ASSUME NEW s \in Closers, CloserStep(s) PROVE BaseIndInv'
  BY <1>3, ShutdownIndInv, CloserIndInv, Zenon DEF CloserStep
<1>4. CASE UNCHANGED baseVars
  BY <1>4, Zenon DEF baseVars, BaseIndInv, BaseTypeOK, States, ClosePcs, InFlightExact,
     NoLostWakeup,
              OneClosingOwner
<1> QED
  BY <1>1, <1>2, <1>3, <1>4, Zenon DEF BaseNext

(* The inductive invariant holds in every reachable state.                   *)
THEOREM BaseIndInvHolds == BaseSpec => []BaseIndInv
<1> QED
  BY InitBaseIndInv, NextBaseIndInv, PTL DEF BaseSpec

(* EndQuery never leaves a closer waiting on a channel nobody will close,    *)
(* and a Shutdown that returns nil because the queries are complete leaves   *)
(* none running (base.go:81-139), whatever the number of queries and closers. *)
THEOREM ShutdownIsGracefulHolds == BaseSpec => []ShutdownIsGraceful
<1>1. BaseIndInv => ShutdownIsGraceful
  BY Zenon DEF BaseIndInv, GracefulCloseIsQuiet, ShutdownIsGraceful
<1> QED
  BY <1>1, BaseIndInvHolds, PTL

(* Once closeCancel has been called no query enters (base.go:71-79).         *)
THEOREM NoEntryAfterCancelHolds == BaseSpec => NoEntryAfterCancel
<1>1. BaseIndInv /\ [BaseNext]_baseVars => [closeCtxDone => active' \subseteq active]_baseVars
  <2> SUFFICES ASSUME BaseIndInv, [BaseNext]_baseVars, closeCtxDone PROVE active' \subseteq active
    BY Zenon DEF baseVars
  <2>1. ASSUME NEW q \in Queries, BeginQuery(q) PROVE FALSE
    BY <2>1, Zenon DEF BaseIndInv, BeginQuery
  <2>2. ASSUME NEW q \in Queries, EndQuery(q) PROVE active' \subseteq active
    BY <2>2, Zenon DEF EndQuery
  <2>3. ASSUME NEW s \in Closers, CloserStep(s) PROVE active' = active
    BY <2>3, Zenon DEF CloserStep, Shutdown, ShutdownCancel, ShutdownDrained, ShutdownTimeout
  <2> QED
    BY <2>1, <2>2, <2>3, Zenon DEF BaseNext, SetStarted, baseVars
<1> QED
  BY <1>1, BaseIndInvHolds, PTL DEF BaseSpec, NoEntryAfterCancel

-----------------------------------------------------------------------------
LEMMA InitConnectorIndInv == ConnectorInit => ConnectorIndInv
<1> SUFFICES ASSUME ConnectorInit PROVE ConnectorIndInv
  BY Zenon
<1>1. ConnectorTypeOK
  <2>1. hasConnection \in BOOLEAN /\ connecting \in BOOLEAN /\ closed \in BOOLEAN
        /\ fresh \in BOOLEAN
    BY Zenon DEF ConnectorInit
  <2> QED
    BY <2>1, Zenon DEF ConnectorInit, ConnectorTypeOK, GetPcs
<1>2. SingleFlight /\ NoOrphanConnection /\ CurrentSinceReset /\ WaiterHasDialer
  BY Zenon DEF ConnectorInit, SingleFlight, Dialing, NoOrphanConnection, CurrentSinceReset,
     WaiterHasDialer
<1> QED
  BY <1>1, <1>2, Zenon DEF ConnectorInit, ConnectorIndInv

(* Steps of a caller that touch neither the channel nor a connection.       *)
LEMMA GetIndInv ==
    ASSUME ConnectorIndInv, NEW q \in Callers,
           GetCall(q) \/ GetClosed(q) \/ GetCurrent(q) \/ GetCancelled(q)
    PROVE  ConnectorIndInv'
<1> USE DEF ConnectorIndInv
<1>1. /\ UNCHANGED <<connection, hasConnection, connecting, closed, connState, fresh>>
      /\ getPc[q] \in {"idle", "entry", "waiting", "woken"}
      /\ \E to \in {"entry", "returned"} : getPc' = [getPc EXCEPT ![q] = to]
      /\ \E c \in Conns \union {NoConn} :
            \/ /\ conn' = [conn EXCEPT ![q] = c] /\ getPc'[q] = "returned"
               /\ c = NoConn \/ connState[c] = "open"
            \/ conn' = conn
  BY Zenon DEF GetCall, GetClosed, GetCurrent, GetCancelled, Return, AtHead, Live, ConnectorTypeOK
<1>2. ConnectorTypeOK'
  BY <1>1 DEF ConnectorTypeOK, GetPcs
<1>3. \A p \in Callers : Dialing(p)' <=> Dialing(p)
  BY <1>1, Zenon DEF ConnectorTypeOK, Dialing
<1>4. SingleFlight' /\ WaiterHasDialer'
  BY <1>1, <1>3, Zenon DEF SingleFlight, WaiterHasDialer, ConnectorTypeOK
<1>5. NoOrphanConnection'
  BY <1>1 DEF NoOrphanConnection, ConnectorTypeOK
<1>6. CurrentSinceReset'
  BY <1>1, Zenon DEF CurrentSinceReset
<1>7. \A p \in Callers : conn'[p] # NoConn => connState'[conn'[p]] # "none"
  BY <1>1, Zenon DEF ConnectorTypeOK
<1> QED
  BY <1>1, <1>2, <1>4, <1>5, <1>6, <1>7, Zenon DEF ConnectorTypeOK

LEMMA GetWaitOrDialIndInv ==
    ASSUME ConnectorIndInv, NEW q \in Callers, GetWaitOrDial(q)
    PROVE  ConnectorIndInv'
<1> USE DEF ConnectorIndInv
<1>1. ConnectorTypeOK'
  BY Zenon DEF GetWaitOrDial, ConnectorTypeOK, GetPcs
<1>2. SingleFlight'
  <2>1. CASE connecting
    BY <2>1, Zenon DEF GetWaitOrDial, SingleFlight, Dialing, ConnectorTypeOK, AtHead
  <2>2. CASE ~connecting
    BY <2>2, Zenon DEF GetWaitOrDial, SingleFlight, Dialing, ConnectorTypeOK, AtHead
  <2> QED
    BY <2>1, <2>2, Zenon
<1>3. WaiterHasDialer'
  BY <1>2, Zenon DEF GetWaitOrDial, WaiterHasDialer, SingleFlight
<1>4. NoOrphanConnection'
  BY Zenon DEF GetWaitOrDial, NoOrphanConnection, ConnectorTypeOK, AtHead, Live
<1> QED
  BY <1>1, <1>2, <1>3, <1>4, Zenon DEF GetWaitOrDial, CurrentSinceReset, ConnectorTypeOK, AtHead

LEMMA DialReturnsIndInv ==
    ASSUME ConnectorIndInv, NEW q \in Callers, DialReturns(q)
    PROVE  ConnectorIndInv'
<1> USE DEF ConnectorIndInv
<1>1. CASE DialFails(q)
  BY <1>1, Zenon DEF DialFails, ConnectorTypeOK, GetPcs, SingleFlight, Dialing, NoOrphanConnection,
              CurrentSinceReset, WaiterHasDialer
<1>2. ASSUME NEW c \in Conns, DialSucceeds(q, c) PROVE ConnectorIndInv'
  <2>1. ConnectorTypeOK'
    BY <1>2, Zenon DEF DialSucceeds, ConnectorTypeOK, GetPcs
  <2>2. \A p \in Callers : Dialing(p)' <=> Dialing(p)
    BY <1>2, Zenon DEF DialSucceeds, Dialing, ConnectorTypeOK
  <2>3. SingleFlight' /\ WaiterHasDialer'
    BY <1>2, <2>2, Zenon DEF DialSucceeds, SingleFlight, WaiterHasDialer, ConnectorTypeOK
  <2>4. NoOrphanConnection'
    BY <1>2, Zenon DEF DialSucceeds, NoOrphanConnection, ConnectorTypeOK
  <2> QED
    BY <1>2, <2>1, <2>3, <2>4, Zenon DEF DialSucceeds, CurrentSinceReset, ConnectorTypeOK
<1> QED
  BY <1>1, <1>2, Zenon DEF DialReturns

LEMMA DialDoneIndInv ==
    ASSUME ConnectorIndInv, NEW q \in Callers, DialDone(q)
    PROVE  ConnectorIndInv'
<1> USE DEF ConnectorIndInv
<1>1. /\ getPc' \in [Callers -> GetPcs]
      /\ getPc'[q] = "returned"
      /\ \A p \in Callers : /\ getPc'[p] # "waiting"
                            /\ p # q /\ getPc[p] # "waiting" => getPc'[p] = getPc[p]
                            /\ p # q /\ getPc[p] = "waiting" => getPc'[p] = "woken"
  BY Zenon DEF DialDone, Wake, ConnectorTypeOK, GetPcs
<1>2. ConnectorTypeOK'
  <2>1. hasConnection' \in BOOLEAN /\ connecting' \in BOOLEAN /\ closed' \in BOOLEAN
        /\ fresh' \in BOOLEAN
    BY Zenon DEF DialDone, ConnectorTypeOK
  <2>2. connState' \in [Conns -> {"none", "open", "closed"}]
    BY Zenon DEF DialDone, ConnectorTypeOK
  <2> QED
    BY <1>1, <2>1, <2>2 DEF DialDone, ConnectorTypeOK
<1>3. \A p \in Callers : p # q => ~Dialing(p) /\ ~Dialing(p)'
  BY <1>1, Zenon DEF DialDone, SingleFlight, Dialing, GetPcs, ConnectorTypeOK
<1>4. SingleFlight' /\ WaiterHasDialer'
  BY <1>1, <1>3, Zenon DEF DialDone, SingleFlight, WaiterHasDialer, Dialing
<1>5. NoOrphanConnection'
  <2> SUFFICES ASSUME NEW c \in Conns, connState'[c] = "open"
               PROVE  hasConnection' /\ connection' = c /\ ~closed'
    BY Zenon DEF NoOrphanConnection
  <2>1. connState[c] = "open"
    BY Zenon DEF DialDone, ConnectorTypeOK
  <2>2. \/ hasConnection /\ connection = c /\ ~closed
        \/ conn[q] = c
    BY <1>3, <2>1, Zenon DEF NoOrphanConnection, Dialing
  <2>3. CASE conn[q] = NoConn
    BY <2>2, <2>3, ConnectorConstants DEF DialDone
  <2>4. CASE conn[q] # NoConn /\ closed
    BY <2>2, <2>4, Zenon DEF DialDone, ConnectorTypeOK
  <2>5. CASE conn[q] # NoConn /\ ~closed
    BY <2>2, <2>5, Zenon DEF DialDone, ConnectorTypeOK, SingleFlight, Dialing
  <2> QED
    BY <2>3, <2>4, <2>5, Zenon
<1>6. CurrentSinceReset'
  BY Zenon DEF DialDone, CurrentSinceReset, ConnectorTypeOK
<1> QED
  BY <1>1, <1>2, <1>4, <1>5, <1>6 DEF DialDone, ConnectorTypeOK

LEMMA DropIndInv ==
    ASSUME ConnectorIndInv, ConnectorClose \/ ConnectorReset
    PROVE  ConnectorIndInv'
<1> USE DEF ConnectorIndInv
<1>1. /\ hasConnection' = FALSE
      /\ connState' = IF hasConnection THEN [connState EXCEPT ![connection] = "closed"]
                                       ELSE connState
      /\ UNCHANGED <<connection, connecting, getPc, conn>>
      /\ closed' \in BOOLEAN /\ fresh' \in BOOLEAN
  BY Zenon DEF ConnectorClose, ConnectorReset, Drop, ConnectorTypeOK
<1>2. ConnectorTypeOK'
  BY <1>1, Zenon DEF ConnectorTypeOK
<1>3. NoOrphanConnection'
  BY <1>1, Zenon DEF NoOrphanConnection, ConnectorTypeOK
<1> QED
  BY <1>1, <1>2, <1>3 DEF SingleFlight, Dialing, WaiterHasDialer, CurrentSinceReset

LEMMA ConnFailsIndInv ==
    ASSUME ConnectorIndInv, NEW c \in Conns, ConnFails(c)
    PROVE  ConnectorIndInv'
  BY DEF ConnectorIndInv, ConnFails, ConnectorTypeOK, NoOrphanConnection, SingleFlight, Dialing,
     WaiterHasDialer,
         CurrentSinceReset

LEMMA NextConnectorIndInv == ConnectorIndInv /\ [ConnectorNext]_connectorVars => ConnectorIndInv'
<1> SUFFICES ASSUME ConnectorIndInv, [ConnectorNext]_connectorVars PROVE ConnectorIndInv'
  BY Zenon
<1>1. ASSUME NEW q \in Callers,
             \/ GetCall(q) \/ GetHead(q) \/ GetCancelled(q)
             \/ DialReturns(q) \/ DialDone(q)
      PROVE  ConnectorIndInv'
  BY <1>1, GetIndInv, GetWaitOrDialIndInv, DialReturnsIndInv, DialDoneIndInv, Zenon DEF GetHead
<1>2. CASE ConnectorClose \/ ConnectorReset
  BY <1>2, DropIndInv, Zenon
<1>3. ASSUME NEW c \in Conns, ConnFails(c) PROVE ConnectorIndInv'
  BY <1>3, ConnFailsIndInv, Zenon
<1>4. CASE UNCHANGED connectorVars
  BY <1>4, Zenon DEF connectorVars, ConnectorIndInv, ConnectorTypeOK, NoOrphanConnection,
     SingleFlight,
     Dialing,
              WaiterHasDialer, CurrentSinceReset
<1> QED
  BY <1>1, <1>2, <1>3, <1>4, Zenon DEF ConnectorNext

(* The inductive invariant holds in every reachable state.                   *)
THEOREM ConnectorIndInvHolds == ConnectorSpec => []ConnectorIndInv
  BY InitConnectorIndInv, NextConnectorIndInv, PTL DEF ConnectorSpec

(* Get dials one connection at a time, close(c.connecting) is applied to the *)
(* channel the same call made, and whoever waits in Get waits for a dial     *)
(* that will close it (connector.go:58-89).                                 *)
THEOREM DialIsSharedHolds == ConnectorSpec => []DialIsShared
<1>1. ConnectorIndInv => DialIsShared
  BY Zenon DEF ConnectorIndInv, DialIsShared
<1> QED
  BY <1>1, ConnectorIndInvHolds, PTL

(* No dialled connection escapes Close, Reset and Get's own cleanup          *)
(* (connector.go:87-141).                                                   *)
THEOREM NoOrphanConnectionHolds == ConnectorSpec => []NoOrphanConnection
<1>1. ConnectorIndInv => NoOrphanConnection
  BY Zenon DEF ConnectorIndInv
<1> QED
  BY <1>1, ConnectorIndInvHolds, PTL

(* After Reset, Get never hands out a connection installed before it         *)
(* (connector.go:143-151).                                                  *)
THEOREM CurrentSinceResetHolds == ConnectorSpec => []CurrentSinceReset
<1>1. ConnectorIndInv => CurrentSinceReset
  BY Zenon DEF ConnectorIndInv
<1> QED
  BY <1>1, ConnectorIndInvHolds, PTL

-----------------------------------------------------------------------------
(* The transport drives its BaseTransport as BaseNext allows.               *)
LEMMA BaseStep == [Next]_vars => [BaseNext]_baseVars
<1> SUFFICES ASSUME [Next]_vars PROVE BaseNext \/ UNCHANGED baseVars
  BY Zenon
<1>1. CASE Start \/ Reset \/ CloseConnector
  BY <1>1, Zenon DEF Start, Reset, CloseConnector, BaseNext
<1>2. ASSUME NEW q \in Queries, ExchangeStep(q) \/ GetTimeout(q) \/ AwaitTimeout(q)
      PROVE  BaseNext \/ UNCHANGED baseVars
  <2>1. CASE Begin(q) \/ End(q)
    BY <2>1, Zenon DEF Begin, End, BaseNext
  <2>2. CASE ~(Begin(q) \/ End(q))
    BY <1>2, <2>2, Zenon DEF ExchangeStep, Refused, RaiseSize, SizeReset, Get, GetTimeout, GetError,
       Register, PackFails, Write, WriteFails, Leave, Answered, Aborted, AwaitTimeout
  <2> QED
    BY <2>1, <2>2, Zenon
<1>3. ASSUME NEW s \in Closers, CloseBase(s) PROVE BaseNext
  BY <1>3, Zenon DEF CloseBase, BaseNext
<1>4. ASSUME NEW c \in Conns, RecvStep(c) PROVE UNCHANGED baseVars
  BY <1>4, Zenon DEF RecvStep, RecvLoad, RecvMessage, Deliver, RecvFails
<1>5. CASE UNCHANGED vars
  BY <1>5, Zenon DEF vars
<1> QED
  BY <1>1, <1>2, <1>3, <1>4, <1>5, Zenon DEF Next

(* Every behaviour of the UDP transport is one of BaseTransport.            *)
THEOREM ImplementsBaseTransportHolds == Spec => ImplementsBaseTransport
<1>1. Init => BaseInit
  BY Zenon DEF Init
<1> QED
  BY <1>1, BaseStep, PTL DEF Spec, ImplementsBaseTransport, BaseSpec

(* CloseWithError of a connection that was dialled is a failure of it, or    *)
(* changes nothing.                                                         *)
LEMMA CloseWithErrorStep ==
    ASSUME ConnectorIndInv, NEW c \in Conns, connState[c] # "none",
           connState' = [connState EXCEPT ![c] = "closed"],
           UNCHANGED <<connection, hasConnection, connecting, closed, getPc, conn, fresh>>
    PROVE  ConnectorNext \/ UNCHANGED connectorVars
<1>1. CASE connState[c] = "open"
  BY <1>1, Zenon DEF ConnectorNext, ConnFails
<1>2. CASE connState[c] = "closed"
  <2>1. connState' = connState
    BY <1>2, Zenon DEF ConnectorIndInv, ConnectorTypeOK
  <2> QED
    BY <2>1, Zenon DEF connectorVars
<1> QED
  BY <1>1, <1>2, Zenon DEF ConnectorIndInv, ConnectorTypeOK

(* The transport drives its Connector as ConnectorNext allows.              *)
LEMMA ConnectorStep ==
    ConnectorIndInv /\ [Next]_vars => [ConnectorNext]_connectorVars
<1> SUFFICES ASSUME ConnectorIndInv, [Next]_vars
             PROVE  ConnectorNext \/ UNCHANGED connectorVars
  BY Zenon
<1>1. CASE Start \/ Reset \/ CloseConnector
  BY <1>1, Zenon DEF Start, Reset, CloseConnector, ConnectorNext
<1>2. ASSUME NEW q \in Queries, ExchangeStep(q) \/ GetTimeout(q) \/ AwaitTimeout(q)
      PROVE  ConnectorNext \/ UNCHANGED connectorVars
  <2>1. CASE SizeReset(q) \/ Get(q) \/ GetTimeout(q)
    BY <2>1, UDPConstants, Zenon DEF SizeReset, Get, GetTimeout, ConnectorNext
  <2>2. CASE WriteFails(q)
    <3>1. CASE conn[q] = NoConn
      <4>1. connState' = connState
        BY <2>2, <3>1, ConnectorConstants, Zenon DEF WriteFails, ConnectorIndInv, ConnectorTypeOK
      <4> QED
        BY <2>2, <4>1, Zenon DEF WriteFails, connectorVars
    <3>2. CASE conn[q] # NoConn
      <4>1. conn[q] \in Conns /\ connState[conn[q]] # "none"
        BY <3>2, UDPConstants, Zenon DEF ConnectorIndInv, ConnectorTypeOK
      <4> QED
        BY <2>2, <4>1, CloseWithErrorStep, Zenon DEF WriteFails
    <3> QED
      BY <3>1, <3>2, Zenon
  <2>3. CASE ~(SizeReset(q) \/ Get(q) \/ GetTimeout(q) \/ WriteFails(q))
    BY <1>2, <2>3, Zenon DEF ExchangeStep, Begin, Refused, RaiseSize, GetError, Register, PackFails,
       Write, Leave, Answered, Aborted, AwaitTimeout, End
  <2> QED
    BY <2>1, <2>2, <2>3, Zenon
<1>3. ASSUME NEW s \in Closers, CloseBase(s) PROVE UNCHANGED connectorVars
  BY <1>3, Zenon DEF CloseBase
<1>4. ASSUME NEW c \in Conns, RecvStep(c) PROVE ConnectorNext \/ UNCHANGED connectorVars
  <2>1. CASE RecvFails(c)
    BY <2>1, CloseWithErrorStep, Zenon DEF RecvFails
  <2>2. CASE ~RecvFails(c)
    BY <1>4, <2>2, Zenon DEF RecvStep, RecvLoad, RecvMessage, Deliver
  <2> QED
    BY <2>1, <2>2, Zenon
<1>5. CASE UNCHANGED vars
  BY <1>5, Zenon DEF vars
<1> QED
  BY <1>1, <1>2, <1>3, <1>4, <1>5, Zenon DEF Next

(* Every behaviour of the UDP transport is one of Connector.                *)
THEOREM ImplementsConnectorHolds == Spec => ImplementsConnector
<1>1. Init => ConnectorInit
  BY Zenon DEF Init
<1> QED
  BY <1>1, ConnectorStep, InitConnectorIndInv, NextConnectorIndInv, PTL
     DEF Spec, ImplementsConnector, ConnectorSpec

(* Every behaviour of the UDP transport is one of each of its parts          *)
(* (udp.go:86-262).                                                         *)
THEOREM ImplementsPartsHolds == Spec => ImplementsParts
  BY ImplementsBaseTransportHolds, ImplementsConnectorHolds DEF ImplementsParts

-----------------------------------------------------------------------------
LEMMA InitIndInv == Init => IndInv
<1> SUFFICES ASSUME Init PROVE IndInv
  BY Zenon
<1>1. BaseTypeOK /\ ConnectorTypeOK
  BY InitBaseIndInv, InitConnectorIndInv, Zenon DEF Init, BaseIndInv, ConnectorIndInv
<1>2. TypeOK
  BY <1>1, UDPConstants DEF Init, TypeOK, Ids
<1>3. ExchangeInv
  BY UDPConstants, Zenon DEF Init, ExchangeInv, BaseInit, ConnectorInit
<1>4. DeliverInv
  BY Zenon DEF Init, DeliverInv
<1> QED
  BY <1>2, <1>3, <1>4, Zenon DEF IndInv

LEMMA NextIndInv ==
    ASSUME IndInv, BaseTypeOK', ConnectorTypeOK', [Next]_vars
    PROVE  IndInv'
  BY NextTypeOK, NextExchangeInv, NextDeliverInv, Zenon DEF IndInv

(* The inductive invariants of the transport and of its two parts hold in    *)
(* every reachable state (udp.go:86-262).                                   *)
THEOREM IndInvHolds == Spec => [](IndInv /\ BaseIndInv /\ ConnectorIndInv)
<1>1. Init => IndInv /\ BaseIndInv /\ ConnectorIndInv
  BY InitIndInv, InitBaseIndInv, InitConnectorIndInv, Zenon DEF Init
<1>2. IndInv /\ BaseIndInv /\ ConnectorIndInv /\ [Next]_vars
        => (IndInv /\ BaseIndInv /\ ConnectorIndInv)'
  <2> SUFFICES ASSUME IndInv, BaseIndInv, ConnectorIndInv, [Next]_vars
               PROVE  IndInv' /\ BaseIndInv' /\ ConnectorIndInv'
    BY Zenon
  <2>1. BaseIndInv' /\ ConnectorIndInv'
    BY BaseStep, ConnectorStep, NextBaseIndInv, NextConnectorIndInv, Zenon
  <2>2. BaseTypeOK' /\ ConnectorTypeOK'
    BY <2>1, Zenon DEF BaseIndInv, ConnectorIndInv
  <2> QED
    BY <2>1, <2>2, NextIndInv, Zenon
<1> QED
  BY <1>1, <1>2, PTL DEF Spec

(* An identifier is taken exactly while its query is between registration    *)
(* and deferred delete, for any number of queries and identifiers            *)
(* (udp.go:176-189).                                                        *)
THEOREM NoLostIdHolds == Spec => []NoLostId
<1>1. IndInv => NoLostId
  <2> SUFFICES ASSUME IndInv, NEW q \in Queries
               PROVE  Cardinality({i \in Ids : callbacks[i] = q}) =
                          IF pc[q] \in {"write", "await"} THEN 1 ELSE 0
    BY Zenon DEF NoLostId
  <2>1. CASE pc[q] \in {"write", "await"}
    <3>1. PICK i \in Ids : callbacks[i] = q
      BY <2>1, Zenon DEF IndInv, ExchangeInv
    <3>2. {j \in Ids : callbacks[j] = q} = {i}
      BY <3>1, UDPConstants DEF IndInv, ExchangeInv
    <3> QED
      BY <2>1, <3>2, FS_Singleton, Zenon
  <2>2. CASE pc[q] \notin {"write", "await"}
    <3>1. {j \in Ids : callbacks[j] = q} = {}
      BY <2>2, UDPConstants DEF IndInv, ExchangeInv
    <3> QED
      BY <2>2, <3>1, FS_EmptySet, Zenon
  <2> QED
    BY <2>1, <2>2, Zenon
<1> QED
  BY <1>1, IndInvHolds, PTL

(* After a Close nothing stays open once the queries have ended, whatever    *)
(* was being dialled meanwhile (udp.go:86-92, connector.go:87-141).         *)
THEOREM NothingOpenAfterCloseHolds == Spec => []NothingOpenAfterClose
<1>1. IndInv /\ ConnectorIndInv => NothingOpenAfterClose
  BY UDPConstants, Zenon DEF IndInv, ExchangeInv, ConnectorIndInv, NoOrphanConnection,
     NothingOpenAfterClose
<1> QED
  BY <1>1, IndInvHolds, PTL
-----------------------------------------------------------------------------
(* The reader of a connection has a buffer only once it was dialled, and one *)
(* that is open and reads with less than udpSize is about to be reset, or    *)
(* was overtaken by the Reset (udp.go:135-171, 222-232).                    *)
ReadInv ==
    /\ \A c \in Conns : recvPc[c] # "load" => connState[c] # "none"
    /\ \A c \in Conns :
          connState[c] = "open" /\ recvPc[c] = "read" /\ recvSize[c] < udpSize =>
              c \in overtaken \/ \E p \in Queries : pc[p] = "reset"

(* A Reset leaves open only the connections it has overtaken.               *)
LEMMA ResetOvertakes ==
    ASSUME TypeOK, ConnectorIndInv, ConnectorReset, Overtake,
           NEW c \in Conns, connState'[c] = "open"
    PROVE  c \in overtaken'
<1>1. connState[c] = "open" /\ ~(hasConnection /\ connection = c)
  BY DEF ConnectorReset, Drop, ConnectorIndInv, ConnectorTypeOK
<1>2. PICK q \in Callers : getPc[q] = "dialed" /\ conn[q] = c
  BY <1>1, Zenon DEF ConnectorIndInv, NoOrphanConnection
<1>3. q \in Queries /\ conn[q] # NoConn
  BY <1>2, UDPConstants, ConnectorConstants
<1> QED
  BY <1>2, <1>3 DEF Overtake

(* What the connector does to a connection: nothing but a dial opens one,    *)
(* and none is forgotten.                                                   *)
LEMMA ConnStates ==
    ASSUME ConnectorIndInv, [ConnectorNext]_connectorVars, NEW c \in Conns
    PROVE  /\ connState'[c] = "open" => connState[c] \in {"none", "open"}
           /\ connState[c] # "none" => connState'[c] # "none"
<1> USE DEF ConnectorIndInv, ConnectorTypeOK
<1>1. ASSUME NEW q \in Callers, GetCall(q) \/ GetHead(q) \/ GetCancelled(q) \/ DialFails(q)
      PROVE  connState' = connState
  BY <1>1, Zenon DEF GetCall, GetHead, GetClosed, GetCurrent, GetWaitOrDial, GetCancelled, DialFails
<1>2. ASSUME NEW q \in Callers, NEW d \in Conns, DialSucceeds(q, d)
      PROVE  connState[d] = "none" /\ connState' = [connState EXCEPT ![d] = "open"]
  BY <1>2, Zenon DEF DialSucceeds
<1>3. ASSUME NEW q \in Callers, DialDone(q)
      PROVE  connState' = connState \/ connState' = [connState EXCEPT ![conn[q]] = "closed"]
  BY <1>3, Zenon DEF DialDone
<1>4. ASSUME ConnectorClose \/ ConnectorReset
      PROVE  connState' = connState \/ connState' = [connState EXCEPT ![connection] = "closed"]
  BY <1>4, Zenon DEF ConnectorClose, ConnectorReset, Drop
<1>5. ASSUME NEW d \in Conns, ConnFails(d) PROVE connState' = [connState EXCEPT ![d] = "closed"]
  BY <1>5, Zenon DEF ConnFails
<1>6. ASSUME UNCHANGED connectorVars PROVE connState' = connState
  BY <1>6, Zenon DEF connectorVars
<1>7. \/ connState' = connState
      \/ \E d : connState' = [connState EXCEPT ![d] = "closed"]
      \/ \E d \in Conns : connState[d] = "none" /\ connState' = [connState EXCEPT ![d] = "open"]
  BY <1>1, <1>2, <1>3, <1>4, <1>5, <1>6, Zenon
     DEF ConnectorNext, DialReturns
<1> QED
  BY <1>7

LEMMA NextReadInv ==
    ASSUME IndInv, ConnectorIndInv, ReadInv, [Next]_vars
    PROVE  ReadInv'
<1>t. TypeOK /\ [ConnectorNext]_connectorVars
  BY ConnectorStep, Zenon DEF IndInv
<1>c. \A c \in Conns : /\ connState'[c] = "open" => connState[c] \in {"none", "open"}
                       /\ connState[c] # "none" => connState'[c] # "none"
  BY <1>t, ConnStates, Zenon
<1> DEFINE Pending == \E p \in Queries : pc[p] = "reset"
<1>0. ASSUME UNCHANGED <<recvPc, recvSize, udpSize>>, Pending => Pending',
             overtaken \subseteq overtaken'
      PROVE  ReadInv'
  BY <1>c, <1>0 DEF ReadInv
<1>1. CASE Start \/ Reset \/ CloseConnector
  BY <1>0, <1>1, Zenon DEF Start, Reset, CloseConnector, udpVars, Overtake
<1>2. ASSUME NEW q \in Queries, SizeReset(q) PROVE ReadInv'
  <2>1. \A c \in Conns : connState'[c] = "open" => c \in overtaken'
    BY <1>t, <1>2, ResetOvertakes, Zenon DEF SizeReset
  <2> QED
    BY <1>2, <1>c, <2>1, Zenon DEF SizeReset, ReadInv
<1>3. ASSUME NEW q \in Queries, RaiseSize(q) PROVE ReadInv'
  <2>1. CASE Size(q) > udpSize
    <3>1. pc'[q] = "reset"
      BY <1>t, <1>3, <2>1, Zenon DEF RaiseSize, Goto, TypeOK
    <3> QED
      BY <1>3, <1>c, <3>1, Zenon DEF RaiseSize, ReadInv
  <2>2. CASE ~(Size(q) > udpSize)
    <3>1. udpSize' = udpSize /\ (Pending => Pending')
      BY <1>t, <1>3, <2>2 DEF RaiseSize, Goto, TypeOK
    <3> QED
      BY <1>0, <1>3, <3>1, Zenon DEF RaiseSize
  <2> QED
    BY <2>1, <2>2, Zenon
<1>4. ASSUME NEW q \in Queries, ~SizeReset(q), ~RaiseSize(q),
             ExchangeStep(q) \/ GetTimeout(q) \/ AwaitTimeout(q)
      PROVE  ReadInv'
  <2>1. UNCHANGED <<recvPc, recvSize, udpSize, overtaken>>
    BY <1>4, Zenon DEF ExchangeStep, Begin, Refused, Get, GetTimeout, GetError, Register, PackFails,
       Write, WriteFails, Leave, Answered, Aborted, AwaitTimeout, End
  <2>2. pc' = pc \/ \E to : pc[q] # "reset" /\ pc' = [pc EXCEPT ![q] = to]
    BY <1>4, Zenon DEF ExchangeStep, Begin, Refused, Get, GetTimeout, GetError, Register, PackFails,
       Write, WriteFails, Leave, Answered, Aborted, AwaitTimeout, End, Goto
  <2>3. Pending => Pending'
    BY <1>t, <2>2 DEF TypeOK
  <2> QED
    BY <1>0, <2>1, <2>3, Zenon
<1>5. ASSUME NEW s \in Closers, CloseBase(s) PROVE ReadInv'
  BY <1>0, <1>5, Zenon DEF CloseBase, udpVars
<1>6. ASSUME NEW d \in Conns, RecvStep(d) PROVE ReadInv'
  <2>1. UNCHANGED <<udpSize, pc, overtaken>>
    BY <1>6, Zenon DEF RecvStep, RecvLoad, RecvMessage, Deliver, RecvFails
  <2>2. /\ \A c \in Conns \ {d} : recvPc'[c] = recvPc[c] /\ recvSize'[c] = recvSize[c]
        /\ recvPc'[d] = "read" => recvSize'[d] = udpSize
        /\ connState[d] # "none"
    <3>1. CASE RecvLoad(d)
      BY <1>t, <3>1 DEF RecvLoad, Recv, TypeOK
    <3>2. CASE Deliver(d)
      BY <1>t, <3>2 DEF Deliver, Recv, TypeOK, ReadInv
    <3>3. CASE RecvFails(d)
      BY <1>t, <3>3 DEF RecvFails, Recv, TypeOK
    <3>4. ASSUME NEW m \in sent, NEW s \in {0, 1}, RecvMessage(d, m, s)
          PROVE  /\ \A c \in Conns \ {d} : recvPc'[c] = recvPc[c] /\ recvSize'[c] = recvSize[c]
                 /\ recvPc'[d] # "read" /\ connState[d] # "none"
      BY <1>t, <3>4 DEF RecvMessage, Recv, TypeOK
    <3> QED
      BY <1>6, <3>1, <3>2, <3>3, <3>4, Zenon DEF RecvStep
  <2> QED
    BY <1>t, <1>c, <2>1, <2>2 DEF ReadInv, TypeOK
<1>7. CASE UNCHANGED vars
  BY <1>0, <1>7, Zenon DEF vars, udpVars
<1> QED
  BY <1>1, <1>2, <1>3, <1>4, <1>5, <1>6, <1>7, Zenon DEF Next, ExchangeStep

(* A large answer can be cut off by a small buffer only between the raise of *)
(* udpSize and its Reset, or on a connection that was being installed        *)
(* meanwhile: for any queries, connections and resets (udp.go:135-171).     *)
THEOREM NarrowReadIsTransientHolds == Spec => []NarrowReadIsTransient
<1>1. Init => ReadInv
  BY Zenon DEF Init, ReadInv, ConnectorInit
<1>2. ReadInv /\ IndInv => NarrowReadIsTransient
  BY UDPConstants DEF ReadInv, NarrowReadIsTransient, IndInv, ExchangeInv
<1>3. ReadInv /\ IndInv /\ ConnectorIndInv /\ [Next]_vars => ReadInv'
  BY NextReadInv, Zenon
<1> QED
  BY <1>1, <1>2, <1>3, IndInvHolds, PTL DEF Spec

-----------------------------------------------------------------------------
(* The identifiers handed out by the first n registrations, and the queries  *)
(* that may have made one (udp.go:105-113).                                 *)
HandedOut(n) == {i % IdSpace : i \in 1 .. n}
Past == {q \in Queries : pc[q] \in {"write", "await", "end", "done"}}

(* What has happened with identifiers so far is explained by n registrations, *)
(* of different queries, that counted up.                                   *)
CountedUpTo(n) ==
    /\ queryId = n % IdSpace
    /\ \A i \in Ids : callbacks[i] # None => i \in HandedOut(n)
    /\ \A m \in sent : m.id \in HandedOut(n)

(* The identifier of a request is no longer taken, or still by its query;    *)
(* so a callback that is looked up for an answer is that of its query.      *)
AnswerInv ==
    /\ \E n \in 0 .. Cardinality(Past) : CountedUpTo(n)
    /\ \A m \in sent : callbacks[m.id] \in {None, m.query}
    /\ \A c \in Conns : captured[c] # None => captured[c].to = captured[c].answer
    /\ AnswerIsForQuery

(* With room for one more, the next identifier is one that was never used.  *)
LEMMA NextIsNew ==
    ASSUME TypeOK, NEW n \in Nat, n < IdSpace, CountedUpTo(n)
    PROVE  nextAvailableQueryId = (n + 1) % IdSpace /\ (n + 1) % IdSpace \notin HandedOut(n)
<1>1. (n + 1) % IdSpace \notin HandedOut(n)
  <2> SUFFICES ASSUME NEW i \in 1 .. n, (n + 1) % IdSpace = i % IdSpace PROVE FALSE
    BY DEF HandedOut
  <2>1. i % IdSpace = i /\ i > 0
    BY UDPConstants
  <2>2. CASE n + 1 < IdSpace
    BY <2>1, <2>2, UDPConstants
  <2>3. CASE n + 1 = IdSpace
    BY <2>1, <2>3, UDPConstants
  <2> QED
    BY <2>2, <2>3, UDPConstants
<1>2. (n + 1) % IdSpace \in Ids
  BY UDPConstants DEF Ids
<1>3. queryId = n
  BY UDPConstants DEF CountedUpTo
<1>4. 1 \in FreeSteps /\ \A j \in FreeSteps : 1 <= j
  BY <1>1, <1>2, <1>3, UDPConstants DEF FreeSteps, CountedUpTo
<1>5. (CHOOSE k \in FreeSteps : \A j \in FreeSteps : k <= j) = 1
  <2> DEFINE k == CHOOSE k \in FreeSteps : \A j \in FreeSteps : k <= j
  <2>1. k \in FreeSteps /\ \A j \in FreeSteps : k <= j
    BY <1>4, Zenon
  <2>2. k <= 1 /\ 1 <= k /\ k \in Int
    BY <1>4, <2>1, UDPConstants DEF FreeSteps
  <2> QED
    BY <2>2
<1> QED
  BY <1>1, <1>3, <1>5, Zenon DEF nextAvailableQueryId

(* The queries that may have registered only grow in number.                *)
LEMMA PastGrows ==
    ASSUME TypeOK, [Next]_vars
    PROVE  /\ Past \subseteq Past' /\ IsFiniteSet(Past)
           /\ Cardinality(Past) \in Nat /\ Cardinality(Past') \in Nat
           /\ Cardinality(Past) <= Cardinality(Past')
<1>1. ASSUME NEW q \in Queries, ExchangeStep(q) \/ GetTimeout(q) \/ AwaitTimeout(q)
      PROVE  Past \subseteq Past'
  <2>1. \/ pc' = pc
        \/ \E to : /\ pc' = [pc EXCEPT ![q] = to]
                   /\ q \in Past => to \in {"write", "await", "end", "done"}
    BY <1>1, Zenon DEF Past, ExchangeStep, Begin, Refused, RaiseSize, SizeReset, Get, GetTimeout, GetError,
       Register, PackFails, Write, WriteFails, Leave, Answered, Aborted, AwaitTimeout, End, Goto
  <2> QED
    BY <2>1 DEF Past, TypeOK
<1>2. ASSUME pc' = pc PROVE Past \subseteq Past'
  BY <1>2 DEF Past
<1>3. Past \subseteq Past'
  BY <1>1, <1>2, Zenon DEF Next, vars, udpVars, Start, Reset, CloseConnector, CloseBase, RecvStep,
     RecvLoad, RecvMessage, Deliver, RecvFails
<1>4. Past \subseteq Queries /\ Past' \subseteq Queries
  BY DEF Past
<1>5. IsFiniteSet(Past) /\ IsFiniteSet(Past')
  BY <1>4, FiniteQueries, FS_Subset, Zenon
<1> QED
  BY <1>3, <1>5, FS_Subset, FS_CardinalityType, Zenon

(* Steps that register nothing and deliver nothing: identifiers are only     *)
(* released, and a request is written only with the one its query has.      *)
LEMMA SameCounter ==
    ASSUME IndInv, TypeOK', AnswerInv, [Next]_vars, UNCHANGED <<queryId, captured, response>>,
           \A i \in Ids : callbacks'[i] \in {None, callbacks[i]},
           \A m \in sent' : m \in sent \/ (m.id \in Ids /\ callbacks[m.id] = m.query)
    PROVE  AnswerInv'
<1>t. TypeOK
  BY DEF IndInv
<1>1. PICK n \in 0 .. Cardinality(Past) : CountedUpTo(n)
  BY DEF AnswerInv
<1>2. n \in 0 .. Cardinality(Past')
  BY <1>t, PastGrows
<1>3. \A m \in sent' : m.id \in Ids /\ m.query \in Queries /\ callbacks[m.id] \in {None, m.query}
  <2>1. \A m \in sent : m.id \in Ids /\ m.query \in Queries
    BY <1>t, Zenon DEF TypeOK
  <2>2. \A m \in sent' : m \in sent \/ (m.id \in Ids /\ callbacks[m.id] = m.query)
    OBVIOUS
  <2>3. \A m \in sent' : m.query \in Queries
    BY Zenon DEF TypeOK
  <2> QED
    BY <2>1, <2>2, <2>3, Zenon DEF AnswerInv
<1>4. CountedUpTo(n)'
  <2>1. \A i \in Ids : callbacks'[i] # None => i \in HandedOut(n)
    BY <1>1, Zenon DEF CountedUpTo
  <2>2. \A m \in sent' : m.id \in HandedOut(n)
    BY <1>1, <1>3, UDPConstants, Zenon DEF CountedUpTo
  <2> QED
    BY <1>1, <2>1, <2>2 DEF CountedUpTo, HandedOut
<1>5. \A m \in sent' : callbacks'[m.id] \in {None, m.query}
  BY <1>3, Zenon
<1> QED
  BY <1>2, <1>4, <1>5, Zenon DEF AnswerInv, AnswerIsForQuery

LEMMA NextAnswerInv ==
    ASSUME Cardinality(Queries) <= IdSpace, IndInv, TypeOK', AnswerInv, [Next]_vars
    PROVE  AnswerInv'
<1>t. TypeOK /\ ExchangeInv /\ DeliverInv
  BY DEF IndInv
<1>p. /\ Cardinality(Past) \in Nat /\ Cardinality(Past') \in Nat
      /\ Cardinality(Past) <= Cardinality(Past')
  BY <1>t, PastGrows, Zenon
<1>0. ASSUME UNCHANGED <<queryId, captured, response, callbacks, sent>> PROVE AnswerInv'
  <2>1. \A i \in Ids : callbacks'[i] \in {None, callbacks[i]}
    BY <1>0, Zenon
  <2> QED
    BY <1>0, <2>1, SameCounter, Zenon
<1>1. ASSUME NEW q \in Queries, Register(q) PROVE AnswerInv'
  <2>1. PICK n \in 0 .. Cardinality(Past) : CountedUpTo(n)
    BY Zenon DEF AnswerInv
  <2>2. n + 1 <= Cardinality(Past') /\ n < IdSpace /\ n \in Nat
    <3>1. pc[q] = "get" /\ pc'[q] = "write"
      BY <1>1, <1>t, Zenon DEF Register, Goto, TypeOK
    <3>2. q \notin Past /\ q \in Past' /\ Past \subseteq Past' /\ Past' \subseteq Queries
      BY <1>t, <3>1, PastGrows, Zenon DEF Past
    <3>3. IsFiniteSet(Queries) /\ IsFiniteSet(Past') /\ IsFiniteSet(Past)
      BY <3>2, FiniteQueries, FS_Subset, Zenon
    <3>4. Cardinality(Past') <= Cardinality(Queries) /\ Cardinality(Queries) \in Nat
      BY <3>2, <3>3, FS_Subset, FS_CardinalityType, Zenon
    <3>5. Cardinality(Past) # Cardinality(Past')
      BY <3>2, <3>3, FS_Subset, Zenon
    <3> QED
      BY <1>p, <3>4, <3>5, UDPConstants
  <2> DEFINE id == (n + 1) % IdSpace
  <2>3. nextAvailableQueryId = id /\ id \notin HandedOut(n)
    BY <1>t, <2>1, <2>2, NextIsNew, Zenon
  <2>4. id \in Ids
    BY <2>2, UDPConstants DEF Ids
  <2> HIDE DEF id
  <2>5. /\ queryId' = id /\ callbacks' = [callbacks EXCEPT ![id] = q]
        /\ UNCHANGED <<sent, captured, response>>
    BY <1>1, <2>3, Zenon DEF Register
  <2>6. HandedOut(n) \union {id} = HandedOut(n + 1)
    BY <2>2, UDPConstants DEF HandedOut, id
  <2>7. CountedUpTo(n + 1)'
    <3>1. \A i \in Ids : callbacks'[i] # None => i \in HandedOut(n) \union {id}
      BY <1>t, <2>1, <2>4, <2>5, Zenon DEF CountedUpTo, TypeOK
    <3>2. \A m \in sent' : m.id \in HandedOut(n) \union {id}
      BY <2>1, <2>5, Zenon DEF CountedUpTo
    <3>3. HandedOut(n + 1)' = HandedOut(n + 1)
      BY DEF HandedOut
    <3> QED
      BY <2>5, <2>6, <3>1, <3>2, <3>3, Zenon DEF CountedUpTo, id
  <2>8. \A m \in sent' : callbacks'[m.id] \in {None, m.query}
    <3>1. \A m \in sent : m.id # id /\ m.id \in Ids
      BY <1>t, <2>1, <2>3, Zenon DEF CountedUpTo, TypeOK
    <3> QED
      BY <1>t, <2>5, <3>1, Zenon DEF AnswerInv, TypeOK
  <2>9. n + 1 \in 0 .. Cardinality(Past')
    BY <2>2, <1>p
  <2> QED
    BY <2>5, <2>7, <2>8, <2>9, Zenon DEF AnswerInv, AnswerIsForQuery
<1>2. ASSUME NEW q \in Queries, Write(q) PROVE AnswerInv'
  <2>1. IdOf(q) \in Ids /\ callbacks[IdOf(q)] = q
    BY <1>t, <1>2, Zenon DEF Write, Goto, IdOf, ExchangeInv
  <2>2. \A m \in sent' : m \in sent \/ (m.id = IdOf(q) /\ m.query = q)
    BY <1>2 DEF Write
  <2>3. UNCHANGED <<queryId, captured, response, callbacks>>
    BY <1>2, Zenon DEF Write
  <2> QED
    BY <2>1, <2>2, <2>3, SameCounter, Zenon
<1>3. ASSUME NEW q \in Queries, Release(q), UNCHANGED <<queryId, captured, response, sent>>
      PROVE  AnswerInv'
  <2>1. \A i \in Ids : callbacks'[i] \in {None, callbacks[i]}
    BY <1>3, <1>t, Zenon DEF Release, TypeOK
  <2> QED
    BY <1>3, <2>1, SameCounter, Zenon
<1>4. ASSUME NEW q \in Queries, ExchangeStep(q) \/ GetTimeout(q) \/ AwaitTimeout(q) PROVE AnswerInv'
  BY <1>0, <1>1, <1>2, <1>3, <1>4, Zenon DEF ExchangeStep, Begin, Refused, RaiseSize, SizeReset, Get,
     GetTimeout, GetError, PackFails, WriteFails, Leave, Answered, Aborted, AwaitTimeout, End
<1>5. ASSUME UNCHANGED <<queryId, callbacks, sent>>, AnswerIsForQuery',
             \A c \in Conns : captured'[c] # None => captured'[c].to = captured'[c].answer
      PROVE  AnswerInv'
  <2>1. PICK n \in 0 .. Cardinality(Past) : CountedUpTo(n)
    BY Zenon DEF AnswerInv
  <2>2. CountedUpTo(n)'
    BY <1>5, <2>1 DEF CountedUpTo, HandedOut
  <2>3. n \in 0 .. Cardinality(Past')
    BY <1>p
  <2> QED
    BY <1>5, <2>2, <2>3, Zenon DEF AnswerInv
<1>6. ASSUME NEW c \in Conns, Deliver(c) PROVE AnswerInv'
  <2>1. captured[c] \in [to : Queries, answer : Queries] /\ captured[c].to = captured[c].answer
    <3>1. captured[c] # None
      BY <1>6, <1>t, Zenon DEF Deliver, Recv, DeliverInv
    <3> QED
      BY <1>t, <3>1, Zenon DEF AnswerInv, TypeOK
  <2>2. captured[c].to \in Queries
    BY <2>1, Zenon
  <2>3. AnswerIsForQuery'
    BY <1>6, <1>t, <2>1, <2>2 DEF Deliver, AnswerInv, AnswerIsForQuery, TypeOK
  <2>4. \A d \in Conns : captured'[d] \in {None, captured[d]}
    BY <1>6, <1>t, Zenon DEF Deliver, TypeOK
  <2> QED
    BY <1>5, <1>6, <2>3, <2>4, Zenon DEF Deliver, AnswerInv
<1>7. ASSUME NEW c \in Conns, NEW m \in sent, NEW s \in {0, 1}, RecvMessage(c, m, s)
      PROVE  AnswerInv'
  <2>1. callbacks[m.id] # None => callbacks[m.id] = m.query
    BY Zenon DEF AnswerInv
  <2>2. \A d \in Conns : \/ captured'[d] = captured[d]
                         \/ /\ callbacks[m.id] # None
                            /\ captured'[d] = [to |-> callbacks[m.id], answer |-> m.query]
    BY <1>7, <1>t DEF RecvMessage, TypeOK
  <2>3. \A d \in Conns : captured'[d] # None => captured'[d].to = captured'[d].answer
    BY <2>1, <2>2 DEF AnswerInv
  <2> QED
    BY <1>5, <1>7, <2>3, Zenon DEF RecvMessage, AnswerInv, AnswerIsForQuery
<1>8. ASSUME NEW c \in Conns, RecvStep(c) PROVE AnswerInv'
  BY <1>0, <1>6, <1>7, <1>8, Zenon DEF RecvStep, RecvLoad, RecvFails
<1> QED
  BY <1>0, <1>4, <1>8, Zenon DEF Next, vars, udpVars, Start, Reset, CloseConnector, CloseBase

(* With no more queries than identifiers, however late an answer comes and   *)
(* however often, it reaches no query but its own (udp.go:105-113, 176-208, *)
(* 236-262).                                                                *)
THEOREM AnswerIsForQueryHolds ==
    ASSUME Cardinality(Queries) <= IdSpace
    PROVE  Spec => []AnswerIsForQuery
<1>1. Init => AnswerInv
  <2> SUFFICES ASSUME Init PROVE AnswerInv
    OBVIOUS
  <2>1. CountedUpTo(0)
    BY UDPConstants DEF Init, CountedUpTo
  <2>2. Past = {}
    BY DEF Init, Past
  <2>3. 0 \in 0 .. Cardinality(Past)
    BY <2>2, FS_EmptySet
  <2> QED
    BY <2>1, <2>3, Zenon DEF Init, AnswerInv, AnswerIsForQuery
<1>2. AnswerInv => AnswerIsForQuery
  BY DEF AnswerInv
<1>3. IndInv /\ IndInv' /\ AnswerInv /\ [Next]_vars => AnswerInv'
  BY NextAnswerInv, Zenon DEF IndInv
<1> QED
  BY <1>1, <1>2, <1>3, IndInvHolds, PTL DEF Spec
=============================================================================
