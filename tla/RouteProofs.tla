---------------------------- MODULE RouteProofs ----------------------------
(***************************************************************************)
(* Proofs about the connection manager, for any number of connections, and   *)
(* about the router in front of it, for any rules and settings.              *)
(***************************************************************************)
EXTENDS Route, TLAPS

(* A direction runs, or has run, only in the relay, and early handshakes are *)
(* those of streams.                                                        *)
Phases(x) ==
    /\ \A d \in Dirs : copy[x][d] # "off" => pc[x] = "copy"
    /\ \A d \in Dirs : copy[x][d] \in {"eof", "error"} => x \in Streams
    /\ pc[x] \in {"early1", "early2"} => x \in Streams
    /\ pc[x] \in {"none", "route", "dial", "report"} => ~done[x] /\ calls[x] = 0
    /\ pc[x] \in {"none", "route", "dial", "report", "refused"} => x \notin listed

(* The flag done remembers that a direction has ended, and of a packet       *)
(* connection that it was reported.                                         *)
Flags(x) ==
    /\ \A d \in Dirs : copy[x][d] = "done" => done[x]
    /\ x \in Packets /\ done[x] => calls[x] >= 1 /\ x \notin listed

(* What OverIsClean says of one connection.                                 *)
Tidy(x) == Over(x) => open[x] = {} /\ calls[x] >= 1 /\ x \notin listed

(* Until an end is reported nothing was; the flag of a stream whose early     *)
(* handshakes went well was set by a direction.                             *)
Counts(x) ==
    x \notin rejected =>
        /\ done[x] => \E d \in Dirs : copy[x][d] = "done"
        /\ calls[x] <= 1
        /\ pc[x] \in {"early1", "early2"} => calls[x] = 0
        /\ pc[x] = "copy" /\ x \in Streams =>
              calls[x] = 0 \/ \A d \in Dirs : copy[x][d] = "done"
        /\ pc[x] = "copy" /\ x \in Packets => calls[x] = 0 \/ done[x]

Good(x) == Phases(x) /\ Flags(x) /\ Tidy(x) /\ Counts(x)

IndInv == TypeOK /\ \A x \in Conns : Good(x)

-----------------------------------------------------------------------------
(* The connections before they arrive.                                       *)
LEMMA InitHolds == Init => IndInv
<1> SUFFICES ASSUME Init PROVE TypeOK /\ \A x \in Conns : Good(x)
  BY DEF IndInv
<1>1. TypeOK
  BY DEF Init, TypeOK
<1>2. ASSUME NEW x \in Conns PROVE Good(x)
  BY DEF Init, Good, Phases, Flags, Tidy, Counts, Over, Dirs
<1> QED BY <1>1, <1>2

(* Every step of the manager keeps the types.                                *)
LEMMA TypeStep == TypeOK /\ [ManagerNext]_vars => TypeOK'
<1> SUFFICES ASSUME TypeOK, [ManagerNext]_vars PROVE TypeOK'
  OBVIOUS
<1>1. CASE Close
  BY <1>1 DEF TypeOK, Close, Conns, Sides
<1>2. ASSUME NEW x \in Conns, Accept(x) PROVE TypeOK'
  BY <1>2 DEF TypeOK, Accept, Conns, Sides
<1>3. ASSUME NEW x \in Conns, Refuse(x) PROVE TypeOK'
  BY <1>3 DEF TypeOK, Refuse, HandshakeFailure, CloseBoth, OnClose
<1>4. ASSUME NEW x \in Conns, RefuseTwice(x) PROVE TypeOK'
  BY <1>4 DEF TypeOK, RefuseTwice, CloseBoth
<1>5. ASSUME NEW x \in Conns, NewConnection(x) PROVE TypeOK'
  BY <1>5 DEF TypeOK, NewConnection
<1>6. ASSUME NEW x \in Conns, Setup(x) PROVE TypeOK'
  <2>1. CASE DialFails(x)
    BY <2>1 DEF TypeOK, DialFails, HandshakeFailure, CloseBoth, OnClose
  <2>2. CASE Dialed(x)
    BY <2>2 DEF TypeOK, Dialed, Sides
  <2>3. CASE ReportFails(x)
    BY <2>3 DEF TypeOK, ReportFails, CloseBoth, OnClose, NoOnClose
  <2>4. CASE Reported(x)
    <3>1. [d \in Dirs |-> "run"] \in [Dirs -> {"off", "run", "eof", "error", "done"}]
      OBVIOUS
    <3>2. copy' \in [Conns -> [Dirs -> {"off", "run", "eof", "error", "done"}]]
      BY <2>4, <3>1 DEF TypeOK, Reported
    <3> QED BY <2>4, <3>2 DEF TypeOK, Reported
  <2>5. CASE PreConnectionCopy(x)
    <3>1. [d \in Dirs |-> "run"] \in [Dirs -> {"off", "run", "eof", "error", "done"}]
      OBVIOUS
    <3>2. copy' \in [Conns -> [Dirs -> {"off", "run", "eof", "error", "done"}]]
      BY <2>5, <3>1 DEF TypeOK, PreConnectionCopy, AfterEarly
    <3>3. calls' \in [Conns -> Nat] /\ listed' \subseteq Conns
      <4>1. CASE done[x]
        BY <2>5, <4>1 DEF TypeOK, PreConnectionCopy, OnClose
      <4>2. CASE ~done[x]
        BY <2>5, <4>2 DEF TypeOK, PreConnectionCopy, NoOnClose
      <4> QED BY <4>1, <4>2
    <3>4. pc' \in [Conns -> {"none", "route", "dial", "report", "early1", "early2", "copy",
                             "refused", "failed"}]
      BY <2>5, Zenon DEF TypeOK, PreConnectionCopy, AfterEarly
    <3> QED
      BY <2>5, <3>2, <3>3, <3>4, Zenon DEF TypeOK, PreConnectionCopy, CloseBoth
  <2> QED BY <1>6, <2>1, <2>2, <2>3, <2>4, <2>5 DEF Setup
<1>7. ASSUME NEW x \in Conns, NEW d \in Dirs,
             CachedFails(x, d) \/ CopyEOF(x, d) \/ CopyError(x, d)
                \/ CopyDone(x, d) \/ PacketCopyDone(x, d)
      PROVE TypeOK'
  <2>1. CASE CachedFails(x, d)
    BY <2>1 DEF TypeOK, CachedFails, CloseBoth, OnClose, NoOnClose
  <2>2. CASE CopyEOF(x, d)
    <3>1. open' \in [Conns -> SUBSET Sides]
      BY <2>2 DEF TypeOK, CopyEOF
    <3> QED BY <2>2, <3>1 DEF TypeOK, CopyEOF
  <2>3. CASE CopyError(x, d)
    BY <2>3 DEF TypeOK, CopyError, CloseBoth
  <2>4. CASE CopyDone(x, d)
    <3>1. CASE done[x]
      BY <2>4, <3>1 DEF TypeOK, CopyDone, CloseBoth, OnClose
    <3>2. CASE ~done[x]
      BY <2>4, <3>2 DEF TypeOK, CopyDone, NoOnClose
    <3> QED BY <3>1, <3>2
  <2>5. CASE PacketCopyDone(x, d)
    BY <2>5 DEF TypeOK, PacketCopyDone, CloseBoth, OnClose, NoOnClose
  <2> QED BY <1>7, <2>1, <2>2, <2>3, <2>4, <2>5
<1>8. ASSUME NEW x \in Conns, NEW s \in Sides, Cut(x, s) PROVE TypeOK'
  BY <1>8 DEF TypeOK, Cut
<1>9. CASE UNCHANGED vars
  BY <1>9 DEF TypeOK, vars
<1> QED
  BY <1>1, <1>2, <1>3, <1>4, <1>5, <1>6, <1>7, <1>8, <1>9 DEF ManagerNext, Relay

-----------------------------------------------------------------------------
USE DEF Dirs

(* A step on one connection leaves the others as they are.                  *)
Same(y) ==
    /\ pc'[y] = pc[y] /\ open'[y] = open[y] /\ copy'[y] = copy[y]
    /\ done'[y] = done[y] /\ calls'[y] = calls[y]
    /\ (y \in listed') = (y \in listed) /\ (y \in rejected') = (y \in rejected)

(* A step that leaves a connection alone keeps what is known of it, so that  *)
(* one that changes x has to be looked at for x only.                        *)
LEMMA Frame == ASSUME NEW y \in Conns, Good(y), Same(y) PROVE Good(y)'
BY DEF Good, Phases, Flags, Tidy, Counts, Over, Same

LEMMA OnlyX ==
    ASSUME TypeOK, NEW x \in Conns, NEW y \in Conns, y # x,
           Accept(x) \/ Refuse(x) \/ RefuseTwice(x) \/ NewConnection(x) \/ Relay(x)
    PROVE  Same(y)
<1>1. CASE Accept(x) \/ Refuse(x) \/ RefuseTwice(x) \/ NewConnection(x)
  BY <1>1 DEF TypeOK, Same, Accept, Refuse, RefuseTwice, NewConnection, HandshakeFailure,
     CloseBoth, OnClose
<1>2. CASE Setup(x)
  <2>1. CASE DialFails(x) \/ Dialed(x) \/ ReportFails(x)
    BY <2>1 DEF TypeOK, Same, DialFails, HandshakeFailure, Dialed, ReportFails, CloseBoth, OnClose,
       NoOnClose
  <2>2. CASE Reported(x)
    BY <2>2 DEF TypeOK, Same, Reported
  <2>3. CASE PreConnectionCopy(x)
    <3>1. CASE done[x]
      BY <2>3, <3>1 DEF TypeOK, Same, PreConnectionCopy, AfterEarly, CloseBoth, OnClose
    <3>2. CASE ~done[x]
      BY <2>3, <3>2 DEF TypeOK, Same, PreConnectionCopy, AfterEarly, CloseBoth, NoOnClose
    <3> QED BY <3>1, <3>2
  <2> QED BY <1>2, <2>1, <2>2, <2>3 DEF Setup
<1>3. ASSUME NEW d \in Dirs,
             CachedFails(x, d) \/ CopyEOF(x, d) \/ CopyError(x, d)
                \/ CopyDone(x, d) \/ PacketCopyDone(x, d)
      PROVE Same(y)
  <2>1. CASE done[x]
    BY <1>3, <2>1 DEF TypeOK, Same, CachedFails, CopyEOF, CopyError, CopyDone, PacketCopyDone,
       CloseBoth, OnClose, NoOnClose
  <2>2. CASE ~done[x]
    BY <1>3, <2>2 DEF TypeOK, Same, CachedFails, CopyEOF, CopyError, CopyDone, PacketCopyDone,
       CloseBoth, OnClose, NoOnClose
  <2> QED BY <2>1, <2>2
<1>4. ASSUME NEW s \in Sides, Cut(x, s) PROVE Same(y)
  BY <1>4 DEF TypeOK, Same, Cut
<1> QED BY <1>1, <1>2, <1>3, <1>4 DEF Relay

-----------------------------------------------------------------------------
(* The connection that makes a step.                                        *)
LEMMA SetupStep == ASSUME TypeOK, NEW x \in Conns, Good(x), Setup(x) PROVE Good(x)'
<1> USE DEF Good, Phases, Flags, Tidy, Counts, Over
<1>1. CASE DialFails(x)
  BY <1>1 DEF TypeOK, DialFails, HandshakeFailure, CloseBoth, OnClose
<1>2. CASE Dialed(x)
  BY <1>2 DEF TypeOK, Dialed
<1>3. CASE ReportFails(x)
  BY <1>3 DEF TypeOK, ReportFails, CloseBoth, OnClose, NoOnClose
<1>4. CASE Reported(x)
  BY <1>4 DEF TypeOK, Reported
<1>5. CASE PreConnectionCopy(x)
  <2>1. CASE done[x]
    BY <1>5, <2>1 DEF TypeOK, PreConnectionCopy, AfterEarly, CloseBoth, OnClose
  <2>2. CASE ~done[x]
    <3>1. /\ pc[x] \in {"early1", "early2"} /\ pc'[x] \in {"early2", "copy"}
          /\ (x \in listed') = (x \in listed) /\ calls'[x] = calls[x]
          /\ x \in Streams /\ x \notin Packets
          /\ \A d \in Dirs : /\ copy'[x][d] \in {"off", "run"}
                             /\ copy'[x][d] = "run" => pc'[x] = "copy"
      BY <1>5, <2>2, ConnectionManagerConstants DEF TypeOK, PreConnectionCopy, AfterEarly, NoOnClose
    <3>2. x \in rejected \/ x \in rejected' \/ done'[x] = done[x]
      BY <1>5, <2>2 DEF TypeOK, PreConnectionCopy
    <3>3. x \in rejected => x \in rejected'
      BY <1>5, <2>2 DEF PreConnectionCopy
    <3>4. Counts(x)'
      BY <2>2, <3>1, <3>2, <3>3 DEF TypeOK
    <3>5. Phases(x)' /\ Flags(x)' /\ Tidy(x)'
      BY <3>1
    <3> QED BY <3>4, <3>5
  <2> QED BY <2>1, <2>2
<1> QED BY <1>1, <1>2, <1>3, <1>4, <1>5 DEF Setup

(* The steps of a relay (conn.go:258-395).                                   *)
LEMMA CopyStep ==
    ASSUME TypeOK, NEW x \in Conns, Good(x), NEW d \in Dirs,
           CachedFails(x, d) \/ CopyEOF(x, d) \/ CopyError(x, d)
              \/ CopyDone(x, d) \/ PacketCopyDone(x, d)
    PROVE  Good(x)'
<1> USE ConnectionManagerConstants DEF Good, Phases, Flags, Tidy, Counts, Over
<1>1. CASE CachedFails(x, d)
  <2>1. CASE done[x]
    BY <1>1, <2>1 DEF TypeOK, CachedFails, CloseBoth, OnClose
  <2>2. CASE ~done[x]
    BY <1>1, <2>2 DEF TypeOK, CachedFails, CloseBoth, NoOnClose
  <2> QED BY <2>1, <2>2, Zenon
<1>2. CASE CopyEOF(x, d)
  BY <1>2 DEF TypeOK, CopyEOF
<1>3. CASE CopyError(x, d)
  BY <1>3 DEF TypeOK, CopyError, CloseBoth
<1>4. CASE CopyDone(x, d)
  <2>0. /\ x \in Streams /\ x \notin Packets
        /\ pc[x] = "copy" /\ pc'[x] = "copy" /\ done'[x] = TRUE
        /\ (x \in rejected') = (x \in rejected)
        /\ copy[x][d] # "done" /\ copy'[x][d] = "done"
        /\ \A e \in Dirs : e # d => copy'[x][e] = copy[x][e]
    BY <1>4 DEF TypeOK, CopyDone
  <2>1. CASE done[x]
    <3>1. calls'[x] = calls[x] + 1 /\ x \notin listed' /\ open'[x] = {} /\ calls[x] \in Nat
      BY <1>4, <2>1 DEF TypeOK, CopyDone, CloseBoth, OnClose
    <3>2. CASE x \in rejected
      BY <2>0, <3>1, <3>2
    <3>3. CASE x \notin rejected
      <4>1. \A e \in Dirs : copy'[x][e] = "done"
        BY <2>0, <2>1, <3>3
      <4>2. calls[x] = 0
        BY <2>0, <3>3
      <4> QED BY <2>0, <3>1, <3>3, <4>1, <4>2
    <3> QED BY <3>2, <3>3
  <2>2. CASE ~done[x]
    <3>1. calls'[x] = calls[x] /\ (x \in listed') = (x \in listed) /\ calls[x] \in Nat
      BY <1>4, <2>2 DEF TypeOK, CopyDone, NoOnClose
    <3>2. \A e \in Dirs : copy[x][e] # "done"
      BY <2>2
    <3> QED BY <2>0, <2>2, <3>1, <3>2
  <2> QED BY <2>1, <2>2, Zenon
<1>5. CASE PacketCopyDone(x, d)
  <2>1. CASE done[x]
    BY <1>5, <2>1 DEF TypeOK, PacketCopyDone, CloseBoth, NoOnClose
  <2>2. CASE ~done[x]
    BY <1>5, <2>2 DEF TypeOK, PacketCopyDone, CloseBoth, OnClose
  <2> QED BY <2>1, <2>2, Zenon
<1> QED BY <1>1, <1>2, <1>3, <1>4, <1>5, Zenon

(* Every other step of the manager for one connection.                       *)
LEMMA GoodStep ==
    ASSUME TypeOK, NEW x \in Conns, Good(x),
           Accept(x) \/ Refuse(x) \/ RefuseTwice(x) \/ NewConnection(x) \/ Relay(x)
    PROVE  Good(x)'
<1>1. CASE Accept(x) \/ Refuse(x) \/ RefuseTwice(x) \/ NewConnection(x)
  BY <1>1 DEF TypeOK, Good, Phases, Flags, Tidy, Counts, Over, Accept, Refuse, RefuseTwice,
     NewConnection, HandshakeFailure, CloseBoth, OnClose
<1>2. ASSUME NEW s \in Sides, Cut(x, s) PROVE Good(x)'
  BY <1>2 DEF TypeOK, Good, Phases, Flags, Tidy, Counts, Over, Cut
<1> QED BY <1>1, <1>2, SetupStep, CopyStep DEF Relay

(* Every step of the manager keeps the invariant.                            *)
LEMMA IndStep == IndInv /\ [ManagerNext]_vars => IndInv'
<1> SUFFICES ASSUME IndInv, [ManagerNext]_vars, NEW y \in Conns PROVE Good(y)'
  BY TypeStep DEF IndInv
<1>1. TypeOK /\ Good(y)
  BY DEF IndInv
<1>2. CASE Close
  BY <1>1, <1>2 DEF TypeOK, Close, Good, Phases, Flags, Tidy, Counts, Over
<1>3. ASSUME NEW x \in Conns,
             Accept(x) \/ Refuse(x) \/ RefuseTwice(x) \/ NewConnection(x) \/ Relay(x)
      PROVE  Good(y)'
  <2>1. CASE y = x
    BY <1>1, <1>3, <2>1, GoodStep
  <2>2. CASE y # x
    BY <1>1, <1>3, <2>2, OnlyX, Frame
  <2> QED BY <2>1, <2>2
<1>4. CASE UNCHANGED vars
  BY <1>1, <1>4, Frame DEF Same, vars
<1> QED BY <1>2, <1>3, <1>4 DEF ManagerNext

(* The inductive invariant, for any set of connections.                     *)
THEOREM IndInvHolds == ManagerSpec => []IndInv
BY InitHolds, IndStep, PTL DEF ManagerSpec

(* Of a connection that is over nothing is left, whatever the order in which *)
(* the directions of the relay ended (conn.go:258-329, 372-395).            *)
THEOREM OverIsCleanHolds == ManagerSpec => []OverIsClean
<1>1. IndInv => OverIsClean
  BY DEF IndInv, Good, Tidy, OverIsClean
<1> QED BY <1>1, IndInvHolds, PTL

(* onClose is called at most once, unless the code reports one failure in    *)
(* two places (conn.go:99-109, 229-256; dns.go:57-61).                      *)
THEOREM ReportedOnceHolds == ManagerSpec => []ReportedOnce
<1>1. IndInv => ReportedOnce
  BY DEF IndInv, Good, Counts, ReportedOnce, TypeOK
<1> QED BY <1>1, IndInvHolds, PTL

-----------------------------------------------------------------------------
(* What a step of the router that does not give the connection to anybody    *)
(* does to the connection manager: nothing, or it refuses the connection.    *)
Aside(x) == UNCHANGED vars \/ Refuse(x)

(* The ways on within a call of the router (route.go:298-627).               *)
LEMMA CallsAside ==
    ASSUME NEW x, NEW call
    PROVE  /\ Fail(x) => Aside(x)
           /\ ThenMatch(x, call) => Aside(x)
           /\ Onward(x, call) => Aside(x)
<1>1. Fail(x) => Aside(x)
  BY Zenon DEF Fail, Aside
<1>2. ThenMatch(x, call) => Aside(x)
  BY <1>1, Zenon DEF ThenMatch, Aside
<1>3. Onward(x, call) => Aside(x)
  BY <1>2, Zenon DEF Onward, Aside
<1> QED
  BY <1>1, <1>2, <1>3

(* actionSniff and the actions of the rules touch no connection but to refuse *)
(* it (route.go:491-627, 629-836).                                           *)
LEMMA SniffAside == ASSUME NEW x, NEW action, NEW call PROVE Sniff(x, action, call) => Aside(x)
BY CallsAside, Zenon DEF Sniff, SniffEnds, Aside

LEMMA ActedAside == ASSUME NEW x, NEW action, NEW call PROVE Acted(x, action, call) => Aside(x)
BY CallsAside, SniffAside, Zenon DEF Acted, Selected, Aside

(* Only a connection for which there is an outbound reaches the manager      *)
(* (route.go:103-164, 233-296).                                              *)
LEMMA ToOutbound == ASSUME NEW x, NEW tag PROVE To(x, tag) => Aside(x) \/ NewConnection(x)
BY CallsAside, Zenon DEF To, HandOver, Handle, Aside

(* Every step of the router is one of the manager, or leaves it alone        *)
(* (route.go:51-296).                                                       *)
LEMMA NextOfManager == [Next]_<<vars, route>> => [ManagerNext]_vars
<1>1. ASSUME NEW x, RouteStep(x)
      PROVE  Aside(x) \/ Accept(x) \/ NewConnection(x) \/ RefuseTwice(x)
  <2>1. PreMatch(x) \/ NoRule(x) => Aside(x)
    BY Zenon DEF PreMatch, NoRule, Aside
  <2>2. Accepted(x) => Accept(x)
    BY Zenon DEF Accepted
  <2>3. Detour(x) \/ Enter(x) => Aside(x)
    BY CallsAside, Zenon DEF Detour, Enter, Aside
  <2>4. Prepare(x) => Aside(x)
    BY CallsAside, SniffAside, Zenon DEF Prepare
  <2>5. SniffRead(x) \/ SniffTimeout(x) \/ SniffFails(x) => Aside(x)
    BY CallsAside, Zenon DEF SniffRead, SniffTimeout, SniffFails, SniffEnds, Aside
  <2>6. MatchRule(x) => Aside(x)
    BY CallsAside, ActedAside, Zenon DEF MatchRule
  <2>7. PreMatched(x) => Aside(x)
    BY CallsAside, Zenon DEF PreMatched, Aside
  <2>8. Routed(x) => Aside(x) \/ NewConnection(x)
    BY CallsAside, ToOutbound, Zenon DEF Routed, HijackDNS, Aside
  <2>9. HijackEnds(x) \/ Handled(x) => Refuse(x) \/ RefuseTwice(x)
    BY Zenon DEF HijackEnds, Handled
  <2> QED
    BY <1>1, <2>1, <2>2, <2>3, <2>4, <2>5, <2>6, <2>7, <2>8, <2>9, Zenon DEF RouteStep, Aside
<1>2. ASSUME Next PROVE [ManagerNext]_vars
  <2>1. \A x \in Arrived : x \in Conns
    BY Zenon DEF Arrived
  <2> QED
    BY <1>1, <1>2, <2>1, Zenon DEF Next, ManagerNext, Aside
<1> QED
  BY <1>2, Zenon

(* The router uses the connection manager as that expects, so that all that  *)
(* is proved of the manager holds under the router (route.go:51-296).       *)
THEOREM ImplementsManagerHolds == Spec => ImplementsManager
<1>1. RouteInit => Init
  BY Zenon DEF RouteInit
<1> QED
  BY <1>1, NextOfManager, PTL DEF Spec, ImplementsManager, ManagerSpec

(* So the connections that the router hands over, rejects or answers itself  *)
(* end as clean as the manager's, and are reported as often                  *)
(* (route/route.go:35-236, conn.go:258-395).                                *)
THEOREM ConnectionsEndClean == Spec => [](OverIsClean /\ ReportedOnce)
BY ImplementsManagerHolds, OverIsCleanHolds, ReportedOnceHolds, PTL DEF ImplementsManager

(* What is known of a call: one that goes on has all its fields, one that    *)
(* has selected a bypass outside of PreMatch has an outbound, and one that   *)
(* was handed over has an outbound for its network.                         *)
Fields == {"step", "setting", "metadata", "pre", "passed", "i", "action", "buffers", "fresh",
           "read", "sniffed", "selected"}
Going == {"arrives", "enter", "prepare", "sniff", "match"}
Whole(call) == DOMAIN call = Fields /\ call.selected = 0
Goes(call) == Whole(call) /\ call.step \in Going

CallOK(x, call) ==
    /\ call.step \in Going => Whole(call)
    /\ call.step = "selected" => DOMAIN call = Fields
    /\ call.step = "selected" /\ ~call.pre /\ Action(call).type = "bypass" =>
          Action(call).outbound # None
    /\ call.step \in {"handed over", "handled"} =>
          /\ call.outbound \in DOMAIN Outbounds
          /\ Network(x) \in Outbounds[call.outbound].networks

RouteInv == DOMAIN route = Conns /\ \A x \in Conns : CallOK(x, route[x])

(* A step changes the call of one connection.                                *)
LEMMA SetKeeps ==
    ASSUME RouteInv, NEW x \in Conns, NEW call, CallOK(x, call), Set(x, call)
    PROVE  RouteInv'
BY Zenon DEF RouteInv, Set, CallOK, Whole, Action

LEMMA GoesOK == ASSUME NEW x, NEW call, Goes(call) PROVE CallOK(x, call)
BY Zenon DEF Goes, CallOK, Going

(* A call that returns without an outbound.                                  *)
LEMMA GoneKeeps ==
    ASSUME RouteInv, NEW x \in Conns, NEW step \in {"refused", "failed", "bypassed", "never"},
           Gone(x, step)
    PROVE  RouteInv'
<1>1. CallOK(x, NoCall(step))
  BY Zenon DEF CallOK, NoCall, Going
<1> QED
  BY <1>1, SetKeeps DEF Gone

(* The ways on within a call keep it whole (route.go:298-489).               *)
LEMMA OnwardKeeps ==
    ASSUME RouteInv, NEW x \in Conns
    PROVE  /\ Fail(x) => RouteInv'
           /\ \A call : Whole(call) /\ ThenMatch(x, call) => RouteInv'
           /\ \A call : Whole(call) /\ Onward(x, call) => RouteInv'
<1>1. Fail(x) => RouteInv'
  BY GoneKeeps, Zenon DEF Fail
<1>2. ASSUME NEW call, Whole(call), ThenMatch(x, call) PROVE RouteInv'
  <2> DEFINE next == [call EXCEPT !.step = "match", !.i = 1,
                        !.metadata = IF call.setting.resolve THEN Resolved(call.setting, @) ELSE @]
  <2>1. Goes(next)
    BY <1>2 DEF Goes, Whole, Going, Fields
  <2> QED
    BY <1>1, <1>2, <2>1, GoesOK, SetKeeps, Zenon DEF ThenMatch
<1>3. ASSUME NEW call, Whole(call), Onward(x, call) PROVE RouteInv'
  <2>1. Goes([call EXCEPT !.step = "match", !.i = @ + 1])
    BY <1>3 DEF Goes, Whole, Going, Fields
  <2> QED
    BY <1>2, <1>3, <2>1, GoesOK, SetKeeps, Zenon DEF Onward
<1> QED
  BY <1>1, <1>2, <1>3, Zenon

(* Looking at data changes what is known, not what a call is made of.       *)
LEMMA SniffCalls ==
    ASSUME NEW x, NEW call, Whole(call)
    PROVE  /\ Whole(Named(call)) /\ Named(call).step = call.step
           /\ Whole(Kept(x, call))
           /\ \A m : /\ Whole([call EXCEPT !.metadata = m])
                     /\ [call EXCEPT !.metadata = m].step = call.step
BY DEF Named, Kept, Whole, Fields

(* The ends of a sniff, and the sniff itself (route.go:629-836).             *)
LEMMA SniffEndsKeeps ==
    ASSUME RouteInv, NEW x \in Conns, NEW call, Whole(call), SniffEnds(x, call)
    PROVE  RouteInv'
BY SniffCalls, OnwardKeeps, Zenon DEF SniffEnds

LEMMA SniffKeeps ==
    ASSUME RouteInv, NEW x \in Conns, NEW action, NEW call, Whole(call),
           Sniff(x, action, call)
    PROVE  RouteInv'
<1> DEFINE begun == [call EXCEPT !.action = action, !.sniffed = TRUE, !.step = "sniff"]
<1>1. Whole(begun) /\ begun.step = "sniff" /\ begun.metadata = call.metadata
  BY DEF Whole, Fields
<1>2. CASE SniffSkipped(x, action, call.metadata)
  <2>1. Whole([call EXCEPT !.sniffed = TRUE])
    BY DEF Whole, Fields
  <2> QED
    BY <1>2, <2>1, OnwardKeeps, Zenon DEF Sniff
<1>3. ASSUME NEW m, SniffEnds(x, Named([begun EXCEPT !.metadata = m])) PROVE RouteInv'
  <2> DEFINE b == [begun EXCEPT !.metadata = m]
  <2>1. Whole(b)
    BY <1>1, SniffCalls, Zenon
  <2>2. Whole(Named(b))
    BY <2>1, SniffCalls, Zenon
  <2> QED
    BY <1>3, <2>2, SniffEndsKeeps
<1>4. ASSUME Set(x, begun) PROVE RouteInv'
  BY <1>1, <1>4, GoesOK, SetKeeps, Zenon DEF Goes, Going
<1>5. ASSUME NEW m, NEW f, Set(x, Named([begun EXCEPT !.metadata = m, !.fresh = f])) PROVE RouteInv'
  <2> DEFINE b == [begun EXCEPT !.metadata = m, !.fresh = f]
  <2>1. Whole(b) /\ b.step = "sniff"
    BY <1>1 DEF Whole, Fields
  <2>2. Goes(Named(b))
    BY <2>1, SniffCalls, Zenon DEF Goes, Going
  <2> QED
    BY <1>5, <2>2, GoesOK, SetKeeps
<1> HIDE DEF begun
<1>6. CASE ~SniffSkipped(x, action, call.metadata)
  <2>1. \/ \E found \in Found :
              SniffEnds(x, Named([begun EXCEPT !.metadata = Recognised(found, action, @)]))
        \/ \E m : SniffEnds(x, Named([begun EXCEPT !.metadata = m]))
        \/ Set(x, Named([begun EXCEPT !.metadata = Missed(x, "more", @), !.fresh = call.buffers]))
        \/ Set(x, begun)
    BY <1>6, Zenon DEF Sniff, begun
  <2> QED
    BY <2>1, <1>3, <1>4, <1>5, Zenon
<1> QED
  BY <1>2, <1>6

(* A bypass without an outbound is not selected outside of PreMatch          *)
(* (route.go:534-627).                                                       *)
LEMMA ActedKeeps ==
    ASSUME RouteInv, NEW x \in Conns, NEW call, Whole(call), NEW action,
           call.i # 0 => call.setting.rules[call.i].action = action,
           Acted(x, action, call)
    PROVE  RouteInv'
<1>1. CASE Selects(call, action)
  <2> DEFINE next == [call EXCEPT !.step = "selected", !.selected = call.i]
  <2>1. /\ DOMAIN next = Fields /\ next.step = "selected" /\ next.selected = call.i
        /\ next.pre = call.pre /\ next.setting = call.setting
    BY DEF Whole, Fields
  <2> HIDE DEF next
  <2>2. Action(next) = IF call.i = 0 THEN [type |-> "default"] ELSE action
    BY <2>1 DEF Action
  <2>3. Action(next).type = "bypass" /\ ~next.pre => Action(next).outbound # None
    <3>1. CASE call.i = 0
      BY <2>2, <3>1
    <3>2. CASE call.i # 0
      BY <1>1, <2>1, <2>2, <3>2 DEF Selects, Final
    <3> QED
      BY <3>1, <3>2
  <2>4. CallOK(x, next)
    BY <2>1, <2>3 DEF CallOK, Going
  <2>5. Set(x, next)
    BY <1>1, Zenon DEF Acted, Selected, next
  <2> QED
    BY <2>4, <2>5, SetKeeps
<1>2. CASE ~Selects(call, action)
  <2>1. Whole([call EXCEPT !.metadata = Resolved(call.setting, @)])
    BY DEF Whole, Fields
  <2> QED
    BY <1>2, <2>1, SniffKeeps, OnwardKeeps, Zenon DEF Acted
<1> QED
  BY <1>1, <1>2

(* Every step of the router keeps the invariant (route.go:51-627).           *)
LEMMA RouteStepKeeps ==
    ASSUME RouteInv, NEW x \in Conns, RouteStep(x)
    PROVE  RouteInv'
<1>0. CallOK(x, route[x]) /\ DOMAIN route = Conns
  BY DEF RouteInv
<1>1. ASSUME route[x].step \in Going PROVE Whole(route[x])
  BY <1>0, <1>1, Zenon DEF CallOK
<1>2. CASE PreMatch(x)
  <2>1. Goes([route[x] EXCEPT !.step = "prepare", !.pre = TRUE,
                                !.metadata = PrepareConnection(x, @)])
    BY <1>1, <1>2 DEF PreMatch, Goes, Whole, Going, Fields
  <2> QED
    BY <1>2, <2>1, GoesOK, SetKeeps DEF PreMatch
<1>3. CASE Accepted(x)
  <2>1. Goes([route[x] EXCEPT !.step = "enter"])
    BY <1>1, <1>3 DEF Accepted, Goes, Whole, Going, Fields
  <2> QED
    BY <1>3, <2>1, GoesOK, SetKeeps DEF Accepted
<1>4. CASE Detour(x)
  <2>1. Goes([route[x] EXCEPT !.metadata.Inbound = route[x].setting.detour,
                              !.setting.detour = None])
    BY <1>1, <1>4, Zenon DEF Detour, Goes, Whole, Going, Fields
  <2> QED
    BY <1>4, <2>1, GoesOK, SetKeeps, OnwardKeeps, Zenon DEF Detour
<1>5. CASE Enter(x)
  <2>1. Goes([route[x] EXCEPT !.step = "prepare", !.metadata.Network = Network(x)])
    BY <1>1, <1>5 DEF Enter, Goes, Whole, Going, Fields
  <2> QED
    BY <1>5, <2>1, GoesOK, SetKeeps, OnwardKeeps, Zenon DEF Enter
<1>6. CASE Prepare(x)
  <2>1. Whole(route[x])
    BY <1>1, <1>6 DEF Prepare, Going
  <2>2. \/ Fail(x)
        \/ \E m : LET call == [route[x] EXCEPT !.metadata = m] IN
              Sniff(x, InboundSniff(route[x].setting), call) \/ ThenMatch(x, call)
    BY <1>6, Zenon DEF Prepare
  <2>3. \A m : Whole([route[x] EXCEPT !.metadata = m])
    BY <2>1, SniffCalls
  <2> QED
    BY <2>2, <2>3, SniffKeeps, OnwardKeeps, Zenon
<1>7. CASE SniffRead(x)
  <2>1. Whole(route[x]) /\ route[x].step = "sniff"
    BY <1>1, <1>7, Zenon DEF SniffRead, Going
  <2>2. PICK call \in {[route[x] EXCEPT !.read = @ + 1,
                      !.fresh = Append(@, IF x \in Streams THEN route[x].read + 1
                                          ELSE <<route[x].read + 1>>)]} :
        \/ \E found \in Found :
              SniffEnds(x, Named([call EXCEPT !.metadata = Recognised(found, call.action, @)]))
        \/ SniffEnds(x, Named([call EXCEPT !.metadata = Missed(x, "no", @)]))
        \/ /\ Set(x, IF x \in Streams THEN call
                     ELSE Named([call EXCEPT !.metadata = Missed(x, "more", @)]))
           /\ UNCHANGED vars
    BY <1>7, Zenon DEF SniffRead
  <2>3. Whole(call) /\ call.step = "sniff"
    BY <2>1, Zenon DEF Whole, Fields
  <2>4. ASSUME NEW m PROVE Whole(Named([call EXCEPT !.metadata = m]))
                           /\ Named([call EXCEPT !.metadata = m]).step = "sniff"
    BY <2>3, SniffCalls, Zenon
  <2>5. Goes(call) /\ \A m : Goes(Named([call EXCEPT !.metadata = m]))
    BY <2>3, <2>4, Zenon DEF Goes, Going
  <2> QED
    BY <2>2, <2>4, <2>5, SniffEndsKeeps, GoesOK, SetKeeps, Zenon
<1>8. CASE SniffTimeout(x)
  <2>1. Whole(route[x])
    BY <1>1, <1>8 DEF SniffTimeout, Going
  <2>2. SniffEnds(x, route[x]) \/ \E m : SniffEnds(x, Named([route[x] EXCEPT !.metadata = m]))
    BY <1>8, Zenon DEF SniffTimeout
  <2>3. ASSUME NEW m PROVE Whole(Named([route[x] EXCEPT !.metadata = m]))
    BY <2>1, SniffCalls, Zenon
  <2> QED
    BY <2>1, <2>2, <2>3, SniffEndsKeeps, Zenon
<1>9. CASE SniffFails(x)
  BY <1>9, OnwardKeeps, Zenon DEF SniffFails
<1>10. CASE MatchRule(x)
  <2>1. Whole(route[x])
    BY <1>1, <1>10 DEF MatchRule, Going
  <2> DEFINE rule == route[x].setting.rules[route[x].i]
  <2>2. \E m : LET call == [route[x] EXCEPT !.metadata = m] IN
          \/ Onward(x, call)
          \/ \E n : Acted(x, rule.action, [call EXCEPT !.metadata = n])
    BY <1>10, Zenon DEF MatchRule
  <2>3. ASSUME NEW m
        PROVE  /\ Whole([route[x] EXCEPT !.metadata = m])
               /\ [route[x] EXCEPT !.metadata = m].i = route[x].i
               /\ [route[x] EXCEPT !.metadata = m].setting = route[x].setting
    BY <2>1 DEF Whole, Fields
  <2>4. ASSUME NEW m, NEW n
        PROVE  LET call == [[route[x] EXCEPT !.metadata = m] EXCEPT !.metadata = n] IN
               /\ Whole(call) /\ call.setting.rules[call.i].action = rule.action
    BY <2>3 DEF Whole, Fields
  <2> QED
    BY <2>2, <2>3, <2>4, OnwardKeeps, ActedKeeps, Zenon
<1>11. CASE NoRule(x)
  <2> DEFINE next == [route[x] EXCEPT !.step = "selected"]
  <2>1. Whole(route[x])
    BY <1>1, <1>11 DEF NoRule, Going
  <2>2. /\ DOMAIN next = Fields /\ next.step = "selected" /\ next.selected = 0
    BY <2>1 DEF Whole, Fields
  <2>3. CallOK(x, next)
    BY <2>2 DEF CallOK, Action, Going
  <2> QED
    BY <1>11, <2>3, SetKeeps DEF NoRule
<1>12. CASE PreMatched(x)
  <2> DEFINE next == [Call(route[x].setting, "arrives") EXCEPT !.passed = TRUE]
  <2>1. Goes(next)
    BY DEF Goes, Whole, Going, Fields, Call
  <2>2. Fail(x) \/ Gone(x, "bypassed") \/ Set(x, next)
    BY <1>12, Zenon DEF PreMatched
  <2> QED
    BY <2>1, <2>2, GoesOK, SetKeeps, GoneKeeps, OnwardKeeps, Zenon
<1>13. CASE Routed(x)
  <2>1. DOMAIN route[x] = Fields /\ route[x].step = "selected" /\ ~route[x].pre
    BY <1>0, <1>13 DEF Routed, CallOK
  <2>2. ASSUME NEW tag, tag \in DOMAIN Outbounds, Network(x) \in Outbounds[tag].networks,
               HandOver(x, tag) \/ Handle(x, tag)
        PROVE  RouteInv'
    <3>1. PICK step \in {"handed over", "handled"} :
            Set(x, [NoCall(step) EXCEPT !.outbound = tag, !.payload = Payload(route[x])])
      BY <2>2, Zenon DEF HandOver, Handle
    <3>2. CallOK(x, [NoCall(step) EXCEPT !.outbound = tag, !.payload = Payload(route[x])])
      BY <2>2, Zenon DEF CallOK, NoCall, Going
    <3> QED
      BY <3>1, <3>2, SetKeeps, Zenon
  <2>3. ASSUME NEW tag, To(x, tag), ~(Action(route[x]).type = "bypass" /\ tag = None) PROVE RouteInv'
    BY <2>2, <2>3, OnwardKeeps, Zenon DEF To
  <2>4. Action(route[x]).type = "bypass" => Action(route[x]).outbound # None
    BY <1>0, <2>1 DEF CallOK
  <2>5. CallOK(x, [route[x] EXCEPT !.step = "hijacked"])
    BY <2>1 DEF CallOK, Going, Fields
  <2>6. ASSUME HijackDNS(x) PROVE RouteInv'
    BY <2>5, <2>6, SetKeeps DEF HijackDNS
  <2>7. Action(route[x]).type = "default" => Action(route[x]).type # "bypass"
    OBVIOUS
  <2> QED
    BY <1>13, <2>3, <2>4, <2>6, <2>7, OnwardKeeps, Zenon DEF Routed
<1>14. CASE HijackEnds(x) \/ Handled(x)
  BY <1>14, GoneKeeps, Zenon DEF HijackEnds, Handled
<1> QED
  BY <1>2, <1>3, <1>4, <1>5, <1>6, <1>7, <1>8, <1>9, <1>10, <1>11, <1>12, <1>13, <1>14, Zenon
     DEF RouteStep

(* The calls before the connections arrive.                                  *)
LEMMA InitRouteInv == RouteInit => RouteInv
<1> SUFFICES ASSUME RouteInit PROVE RouteInv
  OBVIOUS
<1>1. PICK arrival \in Arrivals :
        route = [x \in Conns |->
            IF \E pair \in arrival : pair[1] = x
            THEN Call((CHOOSE pair \in arrival : pair[1] = x)[2], "arrives")
            ELSE NoCall("never")]
  BY Zenon DEF RouteInit
<1>2. \A setting : Whole(Call(setting, "arrives")) /\ Call(setting, "arrives").step = "arrives"
  BY DEF Call, Whole, Fields
<1>3. NoCall("never").step = "never"
  BY DEF NoCall
<1>4. ASSUME NEW x \in Conns PROVE CallOK(x, route[x])
  <2>1. route[x] = NoCall("never") \/ \E setting : route[x] = Call(setting, "arrives")
    BY <1>1
  <2> QED
    BY <1>2, <1>3, <2>1, Zenon DEF CallOK, Going
<1>5. DOMAIN route = Conns
  BY <1>1
<1> QED
  BY <1>4, <1>5 DEF RouteInv

(* Every step keeps the invariant.                                           *)
LEMMA NextRouteInv == RouteInv /\ [Next]_<<vars, route>> => RouteInv'
<1> SUFFICES ASSUME RouteInv, [Next]_<<vars, route>> PROVE RouteInv'
  OBVIOUS
<1>1. UNCHANGED route => RouteInv'
  BY Zenon DEF RouteInv, CallOK, Action
<1>2. \A x \in Arrived : x \in Conns
  BY Zenon DEF Arrived
<1> QED
  BY <1>1, <1>2, RouteStepKeeps, Zenon DEF Next

(* Whatever the rules, what is handed over has an outbound that carries its  *)
(* network (route.go:99-160, 216-296).                                      *)
THEOREM RoutedHasOutboundHolds == Spec => []RoutedHasOutbound
<1>1. RouteInv => RoutedHasOutbound
  BY Zenon DEF RouteInv, CallOK, RoutedHasOutbound
<1> QED
  BY <1>1, InitRouteInv, NextRouteInv, PTL DEF Spec

-----------------------------------------------------------------------------
(* PreMatch and the pass that follows it.                                   *)

(* What the rules begin with, and what one that does not decide leaves.     *)
Begun(s, m) ==
    IF s.resolve THEN Resolved(s, WithVersion(WithName(s, WithProcess(s, m))))
    ELSE WithVersion(WithName(s, WithProcess(s, m)))

Begin(x, s) == Begun(s, [s.metadata EXCEPT !.Network = Network(x)])

Ruling(s, i, m) == RuleMatches(s.rules[i], ResetRuleCache(m))

Options(s, i, m) ==
    IF Ruling(s, i, m).ok /\ s.rules[i].action.type \in {"route", "route-options"}
    THEN WithOptions(s.rules[i].action, ResetRuleCache(Ruling(s, i, m).metadata))
    ELSE ResetRuleCache(Ruling(s, i, m).metadata)

After(s, i, m) ==
    IF Ruling(s, i, m).ok /\ s.rules[i].action.type = "resolve"
    THEN Resolved(s, Options(s, i, m)) ELSE Options(s, i, m)

(* Rules that PreMatch goes on after, and the one it stops at, or their end.  *)
Passes(s, i, m) ==
    /\ i <= Len(s.rules)
    /\ Ruling(s, i, m).ok =>
          /\ s.rules[i].action.type \notin Final \union {"sniff"}
          /\ s.rules[i].action.type = "bypass" => s.rules[i].action.outbound = None

Stops(s, k, m) ==
    k <= Len(s.rules) =>
        /\ Ruling(s, k, m).ok /\ s.rules[k].action.type # "reject"
        /\ \/ s.rules[k].action.type \in Final \union {"sniff"}
           \/ s.rules[k].action.type = "bypass" /\ s.rules[k].action.outbound # None

(* The metadata t before each of the first k rules.                         *)
Trace(x, s, t, k) ==
    /\ k \in Nat \ {0}
    /\ t[1] = Begin(x, s)
    /\ \A i \in 1 .. k - 1 : Passes(s, i, t[i]) /\ t[i + 1] = After(s, i, t[i])

FirstPass(x, c) ==
    /\ c.step \in {"prepare", "match", "selected"}
    /\ c.step = "prepare" => c.metadata = PrepareConnection(x, c.setting.metadata)
    /\ c.step = "match" => \E t : Trace(x, c.setting, t, c.i) /\ c.metadata = t[c.i]
    /\ c.step = "selected" =>
          \E t, k : /\ Trace(x, c.setting, t, k)
                    /\ IF c.selected = 0 THEN k > Len(c.setting.rules)
                       ELSE /\ c.selected = k /\ k <= Len(c.setting.rules)
                            /\ Ruling(c.setting, k, t[k]).ok
                            /\ Selects(c, c.setting.rules[k].action)

(* The second pass sees what the first has seen, as long as it has not       *)
(* sniffed.                                                                 *)
Follows(c, t, k) ==
    /\ c.step \in {"arrives", "enter"} => c.metadata = c.setting.metadata
    /\ c.step = "match" => c.i \in 1 .. k /\ c.metadata = t[c.i]
    /\ c.step = "selected" => Action(c).type # "reject"

SecondPass(x, c) ==
    /\ c.step = "prepare" => c.metadata = [c.setting.metadata EXCEPT !.Network = Network(x)]
    /\ \E t, k : Trace(x, c.setting, t, k) /\ Stops(c.setting, k, t[k]) /\ Follows(c, t, k)

TunOK(s) ==
    /\ s.fakeip = "no" /\ s.detour = None /\ IsIP(s.metadata.Destination)
    /\ MetadataFields \subseteq DOMAIN s.metadata
    /\ Len(s.rules) \in Nat

Base(c) ==
    /\ c.pre \in BOOLEAN /\ c.passed \in BOOLEAN /\ c.sniffed \in BOOLEAN
    /\ c.passed => ~c.pre
    /\ c.passed \/ c.pre => TunOK(c.setting)

FollowOK(x, c) ==
    c.step \in Going \union {"selected"} =>
        /\ Base(c)
        /\ c.step = "sniff" => c.sniffed /\ ~c.pre
        /\ c.step = "arrives" => /\ c.metadata = c.setting.metadata /\ ~c.pre
                                 /\ c.setting.tun # "no" => TunOK(c.setting)
        /\ c.pre => FirstPass(x, c)
        /\ c.passed /\ ~c.sniffed => SecondPass(x, c)

FollowInv == \A x \in Conns : FollowOK(x, route[x])

-----------------------------------------------------------------------------
(* A step changes the call of one connection.                                *)
LEMMA SetFollows ==
    ASSUME RouteInv, FollowInv, NEW x \in Conns, NEW call, FollowOK(x, call), Set(x, call)
    PROVE  FollowInv'
BY DEF RouteInv, FollowInv, Set

(* A call that returns leaves nothing to follow.                             *)
LEMMA GoneFollows ==
    ASSUME RouteInv, FollowInv, NEW x \in Conns
    PROVE  /\ \A step \in {"refused", "failed", "bypassed", "never"} : Gone(x, step) => FollowInv'
           /\ Fail(x) => FollowInv'
<1>1. ASSUME NEW step \in {"refused", "failed", "bypassed", "never"}, Gone(x, step) PROVE FollowInv'
  <2>1. FollowOK(x, NoCall(step))
    BY DEF FollowOK, NoCall, Going
  <2> QED
    BY <1>1, <2>1, SetFollows DEF Gone
<1> QED
  BY <1>1, Zenon DEF Fail

(* What looking at data and going on leave alone in a call.                 *)
Alike(c2, c) ==
    c2.setting = c.setting /\ c2.pre = c.pre /\ c2.passed = c.passed /\ c2.sniffed = c.sniffed

(* Looking at data changes none of these.                                    *)
LEMMA SniffSame ==
    ASSUME NEW x, NEW call, Whole(call)
    PROVE  /\ Alike(Named(call), call) /\ Alike(Kept(x, call), call)
           /\ \A m : Alike([call EXCEPT !.metadata = m], call)
BY DEF Named, Kept, Whole, Fields, Alike

(* Going on to the next rule, or to the first one.                           *)
LEMMA OnwardOutcome ==
    ASSUME NEW x, NEW call, Whole(call), Onward(x, call)
    PROVE  Fail(x) \/ \E c : Set(x, c) /\ Alike(c, call) /\ c.step = "match"
<1>1. ASSUME ThenMatch(x, call)
      PROVE  Fail(x) \/ \E c : Set(x, c) /\ Alike(c, call) /\ c.step = "match"
  <2> DEFINE next == [call EXCEPT !.step = "match", !.i = 1,
                        !.metadata = IF call.setting.resolve THEN Resolved(call.setting, @) ELSE @]
  <2>1. Alike(next, call) /\ next.step = "match"
    BY DEF Alike, Whole, Fields
  <2>2. Fail(x) \/ Set(x, next)
    BY <1>1, Zenon DEF ThenMatch
  <2> QED
    BY <2>1, <2>2, Zenon
<1>2. Alike([call EXCEPT !.step = "match", !.i = @ + 1], call)
      /\ [call EXCEPT !.step = "match", !.i = @ + 1].step = "match"
  BY DEF Alike, Whole, Fields
<1> QED
  BY <1>1, <1>2, Zenon DEF Onward

(* A call that has sniffed and goes on.                                     *)
LEMMA SniffedFollows ==
    ASSUME NEW x, NEW call, NEW c, Alike(c, call), c.step \in {"match", "sniff"},
           call.sniffed = TRUE, call.pre = FALSE, Base(call)
    PROVE  FollowOK(x, c)
BY DEF FollowOK, Alike, Base

(* The end of a sniff (route.go:629-836).                                    *)
LEMMA SniffEndsFollows ==
    ASSUME RouteInv, FollowInv, NEW x \in Conns, NEW call, Whole(call), SniffEnds(x, call),
           call.sniffed = TRUE, call.pre = FALSE, Base(call)
    PROVE  FollowInv'
<1>1. Whole(Kept(x, call)) /\ Alike(Kept(x, call), call)
  BY SniffCalls, SniffSame
<1>2. Fail(x) \/ \E c : Set(x, c) /\ Alike(c, Kept(x, call)) /\ c.step = "match"
  BY <1>1, OnwardOutcome, Zenon DEF SniffEnds
<1>3. CASE Fail(x)
  BY <1>3, GoneFollows
<1>4. ASSUME NEW c, Set(x, c), Alike(c, Kept(x, call)), c.step = "match" PROVE FollowInv'
  <2>1. Alike(c, call)
    BY <1>1, <1>4 DEF Alike
  <2> QED
    BY <1>4, <2>1, SniffedFollows, SetFollows, Zenon
<1> QED
  BY <1>2, <1>3, <1>4, Zenon

(* A sniff has been performed when it returns, whatever it found.           *)
LEMMA SniffFollows ==
    ASSUME RouteInv, FollowInv, NEW x \in Conns, NEW action, NEW call, Whole(call),
           Sniff(x, action, call), call.pre = FALSE, Base(call)
    PROVE  FollowInv'
<1> DEFINE begun == [call EXCEPT !.action = action, !.sniffed = TRUE, !.step = "sniff"]
           skipped == [call EXCEPT !.sniffed = TRUE]
<1>1. /\ Whole(begun) /\ begun.sniffed = TRUE /\ begun.pre = FALSE /\ begun.step = "sniff"
      /\ begun.setting = call.setting /\ begun.passed = call.passed
      /\ Whole(skipped) /\ skipped.sniffed = TRUE /\ skipped.pre = FALSE
      /\ skipped.setting = call.setting /\ skipped.passed = call.passed
  BY DEF Whole, Fields
<1>2. Base(begun) /\ Base(skipped)
  BY <1>1 DEF Base
<1>3. \/ Onward(x, skipped)
      \/ \E m : SniffEnds(x, Named([begun EXCEPT !.metadata = m]))
      \/ \E m, f : Set(x, Named([begun EXCEPT !.metadata = m, !.fresh = f]))
      \/ Set(x, begun)
  BY Zenon DEF Sniff
<1> HIDE DEF begun, skipped
<1>4. CASE Onward(x, skipped)
  <2>1. Fail(x) \/ \E c : Set(x, c) /\ Alike(c, skipped) /\ c.step = "match"
    BY <1>1, <1>4, OnwardOutcome, Zenon
  <2> QED
    BY <1>1, <1>2, <2>1, GoneFollows, SniffedFollows, SetFollows, Zenon
<1>5. ASSUME NEW m, SniffEnds(x, Named([begun EXCEPT !.metadata = m])) PROVE FollowInv'
  <2> DEFINE c == Named([begun EXCEPT !.metadata = m])
  <2>1. Whole(c) /\ Alike(c, begun)
    BY <1>1 DEF Whole, Fields, Named, Alike
  <2> HIDE DEF c
  <2>2. c.sniffed = TRUE /\ c.pre = FALSE /\ Base(c)
    BY <1>1, <1>2, <2>1 DEF Alike, Base
  <2> QED
    BY <1>5, <2>1, <2>2, SniffEndsFollows, Zenon DEF c
<1>6. ASSUME NEW m, NEW f, Set(x, Named([begun EXCEPT !.metadata = m, !.fresh = f]))
      PROVE  FollowInv'
  <2> DEFINE c == Named([begun EXCEPT !.metadata = m, !.fresh = f])
  <2>1. Alike(c, begun) /\ c.step = "sniff"
    BY <1>1 DEF Whole, Fields, Named, Alike
  <2> HIDE DEF c
  <2>2. FollowOK(x, c)
    BY <1>1, <1>2, <2>1, SniffedFollows, Zenon
  <2> QED
    BY <1>6, <2>2, SetFollows DEF c
<1>7. CASE Set(x, begun)
  <2>1. Alike(begun, begun)
    BY DEF Alike
  <2> QED
    BY <1>1, <1>2, <1>7, <2>1, SniffedFollows, SetFollows, Zenon
<1> QED
  BY <1>3, <1>4, <1>5, <1>6, <1>7, Zenon

-----------------------------------------------------------------------------
(* What the inbound tells PreMatch makes no difference for an address         *)
(* (route.go:469-473).                                                      *)
LEMMA BegunAlike ==
    ASSUME NEW x, NEW s, TunOK(s)
    PROVE  Begun(s, PrepareConnection(x, s.metadata)) = Begin(x, s)
<1> DEFINE m == s.metadata
           n == Network(x)
           v == IF m.Destination.Version = 6 THEN 6 ELSE 4
           a == [m EXCEPT !.Network = n, !.IPVersion = v]
           b == [m EXCEPT !.Network = n]
           Named_(r) == WithName(s, WithProcess(s, r))
<1>1. /\ "Destination" \in DOMAIN m /\ "IPVersion" \in DOMAIN m /\ "ProcessInfo" \in DOMAIN m
      /\ "Domain" \in DOMAIN m /\ "Network" \in DOMAIN m
  BY DEF TunOK, MetadataFields
<1>2. /\ a.Destination = m.Destination /\ a.ProcessInfo = m.ProcessInfo /\ a.Domain = m.Domain
      /\ b.Destination = m.Destination /\ b.ProcessInfo = m.ProcessInfo /\ b.Domain = m.Domain
      /\ DOMAIN a = DOMAIN m /\ DOMAIN b = DOMAIN m
      /\ \A f \in DOMAIN m : f # "IPVersion" => a[f] = b[f]
      /\ a = [f \in DOMAIN m |-> a[f]] /\ b = [f \in DOMAIN m |-> b[f]]
  BY <1>1, Zenon
<1> HIDE DEF a, b, m
<1> DEFINE p == IF m.ProcessInfo = None THEN s.process ELSE m.ProcessInfo
           d == IF m.Domain = None THEN s.mapped ELSE m.Domain
<1>3. /\ WithProcess(s, a) = [a EXCEPT !.ProcessInfo = p]
      /\ WithProcess(s, b) = [b EXCEPT !.ProcessInfo = p]
  BY <1>1, <1>2 DEF WithProcess
<1> HIDE DEF p, d
<1>4. /\ Named_(a) = [[a EXCEPT !.ProcessInfo = p] EXCEPT !.Domain = d]
      /\ Named_(b) = [[b EXCEPT !.ProcessInfo = p] EXCEPT !.Domain = d]
  BY <1>1, <1>2, <1>3, Zenon DEF WithName, TunOK, FakeIP, d
<1>5. /\ DOMAIN Named_(a) = DOMAIN m /\ DOMAIN Named_(b) = DOMAIN m
      /\ \A f \in DOMAIN m : f # "IPVersion" => Named_(a)[f] = Named_(b)[f]
      /\ Named_(a).Destination = m.Destination /\ Named_(b).Destination = m.Destination
  BY <1>1, <1>2, <1>4, Zenon
<1> DEFINE na == Named_(a)
           nb == Named_(b)
<1> HIDE DEF Named_
<1>6. /\ WithVersion(na) = [na EXCEPT !.IPVersion = m.Destination.Version]
      /\ WithVersion(nb) = [nb EXCEPT !.IPVersion = m.Destination.Version]
  BY <1>5 DEF WithVersion, TunOK, m
<1>7. WithVersion(na) = WithVersion(nb)
  BY <1>5, <1>6
<1> QED
  BY <1>7 DEF Begun, Begin, PrepareConnection, Named_, a, b, m

(* What one round of the loop does: an error, the next rule, a decision or a  *)
(* sniff.                                                                   *)
Outcome(x, s, i, a, m) ==
    /\ i <= Len(s.rules)
    /\ \/ Fail(x)
       \/ /\ Ruling(s, i, m).ok => ~Selects(route[x], a) /\ a.type # "sniff"
          /\ Set(x, [route[x] EXCEPT !.metadata = After(s, i, m), !.step = "match", !.i = @ + 1])
       \/ /\ Ruling(s, i, m).ok /\ Selects(route[x], a)
          /\ \E n : Set(x, [route[x] EXCEPT !.metadata = n, !.step = "selected", !.selected = i])
       \/ /\ Ruling(s, i, m).ok /\ a.type = "sniff" /\ ~Selects(route[x], a)
          /\ \E n : Sniff(x, a, [route[x] EXCEPT !.metadata = n])

(* Every round has one of these outcomes (route.go:520-627).                *)
LEMMA RoundOutcome ==
    ASSUME NEW x, Whole(route[x]), route[x].i # 0, MatchRule(x),
           NEW s, s = route[x].setting, NEW i, i = route[x].i, NEW a, a = s.rules[i].action,
           NEW m, m = route[x].metadata
    PROVE  Outcome(x, s, i, a, m)
<1> DEFINE c == route[x]
           With(n) == [c EXCEPT !.metadata = n]
           o == Options(s, i, m)
           On(n) == [c EXCEPT !.metadata = n, !.step = "match", !.i = @ + 1]
           End(n) == [c EXCEPT !.metadata = n, !.step = "selected", !.selected = i]
<1>1. /\ i <= Len(s.rules)
      /\ IF ~Ruling(s, i, m).ok
         THEN Onward(x, With(ResetRuleCache(Ruling(s, i, m).metadata)))
         ELSE Acted(x, a, [With(ResetRuleCache(Ruling(s, i, m).metadata)) EXCEPT !.metadata =
                     IF a.type \in {"route", "route-options"} THEN WithOptions(a, @) ELSE @])
  BY Zenon DEF MatchRule, Ruling
<1>2. \A n : /\ With(n).metadata = n /\ Whole(With(n)) /\ With(n).i = i
             /\ With(n).setting = s /\ With(n).pre = c.pre
             /\ \A n2 : [With(n) EXCEPT !.metadata = n2] = With(n2)
             /\ [With(n) EXCEPT !.step = "match", !.i = @ + 1] = On(n)
             /\ [With(n) EXCEPT !.step = "selected", !.selected = i] = End(n)
  BY Zenon DEF Whole, Fields
<1> HIDE DEF With, On, End
<1>3. \A n : Selects(With(n), a) <=> Selects(c, a)
  BY <1>2, Zenon DEF Selects
<1>4. ASSUME NEW n, Onward(x, With(n)) PROVE Set(x, On(n))
  <2>1. With(n).i # 0
    BY <1>2, Zenon
  <2> QED
    BY <1>2, <1>4, <2>1, Zenon DEF Onward
<1>5. CASE ~Ruling(s, i, m).ok
  <2>1. After(s, i, m) = ResetRuleCache(Ruling(s, i, m).metadata)
    BY <1>5, Zenon DEF After, Options
  <2>2. Set(x, On(After(s, i, m)))
    BY <1>1, <1>4, <1>5, <2>1
  <2> QED
    BY <1>1, <1>5, <2>2, Zenon DEF On, Outcome
<1>6. CASE Ruling(s, i, m).ok
  <2>1. [With(ResetRuleCache(Ruling(s, i, m).metadata)) EXCEPT !.metadata =
            IF a.type \in {"route", "route-options"} THEN WithOptions(a, @) ELSE @] = With(o)
    <3> DEFINE r == ResetRuleCache(Ruling(s, i, m).metadata)
               w == IF a.type \in {"route", "route-options"} THEN WithOptions(a, r) ELSE r
    <3>1. o = w
      BY <1>6, Zenon DEF Options
    <3> HIDE DEF r, o
    <3>2. With(r).metadata = r
      BY <1>2, Zenon
    <3>3. [With(r) EXCEPT !.metadata =
              IF a.type \in {"route", "route-options"} THEN WithOptions(a, @) ELSE @]
            = [With(r) EXCEPT !.metadata = w]
      BY <3>2
    <3>4. [With(r) EXCEPT !.metadata = w] = With(w)
      BY <1>2, Zenon
    <3> QED
      BY <3>1, <3>3, <3>4, Zenon DEF r
  <2> HIDE DEF o
  <2>2. Acted(x, a, With(o))
    BY <1>1, <1>6, <2>1, Zenon
  <2>3. CASE Selects(c, a)
    <3>1. Set(x, End(o))
      BY <1>2, <1>3, <2>2, <2>3, Zenon DEF Acted, Selected
    <3> QED
      BY <1>1, <1>6, <2>3, <3>1, Zenon DEF End, Outcome
  <2>4. CASE ~Selects(c, a) /\ a.type = "sniff"
    <3>1. Sniff(x, a, With(o))
      BY <1>3, <2>2, <2>4, Zenon DEF Acted
    <3> QED
      BY <1>1, <1>6, <2>4, <3>1, Zenon DEF With, Outcome
  <2>5. CASE ~Selects(c, a) /\ a.type # "sniff"
    <3>1. CASE a.type # "resolve"
      <4>1. Onward(x, With(o)) /\ After(s, i, m) = o
        BY <1>3, <2>2, <2>5, <3>1, Zenon DEF Acted, After, o
      <4> QED
        BY <1>1, <1>4, <2>5, <4>1, Zenon DEF On, Outcome
    <3>2. CASE a.type = "resolve"
      <4>1. [With(o) EXCEPT !.metadata = Resolved(With(o).setting, @)] = With(Resolved(s, o))
        BY <1>2, Zenon
      <4>2. After(s, i, m) = Resolved(s, o)
        BY <1>6, <3>2, Zenon DEF After, o
      <4>3. Fail(x) \/ Onward(x, With(Resolved(s, o)))
        BY <1>3, <2>2, <2>5, <3>2, <4>1, Zenon DEF Acted
      <4> QED
        BY <1>1, <1>4, <2>5, <4>2, <4>3, Zenon DEF On, Outcome
    <3> QED
      BY <3>1, <3>2, Zenon
  <2> QED
    BY <2>3, <2>4, <2>5, Zenon
<1> QED
  BY <1>5, <1>6

(* A trace goes on with what the next rule leaves.                          *)
LEMMA TraceGrows ==
    ASSUME NEW x, NEW s, NEW t, NEW k, Trace(x, s, t, k), Passes(s, k, t[k])
    PROVE  \E u : Trace(x, s, u, k + 1) /\ u[k + 1] = After(s, k, t[k])
<1> DEFINE u == [j \in 1 .. k + 1 |-> IF j = k + 1 THEN After(s, k, t[k]) ELSE t[j]]
<1>1. k \in Nat \ {0} /\ t[1] = Begin(x, s)
  BY DEF Trace
<1>2. u[k + 1] = After(s, k, t[k]) /\ \A j \in 1 .. k : u[j] = t[j]
  BY <1>1
<1> HIDE DEF u
<1>3. ASSUME NEW i \in 1 .. (k + 1) - 1 PROVE Passes(s, i, u[i]) /\ u[i + 1] = After(s, i, u[i])
  <2>1. CASE i = k
    <3>1. k \in 1 .. k
      BY <1>1
    <3>2. u[i] = t[k]
      BY <1>2, <2>1, <3>1
    <3> QED
      BY <1>2, <2>1, <3>2
  <2>2. CASE i # k
    <3>1. i \in 1 .. k - 1 /\ i \in 1 .. k /\ i + 1 \in 1 .. k
      BY <1>1, <2>2
    <3>2. u[i] = t[i] /\ u[i + 1] = t[i + 1]
      BY <1>2, <3>1
    <3> QED
      BY <3>1, <3>2 DEF Trace
  <2> QED
    BY <2>1, <2>2
<1>4. u[1] = Begin(x, s) /\ k + 1 \in Nat \ {0}
  BY <1>1, <1>2
<1> QED
  BY <1>1, <1>2, <1>3, <1>4, Zenon DEF Trace

-----------------------------------------------------------------------------
(* A call outside of PreMatch that PreMatch has not passed, or that has       *)
(* sniffed.                                                                 *)
Free(c) == Base(c) /\ ~c.pre /\ (c.passed => c.sniffed)

(* Such a call may go on as it likes.                                        *)
LEMMA FreeFollows ==
    ASSUME NEW x, NEW call, NEW c, Free(call), Alike(c, call), c.step \notin {"arrives", "sniff"}
    PROVE  FollowOK(x, c)
BY DEF FollowOK, Alike, Base, Free

(* The ways on for such a call.                                              *)
LEMMA FreeOnward ==
    ASSUME RouteInv, FollowInv, NEW x \in Conns, NEW call, Whole(call), Free(call)
    PROVE  /\ Onward(x, call) => FollowInv'
           /\ ThenMatch(x, call) => FollowInv'
<1>1. ASSUME Fail(x) \/ \E c : Set(x, c) /\ Alike(c, call) /\ c.step = "match" PROVE FollowInv'
  BY <1>1, GoneFollows, FreeFollows, SetFollows
<1> DEFINE next == [call EXCEPT !.step = "match", !.i = 1,
                      !.metadata = IF call.setting.resolve THEN Resolved(call.setting, @) ELSE @]
<1>2. Alike(next, call) /\ next.step = "match"
  BY DEF Alike, Whole, Fields
<1>3. ThenMatch(x, call) => Fail(x) \/ Set(x, next)
  BY Zenon DEF ThenMatch
<1> QED
  BY <1>1, <1>2, <1>3, OnwardOutcome, Zenon

(* The actions of a rule for such a call.                                    *)
LEMMA FreeActed ==
    ASSUME RouteInv, FollowInv, NEW x \in Conns, NEW action, NEW call, Whole(call), Free(call),
           Acted(x, action, call)
    PROVE  FollowInv'
<1> DEFINE next == [call EXCEPT !.step = "selected", !.selected = call.i]
           resolved == [call EXCEPT !.metadata = Resolved(call.setting, @)]
<1>1. Alike(next, call) /\ next.step = "selected"
  BY DEF Alike, Whole, Fields
<1>2. Whole(resolved) /\ Alike(resolved, call)
  BY DEF Alike, Whole, Fields
<1>3. \/ Set(x, next) \/ Sniff(x, action, call) \/ Onward(x, call) \/ Fail(x) \/ Onward(x, resolved)
  BY Zenon DEF Acted, Selected
<1> HIDE DEF next, resolved
<1>4. call.pre = FALSE /\ Base(call) /\ Free(resolved)
  BY <1>2 DEF Free, Base, Alike
<1>5. FollowOK(x, next)
  BY <1>1, FreeFollows
<1> QED
  BY <1>2, <1>3, <1>4, <1>5, SetFollows, SniffFollows, FreeOnward, GoneFollows, Zenon

(* The round of PreMatch, the second one of its rule, and the others.       *)
LEMMA RoundFollows ==
    ASSUME RouteInv, FollowInv, NEW x \in Conns, MatchRule(x)
    PROVE  FollowInv'
<1> DEFINE c == route[x]
           s == c.setting
           a == s.rules[c.i].action
           On(m) == [c EXCEPT !.metadata = m, !.step = "match", !.i = @ + 1]
           End(m) == [c EXCEPT !.metadata = m, !.step = "selected", !.selected = c.i]
<1>1. /\ c.step = "match" /\ Whole(c) /\ FollowOK(x, c)
  BY Zenon DEF MatchRule, RouteInv, FollowInv, CallOK, Going
<1>2. /\ Base(c) /\ (c.pre => FirstPass(x, c)) /\ (c.passed /\ ~c.sniffed => SecondPass(x, c))
  BY <1>1 DEF FollowOK, Going
<1>3. \A m : /\ Alike(On(m), c) /\ On(m).step = "match" /\ On(m).i = c.i + 1 /\ On(m).metadata = m
             /\ Alike(End(m), c) /\ End(m).step = "selected" /\ End(m).selected = c.i
             /\ Alike([c EXCEPT !.metadata = m], c) /\ Whole([c EXCEPT !.metadata = m])
  BY <1>1 DEF Alike, Whole, Fields
<1>4. CASE Free(c)
  <2>1. \E m : LET call == [c EXCEPT !.metadata = m] IN
          \/ Onward(x, call)
          \/ \E n : Acted(x, a, [call EXCEPT !.metadata = n])
    BY Zenon DEF MatchRule
  <2>2. \A m : Free([c EXCEPT !.metadata = m])
    BY <1>3, <1>4 DEF Free, Base, Alike
  <2>3. ASSUME NEW m, NEW n
        PROVE  LET call == [[c EXCEPT !.metadata = m] EXCEPT !.metadata = n] IN
               Whole(call) /\ Free(call)
    <3>1. [[c EXCEPT !.metadata = m] EXCEPT !.metadata = n] = [c EXCEPT !.metadata = n]
      BY <1>1, Zenon DEF Whole, Fields
    <3> QED
      BY <1>3, <2>2, <3>1, Zenon
  <2> QED
    BY <1>3, <2>1, <2>2, <2>3, FreeOnward, FreeActed, Zenon
<1>5. ASSUME c.i \in Nat \ {0}
      PROVE  /\ c.i <= Len(s.rules)
             /\ \/ Fail(x)
                \/ /\ Ruling(s, c.i, c.metadata).ok => ~Selects(c, a) /\ a.type # "sniff"
                   /\ Set(x, On(After(s, c.i, c.metadata)))
                \/ /\ Ruling(s, c.i, c.metadata).ok /\ Selects(c, a)
                   /\ \E m : Set(x, End(m))
                \/ /\ Ruling(s, c.i, c.metadata).ok /\ a.type = "sniff" /\ ~Selects(c, a)
                   /\ \E m : Sniff(x, a, [c EXCEPT !.metadata = m])
  <2>1. c.i # 0
    BY <1>5
  <2>2. Outcome(x, s, c.i, a, c.metadata)
    BY <1>1, <2>1, RoundOutcome, Zenon
  <2> QED
    BY <2>2, Zenon DEF Outcome
<1> HIDE DEF On, End
<1>6. CASE c.pre
  <2>1. PICK t : Trace(x, s, t, c.i) /\ c.metadata = t[c.i]
    BY <1>1, <1>2, <1>6, Zenon DEF FirstPass
  <2>2. c.i \in Nat \ {0} /\ TunOK(s) /\ ~c.passed
    BY <1>2, <1>6, <2>1 DEF Trace, Base
  <2>3. ASSUME Ruling(s, c.i, c.metadata).ok => ~Selects(c, a) /\ a.type # "sniff",
               Set(x, On(After(s, c.i, c.metadata)))
        PROVE  FollowInv'
    <3> DEFINE next == On(After(s, c.i, c.metadata))
    <3>1. Passes(s, c.i, t[c.i])
      BY <1>5, <2>1, <2>2, <2>3, Zenon DEF Passes, Selects, Final
    <3>2. PICK u : Trace(x, s, u, c.i + 1) /\ u[c.i + 1] = After(s, c.i, t[c.i])
      <4>1. Trace(x, s, t, c.i)
        BY <2>1
      <4>2. \E u : Trace(x, s, u, c.i + 1) /\ u[c.i + 1] = After(s, c.i, t[c.i])
        BY <3>1, <4>1, TraceGrows
      <4> QED
        BY <4>2, Zenon
    <3>3. Alike(next, c) /\ next.step = "match" /\ next.i = c.i + 1 /\ next.metadata = u[c.i + 1]
      BY <1>3, <2>1, <3>2, Zenon
    <3> HIDE DEF next
    <3>4. FirstPass(x, next)
      BY <3>2, <3>3 DEF FirstPass, Alike
    <3>5. FollowOK(x, next)
      BY <1>2, <2>2, <3>3, <3>4 DEF FollowOK, Base, Alike
    <3> QED
      BY <2>3, <3>5, SetFollows, Zenon DEF next
  <2>4. ASSUME Ruling(s, c.i, c.metadata).ok, Selects(c, a), NEW m, Set(x, End(m)) PROVE FollowInv'
    <3>1. Alike(End(m), c) /\ End(m).step = "selected" /\ End(m).selected = c.i
      BY <1>3, Zenon
    <3>2. Selects(End(m), a)
      BY <2>4, <3>1, Zenon DEF Selects, Alike
    <3>3. FirstPass(x, End(m))
      BY <1>5, <2>1, <2>2, <2>4, <3>1, <3>2, Zenon DEF FirstPass, Alike
    <3>4. FollowOK(x, End(m))
      BY <1>2, <2>2, <3>1, <3>3, Zenon DEF FollowOK, Base, Alike
    <3> QED
      BY <2>4, <3>4, SetFollows, Zenon
  <2>5. a.type = "sniff" => Selects(c, a)
    BY <1>6 DEF Selects
  <2> QED
    BY <1>5, <2>2, <2>3, <2>4, <2>5, GoneFollows, Zenon
<1>7. CASE c.passed /\ ~c.sniffed
  <2>1. PICK t, k : Trace(x, s, t, k) /\ Stops(s, k, t[k]) /\ c.i \in 1 .. k /\ c.metadata = t[c.i]
    BY <1>1, <1>2, <1>7 DEF SecondPass, Follows
  <2>2. c.i \in Nat \ {0} /\ k \in Nat \ {0} /\ TunOK(s) /\ c.pre = FALSE /\ c.passed = TRUE
    <3>1. k \in Nat \ {0}
      BY <2>1, Zenon DEF Trace
    <3>2. c.i \in Nat \ {0}
      BY <2>1, <3>1
    <3>3. TunOK(s) /\ c.pre = FALSE /\ c.passed = TRUE
      BY <1>2, <1>7 DEF Base
    <3> QED
      BY <3>1, <3>2, <3>3
  <2>3. c.i # k => c.i \in 1 .. k - 1
    BY <2>1, <2>2
  <2>4. ASSUME Ruling(s, c.i, c.metadata).ok => ~Selects(c, a) /\ a.type # "sniff",
               Set(x, On(After(s, c.i, c.metadata)))
        PROVE  FollowInv'
    <3> DEFINE next == On(After(s, c.i, c.metadata))
    <3>1. c.i # k
      <4> SUFFICES ASSUME c.i = k PROVE FALSE
        OBVIOUS
      <4>1. /\ Ruling(s, c.i, c.metadata).ok
            /\ a.type \in Final \union {"sniff"} \/ (a.type = "bypass" /\ a.outbound # None)
        BY <1>5, <2>1, <2>2, Zenon DEF Stops
      <4> QED
        BY <2>4, <4>1, Zenon DEF Selects
    <3>2. c.i + 1 \in 1 .. k /\ After(s, c.i, c.metadata) = t[c.i + 1]
      <4>1. c.i \in 1 .. k - 1
        BY <2>3, <3>1
      <4>2. t[c.i + 1] = After(s, c.i, t[c.i])
        BY <2>1, <4>1, Zenon DEF Trace
      <4>3. c.i + 1 \in 1 .. k
        BY <2>2, <4>1
      <4> QED
        BY <2>1, <4>2, <4>3
    <3>3. Alike(next, c) /\ next.step = "match" /\ next.i = c.i + 1 /\ next.metadata = t[c.i + 1]
      BY <1>3, <3>2, Zenon
    <3> HIDE DEF next
    <3>4. SecondPass(x, next)
      BY <2>1, <3>2, <3>3 DEF SecondPass, Follows, Alike
    <3>5. FollowOK(x, next)
      BY <1>2, <2>2, <3>3, <3>4, Zenon DEF FollowOK, Base, Alike
    <3> QED
      BY <2>4, <3>5, SetFollows, Zenon DEF next
  <2>5. ASSUME Ruling(s, c.i, c.metadata).ok, Selects(c, a), NEW m, Set(x, End(m)) PROVE FollowInv'
    <3>1. Alike(End(m), c) /\ End(m).step = "selected" /\ End(m).selected = c.i
      BY <1>3, Zenon
    <3>2. c.i = k
      <4> SUFFICES ASSUME c.i # k PROVE FALSE
        OBVIOUS
      <4>1. Passes(s, c.i, c.metadata)
        BY <2>1, <2>3, Zenon DEF Trace
      <4> QED
        BY <2>2, <2>5, <4>1, Zenon DEF Passes, Selects
    <3>3. a.type # "reject"
      BY <1>5, <2>1, <2>2, <3>2, Zenon DEF Stops
    <3>4. Action(End(m)).type # "reject"
      BY <2>2, <3>1, <3>3, Zenon DEF Action, Alike
    <3>5. SecondPass(x, End(m))
      BY <2>1, <3>1, <3>4 DEF SecondPass, Follows, Alike
    <3>6. FollowOK(x, End(m))
      BY <1>2, <2>2, <3>1, <3>5, Zenon DEF FollowOK, Base, Alike
    <3> QED
      BY <2>5, <3>6, SetFollows, Zenon
  <2>6. ASSUME NEW m, Sniff(x, a, [c EXCEPT !.metadata = m]) PROVE FollowInv'
    <3>1. Whole([c EXCEPT !.metadata = m]) /\ Alike([c EXCEPT !.metadata = m], c)
      BY <1>3
    <3>2. Base([c EXCEPT !.metadata = m]) /\ [c EXCEPT !.metadata = m].pre = FALSE
      BY <1>2, <2>2, <3>1 DEF Base, Alike
    <3> QED
      BY <2>6, <3>1, <3>2, SniffFollows, Zenon
  <2> QED
    BY <1>5, <2>2, <2>4, <2>5, <2>6, GoneFollows, Zenon
<1> QED
  BY <1>2, <1>4, <1>6, <1>7 DEF Free

(* The preparation is the same in both passes (route.go:407-519).           *)
LEMMA PrepareFollows ==
    ASSUME RouteInv, FollowInv, NEW x \in Conns, Prepare(x)
    PROVE  FollowInv'
<1> DEFINE c == route[x]
           s == c.setting
           n == WithVersion(WithName(s, WithProcess(s, c.metadata)))
           call == [c EXCEPT !.metadata = n]
           next == [call EXCEPT !.step = "match", !.i = 1,
                      !.metadata = IF call.setting.resolve THEN Resolved(call.setting, @) ELSE @]
<1>1. c.step = "prepare" /\ Whole(c) /\ FollowOK(x, c)
  BY Zenon DEF Prepare, RouteInv, FollowInv, CallOK, Going
<1>2. /\ Base(c) /\ (c.pre => FirstPass(x, c)) /\ (c.passed /\ ~c.sniffed => SecondPass(x, c))
  BY <1>1 DEF FollowOK, Going
<1>3. Fail(x) \/ (~call.pre /\ Sniff(x, InboundSniff(s), call)) \/ ThenMatch(x, call)
  BY Zenon DEF Prepare
<1>4. ThenMatch(x, call) => Fail(x) \/ Set(x, next)
  BY Zenon DEF ThenMatch
<1>5. Whole(call) /\ Alike(call, c)
  BY <1>1, SniffCalls, SniffSame
<1>6. Base(call)
  BY <1>2, <1>5 DEF Base, Alike
<1>7. CASE ~call.pre /\ Sniff(x, InboundSniff(s), call)
  <2>1. call.pre = FALSE
    BY <1>6, <1>7 DEF Base
  <2> QED
    BY <1>5, <1>6, <1>7, <2>1, SniffFollows, Zenon
<1>8. CASE ThenMatch(x, call)
  <2>1. CASE Free(c)
    <3>1. Free(call)
      BY <1>5, <1>6, <2>1 DEF Free, Alike
    <3> QED
      BY <1>5, <1>8, <3>1, FreeOnward
  <2>2. /\ Alike(next, c) /\ next.step = "match" /\ next.i = 1
        /\ next.metadata = Begun(s, c.metadata)
    BY <1>1 DEF Alike, Whole, Fields, Begun
  <2> HIDE DEF next
  <2>3. CASE c.pre
    <3>1. TunOK(s) /\ c.metadata = PrepareConnection(x, s.metadata) /\ ~c.passed
      BY <1>1, <1>2, <2>3, Zenon DEF Base, FirstPass
    <3>2. next.metadata = Begin(x, s)
      BY <2>2, <3>1, BegunAlike
    <3> DEFINE t == [j \in {1} |-> Begin(x, s)]
    <3>3. t[1] = Begin(x, s)
      OBVIOUS
    <3> HIDE DEF t
    <3>4. Trace(x, s, t, 1)
      BY <3>3 DEF Trace
    <3>5. FirstPass(x, next)
      BY <2>2, <3>2, <3>3, <3>4 DEF FirstPass, Alike
    <3>6. FollowOK(x, next)
      BY <1>2, <2>2, <3>1, <3>5, Zenon DEF FollowOK, Base, Alike
    <3> QED
      BY <1>4, <1>8, <3>6, SetFollows, GoneFollows
  <2>4. CASE c.passed /\ ~c.sniffed
    <3>1. PICK t, k : Trace(x, s, t, k) /\ Stops(s, k, t[k])
      BY <1>2, <2>4 DEF SecondPass
    <3>2. c.metadata = [s.metadata EXCEPT !.Network = Network(x)]
      BY <1>1, <1>2, <2>4 DEF SecondPass
    <3>3. next.metadata = t[1] /\ 1 \in 1 .. k
      BY <2>2, <3>1, <3>2 DEF Trace, Begin
    <3>4. SecondPass(x, next)
      BY <2>2, <3>1, <3>3 DEF SecondPass, Follows, Alike
    <3>5. FollowOK(x, next)
      BY <1>2, <2>2, <2>4, <3>4 DEF FollowOK, Base, Alike
    <3> QED
      BY <1>4, <1>8, <3>5, SetFollows, GoneFollows
  <2> QED
    BY <1>2, <2>1, <2>3, <2>4 DEF Free
<1> QED
  BY <1>3, <1>7, <1>8, GoneFollows, Zenon

(* PreMatch lets a connection through that the rules do not refuse before     *)
(* they ask for data (route.go:298-350).                                    *)
LEMMA PassedFollows ==
    ASSUME RouteInv, FollowInv, NEW x \in Conns, PreMatched(x)
    PROVE  FollowInv'
<1> DEFINE c == route[x]
           s == c.setting
           next == [Call(s, "arrives") EXCEPT !.passed = TRUE]
<1>1. c.step = "selected" /\ c.pre /\ FollowOK(x, c)
  BY DEF PreMatched, FollowInv
<1>2. Base(c) /\ FirstPass(x, c) /\ TunOK(s)
  BY <1>1 DEF FollowOK, Base
<1>3. /\ next.step = "arrives" /\ next.setting = s /\ next.metadata = s.metadata
      /\ next.pre = FALSE /\ next.passed = TRUE /\ next.sniffed = FALSE
  BY DEF Call
<1>4. \/ Fail(x) \/ Gone(x, "bypassed")
      \/ /\ Set(x, next) /\ Action(c).type # "reject"
         /\ Action(c).type = "bypass" => s.tun # "redirect"
  BY Zenon DEF PreMatched
<1> HIDE DEF next
<1>5. ASSUME Set(x, next), Action(c).type # "reject", Action(c).type = "bypass" => s.tun # "redirect"
      PROVE  FollowInv'
  <2>1. PICK t, k : /\ Trace(x, s, t, k)
                    /\ IF c.selected = 0 THEN k > Len(s.rules)
                       ELSE /\ c.selected = k /\ k <= Len(s.rules)
                            /\ Ruling(s, k, t[k]).ok /\ Selects(c, s.rules[k].action)
    BY <1>1, <1>2, Zenon DEF FirstPass
  <2>2. k \in Nat /\ Len(s.rules) \in Nat
    BY <1>2, <2>1 DEF Trace, TunOK
  <2>3. Stops(s, k, t[k])
    <3>1. CASE c.selected = 0
      <4>1. ~(k <= Len(s.rules))
        BY <2>1, <2>2, <3>1
      <4> QED
        BY <4>1, Zenon DEF Stops
    <3>2. CASE c.selected # 0
      <4>1. Action(c) = s.rules[k].action
        BY <2>1, <3>2 DEF Action
      <4> QED
        BY <1>5, <2>1, <3>2, <4>1, Zenon DEF Stops, Selects, Final
    <3> QED
      BY <3>1, <3>2
  <2>4. SecondPass(x, next)
    BY <1>3, <2>1, <2>3 DEF SecondPass, Follows
  <2>5. FollowOK(x, next)
    BY <1>2, <1>3, <2>4, Zenon DEF FollowOK, Base
  <2> QED
    BY <1>5, <2>5, SetFollows
<1> QED
  BY <1>4, <1>5, GoneFollows

(* Every step of the router keeps the two passes together.                   *)
LEMMA RouteStepFollows ==
    ASSUME RouteInv, FollowInv, NEW x \in Conns, RouteStep(x)
    PROVE  FollowInv'
<1> DEFINE c == route[x]
           s == c.setting
<1>1. FollowOK(x, c) /\ CallOK(x, c)
  BY DEF RouteInv, FollowInv
<1>2. c.step \in Going => Whole(c) /\ Base(c)
  BY <1>1, Zenon DEF FollowOK, CallOK
<1>3. CASE PreMatch(x)
  <2> DEFINE next == [c EXCEPT !.step = "prepare", !.pre = TRUE,
                               !.metadata = PrepareConnection(x, @)]
  <2>1. /\ Whole(c) /\ Base(c) /\ c.metadata = s.metadata /\ TunOK(s) /\ ~c.passed
    BY <1>1, <1>2, <1>3 DEF PreMatch, FollowOK, Going
  <2>2. /\ next.step = "prepare" /\ next.pre = TRUE /\ next.setting = s
        /\ next.passed = c.passed /\ next.sniffed = c.sniffed
        /\ next.metadata = PrepareConnection(x, s.metadata)
    BY <2>1 DEF Whole, Fields
  <2>3. Set(x, next)
    BY <1>3, Zenon DEF PreMatch
  <2> HIDE DEF next
  <2>4. FollowOK(x, next)
    BY <2>1, <2>2, Zenon DEF FollowOK, Base, FirstPass
  <2> QED
    BY <2>3, <2>4, SetFollows
<1>4. CASE Accepted(x)
  <2> DEFINE next == [c EXCEPT !.step = "enter"]
  <2>1. Whole(c) /\ c.step = "arrives" /\ ~c.pre
    BY <1>1, <1>2, <1>4 DEF Accepted, FollowOK, Going
  <2>2. Alike(next, c) /\ next.step = "enter" /\ next.metadata = c.metadata
    BY <2>1 DEF Whole, Fields, Alike
  <2>3. Set(x, next)
    BY <1>4, Zenon DEF Accepted
  <2> HIDE DEF next
  <2>4. SecondPass(x, c) => SecondPass(x, next)
    BY <2>1, <2>2 DEF SecondPass, Follows, Alike
  <2>5. FollowOK(x, next)
    BY <1>1, <2>1, <2>2, <2>4, Zenon DEF FollowOK, Base, Alike, Going
  <2> QED
    BY <2>3, <2>5, SetFollows
<1>5. CASE Detour(x)
  <2> DEFINE next == [c EXCEPT !.metadata.Inbound = s.detour, !.setting.detour = None]
  <2>1. c.step = "enter" /\ s.detour # None /\ (Fail(x) \/ Set(x, next))
    BY <1>5, Zenon DEF Detour
  <2>2. Whole(c) /\ Base(c) /\ ~c.passed /\ ~c.pre
    BY <1>2, <2>1 DEF Going, Base, TunOK
  <2>3. next.step = "enter" /\ next.pre = c.pre /\ next.passed = c.passed /\ next.sniffed = c.sniffed
    BY <2>1, <2>2 DEF Whole, Fields
  <2> HIDE DEF next
  <2>4. FollowOK(x, next)
    BY <2>2, <2>3 DEF FollowOK, Base
  <2> QED
    BY <2>1, <2>4, SetFollows, GoneFollows
<1>6. CASE Enter(x)
  <2> DEFINE next == [c EXCEPT !.step = "prepare", !.metadata.Network = Network(x)]
  <2>1. c.step = "enter" /\ (Fail(x) \/ Set(x, next))
    BY <1>6, Zenon DEF Enter
  <2>2. Whole(c) /\ Base(c) /\ ~c.pre
    BY <1>1, <1>2, <2>1 DEF Going, FollowOK, FirstPass
  <2>3. /\ Alike(next, c) /\ next.step = "prepare"
        /\ next.metadata = [c.metadata EXCEPT !.Network = Network(x)]
    BY <2>2 DEF Whole, Fields, Alike
  <2> HIDE DEF next
  <2>4. ASSUME SecondPass(x, c) PROVE SecondPass(x, next)
    <3>1. PICK t, k : Trace(x, s, t, k) /\ Stops(s, k, t[k]) /\ Follows(c, t, k)
      BY <2>4 DEF SecondPass
    <3> QED
      BY <2>1, <2>3, <3>1 DEF SecondPass, Follows, Alike
  <2>5. FollowOK(x, next)
    BY <1>1, <2>1, <2>2, <2>3, <2>4 DEF FollowOK, Base, Alike, Going
  <2> QED
    BY <2>1, <2>5, SetFollows, GoneFollows
<1>7. ASSUME c.step = "sniff"
      PROVE  Whole(c) /\ Base(c) /\ c.sniffed = TRUE /\ c.pre = FALSE
  BY <1>1, <1>2, <1>7, Zenon DEF FollowOK, Going, Base
<1>8. CASE SniffRead(x)
  <2>1. Whole(c) /\ Base(c) /\ c.sniffed = TRUE /\ c.pre = FALSE /\ c.step = "sniff"
    BY <1>7, <1>8, Zenon DEF SniffRead
  <2>2. PICK call \in {[c EXCEPT !.read = @ + 1,
                      !.fresh = Append(@, IF x \in Streams THEN c.read + 1
                                          ELSE <<c.read + 1>>)]} :
        \/ \E found \in Found :
              SniffEnds(x, Named([call EXCEPT !.metadata = Recognised(found, call.action, @)]))
        \/ SniffEnds(x, Named([call EXCEPT !.metadata = Missed(x, "no", @)]))
        \/ /\ Set(x, IF x \in Streams THEN call
                     ELSE Named([call EXCEPT !.metadata = Missed(x, "more", @)]))
           /\ UNCHANGED vars
    BY <1>8, Zenon DEF SniffRead
  <2>3. Whole(call) /\ call.step = "sniff" /\ Alike(call, c)
    BY <2>1, Zenon DEF Whole, Fields, Alike
  <2>4. ASSUME NEW m
        PROVE  LET d == Named([call EXCEPT !.metadata = m]) IN
               Whole(d) /\ d.step = "sniff" /\ Alike(d, c)
    BY <2>3 DEF Named, Whole, Fields, Alike
  <2>5. ASSUME NEW d, Whole(d), Alike(d, c), SniffEnds(x, d) PROVE FollowInv'
    <3>1. d.sniffed = TRUE /\ d.pre = FALSE /\ Base(d)
      BY <2>1, <2>5 DEF Alike, Base
    <3> QED
      BY <2>5, <3>1, SniffEndsFollows, Zenon
  <2>6. ASSUME NEW d, d.step = "sniff", Alike(d, c), Set(x, d) PROVE FollowInv'
    BY <2>1, <2>6, SniffedFollows, SetFollows, Zenon
  <2> QED
    BY <2>2, <2>3, <2>4, <2>5, <2>6, Zenon
<1>9. CASE SniffTimeout(x)
  <2>1. Whole(c) /\ Base(c) /\ c.sniffed = TRUE /\ c.pre = FALSE
    BY <1>7, <1>9, Zenon DEF SniffTimeout
  <2>2. SniffEnds(x, c) \/ \E m : SniffEnds(x, Named([c EXCEPT !.metadata = m]))
    BY <1>9, Zenon DEF SniffTimeout
  <2>3. ASSUME NEW m, SniffEnds(x, Named([c EXCEPT !.metadata = m])) PROVE FollowInv'
    <3> DEFINE d == Named([c EXCEPT !.metadata = m])
    <3>1. Whole(d) /\ Alike(d, c)
      BY <2>1 DEF Named, Whole, Fields, Alike
    <3> HIDE DEF d
    <3>2. d.sniffed = TRUE /\ d.pre = FALSE /\ Base(d)
      BY <2>1, <3>1 DEF Alike, Base
    <3> QED
      BY <2>3, <3>1, <3>2, SniffEndsFollows, Zenon DEF d
  <2> QED
    BY <2>1, <2>2, <2>3, SniffEndsFollows, Zenon
<1>10. CASE NoRule(x)
  <2> DEFINE next == [c EXCEPT !.step = "selected"]
  <2>1. c.step = "match" /\ c.i > Len(s.rules) /\ Set(x, next)
    BY <1>10, Zenon DEF NoRule
  <2>2. Whole(c) /\ Base(c)
    BY <1>2, <2>1 DEF Going
  <2>3. Alike(next, c) /\ next.step = "selected" /\ next.selected = 0
    BY <2>2 DEF Whole, Fields, Alike
  <2> HIDE DEF next
  <2>4. c.pre /\ FirstPass(x, c) => FirstPass(x, next)
    BY <2>1, <2>3, Zenon DEF FirstPass, Alike
  <2>5. Action(next).type # "reject"
    BY <2>3 DEF Action
  <2>6. SecondPass(x, c) => SecondPass(x, next)
    BY <2>3, <2>5 DEF SecondPass, Follows, Alike
  <2>7. FollowOK(x, next)
    BY <1>1, <2>1, <2>2, <2>3, <2>4, <2>6, Zenon DEF FollowOK, Base, Alike, Going
  <2> QED
    BY <2>1, <2>7, SetFollows
<1>11. CASE Routed(x)
  <2> DEFINE Left(d) == d.step \in {"handed over", "handled", "hijacked"}
  <2>1. ASSUME NEW d, Left(d), Set(x, d) PROVE FollowInv'
    <3>1. FollowOK(x, d)
      BY <2>1, Zenon DEF FollowOK, Going
    <3> QED
      BY <2>1, <3>1, SetFollows, Zenon
  <2>2. ASSUME NEW tag, HandOver(x, tag) \/ Handle(x, tag) PROVE FollowInv'
    <3>1. PICK step \in {"handed over", "handled"} :
            Set(x, [NoCall(step) EXCEPT !.outbound = tag, !.payload = Payload(route[x])])
      BY <2>2, Zenon DEF HandOver, Handle
    <3>2. Left([NoCall(step) EXCEPT !.outbound = tag, !.payload = Payload(route[x])])
      BY Zenon DEF NoCall
    <3> HIDE DEF Left
    <3> QED
      BY <2>1, <3>1, <3>2, Zenon
  <2>3. DOMAIN c = Fields
    BY <1>1, <1>11 DEF Routed, CallOK
  <2>4. Left([c EXCEPT !.step = "hijacked"])
    BY <2>3 DEF Fields
  <2> HIDE DEF Left
  <2>5. HijackDNS(x) => FollowInv'
    BY <2>1, <2>4, Zenon DEF HijackDNS
  <2>6. \A tag : To(x, tag) => FollowInv'
    BY <2>2, GoneFollows, Zenon DEF To
  <2> QED
    BY <1>11, <2>5, <2>6, GoneFollows, Zenon DEF Routed
<1>12. CASE SniffFails(x) \/ HijackEnds(x) \/ Handled(x)
  BY <1>12, GoneFollows, Zenon DEF SniffFails, HijackEnds, Handled
<1> QED
  BY <1>3, <1>4, <1>5, <1>6, <1>8, <1>9, <1>10, <1>11, <1>12, PrepareFollows, PassedFollows,
     RoundFollows, Zenon DEF RouteStep

(* Without FakeIP, whatever the rules, a TUN connection that PreMatch let     *)
(* through is refused by a rule only after a sniff: both passes see the same  *)
(* metadata until then (route.go:298-350, 407-627).                         *)
THEOREM RejectedAfterSniffHolds ==
    ASSUME \A arrival \in Arrivals : \A pair \in arrival :
               pair[2].tun # "no" => pair[2].fakeip = "no"
    PROVE  Spec => RejectedAfterSniff
<1>1. RouteInit => RouteInv /\ FollowInv
  <2> SUFFICES ASSUME RouteInit PROVE FollowInv
    BY InitRouteInv
  <2>1. PICK arrival \in Arrivals :
          route = [x \in Conns |->
              IF \E pair \in arrival : pair[1] = x
              THEN Call((CHOOSE pair \in arrival : pair[1] = x)[2], "arrives")
              ELSE NoCall("never")]
    BY Zenon DEF RouteInit
  <2>2. ASSUME NEW x \in Conns PROVE FollowOK(x, route[x])
    <3>1. CASE ~\E pair \in arrival : pair[1] = x
      <4>1. route[x] = NoCall("never")
        BY <2>1, <3>1
      <4> QED
        BY <4>1 DEF NoCall, FollowOK, Going
    <3>2. CASE \E pair \in arrival : pair[1] = x
      <4> DEFINE pair == CHOOSE pair \in arrival : pair[1] = x
      <4>1. pair \in arrival
        BY <3>2
      <4>2. route[x] = Call(pair[2], "arrives")
        BY <2>1, <3>2
      <4> HIDE DEF pair
      <4>3. pair[2].tun # "no" => TunOK(pair[2])
        BY <4>1, RouteConstants DEF TunOK
      <4>4. /\ route[x].step = "arrives" /\ route[x].setting = pair[2]
            /\ route[x].metadata = pair[2].metadata /\ route[x].pre = FALSE
            /\ route[x].passed = FALSE /\ route[x].sniffed = FALSE
        BY <4>2 DEF Call
      <4> QED
        BY <4>3, <4>4, Zenon DEF FollowOK, Base
    <3> QED
      BY <3>1, <3>2
  <2> QED
    BY <2>2 DEF FollowInv
<1>2. RouteInv /\ FollowInv /\ [Next]_<<vars, route>> => FollowInv' /\ RouteInv'
  <2> SUFFICES ASSUME RouteInv, FollowInv, [Next]_<<vars, route>> PROVE FollowInv'
    BY NextRouteInv
  <2>1. UNCHANGED route => FollowInv'
    BY DEF FollowInv
  <2>2. \A x \in Arrived : x \in Conns
    BY Zenon DEF Arrived
  <2> QED
    BY <2>1, <2>2, RouteStepFollows, Zenon DEF Next
<1>3. FollowInv =>
        \A x \in Conns :
           /\ route[x].step = "selected" /\ ~route[x].pre /\ route[x].passed
           /\ route'[x].step = "failed" /\ Action(route[x]).type = "reject"
           => route[x].sniffed \/ VersionForgotten(route[x].setting)
  <2> SUFFICES ASSUME FollowInv, NEW x \in Conns, route[x].step = "selected", route[x].passed,
                      ~route[x].sniffed, Action(route[x]).type = "reject"
               PROVE  FALSE
    OBVIOUS
  <2>1. SecondPass(x, route[x])
    BY DEF FollowInv, FollowOK
  <2> QED
    BY <2>1 DEF SecondPass, Follows
<1> QED
  BY <1>1, <1>2, <1>3, PTL DEF Spec, RejectedAfterSniff
=============================================================================
