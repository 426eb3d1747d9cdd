------------------------------- MODULE Route -------------------------------
(***************************************************************************)
(* The router (route/route.go): the rules are tried on a connection one by   *)
(* one, some of them changing what is known of it by reading its first data  *)
(* (sniff) or by a DNS query (resolve), until one says what becomes of it:   *)
(* it is refused, answered as DNS, or handed over to an outbound, most often *)
(* through the connection manager.  A TUN inbound asks for a refusal before  *)
(* it accepts the connection (PreMatch), with the same rules and no data.    *)
(*                                                                         *)
(* A rule is one of RuleMatch with an action                                *)
(*   [type, outbound, address, port, names, stream, packet, method, server]. *)
(* The requests of ICMP, which PreMatch routes by itself, are left out, and  *)
(* so are the options of a route that only the dialers look at.             *)
(***************************************************************************)
EXTENDS ConnectionManager, RuleMatch

CONSTANTS
    Arrivals,         \* what connections arrive: sets of pairs of a connection and its setting
    Outbounds,        \* the outbounds by tag: the networks and whether it is a handler
    DefaultOutbound,  \* the tag of the default outbound
    Found,            \* what sniffers can find out: protocol, domain and client
    ServerFirst,      \* ports of protocols in which the server speaks first
    Magic,            \* names that stood for multiplexed connections
    MaxRead           \* bound: chunks or packets that arrive while the rules are tried

MetadataFields ==
    { "Inbound", "IPVersion", "Network", "Protocol", "Domain", "Client", "Destination",
      "DestinationAddresses", "ProcessInfo", "SnifferNames", "SniffError",
      "RouteOriginalDestination" }

(* What comes through a TUN is sent to an address, and TUN inbounds set no    *)
(* detour (tun/inbound.go:501-575).                                         *)
ASSUME RouteConstants ==
    \A arrival \in Arrivals : \A pair \in arrival :
        /\ Len(pair[2].rules) \in Nat
        /\ MetadataFields \subseteq DOMAIN pair[2].metadata
        /\ pair[2].tun # "no" => IsIP(pair[2].metadata.Destination) /\ pair[2].detour = None

VARIABLE route  \* the call of the router for each connection

NoCall(step) == [step |-> step, outbound |-> None, payload |-> <<>>]

(* A setting is what the connection comes with and what the other parts of   *)
(* the program answer about it: tun ("no", "tun", or "redirect" for the one   *)
(* that can bypass), rules, metadata, detour, process, fakeip ("no", or the   *)
(* name of the address, None when the record is missing), mapped, sniff,      *)
(* override and resolve (deprecated options of inbounds), lookup (None when   *)
(* it fails) and nat.                                                       *)
Call(setting, step) ==
    [step |-> step, setting |-> setting, metadata |-> setting.metadata, pre |-> FALSE,
     passed |-> FALSE, i |-> 0, action |-> None, buffers |-> <<>>, fresh |-> <<>>, read |-> 0,
     sniffed |-> FALSE, selected |-> 0]

RouteInit ==
    /\ Init
    /\ \E arrival \in Arrivals :
          route = [x \in Conns |->
              IF \E pair \in arrival : pair[1] = x
              THEN Call((CHOOSE pair \in arrival : pair[1] = x)[2], "arrives")
              ELSE NoCall("never")]

Set(x, call) == route' = [route EXCEPT ![x] = call]

Network(x) == IF x \in Streams THEN "tcp" ELSE "udp"

(* The call returns; what it knew is gone.                                  *)
Gone(x, step) == Set(x, NoCall(step))

(* An error: a connection in PreMatch is refused by its inbound, any other   *)
(* is closed and reported.                                                  *)
Fail(x) ==
    IF route[x].pre THEN Gone(x, "refused") /\ UNCHANGED vars
    ELSE Gone(x, "failed") /\ Refuse(x)

-----------------------------------------------------------------------------
(* The inbound tells PreMatch the version of the address, and the router      *)
(* about the connection no more than where it goes.                         *)
PrepareConnection(x, metadata) ==
    [metadata EXCEPT !.Network = Network(x),
                     !.IPVersion = IF metadata.Destination.Version = 6 THEN 6 ELSE 4]

PreMatch(x) ==
    /\ route[x].step = "arrives" /\ route[x].setting.tun # "no" /\ ~route[x].passed
    /\ Set(x, [route[x] EXCEPT !.step = "prepare", !.pre = TRUE,
                               !.metadata = PrepareConnection(x, @)])
    /\ UNCHANGED vars

(* The inbound accepts it and calls RouteConnectionEx.                      *)
Accepted(x) ==
    /\ route[x].step = "arrives" /\ (route[x].setting.tun = "no" \/ route[x].passed)
    /\ Set(x, [route[x] EXCEPT !.step = "enter"])
    /\ Accept(x)

(* A detour hands the connection to another inbound, which calls again.     *)
Detour(x) ==
    /\ route[x].step = "enter" /\ route[x].setting.detour # None
    /\ IF route[x].setting.detour \in {"loop", "missing", "not injectable"} THEN Fail(x)
       ELSE /\ Set(x, [route[x] EXCEPT !.metadata.Inbound = route[x].setting.detour,
                                       !.setting.detour = None])
            /\ UNCHANGED vars

Enter(x) ==
    /\ route[x].step = "enter" /\ route[x].setting.detour = None
    /\ IF x \in Streams /\ route[x].metadata.Destination.Fqdn \in Magic THEN Fail(x)
       ELSE /\ Set(x, [route[x] EXCEPT !.step = "prepare", !.metadata.Network = Network(x)])
            /\ UNCHANGED vars

-----------------------------------------------------------------------------
Name(fqdn, port) == [Fqdn |-> fqdn, Addr |-> None, Port |-> port, Version |-> 0]

WithProcess(setting, metadata) ==
    [metadata EXCEPT !.ProcessInfo = IF @ = None THEN setting.process ELSE @]

FakeIP(setting, metadata) == IsIP(metadata.Destination) /\ setting.fakeip # "no"

WithName(setting, metadata) ==
    IF FakeIP(setting, metadata)
    THEN [metadata EXCEPT !.Destination = Name(setting.fakeip, @.Port)]
    ELSE [metadata EXCEPT !.Domain = IF @ = None THEN setting.mapped ELSE @]

WithVersion(metadata) ==
    [metadata EXCEPT !.IPVersion =
        IF IsIP(metadata.Destination) THEN metadata.Destination.Version ELSE @]

(* actionResolve, of which only an address has no need.                     *)
ResolveFails(setting, metadata, server) ==
    ~IsIP(metadata.Destination) /\ (server = "missing" \/ setting.lookup = None)

Resolved(setting, metadata) ==
    IF IsIP(metadata.Destination) THEN metadata
    ELSE [metadata EXCEPT !.DestinationAddresses = setting.lookup]

(* The deprecated options: the name is resolved before the first rule.      *)
ThenMatch(x, call) ==
    IF call.setting.resolve /\ ResolveFails(call.setting, call.metadata, "default") THEN Fail(x)
    ELSE /\ Set(x, [call EXCEPT !.step = "match", !.i = 1,
                       !.metadata = IF call.setting.resolve THEN Resolved(call.setting, @) ELSE @])
         /\ UNCHANGED vars

InboundSniff(setting) ==
    [type |-> "sniff", names |-> <<>>, stream |-> FALSE, packet |-> FALSE,
     override |-> setting.override]

(* The rules that follow a sniff, or the rest of the preparation.           *)
Onward(x, call) ==
    IF call.i = 0 THEN ThenMatch(x, call)
    ELSE Set(x, [call EXCEPT !.step = "match", !.i = @ + 1]) /\ UNCHANGED vars

-----------------------------------------------------------------------------
(* actionSniff.                                                            *)
SniffSkipped(x, action, metadata) ==
    \/ metadata.Destination.Port \in ServerFirst
    \/ metadata.Protocol # None
    \/ x \in Streams /\ ~action.stream /\ action.packet
    \/ x \in Packets /\ ~action.packet /\ action.stream
    \/ metadata.SnifferNames = action.names /\ metadata.SniffError = "no"

(* A packet that is the first part of a QUIC handshake has a protocol.      *)
Missed(x, error, metadata) ==
    [metadata EXCEPT !.SniffError = error,
                     !.Protocol = IF error = "more" /\ x \in Packets THEN "quic" ELSE @]

(* Most protocols leave the domain as it is, some set it, to no name even.   *)
FoundDomain(found, metadata) ==
    IF found.Domain = "same" THEN metadata.Domain ELSE found.Domain

Recognised(found, action, metadata) ==
    [metadata EXCEPT !.SniffError = None, !.Protocol = found.Protocol,
        !.Domain = FoundDomain(found, metadata),
        !.Client = IF found.Client # None THEN found.Client ELSE @,
        !.Destination = IF action.override /\ FoundDomain(found, metadata) # None
                        THEN Name(FoundDomain(found, metadata), @.Port) ELSE @]

Named(call) == [call EXCEPT !.metadata.SnifferNames = call.action.names]

(* Mutant: what was read is kept if a protocol was found.                   *)
MutKept(x, call) ==
    [call EXCEPT !.fresh = <<>>, !.action = None,
        !.buffers = IF call.metadata.SniffError # None \/ call.fresh = <<>> THEN @
                    ELSE IF x \in Streams THEN Append(@, call.fresh) ELSE @ \o call.fresh]

(* What was read becomes one more buffer of a stream, or one buffer for each *)
(* packet; packets that were read before are in fresh a second time.        *)
Kept(x, call) ==
    [call EXCEPT !.fresh = <<>>, !.action = None,
        !.buffers = IF call.fresh = <<>> THEN @
                    ELSE IF x \in Streams THEN Append(@, call.fresh) ELSE @ \o call.fresh]

SniffEnds(x, call) == Onward(x, Kept(x, call))

(* Packets that were read before are looked at first, and may be enough.    *)
Sniff(x, action, call) ==
    IF SniffSkipped(x, action, call.metadata) THEN Onward(x, [call EXCEPT !.sniffed = TRUE])
    ELSE LET begun == [call EXCEPT !.action = action, !.sniffed = TRUE, !.step = "sniff"] IN
         IF x \in Packets /\ call.buffers # <<>>
         THEN \/ \E found \in Found :
                   SniffEnds(x, Named([begun EXCEPT !.metadata = Recognised(found, action, @)]))
              \/ \E metadata \in {call.metadata}
                        \union {Missed(x, "more", call.metadata) : n \in 2 .. Len(call.buffers)} :
                   SniffEnds(x, Named([begun EXCEPT !.metadata = Missed(x, "no", metadata)]))
              \/ /\ Set(x, Named([begun EXCEPT !.metadata = Missed(x, "more", @),
                                               !.fresh = call.buffers]))
                 /\ UNCHANGED vars
         ELSE Set(x, begun) /\ UNCHANGED vars

(* PeekStream or ReadPacket gets data: it is recognised, it is of no         *)
(* protocol that is looked for, or more of it is needed.                    *)
SniffRead(x) ==
    /\ route[x].step = "sniff" /\ "local" \in open[x] /\ route[x].read < MaxRead
    /\ \E call \in {[route[x] EXCEPT !.read = @ + 1,
                        !.fresh = Append(@, IF x \in Streams THEN route[x].read + 1
                                            ELSE <<route[x].read + 1>>)]} :
          \/ \E found \in Found :
                SniffEnds(x, Named([call EXCEPT !.metadata = Recognised(found, call.action, @)]))
          \/ SniffEnds(x, Named([call EXCEPT !.metadata = Missed(x, "no", @)]))
          \/ /\ Set(x, IF x \in Streams THEN call
                       ELSE Named([call EXCEPT !.metadata = Missed(x, "more", @)]))
             /\ UNCHANGED vars

(* The time is over, or a stream cannot be read: what there is must do.     *)
SniffTimeout(x) ==
    /\ route[x].step = "sniff" /\ (x \in Packets => "local" \in open[x])
    /\ \/ x \in Packets /\ SniffEnds(x, route[x])
       \/ /\ x \in Streams
          /\ \E error \in {"no"} \union (IF route[x].fresh = <<>> THEN {} ELSE {"more"}) :
                SniffEnds(x, Named([route[x] EXCEPT !.metadata = Missed(x, error, @)]))

(* A packet connection cannot be read, or its context has ended.            *)
SniffFails(x) == route[x].step = "sniff" /\ x \in Packets /\ Fail(x)

Prepare(x) ==
    /\ route[x].step = "prepare"
    /\ LET setting == route[x].setting IN
       IF FakeIP(setting, route[x].metadata) /\ setting.fakeip = None THEN Fail(x)
       ELSE \E call \in {[route[x] EXCEPT !.metadata =
                             WithVersion(WithName(setting, WithProcess(setting, @)))]} :
            IF setting.sniff /\ ~call.pre THEN Sniff(x, InboundSniff(setting), call)
            ELSE ThenMatch(x, call)

-----------------------------------------------------------------------------
(* A rule that matches changes the destination, if its action says so.      *)
WithOptions(action, metadata) ==
    [metadata EXCEPT
        !.RouteOriginalDestination =
            IF (action.address # None \/ action.port # 0) /\ @ = None
            THEN metadata.Destination ELSE @,
        !.Destination =
            [(IF action.address # None THEN action.address ELSE @)
                EXCEPT !.Port = IF action.port # 0 THEN action.port ELSE metadata.Destination.Port],
        !.DestinationAddresses = IF action.address # None THEN {} ELSE @]

Final == {"route", "reject", "hijack-dns"}

(* Mutant: an action without an outbound is final everywhere.               *)
MutSelects(call, action) ==
    \/ action.type \in Final \union {"bypass"}
    \/ action.type = "sniff" /\ call.pre

(* The rules that end the loop: in PreMatch also the first that needs data.  *)
Selects(call, action) ==
    \/ action.type \in Final
    \/ action.type = "bypass" /\ ~(action.outbound = None /\ ~(call.pre /\ call.setting.tun = "redirect"))
    \/ action.type = "sniff" /\ call.pre

Selected(x, call) ==
    Set(x, [call EXCEPT !.step = "selected", !.selected = call.i]) /\ UNCHANGED vars

(* Mutant: PreMatch stops before a query as it does before a sniff.         *)
MutActed(x, action, call) ==
    IF Selects(call, action) \/ (action.type = "resolve" /\ call.pre) THEN Selected(x, call)
    ELSE IF action.type = "sniff" THEN Sniff(x, action, call)
    ELSE IF action.type # "resolve" THEN Onward(x, call)
    ELSE IF ResolveFails(call.setting, call.metadata, action.server) THEN Fail(x)
    ELSE Onward(x, [call EXCEPT !.metadata = Resolved(call.setting, @)])

Acted(x, action, call) ==
    IF Selects(call, action) THEN Selected(x, call)
    ELSE IF action.type = "sniff" THEN Sniff(x, action, call)
    ELSE IF action.type # "resolve" THEN Onward(x, call)
    ELSE IF ResolveFails(call.setting, call.metadata, action.server) THEN Fail(x)
    ELSE Onward(x, [call EXCEPT !.metadata = Resolved(call.setting, @)])

(* One round of the loop over the rules.                                    *)
MatchRule(x) ==
    /\ route[x].step = "match" /\ route[x].i <= Len(route[x].setting.rules)
    /\ \E rule \in {route[x].setting.rules[route[x].i]} :
       \E verdict \in {RuleMatches(rule, ResetRuleCache(route[x].metadata))} :
       \E call \in {[route[x] EXCEPT !.metadata = ResetRuleCache(verdict.metadata)]} :
          IF ~verdict.ok THEN Onward(x, call)
          ELSE Acted(x, rule.action,
                  [call EXCEPT !.metadata =
                     IF rule.action.type \in {"route", "route-options"}
                     THEN WithOptions(rule.action, @) ELSE @])

NoRule(x) ==
    /\ route[x].step = "match" /\ route[x].i > Len(route[x].setting.rules)
    /\ Set(x, [route[x] EXCEPT !.step = "selected"])
    /\ UNCHANGED vars

-----------------------------------------------------------------------------
Action(call) ==
    IF call.selected = 0 THEN [type |-> "default"] ELSE call.setting.rules[call.selected].action

(* The end of PreMatch, which works on a copy of the metadata.              *)
PreMatched(x) ==
    /\ route[x].step = "selected" /\ route[x].pre
    /\ \/ Action(route[x]).type = "reject" /\ Fail(x)
       \/ /\ Action(route[x]).type = "bypass" /\ route[x].setting.tun = "redirect"
          /\ Gone(x, "bypassed") /\ UNCHANGED vars
       \/ /\ Action(route[x]).type # "reject"
          /\ Action(route[x]).type = "bypass" => route[x].setting.tun # "redirect"
          /\ Set(x, [Call(route[x].setting, "arrives") EXCEPT !.passed = TRUE])
          /\ UNCHANGED vars

(* The cached connections are put one around the other, the last read is     *)
(* the first to be read from.                                               *)
Payload(call) ==
    LET of[n \in 0 .. Len(call.buffers)] ==
            IF n = 0 THEN <<>> ELSE call.buffers[n] \o of[n - 1]
    IN  of[Len(call.buffers)]

HandOver(x, tag) ==
    /\ Set(x, [NoCall("handed over") EXCEPT !.outbound = tag, !.payload = Payload(route[x])])
    /\ NewConnection(x)

(* An outbound that is a handler by itself, as a group or a block is; the    *)
(* connection manager does not see the connection.                          *)
Handle(x, tag) ==
    /\ Set(x, [NoCall("handled") EXCEPT !.outbound = tag, !.payload = Payload(route[x])])
    /\ UNCHANGED vars

Handled(x) == route[x].step = "handled" /\ Gone(x, "failed") /\ Refuse(x)

To(x, tag) ==
    IF Action(route[x]).type = "bypass" /\ tag = None THEN HandOver(x, tag)
    ELSE IF tag \notin DOMAIN Outbounds THEN Fail(x)
    ELSE IF Network(x) \notin Outbounds[tag].networks THEN Fail(x)
    ELSE IF Outbounds[tag].handler THEN Handle(x, tag)
    ELSE HandOver(x, tag)

HijackDNS(x) == Set(x, [route[x] EXCEPT !.step = "hijacked"]) /\ UNCHANGED vars

Routed(x) ==
    /\ route[x].step = "selected" /\ ~route[x].pre
    /\ LET action == Action(route[x]) IN
       \/ action.type \in {"route", "bypass"} /\ To(x, action.outbound)
       \/ action.type = "default" /\ To(x, DefaultOutbound)
       \/ action.type = "reject" /\ Fail(x)
       \/ action.type = "hijack-dns" /\ HijackDNS(x)

(* Mutant: the connection is closed and nobody is told.                     *)
MutHijackEnds(x) ==
    /\ route[x].step = "hijacked"
    /\ Gone(x, "failed")
    /\ pc' = [pc EXCEPT ![x] = "refused"]
    /\ CloseBoth(x)
    /\ UNCHANGED <<copy, done, calls, listed, rejected>>

(* The queries of a hijacked connection end.                                *)
HijackEnds(x) ==
    /\ route[x].step = "hijacked"
    /\ Gone(x, "failed")
    /\ \/ Refuse(x)
       \/ ~route[x].setting.nat /\ RefuseTwice(x)

-----------------------------------------------------------------------------
RouteStep(x) ==
    \/ PreMatch(x) \/ Accepted(x) \/ Detour(x) \/ Enter(x) \/ Prepare(x)
    \/ SniffRead(x) \/ SniffTimeout(x) \/ SniffFails(x)
    \/ MatchRule(x) \/ NoRule(x) \/ PreMatched(x) \/ Routed(x) \/ HijackEnds(x) \/ Handled(x)

Arrived == {x \in Conns : route[x].step # "never"}

Next ==
    \/ \E x \in Arrived : RouteStep(x)
    \/ (Close \/ \E x \in Arrived : Relay(x)) /\ UNCHANGED route

(* The router waits for nothing but the reads of a sniff, which have a       *)
(* deadline, and a DNS query, which has its own; a call has finitely many    *)
(* steps, so it is enough that some call goes on as long as one is left: the *)
(* steps of the router are those that change route.                         *)
Out == {"never", "refused", "bypassed", "failed", "handed over", "handled", "hijacked"}

RouteFairness ==
    \/ []<>(\A x \in Conns : route[x].step \in Out)
    \/ []<><<TRUE>>_route

Spec ==
    /\ RouteInit /\ [][Next]_<<vars, route>>
    /\ RouteFairness /\ RelayFairness

-----------------------------------------------------------------------------
(* What is handed over has an outbound, one that carries its network: in     *)
(* particular the rule of a bypass without an outbound, for which            *)
(* routeConnection would go on with none (route.go:116-119), is never         *)
(* selected outside of PreMatch, whatever the rules around it.              *)
RoutedHasOutbound ==
    \A x \in Conns : route[x].step \in {"handed over", "handled"} =>
        /\ route[x].outbound \in DOMAIN Outbounds
        /\ Network(x) \in Outbounds[route[x].outbound].networks

(* A rule that asks for the version of the address.                         *)
AsksVersion(rule) ==
    IF rule.kind = "logical"
    THEN \E i \in DOMAIN rule.rules : Of(rule.rules[i].items, {"ip_version"}) # {}
    ELSE Of(rule.items, {"ip_version"}) # {}

VersionForgotten(setting) ==
    /\ setting.fakeip # "no"
    /\ \E i \in DOMAIN setting.rules : AsksVersion(setting.rules[i])

(* A TUN connection which PreMatch let through is refused by a rule only     *)
(* after a sniff, the deprecated one of its inbound included: that is what   *)
(* docs/configuration/route/rule_action.md:98 says of the method of a        *)
(* rejection.  It rests on a DNS that answers both passes alike              *)
(* (route.go:298-330, 491-627).  It does not hold of a FakeIP address and    *)
(* rules with ip_version: the inbound gives the version to PreMatch only      *)
(* (tun/inbound.go:480, 504-509), and with the name in place of the address  *)
(* the router cannot tell it the second time (route.go:448-473).             *)
RejectedAfterSniff ==
    [][\A x \in Conns :
          /\ route[x].step = "selected" /\ ~route[x].pre /\ route[x].passed
          /\ route'[x].step = "failed" /\ Action(route[x]).type = "reject"
          => route[x].sniffed \/ VersionForgotten(route[x].setting)]_<<vars, route>>

(* The data that sniffing has read reaches the outbound, all of it and,      *)
(* unless it is packets, once, through any number of sniffs that find or     *)
(* miss.  The order is that of arrival only while one of them has read: the  *)
(* buffers of several are read last to first (route.go:153-155, 276-279);    *)
(* and packets a second sniff has asked more for are there twice (744).      *)
NothingSniffedIsLost ==
    [][\A x \in Conns :
          /\ route[x].step = "selected" /\ route'[x].step \in {"handed over", "handled"}
          => LET payload == route'[x].payload IN
             /\ {payload[n] : n \in DOMAIN payload} = 1 .. route[x].read
             /\ x \in Streams => Len(payload) = route[x].read
             /\ x \in Streams /\ Len(route[x].buffers) <= 1 =>
                   payload = [n \in 1 .. route[x].read |-> n]]_<<vars, route>>

(* Whatever the router does, it uses the connection manager as that expects: *)
(* every step is one of ManagerSpec, about which RouteProofs has theorems, *)
(* or leaves it alone (route.go:51-296).                          *)
ImplementsManager == ManagerSpec

(* Every connection leaves the router, and one that has lost the side some   *)
(* running copy reads from is over in the end, onClose called, also when the *)
(* manager closes.  Without that condition it does not hold: of a connection *)
(* whose upload has ended, Close closes the side nobody reads from any more, *)
(* and the download stays until its peer sends something (conn.go:48-56,     *)
(* 258-395).                                                                 *)
CutIsReported ==
    /\ <>[](\A x \in Conns : route[x].step \in Out)
    /\ \A x \in Conns :
          (\E d \in Dirs : copy[x][d] = "run" /\ Source(d) \notin open[x])
              ~> (Over(x) /\ calls[x] >= 1)
=============================================================================
