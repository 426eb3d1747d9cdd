------------------------------ MODULE MCRoute ------------------------------
(***************************************************************************)
(* Route for TLC.  One stream or one packet connection meets lists of rules  *)
(* that sniff, resolve, change the destination and decide; and two           *)
(* connections without rules are relayed side by side.                      *)
(***************************************************************************)
EXTENDS Route

MCNetworkManager == [ClashMode |-> None, DefaultNetworkInterface |-> None]
MCPrivate == {}

MCOutbounds ==
    [proxy |-> [networks |-> {"tcp", "udp"}, handler |-> FALSE],
     stream |-> [networks |-> {"tcp"}, handler |-> FALSE],
     group |-> [networks |-> {"tcp", "udp"}, handler |-> TRUE]]

MCFound ==
    { [Protocol |-> "tls", Domain |-> "a", Client |-> None],
      [Protocol |-> "tls", Domain |-> None, Client |-> None],
      [Protocol |-> "dns", Domain |-> "same", Client |-> None] }

IP == [Fqdn |-> None, Addr |-> "4a", Port |-> 443, Version |-> 4]

Metadata(destination) ==
    [Inbound |-> "tun", IPVersion |-> 0, Network |-> None, User |-> None, Outbound |-> None,
     Protocol |-> None, Domain |-> None, Client |-> None, QueryType |-> None,
     Source |-> [Addr |-> "s1", Fqdn |-> None, Port |-> 5], Destination |-> destination,
     DestinationAddresses |-> {}, ProcessInfo |-> None, SnifferNames |-> <<>>,
     SniffError |-> None, RouteOriginalDestination |-> None,
     IPCIDRMatchSource |-> FALSE, IPCIDRAcceptEmpty |-> FALSE,
     SourceAddressMatch |-> FALSE, SourcePortMatch |-> FALSE, DestinationAddressMatch |-> FALSE,
     DestinationPortMatch |-> FALSE, DidMatch |-> FALSE, IgnoreDestinationIPCIDRMatch |-> FALSE]

Plain ==
    [tun |-> "no", rules |-> <<>>, metadata |-> Metadata(IP), detour |-> None, process |-> None,
     fakeip |-> "no", mapped |-> None, sniff |-> FALSE, override |-> FALSE, resolve |-> FALSE,
     lookup |-> {"4a"}, nat |-> FALSE]

-----------------------------------------------------------------------------
Act(type) ==
    [type |-> type, outbound |-> None, address |-> None, port |-> 0, names |-> <<>>,
     stream |-> FALSE, packet |-> FALSE, override |-> FALSE, method |-> "default",
     server |-> "default"]

To_(tag) == [Act("route") EXCEPT !.outbound = tag]

When(items, action) ==
    [kind |-> "default", items |-> items, ruleSet |-> None, invert |-> FALSE, action |-> action]

Conditions ==
    { {}, {[type |-> "protocol", values |-> {"tls"}]}, {[type |-> "domain", values |-> {"a"}]},
      {[type |-> "ip_cidr", values |-> {"4a"}]} }

(* Rules after which the next ones are tried.                               *)
Passing ==
    { When({}, Act("sniff")),
      When({}, [Act("sniff") EXCEPT !.names = <<"tls">>, !.stream = TRUE]),
      When({}, [Act("sniff") EXCEPT !.names = <<"quic">>, !.packet = TRUE]),
      When({}, Act("resolve")),
      When({}, [Act("route-options") EXCEPT !.address = Name("b", 0)]),
      When({}, [Act("route-options") EXCEPT !.port = 25]),
      When({}, Act("bypass")) }

Deciding ==
    { Act("reject"), Act("hijack-dns"), To_("proxy"), To_("stream"), To_("missing"),
      [Act("bypass") EXCEPT !.outbound = "group"] }

Pairs == { <<p, When(c, a)>> : p \in Passing, c \in Conditions, a \in Deciding }

Triples ==
    { <<p, q, When(c, a)>> : p \in Passing, q \in Passing, c \in Conditions,
                             a \in {Act("reject"), To_("group")} }

(* A name, or what stands for one, the second only with a TUN.              *)
Ruled ==
    { [Plain EXCEPT !.rules = list, !.metadata.Destination = destination] :
        list \in Pairs, destination \in {IP, Name("a", 443)} }
    \union { [Plain EXCEPT !.rules = list, !.tun = "redirect", !.fakeip = name] :
                list \in Pairs, name \in {"no", "a"} }
    \union { [Plain EXCEPT !.rules = list, !.tun = "tun", !.fakeip = name] :
                list \in Triples, name \in {"no", "a"} }

(* What an inbound, the stores of names and the process search contribute.  *)
Reject(c) == <<When(c, Act("reject"))>>

Prepared ==
    { [Plain EXCEPT !.detour = d] : d \in {"loop", "missing", "not injectable", "in"} }
    \union { [Plain EXCEPT !.fakeip = n, !.rules = Reject(c), !.tun = t] :
                n \in {None, "a"}, c \in Conditions, t \in {"no", "tun"} }
    \union { [Plain EXCEPT !.mapped = "a", !.rules = Reject(c), !.tun = t] :
                c \in Conditions, t \in {"no", "tun"} }
    \union { [Plain EXCEPT !.sniff = TRUE, !.override = o, !.resolve = r, !.rules = Reject(c),
                           !.tun = t, !.fakeip = n] :
                o \in BOOLEAN, r \in BOOLEAN, c \in Conditions, t \in {"no", "tun"},
                n \in {"no", "b"} }
    \union { [Plain EXCEPT !.fakeip = n, !.tun = "tun",
                           !.rules = <<When({[type |-> "ip_version", values |-> {4}]}, a),
                                       When({}, Act("reject"))>>] :
                n \in {"no", "a"}, a \in {To_("proxy"), Act("sniff")} }
    \union { [Plain EXCEPT !.metadata.Destination = Name("a", 443), !.lookup = None, !.resolve = r,
                           !.rules = <<When({}, [Act("resolve") EXCEPT !.server = s])>>] :
                r \in BOOLEAN, s \in {"default", "missing"} }
    \union { [Plain EXCEPT !.metadata.Destination = Name("mux", 443)],
             [Plain EXCEPT !.nat = TRUE, !.rules = <<When({}, Act("hijack-dns"))>>] }

MCArrivals ==
    { {<<x, setting>>} : x \in Conns, setting \in Ruled \union Prepared }
    \union { {<<x, Plain>> : x \in Conns} }
=============================================================================
