---------------------------- MODULE MCDNSRouter ----------------------------
(***************************************************************************)
(* DNSRouter for TLC.  Four families of configurations: single rules of      *)
(* every kind, lists of rules with each action, responses with all small     *)
(* combinations of times to live, and look-ups of both families.            *)
(***************************************************************************)
EXTENDS DNSRouter

MCInterface == [Name |-> "en0", Type |-> "wifi", Addresses |-> {{"s1"}}, Expensive |-> TRUE,
                Constrained |-> FALSE]

MCNetworkManager ==
    [ClashMode |-> "rule", DefaultNetworkInterface |-> MCInterface,
     DefaultInterface |-> MCInterface, Interfaces |-> {MCInterface},
     NetworkInterfaces |-> {MCInterface}, WIFIState |-> [SSID |-> "home", BSSID |-> "02"]]

MCPrivate == {"s1", "4in"}

MCBaseMetadata ==
    [Inbound |-> "tun", IPVersion |-> 0, Network |-> "udp", User |-> "u", Outbound |-> "direct",
     Protocol |-> "dns", Domain |-> None, Client |-> None, QueryType |-> None,
     Source |-> [Addr |-> "s1", Fqdn |-> None, Port |-> 5],
     Destination |-> [Addr |-> None, Fqdn |-> None, Port |-> 0],
     DestinationAddresses |-> {},
     ProcessInfo |-> [ProcessPath |-> [base |-> "curl", path |-> "bin/curl"],
                      PackageName |-> None, UserName |-> "root", UserId |-> 0],
     IPCIDRMatchSource |-> FALSE, IPCIDRAcceptEmpty |-> FALSE,
     SourceAddressMatch |-> FALSE, SourcePortMatch |-> FALSE, DestinationAddressMatch |-> FALSE,
     DestinationPortMatch |-> FALSE, DidMatch |-> FALSE, IgnoreDestinationIPCIDRMatch |-> FALSE]

Server(type, strategy) == [type |-> type, strategy |-> strategy, subnet |-> FALSE]

MCTransports ==
    [local |-> Server("udp", "as_is"), remote |-> Server("udp", "as_is"),
     fake |-> Server("fakeip", "as_is"), old |-> Server("udp", "ipv4_only")]

-----------------------------------------------------------------------------
Item(type, values) == [type |-> type, values |-> values]

(* Of each type an item that matches the query for a.example and one that    *)
(* does not, where the type has both.                                       *)
GroupItems ==
    { Item("domain", {"a"}), Item("domain", {"b"}), Item("domain_keyword", {"a"}),
      Item("domain_regex", {"b"}), Item("source_ip_cidr", {"s1"}), Item("source_ip_cidr", {"s2"}),
      Item("source_ip_is_private", {TRUE}), Item("source_port", {5}), Item("source_port", {6}),
      Item("source_port_range", {<<5, 9>>}), Item("source_port_range", {<<6, 9>>}),
      Item("ip_cidr", {"4in", "6in"}), Item("ip_is_private", {TRUE}),
      Item("ip_accept_any", {TRUE}), Item("port", {53}), Item("port_range", {<<0, 9>>}) }

HeadlessItems ==
    { Item("network", {"tcp"}), Item("process_name", {"curl"}),
      Item("process_path", {"bin/ssh"}), Item("process_path_regex", {"bin/curl"}),
      Item("package_name", {"app"}), Item("network_type", {"cellular"}),
      Item("network_is_expensive", {TRUE}), Item("network_is_constrained", {TRUE}),
      Item("wifi_ssid", {"home"}), Item("wifi_bssid", {"01"}),
      Item("network_interface_address", {<<"wifi", {{"s1", "s2"}}>>}),
      Item("default_interface_address", {{"s1"}, {"s2"}}) }

OtherDNSItems ==
    HeadlessItems \union
    { Item("inbound", {"tun"}), Item("ip_version", {4}), Item("query_type", {"A"}),
      Item("query_type", {"TXT"}), Item("auth_user", {"v"}), Item("protocol", {"dns"}),
      Item("outbound", {"any"}), Item("outbound", {"proxy"}), Item("user", {"root"}),
      Item("user_id", {1}), Item("clash_mode", {"global"}),
      Item("interface_address", {<<"en1", {{"s1"}}>>}), Item("network", {"udp"}) }

Rule(items, set, invert) == [kind |-> "default", items |-> items, ruleSet |-> set, invert |-> invert]
Logical(mode, rules, invert) == [kind |-> "logical", mode |-> mode, rules |-> rules, invert |-> invert]
Headless(items, invert) == [kind |-> "default", items |-> items, invert |-> invert]
Uses(sets, source, empty) == [sets |-> sets, matchSource |-> source, acceptEmpty |-> empty]

Domain == Item("domain", {"a"})
Filter == Item("ip_cidr", {"4in", "6in"})
Geo == Uses(<<<<Headless({Filter}, FALSE)>>>>, FALSE, FALSE)

PairRules ==
    { Rule({i, j}, None, invert) : i \in GroupItems, j \in GroupItems \union OtherDNSItems,
                                   invert \in BOOLEAN }

SetRules ==
    { Rule(outer, Uses(<<<<Headless({i, j}, FALSE)>>>>, source, FALSE), invert) :
        outer \in {{}} \union {{o} : o \in {Domain, Item("domain", {"b"}), Item("source_port", {6}),
                                            Item("network", {"tcp"})}},
        i \in GroupItems \ {Item("ip_accept_any", {TRUE})},
        j \in {Item("domain", {"b"}), Item("network", {"tcp"}), Item("source_port", {5}), Filter},
        source \in BOOLEAN, invert \in BOOLEAN }

SeveralRules ==
    { Rule(outer, Uses(<<<<Headless({i, Item("network", {n})}, FALSE), Headless({j}, FALSE)>>,
                         <<Headless({Item("source_port", {6})}, FALSE)>>>>, FALSE, TRUE), FALSE) :
        outer \in {{}, {Domain}}, i \in GroupItems \ {Item("ip_accept_any", {TRUE})},
        j \in {Item("domain", {"b"}), Filter}, n \in {"udp", "tcp"} }

LogicalRules ==
    { Logical(mode, <<Rule({i}, None, a), Rule({j}, None, b)>>, invert) :
        mode \in {"and", "or"}, i \in {Domain, Filter, Item("source_port", {6})},
        j \in {Item("query_type", {"A"}), Item("domain", {"b"}), Item("ip_accept_any", {TRUE})},
        a \in BOOLEAN, b \in BOOLEAN, invert \in BOOLEAN }

-----------------------------------------------------------------------------
Msg(rcode, addrs, ttls) ==
    [rcode |-> rcode, addrs |-> addrs, answer |-> ttls, ns |-> <<>>, extra |-> <<>>, minttl |-> None]

(* An answer inside the filter, one outside, none, and an error's.          *)
FilterAnswers ==
    [A |-> {Msg("success", {"4in"}, <<1>>), Msg("success", {"4out"}, <<1>>),
            Msg("nxdomain", {}, <<>>)},
     AAAA |-> {Msg("success", {"6in"}, <<1>>), Msg("success", {"6out"}, <<1>>),
               Msg("servfail", {}, <<>>)},
     TXT |-> {Msg("success", {}, <<1>>)}]

Action(server) ==
    [type |-> "route", server |-> server, strategy |-> "as_is", disableCache |-> FALSE,
     rewriteTTL |-> None, subnet |-> FALSE]
RouteOptions(strategy, disable, ttl, subnet) ==
    [type |-> "route-options", strategy |-> strategy, disableCache |-> disable,
     rewriteTTL |-> ttl, subnet |-> subnet]
RejectAction(drop) == [type |-> "reject", drop |-> drop]
Predefined(rcode, addrs) == [type |-> "predefined", rcode |-> rcode, addrs |-> addrs]

Ask(kind, domain, qtype, via) == [kind |-> kind, domain |-> domain, qtype |-> qtype, via |-> via]
ExchangeA == Ask("exchange", "a", "A", None)
LookupA == Ask("lookup", "a", None, None)

Config(rules, servers, asks) ==
    [rules |-> rules, independentCache |-> FALSE, reverseMapping |-> TRUE, storeRDRC |-> TRUE,
     servers |-> servers, asks |-> asks]

RuleConfigs ==
    { Config(<<[rule |-> rule, action |-> Action("local")]>>, "filter", <<ExchangeA>>) :
        rule \in PairRules \union SetRules \union SeveralRules \union LogicalRules }

To(rule, action) == [rule |-> rule, action |-> action]
Filtered(server) == To(Rule({Filter}, None, FALSE), Action(server))
ByGeo(server) == To(Rule({Item("network", {"udp"})}, Geo, FALSE), Action(server))
Always(action) == To(Rule({Item("inbound", {"tun"})}, None, FALSE), action)

Lists ==
    { <<Filtered("local"), ByGeo("remote")>>,
      <<ByGeo("local"), Always(Action("fake"))>>,
      <<Filtered("missing"), Filtered("old"), Always(RejectAction(TRUE))>>,
      <<Always(RouteOptions("ipv4_only", FALSE, 2, FALSE)), Filtered("local")>>,
      <<Always(RouteOptions("ipv6_only", TRUE, None, FALSE)), Filtered("local"),
        Always(Predefined("success", {"4in"}))>>,
      <<Always(RouteOptions("as_is", FALSE, 0, TRUE)), ByGeo("remote"),
        Always(Predefined("nxdomain", {}))>>,
      <<To(Rule({Item("query_type", {"TXT"})}, None, FALSE), RejectAction(FALSE)),
        To(Logical("or", <<Rule({Filter}, None, FALSE), Rule({Item("domain", {"b"})}, None, FALSE)>>,
                   FALSE), Action("local"))>> }

Asks == { <<LookupA, ExchangeA>>, <<Ask("exchange", "a", "TXT", None), ExchangeA>>,
          <<Ask("lookup", "a", None, "old")>>, <<Ask("exchange", "a", "AAAA", "remote")>> }

ListConfigs ==
    { Config(rules, "filter", asks) : rules \in Lists, asks \in Asks } \union
    { [Config(<<Filtered("local"), ByGeo("remote")>>, "filter", <<ExchangeA, LookupA>>) EXCEPT
          !.independentCache = TRUE, !.storeRDRC = FALSE] } \union
    { Config(<<Always(RouteOptions("ipv4_only", FALSE, None, TRUE))>>, "filter",
             <<Ask("exchange", "a", "A", "remote"), LookupA>>) }

Sections == UNION {[1 .. n -> 0 .. 2] : n \in 0 .. 2}

TTLAnswers ==
    [A |-> { r \in [rcode : {"success"}, addrs : {{}}, answer : Sections,
                    ns : {<<>>, <<0>>, <<2>>, <<2, 1>>}, extra : {<<>>, <<1>>}, minttl : {None, 0, 1}] :
               r.ns = <<>> => r.minttl = None }]

MCMaxClock == [filter |-> 3, ttl |-> 5]

MCResponses == [filter |-> FilterAnswers, ttl |-> TTLAnswers]

TTLConfigs ==
    { Config(rules, "ttl", <<ExchangeA, ExchangeA>>) :
        rules \in {<<>>, <<Always(RouteOptions("as_is", FALSE, 2, FALSE))>>} }

MCConfigs == RuleConfigs \union ListConfigs \union TTLConfigs

LookupConfigs == { Config(<<Filtered("local")>>, "filter", <<LookupA>>) }
=============================================================================
