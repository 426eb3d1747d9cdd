----------------------------- MODULE DNSRouter -----------------------------
(***************************************************************************)
(* The DNS router (dns/router.go) over the DNS client's exchange              *)
(* (dns/client.go): a query is matched against the DNS rules in order, sent   *)
(* to the server of the rule that matches, and, if that rule filters         *)
(* addresses, its answer is checked and a rejected one makes the router go   *)
(* on after that rule.  Lookup asks for both families at once, and its two    *)
(* exchanges share the metadata of the query.                               *)
(*                                                                         *)
(* A configuration is                                                       *)
(*   rules : sequence of [rule, action]                                     *)
(*   independentCache, reverseMapping, storeRDRC                             *)
(*   servers : which servers it has, and so what they may answer             *)
(*   asks : the queries made, [kind, domain, qtype, via]                     *)
(* with actions "route" (server, strategy, disableCache, rewriteTTL, subnet), *)
(* "route-options" (the same without a server), "reject" (drop) and          *)
(* "predefined" (rcode, addrs).  One query is made at a time (concurrent      *)
(* ones meet in the client: module DNSClient) and time passes between        *)
(* queries.                                                                 *)
(***************************************************************************)
EXTENDS RuleMatch, SequencesExt

CONSTANTS
    Configs,      \* the configurations checked
    BaseMetadata, \* the context of the connection that makes the queries
    Responses,    \* [servers -> [question type -> set of responses]]
    Transports,   \* tag -> [type, strategy, subnet], the last two of a legacy server
    Default,      \* the tag of the default server
    MaxClock,     \* [servers -> bound on time]
    RDRCTimeout,  \* how long a rejection is remembered
    Parts, Width  \* of a second, of a time to live: see ResponseTTL

INSTANCE ResponseTTL

Families == {"A", "AAAA"}

VARIABLES
    config,       \* the configuration, and the queries still to make
    query,        \* the query being answered, None between queries
    metadata,     \* its InboundContext
    task,         \* the exchanges of the query, by question type
    cache,        \* the client's cache: key -> [response, expireAt]
    rdrc,         \* rejected responses: key -> when forgotten, 0 while being saved
    mapping,      \* reverse mapping: address -> [domain, expireAt]
    clock

vars == <<config, query, metadata, task, cache, rdrc, mapping, clock>>

Options0 == [strategy |-> "as_is", disableCache |-> FALSE, rewriteTTL |-> None, subnet |-> FALSE]

Init ==
    /\ config \in Configs
    /\ query = None /\ metadata = BaseMetadata /\ task = <<>>
    /\ cache = <<>> /\ rdrc = <<>> /\ mapping = <<>> /\ clock = 0

Without(f, key) == [k \in DOMAIN f \ {key} |-> f[k]]

-----------------------------------------------------------------------------
(* Exchange and Lookup begin.                                               *)
Begin ==
    /\ query = None /\ config.asks # <<>>
    /\ LET ask == Head(config.asks) IN
       /\ query' = [ask |-> ask, pc |-> "match", rule |-> 0, transport |-> None,
                    options |-> Options0, err |-> None, addrs |-> {}]
       /\ metadata' = [BaseMetadata EXCEPT
             !.Domain = ask.domain, !.Destination = [Addr |-> None, Fqdn |-> None, Port |-> 0],
             !.QueryType = IF ask.kind = "exchange" THEN ask.qtype ELSE @,
             !.IPVersion = IF ask.kind = "lookup" THEN @
                           ELSE IF ask.qtype = "A" THEN 4 ELSE IF ask.qtype = "AAAA" THEN 6 ELSE @]
       /\ config' = [config EXCEPT !.asks = Tail(@)]
    /\ UNCHANGED <<task, cache, rdrc, mapping, clock>>

isAddressQuery(ask) == ask.kind = "lookup" \/ ask.qtype \in {"A", "AAAA", "HTTPS"}

Applied(options, action) ==
    [strategy |-> IF action.strategy # "as_is" THEN action.strategy ELSE options.strategy,
     disableCache |-> options.disableCache \/ action.disableCache,
     rewriteTTL |-> IF action.rewriteTTL # None THEN action.rewriteTTL ELSE options.rewriteTTL,
     subnet |-> options.subnet \/ action.subnet]

(* What a legacy server adds to the options that are still unset.           *)
Legacy(options, server) ==
    [options EXCEPT !.strategy = IF @ = "as_is" THEN server.strategy ELSE @,
                    !.subnet = @ \/ server.subnet]

Routed(options, action) ==
    LET server == Transports[action.server]
        applied == Applied(options, action) IN
    Legacy([applied EXCEPT !.disableCache = @ \/ server.type = "fakeip"], server)

(* A rule that routes to a server that is missing, or to fakeip where that    *)
(* is not allowed, is passed over.                                          *)
Usable(action) ==
    /\ action.server \in DOMAIN Transports
    /\ Transports[action.server].type = "fakeip" => query.ask.kind = "exchange"

(* What the action of a rule that matches does to the search.               *)
Acted(seen, i, action) ==
    IF action.type = "route-options" THEN [seen EXCEPT !.options = Applied(@, action)]
    ELSE IF action.type # "route" THEN [seen EXCEPT !.rule = i]
    ELSE IF Usable(action)
    THEN [seen EXCEPT !.rule = i, !.transport = action.server, !.options = Routed(@, action)]
    ELSE seen

Evaluated(was, i, verdict) ==
    IF verdict.ok THEN Acted([was EXCEPT !.metadata = verdict.metadata], i, config.rules[i].action)
    ELSE [was EXCEPT !.metadata = verdict.metadata]

(* The body of the loop of matchDNS.                                        *)
MatchRule(was, i) ==
    IF was.rule # 0 \/ (WithAddressLimit(config.rules[i].rule) /\ ~isAddressQuery(query.ask))
    THEN was
    ELSE Evaluated(was, i, DNSRuleMatch(config.rules[i].rule, ResetRuleCache(was.metadata)))

(* Mutant: the loop starts at the rule whose answer was rejected.           *)
MutmatchDNS(ruleIndex) ==
    FoldLeft(MatchRule,
             [rule |-> 0, transport |-> Default, options |-> Options0, metadata |-> metadata],
             [i \in 1 .. (Len(config.rules) - Max({0, ruleIndex - 1})) |->
                 i + Max({0, ruleIndex - 1})])

matchDNS(ruleIndex) ==
    FoldLeft(MatchRule,
             [rule |-> 0, transport |-> Default, options |-> Options0, metadata |-> metadata],
             [i \in 1 .. (Len(config.rules) - ruleIndex) |-> i + ruleIndex])

(* The exchanges of a query: Lookup asks for the families of the strategy.   *)
Asked(options) ==
    IF query.ask.kind = "exchange" THEN {query.ask.qtype}
    ELSE IF options.strategy = "ipv4_only" THEN {"A"}
    ELSE IF options.strategy = "ipv6_only" THEN {"AAAA"} ELSE Families

(* The query ends with an answer or an error.                               *)
Return(q) == query' = [q EXCEPT !.pc = "returned"] /\ UNCHANGED <<task, mapping>>

Send(found) ==
    /\ query' = [query EXCEPT !.pc = "sent", !.rule = found.rule,
                              !.transport = found.transport, !.options = found.options]
    /\ task' = [t \in Asked(found.options) |->
                  [pc |-> "begin", result |-> None, response |-> None, loaded |-> None]]
    /\ UNCHANGED mapping

(* The head of the loop of Exchange and Lookup: the next rule that matches   *)
(* and what its action does.  In Lookup the error of an answer rejected      *)
(* before stays in err when a predefined answer follows.                    *)
Match ==
    /\ query # None /\ query.pc = "match" /\ query.ask.via = None
    /\ \E found \in {matchDNS(query.rule)} :
       LET action == IF found.rule = 0 THEN [type |-> "route"] ELSE config.rules[found.rule].action
           q == [query EXCEPT !.rule = found.rule] IN
       /\ metadata' = found.metadata
       /\ \/ /\ action.type = "reject"
             /\ Return([q EXCEPT !.err = IF action.drop \/ q.ask.kind = "lookup" THEN "rejected"
                                         ELSE None])
          \/ /\ action.type = "predefined"
             /\ Return(IF q.ask.kind = "lookup" /\ action.rcode # "success"
                       THEN [q EXCEPT !.err = "rcode"] ELSE [q EXCEPT !.addrs = action.addrs])
          \/ action.type = "route" /\ Send(found)
    /\ UNCHANGED <<config, cache, rdrc, clock>>

(* The caller names the server: no rules.  Lookup takes the default strategy *)
(* where Exchange takes that of a legacy server.                            *)
MatchVia ==
    /\ query # None /\ query.pc = "match" /\ query.ask.via # None
    /\ LET options == Legacy(Options0, Transports[query.ask.via]) IN
       Send([rule |-> 0, transport |-> query.ask.via,
             options |-> IF query.ask.kind = "exchange" THEN options
                         ELSE [options EXCEPT !.strategy = Options0.strategy]])
    /\ UNCHANGED <<config, metadata, cache, rdrc, clock>>

-----------------------------------------------------------------------------
(* Client.Exchange for one question type.                                   *)
Key(t) ==
    [domain |-> query.ask.domain, qtype |-> t,
     transport |-> IF config.independentCache THEN query.transport ELSE None]

RDRCKey(t) == [domain |-> query.ask.domain, qtype |-> t, transport |-> query.transport]

DisableCache == query.options.disableCache \/ query.options.subnet

Limited == query.rule # 0 /\ WithAddressLimit(config.rules[query.rule].rule)

TaskAnswers(t, response) ==
    task' = [task EXCEPT ![t] = [@ EXCEPT !.pc = "done", !.result = "answer", !.response = response]]

TaskFails(t, err) == task' = [task EXCEPT ![t] = [@ EXCEPT !.pc = "done", !.result = err]]

Empty == [rcode |-> "success", addrs |-> {}, answer |-> <<>>, ns |-> <<>>, extra |-> <<>>,
          minttl |-> None]

StrategyRejects(t) ==
    \/ t = "A" /\ query.options.strategy = "ipv6_only"
    \/ t = "AAAA" /\ query.options.strategy = "ipv4_only"

(* lookupToExchange looks into the cache before Exchange does, and does so   *)
(* for a query with a client subnet too.                                    *)
LooksUp == ~query.options.disableCache /\ (query.ask.kind = "lookup" \/ ~DisableCache)

(* loadResponse: present and not expired.                                   *)
Cached(t) == LooksUp /\ Key(t) \in DOMAIN cache /\ clock <= cache[Key(t)].expireAt

Load(t) ==
    LET entry == cache[Key(t)] IN
    task' = [task EXCEPT ![t] = [@ EXCEPT
                !.pc = "done", !.result = "answer", !.loaded = entry.expireAt,
                !.response = Aged(entry.response, entry.expireAt, clock)]]

(* LoadRDRC: being saved, or saved and not expired.                         *)
LoadRDRC(t) ==
    /\ ~DisableCache /\ Limited /\ RDRCKey(t) \in DOMAIN rdrc
    /\ rdrc[RDRCKey(t)] = 0 \/ clock <= rdrc[RDRCKey(t)]

(* Up to the exchange with the server; what has expired is dropped.          *)
ClientExchange(t) ==
    /\ query # None /\ query.pc = "sent" /\ task[t].pc = "begin"
    /\ \/ StrategyRejects(t) /\ TaskAnswers(t, Empty) /\ UNCHANGED <<cache, rdrc>>
       \/ ~StrategyRejects(t) /\ Cached(t) /\ Load(t) /\ UNCHANGED <<cache, rdrc>>
       \/ /\ ~StrategyRejects(t) /\ ~Cached(t)
          /\ cache' = IF LooksUp THEN Without(cache, Key(t)) ELSE cache
          /\ \/ LoadRDRC(t) /\ TaskFails(t, "rejected") /\ UNCHANGED rdrc
             \/ /\ ~LoadRDRC(t)
                /\ task' = [task EXCEPT ![t].pc = "server"]
                /\ rdrc' = IF DisableCache \/ ~Limited THEN rdrc ELSE Without(rdrc, RDRCKey(t))
    /\ UNCHANGED <<config, query, metadata, mapping, clock>>

Storable(response) == ~DisableCache /\ response.rcode \in {"success", "nxdomain"}

(* The server answers, or the exchange fails or times out.  An error of the  *)
(* server's code (RcodeError) is an answer without records.  If the rule     *)
(* filters, responseCheck puts the addresses into the metadata, which both   *)
(* exchanges of a Lookup share.                                             *)
Checkable(response) == response.rcode = "success" /\ response.answer # <<>>

ServerAnswers(t, response) ==
    /\ query # None /\ query.pc = "sent" /\ task[t].pc = "server"
    /\ task' = [task EXCEPT ![t] = [@ EXCEPT !.pc = "answered", !.response = response]]
    /\ metadata' = IF Limited /\ Checkable(response)
                   THEN [metadata EXCEPT !.DestinationAddresses = response.addrs] ELSE metadata
    /\ UNCHANGED <<config, query, cache, rdrc, mapping, clock>>

ServerFails(t) ==
    /\ query # None /\ query.pc = "sent" /\ task[t].pc = "server"
    /\ TaskFails(t, "error")
    /\ UNCHANGED <<config, query, metadata, cache, rdrc, mapping, clock>>

(* Mutant: the answer is checked as the query was, without its addresses.   *)
MutAddressLimit ==
    MatchAddressLimit(config.rules[query.rule].rule,
                      [metadata EXCEPT !.IgnoreDestinationIPCIDRMatch = TRUE])

(* responseCheck: the rule evaluated on the answer, with the flags that the  *)
(* metadata has.                                                            *)
AddressLimit == MatchAddressLimit(config.rules[query.rule].rule, metadata)

(* The end of Client.Exchange and storeCache.                               *)
Accept(t, response) ==
    LET ttl == ComputedTTL(response, query.options.rewriteTTL)
        entry == [response |-> WithTTL(response, ttl), expireAt |-> clock + ttl * Parts] IN
    /\ TaskAnswers(t, WithTTL(response, ttl))
    /\ cache' = IF Storable(response) /\ ttl > 0 THEN (Key(t) :> entry) @@ cache ELSE cache
    /\ UNCHANGED rdrc

(* SaveRDRCAsync.                                                           *)
Reject(t, response) ==
    /\ TaskFails(t, "rejected")
    /\ rdrc' = IF Storable(response) /\ config.storeRDRC THEN (RDRCKey(t) :> 0) @@ rdrc ELSE rdrc
    /\ UNCHANGED cache

ClientAnswered(t) ==
    /\ query # None /\ query.pc = "sent" /\ task[t].pc = "answered"
    /\ LET response == task[t].response IN
       \/ ~Limited /\ Accept(t, response) /\ UNCHANGED metadata
       \/ Limited /\ ~Checkable(response) /\ Reject(t, response) /\ UNCHANGED metadata
       \/ /\ Limited /\ Checkable(response)
          /\ \E verdict \in {AddressLimit} :
                /\ IF verdict.ok THEN Accept(t, response) ELSE Reject(t, response)
                /\ metadata' = verdict.metadata
    /\ UNCHANGED <<config, query, mapping, clock>>

(* The goroutine of SaveRDRCAsync.                                          *)
SaveRDRC(key) ==
    /\ rdrc[key] = 0
    /\ rdrc' = [rdrc EXCEPT ![key] = clock + RDRCTimeout]
    /\ UNCHANGED <<config, query, metadata, task, cache, mapping, clock>>

-----------------------------------------------------------------------------
AllDone == \A t \in DOMAIN task : task[t].pc = "done"

Failed(t) == task[t].result # "answer"

(* lookupToExchange makes an error of a code that is not success.           *)
Refused(t) == ~Failed(t) => task[t].response.rcode # "success"

(* Exchange returns: the addresses of the answer go to the reverse mapping.  *)
ExchangeReturns ==
    /\ query # None /\ query.pc = "sent" /\ query.ask.kind = "exchange" /\ AllDone
    /\ LET t == query.ask.qtype
           r == task[t].response IN
       \/ /\ task[t].result = "rejected" /\ Limited
          /\ query' = [query EXCEPT !.pc = "match"] /\ task' = <<>> /\ UNCHANGED mapping
       \/ /\ task[t].result = "error"
          /\ Return([query EXCEPT !.err = "error"])
       \/ /\ ~Failed(t)
          /\ query' = [query EXCEPT !.pc = "returned", !.addrs = r.addrs]
          /\ mapping' =
                IF config.reverseMapping /\ r.answer # <<>> /\ t \in Families
                       /\ Transports[query.transport].type # "fakeip"
                THEN [a \in r.addrs |-> [domain |-> query.ask.domain,
                                         expireAt |-> clock + r.answer[1] * Parts]] @@ mapping
                ELSE mapping
          /\ UNCHANGED task
    /\ UNCHANGED <<config, metadata, cache, rdrc, clock>>

(* Lookup returns: what either family gave; with an error of both, the next  *)
(* rule if this one filters.                                                *)
LookupReturns ==
    /\ query # None /\ query.pc = "sent" /\ query.ask.kind = "lookup" /\ AllDone
    /\ LET addrs == UNION {task[t].response.addrs : t \in {t \in DOMAIN task : ~Refused(t)}}
           err == addrs = {} /\ \E t \in DOMAIN task : Refused(t) IN
       \/ /\ Limited /\ err
          /\ query' = [query EXCEPT !.pc = "match", !.err = "error"]
          /\ task' = <<>> /\ UNCHANGED mapping
       \/ /\ ~(Limited /\ err)
          /\ Return([query EXCEPT !.addrs = addrs,
                                  !.err = IF err THEN "error"
                                          ELSE IF addrs = {} THEN "empty" ELSE None])
    /\ UNCHANGED <<config, metadata, cache, rdrc, clock>>

(* The caller has its answer.                                               *)
End ==
    /\ query # None /\ query.pc = "returned"
    /\ query' = None /\ metadata' = BaseMetadata /\ task' = <<>>
    /\ UNCHANGED <<config, cache, rdrc, mapping, clock>>

ClearCache ==
    /\ query = None /\ cache # <<>>
    /\ cache' = <<>>
    /\ UNCHANGED <<config, query, metadata, task, rdrc, mapping, clock>>

(* Time passes, as long as it makes something stored expire.                *)
Pass ==
    /\ query = None /\ config.asks # <<>> /\ clock < MaxClock[config.servers]
    /\ cache # <<>> \/ rdrc # <<>>
    /\ clock' = clock + 1
    /\ UNCHANGED <<config, query, metadata, task, cache, rdrc, mapping>>
-----------------------------------------------------------------------------
TaskStep(t) ==
    \/ ClientExchange(t)
    \/ \E response \in Responses[config.servers][t] : ServerAnswers(t, response)
    \/ ServerFails(t)
    \/ ClientAnswered(t)

QueryStep ==
    \/ Match \/ MatchVia \/ ExchangeReturns \/ LookupReturns \/ End
    \/ \E t \in DOMAIN task : TaskStep(t)

Next ==
    \/ Begin \/ QueryStep \/ ClearCache \/ Pass
    \/ \E key \in DOMAIN rdrc : SaveRDRC(key)

(* A query that is being answered goes on: its goroutines run, and the       *)
(* exchange with a server ends at the client's timeout at the latest.  This  *)
(* is weak fairness of QueryStep, which is enabled as long as there is a     *)
(* query.                                                                   *)
Fairness == []<>(query = None) \/ []<><<QueryStep>>_vars

Spec == Init /\ [][Next]_vars /\ Fairness

-----------------------------------------------------------------------------
(***************************************************************************)
(* Correctness.                                                            *)
(***************************************************************************)
Plain(set) == \A i \in DOMAIN set : set[i].kind = "default" /\ ~set[i].invert

(* A rule whose rule-set, if it has one, is one plain headless rule.        *)
Exact(rule) ==
    \/ rule.ruleSet = None
    \/ /\ Len(rule.ruleSet.sets) = 1 /\ Len(rule.ruleSet.sets[1]) = 1
       /\ Plain(rule.ruleSet.sets[1])

Additive(rule) ==
    ~rule.invert /\ \A i \in DOMAIN rule.ruleSet.sets : Plain(rule.ruleSet.sets[i])

AllRulesOf(rule) ==
    IF rule.kind = "logical" THEN {rule.rules[i] : i \in DOMAIN rule.rules} ELSE {rule}

(* The evaluation of a rule, group by group with flags left in the metadata, *)
(* is the documented formula: for rules that use at most one plain headless   *)
(* rule it agrees with it, and for rules that use several it never misses a  *)
(* match (the flags one of them leaves may let a later one match too):       *)
(* rule_abstract.go:54-139, rule_item_rule_set.go:43-52.                    *)
EvaluationIsFormula ==
    [][query # None /\ query.pc = "match" =>
          \A i \in DOMAIN config.rules :
              LET rule == config.rules[i].rule
                  ok == DNSRuleMatch(rule, ResetRuleCache(metadata)).ok
                  doc == Documented(rule, [metadata EXCEPT !.IgnoreDestinationIPCIDRMatch = TRUE])
              IN  /\ (\A r \in AllRulesOf(rule) : Exact(r)) => ok = doc
                  /\ rule.kind = "default" /\ ~Exact(rule) /\ Additive(rule) => (doc => ok)]_vars

(* What the documentation says of the answer in a task.                     *)
PassesFilter(t) ==
    Documented(config.rules[query.rule].rule,
               [metadata EXCEPT !.DestinationAddresses = task[t].response.addrs])

Checked(t) == task[t].pc = "answered" /\ Limited /\ Checkable(task[t].response)

(* An answer to Exchange is accepted if and only if it passes the address    *)
(* filter of the rule that sent the query (one that uses at most one plain   *)
(* headless rule), although the second evaluation starts from the flags that *)
(* the first one left in the metadata                                        *)
(* (router.go:277-282, rule_dns.go:302-312).                                *)
ExchangeFollowsFilter ==
    [][\A t \in DOMAIN task :
          query # None /\ query.ask.kind = "exchange" /\ Checked(t) /\ task'[t].pc = "done"
              /\ (\A r \in AllRulesOf(config.rules[query.rule].rule) : Exact(r)) =>
              (task'[t].result # "rejected") = PassesFilter(t)]_vars

(* "When the query results do not match the address filtering rule items,    *)
(* the current rule will be skipped": no answer that fails the filter is     *)
(* accepted, of Exchange or of Lookup.                                      *)
AnswersPassFilter ==
    [][\A t \in DOMAIN task :
          query # None /\ Checked(t) /\ task'[t].pc = "done" =>
              (task'[t].result # "rejected" => PassesFilter(t))]_vars

Positive(r) == {Records(r)[i] : i \in DOMAIN Records(r)} \ {0}

(* The time a response is cached for is the least positive time to live of   *)
(* its records, a negative one's that of its SOA record if that is positive, *)
(* whatever the order of the records and the zeros among them                *)
(* (client.go:98-110, 267-281).                                             *)
CachedForLeastTTL ==
    [][\A t \in DOMAIN task :
          query # None /\ task[t].pc = "answered" /\ task'[t].pc = "done"
              /\ task'[t].result # "rejected" /\ Storable(task[t].response)
              /\ query.options.rewriteTTL = None =>
              LET r == task[t].response
                  life == IF Key(t) \in DOMAIN cache' THEN cache'[Key(t)].expireAt - clock ELSE 0 IN
              \/ NegativeTTL(r) > 0 /\ life = NegativeTTL(r) * Parts
              \/ NegativeTTL(r) = 0 /\ Positive(r) = {} /\ life = 0
              \/ /\ NegativeTTL(r) = 0
                 /\ \E least \in Positive(r) :
                       life = least * Parts /\ \A ttl \in Positive(r) : least <= ttl]_vars

(* An answer out of the cache is not valid for longer than the entry it      *)
(* comes from, and the subtractions in uint32 do not wrap, at any time of    *)
(* the entry's life and for any rewritten time to live                      *)
(* (client.go:364-387, 472-499).                                            *)
LoadedWithinLifetime ==
    \A t \in DOMAIN task :
        task[t].loaded # None =>
            \A i \in DOMAIN Records(task[t].response) :
                clock + Records(task[t].response)[i] * Parts <= task[t].loaded

(* Every query ends: an answer that is rejected makes the router try later   *)
(* rules only, down to the default server (router.go:251-306, 372-402).     *)
QueryEnds == query # None ~> query = None
=============================================================================
