----------------------------- MODULE RuleMatch -----------------------------
(***************************************************************************)
(* How a rule is evaluated (route/rule/rule_abstract.go).  The conditions on *)
(* one side of a connection form a group, any one of which is enough, and    *)
(* the result of a group is a flag kept in the metadata, so that the rules   *)
(* of a rule-set add to the groups of the rule that uses the set.           *)
(*                                                                         *)
(* A default rule is                                                        *)
(*   [kind |-> "default", items, ruleSet, invert]                            *)
(* with ruleSet None or [sets, matchSource, acceptEmpty], a set being a      *)
(* sequence of headless rules; a logical rule is                            *)
(*   [kind |-> "logical", mode, rules, invert]                               *)
(* over default rules (logical rules within logical rules are not modelled). *)
(* A match yields its verdict and the metadata with the flags it leaves.    *)
(***************************************************************************)
EXTENDS RuleItems, Sequences

Verdict(ok, metadata) == [ok |-> ok, metadata |-> metadata]

Of(items, types) == {item \in items : item.type \in types}

ResetRuleCache(metadata) ==
    [metadata EXCEPT !.IPCIDRMatchSource = FALSE, !.IPCIDRAcceptEmpty = FALSE,
                     !.SourceAddressMatch = FALSE, !.SourcePortMatch = FALSE,
                     !.DestinationAddressMatch = FALSE, !.DestinationPortMatch = FALSE,
                     !.DidMatch = FALSE]

(* common.All and common.Any over rules, the metadata passed along.         *)
Combined(Match(_, _), mode, rules, metadata) ==
    LET after[n \in 0 .. Len(rules)] ==
            IF n = 0 THEN Verdict(mode = "and", metadata)
            ELSE IF after[n - 1].ok = (mode = "and") THEN Match(rules[n], after[n - 1].metadata)
            ELSE after[n - 1]
    IN  after[Len(rules)]

-----------------------------------------------------------------------------
(* Some group is evaluated: it has items, and no earlier rule of the same    *)
(* evaluation satisfied it.                                                 *)
Tried(rule, metadata) ==
    \/ Of(rule.items, SourceAddressTypes) # {} /\ ~metadata.SourceAddressMatch
    \/ Of(rule.items, SourcePortTypes) # {} /\ ~metadata.SourcePortMatch
    \/ Of(rule.items, DestinationAddressTypes) # {} /\ ~metadata.DestinationAddressMatch
    \/ /\ ~metadata.IgnoreDestinationIPCIDRMatch
       /\ Of(rule.items, DestinationIPCIDRTypes) # {} /\ ~metadata.DestinationAddressMatch
    \/ Of(rule.items, DestinationPortTypes) # {} /\ ~metadata.DestinationPortMatch

(* Mutant: the addresses of the answer count before there is one.           *)
MutTryGroups(rule, metadata, held) ==
    [metadata EXCEPT
        !.SourceAddressMatch = @ \/ Of(held, SourceAddressTypes) # {},
        !.SourcePortMatch = @ \/ Of(held, SourcePortTypes) # {},
        !.DestinationAddressMatch =
            @ \/ Of(held, DestinationAddressTypes \union DestinationIPCIDRTypes) # {},
        !.DestinationPortMatch = @ \/ Of(held, DestinationPortTypes) # {},
        !.DidMatch = @ \/ Tried(rule, metadata)]

(* The flags of the groups, of which the two on the destination share one;   *)
(* held are the conditions that hold.                                       *)
TryGroups(rule, metadata, held) ==
    [metadata EXCEPT
        !.SourceAddressMatch = @ \/ Of(held, SourceAddressTypes) # {},
        !.SourcePortMatch = @ \/ Of(held, SourcePortTypes) # {},
        !.DestinationAddressMatch =
            \/ @ \/ Of(held, DestinationAddressTypes) # {}
            \/ ~metadata.IgnoreDestinationIPCIDRMatch /\ Of(held, DestinationIPCIDRTypes) # {},
        !.DestinationPortMatch = @ \/ Of(held, DestinationPortTypes) # {},
        !.DidMatch = @ \/ Tried(rule, metadata)]

OtherItems(rule) == {item \in rule.items : item.type \notin GroupTypes}

(* The conditions that must all hold, but for the rule-set item.            *)
MatchItems(rule, metadata, held) ==
    Verdict(OtherItems(rule) \subseteq held, [metadata EXCEPT !.DidMatch = @ \/ OtherItems(rule) # {}])

GroupMissed(rule, metadata) ==
    \/ Of(rule.items, SourceAddressTypes) # {} /\ ~metadata.SourceAddressMatch
    \/ Of(rule.items, SourcePortTypes) # {} /\ ~metadata.SourcePortMatch
    \/ /\ \/ ~metadata.IgnoreDestinationIPCIDRMatch /\ Of(rule.items, DestinationIPCIDRTypes) # {}
          \/ Of(rule.items, DestinationAddressTypes) # {}
       /\ ~metadata.DestinationAddressMatch
    \/ Of(rule.items, DestinationPortTypes) # {} /\ ~metadata.DestinationPortMatch

Conclude(rule, verdict) ==
    Verdict(IF ~verdict.ok \/ GroupMissed(rule, verdict.metadata) THEN rule.invert
            ELSE verdict.metadata.DidMatch => ~rule.invert,
            verdict.metadata)

Holding(rule, metadata) == {item \in rule.items : ItemMatch(item, metadata)}

ItemsMatched(rule, metadata, held) ==
    MatchItems(rule, TryGroups(rule, metadata, held), held)

DefaultHeadlessRule(rule, metadata) ==
    IF rule.items = {} THEN Verdict(TRUE, metadata)
    ELSE Conclude(rule, ItemsMatched(rule, metadata, Holding(rule, metadata)))

Negated(rule, verdict) == Verdict(verdict.ok # rule.invert, verdict.metadata)

LogicalMatch(Match(_, _), rule, metadata) ==
    Negated(rule, Combined(LAMBDA r, m : Match(r, ResetRuleCache(m)), rule.mode, rule.rules, metadata))

HeadlessMatch(rule, metadata) ==
    IF rule.kind = "logical" THEN LogicalMatch(DefaultHeadlessRule, rule, metadata)
    ELSE DefaultHeadlessRule(rule, metadata)

RuleSetMatch(set, metadata) == Combined(HeadlessMatch, "or", set, metadata)

RuleSetItemMatch(item, metadata) ==
    Combined(RuleSetMatch, "or", item.sets,
             [metadata EXCEPT !.IPCIDRMatchSource = item.matchSource,
                              !.IPCIDRAcceptEmpty = item.acceptEmpty])

(* The rule-set item is the last of the conditions.                         *)
ThenRuleSet(rule, verdict) ==
    IF verdict.ok /\ rule.ruleSet # None
    THEN RuleSetItemMatch(rule.ruleSet, verdict.metadata) ELSE verdict

DefaultRule(rule, metadata) ==
    IF rule.items = {} /\ rule.ruleSet = None THEN Verdict(TRUE, metadata)
    ELSE Conclude(rule, ThenRuleSet(rule, ItemsMatched(rule, metadata, Holding(rule, metadata))))

RuleMatches(rule, metadata) ==
    IF rule.kind = "logical" THEN LogicalMatch(DefaultRule, rule, metadata)
    ELSE DefaultRule(rule, metadata)

-----------------------------------------------------------------------------
(* DNS rules are evaluated twice: before the query without the conditions on *)
(* the answer's addresses, and on the answer with them.                     *)
DefaultDNSRule(rule, metadata) ==
    [DefaultRule(rule, [metadata EXCEPT !.IgnoreDestinationIPCIDRMatch = TRUE])
        EXCEPT !.metadata.IgnoreDestinationIPCIDRMatch = FALSE]

DNSRuleMatch(rule, metadata) ==
    IF rule.kind = "logical" THEN LogicalMatch(DefaultDNSRule, rule, metadata)
    ELSE DefaultDNSRule(rule, metadata)

MatchAddressLimit(rule, metadata) ==
    IF rule.kind = "logical" THEN LogicalMatch(DefaultRule, rule, metadata)
    ELSE DefaultRule(rule, metadata)

(* What a loaded set says of its rules; ip_is_private is not counted.       *)
ContainsIPCIDRRule(set) ==
    \E i \in DOMAIN set :
        IF set[i].kind = "logical"
        THEN \E j \in DOMAIN set[i].rules : Of(set[i].rules[j].items, {"ip_cidr"}) # {}
        ELSE Of(set[i].items, {"ip_cidr"}) # {}

ContainsDestinationIPCIDRRule(item) ==
    ~item.matchSource /\ \E i \in DOMAIN item.sets : ContainsIPCIDRRule(item.sets[i])

DefaultWithAddressLimit(rule) ==
    \/ Of(rule.items, DestinationIPCIDRTypes) # {}
    \/ rule.ruleSet # None /\ ContainsDestinationIPCIDRRule(rule.ruleSet)

WithAddressLimit(rule) ==
    IF rule.kind = "logical"
    THEN \E i \in DOMAIN rule.rules : DefaultWithAddressLimit(rule.rules[i])
    ELSE DefaultWithAddressLimit(rule)

-----------------------------------------------------------------------------
(***************************************************************************)
(* What the documentation of rules says a match is: of every group that has  *)
(* conditions one holds, every other condition holds, and the rules of a     *)
(* rule-set are merged into the rule that uses it.                          *)
(***************************************************************************)
Groups ==
    { SourceAddressTypes, SourcePortTypes, DestinationPortTypes,
      DestinationAddressTypes \union DestinationIPCIDRTypes }

Live(items, metadata) ==
    IF metadata.IgnoreDestinationIPCIDRMatch
    THEN items \ Of(items, DestinationIPCIDRTypes) ELSE items

Satisfied(items, metadata) ==
    /\ \A types \in Groups :
          Of(items, types) # {} => \E item \in Of(items, types) : ItemMatch(item, metadata)
    /\ \A item \in items : item.type \notin GroupTypes => ItemMatch(item, metadata)

(* The ways of merging one rule of one set into the rule.                   *)
Merged(rule) ==
    IF rule.ruleSet = None THEN {rule.items}
    ELSE { rule.items \union rule.ruleSet.sets[at[1]][at[2]].items :
             at \in { p \in (1 .. 2) \X (1 .. 2) :
                 p[1] \in DOMAIN rule.ruleSet.sets /\ p[2] \in DOMAIN rule.ruleSet.sets[p[1]] } }

Clean(rule, metadata) ==
    IF rule.ruleSet = None THEN ResetRuleCache(metadata)
    ELSE [ResetRuleCache(metadata) EXCEPT !.IPCIDRMatchSource = rule.ruleSet.matchSource,
                                          !.IPCIDRAcceptEmpty = rule.ruleSet.acceptEmpty]

DocumentedDefault(rule, metadata) ==
    LET live == {Live(items, metadata) : items \in Merged(rule)} IN
    IF {} \in live THEN TRUE
    ELSE (\E items \in live : Satisfied(items, Clean(rule, metadata))) # rule.invert

Documented(rule, metadata) ==
    IF rule.kind = "default" THEN DocumentedDefault(rule, metadata)
    ELSE (IF rule.mode = "and"
          THEN \A i \in DOMAIN rule.rules : DocumentedDefault(rule.rules[i], metadata)
          ELSE \E i \in DOMAIN rule.rules : DocumentedDefault(rule.rules[i], metadata))
         # rule.invert
=============================================================================
