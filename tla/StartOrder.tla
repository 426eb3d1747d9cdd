----------------------------- MODULE StartOrder -----------------------------
(***************************************************************************)
(* The start of outbounds (adapter/outbound/manager.go, startOutbounds) and  *)
(* of DNS transports (dns/transport_manager.go, startTransports), the same   *)
(* algorithm: passes over the list, each starting what has its dependencies  *)
(* started, until all are, or a pass starts nothing and a linter names the   *)
(* cause.                                                                   *)
(***************************************************************************)
EXTENDS Naturals, Sequences

CONSTANTS
    List,     \* the tags of the items, in the order of the list
    ByTag,    \* the tags the linter can look up: endpoints have none there
    Absent,   \* tags no item has
    MaxDeps   \* bound: dependencies of an item

Tags == {List[i] : i \in 1..Len(List)}

ASSUME StartOrderConstants ==
    /\ Len(List) \in Nat
    /\ ByTag \subseteq Tags /\ Tags \intersect Absent = {}
    /\ \A i, j \in 1..Len(List) : List[i] = List[j] => i = j

VARIABLES
    deps,     \* Dependencies() of each item, a sequence
    started,  \* the map started
    running,  \* the items whose Start has returned without an error
    at,       \* the position of the pass
    progress, \* canContinue
    tree,     \* oTree of the linter
    result    \* "running", "ok", "failed", "circular", "missing", "closed"

orderVars == <<deps, started, running, at, progress, tree, result>>

(* Dependency lists without repetition.                                     *)
Lists == {s \in UNION {[1..n -> Tags \union Absent] : n \in 0..MaxDeps} :
             \A i, j \in DOMAIN s : s[i] = s[j] => i = j}

OrderTypeOK ==
    /\ deps \in [Tags -> Lists]
    /\ started \subseteq Tags /\ running \subseteq started
    /\ at \in 1..Len(List) + 1
    /\ progress \in BOOLEAN
    /\ \A i \in DOMAIN tree : tree[i] \in Tags
    /\ result \in {"running", "ok", "failed", "circular", "missing", "closed"}

(* Any dependencies.                                                        *)
OrderInit ==
    /\ deps \in [Tags -> Lists]
    /\ started = {} /\ running = {}
    /\ at = 1 /\ progress = FALSE /\ tree = <<>> /\ result = "running"

Passing == result = "running" /\ tree = <<>> /\ at <= Len(List)
PassOver == result = "running" /\ tree = <<>> /\ at = Len(List) + 1
Ready(t) == \A i \in DOMAIN deps[t] : deps[t][i] \in started

(* There is no default outbound and no fallback for it.                     *)
NoDefault ==
    /\ Passing /\ at = 1 /\ started = {}
    /\ result' = "failed"
    /\ UNCHANGED <<deps, started, running, at, progress, tree>>

(* continue, or continue startOne                                           *)
Skip ==
    /\ Passing
    /\ List[at] \in started \/ ~Ready(List[at])
    /\ at' = at + 1
    /\ UNCHANGED <<deps, started, running, progress, tree, result>>

(* Mutant: the first dependency decides.                                    *)
MutStart ==
    /\ Passing
    /\ List[at] \notin started
    /\ Len(deps[List[at]]) > 0 => deps[List[at]][1] \in started
    /\ started' = started \union {List[at]}
    /\ progress' = TRUE
    /\ running' = running \union {List[at]} /\ at' = at + 1 /\ UNCHANGED result
    /\ UNCHANGED <<deps, tree>>

(* An item is started; its Start may fail, which ends the algorithm.        *)
Start ==
    /\ Passing
    /\ List[at] \notin started /\ Ready(List[at])
    /\ started' = started \union {List[at]}
    /\ progress' = TRUE
    /\ \/ running' = running \union {List[at]} /\ at' = at + 1 /\ UNCHANGED result
       \/ result' = "failed" /\ UNCHANGED <<running, at>>
    /\ UNCHANGED <<deps, tree>>

Done ==
    /\ PassOver /\ started = Tags
    /\ result' = "ok"
    /\ UNCHANGED <<deps, started, running, at, progress, tree>>

NextPass ==
    /\ PassOver /\ started # Tags /\ progress
    /\ at' = 1 /\ progress' = FALSE
    /\ UNCHANGED <<deps, started, running, tree, result>>

(* The linter starts with the first item that is not started.               *)
LintBegin ==
    /\ PassOver /\ started # Tags /\ ~progress
    /\ \E i \in 1..Len(List) :
          /\ List[i] \notin started
          /\ \A j \in 1..i - 1 : List[j] \in started
          /\ tree' = <<List[i]>>
    /\ UNCHANGED <<deps, started, running, at, progress, result>>

(* The first dependency that is not started: common.Find                    *)
Problem(t) ==
    deps[t][CHOOSE i \in DOMAIN deps[t] :
              /\ deps[t][i] \notin started
              /\ \A j \in 1..i - 1 : deps[t][j] \in started]

(* Mutant: the dependency is looked up among what is started.               *)
MutLint ==
    /\ result = "running" /\ tree # <<>>
    /\ LET p == Problem(tree[Len(tree)]) IN
       IF \E i \in DOMAIN tree : tree[i] = p THEN result' = "circular" /\ UNCHANGED tree
       ELSE IF p \notin started THEN result' = "missing" /\ UNCHANGED tree
       ELSE tree' = Append(tree, p) /\ UNCHANGED result
    /\ UNCHANGED <<deps, started, running, at, progress>>

Lint ==
    /\ result = "running" /\ tree # <<>>
    /\ LET p == Problem(tree[Len(tree)]) IN
       IF \E i \in DOMAIN tree : tree[i] = p THEN result' = "circular" /\ UNCHANGED tree
       ELSE IF p \notin ByTag THEN result' = "missing" /\ UNCHANGED tree
       ELSE tree' = Append(tree, p) /\ UNCHANGED result
    /\ UNCHANGED <<deps, started, running, at, progress>>

(* Close of the manager of the items of some of the tags, or the end of the   *)
(* process: outbounds and endpoints have managers of their own.             *)
CloseItems(S) ==
    /\ running' = running \ S
    /\ result' = "closed"
    /\ UNCHANGED <<deps, started, at, progress, tree>>

(* Managers of a new box with the same configuration.                       *)
NewManager ==
    /\ result = "closed" /\ running = {}
    /\ started' = {} /\ at' = 1 /\ progress' = FALSE /\ tree' = <<>> /\ result' = "running"
    /\ UNCHANGED <<deps, running>>

Pass == Skip \/ Start \/ Done \/ NextPass \/ LintBegin \/ Lint

OrderNext == NoDefault \/ Pass \/ NewManager \/ \E S \in SUBSET Tags : CloseItems(S)

OrderSpec == OrderInit /\ [][OrderNext]_orderVars

-----------------------------------------------------------------------------
DependsOn(t) == {deps[t][i] : i \in DOMAIN deps[t]}

(* What runs has all its dependencies running, at every moment of a start    *)
(* and in every outcome; Close goes through the list in its own order        *)
(* (manager.go:99-145, transport_manager.go:90-119).                        *)
StartsAfterDependencies ==
    result # "closed" => \A t \in running : DependsOn(t) \subseteq running

(* The start succeeds only with everything running; a circular dependency is *)
(* reported only if there is a set of items each waiting for another of it   *)
(* (manager.go:146-170, transport_manager.go:120-146).                      *)
CircularIsCircular ==
    /\ result = "ok" => running = Tags
    /\ result = "circular" =>
          \E S \in SUBSET (Tags \ running) :
              S # {} /\ \A t \in S : DependsOn(t) \intersect S # {}

(* manager.go:164 says "dependency[...] not found for outbound[...]" only if  *)
(* some item does depend on what is not there.                              *)
MissingIsMissing ==
    result = "missing" => \E t \in Tags : DependsOn(t) \intersect Absent # {}

(* The outcome of a start is the right one: everything runs, or the error    *)
(* names what is wrong with the dependencies (manager.go:146-170).          *)
OutcomeIsRight == CircularIsCircular /\ MissingIsMissing
=============================================================================
