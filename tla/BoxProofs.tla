----------------------------- MODULE BoxProofs -----------------------------
(***************************************************************************)
(* Proofs about the box and the two parts it is composed of: StartOrder, for *)
(* any list and any dependencies; RemoteRuleSet, for any contents, tags and  *)
(* bounds; and Box, which implements both.                                   *)
(***************************************************************************)
EXTENDS Box, SequenceTheorems, WellFoundedInduction, TLAPS

(* The strengthening: until a Start fails, what is marked as started runs.  *)
OrderInv ==
    /\ StartsAfterDependencies
    /\ running \subseteq started /\ started \subseteq Tags
    /\ result \notin {"failed", "closed"} => started = running
    /\ result = "ok" => started = Tags
    /\ at \in Nat \ {0}

(* The passes and the linter keep OrderInv (manager.go:99-171).             *)
LEMMA OrderInvStep == OrderInv /\ [OrderNext]_orderVars => OrderInv'
<1> SUFFICES ASSUME OrderInv, [OrderNext]_orderVars PROVE OrderInv'
    OBVIOUS
<1> USE DEF OrderInv
<1> DEFINE Same == UNCHANGED <<deps, started, running>> /\ (result = "closed" => result' = "closed")
<1>0. ASSUME Same PROVE StartsAfterDependencies'
    BY <1>0 DEF StartsAfterDependencies, DependsOn
<1>1. CASE Skip
    BY <1>0, <1>1 DEF Skip, Passing
<1>2. CASE Start
    <2> DEFINE t == List[at]
    <2>1. t \in Tags /\ t \notin started /\ Ready(t) /\ started = running
        BY <1>2, StartOrderConstants DEF Start, Passing, Tags
    <2>2. DependsOn(t) \subseteq running
        BY <2>1 DEF Ready, DependsOn
    <2>3. CASE running' = running \union {t} /\ at' = at + 1 /\ UNCHANGED result
        <3>1. StartsAfterDependencies'
            BY <1>2, <2>2, <2>3 DEF Start, Passing, StartsAfterDependencies, DependsOn
        <3> QED
            BY <1>2, <2>1, <2>3, <3>1 DEF Start, Passing
    <2>4. CASE result' = "failed" /\ UNCHANGED <<running, at>>
        <3>1. StartsAfterDependencies'
            BY <1>2, <2>4 DEF Start, Passing, StartsAfterDependencies, DependsOn
        <3> QED
            BY <1>2, <2>1, <2>4, <3>1 DEF Start
    <2> QED
        BY <1>2, <2>3, <2>4 DEF Start
<1>3. CASE Done
    BY <1>0, <1>3 DEF Done, PassOver
<1>4. CASE NextPass
    BY <1>0, <1>4 DEF NextPass, PassOver
<1>5. CASE LintBegin
    BY <1>0, <1>5 DEF LintBegin, PassOver
<1>6. CASE Lint
    BY <1>0, <1>6 DEF Lint
<1>7. CASE UNCHANGED orderVars
    BY <1>0, <1>7 DEF orderVars
<1>8. CASE NoDefault
    BY <1>0, <1>8 DEF NoDefault, Passing
<1>9. ASSUME NEW S \in SUBSET Tags, CloseItems(S) PROVE OrderInv'
    BY <1>9 DEF CloseItems, StartsAfterDependencies
<1>10. CASE NewManager
    BY <1>10 DEF NewManager, StartsAfterDependencies
<1> QED
    BY <1>1, <1>2, <1>3, <1>4, <1>5, <1>6, <1>7, <1>8, <1>9, <1>10 DEF OrderNext, Pass

(* OrderInv holds throughout a start (manager.go:99-171).                   *)
THEOREM OrderInvHolds == OrderSpec => []OrderInv
<1>1. OrderInit => OrderInv
    BY DEF OrderInit, OrderInv, StartsAfterDependencies
<1> QED
    BY <1>1, OrderInvStep, PTL DEF OrderSpec

(* For every list and every dependency graph, an item runs only when all its *)
(* dependencies do (manager.go:99-145, transport_manager.go:90-119).        *)
THEOREM StartsAfterDependenciesHolds == OrderSpec => []StartsAfterDependencies
<1>1. OrderInv => StartsAfterDependencies
    BY DEF OrderInv
<1> QED
    BY <1>1, OrderInvHolds, PTL

(* A set of naturals has a least element.                                   *)
LEMMA LeastExists ==
    ASSUME NEW S \in SUBSET Nat, S # {}
    PROVE  \E k \in S : \A j \in S : k <= j
<1>1. PICK k \in S : \A j \in S : ~(<<j, k>> \in OpToRel(<, Nat))
    BY WFMin, NatLessThanWellFounded, Zenon
<1>2. ASSUME NEW j \in S PROVE k <= j
    <2>1. j \in Nat /\ k \in Nat /\ <<j, k>> \in Nat \X Nat /\ <<j, k>>[1] = j /\ <<j, k>>[2] = k
        BY Zenon
    <2>2. ~(j < k)
        BY <1>1, <2>1, Zenon DEF OpToRel
    <2> QED
        BY <2>1, <2>2
<1> QED
    BY <1>2, Zenon

(* An item that is not ready waits for what the linter finds.               *)
LEMMA ProblemIsWaitedFor ==
    ASSUME deps \in [Tags -> Lists], NEW t \in Tags, ~Ready(t)
    PROVE  Problem(t) \in DependsOn(t) \ started
<1> DEFINE S == {i \in DOMAIN deps[t] : deps[t][i] \notin started}
           First(i) == deps[t][i] \notin started /\ \A j \in 1..i - 1 : deps[t][j] \in started
<1>1. PICK n \in Nat : DOMAIN deps[t] = 1..n
    BY DEF Lists
<1>2. S \in SUBSET Nat /\ S # {}
    BY <1>1 DEF Ready
<1>3. PICK k \in S : \A j \in S : k <= j
    BY <1>2, LeastExists, Zenon
<1>4. k \in DOMAIN deps[t] /\ First(k)
    BY <1>1, <1>3
<1> DEFINE p == CHOOSE i \in DOMAIN deps[t] : First(i)
<1>5. p \in DOMAIN deps[t] /\ First(p)
    BY <1>4, Zenon
<1> QED
    BY <1>5, Zenon DEF Problem, DependsOn

(* Throughout a pass without progress, what it has come past is not ready;   *)
(* so once the linter runs nothing is, and its tree is a path of items each  *)
(* waiting for the next (manager.go:99-170).                                *)
LintInv ==
    /\ deps \in [Tags -> Lists] /\ tree \in Seq(Tags)
    /\ result = "running" /\ tree = <<>> /\ ~progress =>
          \A j \in 1..at - 1 : j <= Len(List) => List[j] \in started \/ ~Ready(List[j])
    /\ result = "running" /\ tree # <<>> =>
          /\ \A t \in Tags \ started : ~Ready(t)
          /\ \A i \in 1..Len(tree) : tree[i] \notin started
          /\ \A i \in 1..Len(tree) - 1 : tree[i + 1] \in DependsOn(tree[i])

(* The steps of the passes and of the linter keep LintInv.                  *)
LEMMA LintInvStep == OrderInv /\ LintInv /\ [OrderNext]_orderVars => LintInv'
<1> SUFFICES ASSUME OrderInv, LintInv, [OrderNext]_orderVars PROVE LintInv'
    OBVIOUS
<1> USE DEF LintInv
<1>l. Len(List) \in Nat /\ at \in Nat \ {0} /\ \A j \in 1..Len(List) : List[j] \in Tags
    BY StartOrderConstants DEF OrderInv, Tags
<1>0. ASSUME UNCHANGED <<deps, started, tree>>, result' # "running" PROVE LintInv'
    BY <1>0
<1>1. CASE Skip
    BY <1>1, <1>l DEF Skip, Passing, Ready
<1>2. CASE Start
    BY <1>2 DEF Start, Passing
<1>3. CASE Done \/ NoDefault
    BY <1>3 DEF Done, NoDefault
<1>4. CASE NextPass
    BY <1>4 DEF NextPass, PassOver
<1>5. CASE LintBegin
    <2>1. PICK i \in 1..Len(List) : List[i] \notin started /\ tree' = <<List[i]>>
        BY <1>5 DEF LintBegin
    <2>2. \A j \in 1..Len(List) : List[j] \in started \/ ~Ready(List[j])
        BY <1>5, <1>l DEF LintBegin, PassOver
    <2>3. \A t \in Tags \ started : ~Ready(t)
        BY <2>2 DEF Tags
    <2>4. tree' \in Seq(Tags) /\ Len(tree') = 1 /\ tree'[1] = List[i]
        BY <1>l, <2>1
    <2> QED
        BY <1>5, <2>1, <2>3, <2>4 DEF LintBegin, PassOver, Ready
<1>6. CASE Lint
    <2> DEFINE t == tree[Len(tree)]
               p == Problem(t)
    <2>1. /\ result = "running" /\ tree # <<>> /\ UNCHANGED <<deps, started>>
          /\ \/ result' # "running" /\ UNCHANGED tree
             \/ p \in ByTag /\ tree' = Append(tree, p) /\ UNCHANGED result
        BY <1>6 DEF Lint
    <2>2. Len(tree) \in Nat \ {0} /\ t \in Tags \ started /\ ~Ready(t)
        BY <2>1
    <2>3. p \in DependsOn(t) \ started
        BY <2>2, ProblemIsWaitedFor
    <2> HIDE DEF p
    <2>4. CASE p \in ByTag /\ tree' = Append(tree, p) /\ UNCHANGED result
        <3>1. p \in Tags
            BY <2>4, StartOrderConstants
        <3>2. /\ tree' \in Seq(Tags) /\ Len(tree') = Len(tree) + 1 /\ tree'[Len(tree) + 1] = p
              /\ \A i \in 1..Len(tree) : tree'[i] = tree[i]
            BY <2>2, <2>4, <3>1
        <3>3. \A i \in 1..Len(tree') - 1 : tree'[i + 1] \in DependsOn(tree'[i])
            BY <2>1, <2>2, <2>3, <3>2
        <3>4. \A i \in 1..Len(tree') : tree'[i] \notin started
            BY <2>1, <2>2, <2>3, <3>2
        <3> QED
            BY <2>1, <3>2, <3>3, <3>4 DEF Ready, DependsOn
    <2> QED
        BY <1>0, <2>1, <2>4
<1>7. CASE UNCHANGED orderVars
    BY <1>7 DEF orderVars, Ready, DependsOn
<1>8. ASSUME NEW S \in SUBSET Tags, CloseItems(S) PROVE LintInv'
    BY <1>8 DEF CloseItems
<1>9. CASE NewManager
    BY <1>9 DEF NewManager
<1> QED
    BY <1>1, <1>2, <1>3, <1>4, <1>5, <1>6, <1>7, <1>8, <1>9 DEF OrderNext, Pass

(* The linter's cycle is one: the part of its tree from the item it comes    *)
(* back to, each waiting for the next and the last for the first.           *)
LEMMA CircularStep ==
    OrderInv /\ LintInv /\ CircularIsCircular /\ [OrderNext]_orderVars => CircularIsCircular'
<1> SUFFICES ASSUME OrderInv, LintInv, CircularIsCircular, [OrderNext]_orderVars
             PROVE  CircularIsCircular'
    OBVIOUS
<1>d. deps' = deps => \A t : DependsOn(t)' = DependsOn(t)
    BY DEF DependsOn
<1>0. ASSUME UNCHANGED <<deps, running, result>> PROVE CircularIsCircular'
    BY <1>0, <1>d DEF CircularIsCircular
<1>1. ASSUME result' \notin {"ok", "circular"} PROVE CircularIsCircular'
    BY <1>1 DEF CircularIsCircular
<1>2. CASE Done
    BY <1>2 DEF Done, PassOver, OrderInv, CircularIsCircular
<1>3. CASE Lint /\ result' = "circular"
    <2> DEFINE p == Problem(tree[Len(tree)])
    <2>1. /\ tree # <<>> /\ result = "running" /\ UNCHANGED <<deps, running, started, tree>>
          /\ \E i \in DOMAIN tree : tree[i] = p
        BY <1>3 DEF Lint
    <2>2. PICK i \in 1..Len(tree) : tree[i] = p
        BY <2>1 DEF LintInv
    <2>3. p \in DependsOn(tree[Len(tree)])
        BY <2>1, ProblemIsWaitedFor DEF LintInv
    <2> HIDE DEF p
    <2> DEFINE S == {tree[j] : j \in i..Len(tree)}
    <2>4. S \in SUBSET (Tags \ running) /\ S # {} /\ started = running
        BY <2>1, <2>2 DEF LintInv, OrderInv
    <2>5. ASSUME NEW t \in S PROVE DependsOn(t) \intersect S # {}
        <3>1. PICK j \in i..Len(tree) : t = tree[j]
            OBVIOUS
        <3>2. CASE j = Len(tree)
            BY <2>2, <2>3, <3>1, <3>2 DEF LintInv
        <3>3. CASE j < Len(tree)
            <4>1. j + 1 \in i..Len(tree) /\ tree[j + 1] \in DependsOn(t)
                BY <2>1, <3>1, <3>3 DEF LintInv
            <4> QED
                BY <4>1
        <3> QED
            BY <2>2, <3>1, <3>2, <3>3 DEF LintInv
    <2>6. \E T \in SUBSET (Tags \ running) : T # {} /\ \A t \in T : DependsOn(t) \intersect T # {}
        BY <2>4, <2>5, Zenon
    <2> HIDE DEF S
    <2> QED
        BY <1>3, <1>d, <2>1, <2>6 DEF CircularIsCircular
<1>4. CASE Lint /\ result' # "circular"
    BY <1>0, <1>1, <1>4 DEF Lint
<1>5. CASE Skip \/ NextPass \/ LintBegin \/ UNCHANGED orderVars
    BY <1>0, <1>5 DEF Skip, NextPass, LintBegin, orderVars
<1>6. CASE Start \/ NoDefault \/ NewManager \/ \E S \in SUBSET Tags : CloseItems(S)
    BY <1>1, <1>6 DEF Start, Passing, NoDefault, NewManager, CloseItems
<1> QED
    BY <1>2, <1>3, <1>4, <1>5, <1>6 DEF OrderNext, Pass

(* The tag the linter cannot look up is no item's: without endpoints, which  *)
(* startOutbounds gets but outboundByTag has not.                           *)
LEMMA MissingStep ==
    ASSUME ByTag = Tags
    PROVE  LintInv /\ MissingIsMissing /\ [OrderNext]_orderVars => MissingIsMissing'
<1> SUFFICES ASSUME LintInv, MissingIsMissing, [OrderNext]_orderVars PROVE MissingIsMissing'
    OBVIOUS
<1>0. ASSUME UNCHANGED <<deps, result>> \/ result' # "missing" PROVE MissingIsMissing'
    BY <1>0 DEF MissingIsMissing, DependsOn
<1>1. CASE Lint /\ result' = "missing"
    <2> DEFINE t == tree[Len(tree)]
    <2>1. /\ result = "running" /\ tree # <<>> /\ UNCHANGED deps /\ Problem(t) \notin Tags
        BY <1>1 DEF Lint
    <2>2. t \in Tags /\ Problem(t) \in DependsOn(t)
        BY <2>1, ProblemIsWaitedFor DEF LintInv
    <2>3. DependsOn(t) \subseteq Tags \union Absent
        <3>1. deps[t] \in Lists
            BY <2>2 DEF LintInv
        <3>2. PICK n \in 0..MaxDeps : deps[t] \in [1..n -> Tags \union Absent]
            BY <3>1, Zenon DEF Lists
        <3> QED
            BY <3>2 DEF DependsOn
    <2> QED
        BY <2>1, <2>2, <2>3 DEF MissingIsMissing, DependsOn
<1>2. CASE Lint /\ result' # "missing"
    BY <1>0, <1>2
<1>3. CASE ~Lint
    BY <1>0, <1>3 DEF OrderNext, Pass, Skip, Start, Passing, Done, NextPass, LintBegin, NoDefault,
       NewManager, CloseItems, orderVars
<1> QED
    BY <1>1, <1>2, <1>3

(* A start reports success only with everything running and a cycle only if  *)
(* there is one, for every list and every dependency graph                   *)
(* (manager.go:146-170, transport_manager.go:120-146).                      *)
THEOREM CircularIsCircularHolds == OrderSpec => [](LintInv /\ CircularIsCircular)
<1>1. OrderInit => OrderInv /\ LintInv /\ CircularIsCircular
    BY DEF OrderInit, OrderInv, LintInv, StartsAfterDependencies, CircularIsCircular
<1> QED
    BY <1>1, OrderInvStep, LintInvStep, CircularStep, PTL DEF OrderSpec

(* Where every item is one the linter can look up, as it is for the DNS      *)
(* transports and for outbounds without endpoints, the outcome is right for  *)
(* every list and every dependency graph: a missing dependency is reported   *)
(* only if an item has one (manager.go:146-170).                            *)
THEOREM OutcomeIsRightHolds ==
    ASSUME ByTag = Tags
    PROVE  OrderSpec => []OutcomeIsRight
<1>1. OrderInit => MissingIsMissing
    BY DEF OrderInit, MissingIsMissing
<1>2. LintInv /\ MissingIsMissing /\ [OrderNext]_orderVars => MissingIsMissing'
    BY MissingStep
<1>3. CircularIsCircular /\ MissingIsMissing => OutcomeIsRight
    BY DEF OutcomeIsRight
<1> QED
    BY <1>1, <1>2, <1>3, CircularIsCircularHolds, PTL DEF OrderSpec

-----------------------------------------------------------------------------
AnswerInv ==
    /\ pc \in {"answered", "save"} => answer \in Answers
    /\ pc = "save" => /\ loaded = answer.content /\ lastUpdated = loaded
                      /\ lastEtag = EtagOf[loaded]
    /\ pc = "answered" /\ answer.status = "not modified" =>
            lastEtag # None /\ lastEtag = EtagOf[answer.content]

FileInv ==
    /\ pc = "initial" => disk = None
    /\ ~unsaved /\ disk # None /\ pc \in {"idle", "sent", "answered"} => disk.content = loaded
    /\ disk # None => disk.content \notin Malformed

(* The inductive invariant is the conjunction of the five parts that the     *)
(* steps are checked against, for rule_set_remote.go:84-322.                 *)
LEMMA RuleSetInvParts ==
    RuleSetInv <=> RuleSetTypeOK /\ EtagIsOfRules /\ SavedTimeIsOfContent /\ AnswerInv /\ FileInv
BY DEF RuleSetInv, AnswerInv, FileInv, SavedIsOfServer

(* Every step of the start, the update loop, fetch and Close keeps the       *)
(* invariant (rule_set_remote.go:84-322).                                    *)
LEMMA RuleSetInvStep == RuleSetInv /\ [RuleSetNext]_ruleSetVars => RuleSetInv'
<1> SUFFICES ASSUME RuleSetInv, [RuleSetNext]_ruleSetVars PROVE RuleSetInv'
  OBVIOUS
<1>t. None \in Etags /\ \A c \in Contents : EtagOf[c] \in Etags
  BY DEF Etags
<1>n. None \notin Saved /\ None \notin Answers
  BY RemoteRuleSetConstants, Zenon DEF Saved, Answers, Etags
<1>i. RuleSetTypeOK /\ EtagIsOfRules /\ SavedTimeIsOfContent /\ AnswerInv /\ FileInv
  BY RuleSetInvParts
<1>m. pc = "answered" /\ answer.status = "not modified" => answer.content = loaded
  <2> SUFFICES ASSUME pc = "answered", answer.status = "not modified" PROVE answer.content = loaded
    BY Zenon
  <2>1. lastEtag # None /\ EtagOf[answer.content] = lastEtag /\ EtagOf[loaded] = lastEtag
    BY <1>i, Zenon DEF AnswerInv, EtagIsOfRules
  <2>2. answer.content \in Contents /\ loaded \in Contents
    BY <1>i, <2>1, Zenon DEF AnswerInv, EtagIsOfRules, RuleSetTypeOK, Answers
  <2> QED  BY <2>1, <2>2, RemoteRuleSetConstants, Zenon
<1>v. pc = "save" =>
        LET saved == [content |-> answer.content, etag |-> lastEtag, updated |-> lastUpdated]
        IN  /\ saved \in Saved /\ saved # None
            /\ saved.etag = EtagOf[saved.content] /\ saved.updated = saved.content
            /\ saved.content = loaded /\ saved.content \notin Malformed
  <2> SUFFICES ASSUME pc = "save"
               PROVE LET saved == [content |-> answer.content, etag |-> lastEtag,
                                    updated |-> lastUpdated]
                     IN  /\ saved \in Saved /\ saved # None
                         /\ saved.etag = EtagOf[saved.content] /\ saved.updated = saved.content
                         /\ saved.content = loaded /\ saved.content \notin Malformed
    OBVIOUS
  <2>1. answer.content \in Contents /\ loaded = answer.content /\ lastUpdated = loaded
    BY <1>i, Zenon DEF AnswerInv, Answers
  <2>2. loaded \notin Malformed /\ lastEtag = EtagOf[loaded] /\ lastEtag \in Etags
    BY <1>i, <2>1, RemoteRuleSetConstants, Zenon DEF AnswerInv, RuleSetTypeOK
  <2>3. [content |-> answer.content, etag |-> lastEtag, updated |-> lastUpdated] \in Saved
    BY <2>1, <2>2 DEF Saved
  <2> QED  BY <2>1, <2>2, <2>3, <1>n
<1>1. CASE StartContext
  <2>1. RuleSetTypeOK'
    <3>1. (server \in Contents /\ changes \in Nat /\ errors \in Nat)'
      BY <1>i, <1>1 DEF StartContext, RuleSetTypeOK, Ends
    <3>2. (disk = None \/ disk \in Saved)'
      BY <1>i, <1>t, <1>n, <1>1, Zenon DEF StartContext, RuleSetTypeOK, AnswerInv, Saved, Answers, Kept, Ends
    <3>3. (loaded \in (Contents \ Malformed) \union {None} /\ rules \in {loaded, None})'
      BY <1>i, <1>1 DEF StartContext, RuleSetTypeOK, FileInv, Saved, Kept
    <3>4. (lastEtag \in Etags)'
      BY <1>i, <1>t, <1>n, <1>1, Zenon DEF StartContext, RuleSetTypeOK, AnswerInv, Saved, Answers, Kept, Ends
    <3>5. (lastUpdated \in Contents \union {None})'
      BY <1>i, <1>t, <1>n, <1>1, Zenon DEF StartContext, RuleSetTypeOK, AnswerInv, Saved, Answers, Kept, Ends
    <3>6. (pc \in {"down", "initial", "idle", "sent", "answered", "save"} /\ starting \in BOOLEAN)'
      BY <1>i, <1>t, <1>n, <1>1, Zenon DEF StartContext, RuleSetTypeOK, AnswerInv, Saved, Answers, Kept, Ends
    <3>7. (answer = None \/ answer \in Answers)'
      BY <1>i, <1>t, <1>n, <1>1, Zenon DEF StartContext, RuleSetTypeOK, AnswerInv, Saved, Answers, Kept, Ends
    <3>8. (unsaved \in BOOLEAN)'
      BY <1>i, <1>1 DEF StartContext, RuleSetTypeOK
    <3> QED  BY <3>1, <3>2, <3>3, <3>4, <3>5, <3>6, <3>7, <3>8 DEF RuleSetTypeOK
  <2>2. EtagIsOfRules'
    BY <1>i, <1>t, <1>n, RemoteRuleSetConstants, <1>1, Zenon DEF StartContext, RuleSetTypeOK, EtagIsOfRules,
       SavedTimeIsOfContent, AnswerInv, FileInv, Saved, Answers, Kept, Ends
  <2>3. SavedTimeIsOfContent'
    BY <1>i, <1>1 DEF StartContext, SavedTimeIsOfContent
  <2>4. AnswerInv'
    BY <1>i, <1>1, Zenon DEF StartContext, AnswerInv
  <2>5. FileInv'
    BY <1>i, <1>1 DEF StartContext, FileInv
  <2> QED  BY <2>1, <2>2, <2>3, <2>4, <2>5, Zenon DEF RuleSetInv, AnswerInv, FileInv, SavedIsOfServer
<1>2. CASE LoopUpdate
  <2>1. RuleSetTypeOK'
    BY <1>i, <1>t, <1>2 DEF LoopUpdate, RuleSetTypeOK
  <2>2. EtagIsOfRules'
    BY <1>i, <1>2 DEF LoopUpdate, EtagIsOfRules
  <2>3. SavedTimeIsOfContent'
    BY <1>i, <1>2 DEF LoopUpdate, SavedTimeIsOfContent
  <2>4. AnswerInv'
    BY <1>i, <1>2 DEF LoopUpdate, AnswerInv
  <2>5. FileInv'
    BY <1>i, <1>2 DEF LoopUpdate, FileInv
  <2> QED  BY <2>1, <2>2, <2>3, <2>4, <2>5, Zenon DEF RuleSetInv, AnswerInv, FileInv, SavedIsOfServer
<1>3. CASE Do
  <2>1. RuleSetTypeOK'
    <3>1. (server \in Contents /\ changes \in Nat /\ errors \in Nat)'
      BY <1>i, <1>3, Zenon DEF Do, RuleSetTypeOK, Ends
    <3>2. (disk = None \/ disk \in Saved)'
      BY <1>i, <1>t, <1>n, <1>3, Zenon DEF Do, RuleSetTypeOK, AnswerInv, Saved, Answers, Kept, Ends
    <3>3. (loaded \in (Contents \ Malformed) \union {None} /\ rules \in {loaded, None})'
      BY <1>i, <1>t, <1>n, <1>3, Zenon DEF Do, RuleSetTypeOK, AnswerInv, Saved, Answers, Kept, Ends
    <3>4. (lastEtag \in Etags)'
      BY <1>i, <1>t, <1>n, <1>3, Zenon DEF Do, RuleSetTypeOK, AnswerInv, Saved, Answers, Kept, Ends
    <3>5. (lastUpdated \in Contents \union {None})'
      BY <1>i, <1>t, <1>n, <1>3, Zenon DEF Do, RuleSetTypeOK, AnswerInv, Saved, Answers, Kept, Ends
    <3>6. (pc \in {"down", "initial", "idle", "sent", "answered", "save"} /\ starting \in BOOLEAN)'
      BY <1>i, <1>t, <1>n, <1>3, Zenon DEF Do, RuleSetTypeOK, AnswerInv, Saved, Answers, Kept, Ends
    <3>7. (answer = None \/ answer \in Answers)'
      BY <1>i, <1>t, <1>n, <1>3, Zenon DEF Do, RuleSetTypeOK, AnswerInv, Saved, Answers, Kept, Ends
    <3>8. (unsaved \in BOOLEAN)'
      BY <1>i, <1>3, Zenon DEF Do, RuleSetTypeOK
    <3> QED  BY <3>1, <3>2, <3>3, <3>4, <3>5, <3>6, <3>7, <3>8 DEF RuleSetTypeOK
  <2>2. EtagIsOfRules'
    BY <1>i, <1>3, Zenon DEF Do, EtagIsOfRules
  <2>3. SavedTimeIsOfContent'
    BY <1>i, <1>3, Zenon DEF Do, SavedTimeIsOfContent
  <2>4. AnswerInv'
    BY <1>i, <1>t, <1>n, RemoteRuleSetConstants, <1>3, Zenon DEF Do, RuleSetTypeOK, EtagIsOfRules,
       SavedTimeIsOfContent, AnswerInv, FileInv, Saved, Answers, Kept, Ends
  <2>5. FileInv'
    BY <1>i, <1>3, Zenon DEF Do, FileInv
  <2> QED  BY <2>1, <2>2, <2>3, <2>4, <2>5, Zenon DEF RuleSetInv, AnswerInv, FileInv, SavedIsOfServer
<1>4. CASE NotModified
  <2>1. RuleSetTypeOK'
    <3>1. (server \in Contents /\ changes \in Nat /\ errors \in Nat)'
      BY <1>i, <1>4, Zenon DEF NotModified, RuleSetTypeOK, Ends
    <3>2. (disk = None \/ disk \in Saved)'
      BY <1>i, <1>t, <1>n, <1>4, Zenon DEF NotModified, RuleSetTypeOK, AnswerInv, Saved, Answers, Kept, Ends
    <3>3. (loaded \in (Contents \ Malformed) \union {None} /\ rules \in {loaded, None})'
      BY <1>i, <1>t, <1>n, <1>4, Zenon DEF NotModified, RuleSetTypeOK, AnswerInv, Saved, Answers, Kept, Ends
    <3>4. (lastEtag \in Etags)'
      BY <1>i, <1>t, <1>n, <1>4, Zenon DEF NotModified, RuleSetTypeOK, AnswerInv, Saved, Answers, Kept, Ends
    <3>5. (lastUpdated \in Contents \union {None})'
      BY <1>i, <1>t, <1>n, <1>4, Zenon DEF NotModified, RuleSetTypeOK, AnswerInv, Saved, Answers, Kept, Ends
    <3>6. (pc \in {"down", "initial", "idle", "sent", "answered", "save"} /\ starting \in BOOLEAN)'
      BY <1>i, <1>t, <1>n, <1>4, Zenon DEF NotModified, RuleSetTypeOK, AnswerInv, Saved, Answers, Kept, Ends
    <3>7. (answer = None \/ answer \in Answers)'
      BY <1>i, <1>t, <1>n, <1>4, Zenon DEF NotModified, RuleSetTypeOK, AnswerInv, Saved, Answers, Kept, Ends
    <3>8. (unsaved \in BOOLEAN)'
      BY <1>i, <1>4, Zenon DEF NotModified, RuleSetTypeOK
    <3> QED  BY <3>1, <3>2, <3>3, <3>4, <3>5, <3>6, <3>7, <3>8 DEF RuleSetTypeOK
  <2>2. EtagIsOfRules'
    BY <1>i, <1>4, Zenon DEF NotModified, EtagIsOfRules, RuleSetTypeOK, Saved
  <2>3. SavedTimeIsOfContent'
    BY <1>i, <1>m, <1>n, <1>4, Zenon DEF NotModified, RuleSetTypeOK, SavedTimeIsOfContent, FileInv, Saved
  <2>4. AnswerInv'
    BY <1>i, <1>4, Zenon DEF NotModified, AnswerInv, Ends
  <2>5. FileInv'
    BY <1>i, <1>4, Zenon DEF NotModified, FileInv, RuleSetTypeOK, Saved, Ends
  <2> QED  BY <2>1, <2>2, <2>3, <2>4, <2>5, Zenon DEF RuleSetInv, AnswerInv, FileInv, SavedIsOfServer
<1>5. CASE MalformedContent
  <2>1. RuleSetTypeOK'
    BY <1>i, <1>t, <1>5, Zenon DEF MalformedContent, RuleSetTypeOK, Ends
  <2>2. EtagIsOfRules'
    BY <1>i, <1>5 DEF MalformedContent, EtagIsOfRules, Ends
  <2>3. SavedTimeIsOfContent'
    BY <1>i, <1>5 DEF MalformedContent, SavedTimeIsOfContent, Ends
  <2>4. AnswerInv'
    BY <1>i, <1>5 DEF MalformedContent, AnswerInv, Ends
  <2>5. FileInv'
    BY <1>i, <1>5 DEF MalformedContent, FileInv, Ends
  <2> QED  BY <2>1, <2>2, <2>3, <2>4, <2>5, Zenon DEF RuleSetInv, AnswerInv, FileInv, SavedIsOfServer
<1>6. CASE LoadBytes
  <2>1. RuleSetTypeOK'
    <3>1. (server \in Contents /\ changes \in Nat /\ errors \in Nat)'
      BY <1>i, <1>6 DEF LoadBytes, TagAfter, RuleSetTypeOK, Ends
    <3>2. (disk = None \/ disk \in Saved)'
      BY <1>i, <1>t, <1>n, <1>6, Zenon DEF LoadBytes, TagAfter, RuleSetTypeOK, AnswerInv, Saved, Answers, Kept, Ends
    <3>3. (loaded \in (Contents \ Malformed) \union {None} /\ rules \in {loaded, None})'
      BY <1>i, <1>t, <1>n, <1>6, Zenon DEF LoadBytes, TagAfter, RuleSetTypeOK, AnswerInv, Saved, Answers, Kept, Ends
    <3>4. (lastEtag \in Etags)'
      BY <1>i, <1>t, <1>n, <1>6, Zenon DEF LoadBytes, TagAfter, RuleSetTypeOK, AnswerInv, Saved, Answers, Kept, Ends
    <3>5. (lastUpdated \in Contents \union {None})'
      BY <1>i, <1>t, <1>n, <1>6, Zenon DEF LoadBytes, TagAfter, RuleSetTypeOK, AnswerInv, Saved, Answers, Kept, Ends
    <3>6. (pc \in {"down", "initial", "idle", "sent", "answered", "save"} /\ starting \in BOOLEAN)'
      BY <1>i, <1>t, <1>n, <1>6, Zenon DEF LoadBytes, TagAfter, RuleSetTypeOK, AnswerInv, Saved, Answers, Kept, Ends
    <3>7. (answer = None \/ answer \in Answers)'
      BY <1>i, <1>t, <1>n, <1>6, Zenon DEF LoadBytes, TagAfter, RuleSetTypeOK, AnswerInv, Saved, Answers, Kept, Ends
    <3>8. (unsaved \in BOOLEAN)'
      BY <1>i, <1>6 DEF LoadBytes, TagAfter, RuleSetTypeOK
    <3> QED  BY <3>1, <3>2, <3>3, <3>4, <3>5, <3>6, <3>7, <3>8 DEF RuleSetTypeOK
  <2>2. EtagIsOfRules'
    BY <1>i, <1>t, <1>n, RemoteRuleSetConstants, <1>6, Zenon DEF LoadBytes, TagAfter, RuleSetTypeOK, EtagIsOfRules,
       SavedTimeIsOfContent, AnswerInv, FileInv, Saved, Answers, Kept, Ends
  <2>3. SavedTimeIsOfContent'
    BY <1>i, <1>6 DEF LoadBytes, TagAfter, SavedTimeIsOfContent
  <2>4. AnswerInv'
    BY <1>i, <1>t, <1>n, RemoteRuleSetConstants, <1>6, Zenon DEF LoadBytes, TagAfter, RuleSetTypeOK, EtagIsOfRules,
       SavedTimeIsOfContent, AnswerInv, FileInv, Saved, Answers, Kept, Ends
  <2>5. FileInv'
    BY <1>i, <1>6 DEF LoadBytes, TagAfter, FileInv
  <2> QED  BY <2>1, <2>2, <2>3, <2>4, <2>5, Zenon DEF RuleSetInv, AnswerInv, FileInv, SavedIsOfServer
<1>7. CASE SaveRuleSet
  <2>1. RuleSetTypeOK'
    <3>1. (server \in Contents /\ changes \in Nat /\ errors \in Nat)'
      BY <1>i, <1>7 DEF SaveRuleSet, RuleSetTypeOK, Ends
    <3>2. (disk = None \/ disk \in Saved)'
      BY <1>i, <1>v, <1>7 DEF SaveRuleSet, RuleSetTypeOK
    <3>3. (loaded \in (Contents \ Malformed) \union {None} /\ rules \in {loaded, None})'
      BY <1>i, <1>t, <1>n, <1>7, Zenon DEF SaveRuleSet, RuleSetTypeOK, AnswerInv, Saved, Answers, Kept, Ends
    <3>4. (lastEtag \in Etags)'
      BY <1>i, <1>t, <1>n, <1>7, Zenon DEF SaveRuleSet, RuleSetTypeOK, AnswerInv, Saved, Answers, Kept, Ends
    <3>5. (lastUpdated \in Contents \union {None})'
      BY <1>i, <1>t, <1>n, <1>7, Zenon DEF SaveRuleSet, RuleSetTypeOK, AnswerInv, Saved, Answers, Kept, Ends
    <3>6. (pc \in {"down", "initial", "idle", "sent", "answered", "save"} /\ starting \in BOOLEAN)'
      BY <1>i, <1>t, <1>n, <1>7, Zenon DEF SaveRuleSet, RuleSetTypeOK, AnswerInv, Saved, Answers, Kept, Ends
    <3>7. (answer = None \/ answer \in Answers)'
      BY <1>i, <1>t, <1>n, <1>7, Zenon DEF SaveRuleSet, RuleSetTypeOK, AnswerInv, Saved, Answers, Kept, Ends
    <3>8. (unsaved \in BOOLEAN)'
      BY <1>i, <1>7, Zenon DEF SaveRuleSet, RuleSetTypeOK
    <3> QED  BY <3>1, <3>2, <3>3, <3>4, <3>5, <3>6, <3>7, <3>8 DEF RuleSetTypeOK
  <2>2. EtagIsOfRules'
    BY <1>i, <1>v, <1>7 DEF SaveRuleSet, EtagIsOfRules, AnswerInv, RuleSetTypeOK, Ends
  <2>3. SavedTimeIsOfContent'
    BY <1>i, <1>v, <1>7 DEF SaveRuleSet, SavedTimeIsOfContent, AnswerInv, RuleSetTypeOK, Ends
  <2>4. AnswerInv'
    BY <1>i, <1>7, Zenon DEF SaveRuleSet, AnswerInv, Ends
  <2>5. FileInv'
    BY <1>i, <1>v, <1>7 DEF SaveRuleSet, FileInv, AnswerInv, RuleSetTypeOK, Ends
  <2> QED  BY <2>1, <2>2, <2>3, <2>4, <2>5, Zenon DEF RuleSetInv, AnswerInv, FileInv, SavedIsOfServer
<1>8. CASE FetchFails
  <2>1. RuleSetTypeOK'
    <3>1. errors' \in Nat  BY <1>i, <1>8 DEF FetchFails, RuleSetTypeOK
    <3>2. pc' \in {"down", "idle"} /\ starting' = FALSE /\ answer' = None  BY <1>8 DEF FetchFails, Ends
    <3> QED  BY <1>i, <1>t, <3>1, <3>2, <1>8, Zenon DEF FetchFails, RuleSetTypeOK
  <2>2. EtagIsOfRules'
    BY <1>i, <1>8 DEF FetchFails, EtagIsOfRules, Ends
  <2>3. SavedTimeIsOfContent'
    BY <1>i, <1>8 DEF FetchFails, SavedTimeIsOfContent, Ends
  <2>4. AnswerInv'
    BY <1>i, <1>8, Zenon DEF FetchFails, AnswerInv, Ends
  <2>5. FileInv'
    BY <1>i, <1>8 DEF FetchFails, FileInv, Ends
  <2> QED  BY <2>1, <2>2, <2>3, <2>4, <2>5, Zenon DEF RuleSetInv, AnswerInv, FileInv, SavedIsOfServer
<1>9. CASE CloseRuleSet
  <2>1. CASE UNCHANGED <<disk, unsaved>>
    <3>1. RuleSetTypeOK'
      BY <1>i, <1>t, <1>9, <2>1, Zenon DEF CloseRuleSet, RuleSetTypeOK
    <3>2. EtagIsOfRules' /\ SavedTimeIsOfContent' /\ AnswerInv' /\ FileInv'
      BY <1>i, <1>9, <2>1, Zenon DEF CloseRuleSet, EtagIsOfRules, SavedTimeIsOfContent, AnswerInv, FileInv
    <3> QED  BY <3>1, <3>2, Zenon DEF RuleSetInv, AnswerInv, FileInv, SavedIsOfServer
  <2>2. CASE ~UNCHANGED <<disk, unsaved>>
    <3>1. /\ pc \in {"answered", "save"} /\ answer.content \notin Malformed
          /\ disk' = [content |-> answer.content, etag |-> TagAfter(answer.content),
                      updated |-> answer.content]
          /\ unsaved' = FALSE
      BY <1>9, <2>2 DEF CloseRuleSet, LateSave
    <3>2. answer.content \in Contents
      BY <1>i, <3>1, Zenon DEF AnswerInv, Answers
    <3>3. TagAfter(answer.content) = EtagOf[answer.content]
      <4>1. lastEtag # None => loaded \in Contents /\ EtagOf[loaded] = lastEtag
        BY <1>i DEF EtagIsOfRules, RuleSetTypeOK
      <4> QED  BY <3>2, <4>1, RemoteRuleSetConstants, Zenon DEF TagAfter
    <3>4. disk' \in Saved /\ disk' # None /\ disk'.updated = disk'.content
          /\ disk'.etag = EtagOf[disk'.content] /\ disk'.content \notin Malformed
      BY <1>t, <1>n, <3>1, <3>2, <3>3 DEF Saved
    <3>5. RuleSetTypeOK'
      BY <1>i, <1>t, <1>9, <3>1, <3>4, Zenon DEF CloseRuleSet, RuleSetTypeOK
    <3>6. EtagIsOfRules' /\ SavedTimeIsOfContent' /\ AnswerInv' /\ FileInv'
      BY <1>9, <3>4 DEF CloseRuleSet, EtagIsOfRules, SavedTimeIsOfContent, AnswerInv, FileInv
    <3> QED  BY <3>5, <3>6, Zenon DEF RuleSetInv, AnswerInv, FileInv, SavedIsOfServer
  <2> QED  BY <2>1, <2>2
<1>10. ASSUME NEW c \in Contents, Publish(c) PROVE RuleSetInv'
  <2>1. RuleSetTypeOK'
    BY <1>i, <1>t, <1>10 DEF Publish, RuleSetTypeOK
  <2>2. EtagIsOfRules'
    BY <1>i, <1>10 DEF Publish, EtagIsOfRules
  <2>3. SavedTimeIsOfContent'
    BY <1>i, <1>10 DEF Publish, SavedTimeIsOfContent
  <2>4. AnswerInv'
    BY <1>i, <1>10, Zenon DEF Publish, AnswerInv
  <2>5. FileInv'
    BY <1>i, <1>10 DEF Publish, FileInv
  <2> QED  BY <2>1, <2>2, <2>3, <2>4, <2>5, Zenon DEF RuleSetInv, AnswerInv, FileInv, SavedIsOfServer
<1>11. CASE UNCHANGED ruleSetVars
  <2>1. RuleSetTypeOK'  BY <1>i, <1>11 DEF ruleSetVars, RuleSetTypeOK
  <2>2. EtagIsOfRules'  BY <1>i, <1>11 DEF ruleSetVars, EtagIsOfRules
  <2>3. SavedTimeIsOfContent'  BY <1>i, <1>11 DEF ruleSetVars, SavedTimeIsOfContent
  <2>4. AnswerInv'  BY <1>i, <1>11, Zenon DEF ruleSetVars, AnswerInv
  <2>5. FileInv'  BY <1>i, <1>11 DEF ruleSetVars, FileInv
  <2> QED  BY <2>1, <2>2, <2>3, <2>4, <2>5, Zenon DEF RuleSetInv, AnswerInv, FileInv, SavedIsOfServer
<1> QED  BY <1>1, <1>2, <1>3, <1>4, <1>5, <1>6, <1>7, <1>8, <1>9, <1>10, <1>11 DEF RuleSetNext, Fetch

(* The rule-set's state is consistent in every reachable state               *)
(* (rule_set_remote.go:84-322).                                              *)
THEOREM RuleSetInvHolds == RuleSetSpec => []RuleSetInv
<1>1. RuleSetInit => RuleSetInv
  <2> SUFFICES ASSUME RuleSetInit PROVE RuleSetInv
    OBVIOUS
  <2>1. RuleSetTypeOK  BY Zenon DEF RuleSetInit, RuleSetTypeOK, Etags
  <2>2. EtagIsOfRules /\ SavedTimeIsOfContent /\ AnswerInv /\ FileInv
    BY DEF RuleSetInit, EtagIsOfRules, SavedTimeIsOfContent, AnswerInv, FileInv
  <2> QED  BY <2>1, <2>2, RuleSetInvParts
<1> QED  BY <1>1, RuleSetInvStep, PTL DEF RuleSetSpec

(* For any contents, tags and failures: the tag of a request is that of the  *)
(* loaded content, in memory and in the file, and unless a save has failed   *)
(* the saved time is one at which the saved content was on the server        *)
(* (rule_set_remote.go:98-106, 258-310).                                     *)
THEOREM SavedIsOfServerHolds == RuleSetSpec => []SavedIsOfServer
<1>1. RuleSetInv => SavedIsOfServer
  BY Zenon DEF RuleSetInv
<1> QED  BY <1>1, RuleSetInvHolds, PTL

-----------------------------------------------------------------------------
(* One stage of a list of parts is a sequence of steps (adapter/lifecycle.go, *)
(* called at box.go:407-505).                                                *)
LEMMA StageSteps ==
    ASSUME NEW s \in 1..4, NEW list \in Seq(Parts)
    PROVE  /\ Stage(s, list) \in Seq(Parts \X (1..4)) /\ Len(Stage(s, list)) = Len(list)
           /\ \A i \in 1..Len(list) : Stage(s, list)[i] = <<list[i], s>>
BY DEF Stage

(* The steps of a start: what each of the first 21 is, and which stage the   *)
(* rest belong to (box.go:407-505).                                         *)
LEMMA StartSteps ==
    /\ Len(preStart) = 17 /\ Len(start) = 41
    /\ \A i \in 1..41 : start[i] \in Parts \X (1..4)
    /\ start[1] = <<"logger", 2>> /\ start[2] = <<"internal", 1>>
    /\ \A i \in 3..11 : start[i][2] = 1
    /\ start[10] = <<"endpoint", 1>>
    /\ start[12] = <<"outbound", 2>> /\ start[13] = <<"dns-transport", 2>>
    /\ start[14] = <<"dns-router", 2>> /\ start[15] = <<"network", 2>>
    /\ start[16] = <<"connection", 2>> /\ start[17] = <<"router", 2>>
    /\ start[18] = <<"internal", 2>> /\ start[19] = <<"inbound", 2>>
    /\ start[20] = <<"endpoint", 2>> /\ start[21] = <<"service", 2>>
    /\ \A i \in 22..41 : start[i][2] > 2
<1> DEFINE la == <<"network", "dns-transport", "dns-router", "connection", "router",
                   "outbound", "inbound", "endpoint", "service">>
           lb == <<"outbound", "dns-transport", "dns-router", "network", "connection", "router">>
           lc == <<"internal", "inbound", "endpoint", "service">>
           ld == <<"outbound", "network", "dns-transport", "dns-router", "connection",
                   "router", "inbound", "endpoint", "service", "internal">>
           le == <<"network", "dns-transport", "dns-router", "connection", "router",
                   "outbound", "inbound", "endpoint", "service", "internal">>
           first == << <<"logger", 2>>, <<"internal", 1>> >>
           T == Parts \X (1..4)
<1>1. /\ la \in Seq(Parts) /\ Len(la) = 9 /\ la[8] = "endpoint"
      /\ lb \in Seq(Parts) /\ Len(lb) = 6 /\ lb[1] = "outbound" /\ lb[2] = "dns-transport"
      /\ lb[3] = "dns-router" /\ lb[4] = "network" /\ lb[5] = "connection" /\ lb[6] = "router"
      /\ lc \in Seq(Parts) /\ Len(lc) = 4 /\ lc[1] = "internal" /\ lc[2] = "inbound"
      /\ lc[3] = "endpoint" /\ lc[4] = "service"
      /\ ld \in Seq(Parts) /\ Len(ld) = 10 /\ le \in Seq(Parts) /\ Len(le) = 10
      /\ first \in Seq(T) /\ Len(first) = 2
      /\ first[1] = <<"logger", 2>> /\ first[2] = <<"internal", 1>>
  BY DEF Parts, Managers
<1> DEFINE a == Stage(1, la)
           b == Stage(2, lb)
           c == Stage(2, lc)
           d == Stage(3, ld)
           e == Stage(4, le)
<1>4. preStart = (first \o a) \o b /\ start = ((preStart \o c) \o d) \o e
  BY Zenon DEF preStart, start, Starts, Initialize, PostStart, Started
<1> HIDE DEF la, lb, lc, ld, le, first
<1>2. /\ a \in Seq(T) /\ Len(a) = 9 /\ (\A i \in 1..9 : a[i] = <<la[i], 1>>)
      /\ b \in Seq(T) /\ Len(b) = 6 /\ (\A i \in 1..6 : b[i] = <<lb[i], 2>>)
      /\ c \in Seq(T) /\ Len(c) = 4 /\ (\A i \in 1..4 : c[i] = <<lc[i], 2>>)
      /\ d \in Seq(T) /\ Len(d) = 10 /\ (\A i \in 1..10 : d[i] = <<ld[i], 3>>)
      /\ e \in Seq(T) /\ Len(e) = 10 /\ (\A i \in 1..10 : e[i] = <<le[i], 4>>)
  <2>1. 1 \in 1..4 /\ 2 \in 1..4 /\ 3 \in 1..4 /\ 4 \in 1..4
    OBVIOUS
  <2> QED
    BY <1>1, <2>1, StageSteps, Zenon
<1> HIDE DEF a, b, c, d, e
<1>3. /\ b[1] = <<"outbound", 2>> /\ b[2] = <<"dns-transport", 2>> /\ b[3] = <<"dns-router", 2>>
      /\ b[4] = <<"network", 2>> /\ b[5] = <<"connection", 2>> /\ b[6] = <<"router", 2>>
      /\ c[1] = <<"internal", 2>> /\ c[2] = <<"inbound", 2>> /\ c[3] = <<"endpoint", 2>>
      /\ c[4] = <<"service", 2>> /\ a[8] = <<"endpoint", 1>>
  BY <1>1, <1>2
<1>5. (\A i \in 1..9 : a[i][2] = 1) /\ (\A i \in 1..10 : d[i][2] = 3 /\ e[i][2] = 4)
  BY <1>2
<1> HIDE DEF T
<1> DEFINE fa == first \o a
           xc == preStart \o c
           xd == xc \o d
<1>6. preStart = fa \o b /\ start = xd \o e
  BY <1>4
<1>fat. fa \in Seq(T) /\ Len(fa) = 11
      /\ \A i \in 1..11 : fa[i] = IF i <= 2 THEN first[i] ELSE a[i - 2]
  <2>1. first \in Seq(T) /\ a \in Seq(T) /\ Len(first) = 2 /\ Len(a) = 9
    BY <1>1, <1>2
  <2>2. 2 + 9 = 11
    OBVIOUS
  <2>3. /\ first \o a \in Seq(T) /\ Len(first \o a) = Len(first) + Len(a)
        /\ \A i \in 1..Len(first) + Len(a) :
              (first \o a)[i] = IF i <= Len(first) THEN first[i] ELSE a[i - Len(first)]
    BY <2>1, ConcatProperties, Zenon
  <2> QED
    BY <2>1, <2>2, <2>3, Zenon
<1>fa. \A i \in 1..11 : fa[i] = IF i <= 2 THEN first[i] ELSE a[i - 2]
  BY <1>fat, Zenon
<1> HIDE DEF fa
<1>pret. preStart \in Seq(T) /\ Len(preStart) = 17
      /\ \A i \in 1..17 : preStart[i] = IF i <= 11 THEN fa[i] ELSE b[i - 11]
  <2>1. fa \in Seq(T) /\ b \in Seq(T) /\ Len(fa) = 11 /\ Len(b) = 6
    BY <1>fat, <1>2
  <2>2. 11 + 6 = 17
    OBVIOUS
  <2>3. /\ fa \o b \in Seq(T) /\ Len(fa \o b) = Len(fa) + Len(b)
        /\ \A i \in 1..Len(fa) + Len(b) :
              (fa \o b)[i] = IF i <= Len(fa) THEN fa[i] ELSE b[i - Len(fa)]
    BY <2>1, ConcatProperties, Zenon
  <2> QED
    BY <2>1, <2>2, <2>3, <1>6, Zenon
<1>pre. \A i \in 1..17 : preStart[i] = IF i <= 11 THEN fa[i] ELSE b[i - 11]
  BY <1>pret
<1>xct. xc \in Seq(T) /\ Len(xc) = 21
      /\ \A i \in 1..21 : xc[i] = IF i <= 17 THEN preStart[i] ELSE c[i - 17]
  <2>1. preStart \in Seq(T) /\ c \in Seq(T) /\ Len(preStart) = 17 /\ Len(c) = 4
    BY <1>pret, <1>2
  <2>2. 17 + 4 = 21
    OBVIOUS
  <2>3. /\ preStart \o c \in Seq(T) /\ Len(preStart \o c) = Len(preStart) + Len(c)
        /\ \A i \in 1..Len(preStart) + Len(c) :
              (preStart \o c)[i] = IF i <= Len(preStart) THEN preStart[i] ELSE c[i - Len(preStart)]
    BY <2>1, ConcatProperties, Zenon
  <2> QED
    BY <2>1, <2>2, <2>3, Zenon
<1>xc. \A i \in 1..21 : xc[i] = IF i <= 17 THEN preStart[i] ELSE c[i - 17]
  BY <1>xct, Zenon
<1> HIDE DEF xc
<1>xdt. xd \in Seq(T) /\ Len(xd) = 31
      /\ \A i \in 1..31 : xd[i] = IF i <= 21 THEN xc[i] ELSE d[i - 21]
  <2>1. xc \in Seq(T) /\ d \in Seq(T) /\ Len(xc) = 21 /\ Len(d) = 10
    BY <1>xct, <1>2
  <2>2. 21 + 10 = 31
    OBVIOUS
  <2>3. /\ xc \o d \in Seq(T) /\ Len(xc \o d) = Len(xc) + Len(d)
        /\ \A i \in 1..Len(xc) + Len(d) :
              (xc \o d)[i] = IF i <= Len(xc) THEN xc[i] ELSE d[i - Len(xc)]
    BY <2>1, ConcatProperties, Zenon
  <2> QED
    BY <2>1, <2>2, <2>3, Zenon
<1>xd. \A i \in 1..31 : xd[i] = IF i <= 21 THEN xc[i] ELSE d[i - 21]
  BY <1>xdt, Zenon
<1> HIDE DEF xd
<1>stt. start \in Seq(T) /\ Len(start) = 41
      /\ \A i \in 1..41 : start[i] = IF i <= 31 THEN xd[i] ELSE e[i - 31]
  <2>1. xd \in Seq(T) /\ e \in Seq(T) /\ Len(xd) = 31 /\ Len(e) = 10
    BY <1>xdt, <1>2
  <2>2. 31 + 10 = 41
    OBVIOUS
  <2>3. /\ xd \o e \in Seq(T) /\ Len(xd \o e) = Len(xd) + Len(e)
        /\ \A i \in 1..Len(xd) + Len(e) :
              (xd \o e)[i] = IF i <= Len(xd) THEN xd[i] ELSE e[i - Len(xd)]
    BY <2>1, ConcatProperties, Zenon
  <2> QED
    BY <2>1, <2>2, <2>3, <1>6, Zenon
<1>st. \A i \in 1..41 : start[i] = IF i <= 31 THEN xd[i] ELSE e[i - 31]
  BY <1>stt, Zenon
<1>8. \A i \in 1..41 : start[i] \in Parts \X (1..4)
  <2>1. start \in Seq(T) /\ Len(start) = 41
    BY <1>stt
  <2> QED
    BY <2>1, ElementOfSeq, Zenon DEF T
<1>9. \A i \in 1..11 : start[i] = IF i <= 2 THEN first[i] ELSE a[i - 2]
  <2>1. \A i \in 1..11 : start[i] = fa[i]
    BY <1>pre, <1>xc, <1>xd, <1>st
  <2> QED
    BY <2>1, <1>fa
<1>10. \A i \in 12..17 : start[i] = b[i - 11]
  BY <1>pre, <1>xc, <1>xd, <1>st
<1>11. \A i \in 18..21 : start[i] = c[i - 17]
  BY <1>xc, <1>xd, <1>st
<1>12. \A i \in 22..31 : start[i] = d[i - 21]
  BY <1>xd, <1>st
<1>13. \A i \in 32..41 : start[i] = e[i - 31]
  BY <1>st
<1>14. start[1] = first[1] /\ start[2] = first[2] /\ start[10] = a[8]
  BY <1>9
<1>15. /\ start[12] = b[1] /\ start[13] = b[2] /\ start[14] = b[3] /\ start[15] = b[4]
       /\ start[16] = b[5] /\ start[17] = b[6]
  BY <1>10
<1>16. start[18] = c[1] /\ start[19] = c[2] /\ start[20] = c[3] /\ start[21] = c[4]
  BY <1>11
<1>17. \A i \in 3..11 : start[i][2] = 1
  BY <1>5, <1>9
<1>18. \A i \in 22..41 : start[i][2] > 2
  <2>1. \A i \in 22..31 : start[i][2] = 3
    BY <1>5, <1>12
  <2>2. \A i \in 32..41 : start[i][2] = 4
    BY <1>5, <1>13
  <2> QED
    BY <2>1, <2>2
<1>19. start[1] = <<"logger", 2>> /\ start[2] = <<"internal", 1>> /\ start[10] = <<"endpoint", 1>>
  BY <1>1, <1>3, <1>14, Zenon
<1>20. /\ start[12] = <<"outbound", 2>> /\ start[13] = <<"dns-transport", 2>>
       /\ start[14] = <<"dns-router", 2>> /\ start[15] = <<"network", 2>>
       /\ start[16] = <<"connection", 2>> /\ start[17] = <<"router", 2>>
  BY <1>3, <1>15, Zenon
<1>21. /\ start[18] = <<"internal", 2>> /\ start[19] = <<"inbound", 2>>
       /\ start[20] = <<"endpoint", 2>> /\ start[21] = <<"service", 2>>
  BY <1>3, <1>16, Zenon
<1> QED
  BY <1>pret, <1>stt, <1>8, <1>17, <1>18, <1>19, <1>20, <1>21, Zenon

(* What the step taken next says about the steps taken (box.go:407-505).    *)
LEMMA StepAt ==
    ASSUME NEW p \in Parts, NEW s \in 1..4, At(p, s), target \in {17, 41}, done \in 0..target
    PROVE  /\ done \in 0..40
           /\ p = "outbound" /\ s = 2 => done = 11
           /\ p = "router" /\ s = 2 => done = 16
           /\ done = 9 => p = "endpoint"
           /\ done = 12 => p = "dns-transport" /\ s = 2
           /\ done = 13 => p = "dns-router" /\ s = 2
           /\ done = 14 => p = "network" /\ s = 2
           /\ done = 16 => p = "router" /\ s = 2
           /\ done >= 11 => s >= 2
           /\ s > 2 => done >= 21
           /\ done < 17 /\ p = "inbound" => s = 1
<1>1. done \in 0..40 /\ start[done + 1] = <<p, s>>
  BY DEF At
<1>2. start[done + 1][1] = p /\ start[done + 1][2] = s
  BY <1>1
<1>3. /\ start[1][1] = "logger" /\ start[2][1] = "internal" /\ start[10][1] = "endpoint"
      /\ start[12][1] = "outbound" /\ start[13][1] = "dns-transport"
      /\ start[14][1] = "dns-router" /\ start[15][1] = "network"
      /\ start[16][1] = "connection" /\ start[17][1] = "router"
      /\ start[18][1] = "internal" /\ start[19][1] = "inbound"
      /\ start[20][1] = "endpoint" /\ start[21][1] = "service"
      /\ start[1][2] = 2 /\ start[2][2] = 1 /\ \A i \in 12..21 : start[i][2] = 2
  BY StartSteps
<1>4. (\A i \in 3..11 : start[i][2] = 1) /\ (\A i \in 22..41 : start[i][2] > 2)
  BY StartSteps, Zenon
<1>5. CASE done + 1 \in 1..2
  BY <1>1, <1>2, <1>3, <1>5
<1>6. CASE done + 1 \in 3..11
  BY <1>1, <1>2, <1>3, <1>4, <1>6
<1>7. CASE done + 1 \in 12..21
  BY <1>1, <1>2, <1>3, <1>7
<1>8. CASE done + 1 \in 22..41
  BY <1>1, <1>2, <1>4, <1>8
<1> QED
  BY <1>1, <1>5, <1>6, <1>7, <1>8

(* Close goes through all parts, and the inbounds before what they hand over *)
(* to (box.go:507-544).                                                     *)
LEMMA CloseSteps ==
    /\ Len(closeOrder) = 11
    /\ \A i \in 1..11 : closeOrder[i] \in Parts
    /\ closeOrder[1] = "service" /\ closeOrder[2] = "endpoint" /\ closeOrder[3] = "inbound"
    /\ closeOrder[4] = "outbound" /\ closeOrder[5] = "router"
    /\ \A i \in 6..11 : closeOrder[i] \notin {"endpoint", "outbound", "router"}
    /\ \A p \in Parts : \E i \in 1..11 : closeOrder[i] = p
<1>1. /\ closeOrder[1] = "service" /\ closeOrder[2] = "endpoint" /\ closeOrder[3] = "inbound"
      /\ closeOrder[4] = "outbound" /\ closeOrder[5] = "router" /\ closeOrder[6] = "connection"
      /\ closeOrder[7] = "dns-router" /\ closeOrder[8] = "dns-transport"
      /\ closeOrder[9] = "network" /\ closeOrder[10] = "internal" /\ closeOrder[11] = "logger"
      /\ Len(closeOrder) = 11
  BY DEF closeOrder
<1>2. \A i \in 1..11 : closeOrder[i] \in Parts
  BY <1>1 DEF Parts, Managers
<1>3. \A i \in 6..11 : closeOrder[i] \notin {"endpoint", "outbound", "router"}
  BY <1>1
<1>4. \A p \in Parts : \E i \in 1..11 : closeOrder[i] = p
  BY <1>1 DEF Parts, Managers
<1> QED
  BY <1>1, <1>2, <1>3, <1>4

(* Every step of the box is a step of the two parts it is composed of, or    *)
(* leaves them alone (box.go:407-544).                                      *)
LEMMA NextOfParts == Next => [OrderNext]_orderVars /\ [RuleSetNext]_ruleSetVars
<1> SUFFICES ASSUME Next PROVE [OrderNext]_orderVars /\ [RuleSetNext]_ruleSetVars
  OBVIOUS
<1>1. \A S \in SUBSET Tags : CloseItems(S) => OrderNext
  BY Zenon DEF OrderNext
<1>2. (Tags \ ByTag) \in SUBSET Tags /\ ByTag \in SUBSET Tags /\ Tags \in SUBSET Tags
  BY StartOrderConstants
<1>3. CASE Begin \/ OutboundsStarted \/ RuleSetStarted \/ Finish \/ Closed \/ Close
  BY <1>3, Zenon DEF Begin, OutboundsStarted, RuleSetStarted, Finish, Closed, Close, orderVars, ruleSetVars
<1>4. ASSUME NEW p \in Parts, NEW s \in Initialize..Started, StartStage(p, s)
      PROVE  UNCHANGED <<orderVars, ruleSetVars>>
  BY <1>4, Zenon DEF StartStage
<1>5. CASE StartOutbounds
  BY <1>5, Zenon DEF StartOutbounds, OrderNext
<1>6. CASE StartRuleSet
  BY <1>6, Zenon DEF StartRuleSet, RuleSetNext
<1>7. CASE ClosePart
  <2>1. UNCHANGED orderVars \/ CloseItems(Tags \ ByTag) \/ CloseItems(ByTag)
    BY <1>7 DEF ClosePart
  <2>2. CloseRuleSet \/ UNCHANGED ruleSetVars
    BY <1>7, Zenon DEF ClosePart
  <2> QED
    BY <1>1, <1>2, <2>1, <2>2, Zenon DEF RuleSetNext
<1>8. CASE Crash
  BY <1>1, <1>2, <1>8, Zenon DEF Crash, RuleSetNext
<1>9. CASE New
  BY <1>9, Zenon DEF New, OrderNext
<1>10. CASE RuleSetStep
  BY <1>10, Zenon DEF RuleSetStep, RuleSetNext
<1> QED
  BY <1>3, <1>4, <1>5, <1>6, <1>7, <1>8, <1>9, <1>10, Zenon DEF Next, BoxStep

(* The box implements its two parts: what is proved of the start of          *)
(* outbounds and of a rule-set holds in a box that starts, fails, closes,    *)
(* crashes and is created again (box.go:407-544).                           *)
THEOREM ImplementsPartsHolds == Spec => OrderSpec /\ RuleSetSpec
<1>1. Init => OrderInit /\ RuleSetInit
  BY DEF Init
<1>2. [Next]_vars => [OrderNext]_orderVars /\ [RuleSetNext]_ruleSetVars
  BY NextOfParts, Zenon DEF vars
<1> QED
  BY <1>1, <1>2, PTL DEF Spec, OrderSpec, RuleSetSpec

(* So within the life of a box the outbounds start after their dependencies  *)
(* and the rule-set's file is what the server had, whatever the stage at     *)
(* which the start fails or Close is called (box.go:407-545).                *)
THEOREM PartsHold == Spec => [](StartsAfterDependencies /\ SavedIsOfServer)
BY ImplementsPartsHolds, StartsAfterDependenciesHolds, SavedIsOfServerHolds, PTL

(* A fetch that is not the one of the start finds rules loaded.             *)
LoadedInv ==
    /\ pc # "down" /\ ~starting => loaded # None
    /\ pc \in {"down", "idle", "sent"} => ~starting
    /\ pc = "initial" => starting

(* Start, fetch and Close keep LoadedInv (rule_set_remote.go:84-322).       *)
LEMMA LoadedInvStep == RuleSetInv /\ LoadedInv /\ [RuleSetNext]_ruleSetVars => LoadedInv'
<1> SUFFICES ASSUME RuleSetInv, LoadedInv, [RuleSetNext]_ruleSetVars PROVE LoadedInv'
  OBVIOUS
<1>1. None \notin Contents
  BY RemoteRuleSetConstants, Zenon
<1>2. CASE StartContext
  <2>1. disk # None => disk.content # None
    BY <1>1, Zenon DEF RuleSetInv, RuleSetTypeOK, Saved
  <2> QED
    BY <1>2, <2>1 DEF StartContext, LoadedInv
<1>3. CASE LoopUpdate
  BY <1>3 DEF LoopUpdate, LoadedInv
<1>4. CASE Do
  BY <1>4, Zenon DEF Do, LoadedInv
<1>5. CASE NotModified
  <2>1. loaded # None
    BY <1>5, Zenon DEF NotModified, RuleSetInv, SavedIsOfServer, EtagIsOfRules
  <2> QED
    BY <1>5, <2>1, Zenon DEF NotModified, Ends, LoadedInv
<1>6. CASE MalformedContent \/ FetchFails
  BY <1>6 DEF MalformedContent, FetchFails, Ends, LoadedInv
<1>7. CASE LoadBytes
  <2>1. loaded' # None /\ pc' = "save"
    BY <1>1, <1>7 DEF LoadBytes
  <2> QED
    BY <2>1 DEF LoadedInv
<1>8. CASE SaveRuleSet
  <2>1. loaded # None
    BY <1>1, <1>8, Zenon DEF SaveRuleSet, RuleSetInv, Answers
  <2> QED
    BY <1>8, <2>1 DEF SaveRuleSet, Ends, LoadedInv
<1>9. CASE CloseRuleSet
  BY <1>9 DEF CloseRuleSet, LoadedInv
<1>10. ASSUME NEW c \in Contents, Publish(c) PROVE LoadedInv'
  BY <1>10 DEF Publish, LoadedInv
<1>11. CASE UNCHANGED ruleSetVars
  BY <1>11 DEF ruleSetVars, LoadedInv
<1> QED
  BY <1>2, <1>3, <1>4, <1>5, <1>6, <1>7, <1>8, <1>9, <1>10, <1>11, Zenon DEF RuleSetNext, Fetch

(* What an inbound that accepts connections relies on.                      *)
Needed == {"dns-transport", "dns-router", "network", "router"}
Serving == "inbound" \in live /\ stage["inbound"] >= Starts
RuleSetUp == ruled => pc # "down" /\ ~starting
Up ==
    /\ result \in {"ok", "closed"} /\ ByTag \subseteq running
    /\ \A p \in Needed : p \in live /\ stage[p] >= Starts
    /\ RuleSetUp

(* While a box starts and runs, the steps taken say what is up: outbounds    *)
(* come up once endpoints and outbounds have been initialised, step 12 has   *)
(* all of them running, steps 13 to 17 start what routes a connection, and   *)
(* only later steps let the inbounds accept one.                            *)
UpFrom(n, p) == done >= n => p \in live /\ stage[p] >= Starts
StartingInv ==
    /\ done >= 10 => stage["endpoint"] # 0
    /\ running # {} => done >= 11 /\ stage["outbound"] # 0
    /\ done >= 12 => result = "ok" /\ running = Tags
    /\ UpFrom(13, "dns-transport") /\ UpFrom(14, "dns-router")
    /\ UpFrom(15, "network") /\ UpFrom(17, "router")
    /\ "router" \in live => done >= 16 /\ stage["router"] >= Starts
    /\ pc # "down" => done >= 16
    /\ done >= 17 => RuleSetUp
    /\ done < 17 => stage["inbound"] < Starts

(* While it closes, what has been closed is down.                           *)
ClosingInv ==
    /\ \A i \in 1..shut : stage[closeOrder[i]] = 0
    /\ running \intersect ByTag # {} => stage["outbound"] # 0
    /\ running \ ByTag # {} => stage["endpoint"] # 0
    /\ shut >= 5 => pc = "down"
    /\ Serving => Up

(* A box that has not begun to start, or has been closed, is down.          *)
IdleInv ==
    /\ live = {} /\ running = {} /\ pc = "down"
    /\ phase = "new" => done = 0 /\ stage = [p \in Parts |-> 0]

BoxTypes ==
    /\ phase \in {"new", "starting", "started", "closing", "closed"}
    /\ target \in {17, 41} /\ done \in 0..target /\ shut \in 0..11
    /\ stage \in [Parts -> 0..4] /\ live \subseteq Parts
    /\ ruled \in BOOLEAN
    /\ \A p \in live : stage[p] # 0
    /\ phase \in {"new", "starting", "started"} => shut = 0
    /\ phase = "started" => done = target

(* The inductive invariant of the box.                                      *)
BoxInv ==
    /\ BoxTypes
    /\ phase \in {"new", "closed"} => IdleInv
    /\ phase \in {"starting", "started"} => StartingInv
    /\ phase = "closing" => ClosingInv

(* The facts of its parts that it rests on.                                 *)
PartsInv == OrderInv /\ RuleSetInv /\ LoadedInv

(* What of the parts a step of the box leaves alone.                        *)
LEMMA SameParts ==
    /\ UNCHANGED orderVars => UNCHANGED <<running, result>>
    /\ UNCHANGED ruleSetVars => UNCHANGED <<pc, starting>>
BY Zenon DEF orderVars, ruleSetVars

(* A failing start leaves what Close expects (box.go:407-430).              *)
LEMMA StartingCloses ==
    ASSUME BoxTypes, StartingInv, shut = 0 PROVE ClosingInv
<1>1. Serving => done >= 17
  <2>1. stage["inbound"] \in 0..4
    BY DEF BoxTypes, Parts, Managers
  <2> QED
    BY <2>1 DEF BoxTypes, StartingInv, Serving, Starts
<1>2. done >= 17 => Up
  <2> SUFFICES ASSUME done >= 17 PROVE Up
    OBVIOUS
  <2>1. done >= 12 /\ done >= 13 /\ done >= 14 /\ done >= 15
    BY DEF BoxTypes
  <2>2. \A p \in Needed : p \in live /\ stage[p] >= Starts
    BY <2>1 DEF Needed, StartingInv, UpFrom
  <2> QED
    BY <2>1, <2>2, StartOrderConstants, Zenon DEF Up, StartingInv
<1>3. done >= 11 => done >= 10
  BY DEF BoxTypes
<1>4. \A i \in 1..shut : stage[closeOrder[i]] = 0
  OBVIOUS
<1>5. ~(shut >= 5)
  OBVIOUS
<1>6. running # {} => stage["outbound"] # 0 /\ stage["endpoint"] # 0
  BY <1>3, Zenon DEF StartingInv
<1> QED
  BY <1>1, <1>2, <1>4, <1>5, <1>6, Zenon DEF ClosingInv

(* The same of the next state.                                              *)
LEMMA StartingClosesNext == (BoxTypes /\ StartingInv /\ shut = 0 => ClosingInv)'
<1>1. BoxTypes /\ StartingInv /\ shut = 0 => ClosingInv
  BY StartingCloses
<1> QED
  BY <1>1, PTL

(* A stage of a part keeps BoxInv (box.go:407-505).                          *)
LEMMA StageInv ==
    ASSUME BoxInv, NEW p \in Parts, NEW s \in 1..4, StartStage(p, s)
    PROVE  BoxInv'
<1>1. BoxTypes /\ StartingInv /\ shut = 0 /\ phase = "starting"
  BY DEF BoxInv, StartStage, At, BoxTypes
<1>2. /\ done \in 0..40
      /\ p = "outbound" => s # 2
      /\ p = "router" /\ s = 2 => done = 16
      /\ s > 2 => done >= 21
      /\ done = 9 => p = "endpoint"
      /\ done = 12 => p = "dns-transport" /\ s = 2
      /\ done = 13 => p = "dns-router" /\ s = 2
      /\ done = 14 => p = "network" /\ s = 2
      /\ done = 16 => p = "router" /\ s = 2
      /\ done >= 11 => s >= 2
      /\ done < 17 /\ p = "inbound" => s = 1
      /\ done # 11
  <2>1. At(p, s) /\ target \in {17, 41} /\ done \in 0..target
    BY <1>1 DEF StartStage, BoxTypes
  <2>2. ~(p = "outbound" /\ s = 2)
    BY Zenon DEF StartStage, Starts
  <2>3. done # 11
    <3>1. start[12] = <<"outbound", 2>>
      BY StartSteps, Zenon
    <3> QED
      BY <2>1, <2>2, <3>1 DEF At
  <2> QED
    BY <2>1, <2>2, <2>3, StepAt, Zenon
<1>3. /\ stage' = [stage EXCEPT ![p] = s]
      /\ live' = IF Acts(p, s) THEN live \union {p} ELSE live
      /\ UNCHANGED <<target, shut, ruled, running, result, pc, starting>>
  BY SameParts, Zenon DEF StartStage, Enter
<1>4. (done' = done + 1 /\ phase' = phase) \/ (phase' = "closing" /\ done' = done)
  BY Zenon DEF StartStage, Succeeds, Fails
<1>5. done < target /\ (ruled => done # 16)
  <2>1. start[17] = <<"router", 2>>
    BY StartSteps, Zenon
  <2>2. ruled => ~(p = "router" /\ s = 2)
    BY Zenon DEF StartStage, Starts
  <2>3. done < target
    BY DEF StartStage, At
  <2> QED
    BY <1>2, <2>2, <2>3
<1>6. BoxTypes'
  <2>1. stage' \in [Parts -> 0..4] /\ live' \subseteq Parts
    BY <1>1, <1>3 DEF BoxTypes
  <2>2. \A q \in live' : stage'[q] # 0
    BY <1>1, <1>3 DEF BoxTypes
  <2> QED
    BY <1>1, <1>2, <1>3, <1>4, <1>5, <2>1, <2>2 DEF BoxTypes
<1>7. StartingInv'
  <2> USE DEF StartingInv, BoxTypes
  <2>1. done' \in {done, done + 1} /\ done \in Nat
    BY <1>1, <1>2, <1>4
  <2>2. \A q \in Parts : stage'[q] = IF q = p THEN s ELSE stage[q]
    BY <1>1, <1>3
  <2>3. \A q \in live : q \in live'
    BY <1>3
  <2>4. \A q \in Parts : stage[q] \in 0..4 /\ stage'[q] \in 0..4
    BY <1>1, <1>6
  <2>5. {"endpoint", "outbound", "inbound", "dns-transport", "dns-router", "network", "router"}
          \subseteq Parts
    BY DEF Parts, Managers
  <2>6. (done >= 10 => stage["endpoint"] # 0)'
    BY <1>1, <1>2, <2>1, <2>2, <2>5
  <2>7. (running # {} => done >= 11 /\ stage["outbound"] # 0)'
    BY <1>1, <1>3, <2>1, <2>2, <2>5
  <2>8. (done >= 12 => result = "ok" /\ running = Tags)'
    BY <1>1, <1>2, <1>3, <2>1 
  <2>9. ASSUME NEW q \in Parts, NEW n \in 13..17, UpFrom(n, q), done = n - 1 => p = q /\ s = 2,
               Acts(q, 2)
        PROVE  UpFrom(n, q)'
    <3>1. CASE done >= n
      BY <1>2, <2>1, <2>2, <2>3, <2>9, <3>1 DEF UpFrom, Starts
    <3>2. CASE done = n - 1
      BY <1>3, <2>2, <2>9, <3>2 DEF UpFrom, Starts
    <3>3. CASE done < n - 1
      BY <2>1, <3>3 DEF UpFrom
    <3> QED
      BY <2>1, <3>1, <3>2, <3>3
  <2>10. \A q \in {"dns-transport", "dns-router", "network", "router"} : Acts(q, 2)
    BY DEF Acts, Starts, Started, Initialize
  <2>11. UpFrom(13, "dns-transport")' /\ UpFrom(14, "dns-router")'
    BY <1>1, <1>2, <2>5, <2>9, <2>10
  <2>12. UpFrom(15, "network")' /\ UpFrom(17, "router")'
    BY <1>1, <1>2, <2>5, <2>9, <2>10
  <2>13. ("router" \in live => done >= 16 /\ stage["router"] >= Starts)'
    <3>1. CASE "router" \in live
      BY <1>1, <1>2, <2>1, <2>2, <2>5, <3>1 DEF Starts
    <3>2. CASE "router" \notin live /\ "router" \in live'
      <4>1. p = "router" /\ Acts("router", s)
        BY <1>3, <3>2
      <4>2. s # 1
        BY <4>1 DEF Acts, Initialize
      <4>3. done >= 16 /\ s >= 2
        BY <1>2, <4>1, <4>2
      <4> QED
        BY <2>1, <2>2, <2>5, <4>1, <4>3 DEF Starts
    <3> QED
      BY <3>1, <3>2
  <2>14. (pc # "down" => done >= 16)'
    BY <1>1, <1>3, <2>1
  <2>15. (done >= 17 => RuleSetUp)'
    BY <1>1, <1>2, <1>3, <1>5, <2>1 DEF RuleSetUp
  <2>16. (done < 17 => stage["inbound"] < Starts)'
    BY <1>1, <1>2, <2>1, <2>2, <2>4, <2>5 DEF Starts
  <2> QED
    BY <2>6, <2>7, <2>8, <2>11, <2>12, <2>13, <2>14, <2>15, <2>16, Zenon
<1> QED
  BY <1>1, <1>3, <1>4, <1>6, <1>7, StartingClosesNext DEF BoxInv

(* The start of the outbounds and endpoints keeps BoxInv                    *)
(* (adapter/outbound/manager.go:78-171).                                    *)
LEMMA StartOutboundsInv ==
    ASSUME BoxInv, PartsInv, StartOutbounds \/ OutboundsStarted
    PROVE  BoxInv'
<1>1. At("outbound", Starts) /\ phase = "starting" /\ shut = 0 /\ BoxTypes /\ StartingInv
  BY DEF BoxInv, BoxTypes, StartOutbounds, OutboundsStarted, At
<1>2. done = 11 /\ done < target
  <2>1. "outbound" \in Parts /\ 2 \in 1..4 /\ done < target /\ done \in 0..target /\ target \in {17, 41}
    BY <1>1 DEF Parts, Managers, BoxTypes, At
  <2> QED
    BY <1>1, <2>1, StepAt, Zenon DEF Starts
<1>3. \A q \in Parts : stage[q] \in 0..4
  BY <1>1 DEF BoxTypes
<1>4. {"endpoint", "outbound", "inbound", "router"} \subseteq Parts
  BY DEF Parts, Managers
<1>5. CASE StartOutbounds
  <2>1. /\ stage' = [stage EXCEPT !["outbound"] = 2] /\ live' = live \union {"outbound"}
        /\ UNCHANGED <<phase, target, done, shut, ruled, pc, starting>>
    <3>1. Acts("outbound", Starts)
      BY DEF Acts
    <3> QED
      BY <1>5, <3>1, SameParts, Zenon DEF StartOutbounds, Enter, Starts
  <2>2. BoxTypes'
    BY <1>1, <1>3, <1>4, <2>1 DEF BoxTypes
  <2>3. StartingInv'
    BY <1>1, <1>2, <1>4, <2>1 DEF StartingInv, BoxTypes, UpFrom, RuleSetUp
  <2> QED
    BY <1>1, <2>1, <2>2, <2>3 DEF BoxInv
<1>6. CASE OutboundsStarted
  <2>1. UNCHANGED <<target, shut, stage, live, ruled, running, result, pc, starting>>
    BY <1>6, SameParts, Zenon DEF OutboundsStarted
  <2>2. \/ result = "ok" /\ done' = done + 1 /\ phase' = phase
        \/ phase' = "closing" /\ done' = done
    BY <1>6, Zenon DEF OutboundsStarted, Succeeds, Fails
  <2>3. BoxTypes'
    BY <1>1, <1>2, <2>1, <2>2 DEF BoxTypes
  <2>4. StartingInv'
    <3>1. result = "ok" => running = Tags
      BY DEF PartsInv, OrderInv
    <3> QED
      BY <1>1, <1>2, <2>1, <2>2, <3>1 DEF StartingInv, BoxTypes, UpFrom, RuleSetUp
  <2> QED
    BY <1>1, <2>1, <2>2, <2>3, <2>4, StartingClosesNext DEF BoxInv
<1> QED
  BY <1>5, <1>6

(* The start of the rule-set keeps BoxInv (route/router.go:60-140,          *)
(* rule_set_remote.go:84-134).                                               *)
LEMMA StartRuleSetInv ==
    ASSUME BoxInv, PartsInv, StartRuleSet \/ RuleSetStarted
    PROVE  BoxInv'
<1>1. At("router", Starts) /\ phase = "starting" /\ shut = 0 /\ BoxTypes /\ StartingInv
  BY Zenon DEF BoxInv, BoxTypes, StartRuleSet, RuleSetStarted, At
<1>2. done = 16 /\ done < target
  <2>1. "router" \in Parts /\ 2 \in 1..4 /\ done < target /\ done \in 0..target /\ target \in {17, 41}
    BY <1>1 DEF Parts, BoxTypes, At
  <2> QED
    BY <1>1, <2>1, StepAt, Zenon DEF Starts
<1>3. \A q \in Parts : stage[q] \in 0..4
  BY <1>1 DEF BoxTypes
<1>4. {"endpoint", "outbound", "inbound", "dns-transport", "dns-router", "network", "router"} \subseteq Parts
  BY DEF Parts, Managers
<1>5. CASE StartRuleSet
  <2>1. /\ stage' = [stage EXCEPT !["router"] = 2] /\ live' = live \union {"router"}
        /\ UNCHANGED <<phase, target, done, shut, ruled, running, result>>
    <3>1. Acts("router", Starts)
      BY DEF Acts, Starts, Initialize
    <3> QED
      BY <1>5, <3>1, SameParts, Zenon DEF StartRuleSet, Enter, Starts
  <2>2. BoxTypes'
    BY <1>1, <1>3, <1>4, <2>1 DEF BoxTypes
  <2>3. StartingInv'
    BY <1>1, <1>2, <1>4, <2>1 DEF StartingInv, BoxTypes, UpFrom, Starts
  <2> QED
    BY <1>1, <2>1, <2>2, <2>3 DEF BoxInv
<1>6. CASE RuleSetStarted
  <2>1. UNCHANGED <<target, shut, stage, live, ruled, running, result, pc, starting>>
    BY <1>6, SameParts, Zenon DEF RuleSetStarted
  <2>2. \/ pc = "idle" /\ done' = done + 1 /\ phase' = phase
        \/ phase' = "closing" /\ done' = done
    BY <1>6, Zenon DEF RuleSetStarted, Succeeds, Fails
  <2>3. "router" \in live
    BY <1>6 DEF RuleSetStarted
  <2>4. BoxTypes'
    BY <1>1, <1>2, <2>1, <2>2 DEF BoxTypes
  <2>5. StartingInv'
    <3>1. pc = "idle" => RuleSetUp
      BY DEF PartsInv, LoadedInv, RuleSetUp
    <3>2. pc = "idle" => RuleSetUp'
      BY <2>1, <3>1 DEF RuleSetUp
    <3>3. (done >= 17 => RuleSetUp)'
      BY <1>2, <2>2, <3>2
    <3>4. (UpFrom(13, "dns-transport") /\ UpFrom(14, "dns-router")
           /\ UpFrom(15, "network") /\ UpFrom(17, "router"))'
      BY <1>1, <1>2, <2>1, <2>2, <2>3 DEF StartingInv, UpFrom
    <3> QED
      BY <1>1, <1>2, <2>1, <2>2, <3>3, <3>4 DEF StartingInv
  <2> QED
    BY <1>1, <2>1, <2>2, <2>4, <2>5, StartingClosesNext DEF BoxInv
<1> QED
  BY <1>5, <1>6

(* A step of the rule-set of its own brings nothing up and, once it has      *)
(* started, nothing down (rule_set_remote.go:205-313).                      *)
LEMMA RuleSetAlone ==
    ASSUME RuleSetStep, PartsInv
    PROVE  /\ pc = "down" => pc' = "down"
           /\ pc # "down" /\ ~starting => pc' # "down" /\ ~starting'
<1>1. CASE LoopUpdate
  BY <1>1 DEF LoopUpdate
<1>2. CASE Do
  BY <1>2, Zenon DEF Do, PartsInv, LoadedInv
<1>3. CASE NotModified \/ MalformedContent \/ SaveRuleSet \/ FetchFails
  <2>1. pc # "down" /\ pc' = (IF starting /\ pc' = "down" THEN "down" ELSE "idle") /\ starting' = FALSE
    BY <1>3, Zenon DEF NotModified, MalformedContent, SaveRuleSet, FetchFails, Ends
  <2> QED
    BY <2>1
<1>4. CASE LoadBytes
  BY <1>4 DEF LoadBytes
<1>5. ASSUME NEW c \in Contents, Publish(c) PROVE UNCHANGED <<pc, starting>>
  BY <1>5 DEF Publish
<1> QED
  BY <1>1, <1>2, <1>3, <1>4, <1>5, Zenon DEF RuleSetStep, Fetch

(* ... and so keeps BoxInv.                                                 *)
LEMMA RuleSetStepInv ==
    ASSUME BoxInv, PartsInv, RuleSetStep
    PROVE  BoxInv'
<1>1. UNCHANGED <<phase, target, done, shut, stage, live, faults, ruled, faulty, running, result>>
  BY SameParts, Zenon DEF RuleSetStep, boxVars
<1>2. BoxTypes'
  BY <1>1 DEF BoxInv, BoxTypes
<1>3. IdleInv => IdleInv'
  BY <1>1, RuleSetAlone DEF IdleInv
<1>4. RuleSetUp => RuleSetUp'
  BY <1>1, RuleSetAlone DEF RuleSetUp
<1>5. StartingInv => StartingInv'
  BY <1>1, <1>4, RuleSetAlone DEF StartingInv, UpFrom
<1>6. (Serving' => Serving) /\ (Up => Up')
  BY <1>1, <1>4, Zenon DEF Serving, Up
<1>7. ClosingInv => ClosingInv'
  BY <1>1, <1>6, RuleSetAlone DEF ClosingInv
<1> QED
  BY <1>1, <1>2, <1>3, <1>5, <1>7, Zenon DEF BoxInv

(* Close of a part keeps BoxInv (box.go:507-544).                           *)
LEMMA ClosePartInv ==
    ASSUME BoxInv, PartsInv, ClosePart
    PROVE  BoxInv'
<1> DEFINE p == closeOrder[shut + 1]
<1>1. phase = "closing" /\ BoxTypes /\ ClosingInv
  BY DEF BoxInv, ClosePart
<1>2. shut \in 0..10 /\ shut' = shut + 1 /\ p \in Parts /\ UNCHANGED <<phase, target, done, ruled>>
  BY <1>1, CloseSteps DEF ClosePart, BoxTypes
<1>3. \/ Closes(p) /\ stage' = [stage EXCEPT ![p] = 0] /\ live' = live \ {p}
      \/ ~Closes(p) /\ UNCHANGED <<stage, live>>
  BY DEF ClosePart
<1>4. stage'[p] = 0 /\ \A q \in Parts : q # p => stage'[q] = stage[q] /\ (q \in live' <=> q \in live)
  BY <1>1, <1>2, <1>3 DEF Closes, BoxTypes
<1>5. /\ p = "endpoint" /\ Closes(p) => running' = running \ (Tags \ ByTag) /\ result' = "closed"
      /\ p = "outbound" /\ Closes(p) => running' = running \ ByTag /\ result' = "closed"
      /\ ~(p \in {"endpoint", "outbound"} /\ Closes(p)) => UNCHANGED <<running, result>>
  BY SameParts DEF ClosePart, CloseItems
<1>6. IF p = "router" THEN pc' = "down" ELSE UNCHANGED <<pc, starting>>
  BY SameParts DEF ClosePart, CloseRuleSet
<1> HIDE DEF p
<1>7. BoxTypes'
  BY <1>1, <1>2, <1>3 DEF BoxTypes
<1>8. (\A i \in 1..shut : stage[closeOrder[i]] = 0)'
  <2> SUFFICES ASSUME NEW i \in 1..shut + 1 PROVE stage'[closeOrder[i]] = 0
    BY <1>2
  <2>1. CASE i = shut + 1
    BY <1>4, <2>1 DEF p
  <2>2. CASE i \in 1..shut
    <3>1. stage[closeOrder[i]] = 0 /\ closeOrder[i] \in Parts
      BY <1>1, <1>2, <2>2, CloseSteps DEF ClosingInv
    <3> QED
      BY <1>4, <3>1
  <2> QED
    BY <1>2, <2>1, <2>2
<1>9. "endpoint" \in Parts /\ "outbound" \in Parts /\ "inbound" \in Parts /\ Needed \subseteq Parts
  BY DEF Parts, Managers, Needed
<1>10. (running \intersect ByTag # {} => stage["outbound"] # 0)'
  <2>1. CASE p = "outbound" /\ Closes(p)
    BY <1>5, <2>1
  <2>2. CASE p = "outbound" /\ ~Closes(p)
    BY <1>1, <1>3, <1>5, <2>2 DEF ClosingInv
  <2>3. CASE p # "outbound"
    BY <1>1, <1>4, <1>5, <1>9, <2>3 DEF ClosingInv
  <2> QED
    BY <2>1, <2>2, <2>3
<1>11. (running \ ByTag # {} => stage["endpoint"] # 0)'
  <2>0. running \subseteq Tags
    BY DEF PartsInv, OrderInv
  <2>1. CASE p = "endpoint" /\ Closes(p)
    BY <1>5, <2>0, <2>1
  <2>2. CASE p = "endpoint" /\ ~Closes(p)
    BY <1>1, <1>3, <1>5, <2>2 DEF ClosingInv
  <2>3. CASE p # "endpoint"
    BY <1>1, <1>4, <1>5, <1>9, <2>3 DEF ClosingInv
  <2> QED
    BY <2>1, <2>2, <2>3
<1>12. (shut >= 5 => pc = "down")'
  <2>1. shut = 4 => p = "router"
    BY CloseSteps DEF p
  <2> QED
    BY <1>1, <1>2, <1>6, <2>1 DEF ClosingInv
<1>13. (Serving => Up)'
  <2> SUFFICES ASSUME Serving' PROVE Up'
    OBVIOUS
  <2>1. p # "inbound"
    BY <1>4, <1>9 DEF Serving, Starts
  <2>2. Serving
    BY <1>4, <1>9, <2>1 DEF Serving
  <2>3. shut < 3
    BY <1>1, <1>2, <2>2, CloseSteps DEF ClosingInv, Serving, Starts
  <2>4. p \in {"service", "endpoint"}
    BY <1>2, <2>1, <2>3, CloseSteps DEF p
  <2>5. Up
    BY <1>1, <2>2 DEF ClosingInv
  <2>6. result' \in {"ok", "closed"} /\ (ByTag \subseteq running)'
    BY <1>5, <2>4, <2>5 DEF Up
  <2>7. (\A q \in Needed : q \in live /\ stage[q] >= Starts)'
    <3>1. p \notin Needed
      BY <2>4 DEF Needed
    <3> QED
      BY <1>4, <1>9, <2>5, <3>1 DEF Up
  <2>8. RuleSetUp'
    BY <1>2, <1>6, <2>4, <2>5 DEF Up, RuleSetUp
  <2> QED
    BY <2>6, <2>7, <2>8 DEF Up
<1> QED
  BY <1>1, <1>2, <1>7, <1>8, <1>10, <1>11, <1>12, <1>13 DEF BoxInv, ClosingInv

(* When Close has gone through all parts, nothing is left (box.go:507-544).  *)
LEMMA NothingLeft ==
    ASSUME BoxInv, phase = "closing", shut = 11
    PROVE  live = {} /\ running = {} /\ pc = "down"
<1>1. ClosingInv /\ BoxTypes
  BY DEF BoxInv
<1>2. \A q \in Parts : stage[q] = 0
  BY <1>1, CloseSteps DEF ClosingInv
<1>3. live = {}
  BY <1>1, <1>2 DEF BoxTypes
<1>4. running \intersect ByTag = {} /\ running \ ByTag = {}
  BY <1>1, <1>2 DEF ClosingInv, Parts, Managers
<1> QED
  BY <1>1, <1>3, <1>4 DEF ClosingInv

(* Every step of the box keeps BoxInv (box.go:407-544).                     *)
LEMMA BoxInvStep == BoxInv /\ PartsInv /\ [Next]_vars => BoxInv'
<1> SUFFICES ASSUME BoxInv, PartsInv, [Next]_vars PROVE BoxInv'
  OBVIOUS
<1>1. CASE Begin
  <2>1. /\ phase = "new" /\ phase' = "starting"
        /\ UNCHANGED <<target, done, shut, stage, live, ruled, running, result, pc, starting>>
    BY <1>1, SameParts, Zenon DEF Begin
  <2>2. BoxTypes' /\ IdleInv
    BY <2>1 DEF BoxInv, BoxTypes
  <2>3. "inbound" \in Parts
    BY DEF Parts, Managers
  <2>4. StartingInv'
    BY <2>1, <2>2, <2>3 DEF IdleInv, StartingInv, UpFrom, Starts
  <2> QED
    BY <2>1, <2>2, <2>4 DEF BoxInv
<1>2. ASSUME NEW p \in Parts, NEW s \in Initialize..Started, StartStage(p, s) PROVE BoxInv'
  BY <1>2, StageInv DEF Initialize, Started
<1>3. CASE StartOutbounds \/ OutboundsStarted
  BY <1>3, StartOutboundsInv
<1>4. CASE StartRuleSet \/ RuleSetStarted
  BY <1>4, StartRuleSetInv
<1>5. CASE Finish
  <2>1. /\ phase = "starting" /\ phase' = "started" /\ done = target
        /\ UNCHANGED <<target, done, shut, stage, live, ruled, running, result, pc, starting>>
    BY <1>5, SameParts, Zenon DEF Finish
  <2>2. BoxTypes' /\ StartingInv
    BY <2>1 DEF BoxInv, BoxTypes
  <2>3. StartingInv'
    BY <2>1, <2>2 DEF StartingInv, UpFrom, RuleSetUp
  <2> QED
    BY <2>1, <2>2, <2>3 DEF BoxInv
<1>6. CASE Close
  <2>1. /\ phase = "started" /\ phase' = "closing"
        /\ UNCHANGED <<target, done, shut, stage, live, ruled, running, result, pc, starting>>
    BY <1>6, SameParts, Zenon DEF Close
  <2>2. BoxTypes' /\ StartingInv /\ shut = 0
    BY <2>1 DEF BoxInv, BoxTypes
  <2>3. StartingInv'
    BY <2>1, <2>2 DEF StartingInv, UpFrom, RuleSetUp
  <2> QED
    BY <2>1, <2>2, <2>3, StartingClosesNext DEF BoxInv
<1>7. CASE ClosePart
  BY <1>7, ClosePartInv
<1>8. CASE Closed
  <2>1. /\ phase = "closing" /\ phase' = "closed" /\ shut = 11
        /\ UNCHANGED <<target, done, shut, stage, live, ruled, running, result, pc, starting>>
    BY <1>8, SameParts, CloseSteps, Zenon DEF Closed
  <2>2. BoxTypes'
    BY <2>1 DEF BoxInv, BoxTypes
  <2>3. IdleInv'
    BY <2>1, NothingLeft DEF IdleInv
  <2> QED
    BY <2>1, <2>2, <2>3 DEF BoxInv
<1>9. CASE Crash
  <2>1. /\ phase' = "closed" /\ stage' = [p \in Parts |-> 0] /\ live' = {}
        /\ running' = running \ Tags /\ UNCHANGED <<target, done, shut, ruled>>
    BY <1>9, Zenon DEF Crash, CloseItems
  <2>2. pc' = "down"
    BY <1>9, SameParts DEF Crash, CloseRuleSet
  <2>3. BoxTypes'
    BY <2>1 DEF BoxInv, BoxTypes
  <2>4. IdleInv'
    BY <2>1, <2>2 DEF IdleInv, PartsInv, OrderInv
  <2> QED
    BY <2>1, <2>3, <2>4 DEF BoxInv
<1>10. CASE New
  <2>1. /\ phase = "closed" /\ phase' = "new" /\ done' = 0 /\ shut' = 0
        /\ stage' = [p \in Parts |-> 0] /\ live' = {}
        /\ UNCHANGED <<target, ruled, pc, starting>>
    BY <1>10, SameParts, Zenon DEF New
  <2>2. running' = running
    BY <1>10, SameParts DEF New, NewManager
  <2>3. BoxTypes'
    BY <2>1 DEF BoxInv, BoxTypes
  <2>4. IdleInv'
    BY <2>1, <2>2 DEF BoxInv, IdleInv
  <2> QED
    BY <2>1, <2>3, <2>4 DEF BoxInv
<1>11. CASE RuleSetStep
  BY <1>11, RuleSetStepInv
<1>12. CASE UNCHANGED vars
  <2>1. UNCHANGED <<phase, target, done, shut, stage, live, ruled, running, result, pc, starting>>
    BY <1>12, SameParts, Zenon DEF vars, boxVars
  <2>2. BoxTypes'
    BY <2>1 DEF BoxInv, BoxTypes
  <2>3. (IdleInv => IdleInv') /\ (StartingInv => StartingInv')
    BY <2>1 DEF IdleInv, StartingInv, UpFrom, RuleSetUp
  <2>4. ClosingInv => ClosingInv'
    BY <2>1 DEF ClosingInv, Serving, Up, RuleSetUp
  <2> QED
    BY <2>1, <2>2, <2>3, <2>4, Zenon DEF BoxInv
<1> QED
  BY <1>1, <1>2, <1>3, <1>4, <1>5, <1>6, <1>7, <1>8, <1>9, <1>10, <1>11, <1>12, Zenon
     DEF Next, BoxStep

(* The box keeps its inductive invariant, and its parts theirs              *)
(* (box.go:407-544).                                                        *)
THEOREM BoxInvHolds == Spec => [](BoxInv /\ PartsInv)
<1>1. Init => BoxInv
  <2> SUFFICES ASSUME Init PROVE BoxInv
    OBVIOUS
  <2>1. /\ phase = "new" /\ target \in {17, 41} /\ done = 0 /\ shut = 0
        /\ stage = [p \in Parts |-> 0] /\ live = {} /\ ruled \in BOOLEAN
        /\ running = {} /\ pc = "down"
    BY StartSteps DEF Init, BoxInit, OrderInit, RuleSetInit
  <2> QED
    BY <2>1 DEF BoxInv, BoxTypes, IdleInv
<1>2. Init => LoadedInv
  BY DEF Init, RuleSetInit, LoadedInv
<1>3. RuleSetInv /\ LoadedInv /\ [Next]_vars => LoadedInv'
  BY LoadedInvStep, NextOfParts, Zenon DEF vars
<1>4. Spec => []OrderInv /\ []RuleSetInv
  BY ImplementsPartsHolds, OrderInvHolds, RuleSetInvHolds, PTL
<1>5. BoxInv /\ (OrderInv /\ RuleSetInv /\ LoadedInv) /\ [Next]_vars => BoxInv'
  BY BoxInvStep DEF PartsInv
<1>6. Spec => [](BoxInv /\ (OrderInv /\ RuleSetInv /\ LoadedInv))
  BY <1>1, <1>2, <1>3, <1>4, <1>5, PTL DEF Spec
<1>7. OrderInv /\ RuleSetInv /\ LoadedInv => PartsInv
  BY DEF PartsInv
<1> QED
  BY <1>6, <1>7, PTL

(* Whenever an inbound accepts connections there is all it takes to route    *)
(* one, in a start that fails, while the box closes and after any number of  *)
(* reloads and crashes (box.go:457-544).                                    *)
THEOREM ServesWhenReadyHolds == Spec => []ServesWhenReady
<1>1. BoxInv /\ PartsInv => ServesWhenReady
  <2> SUFFICES ASSUME BoxInv, PartsInv, Serving PROVE Up /\ (ruled => loaded # None)
    BY Zenon DEF ServesWhenReady, Serving, Up, Needed
  <2>1. phase \notin {"new", "closed"}
    BY DEF BoxInv, IdleInv, Serving
  <2>2. phase \in {"starting", "started"} => ClosingInv
    <3>1. phase \in {"starting", "started"} => BoxTypes /\ StartingInv /\ shut = 0
      BY DEF BoxInv, BoxTypes
    <3> QED
      BY <3>1, StartingCloses
  <2>3. Up
    BY <2>1, <2>2 DEF BoxInv, BoxTypes, ClosingInv
  <2>4. ruled => loaded # None
    BY <2>3, Zenon DEF Up, RuleSetUp, PartsInv, LoadedInv
  <2> QED
    BY <2>3, <2>4
<1> QED
  BY <1>1, BoxInvHolds, PTL

(* What runs, as Lifecycle sees it.                                         *)
Running == live \union running \union (IF pc = "down" THEN {} ELSE {"rule-set"})
AllParts == Parts \union Tags \union {"rule-set"}

(* Every step of the box is one of Lifecycle (box.go:407-544).              *)
LEMMA LifecycleStep ==
    BoxInv /\ PartsInv /\ BoxInv' /\ PartsInv' /\ [Next]_vars => [L!Next]_(L!state)
<1> SUFFICES ASSUME BoxInv, PartsInv, BoxInv', PartsInv', [Next]_vars
             PROVE  [L!Next]_<<phase, Running>>
  BY DEF L!state, Running
<1>0. BoxTypes /\ BoxTypes' /\ Running' \in SUBSET AllParts
  BY DEF BoxInv, BoxTypes, PartsInv, OrderInv, Running, AllParts
<1>a. phase = "new" /\ phase' = "starting" /\ UNCHANGED Running => L!Next
  BY DEF L!Next, L!Begin, L!To, Running
<1>b. phase = "starting" /\ phase' = "starting" => L!Next
  BY <1>0, Zenon DEF L!Next, L!Starting, L!To, Running, AllParts
<1>c. phase = "starting" /\ phase' = "started" /\ UNCHANGED Running => L!Next
  BY Zenon DEF L!Next, L!Ready, L!To, Running
<1>d. phase \in {"starting", "started"} /\ phase' = "closing" /\ UNCHANGED Running => L!Next
  <2>1. "rule-set" \in AllParts
    BY DEF AllParts
  <2> QED
    BY <2>1, Zenon DEF L!Next, L!Stop, L!To, Running, AllParts
<1>e. ASSUME NEW p \in Parts, phase = "starting", phase' = "closing", Running' = Running \union {p}
      PROVE  L!Next
  BY <1>e, Zenon DEF L!Next, L!Stop, L!To, Running, AllParts
<1>f. phase = "closing" /\ phase' = "closing" /\ Running' \subseteq Running => L!Next
  BY Zenon DEF L!Next, L!Closing, L!To, Running
<1>g. phase = "closing" /\ phase' = "closed" /\ Running = {} /\ UNCHANGED Running => L!Next
  BY Zenon DEF L!Next, L!Closed, L!To, Running
<1>h. phase \notin {"new", "closed"} /\ phase' = "closed" /\ Running' = {} => L!Next
  BY <1>0 DEF L!Next, L!Crash, L!To, Running, BoxTypes
<1>i. phase = "closed" /\ phase' = "new" /\ UNCHANGED Running => L!Next
  BY Zenon DEF L!Next, L!Renew, L!To, Running
<1>1. CASE Begin
  BY <1>1, <1>a, SameParts, Zenon DEF Begin, Running
<1>2. ASSUME NEW p \in Parts, NEW s \in Initialize..Started, StartStage(p, s) PROVE L!Next
  <2>1. phase = "starting" /\ phase' \in {"starting", "closing"}
    BY <1>2 DEF StartStage, At, Succeeds, Fails
  <2>2. live' \in {live, live \union {p}} /\ UNCHANGED <<running, pc>>
    BY <1>2, SameParts DEF StartStage, Enter
  <2>3. Running' \in {Running, Running \union {p}}
    BY <2>2 DEF Running
  <2> QED
    BY <2>1, <2>3, <1>b, <1>d, <1>e
<1>3. CASE StartOutbounds \/ StartRuleSet
  BY <1>3, <1>b DEF StartOutbounds, StartRuleSet, At
<1>4. CASE OutboundsStarted \/ RuleSetStarted
  <2>1. phase = "starting" /\ phase' \in {"starting", "closing"}
    BY <1>4 DEF OutboundsStarted, RuleSetStarted, At, Succeeds, Fails
  <2>2. UNCHANGED Running
    BY <1>4, SameParts, Zenon DEF OutboundsStarted, RuleSetStarted, Running
  <2> QED
    BY <2>1, <2>2, <1>b, <1>d
<1>5. CASE Finish
  BY <1>5, <1>c, SameParts, Zenon DEF Finish, Running
<1>6. CASE Close
  <2>1. phase = "started" /\ phase' = "closing" /\ UNCHANGED Running
    BY <1>6, SameParts, Zenon DEF Close, Running
  <2> QED
    BY <2>1, <1>d
<1>7. CASE ClosePart
  <2>1. phase = "closing" /\ phase' = "closing" /\ live' \subseteq live
    BY <1>7 DEF ClosePart
  <2>2. running' \subseteq running
    BY <1>7, SameParts DEF ClosePart, CloseItems
  <2>3. pc' \in {pc, "down"}
    BY <1>7, SameParts DEF ClosePart, CloseRuleSet
  <2> QED
    BY <2>1, <2>2, <2>3, <1>f DEF Running
<1>8. CASE Closed
  <2>1. phase = "closing" /\ phase' = "closed" /\ shut = 11 /\ UNCHANGED Running
    BY <1>8, SameParts, CloseSteps, Zenon DEF Closed, Running
  <2>2. Running = {}
    BY <2>1, NothingLeft DEF Running
  <2> QED
    BY <2>1, <2>2, <1>g
<1>9. CASE Crash
  <2>1. phase \notin {"new", "closed"} /\ phase' = "closed"
    BY <1>9 DEF Crash
  <2>2. Running' = {}
    BY <2>1 DEF BoxInv, IdleInv, Running
  <2> QED
    BY <2>1, <2>2, <1>h
<1>10. CASE New
  <2>1. phase = "closed" /\ phase' = "new"
    BY <1>10 DEF New
  <2>2. Running = {} /\ Running' = {}
    BY <2>1 DEF BoxInv, IdleInv, Running
  <2> QED
    BY <2>1, <2>2, <1>i
<1>11. CASE RuleSetStep
  <2>1. UNCHANGED <<phase, live, running, ruled>>
    BY <1>11, SameParts, Zenon DEF RuleSetStep, boxVars
  <2>2. CASE phase \in {"new", "closed"}
    BY <2>1, <2>2 DEF BoxInv, IdleInv, Running
  <2>3. CASE phase = "starting"
    BY <2>1, <2>3, <1>b
  <2>4. CASE phase = "started"
    <3>1. RuleSetUp /\ ruled
      BY <1>11, <2>4 DEF BoxInv, BoxTypes, StartingInv, RuleSetStep
    <3>2. pc # "down" /\ pc' # "down"
      BY <1>11, <3>1, RuleSetAlone DEF RuleSetUp
    <3> QED
      BY <2>1, <3>2 DEF Running
  <2>5. CASE phase = "closing"
    BY <1>11, <2>1, <2>5, <1>f, RuleSetAlone DEF Running
  <2> QED
    BY <1>0, <2>2, <2>3, <2>4, <2>5 DEF BoxTypes
<1>12. CASE UNCHANGED vars
  BY <1>12, SameParts, Zenon DEF vars, boxVars, Running
<1> QED
  BY <1>1, <1>2, <1>3, <1>4, <1>5, <1>6, <1>7, <1>8, <1>9, <1>10, <1>11, <1>12, Zenon
     DEF Next, BoxStep

(* The box keeps the safety of Lifecycle: nothing comes up after Close has   *)
(* begun, and nothing is left when it has ended, whatever fails or crashes   *)
(* (box.go:407-544).                                                        *)
THEOREM KeepsLifecycle == Spec => L!Safety
<1>1. Init => L!Init
  BY DEF Init, BoxInit, OrderInit, RuleSetInit, L!Init
<1> QED
  BY <1>1, LifecycleStep, BoxInvHolds, PTL DEF Spec, L!Safety
=============================================================================
