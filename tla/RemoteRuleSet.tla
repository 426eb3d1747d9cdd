--------------------------- MODULE RemoteRuleSet ---------------------------
(***************************************************************************)
(* A remote rule-set (route/rule/rule_set_remote.go): restored from the      *)
(* cache file or fetched when it starts, and fetched again on every tick     *)
(* with the entity tag of the last answer, which lets the server say that    *)
(* nothing has changed.                                                     *)
(***************************************************************************)
EXTENDS Naturals

CONSTANTS
    Contents,   \* what the server may have under the URL
    Malformed,  \* contents that do not parse
    EtagOf,     \* the entity tag the server sends with each, or None
    Referenced, \* whether a rule refers to the rule-set (refs # 0)
    MaxErrors,  \* bound: failed requests
    MaxChanges, \* bound: changes on the server
    None

(* The server has tags for all contents or for none, and they differ.       *)
ASSUME RemoteRuleSetConstants ==
    /\ Malformed \subseteq Contents /\ None \notin Contents
    /\ None \notin [content : Contents, etag : {EtagOf[c] : c \in Contents} \union {None},
       updated : Contents]
    /\ None \notin [status : {"ok", "not modified"}, content : Contents]
    /\ \A c, d \in Contents : EtagOf[c] = EtagOf[d] => c = d \/ EtagOf[c] = None
    /\ (\A c \in Contents : EtagOf[c] = None) \/ (\A c \in Contents : EtagOf[c] # None)

VARIABLES
    server,    \* the content on the server
    changes,   \* changes so far
    errors,    \* failed requests so far
    disk,      \* the saved rule-set in the cache file, or None
    loaded,    \* the content loadBytes built rules from last, and told the callbacks of
    rules,     \* what RemoteRuleSet.rules are built from; None when they are nil
    lastEtag,  \* RemoteRuleSet.lastEtag
    lastUpdated, \* the content known to be on the server at lastUpdated, or None
    pc,        \* "down", "initial", "idle", "sent", "answered", "save"
    starting,  \* the fetch is the one of StartContext
    answer,    \* the response: its status, and what was on the server; or None
    unsaved    \* the last content that was loaded could not be saved

ruleSetVars == <<server, changes, errors, disk, loaded, rules, lastEtag, lastUpdated, pc, starting,
          answer, unsaved>>

Etags == {EtagOf[c] : c \in Contents} \union {None}
Saved == [content : Contents, etag : Etags, updated : Contents]
Answers == [status : {"ok", "not modified"}, content : Contents]

RuleSetTypeOK ==
    /\ server \in Contents
    /\ changes \in Nat /\ errors \in Nat
    /\ disk = None \/ disk \in Saved
    /\ loaded \in (Contents \ Malformed) \union {None}
    /\ rules \in {loaded, None}
    /\ lastEtag \in Etags
    /\ lastUpdated \in Contents \union {None}
    /\ pc \in {"down", "initial", "idle", "sent", "answered", "save"}
    /\ starting \in BOOLEAN
    /\ answer = None \/ answer \in Answers
    /\ unsaved \in BOOLEAN

RuleSetInit ==
    /\ server \in Contents
    /\ changes = 0 /\ errors = 0
    /\ disk = None /\ loaded = None /\ rules = None /\ lastEtag = None /\ lastUpdated = None
    /\ pc = "down" /\ starting = FALSE /\ answer = None
    /\ unsaved = FALSE

-----------------------------------------------------------------------------
(* Rules nobody refers to are dropped once the callbacks have seen them:     *)
(* Cleanup when the router has started, loopUpdate and updateOnce later.    *)
Kept(content) == IF Referenced THEN content ELSE None

(* StartContext: the saved rule-set is loaded, or the first fetch begins.   *)
StartContext ==
    /\ pc = "down"
    /\ IF disk = None
       THEN /\ pc' = "initial" /\ starting' = TRUE
            /\ UNCHANGED <<loaded, rules, lastEtag, lastUpdated>>
       ELSE /\ loaded' = disk.content /\ rules' = Kept(disk.content)
            /\ lastEtag' = disk.etag
            /\ lastUpdated' = disk.updated
            /\ pc' = "idle" /\ UNCHANGED starting
    /\ UNCHANGED <<server, changes, errors, disk, answer, unsaved>>

(* loopUpdate: the rule-set is out of date, or the ticker fires.            *)
LoopUpdate ==
    /\ pc = "idle"
    /\ pc' = "sent"
    /\ UNCHANGED <<server, changes, errors, disk, loaded, rules, lastEtag, lastUpdated, starting,
                   answer, unsaved>>

(* httpClient.Do with If-None-Match, and the answer of the server.          *)
Do ==
    /\ pc \in {"initial", "sent"}
    /\ pc' = "answered"
    /\ answer' = [status |-> IF lastEtag # None /\ lastEtag = EtagOf[server]
                               THEN "not modified" ELSE "ok",
                    content |-> server]
    /\ UNCHANGED <<server, changes, errors, disk, loaded, rules, lastEtag, lastUpdated, starting,
                   unsaved>>

(* The end of a fetch: with an error the first one ends the start.          *)
Ends(ok) ==
    /\ pc' = IF starting /\ ~ok THEN "down" ELSE "idle"
    /\ starting' = FALSE
    /\ answer' = None

(* No answer, another status, or a body that breaks off.                    *)
FetchFails ==
    /\ pc \in {"initial", "sent", "answered"} /\ errors < MaxErrors
    /\ errors' = errors + 1
    /\ Ends(FALSE)
    /\ UNCHANGED <<server, changes, disk, loaded, rules, lastEtag, lastUpdated, unsaved>>

(* StatusNotModified: only the time is saved, with what the file has.       *)
NotModified ==
    /\ pc = "answered" /\ answer.status = "not modified"
    /\ lastUpdated' = answer.content
    /\ \/ disk' = IF disk = None THEN None ELSE [disk EXCEPT !.updated = answer.content]
       \/ UNCHANGED disk
    /\ rules' = Kept(rules)
    /\ Ends(TRUE)
    /\ UNCHANGED <<server, changes, errors, loaded, lastEtag, unsaved>>

(* Mutant: the tag is kept before the content is known to parse.            *)
MutMalformed ==
    /\ pc = "answered" /\ answer.status = "ok" /\ answer.content \in Malformed
    /\ lastEtag' = EtagOf[answer.content]
    /\ Ends(FALSE)
    /\ UNCHANGED <<server, changes, errors, disk, loaded, rules, lastUpdated, unsaved>>

(* loadBytes returns an error: nothing is changed.                          *)
MalformedContent ==
    /\ pc = "answered" /\ answer.status = "ok" /\ answer.content \in Malformed
    /\ Ends(FALSE)
    /\ UNCHANGED <<server, changes, errors, disk, loaded, rules, lastEtag, lastUpdated, unsaved>>

(* The last tag once a content is loaded: its own, if the answer has one.   *)
TagAfter(content) == IF EtagOf[content] # None THEN EtagOf[content] ELSE lastEtag

(* Mutant: the tag of the answer is not kept.                               *)
MutLoadBytes ==
    /\ pc = "answered" /\ answer.status = "ok" /\ answer.content \in Contents \ Malformed
    /\ loaded' = answer.content /\ rules' = answer.content
    /\ lastEtag' = IF lastEtag = None THEN EtagOf[answer.content] ELSE lastEtag
    /\ lastUpdated' = answer.content
    /\ pc' = "save"
    /\ UNCHANGED <<server, changes, errors, disk, starting, answer, unsaved>>

(* loadBytes, and the tag if the answer has one.                            *)
LoadBytes ==
    /\ pc = "answered" /\ answer.status = "ok" /\ answer.content \in Contents \ Malformed
    /\ loaded' = answer.content /\ rules' = answer.content
    /\ lastEtag' = TagAfter(answer.content)
    /\ lastUpdated' = answer.content
    /\ pc' = "save"
    /\ UNCHANGED <<server, changes, errors, disk, starting, answer, unsaved>>

(* SaveRuleSet; its error is only logged.                                   *)
SaveRuleSet ==
    /\ pc = "save"
    /\ \/ /\ disk' = [content |-> answer.content, etag |-> lastEtag, updated |-> lastUpdated]
          /\ unsaved' = FALSE
       \/ UNCHANGED disk /\ unsaved' = TRUE
    /\ rules' = Kept(rules)
    /\ Ends(TRUE)
    /\ UNCHANGED <<server, changes, errors, loaded, lastEtag, lastUpdated>>

(* Nothing stops a fetch that has its answer: it may still be saved before   *)
(* the cache file is closed.                                                *)
LateSave ==
    \/ UNCHANGED <<disk, unsaved>>
    \/ /\ pc \in {"answered", "save"}
       /\ answer.status = "ok" /\ answer.content \notin Malformed
       /\ disk' = [content |-> answer.content, etag |-> TagAfter(answer.content),
                   updated |-> answer.content]
       /\ unsaved' = FALSE

(* Close, or the end of the process at any point.                           *)
CloseRuleSet ==
    /\ pc # "down"
    /\ LateSave
    /\ pc' = "down" /\ starting' = FALSE /\ answer' = None
    /\ loaded' = None /\ rules' = None /\ lastEtag' = None /\ lastUpdated' = None
    /\ UNCHANGED <<server, changes, errors>>

(* The rule-set is published anew.                                          *)
Publish(c) ==
    /\ changes < MaxChanges /\ c # server
    /\ server' = c /\ changes' = changes + 1
    /\ UNCHANGED <<errors, disk, loaded, rules, lastEtag, lastUpdated, pc, starting, answer,
                   unsaved>>

Fetch == Do \/ NotModified \/ MalformedContent \/ LoadBytes \/ SaveRuleSet

RuleSetNext ==
    \/ StartContext \/ LoopUpdate \/ Fetch \/ FetchFails \/ CloseRuleSet
    \/ \E c \in Contents : Publish(c)

RuleSetSpec == RuleSetInit /\ [][RuleSetNext]_ruleSetVars

-----------------------------------------------------------------------------
(* The tag a request carries is that of the content the rules were built     *)
(* from, so "not modified" never vouches for other rules: through malformed  *)
(* answers, failed saves and restarts (rule_set_remote.go:98-106, 258-310). *)
EtagIsOfRules ==
    /\ lastEtag # None => loaded # None /\ EtagOf[loaded] = lastEtag
    /\ disk # None => disk.etag = EtagOf[disk.content]

(* The time saved is one at which the saved content was on the server, so a  *)
(* restart takes no stale rules for recent ones, unless the last content     *)
(* that was loaded could not be saved (rule_set_remote.go:267-281, 300-310). *)
SavedTimeIsOfContent ==
    ~unsaved /\ disk # None => disk.updated = disk.content

(* Both, for the rule-set that runs and for the one a restart finds          *)
(* (rule_set_remote.go:98-106, 258-310).                                    *)
SavedIsOfServer == EtagIsOfRules /\ SavedTimeIsOfContent

(* What makes them inductive: an answer kept for saving is the one just    *)
(* loaded, "not modified" is an answer about the loaded content, and unless  *)
(* a save fails the file has what is loaded whenever no save is under way    *)
(* (rule_set_remote.go:258-310).                                             *)
RuleSetInv ==
    /\ RuleSetTypeOK /\ SavedIsOfServer
    /\ pc \in {"answered", "save"} => answer \in Answers
    /\ pc = "save" => /\ loaded = answer.content /\ lastUpdated = loaded
                      /\ lastEtag = EtagOf[loaded]
    /\ pc = "answered" /\ answer.status = "not modified" =>
            lastEtag # None /\ lastEtag = EtagOf[answer.content]
    /\ pc = "initial" => disk = None
    /\ ~unsaved /\ disk # None /\ pc \in {"idle", "sent", "answered"} => disk.content = loaded
    /\ disk # None => disk.content \notin Malformed

(* When the server keeps a well-formed content and answers again, the rules  *)
(* are built from it in the end (rule_set_remote.go:205-313).               *)
CatchesUp ==
    \A c \in Contents \ Malformed :
        <>[](server = c) => <>[](loaded = c /\ (Referenced => rules = c))
=============================================================================
