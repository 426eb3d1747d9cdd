------------------------------- MODULE FakeIP -------------------------------
(***************************************************************************)
(* The FakeIP store (dns/transport/fakeip/store.go) on the cache file       *)
(* (experimental/cachefile/fakeip.go), across clean exits, crashes and      *)
(* changes of the configured ranges.  A bbolt transaction is one action.    *)
(* An address is <<range, family, offset>>: offset 0 is the base of the     *)
(* range, Size - 1 its last address.                                        *)
(***************************************************************************)
EXTENDS Naturals, Sequences, FiniteSets

CONSTANTS
    Domains,
    Ranges,     \* the values the configured address ranges may have
    Families,   \* {"domain4", "domain6"}, as their buckets are called
    Used,       \* the families that are ever asked for
    Size,       \* addresses in a range
    Creators,   \* goroutines that call Create
    None

ASSUME FakeIPConstants ==
    /\ Size \in Nat /\ Size >= 3
    /\ Used \subseteq Families
    /\ "address" \notin Families
    /\ None \notin Domains
    /\ None \notin Domains \X Families
    /\ None \notin Ranges \X Families \X (0 .. Size - 1)

VARIABLES
    phase,      \* of the process: "down", "reset" and "running" in Start's order, "closed"
    range,      \* Store.inet4Range and inet6Range
    current,    \* Store.inet4Current and inet6Current, as offsets
    pc,         \* where each creator is in Create
    want,       \* what it was asked for, while it misses
    answer,     \* what its last Create returned
    timer,      \* CacheFile.saveMetadataTimer: the metadata its function captured, or None
    armed,      \* is the timer running
    buckets,    \* disk: which of "address" and the domain buckets exist
    domainOf,   \* disk: bucket fakeip_address
    addressOf,  \* disk: buckets fakeip_domain4 and fakeip_domain6
    metadata,   \* disk: the key fakeip_metadata, None if absent
    recent      \* the last addresses allocated from a range without losing the position

disk == <<buckets, domainOf, addressOf, metadata>>
vars == <<phase, range, current, pc, want, answer, timer, armed, disk, recent>>

Offsets == 0 .. Size - 1
Addresses == Ranges \X Families \X Offsets
First == 2                       \* Addr().Next().Next()
Usable == Size - First           \* how many addresses a range has to give
Metadata == [range : Ranges, current : [Families -> Offsets]]

TypeOK ==
    /\ phase \in {"down", "reset", "running", "closed"}
    /\ range \in Ranges
    /\ current \in [Families -> Offsets]
    /\ pc \in [Creators -> {"idle", "missed", "store"}]
    /\ want \in [Creators -> (Domains \X Families) \union {None}]
    /\ answer \in [Creators -> Addresses \union {None}]
    /\ timer \in Metadata \union {None} /\ armed \in BOOLEAN
    /\ buckets \subseteq {"address"} \union Families
    /\ domainOf \in [Addresses -> Domains \union {None}]
    /\ addressOf \in [Families -> [Domains -> Addresses \union {None}]]
    /\ metadata \in Metadata \union {None}

Init ==
    /\ phase = "down"
    /\ range \in Ranges
    /\ current = [f \in Families |-> First]
    /\ pc = [p \in Creators |-> "idle"]
    /\ want = [p \in Creators |-> None]
    /\ answer = [p \in Creators |-> None]
    /\ timer = None /\ armed = FALSE
    /\ buckets = {}
    /\ domainOf = [a \in Addresses |-> None]
    /\ addressOf = [f \in Families |-> [d \in Domains |-> None]]
    /\ metadata = None
    /\ recent = [f \in Families |-> <<>>]

-----------------------------------------------------------------------------
(* CacheFile.FakeIPReset: DeleteBucket fails for a bucket that does not      *)
(* exist, and then the transaction is rolled back.                          *)
FakeIPReset ==
    IF buckets = {"address"} \union Families
    THEN /\ buckets' = {}
         /\ domainOf' = [a \in Addresses |-> None]
         /\ addressOf' = [f \in Families |-> [d \in Domains |-> None]]
         /\ metadata' = None
    ELSE UNCHANGED disk

Matches(r) == metadata # None /\ metadata.range = r

(* Store.Start: FakeIPMetadata reads the metadata and deletes it.  With the  *)
(* same ranges the store goes on where it stopped ...                       *)
StartResume(r) ==
    /\ phase = "down" /\ Matches(r)
    /\ phase' = "running" /\ range' = r
    /\ current' = metadata.current
    /\ metadata' = None
    /\ recent' = IF metadata = [range |-> range, current |-> current]
                 THEN recent ELSE [f \in Families |-> <<>>]
    /\ UNCHANGED <<pc, want, answer, timer, armed, buckets, domainOf, addressOf>>

(* ... and otherwise it starts from the beginning,                          *)
StartFresh(r) ==
    /\ phase = "down" /\ ~Matches(r)
    /\ phase' = "reset" /\ range' = r
    /\ current' = [f \in Families |-> First]
    /\ metadata' = None
    /\ recent' = [f \in Families |-> <<>>]
    /\ UNCHANGED <<pc, want, answer, timer, armed, buckets, domainOf, addressOf>>

(* after a reset whose error is ignored.                                    *)
StartReset ==
    /\ phase = "reset" /\ phase' = "running"
    /\ FakeIPReset
    /\ UNCHANGED <<range, current, pc, want, answer, timer, armed, recent>>

-----------------------------------------------------------------------------
(* Create: the load before the lock answers, or misses.                     *)
CreateLoad(p, d, f) ==
    /\ phase = "running" /\ pc[p] = "idle"
    /\ IF addressOf[f][d] # None
       THEN answer' = [answer EXCEPT ![p] = addressOf[f][d]] /\ UNCHANGED <<pc, want>>
       ELSE /\ pc' = [pc EXCEPT ![p] = "missed"] /\ want' = [want EXCEPT ![p] = <<d, f>>]
            /\ answer' = [answer EXCEPT ![p] = None]
    /\ UNCHANGED <<phase, range, current, timer, armed, disk, recent>>

LockFree == \A p \in Creators : pc[p] # "store"
Up == phase \in {"running", "closed"}

(* Mutant: the counter sticks to the end of the range.                      *)
MutNextOffsetSticks(i) == IF i + 1 \in Offsets THEN i + 1 ELSE i

NextOffset(i) == IF i + 1 \in Offsets THEN i + 1 ELSE First

(* The address just allocated joins the last Usable - 1 ones.               *)
Remember(f, a) ==
    LET longer == Append(recent[f], a) IN
    recent' = [recent EXCEPT ![f] = IF Len(longer) < Usable THEN longer ELSE Tail(longer)]

(* The second load, under addressAccess, answers, or the next address is     *)
(* taken.                                                                   *)
CreateFound(p) ==
    LET known == addressOf[want[p][2]][want[p][1]] IN
    /\ Up /\ pc[p] = "missed" /\ LockFree /\ known # None
    /\ pc' = [pc EXCEPT ![p] = "idle"] /\ want' = [want EXCEPT ![p] = None]
    /\ answer' = [answer EXCEPT ![p] = known]
    /\ UNCHANGED <<phase, range, current, timer, armed, disk, recent>>

CreateAllocate(p) ==
    LET f == want[p][2]
        i == NextOffset(current[f]) IN
    /\ Up /\ pc[p] = "missed" /\ LockFree
    /\ addressOf[f][want[p][1]] = None
    /\ pc' = [pc EXCEPT ![p] = "store"]
    /\ current' = [current EXCEPT ![f] = i]
    /\ Remember(f, <<range, f, i>>)
    /\ UNCHANGED <<phase, range, want, answer, timer, armed, disk>>

(* CacheFile.FakeIPStore, one transaction: the domain that had the address   *)
(* loses it.                                                                *)
(* Mutant: it keeps it.                                                     *)
MutFakeIPStore(d, f, a) ==
    /\ buckets' = buckets \union {"address", f}
    /\ domainOf' = [domainOf EXCEPT ![a] = d]
    /\ addressOf' = [addressOf EXCEPT ![f] = [@ EXCEPT ![d] = a]]
    /\ UNCHANGED metadata

FakeIPStore(d, f, a) ==
    /\ buckets' = buckets \union {"address", f}
    /\ domainOf' = [domainOf EXCEPT ![a] = d]
    /\ addressOf' = [addressOf EXCEPT ![f] =
                        [e \in Domains |-> IF e = d THEN a
                                           ELSE IF e = domainOf[a] THEN None ELSE @[e]]]
    /\ UNCHANGED metadata

(* Store, FakeIPSaveMetadataAsync and unlock: the first call makes the timer *)
(* with the metadata of that moment, every other one only restarts it.      *)
CreateStore(p) ==
    LET d == want[p][1]
        f == want[p][2]
        a == <<range, f, current[f]>> IN
    /\ Up /\ pc[p] = "store"
    /\ pc' = [pc EXCEPT ![p] = "idle"] /\ want' = [want EXCEPT ![p] = None]
    /\ answer' = [answer EXCEPT ![p] = a]
    /\ FakeIPStore(d, f, a)
    /\ timer' = IF timer = None THEN [range |-> range, current |-> current] ELSE timer
    /\ armed' = TRUE
    /\ UNCHANGED <<phase, range, current, recent>>

TimerFires ==
    /\ Up /\ armed
    /\ armed' = FALSE
    /\ metadata' = timer
    /\ buckets' = buckets \union {"address"}
    /\ UNCHANGED <<phase, range, current, pc, want, answer, timer, domainOf, addressOf, recent>>

(* The Clash API flushes the cache (clashapi/cache.go).                     *)
Flush ==
    /\ Up
    /\ FakeIPReset
    /\ UNCHANGED <<phase, range, current, pc, want, answer, timer, armed, recent>>

-----------------------------------------------------------------------------
(* Store.Close saves the position; the cache file is closed later.          *)
Close ==
    /\ phase = "running" /\ LockFree
    /\ phase' = "closed"
    /\ metadata' = [range |-> range, current |-> current]
    /\ buckets' = buckets \union {"address"}
    /\ UNCHANGED <<range, current, pc, want, answer, timer, armed, domainOf, addressOf, recent>>

(* The process ends: after Close, or before it.                             *)
Exit ==
    /\ phase # "down"
    /\ phase' = "down"
    /\ pc' = [p \in Creators |-> "idle"]
    /\ want' = [p \in Creators |-> None] /\ answer' = [p \in Creators |-> None]
    /\ timer' = None /\ armed' = FALSE
    /\ UNCHANGED <<range, current, disk, recent>>

Next ==
    \/ \E r \in Ranges : StartResume(r) \/ StartFresh(r)
    \/ StartReset \/ TimerFires \/ Flush \/ Close \/ Exit
    \/ \E p \in Creators :
          \/ \E d \in Domains, f \in Used : CreateLoad(p, d, f)
          \/ CreateFound(p) \/ CreateAllocate(p) \/ CreateStore(p)

Spec == Init /\ [][Next]_vars

-----------------------------------------------------------------------------
(* The two directions of the mapping agree, whatever crashes, concurrent     *)
(* calls of Create, wrap-arounds and resets happen in between: the address   *)
(* Create answers with leads Lookup back to the same domain, and no address  *)
(* belongs to two domains (store.go:82-132, cachefile/fakeip.go:71-97).     *)
MappingsAreInverse ==
    \A a \in Addresses, d \in Domains : domainOf[a] = d <=> addressOf[a[2]][d] = a

(* A range is handed out round by round: an address is not taken from its    *)
(* domain before every other usable address has been allocated, also across  *)
(* a restart that recovers the position (store.go:95-116).                  *)
NoEarlyReuse ==
    [][\A p \in Creators :
          pc[p] = "missed" /\ pc'[p] = "store" =>
              LET f == want[p][2] IN
              \A i \in 1 .. Len(recent[f]) : recent[f][i] # <<range, f, current'[f]>>]_vars

(* The inductive invariant: Create stores under the lock what is still       *)
(* without an address, and nobody else allocates meanwhile.                 *)
IndInv ==
    /\ TypeOK
    /\ MappingsAreInverse
    /\ \A p \in Creators : pc[p] # "idle" => want[p] # None
    /\ \A p \in Creators : pc[p] = "store" => addressOf[want[p][2]][want[p][1]] = None
    /\ \A p, q \in Creators : pc[p] = "store" /\ pc[q] = "store" => p = q

(* Create answers with addresses of the configured range only.              *)
AnswersInRange ==
    [][\A p \in Creators : answer'[p] \notin {None, answer[p]} => answer'[p][1] = range]_vars
=============================================================================
