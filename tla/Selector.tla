------------------------------ MODULE Selector ------------------------------
(***************************************************************************)
(* The selector outbound (protocol/group/selector.go) with its interrupt    *)
(* group (common/interrupt) and the selection kept in the cache file        *)
(* (experimental/cachefile/cache.go).  The Clash API and the daemon call    *)
(* SelectOutbound from several goroutines, while connections are dialed.    *)
(***************************************************************************)
EXTENDS Naturals, FiniteSets

CONSTANTS
    Outbounds,          \* Selector.outbounds, with tags as keys
    Default,            \* the default tag, or the first one
    Callers,            \* goroutines in SelectOutbound
    Conns,              \* connections, each made once
    InterruptExternal,  \* Selector.interruptExternalConnections
    None

ASSUME SelectorConstants ==
    /\ Default \in Outbounds /\ None \notin Outbounds
    /\ InterruptExternal \in BOOLEAN

VARIABLES
    selected,   \* Selector.selected, None before Start
    stored,     \* disk: the bucket "selected" of this group, None if absent
    pc,         \* SelectOutbound of each caller: "idle", "store", "interrupt"
    target,     \* the outbound it selects
    conn,       \* each connection: "none", "dialing", "dialed", "open", "closed"
    via,        \* the outbound it was dialed with
    external,   \* it carries a connection of an inbound
    group,      \* the interrupt group
    late,       \* connections that were being dialed while others were interrupted
    unsaved     \* the last selection was made while another one was still to be stored,
                \* or its own write failed

vars == <<selected, stored, pc, target, conn, via, external, group, late, unsaved>>

TypeOK ==
    /\ selected \in Outbounds \union {None}
    /\ stored \in Outbounds \union {None}
    /\ pc \in [Callers -> {"idle", "store", "interrupt"}]
    /\ target \in [Callers -> Outbounds \union {None}]
    /\ conn \in [Conns -> {"none", "dialing", "dialed", "open", "closed"}]
    /\ via \in [Conns -> Outbounds \union {None}]
    /\ external \subseteq Conns /\ group \subseteq Conns /\ late \subseteq Conns
    /\ unsaved \in BOOLEAN

Init ==
    /\ selected = None /\ stored = None
    /\ pc = [c \in Callers |-> "idle"]
    /\ target = [c \in Callers |-> None]
    /\ conn = [x \in Conns |-> "none"]
    /\ via = [x \in Conns |-> None]
    /\ external = {} /\ group = {} /\ late = {}
    /\ unsaved = FALSE

StoredOrDefault == IF stored # None THEN stored ELSE Default

(* Start: the stored selection if there is one, else the default.           *)
Start ==
    /\ selected = None
    /\ selected' = StoredOrDefault
    /\ UNCHANGED <<stored, pc, target, conn, via, external, group, late, unsaved>>

-----------------------------------------------------------------------------
(* Mutant: the connections are not interrupted until the next selection.    *)
MutSelectInterrupt(c) ==
    /\ pc[c] = "interrupt"
    /\ pc' = [pc EXCEPT ![c] = "idle"]
    /\ target' = [target EXCEPT ![c] = None]
    /\ UNCHANGED <<selected, stored, conn, via, external, group, late, unsaved>>

(* SelectOutbound: Swap, and nothing more if the outbound was selected.     *)
SelectSwap(c, o) ==
    /\ selected # None
    /\ pc[c] = "idle"
    /\ selected' = o
    /\ IF selected = o THEN UNCHANGED <<pc, target, unsaved>>
       ELSE /\ pc' = [pc EXCEPT ![c] = "store"]
            /\ target' = [target EXCEPT ![c] = o]
            /\ unsaved' = \E d \in Callers : pc[d] = "store"
    /\ UNCHANGED <<stored, conn, via, external, group, late>>

(* Mutant: the selection is stored only if there was none.                  *)
MutSelectStore(c) ==
    /\ pc[c] = "store"
    /\ pc' = [pc EXCEPT ![c] = "interrupt"]
    /\ stored' = IF stored = None THEN target[c] ELSE stored
    /\ UNCHANGED <<selected, target, conn, via, external, group, late, unsaved>>

(* CacheFile.StoreSelected, one transaction; an error is only logged.       *)
SelectStore(c) ==
    /\ pc[c] = "store"
    /\ pc' = [pc EXCEPT ![c] = "interrupt"]
    /\ \/ stored' = target[c] /\ UNCHANGED unsaved
       \/ stored' = stored /\ unsaved' = TRUE
    /\ UNCHANGED <<selected, target, conn, via, external, group, late>>

(* Group.Interrupt, under the lock of the group.                            *)
SelectInterrupt(c) ==
    LET hit == {x \in group : x \notin external \/ InterruptExternal} IN
    /\ pc[c] = "interrupt"
    /\ pc' = [pc EXCEPT ![c] = "idle"]
    /\ target' = [target EXCEPT ![c] = None]
    /\ conn' = [x \in Conns |-> IF x \in hit THEN "closed" ELSE conn[x]]
    /\ group' = group \ hit
    /\ late' = late \union {x \in Conns : conn[x] \in {"dialing", "dialed"}}
    /\ UNCHANGED <<selected, stored, via, external, unsaved>>

-----------------------------------------------------------------------------
(* DialContext and ListenPacket: selected is loaded, the outbound dials, and *)
(* NewConn puts the connection into the group.  Internal connections come    *)
(* here, and those of inbounds that reach this selector through another      *)
(* group.                                                                   *)
DialContext(x, ext) ==
    /\ selected # None /\ conn[x] = "none"
    /\ conn' = [conn EXCEPT ![x] = "dialing"]
    /\ via' = [via EXCEPT ![x] = selected]
    /\ external' = IF ext THEN external \union {x} ELSE external
    /\ UNCHANGED <<selected, stored, pc, target, group, late, unsaved>>

Dialed(x) ==
    /\ conn[x] = "dialing"
    /\ \/ conn' = [conn EXCEPT ![x] = "dialed"]
       \/ conn' = [conn EXCEPT ![x] = "closed"]
    /\ UNCHANGED <<selected, stored, pc, target, via, external, group, late, unsaved>>

NewConn(x) ==
    /\ conn[x] = "dialed"
    /\ conn' = [conn EXCEPT ![x] = "open"]
    /\ group' = group \union {x}
    /\ UNCHANGED <<selected, stored, pc, target, via, external, late, unsaved>>

(* NewConnectionEx and NewPacketConnectionEx: the connection of an inbound   *)
(* is handed to the connection manager with the selected outbound as its     *)
(* dialer.                                                                  *)
NewConnectionEx(x) ==
    /\ selected # None /\ conn[x] = "none"
    /\ conn' = [conn EXCEPT ![x] = "open"]
    /\ via' = [via EXCEPT ![x] = selected]
    /\ external' = external \union {x}
    /\ UNCHANGED <<selected, stored, pc, target, group, late, unsaved>>

(* Conn.Close                                                               *)
Close(x) ==
    /\ conn[x] = "open"
    /\ conn' = [conn EXCEPT ![x] = "closed"]
    /\ group' = group \ {x}
    /\ UNCHANGED <<selected, stored, pc, target, via, external, late, unsaved>>

(* The process ends, at any point, and starts again.                        *)
Restart ==
    /\ selected # None
    /\ selected' = None
    /\ pc' = [c \in Callers |-> "idle"]
    /\ target' = [c \in Callers |-> None]
    /\ conn' = [x \in Conns |-> IF conn[x] = "none" THEN "none" ELSE "closed"]
    /\ group' = {}
    /\ unsaved' = FALSE
    /\ UNCHANGED <<stored, via, external, late>>

Next ==
    \/ Start \/ Restart
    \/ \E c \in Callers :
          SelectStore(c) \/ SelectInterrupt(c) \/ \E o \in Outbounds : SelectSwap(c, o)
    \/ \E x \in Conns :
          \/ Dialed(x) \/ NewConn(x) \/ NewConnectionEx(x) \/ Close(x)
          \/ \E ext \in BOOLEAN : DialContext(x, ext)

Spec == Init /\ [][Next]_vars

-----------------------------------------------------------------------------
Quiet == \A c \in Callers : pc[c] = "idle"

(* Once SelectOutbound has returned, a connection in the group that is       *)
(* subject to interruption and was not being dialed during an interruption   *)
(* goes through the selected outbound, whatever selections interleave        *)
(* (selector.go:122-149, interrupt/group.go:25-52).                         *)
ConnectionsFollowSelection ==
    Quiet /\ selected # None =>
        \A x \in group \ late : x \notin external \/ InterruptExternal => via[x] = selected

(* docs/configuration/experimental/clash-api.md:140: "Store selected         *)
(* outbound for the `Selector` outbound in cache file."  When no selection   *)
(* is under way, a restart would find the selected outbound, unless the last *)
(* selection overlapped another one before its write, or its write failed    *)
(* (selector.go:122-141).                                                   *)
SelectionIsStored ==
    Quiet /\ selected # None /\ ~unsaved => selected = StoredOrDefault

(* A connection that an earlier selection dialed, or is dialing, exists only *)
(* while some SelectOutbound has yet to interrupt.                          *)
FollowInv ==
    /\ \A x \in group : conn[x] = "open"
    /\ selected = None => \A x \in Conns : conn[x] \in {"none", "closed"}
    /\ \A x \in Conns :
          /\ conn[x] \in {"dialing", "dialed"} \/ x \in group
          /\ x \notin late
          /\ x \notin external \/ InterruptExternal
          /\ via[x] # selected /\ selected # None
          => \E c \in Callers : pc[c] # "idle"

(* While selections do not overlap, the one to be stored is the selected one. *)
StoreInv ==
    /\ selected = None => \A c \in Callers : pc[c] = "idle"
    /\ \/ unsaved
       \/ /\ \A c \in Callers : pc[c] = "store" => target[c] = selected
          /\ selected # None /\ (\A c \in Callers : pc[c] # "store") =>
                selected = StoredOrDefault

(* The inductive invariant (selector.go:74-177).                            *)
IndInv == TypeOK /\ FollowInv /\ StoreInv
=============================================================================
