------------------------- MODULE ConnectionManager -------------------------
(***************************************************************************)
(* The connection manager (route/conn.go): it dials the remote side of a     *)
(* connection an inbound has accepted, copies in both directions from two    *)
(* goroutines, and calls onClose, which also takes the connection off its    *)
(* list, when the connection is over.                                       *)
(***************************************************************************)
EXTENDS Naturals

CONSTANTS
    Streams,   \* connections given to NewConnection
    Packets,   \* connections given to NewPacketConnection
    Duplex,    \* whether a stream can be closed for writing only
    Early      \* whether a handshake with early data may be needed

ASSUME ConnectionManagerConstants ==
    /\ Streams \intersect Packets = {}
    /\ Duplex \in BOOLEAN /\ Early \in BOOLEAN

Conns == Streams \union Packets
Dirs == {"up", "down"}
Sides == {"local", "remote"}

VARIABLES
    pc,       \* each connection: "none", "route", "dial", "report", "early1",
              \* "early2", "copy", "refused", "failed"
    open,     \* the sides of each connection that are open
    copy,     \* each direction: "off", "run", "eof", "error", "done"
    done,     \* the flag done of each connection
    calls,    \* how often onClose was called
    listed,   \* ConnectionManager.connections
    rejected  \* connections with a failure that is reported in two places

vars == <<pc, open, copy, done, calls, listed, rejected>>

TypeOK ==
    /\ pc \in [Conns -> {"none", "route", "dial", "report", "early1", "early2", "copy", "refused", "failed"}]
    /\ open \in [Conns -> SUBSET Sides]
    /\ copy \in [Conns -> [Dirs -> {"off", "run", "eof", "error", "done"}]]
    /\ done \in [Conns -> BOOLEAN]
    /\ calls \in [Conns -> Nat]
    /\ listed \subseteq Conns /\ rejected \subseteq Conns

Init ==
    /\ pc = [x \in Conns |-> "none"]
    /\ open = [x \in Conns |-> {}]
    /\ copy = [x \in Conns |-> [d \in Dirs |-> "off"]]
    /\ done = [x \in Conns |-> FALSE]
    /\ calls = [x \in Conns |-> 0]
    /\ listed = {} /\ rejected = {}

-----------------------------------------------------------------------------
(* onClose, with the removal from the list that AppendClose has added.      *)
OnClose(x) ==
    /\ calls' = [calls EXCEPT ![x] = @ + 1]
    /\ listed' = listed \ {x}

NoOnClose == UNCHANGED <<calls, listed>>

CloseBoth(x) == open' = [open EXCEPT ![x] = {}]

(* An inbound has accepted a connection and gives it to the router.         *)
Accept(x) ==
    /\ pc[x] = "none"
    /\ pc' = [pc EXCEPT ![x] = "route"]
    /\ open' = [open EXCEPT ![x] = {"local"}]
    /\ UNCHANGED <<copy, done, calls, listed, rejected>>

(* The router hands it over with an outbound, which dials.                  *)
NewConnection(x) ==
    /\ pc[x] = "route"
    /\ pc' = [pc EXCEPT ![x] = "dial"]
    /\ UNCHANGED <<open, copy, done, calls, listed, rejected>>

(* What CloseOnHandshakeFailure does instead: the connection is closed and   *)
(* reported.                                                                *)
HandshakeFailure(x, step) ==
    /\ pc' = [pc EXCEPT ![x] = step]
    /\ CloseBoth(x) /\ OnClose(x)
    /\ UNCHANGED <<copy, done, rejected>>

Refuse(x) == pc[x] = "route" /\ HandshakeFailure(x, "refused")

(* A hijacked packet connection that is not one of the NAT is reported where *)
(* it is read and, after an error, by the caller again.                     *)
RefuseTwice(x) ==
    /\ pc[x] = "route" /\ x \in Packets
    /\ pc' = [pc EXCEPT ![x] = "refused"]
    /\ calls' = [calls EXCEPT ![x] = @ + 2]
    /\ rejected' = rejected \union {x}
    /\ CloseBoth(x)
    /\ UNCHANGED <<copy, done, listed>>

DialFails(x) == pc[x] = "dial" /\ HandshakeFailure(x, "failed")

Dialed(x) ==
    /\ pc[x] = "dial"
    /\ pc' = [pc EXCEPT ![x] = "report"]
    /\ open' = [open EXCEPT ![x] = @ \union {"remote"}]
    /\ UNCHANGED <<copy, done, calls, listed, rejected>>

(* The report of the handshake fails; for packets onClose is not called.    *)
ReportFails(x) ==
    /\ pc[x] = "report"
    /\ pc' = [pc EXCEPT ![x] = "failed"]
    /\ CloseBoth(x)
    /\ IF x \in Streams THEN OnClose(x) ELSE NoOnClose
    /\ UNCHANGED <<copy, done, rejected>>

(* The connection is listed; packets start their copies at once, streams     *)
(* after preConnectionCopy if a side needs a handshake.                     *)
Reported(x) ==
    /\ pc[x] = "report"
    /\ listed' = listed \union {x}
    /\ \/ /\ pc' = [pc EXCEPT ![x] = "copy"]
          /\ copy' = [copy EXCEPT ![x] = [d \in Dirs |-> "run"]]
       \/ /\ Early /\ x \in Streams
          /\ pc' = [pc EXCEPT ![x] = "early1"]
          /\ UNCHANGED copy
    /\ UNCHANGED <<open, done, calls, rejected>>

(* preConnectionCopy, upload and then download, each with or without the     *)
(* need for a handshake; an error does not stop what follows.               *)
AfterEarly(x) ==
    IF pc[x] = "early1"
    THEN pc' = [pc EXCEPT ![x] = "early2"] /\ UNCHANGED copy
    ELSE /\ pc' = [pc EXCEPT ![x] = "copy"]
         /\ copy' = [copy EXCEPT ![x] = [d \in Dirs |-> "run"]]

PreConnectionCopy(x) ==
    /\ pc[x] \in {"early1", "early2"}
    /\ AfterEarly(x)
    /\ \/ UNCHANGED <<open, done, calls, listed, rejected>>
       \/ /\ done' = [done EXCEPT ![x] = TRUE]
          /\ IF done[x] THEN OnClose(x) ELSE NoOnClose
          /\ CloseBoth(x)
          /\ rejected' = rejected \union {x}

-----------------------------------------------------------------------------
Source(d) == IF d = "up" THEN "local" ELSE "remote"
Dest(d) == IF d = "up" THEN "remote" ELSE "local"

(* connectionCopy: a cached payload cannot be written.                      *)
CachedFails(x, d) ==
    /\ x \in Streams /\ copy[x][d] = "run"
    /\ done' = [done EXCEPT ![x] = TRUE]
    /\ IF done[x] THEN OnClose(x) ELSE NoOnClose
    /\ CloseBoth(x)
    /\ copy' = [copy EXCEPT ![x][d] = "done"]
    /\ UNCHANGED <<pc, rejected>>

(* The source ends: the destination is closed for writing, or closed.       *)
CopyEOF(x, d) ==
    /\ x \in Streams /\ copy[x][d] = "run" /\ open[x] = Sides
    /\ open' = IF Duplex THEN open ELSE [open EXCEPT ![x] = @ \ {Dest(d)}]
    /\ copy' = [copy EXCEPT ![x][d] = "eof"]
    /\ UNCHANGED <<pc, done, calls, listed, rejected>>

(* Mutant: the sides are left to the other direction.                       *)
MutCopyError(x, d) ==
    /\ x \in Streams /\ copy[x][d] = "run"
    /\ copy' = [copy EXCEPT ![x][d] = "error"]
    /\ UNCHANGED <<pc, open, done, calls, listed, rejected>>

(* A read or a write fails, by itself or because a side is closed; an error  *)
(* of CloseWrite ends the same way.                                         *)
CopyError(x, d) ==
    /\ x \in Streams /\ copy[x][d] = "run"
    /\ CloseBoth(x)
    /\ copy' = [copy EXCEPT ![x][d] = "error"]
    /\ UNCHANGED <<pc, done, calls, listed, rejected>>

(* Mutant: the first to end calls onClose, as packetConnectionCopy does.    *)
MutCopyDone(x, d) ==
    /\ copy[x][d] \in {"eof", "error"}
    /\ copy' = [copy EXCEPT ![x][d] = "done"]
    /\ done' = [done EXCEPT ![x] = TRUE]
    /\ IF ~done[x] THEN OnClose(x) ELSE NoOnClose
    /\ UNCHANGED <<pc, open, rejected>>

(* Mutant: done is read and then set.                                       *)
MutCopyDoneLate(x, d) ==
    /\ copy[x][d] \in {"eof", "error"}
    /\ copy' = [copy EXCEPT ![x][d] = "done"]
    /\ done' = [done EXCEPT ![x] = TRUE]
    /\ IF done[x] \/ copy[x]["up"] = copy[x]["down"]
       THEN OnClose(x) /\ CloseBoth(x) ELSE NoOnClose /\ UNCHANGED open
    /\ UNCHANGED <<pc, rejected>>

(* done.Swap: the second of the two calls onClose and closes both sides.    *)
CopyDone(x, d) ==
    /\ copy[x][d] \in {"eof", "error"}
    /\ copy' = [copy EXCEPT ![x][d] = "done"]
    /\ done' = [done EXCEPT ![x] = TRUE]
    /\ IF done[x] THEN OnClose(x) /\ CloseBoth(x) ELSE NoOnClose /\ UNCHANGED open
    /\ UNCHANGED <<pc, rejected>>

(* packetConnectionCopy: the first to end calls onClose, each closes both.  *)
PacketCopyDone(x, d) ==
    /\ x \in Packets /\ copy[x][d] = "run"
    /\ copy' = [copy EXCEPT ![x][d] = "done"]
    /\ done' = [done EXCEPT ![x] = TRUE]
    /\ IF ~done[x] THEN OnClose(x) ELSE NoOnClose
    /\ CloseBoth(x)
    /\ UNCHANGED <<pc, rejected>>

(* A side is closed from outside: by its peer, by the timeout of a packet    *)
(* connection, by the interruption of a group or the Clash API.             *)
Cut(x, s) ==
    /\ s \in open[x]
    /\ open' = [open EXCEPT ![x] = @ \ {s}]
    /\ UNCHANGED <<pc, copy, done, calls, listed, rejected>>

(* Close: the local side of all that is listed.                             *)
Close ==
    /\ listed # {}
    /\ listed' = {}
    /\ open' = [x \in Conns |-> IF x \in listed THEN open[x] \ {"local"} ELSE open[x]]
    /\ UNCHANGED <<pc, copy, done, calls, rejected>>

Setup(x) ==
    DialFails(x) \/ Dialed(x) \/ ReportFails(x) \/ Reported(x) \/ PreConnectionCopy(x)

Relay(x) ==
    \/ Setup(x)
    \/ \E d \in Dirs :
          \/ CachedFails(x, d) \/ CopyEOF(x, d) \/ CopyError(x, d)
          \/ CopyDone(x, d) \/ PacketCopyDone(x, d)
    \/ \E s \in Sides : Cut(x, s)

(* The manager under a router that may do with a connection what it likes.  *)
ManagerNext ==
    \/ Close
    \/ \E x \in Conns : Accept(x) \/ Refuse(x) \/ RefuseTwice(x) \/ NewConnection(x) \/ Relay(x)

ManagerSpec == Init /\ [][ManagerNext]_vars

(* A copy that reads from a closed source ends, and its goroutine goes on;   *)
(* one whose destination alone is closed ends only when there is data to     *)
(* write.  A dial ends by its timeout.  A connection takes finitely many of  *)
(* these steps, so it is enough that one is taken as long as one is left.   *)
CopyFailsClosed(x, d) ==
    Source(d) \notin open[x] /\ (CopyError(x, d) \/ PacketCopyDone(x, d))

Proceeds(x) == Setup(x) \/ \E d \in Dirs : CopyDone(x, d) \/ CopyFailsClosed(x, d)

RelayFairness == WF_vars(\E x \in Conns : Proceeds(x))

-----------------------------------------------------------------------------
Over(x) == pc[x] = "refused" \/ \A d \in Dirs : copy[x][d] = "done"

(* When a connection is over, both sides are closed, onClose was called, and *)
(* the list does not have it: nothing is left, whichever direction of the    *)
(* relay ended first and why (conn.go:258-329, 372-395), and wherever its    *)
(* routing has failed (route.go:51-61, 187-197).                            *)
OverIsClean ==
    \A x \in Conns : Over(x) => open[x] = {} /\ calls[x] >= 1 /\ x \notin listed

(* onClose is called once, from routing and relay together.  Two places are  *)
(* excepted: after an early handshake that failed the flag done is set       *)
(* before the copies run, and both of them call it (conn.go:99-109, 229-256); *)
(* and a hijacked packet connection that fails is reported by                *)
(* hijackDNSPacket and by its caller (dns.go:57-61, route.go:187-190).       *)
ReportedOnce == \A x \in Conns \ rejected : calls[x] <= 1
=============================================================================
