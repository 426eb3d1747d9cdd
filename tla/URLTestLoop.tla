---------------------------- MODULE URLTestLoop ----------------------------
(***************************************************************************)
(* The check loop of a URL test group (protocol/group/urltest.go): PostStart *)
(* tests once, the first use of the group (Touch) starts a ticker and a loop *)
(* that tests on every tick, and the loop ends when the group has been idle  *)
(* for too long.  Time is the age of lastActive and of the ticker.          *)
(***************************************************************************)
EXTENDS Integers

CONSTANTS
    Loops,        \* goroutines of loopCheck
    Testers,      \* other goroutines in urlTest: PostStart's, the API's
    Interval,     \* URLTestGroup.interval
    IdleTimeout,  \* URLTestGroup.idleTimeout
    MaxTouch      \* bound: uses of the group

(* NewURLTestGroup refuses an interval above the idle timeout.              *)
ASSUME URLTestLoopConstants ==
    /\ Interval \in Nat \ {0} /\ IdleTimeout \in Nat
    /\ Interval <= IdleTimeout /\ MaxTouch \in Nat
    /\ Loops \intersect Testers = {}

VARIABLES
    started,   \* URLTestGroup.started
    closed,    \* the channel close is closed
    ticker,    \* URLTestGroup.ticker # nil
    age,       \* time since lastActive, up to IdleTimeout + 1
    elapsed,   \* time since the ticker last fired
    fired,     \* a tick is in the channel of the ticker, which holds one
    stopped,   \* the ticker is stopped, by Close
    checking,  \* URLTestGroup.checking
    loop,      \* each loop: "off", "begin", "wait", "ticked", "ending", "test"
    tester,    \* each other goroutine: "off", "call", "test"
    touches    \* uses so far

loopVars == <<started, closed, ticker, age, elapsed, fired, stopped, checking, loop, tester,
              touches>>

LoopTypeOK ==
    /\ started \in BOOLEAN /\ closed \in BOOLEAN /\ ticker \in BOOLEAN
    /\ fired \in BOOLEAN /\ stopped \in BOOLEAN /\ checking \in BOOLEAN
    /\ age \in 0..IdleTimeout + 1 /\ elapsed \in 0..Interval - 1
    /\ loop \in [Loops -> {"off", "begin", "wait", "ticked", "ending", "test"}]
    /\ tester \in [Testers -> {"off", "call", "test"}]
    /\ touches \in Nat

LoopInit ==
    /\ started = FALSE /\ closed = FALSE /\ ticker = FALSE
    /\ age = 0 /\ elapsed = 0 /\ fired = FALSE /\ stopped = FALSE
    /\ checking = FALSE
    /\ loop = [l \in Loops |-> "off"]
    /\ tester = [t \in Testers |-> "off"]
    /\ touches = 0

-----------------------------------------------------------------------------
(* PostStart: started, and the first test in a goroutine.                   *)
PostStart(t) ==
    /\ ~started
    /\ started' = TRUE /\ age' = 0
    /\ tester' = [tester EXCEPT ![t] = "call"]
    /\ UNCHANGED <<closed, ticker, elapsed, fired, stopped, checking, loop, touches>>

(* Touch, under access; called by DialContext and ListenPacket.             *)
Touch(l) ==
    /\ started /\ touches < MaxTouch
    /\ touches' = touches + 1
    /\ IF ticker
       THEN age' = 0 /\ UNCHANGED <<ticker, elapsed, fired, stopped, loop>>
       ELSE /\ loop[l] = "off"
            /\ ticker' = TRUE
            /\ loop' = [loop EXCEPT ![l] = "begin"]
            /\ elapsed' = 0 /\ fired' = FALSE /\ stopped' = FALSE
            /\ UNCHANGED age
    /\ UNCHANGED <<started, closed, checking, tester>>

(* Close, under access: no effect without a ticker.                         *)
Close ==
    /\ started /\ ~closed
    /\ IF ticker THEN stopped' = TRUE /\ closed' = TRUE
       ELSE UNCHANGED <<stopped, closed>>
    /\ UNCHANGED <<started, ticker, age, elapsed, fired, checking, loop, tester, touches>>

-----------------------------------------------------------------------------
(* urlTest: checking.Swap(true) turns a second test away.                   *)
Test ==
    /\ ~checking
    /\ checking' = TRUE

(* loopCheck up to its for: a test if the group was not used for a while.   *)
LoopBegin(l) ==
    /\ loop[l] = "begin"
    /\ IF age > Interval /\ ~checking
       THEN Test /\ age' = 0 /\ loop' = [loop EXCEPT ![l] = "test"]
       ELSE /\ age' = IF age > Interval THEN 0 ELSE age
            /\ loop' = [loop EXCEPT ![l] = "wait"]
            /\ UNCHANGED checking
    /\ UNCHANGED <<started, closed, ticker, elapsed, fired, stopped, tester, touches>>

LoopClosed(l) ==
    /\ loop[l] = "wait" /\ closed
    /\ loop' = [loop EXCEPT ![l] = "off"]
    /\ UNCHANGED <<started, closed, ticker, age, elapsed, fired, stopped, checking, tester,
                   touches>>

LoopTick(l) ==
    /\ loop[l] = "wait" /\ fired
    /\ fired' = FALSE
    /\ loop' = [loop EXCEPT ![l] = "ticked"]
    /\ UNCHANGED <<started, closed, ticker, age, elapsed, stopped, checking, tester, touches>>

(* Mutant: the idle check is made only when no other test is running.       *)
MutLoopIdle(l) ==
    /\ loop[l] = "ticked" /\ checking
    /\ IF age > IdleTimeout
       THEN loop' = [loop EXCEPT ![l] = "ending"] /\ UNCHANGED checking
       ELSE loop' = [loop EXCEPT ![l] = "wait"] /\ UNCHANGED checking
    /\ UNCHANGED <<started, closed, ticker, age, elapsed, fired, stopped, tester, touches>>

(* The idle check after a tick, which is before the lock, and else a test.  *)
LoopIdle(l) ==
    /\ loop[l] = "ticked"
    /\ IF age > IdleTimeout
       THEN loop' = [loop EXCEPT ![l] = "ending"] /\ UNCHANGED checking
       ELSE IF checking
            THEN loop' = [loop EXCEPT ![l] = "wait"] /\ UNCHANGED checking
            ELSE loop' = [loop EXCEPT ![l] = "test"] /\ Test
    /\ UNCHANGED <<started, closed, ticker, age, elapsed, fired, stopped, tester, touches>>

(* Mutant: the ticker is stopped and kept.                                  *)
MutLoopEnd(l) ==
    /\ loop[l] = "ending"
    /\ stopped' = TRUE
    /\ loop' = [loop EXCEPT ![l] = "off"]
    /\ UNCHANGED <<started, closed, ticker, age, elapsed, fired, checking, tester, touches>>

(* The end of an idle loop, under access.                                   *)
LoopEnd(l) ==
    /\ loop[l] = "ending"
    /\ ticker' = FALSE /\ fired' = FALSE /\ elapsed' = 0 /\ stopped' = FALSE
    /\ loop' = [loop EXCEPT ![l] = "off"]
    /\ UNCHANGED <<started, closed, age, checking, tester, touches>>

(* The end of a test, the tests of the outbounds having timed out at most.  *)
LoopTested(l) ==
    /\ loop[l] = "test"
    /\ checking' = FALSE
    /\ loop' = [loop EXCEPT ![l] = "wait"]
    /\ UNCHANGED <<started, closed, ticker, age, elapsed, fired, stopped, tester, touches>>

-----------------------------------------------------------------------------
(* CheckOutbounds and URLTest called by the API, after the start.           *)
Call(t) ==
    /\ started /\ tester[t] = "off" /\ touches < MaxTouch
    /\ touches' = touches + 1
    /\ tester' = [tester EXCEPT ![t] = "call"]
    /\ UNCHANGED <<started, closed, ticker, age, elapsed, fired, stopped, checking, loop>>

Called(t) ==
    /\ tester[t] = "call"
    /\ IF checking
       THEN tester' = [tester EXCEPT ![t] = "off"] /\ UNCHANGED checking
       ELSE tester' = [tester EXCEPT ![t] = "test"] /\ Test
    /\ UNCHANGED <<started, closed, ticker, age, elapsed, fired, stopped, loop, touches>>

CallTested(t) ==
    /\ tester[t] = "test"
    /\ checking' = FALSE
    /\ tester' = [tester EXCEPT ![t] = "off"]
    /\ UNCHANGED <<started, closed, ticker, age, elapsed, fired, stopped, loop, touches>>

(* Time passes; a ticker that is not stopped fires every Interval.          *)
Tick ==
    /\ started
    /\ age' = IF age <= IdleTimeout THEN age + 1 ELSE age
    /\ IF ticker /\ ~stopped
       THEN /\ elapsed' = IF elapsed + 1 = Interval THEN 0 ELSE elapsed + 1
            /\ fired' = (fired \/ elapsed + 1 = Interval)
       ELSE UNCHANGED <<elapsed, fired>>
    /\ UNCHANGED <<started, closed, ticker, stopped, checking, loop, tester, touches>>

LoopNext(l) ==
    LoopBegin(l) \/ LoopClosed(l) \/ LoopTick(l) \/ LoopIdle(l) \/ LoopEnd(l) \/ LoopTested(l)

LoopsNext ==
    \/ Tick \/ Close
    \/ \E l \in Loops : Touch(l) \/ LoopNext(l)
    \/ \E t \in Testers : PostStart(t) \/ Call(t) \/ Called(t) \/ CallTested(t)

LoopSpec == LoopInit /\ [][LoopsNext]_loopVars

(* Goroutines run, a test ends by its timeout, and time passes.             *)
LoopFairSpec ==
    /\ LoopSpec
    /\ WF_loopVars(Tick)
    /\ \A l \in Loops : WF_loopVars(LoopNext(l))
    /\ \A t \in Testers : WF_loopVars(Called(t) \/ CallTested(t))

-----------------------------------------------------------------------------
Running == {l \in Loops : loop[l] # "off"}
Testing == {l \in Loops : loop[l] = "test"} \union {t \in Testers : tester[t] = "test"}

(* One loop at most reads the ticker, and the ticker is there while it does: *)
(* the loop uses g.ticker without the lock (urltest.go:331-353), and would   *)
(* fail on nil had another one ended.                                       *)
LoopOwnsTicker ==
    \A l \in Running : ticker /\ Running = {l}

(* checking is set exactly while one test is under way, so that no two tests *)
(* of a group ever run together and none is turned away by a test that has   *)
(* ended (urltest.go:363-368).                                              *)
OneTest ==
    /\ \A a, b \in Testing : a = b
    /\ checking <=> Testing # {}

(* A group no longer used has no loop in the end, whether it is closed or    *)
(* idle (urltest.go:338-350).                                               *)
IdleLoopEnds == <>[](Running = {})

(* Until it is closed, a group without a loop starts one at its next use: a  *)
(* ticker without a loop is that of a closed group (urltest.go:260-273).    *)
TickerHasLoop == ticker /\ ~closed => Running # {}

(* The loop, its ticker and the tests belong together (urltest.go:250-410). *)
LoopIsSound == LoopOwnsTicker /\ OneTest /\ TickerHasLoop

NoneBeforeStart == ~started => \A t \in Testers : tester[t] = "off"

(* The inductive invariant (urltest.go:250-410).                            *)
LoopInv == LoopTypeOK /\ NoneBeforeStart /\ LoopOwnsTicker /\ OneTest /\ TickerHasLoop
=============================================================================
