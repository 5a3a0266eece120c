---------------------------- MODULE RateLimiter ----------------------------
(***************************************************************************)
(* backend/pkg/httputil/ratelimit.go: the limiter every service puts       *)
(* before its routes.  A client has rate tokens per window; the window     *)
(* starts with its first request and the next one with the first request   *)
(* after its end, and a ticker forgets clients that have been away.        *)
(* One client is enough: its entry in the map is read and written under    *)
(* the mutex, and no other client's is looked at.                          *)
(***************************************************************************)
EXTENDS Integers, Sequences

CONSTANTS
    Rate,          \* tokens per window
    Window,        \* length of a window, in ticks of the model's clock
    CleanupPeriod, \* 5 minutes in the code
    MaxTime        \* bound on the clock, for model checking only

ASSUME LimiterAssumption ==
    /\ Rate \in Nat \ {0} /\ Window \in Nat \ {0}
    /\ CleanupPeriod \in Nat \ {0} /\ MaxTime \in Nat

VARIABLES
    now,           \* the clock
    visitor,       \* the client's entry: [tokens, lastReset], or NoVisitor
    ticked,        \* time of the last cleanup
    admitted       \* the times of the requests admitted, in their order

limiterVars == <<now, visitor, ticked, admitted>>

NoVisitor == [tokens |-> 0, lastReset |-> MaxTime + 1]

Admit == admitted' = Append(admitted, now)

\* allow(ip)
allow ==
    /\ \/ /\ visitor = NoVisitor \/ now - visitor.lastReset >= Window
          /\ visitor' = [tokens |-> Rate - 1, lastReset |-> now]
          /\ Admit
       \/ /\ visitor # NoVisitor /\ now - visitor.lastReset < Window
          /\ visitor.tokens > 0
          /\ visitor' = [visitor EXCEPT !.tokens = @ - 1]
          /\ Admit
    /\ UNCHANGED <<now, ticked>>

\* Slip, for the mutation runs: an entry is forgotten whatever its age.
cleanupAll ==
    /\ now - ticked >= CleanupPeriod
    /\ visitor' = NoVisitor
    /\ ticked' = now
    /\ UNCHANGED <<now, admitted>>

\* The body of cleanup's loop, on its ticker.
cleanup ==
    /\ now - ticked >= CleanupPeriod
    /\ \/ /\ visitor # NoVisitor /\ now - visitor.lastReset > 2 * Window
          /\ visitor' = NoVisitor
       \/ /\ visitor # NoVisitor => now - visitor.lastReset <= 2 * Window
          /\ UNCHANGED visitor
    /\ ticked' = now
    /\ UNCHANGED <<now, admitted>>

Tick ==
    /\ now < MaxTime
    /\ now' = now + 1
    /\ UNCHANGED <<visitor, ticked, admitted>>

LimiterInit ==
    /\ now = 0
    /\ visitor = NoVisitor
    /\ ticked = 0
    /\ admitted = <<>>

LimiterNext == allow \/ cleanup \/ Tick

LimiterSpec == LimiterInit /\ [][LimiterNext]_limiterVars

-----------------------------------------------------------------------------
(* Properties *)

LimiterTypeOK ==
    /\ now \in 0..MaxTime
    /\ visitor \in [tokens : 0..Rate - 1, lastReset : 0..MaxTime] \cup {NoVisitor}
    /\ ticked \in 0..now
    /\ admitted \in Seq(0..MaxTime)

\* Fixed windows admit bursts at their seams: in any stretch as long as a window up
\* to one request less than twice the rate, and the cleanup never adds to that.
AtMostTwiceTheRate ==
    \A i, j \in DOMAIN admitted : j - i >= 2 * Rate - 1 => admitted[i] + Window <= admitted[j]
=============================================================================
