---------------------------- MODULE SlidingWindow ----------------------------
(***************************************************************************)
(* The two sliding-window rate limiters of the core: the RateLimiter of a  *)
(* watch-party socket ("party") and IsRateLimited of the license endpoints *)
(* for one address ("cellar").  Each runs under a lock, so a call is one   *)
(* step; time passes between calls.                                        *)
(***************************************************************************)
EXTENDS Naturals, FiniteSets

CONSTANTS
    Limiters,  \* which of "party" and "cellar" are looked at
    Limit,     \* 20 messages, 5 attempts
    Window,    \* 1 second, 5 minutes
    MaxTime,   \* bound: how long calls are made
    MaxCalls   \* bound: how many calls are admitted

ASSUME LimitAssumption ==
    /\ Limiters \subseteq {"party", "cellar"}
    /\ Limit \in Nat \ {0} /\ Window \in Nat \ {0}
    /\ MaxTime \in Nat /\ MaxCalls \in Nat

VARIABLES
    limiter,    \* the limiter that is looked at, never changed
    now,        \* the clock
    at,         \* history: when the n-th admitted call was made
    admitted,   \* history: how many calls were admitted
    recorded,   \* the admitted calls whose times the limiter keeps
    present     \* the dictionary has a list for the address

window == <<limiter, now, at, admitted, recorded, present>>

Calls == 1..MaxCalls

WindowInit ==
    /\ limiter \in Limiters
    /\ now = 0 /\ at = [c \in Calls |-> 0] /\ admitted = 0
    /\ recorded = {} /\ present = (limiter = "party")

Tick ==
    /\ now < MaxTime /\ now' = now + 1
    /\ UNCHANGED <<limiter, at, admitted, recorded, present>>

\* The queue drops what is a full second old, the list what is more than five
\* minutes old.
Expired(t) == IF limiter = "party" THEN now - t >= Window ELSE now - t > Window

Recent == {c \in recorded : ~Expired(at[c])}

Admit(kept, listed) ==
    /\ admitted < MaxCalls
    /\ admitted' = admitted + 1
    /\ at' = [at EXCEPT ![admitted + 1] = now]
    /\ recorded' = kept /\ present' = listed
    /\ UNCHANGED <<limiter, now>>

\* RateLimiter.Allow, and IsRateLimited for an address with a list that is not
\* empty or with no list yet.
Listed == present /\ (limiter = "party" \/ Recent # {})

HasRoom_OffByOne == Cardinality(Recent) <= Limit
HasRoom == Cardinality(Recent) < Limit

Allow ==
    /\ Listed \/ ~present
    /\ HasRoom
    /\ Admit(Recent \cup {admitted + 1}, TRUE)

\* IsRateLimited removes an emptied list from the dictionary and then adds the
\* attempt to it.
StillListed == FALSE

AllowDetached ==
    /\ present /\ ~Listed
    /\ Admit({}, StillListed)

Kept_All == recorded
Kept == Recent

Refuse ==
    /\ Listed /\ Cardinality(Kept) >= Limit
    /\ recorded' = Recent
    /\ UNCHANGED <<limiter, now, at, admitted, present>>

WindowNext == Tick \/ Allow \/ AllowDetached \/ Refuse

WindowSpec == WindowInit /\ [][WindowNext]_window

-----------------------------------------------------------------------------
(* Properties.                                                             *)

\* The types of the clock, the history and the limiter's list.
WindowTypeOK ==
    /\ limiter \in {"party", "cellar"}
    /\ now \in Nat /\ at \in [Calls -> Nat] /\ admitted \in Nat
    /\ recorded \subseteq Calls /\ present \in BOOLEAN

InWindow == {c \in 1..admitted : ~Expired(at[c])}

\* No window holds more admitted calls than the limit (MaxMessagesPerSecond;
\* "FirstLaunch_RateLimits_After5Attempts").
NeverOverLimit == Cardinality(InWindow) <= Limit

\* That is so for the messages of a socket, and the license limiter loses at
\* most the one attempt that it adds to the detached list.
WindowBound == Cardinality(InWindow) <= IF limiter = "party" THEN Limit ELSE Limit + 1

\* Waiting helps: a call is refused only while the window is full, so refused
\* calls do not prolong the wait ("Please wait 5 minutes and try again").
RefusedOnlyWhenFull == [][Refuse => Cardinality(InWindow) >= Limit]_window
=============================================================================
