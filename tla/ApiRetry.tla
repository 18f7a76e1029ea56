-------------------------------- MODULE ApiRetry --------------------------------
(* The retrying client (src/src/web/src/services/apiErrorHandler.js, attached  *)
(* by enhancedApi.js): the calls of one method and url, which share one entry  *)
(* of retryCounts. A retry is a request of the same client, so its failure     *)
(* comes to the same handler, inside the handler that retried.                 *)
EXTENDS Integers, FiniteSets

CONSTANTS Callers,      \* the calls of that url that may be out at once
          MAX_RETRIES,
          MaxSends      \* bound: the calls the pages make

ASSUME RetryAssumption ==
    IsFiniteSet(Callers) /\ Callers # {} /\ MAX_RETRIES \in Nat /\ MaxSends \in Nat

VARIABLES
    retryCount,   \* the entry of the url; 0 when there is none
    call,         \* caller -> where its call is
    unwinds,      \* the callers with a handleServiceUnavailable around their
                  \* request, which clears the entry when it succeeds
    succeeded,    \* history: the call that came back last succeeded
    sends

retry == <<retryCount, call, unwinds, succeeded, sends>>

RetryInit ==
    /\ retryCount = 0
    /\ call = [c \in Callers |-> "none"]
    /\ unwinds = {}
    /\ succeeded = TRUE
    /\ sends = 0

canRetry == retryCount < MAX_RETRIES
incrementRetry == retryCount' = retryCount + 1
clearRetry == retryCount' = 0

Goes(c, where) == call' = [call EXCEPT ![c] = where]

Send(c) ==
    /\ call[c] = "none"
    /\ sends < MaxSends
    /\ sends' = sends + 1
    /\ Goes(c, "sent")
    /\ UNCHANGED <<retryCount, unwinds, succeeded>>

Succeeds(c) ==
    /\ call[c] = "sent"
    /\ IF c \in unwinds THEN clearRetry ELSE UNCHANGED retryCount
    /\ Goes(c, "none")
    /\ unwinds' = unwinds \ {c}
    /\ succeeded' = TRUE
    /\ UNCHANGED sends

Rejects(c) ==
    /\ Goes(c, "none")
    /\ unwinds' = unwinds \ {c}
    /\ succeeded' = FALSE
    /\ UNCHANGED <<retryCount, sends>>

\* 400, 401, 403, 404, 500, or no answer at all.
Refused(c) == call[c] = "sent" /\ Rejects(c)

\* Mutant: a 503 is sent again without being counted.
handleServiceUnavailable_Uncounted(c) ==
    /\ UNCHANGED retryCount
    /\ Goes(c, "delayed")
    /\ unwinds' = unwinds \cup {c}
    /\ UNCHANGED <<succeeded, sends>>

\* 503 and 504: counted at once, sent again after the delay.
handleServiceUnavailable(c) ==
    /\ incrementRetry
    /\ Goes(c, "delayed")
    /\ unwinds' = unwinds \cup {c}
    /\ UNCHANGED <<succeeded, sends>>

Unavailable(c) ==
    /\ call[c] = "sent"
    /\ IF canRetry THEN handleServiceUnavailable(c) ELSE Rejects(c)

\* Mutant: a 429 is waited out whatever was spent.
RateLimited_Unchecked(c) ==
    /\ call[c] = "sent"
    /\ Goes(c, "limited")
    /\ UNCHANGED <<retryCount, unwinds, succeeded, sends>>

\* 429 with a retry-after: checked now, counted when the time is over.
RateLimited(c) ==
    /\ call[c] = "sent"
    /\ IF canRetry
       THEN Goes(c, "limited") /\ UNCHANGED <<retryCount, unwinds, succeeded, sends>>
       ELSE Rejects(c)

Delayed(c) ==
    /\ call[c] = "delayed"
    /\ Goes(c, "sent")
    /\ UNCHANGED <<retryCount, unwinds, succeeded, sends>>

RetryAfter(c) ==
    /\ call[c] = "limited"
    /\ incrementRetry
    /\ Goes(c, "sent")
    /\ UNCHANGED <<unwinds, succeeded, sends>>

Comes(c) == Succeeds(c) \/ Refused(c) \/ Unavailable(c) \/ RateLimited(c)

RetryNext == \E c \in Callers : Send(c) \/ Comes(c) \/ Delayed(c) \/ RetryAfter(c)

\* Every request of the client has a timeout of 30 seconds, and timers fire.
RetryFairness ==
    \A c \in Callers : WF_retry(Comes(c)) /\ WF_retry(Delayed(c)) /\ WF_retry(RetryAfter(c))

RetrySpec == RetryInit /\ [][RetryNext]_retry /\ RetryFairness
-------------------------------------------------------------------------------
RetryTypeOK ==
    /\ call \in [Callers -> {"none", "sent", "delayed", "limited"}]
    /\ retryCount \in Nat /\ sends \in 0 .. MaxSends
    /\ unwinds \subseteq {c \in Callers : call[c] # "none"}
    /\ succeeded \in BOOLEAN

\* The budget is checked before a wait and spent after it: calls that wait at
\* the same time overspend it, by at most one each but for one of them.
OverrunBounded == retryCount < MAX_RETRIES + Cardinality(Callers)

\* Every call comes back, however often its answer is 429, 503 or 504, once the
\* pages make no further calls of its url (whose success clears the entry).
CallSettles == \A c \in Callers : call[c] # "none" ~> call[c] = "none"

\* What clearRetry and api.js say (clear the count on success): after a call
\* that succeeded, the next one may be retried again.
ClearedOnSuccess == succeeded /\ (\A c \in Callers : call[c] = "none") => retryCount = 0
================================================================================
