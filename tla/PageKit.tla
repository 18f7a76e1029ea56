-------------------------------- MODULE PageKit --------------------------------
(* The vocabulary in which the page catalogs describe the handlers of a page   *)
(* of the web client: the requests a handler awaits one after the other, what  *)
(* it does to the page's state before, on success and on failure, and the      *)
(* condition under which the markup offers it.                                 *)
EXTENDS TLC

\* One awaited request (a Promise.all is one): it adds a change to the server's
\* puts, replaces its saves by what the page showed when the handler was
\* called, and its answer replaces what the page shows of gets. A soft request
\* has a catch of its own, after which the handler goes on. What an elsewhere
\* request answers belongs to none of the selections.
Ask(puts, saves, gets) ==
    [puts |-> puts, saves |-> saves, gets |-> gets, soft |-> FALSE, elsewhere |-> FALSE]
Get(rs)  == Ask({}, {}, rs)
Put(rs)  == Ask(rs, {}, {})
Save(rs) == Ask({}, rs, {})
Rewrite(rs) == Ask(rs, rs, {})         \* sends rs as shown, with one change of its own
Swap(ps, rs) == Ask(ps, {}, rs)        \* changes ps and answers with the new rs
Call     == Ask({}, {}, {})            \* nothing of it is shown
Soft(q)  == [q EXCEPT !.soft = TRUE]
Elsewhere(q) == [q EXCEPT !.elsewhere = TRUE]

\* A handler. Only the fields that differ from these are written:
\*   busy      raised when it starts, lowered however it ends (finally)
\*   raises    raised when it starts           drops      lowered when it starts
\*   okLowers, okRaises                        on success
\*   failLowers, failRaises                    on failure (catch)
\*   does      the requests
\*   early     changed on the page before the first request
\*   undo      the early change is taken back on failure
\*   local     changed on the page after success, without asking the server
\*   stale     local is applied to the value the handler closed over
\*   edits     changed on the page only: the user types
\*   blank     emptied on failure
\*   then      handlers called on success, not awaited
\*   rescue    handlers called on failure, not awaited
Do(h) == h @@ [busy |-> {}, raises |-> {}, drops |-> {}, okLowers |-> {},
               okRaises |-> {}, failLowers |-> {}, failRaises |-> {}, does |-> <<>>,
               early |-> {}, undo |-> FALSE, local |-> {}, stale |-> FALSE,
               edits |-> {}, blank |-> {}, then |-> <<>>, rescue |-> <<>>]
Flip(fs) == Do([raises |-> fs])        \* opens a dialog
Shut(fs) == Do([drops |-> fs])         \* closes it

\* A control of the markup: shown while all of needs is up, disabled while any
\* of unless is.
Off(unless)        == [needs |-> {}, unless |-> unless]
In(needs)          == [needs |-> needs, unless |-> {}]
InOff(needs, unless) == [needs |-> needs, unless |-> unless]
Free               == Off({})

\* A page: what it shows, the flags that spin or disable, those up when it
\* mounts, those under which a loader stands in for it, the handlers its effects
\* call when it mounts, when a timer fires and when the selection changes, and
\* the controls that call several handlers at once (presses). A timer has the
\* guard its effect or callback checks.
PageOf(p) == p @@ [busy |-> {}, at |-> {}, hides |-> {}, mount |-> <<>>, timers |-> <<>>,
                   selects |-> <<>>, presses |-> <<>>, controls |-> <<>>]
================================================================================
