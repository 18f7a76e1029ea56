------------------------------ MODULE PageClaims ------------------------------
(* What the pages of the web client get right, and where they do not.         *)
EXTENDS Pages

CONSTANTS Lagging,     \* <<page, resource>>: not refreshed after a change to it
          Locks,       \* <<page, flag>>: the flag turns off what raises it
          Careful      \* pages that never lose what the user typed

Names(hs) == {hs[k] : k \in DOMAIN hs}

\* The flags a handler holds from its first line on.
Holds(H) == H.busy \cup H.raises

\* A call of H may fail: one of its requests has no catch of its own.
MayEndBadly(H) == \E k \in DOMAIN H.does : ~H.does[k].soft

\* The flags that every way out of H lowers.
Frees(H) == H.busy \cup {f \in H.okLowers : MayEndBadly(H) => f \in H.failLowers}

-------------------------------------------------------------------------------
(* Who calls whom on page c.                                                   *)

\* What a handler calls when it ends, and what the page calls when a selection
\* changes or a control that calls several handlers is pressed.
NextCalls(H) == Names(H.then) \cup Names(H.rescue)
PageCalls(c) == UNION ({Names(c.selects[k]) : k \in DOMAIN c.selects}
                       \cup {Names(c.presses[k]) : k \in DOMAIN c.presses})
Callees(c) == Names(c.mount) \cup PageCalls(c)
              \cup UNION {NextCalls(c.handlers[h]) : h \in DOMAIN c.handlers}

\* Nobody but the mount, once, and the user's buttons calls the handlers hs.
Pressed(c, hs) ==
    /\ PageCalls(c) \cap hs = {}
    /\ \A h \in DOMAIN c.handlers : NextCalls(c.handlers[h]) \cap hs = {}
    /\ DOMAIN c.timers \cap hs = {}
    /\ \A k, l \in DOMAIN c.mount : c.mount[k] \in hs /\ c.mount[l] \in hs => k = l

\* Handlers that may run beside others although the user waits for the page to
\* come to rest: several are called at once, and then their callees.
Together(c) ==
    Names(c.mount) \cup PageCalls(c)
    \cup UNION {Names(hs) : hs \in {l \in UNION {{c.handlers[h].then, c.handlers[h].rescue} :
                                                 h \in DOMAIN c.handlers} : Len(l) > 1}}
Beside(c) == Together(c) \cup UNION {NextCalls(c.handlers[h]) : h \in Together(c)}

-------------------------------------------------------------------------------
(* Conditions on the description of a page c under which it gets something     *)
(* right (Pages_proofs).                                                       *)

\* The flag f is a lock: only a press of a button that f turns off raises it,
\* one call of the mount aside, and only who raised it lowers it.
Keeps(c, f) ==
    LET H(h) == c.handlers[h]
        HS == {h \in DOMAIN c.handlers : f \in Holds(H(h))}
    IN  /\ Pressed(c, HS)
        /\ \A h \in HS \cap DOMAIN c.controls : f \in c.controls[h].unless
        /\ \A h \in DOMAIN c.handlers \ HS :
               f \notin H(h).drops \cup H(h).okLowers \cup H(h).failLowers

\* The timers that lower f, and that nobody stops without lowering f.
Clocks(c, f) ==
    {t \in DOMAIN c.timers \cap DOMAIN c.handlers :
        /\ f \in c.handlers[t].okLowers \cup c.handlers[t].drops
        /\ \A h \in DOMAIN c.handlers :
              LET H == c.handlers[h] IN
              \A fs \in {H.drops, H.busy \cup H.okLowers, H.busy \cup H.failLowers} :
                  fs \cap c.timers[t].needs # {} => f \in fs}

\* Whoever calls the handlers hs and raises fs leaves it to one of them, or to a
\* timer, to lower f.
Leaves(c, hs, fs, f) ==
    \/ \E h \in Names(hs) : f \in Frees(c.handlers[h])
    \/ \E t \in Clocks(c, f) : c.timers[t].needs \subseteq fs

\* A call of H lowers f, or leaves it to somebody who will.
Lowers(c, H, f) ==
    \/ f \in H.busy
    \/ /\ f \in H.okLowers \/ Leaves(c, H.then, H.okRaises, f)
       /\ MayEndBadly(H) => f \in H.failLowers \/ Leaves(c, H.rescue, H.failRaises, f)

\* The flag f is up only on behalf of handlers that lower it.
Settles(c, f) ==
    LET H(h) == c.handlers[h] IN
    /\ f \in c.at => \E k \in DOMAIN c.mount : Lowers(c, H(c.mount[k]), f)
    /\ \A h \in DOMAIN c.handlers : /\ f \in Holds(H(h)) => Lowers(c, H(h), f) /\ H(h).does # <<>>
                                   /\ f \notin H(h).okRaises \cup H(h).failRaises

\* A call of H may replace what the page shows of r by something older than
\* what the user typed.
Overwrites(H, r) ==
    \/ r \in H.blank
    \/ r \in H.early /\ H.undo
    \/ r \in H.local /\ H.stale
    \/ \E k \in DOMAIN H.does : r \in H.does[k].gets

\* Behind a loader (a flag that hides the page until the load has ended) and
\* nowhere else something overwrites r, so never what the user typed.
Minds(c, r) ==
    LET H(h) == c.handlers[h]
        HS == {h \in DOMAIN c.handlers : Overwrites(H(h), r)}
    IN  \/ \A h \in DOMAIN c.handlers : r \notin H(h).edits
        \/ /\ Pressed(c, HS)
           /\ HS \cap DOMAIN c.controls = {}
           /\ \A h \in DOMAIN c.timers \cap DOMAIN c.handlers : r \notin H(h).edits
           /\ \E f \in c.at \cap c.hides :
                  \A h \in DOMAIN c.handlers \ HS :
                      f \notin H(h).drops \cup H(h).busy \cup H(h).okLowers \cup H(h).failLowers

\* What a request changes on the server.
Changes(q) == q.puts \cup q.saves

\* H does not change r, and what it shows of it is what the server has.
ReadsOnly(H, r) ==
    /\ r \notin H.early \cup H.local
    /\ \A k \in DOMAIN H.does : r \notin Changes(H.does[k])
    /\ r \in H.blank => \A k \in DOMAIN H.does : Changes(H.does[k]) = {}

\* H fetches r and changes nothing: it fails only if the network does.
Fetches(H, r) ==
    /\ r \notin H.early \cup H.local
    /\ \A k \in DOMAIN H.does : Changes(H.does[k]) = {}
    /\ \E k \in DOMAIN H.does : r \in H.does[k].gets

\* The one request of H changes r, and H then changes it on the page likewise.
Mirrors(H, r) ==
    /\ r \notin H.early \cup H.blank
    /\ Len(H.does) = 1
    /\ r \in Changes(H.does[1])
    /\ r \notin H.does[1].gets
    /\ r \in H.does[1].puts <=> r \in H.local

\* H fetches r in its k-th request, and no change comes after it.
FetchesAt(H, r, k) ==
    r \in H.does[k].gets /\ \A l \in DOMAIN H.does : l >= k => Changes(H.does[l]) = {}

\* Once its first request has succeeded H goes on whatever fails, and r is
\* fetched after all its changes, by itself or by a handler it calls.
Renews(c, H, r) ==
    /\ r \notin H.early \cup H.local \cup H.blank
    /\ \A k \in DOMAIN H.does : k > 1 => H.does[k].soft
    /\ \/ \E k \in DOMAIN H.does : FetchesAt(H, r, k)
       \/ H.does # <<>> /\ \E h \in Names(H.then) : Fetches(c.handlers[h], r)

\* Each handler of the page that changes r brings the page up to date with it,
\* and runs alone if the user lets it.
Refreshes(c, r) ==
    /\ \A h \in Beside(c) : NextCalls(c.handlers[h]) \subseteq Beside(c)
    /\ \A h \in DOMAIN c.handlers :
           LET H == c.handlers[h] IN
           \/ ReadsOnly(H, r)
           \/ Mirrors(H, r) /\ h \notin Callees(c)
           \/ Renews(c, H, r) /\ h \notin Beside(c)

-------------------------------------------------------------------------------
\* No page comes to rest with a spinner turning or a button disabled for good,
\* whichever request failed, in whatever order the answers came: every path
\* out of a handler lowers the flag it raised (the finally blocks).
NoStuckFlags == Stuck = {}

\* After calls made one at a time, each begun when the last had ended, a page at
\* rest shows what the server has: what a handler changes, it fetches again or
\* changes on the page too, and what a failure took back is not shown. The
\* pages and resources in Lagging are the exceptions.
SerialFresh == ~overlap => \A r \in Stale : <<page, r>> \in Lagging

\* The running calls that hold a flag.
Holders(f) == {i \in DOMAIN tasks : Active(i) /\ f \in Holds(Handler(tasks[i].h))}

\* A flag that turns off the buttons of the handlers that raise it is a lock:
\* nothing pressed, answered or failed meanwhile lets a second call in, so a
\* change is not sent twice by an impatient user.
NoDoubleSubmit == \A l \in Locks : l[1] = page => Cardinality(Holders(l[2])) <= 1

\* What every change of the selection fetches again is, at rest, what the page
\* shows of the selection made last. No run checks it: the pages do not have it,
\* since they take the answer to an earlier selection after that to a later one.
Filtered == {r \in Reads : /\ DOMAIN P.selects # {}
                           /\ \A k \in DOMAIN P.selects :
                                 \E h \in Names(P.selects[k]) :
                                    \E q \in DOMAIN Handler(h).does : r \in Handler(h).does[q].gets}
ShowsSelection == Misfiled \cap Filtered = {}

\* On a careful page no answer, late or failed, overwrites what the user typed.
NoEditLost == page \in Careful => Forgotten = {}
================================================================================
