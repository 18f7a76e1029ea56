--------------------------------- MODULE Pages ---------------------------------
(* A page of the web client (src/src/web/src/pages, components/settings and    *)
(* components/media) and the server behind it. JavaScript runs one handler at  *)
(* a time up to its next await; between the awaits everything else may happen: *)
(* another click, a timer, a changed filter, the answer to an older request.   *)
(* The pages themselves are data, in the catalogs.                             *)
EXTENDS Integers, Sequences, FiniteSets, PageKit

CONSTANTS Catalog,     \* name of a page -> its description
          Sels,        \* the values of a filter, a tab, a page number, a query
          MaxCalls     \* bound: the calls of handlers beyond those of the mount

\* A page calls the handlers it has, and what it calls has something to await.
ASSUME CatalogAssumption ==
    \A p \in DOMAIN Catalog :
        LET c == Catalog[p]
            calls == Seq({h \in DOMAIN c.handlers : c.handlers[h].does # <<>>})
        IN  /\ c.mount \in calls
            /\ \A k \in DOMAIN c.selects : c.selects[k] \in calls
            /\ \A k \in DOMAIN c.presses : c.presses[k] \in calls
            /\ \A h \in DOMAIN c.handlers :
                   LET H == c.handlers[h] IN
                   /\ H.then \in calls
                   /\ H.rescue \in calls
                   /\ H.does \in Seq({H.does[k] : k \in DOMAIN H.does})

VARIABLES
    page,      \* the page that is open
    srv,       \* resource -> the changes the server has made to it
    shown,     \* resource -> the changes the page shows
    shownSel,  \* resource -> the selection it was fetched for
    sel,       \* the selection
    flags,     \* the boolean state of the page that is true
    tasks,     \* the calls of handlers, in the order they began
    trouble,   \* none, refused (by the server), lost (an answer or a load)
    overlap,   \* history: a handler began while another was running
    edited     \* history: resource -> the edits the user made

vars == <<page, srv, shown, shownSel, sel, flags, tasks, trouble, overlap, edited>>

P == Catalog[page]
Handler(h) == P.handlers[h]
Reads == P.reads

Gone == [at |-> "gone"]
Active(i) == i \in DOMAIN tasks /\ tasks[i].at # "gone"
Quiet == \A i \in DOMAIN tasks : ~Active(i)
Request(i) == Handler(tasks[i].h).does[tasks[i].pc]

\* A handler closes over the state of the render it was created in; kept where
\* the handler uses it after an await or sends it.
Closes(h) == Handler(h).stale \/ \E k \in DOMAIN Handler(h).does : Handler(h).does[k].saves # {}
Instant(h) == LET H == Handler(h) IN H.does = <<>> /\ H.edits \cup H.early \cup H.local = {}
Task(h, s, now) == [at |-> "asked", h |-> h, pc |-> 1, sel |-> s, got |-> <<>>,
                    saw |-> IF Closes(h) THEN now ELSE <<>>]
Moved(t, at, pc, got) == [at |-> at, h |-> t.h, pc |-> pc, sel |-> t.sel, got |-> got, saw |-> t.saw]
Called(hs, s) == [k \in DOMAIN hs |-> Task(hs[k], s, shown)]
Raised(hs) == UNION {Handler(hs[k]).busy \cup Handler(hs[k]).raises : k \in DOMAIN hs}
Dropped(hs) == UNION {Handler(hs[k]).drops : k \in DOMAIN hs}
\* Bound: one call while the page is still mounting, MaxCalls beyond those of
\* the mount and what they call once it is mounted.
Follow == UNION {{<<k, j>> : j \in DOMAIN Handler(P.mount[k]).then} : k \in DOMAIN P.mount}
Mounted == \A i \in 1 .. Len(P.mount) + Cardinality(Follow) : ~Active(i)
Room ==
    /\ Len(tasks) < Len(P.mount) + Cardinality(Follow) + MaxCalls
    /\ Mounted \/ Len(tasks) <= Len(P.mount)
\* Bound: one request fails.
MayFail == trouble = "none"

Init ==
    /\ page \in DOMAIN Catalog
    /\ sel \in Sels
    /\ sel = CHOOSE s \in Sels : TRUE
    /\ srv = [r \in Catalog[page].reads |-> {}]
    /\ shown = [r \in Catalog[page].reads |-> {}]
    /\ shownSel = [r \in Catalog[page].reads |-> sel]
    /\ tasks = Called(P.mount, sel)
    /\ flags = P.at \cup Raised(P.mount)
    /\ trouble = "none"
    /\ overlap = FALSE
    /\ edited = [r \in Catalog[page].reads |-> {}]

Offered(c) ==
    /\ c.needs \subseteq flags
    /\ flags \cap (c.unless \cup P.hides) = {}

\* The user presses a control, or types: the part of the handler before its
\* first await.
Begin(h, i) ==
    LET H == Handler(h) IN
    /\ Instant(h) \/ Room
    /\ flags' = (flags \ H.drops) \cup H.busy \cup H.raises
    /\ shown' = [r \in Reads |-> IF r \in H.early \cup H.edits \/ (H.does = <<>> /\ r \in H.local)
                                 THEN shown[r] \cup {i} ELSE shown[r]]
    /\ edited' = [r \in Reads |-> IF r \in H.edits THEN edited[r] \cup {i} ELSE edited[r]]
    /\ IF Instant(h)
       THEN UNCHANGED <<tasks, overlap>>
       ELSE /\ tasks' = Append(tasks, IF H.does = <<>> THEN Gone ELSE Task(h, sel, shown'))
            /\ overlap' = (overlap \/ ~Quiet)

Click(h) ==
    /\ h \in DOMAIN P.controls \cap DOMAIN P.handlers
    /\ Offered(P.controls[h])
    /\ Begin(h, Len(tasks) + 1)
    /\ UNCHANGED <<page, srv, shownSel, sel, trouble>>

\* setInterval and setTimeout: no loader stops them.
Timer(h) ==
    /\ h \in DOMAIN P.timers
    /\ P.timers[h].needs \subseteq flags
    /\ P.timers[h].unless \cap flags = {}
    /\ Begin(h, Len(tasks) + 1)
    /\ UNCHANGED <<page, srv, shownSel, sel, trouble>>

\* Bound: what calls more than two handlers is used on a page at rest.
CallAll(k, hs, s) ==
    /\ Room
    /\ Len(hs) > 2 => Quiet
    /\ k \in DOMAIN P.controls => Offered(P.controls[k])
    /\ sel' = s
    /\ tasks' = tasks \o Called(hs, s)
    /\ flags' = (flags \ Dropped(hs)) \cup Raised(hs)
    /\ overlap' = (overlap \/ ~Quiet)
    /\ UNCHANGED <<page, srv, shown, shownSel, trouble, edited>>

\* The filter, tab, page number or submitted query changes, and with it the
\* handlers that depend on it are called.
Select(k, s) ==
    /\ k \in DOMAIN P.selects
    /\ s # sel
    /\ CallAll(k, P.selects[k], s)

\* A control that calls several handlers.
Press(k) ==
    /\ k \in DOMAIN P.presses
    /\ CallAll(k, P.presses[k], sel)

\* The server carries out the request and answers.
Serve(i) ==
    /\ Active(i)
    /\ tasks[i].at = "asked"
    /\ LET q == Request(i) IN
       /\ srv' = [r \in Reads |-> (IF r \in q.saves THEN tasks[i].saw[r] ELSE srv[r])
                                  \cup (IF r \in q.puts THEN {i} ELSE {})]
       /\ tasks' = [tasks EXCEPT ![i] = Moved(@, "served", @.pc, [r \in q.gets |-> srv'[r]])]
    /\ UNCHANGED <<page, shown, shownSel, sel, flags, trouble, overlap, edited>>

\* What follows the last await of a handler, and the calls it does not await.
End(i, lowers, raises, calls) ==
    LET H == Handler(tasks[i].h) IN
    /\ flags' = (((flags \ H.busy) \ lowers) \cup raises) \cup Raised(calls)
    /\ tasks' = [tasks EXCEPT ![i] = Gone] \o Called(calls, tasks[i].sel)

Onward(i) == tasks' = [tasks EXCEPT ![i] = Moved(@, "asked", @.pc + 1, <<>>)]

Last(i) == tasks[i].pc = Len(Handler(tasks[i].h).does)

\* What the page shows once an answer is in.
Answered(i, r) ==
    LET H == Handler(tasks[i].h)
        now == IF r \in Request(i).gets THEN tasks[i].got[r] ELSE shown[r]
        base == IF H.stale THEN tasks[i].saw[r] ELSE now
    IN  IF Last(i) /\ r \in H.local THEN base \cup {i} ELSE now

\* The answer arrives and the handler goes on.
Answer(i) ==
    /\ Active(i)
    /\ tasks[i].at = "served"
    /\ shown' = [r \in Reads |-> Answered(i, r)]
    /\ shownSel' = [r \in Reads |-> IF r \in Request(i).gets
                                    THEN (IF Request(i).elsewhere THEN "elsewhere" ELSE tasks[i].sel)
                                    ELSE shownSel[r]]
    /\ IF Last(i)
       THEN LET H == Handler(tasks[i].h) IN End(i, H.okLowers, H.okRaises, H.then)
       ELSE Onward(i) /\ UNCHANGED flags
    /\ UNCHANGED <<page, srv, sel, trouble, overlap, edited>>

\* The request is refused, or it is lost before or after the server saw it.
Fail(i) ==
    LET H == Handler(tasks[i].h)
        q == Request(i)
    IN
    /\ Active(i)
    /\ MayFail
    /\ trouble' = IF tasks[i].at = "asked" /\ q.puts \cup q.saves # {} THEN "refused" ELSE "lost"
    /\ shown' = [r \in Reads |-> IF r \in H.blank /\ (q.soft => r \in q.gets) THEN {}
                                 ELSE IF r \in H.early /\ H.undo /\ ~q.soft THEN shown[r] \ {i}
                                 ELSE shown[r]]
    /\ IF ~q.soft THEN End(i, H.failLowers, H.failRaises, H.rescue)
       ELSE IF Last(i) THEN End(i, H.okLowers, H.okRaises, H.then)
       ELSE Onward(i) /\ UNCHANGED flags
    /\ UNCHANGED <<page, srv, shownSel, sel, overlap, edited>>

Next ==
    \/ \E h \in DOMAIN P.handlers : Click(h) \/ Timer(h)
    \/ \E k \in DOMAIN P.selects, s \in Sels : Select(k, s)
    \/ \E k \in DOMAIN P.presses : Press(k)
    \/ \E i \in DOMAIN tasks : Serve(i) \/ Answer(i) \/ Fail(i)

Spec == Init /\ [][Next]_vars
-------------------------------------------------------------------------------
(* What a page may get wrong. The catalog of claims says which page gets what  *)
(* of it right.                                                                *)

\* Flags that disable or spin although nothing runs, and no timer is going to
\* lower them.
Ticking == UNION {Handler(h).okLowers \cup Handler(h).drops :
                  h \in {k \in DOMAIN P.timers : P.timers[k].needs \subseteq flags}}
Stuck == {f \in P.busy \cap flags : Quiet /\ f \notin Ticking}

\* Resources of which a page at rest does not show what the server has, what
\* the user typed aside.
Stale == {r \in Reads : Quiet /\ trouble # "lost" /\ shown[r] \ edited[r] # srv[r] \ edited[r]}

\* Resources that a page at rest shows for another selection.
Misfiled == {r \in Reads : Quiet /\ trouble = "none" /\ shownSel[r] # sel}

\* Resources in which something the user typed is gone.
Forgotten == {r \in Reads : ~(edited[r] \subseteq shown[r])}
================================================================================
