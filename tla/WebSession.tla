------------------------------ MODULE WebSession ------------------------------
(* The contexts of the web client that outlive its pages                       *)
(* (src/src/web/src/context): who is signed in, which edition is unlocked,     *)
(* which gadgets are installed. Each is a copy of something the server keeps,  *)
(* fetched by requests that may overtake each other and that carry whatever    *)
(* cookie the browser held when they were sent.                                *)
EXTENDS Integers, SequencesExt

CONSTANTS MaxLogins, MaxLogouts, MaxReloads, MaxInstalls, MaxChanges, MaxLost,
          MaxWire    \* bound: the requests in flight when the user acts

VARIABLES
    version,          \* server: the token version; a cookie of another is refused
    licensed,         \* server: the edition
    gadgets,          \* server: how many gadgets are installed
    jar,              \* browser: the token version of its cookie, 0 without one
    gate,             \* FirstLaunchGate: the wizard, or the routes
    isAuthenticated,  \* AuthContext
    loading,          \* AuthContext: the first probe is out
    tier,             \* LicenseContext
    installed,        \* GadgetContext: how many gadgets it shows
    wire,             \* the requests that have not been answered
    used,             \* bounds: how often each event has happened
    history           \* what the properties ask about the past

session == <<version, licensed, gadgets, jar, gate, isAuthenticated, loading, tier,
             installed, wire, used, history>>

Editions == {"standard", "paid"}

Request(op, cookie) == [op |-> op, cookie |-> cookie, at |-> "asked", ok |-> FALSE, got |-> 0]
Room == Len(wire) < MaxWire
InFlight(op) == \E i \in DOMAIN wire : wire[i].op = op
Silent == wire = <<>>

Count(event) == used' = [used EXCEPT ![event] = @ + 1]

\* History: two fetches of one copy were in flight at once; the last fetch of
\* the edition was answered, not refused; a second logout was sent.
Fetching(op) == history' = [history EXCEPT !.crossed = IF InFlight(op) THEN @ \cup {op} ELSE @]

\* The app loads: every provider mounts with its initial state, AuthProvider
\* probes and LicenseProvider fetches. GadgetProvider waits for a user.
Mount == <<Request("probe", jar), Request("license", jar)>>

SessionInit ==
    /\ version = 1 /\ licensed = "standard" /\ gadgets = 0
    /\ jar = 0
    /\ gate \in {"wizard", "routes"}
    /\ isAuthenticated = FALSE /\ loading = TRUE
    /\ tier = "standard" /\ installed = 0
    /\ wire = <<Request("probe", 0), Request("license", 0)>>
    /\ used = [logins |-> 0, logouts |-> 0, reloads |-> 0, installs |-> 0, changes |-> 0, lost |-> 0]
    /\ history = [crossed |-> {}, answered |-> FALSE, again |-> FALSE]

Reload ==
    /\ used.reloads < MaxReloads
    /\ Count("reloads")
    /\ gate' = "routes"
    /\ isAuthenticated' = FALSE /\ loading' = TRUE
    /\ tier' = "standard" /\ installed' = 0
    /\ wire' = Mount
    /\ history' = [crossed |-> {}, answered |-> FALSE, again |-> FALSE]
    /\ UNCHANGED <<version, licensed, gadgets, jar>>

\* Mutant: the login page does not wait for the probe.
PublicRoute_WhileProbing == ~isAuthenticated

\* AuthPage is a PublicRoute: a loader until the probe is back, the home page
\* for who is signed in. Its button is disabled while a login is out.
PublicRoute == ~loading /\ ~isAuthenticated
Login ==
    /\ gate = "routes"
    /\ PublicRoute
    /\ ~InFlight("login")
    /\ Room
    /\ used.logins < MaxLogins
    /\ Count("logins")
    /\ wire' = Append(wire, Request("login", jar))
    /\ UNCHANGED <<version, licensed, gadgets, jar, gate, isAuthenticated, loading, tier, installed, history>>

\* The sidebar of every protected route; the button is never disabled.
ProtectedRoute == gate = "routes" /\ ~loading /\ isAuthenticated
Logout ==
    /\ ProtectedRoute
    /\ used.logouts < MaxLogouts
    /\ Room
    /\ Count("logouts")
    /\ wire' = Append(wire, Request("logout", jar))
    /\ history' = [history EXCEPT !.again = @ \/ InFlight("logout")]
    /\ UNCHANGED <<version, licensed, gadgets, jar, gate, isAuthenticated, loading, tier, installed>>

\* install, uninstall, activate and deactivate of GadgetContext.
Install ==
    /\ ProtectedRoute
    /\ used.installs < MaxInstalls
    /\ Room
    /\ Count("installs")
    /\ wire' = Append(wire, Request("install", jar))
    /\ UNCHANGED <<version, licensed, gadgets, jar, gate, isAuthenticated, loading, tier, installed, history>>

\* handleActivate and handleDeactivate of ActivationSettings. Bound: one at a
\* time, which only the first ensures by itself.
Activate ==
    /\ ProtectedRoute
    /\ ~InFlight("activate")
    /\ Room
    /\ used.changes < MaxChanges
    /\ Count("changes")
    /\ wire' = Append(wire, Request("activate", jar))
    /\ UNCHANGED <<version, licensed, gadgets, jar, gate, isAuthenticated, loading, tier, installed, history>>

\* The wizard's administrator step signs the browser in, not the client: it is
\* handed no setIsAuthenticated (module FirstLaunch has the steps).
OnAdminCreated ==
    /\ gate = "wizard" /\ jar = 0
    /\ jar' = version
    /\ UNCHANGED <<version, licensed, gadgets, gate, isAuthenticated, loading, tier, installed, wire, used, history>>

WizardLicense ==
    /\ gate = "wizard" /\ jar # 0
    /\ licensed' = "paid"
    /\ UNCHANGED <<version, gadgets, jar, gate, isAuthenticated, loading, tier, installed, wire, used, history>>

FetchLicense(left) ==
    /\ wire' = Append(left, Request("license", jar))
    /\ Fetching("license")

\* finishWizard dispatches watchnexus_license_changed and opens the gate.
FinishWizard ==
    /\ gate = "wizard" /\ jar # 0
    /\ gate' = "routes"
    /\ FetchLicense(wire)
    /\ UNCHANGED <<version, licensed, gadgets, jar, isAuthenticated, loading, tier, installed, used>>

-------------------------------------------------------------------------------
\* The server. Everything but the login asks for a cookie of its version.
ServeRequest(i) ==
    LET q == wire[i]
        ok == q.op = "login" \/ q.cookie = version
        got == CASE q.op = "login" -> version
                 [] q.op = "license" -> licensed
                 [] q.op = "gadgets" -> gadgets
                 [] OTHER -> 0
    IN
    /\ q.at = "asked"
    /\ wire' = [wire EXCEPT ![i] = [q EXCEPT !.at = "served", !.ok = ok, !.got = got]]
    /\ version' = IF ok /\ q.op = "logout" THEN version + 1 ELSE version
    /\ gadgets' = IF ok /\ q.op = "install" THEN gadgets + 1 ELSE gadgets
    /\ \E edition \in Editions : licensed' = IF ok /\ q.op = "activate" THEN edition ELSE licensed
    /\ UNCHANGED <<jar, gate, isAuthenticated, loading, tier, installed, used, history>>

\* setIsAuthenticated, and GadgetContext's effect when it changes: fetch on
\* login, clear on logout.
SetIsAuthenticated(b, cookie, left) ==
    /\ isAuthenticated' = b
    /\ IF b /\ ~isAuthenticated
       THEN /\ wire' = Append(left, Request("gadgets", cookie))
            /\ Fetching("gadgets")
            /\ UNCHANGED installed
       ELSE /\ wire' = left
            /\ installed' = IF ~b /\ isAuthenticated THEN 0 ELSE installed
            /\ UNCHANGED history

FetchUserDone(ok, left) ==
    /\ SetIsAuthenticated(ok, jar, left)
    /\ loading' = FALSE
    /\ UNCHANGED <<jar, tier>>

\* The cookie of the answer is in the jar before the handler goes on.
LoginDone(ok, cookie, left) ==
    /\ jar' = IF ok THEN cookie ELSE jar
    /\ IF ok THEN SetIsAuthenticated(TRUE, cookie, left)
             ELSE wire' = left /\ UNCHANGED <<isAuthenticated, installed, history>>
    /\ UNCHANGED <<loading, tier>>

\* Whatever became of the request, the client forgets the user.
LogoutDone(ok, left) ==
    /\ jar' = IF ok THEN 0 ELSE jar
    /\ SetIsAuthenticated(FALSE, jar', left)
    /\ UNCHANGED <<loading, tier>>

FetchLicenseDone(ok, got, left) ==
    /\ tier' = IF ok THEN got ELSE "standard"
    /\ wire' = left
    /\ history' = [history EXCEPT !.answered = ok]
    /\ UNCHANGED <<jar, isAuthenticated, loading, installed>>

RefreshDone(ok, got, left) ==
    /\ installed' = IF ok THEN got ELSE installed
    /\ wire' = left
    /\ UNCHANGED <<jar, isAuthenticated, loading, tier, history>>

InstallDone(ok, left) ==
    /\ IF ok THEN /\ wire' = Append(left, Request("gadgets", jar))
                  /\ Fetching("gadgets")
             ELSE wire' = left /\ UNCHANGED history
    /\ UNCHANGED <<jar, isAuthenticated, loading, tier, installed>>

\* Mutant: no event after the edition was changed.
ActivateDone_NoEvent(ok, left) ==
    /\ wire' = left /\ UNCHANGED history
    /\ UNCHANGED <<jar, isAuthenticated, loading, tier, installed>>

\* ActivationSettings tells LicenseContext by an event.
ActivateDone(ok, left) ==
    /\ IF ok THEN FetchLicense(left) ELSE wire' = left /\ UNCHANGED history
    /\ UNCHANGED <<jar, isAuthenticated, loading, tier, installed>>

Done(i, ok) ==
    LET q == wire[i]
        left == RemoveAt(wire, i)
    IN
    /\ \/ q.op = "probe" /\ FetchUserDone(ok, left)
       \/ q.op = "login" /\ LoginDone(ok, q.got, left)
       \/ q.op = "logout" /\ LogoutDone(ok, left)
       \/ q.op = "license" /\ FetchLicenseDone(ok, q.got, left)
       \/ q.op = "gadgets" /\ RefreshDone(ok, q.got, left)
       \/ q.op = "install" /\ InstallDone(ok, left)
       \/ q.op = "activate" /\ ActivateDone(ok, left)
    /\ UNCHANGED <<version, licensed, gadgets, gate>>

AnswerRequest(i) == wire[i].at = "served" /\ Done(i, wire[i].ok) /\ UNCHANGED used

\* The request, or its answer, is lost.
LoseRequest(i) == used.lost < MaxLost /\ Done(i, FALSE) /\ Count("lost")

SessionNext ==
    \/ Reload \/ Login \/ Logout \/ Install \/ Activate
    \/ OnAdminCreated \/ WizardLicense \/ FinishWizard
    \/ \E i \in DOMAIN wire : ServeRequest(i) \/ AnswerRequest(i) \/ LoseRequest(i)

SessionSpec == SessionInit /\ [][SessionNext]_session
-------------------------------------------------------------------------------
SessionTypeOK ==
    /\ version \in 1 .. MaxLogouts + 1 /\ jar \in 0 .. version
    /\ licensed \in Editions /\ tier \in Editions
    /\ gadgets \in 0 .. MaxInstalls /\ installed \in 0 .. gadgets
    /\ gate \in {"wizard", "routes"}
    /\ isAuthenticated \in BOOLEAN /\ loading \in BOOLEAN
    /\ \A i \in DOMAIN wire : wire[i].at \in {"asked", "served"} /\ wire[i].cookie \in 0 .. version

\* Nothing is in flight and nothing was lost.
Settled == Silent /\ used.lost = 0

\* Once everything is answered, the client thinks it is signed in exactly when
\* the server takes its cookie: the probe of the load cannot undo a login, a
\* login cannot be half done. A second logout press is excepted, it signs out
\* whoever signed in after the first; so is the wizard, which sets no flag.
SessionAgrees ==
    Settled /\ ~history.again /\ used.logins > 0 => (isAuthenticated <=> jar = version)

\* Once everything is answered, the contexts show what the server has: the
\* edition if the last fetch of it was not refused, the gadgets if somebody is
\* signed in, each if no two fetches of it crossed. Whoever changes one of them
\* (the settings, the wizard, the gadget pages) has it fetched again afterwards.
\* A second logout press is excepted for the gadgets: answered late, it leaves
\* the client signed in with a cookie the server refuses.
CopiesFollow ==
    Settled =>
      /\ gate = "routes" /\ "license" \notin history.crossed /\ history.answered
            => tier = licensed
      /\ isAuthenticated /\ ~history.again /\ "gadgets" \notin history.crossed => installed = gadgets

\* What __tests__/state/06-cross-context-interactions.test.js says of a login:
\* the edition is fetched for the user who signs in.
LoginBringsTier == Settled /\ isAuthenticated => tier = licensed

\* What GadgetContext.jsx says of its effect: fetch on login, clear on logout.
ClearedOnLogout == Settled /\ ~isAuthenticated => installed = 0
================================================================================
