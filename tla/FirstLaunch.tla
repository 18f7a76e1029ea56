------------------------------ MODULE FirstLaunch ------------------------------
(* The wizard of the first start: src/src/web/src/components/FirstLaunchGate.  *)
(* Every callback closes over the step number of the render it was made in. A  *)
(* step that is left stays on the page, callbacks and all, while it fades out  *)
(* (AnimatePresence, mode wait), and the requests it made stay out; so callbacks *)
(* of several renders may be called in any order.                              *)
EXTENDS Integers, Sequences, SequencesExt

CONSTANTS MaxAsks,    \* bound: requests the user causes
          MaxFaults,  \* bound: requests or answers that are lost
          MaxVisits    \* bound: times the page is loaded

VARIABLES
    server,    \* admin: an account exists; completed: setup_completed; libraries
    checking,  \* the gate waits for its bootstrap requests
    done,      \* the gate shows the application
    steps, idx,
    panel,     \* the step on the page: its name, its busy flag, the step number
               \* and the number of steps its callbacks close over
    prep,      \* PrepareStep: its first timer, its request, its second timer
    asks,      \* the requests that are out
    chosen,    \* history: an edition was asked for since the page was loaded
    faults, visits, asked

wizard == <<server, checking, done, steps, idx, panel, prep, asks, chosen, faults, visits, asked>>

Nowhere == [step |-> "none", at |-> 0, of |-> 0, busy |-> FALSE]
Fresh(step, i, n) == [step |-> step, at |-> i, of |-> n, busy |-> FALSE]
Current == IF idx \in DOMAIN steps THEN steps[idx] ELSE "none"
Present == panel.step = Current

WizardInit ==
    /\ server = [admin |-> FALSE, completed |-> FALSE, libraries |-> 0]
    /\ checking = TRUE /\ done = FALSE
    /\ steps = <<>> /\ idx = 1
    /\ panel = Nowhere /\ prep = "idle"
    /\ asks = {} /\ chosen = FALSE
    /\ faults = 0 /\ visits = 1 /\ asked = 0

FullFlow(needsLicense) ==
    <<"welcome", "admin", "identity", "ffmpeg", "library">>
    \o (IF needsLicense THEN <<"license">> ELSE <<>>) \o <<"prepare", "finish">>

\* Both status requests, or neither.
Bootstrap ==
    /\ checking
    /\ checking' = FALSE
    /\ \/ /\ steps' = IF ~server.admin THEN FullFlow(~server.completed)
                      ELSE IF ~server.completed THEN <<"license", "prepare", "finish">> ELSE <<>>
          /\ done' = (steps' = <<>>)
          /\ UNCHANGED faults
       \/ /\ faults < MaxFaults
          /\ faults' = faults + 1
          /\ done' = TRUE
          /\ UNCHANGED steps
    /\ UNCHANGED <<server, idx, panel, prep, asks, chosen, visits, asked>>

\* The gate renders again: the step on the page is handed new callbacks, unless
\* it is the one fading out. PrepareStep's effect depends on its callback: it
\* cancels what it had begun and starts over.
Render(p) ==
    LET now == IF idx' \in DOMAIN steps' THEN steps'[idx'] ELSE "none" IN
    IF done' THEN panel' = Nowhere /\ prep' = "idle"
    ELSE IF p.step = now
         THEN /\ panel' = [p EXCEPT !.at = idx', !.of = Len(steps')]
              /\ prep' = IF now = "prepare" THEN "timer" ELSE prep
         ELSE panel' = p /\ UNCHANGED prep

\* The old step has faded out, or there was none.
MountStep ==
    /\ ~checking /\ ~done /\ ~Present
    /\ panel' = Fresh(Current, idx, Len(steps))
    /\ prep' = IF Current = "prepare" THEN "timer" ELSE "idle"
    /\ asks' = {[a EXCEPT !.mounted = FALSE] : a \in asks}
    /\ UNCHANGED <<server, checking, done, steps, idx, chosen, faults, visits, asked>>

\* Mutant: one step further than wherever the wizard is by now.
GoNext_Functional(i, n, p) ==
    /\ IF idx < n THEN idx' = idx + 1 /\ UNCHANGED done ELSE done' = TRUE /\ UNCHANGED idx
    /\ UNCHANGED steps
    /\ Render(p)

\* next and back as of the render in which the step number was i of n.
GoNext(i, n, p) ==
    /\ IF i < n THEN idx' = i + 1 /\ UNCHANGED done ELSE done' = TRUE /\ UNCHANGED idx
    /\ UNCHANGED steps
    /\ Render(p)

Back ==
    /\ panel.step \notin {"none", "welcome", "prepare", "finish"}
    /\ panel.at > 1
    /\ idx' = panel.at - 1
    /\ UNCHANGED <<steps, done>>
    /\ Render(panel)
    /\ UNCHANGED <<server, checking, asks, chosen, faults, visits, asked>>

Leaves(step) ==
    /\ panel.step = step
    /\ GoNext(panel.at, panel.of, panel)
    /\ UNCHANGED <<server, checking, asks, chosen, faults, visits, asked>>

\* No busy flag disables these: the library step can be skipped while its
\* request is out.
BeginSetup     == Leaves("welcome")
ContinueFfmpeg == Leaves("ffmpeg")
SkipLibrary    == Leaves("library")

FinishLaunch ==
    /\ panel.step = "finish"
    /\ done' = TRUE
    /\ UNCHANGED <<steps, idx>>
    /\ Render(panel)
    /\ UNCHANGED <<server, checking, asks, chosen, faults, visits, asked>>

Ask(kind) ==
    /\ asked < MaxAsks
    /\ asked' = asked + 1
    /\ asks' = asks \cup {[n |-> asked', kind |-> kind, at |-> panel.at, of |-> panel.of, mounted |-> TRUE]}
    /\ panel' = [panel EXCEPT !.busy = TRUE]
    /\ UNCHANGED <<server, checking, done, steps, idx, prep, chosen, faults, visits>>

\* Enter calls save, create and activate whatever busy is.
SubmitAdmin    == panel.step = "admin" /\ ~panel.busy /\ Ask("setup")
SaveIdentity   == panel.step = "identity" /\ Ask("identity")
CreateLibrary  == panel.step = "library" /\ Ask("library")
ActivateSerial == panel.step = "license" /\ Ask("serial")
SkipLicense    == panel.step = "license" /\ ~panel.busy /\ Ask("skip")

\* What the server does: it takes one setup and one choice of an edition.
Taken(a) == CASE a.kind = "setup" -> ~server.admin
              [] a.kind \in {"serial", "skip"} -> ~server.completed
              [] OTHER -> TRUE
After(a) == CASE a.kind = "setup" -> [server EXCEPT !.admin = TRUE]
              [] a.kind = "library" -> [server EXCEPT !.libraries = @ + 1]
              [] a.kind \in {"serial", "skip"} -> [server EXCEPT !.completed = TRUE]
              [] OTHER -> server

NotBusy(a) == IF a.mounted THEN [panel EXCEPT !.busy = FALSE] ELSE panel

\* onAdminCreated drops the first two steps, and identity is the first.
OnCreated(a) ==
    /\ steps' = LET i == SelectInSeq(steps, LAMBDA s : s = "identity")
                IN IF i > 0 THEN SubSeq(steps, i, Len(steps)) ELSE steps
    /\ idx' = 1
    /\ UNCHANGED done
    /\ Render(NotBusy(a))

Stays(a) == panel' = NotBusy(a) /\ UNCHANGED <<done, steps, idx, prep>>

\* identity and skip go on whatever comes of them; a serial or a library that
\* was taken leaves the step busy.
CameBack(a, ok) ==
    CASE a.kind = "setup" -> IF ok THEN OnCreated(a) ELSE Stays(a)
      [] a.kind = "identity" -> GoNext(a.at, a.of, NotBusy(a))
      [] a.kind = "skip" -> GoNext(a.at, a.of, panel)
      [] OTHER -> IF ok THEN GoNext(a.at, a.of, panel) ELSE Stays(a)

AskAnswered(a) ==
    /\ server' = IF Taken(a) THEN After(a) ELSE server
    /\ asks' = asks \ {a}
    /\ CameBack(a, Taken(a))
    /\ chosen' = (chosen \/ a.kind = "skip" \/ (a.kind = "serial" /\ Taken(a)))
    /\ UNCHANGED <<checking, faults, visits, asked>>

\* Lost on its way there, refused for another reason, or lost on its way back.
AskLost(a) ==
    /\ faults < MaxFaults
    /\ faults' = faults + 1
    /\ server' \in {server, IF Taken(a) THEN After(a) ELSE server}
    /\ asks' = asks \ {a}
    /\ CameBack(a, FALSE)
    /\ chosen' = (chosen \/ a.kind = "skip")
    /\ UNCHANGED <<checking, visits, asked>>

\* PrepareStep: 1.2 seconds, a request whose failure is ignored, 1.8 seconds.
PrepTimer == prep = "timer" /\ prep' = "asked"
             /\ UNCHANGED <<server, checking, done, steps, idx, panel, asks, chosen, faults, visits, asked>>
PrepAnswer == prep = "asked" /\ prep' = "delay"
              /\ UNCHANGED <<server, checking, done, steps, idx, panel, asks, chosen, faults, visits, asked>>
\* Mutant: a failed preparation ends the step's timers.
PrepLost_GivesUp ==
    /\ prep = "asked" /\ prep' = "idle"
    /\ faults < MaxFaults
    /\ faults' = faults + 1
    /\ UNCHANGED <<server, checking, done, steps, idx, panel, asks, chosen, visits, asked>>

PrepLost ==
    /\ prep = "asked" /\ prep' = "delay"
    /\ faults < MaxFaults
    /\ faults' = faults + 1
    /\ UNCHANGED <<server, checking, done, steps, idx, panel, asks, chosen, visits, asked>>
PrepDelay ==
    /\ prep = "delay"
    /\ panel.at < panel.of         \* never the last step
    /\ idx' = panel.at + 1
    /\ prep' = "idle"
    /\ UNCHANGED <<server, checking, done, steps, panel, asks, chosen, faults, visits, asked>>

\* The browser visits the page again; answers go nowhere.
LoadAgain ==
    /\ visits < MaxVisits
    /\ visits' = visits + 1
    /\ checking' = TRUE /\ done' = FALSE
    /\ steps' = <<>> /\ idx' = 1
    /\ panel' = Nowhere /\ prep' = "idle"
    /\ asks' = {} /\ chosen' = FALSE
    /\ UNCHANGED <<server, faults, asked>>

WizardNext ==
    \/ Bootstrap \/ MountStep \/ LoadAgain
    \/ BeginSetup \/ ContinueFfmpeg \/ SkipLibrary \/ Back \/ FinishLaunch
    \/ SubmitAdmin \/ SaveIdentity \/ CreateLibrary \/ ActivateSerial \/ SkipLicense
    \/ \E a \in asks : AskAnswered(a) \/ AskLost(a)
    \/ PrepTimer \/ PrepAnswer \/ PrepLost \/ PrepDelay

\* Timers fire, fades end, and a request is answered or given up in the end.
\* Nothing obliges the user.
WizardFairness == /\ WF_wizard(PrepTimer) /\ WF_wizard(PrepAnswer) /\ WF_wizard(PrepDelay)
                  /\ WF_wizard(MountStep)

WizardSpec == WizardInit /\ [][WizardNext]_wizard /\ WizardFairness
-------------------------------------------------------------------------------
WizardTypeOK ==
    /\ panel.step \in {"none"} \cup ToSet(FullFlow(TRUE))
    /\ ~checking /\ ~done => idx \in DOMAIN steps
    /\ prep \in {"idle", "timer", "asked", "delay"}
    /\ prep # "idle" => panel.step = "prepare"
    /\ \A a \in asks : a.mounted => panel.step # "none"

\* No order of clicks on steps that fade out, of Enter keys and of late answers
\* leads past the account or past the edition: whoever is beyond them had the
\* account created and an edition asked for.
NothingSkipped ==
    /\ Current \in {"identity", "ffmpeg", "library"} => server.admin
    /\ Current \in {"prepare", "finish"} /\ "license" \in ToSet(steps) => chosen

\* The preparing step is always left again, whatever comes of its request and
\* however often late answers make its effect start over.
PrepareEnds == panel.step = "prepare" ~> panel.step # "prepare"
================================================================================
