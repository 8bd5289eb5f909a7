------------------------------- MODULE Shell --------------------------------
(***************************************************************************)
(* What stands around the client's pages, in three small machines:         *)
(*  - the service worker (sw.js) and the page's side of an update          *)
(*    (src/ui/features/install.js): deploys, installs, the reload a user   *)
(*    asks for, the switch that evicts every worker, two tabs;             *)
(*  - the toasts (src/ui/shell/toast.js): a queue and three timers;        *)
(*  - dialogs and the gate (src/ui/primitives/modal.js,                    *)
(*    src/ui/shell/gate.js) and the QR code (src/ui/features/qr.js), which *)
(*    all make the page behind them inert.                                 *)
(*                                                                         *)
(* The life of workers is the browser's, external, as its specification    *)
(* has it.  A definition marked "Fault" is the next one with a bug one     *)
(* could plausibly write.                                                  *)
(***************************************************************************)
EXTENDS Integers, Sequences

CONSTANTS
    MaxVersion,                 \* bound: builds deployed; the one after them is the switch
    MaxLoads,                   \* bound: navigations, clicks, and the network's comings and goings
    ToastMax, MaxToasts,        \* QUEUE_MAX; bound on toasts
    MaxDialogs                  \* bound: dialogs opened and gates raised

ASSUME ShellAssumption ==
    /\ {MaxLoads, MaxToasts, MaxDialogs} \subseteq Nat
    /\ MaxVersion \in Nat \ {0} /\ ToastMax \in Nat \ {0}

-----------------------------------------------------------------------------
(* The worker.  Versions are numbered; 0 is none.                          *)

Kill == MaxVersion + 1
Page == {"tab1", "tab2"}

VARIABLES
    site,           \* the build the site serves
    netUp,
    installing, waiting, active,
    mayActivate,    \* skipWaiting() was called for the waiting worker
    shells,         \* the versions that have a cache
    code,           \* the build a page runs, 0 for the offline notice
    controller,     \* the worker a page is controlled by
    hadController,  \* there was one when it loaded
    untold,         \* pages whose controllerchange has not been dispatched
    banner,         \* "A new version is ready" is shown
    wantsReload,
    surprised,      \* history: a page was reloaded with nobody asking
    loads

shellVars == <<site, netUp, installing, waiting, active, mayActivate, shells, code, controller,
                 hadController, untold, banner, wantsReload, surprised, loads>>

Loads == loads < MaxLoads /\ loads' = loads + 1
WorkersUnchanged == UNCHANGED <<installing, waiting, active, mayActivate>>
PagesUnchanged == UNCHANGED <<code, controller, hadController, untold, banner, wantsReload, surprised>>

Deploys ==
    /\ site <= MaxVersion /\ site' = site + 1
    /\ WorkersUnchanged /\ PagesUnchanged /\ UNCHANGED <<netUp, shells, loads>>
NetFlips ==
    /\ Loads /\ netUp' = ~netUp
    /\ WorkersUnchanged /\ PagesUnchanged /\ UNCHANGED <<site, shells>>

\* The browser fetches sw.js and finds it changed: install, into a cache of its own.
\* Fault: the switch waits for consent, as any update does.
KillWaits(v) == FALSE
KillSkips(v) == v = Kill
UpdateFound ==
    /\ netUp /\ installing = 0 /\ site \notin {waiting, active}
    /\ \E p \in Page : code[p] # 0
    /\ installing' = site
    /\ shells' = shells \cup ({site} \ {Kill})
    /\ PagesUnchanged /\ UNCHANGED <<site, netUp, waiting, active, mayActivate, loads>>

\* It is installed: pages under a worker offer the reload.
Installed ==
    /\ installing # 0 /\ installing' = 0 /\ waiting' = installing
    /\ mayActivate' = (KillSkips(installing) \/ active = 0)
    /\ banner' = [p \in Page |-> banner[p] \/ controller[p] # 0]
    /\ UNCHANGED <<site, netUp, active, shells, code, controller, hadController, untold,
                   wantsReload, surprised, loads>>

\* networkFirst: the page is the site's, or else the cached one of the worker's build.
Fetched(by) == IF netUp THEN site ELSE IF by \in shells THEN by ELSE 0
Reload(p) ==
    /\ code' = [code EXCEPT ![p] = Fetched(active)]
    /\ controller' = [controller EXCEPT ![p] = active]
    /\ hadController' = [hadController EXCEPT ![p] = active # 0]
    /\ wantsReload' = [wantsReload EXCEPT ![p] = FALSE]
    /\ banner' = [banner EXCEPT ![p] = waiting # 0 /\ active # 0]
    /\ untold' = untold \ {p}

\* activate: the other builds' caches go, and every page is claimed.  The switch drops all
\* caches, itself, and reloads what it controlled.
Activates ==
    /\ waiting # 0 /\ mayActivate /\ waiting' = 0 /\ mayActivate' = FALSE
    /\ shells' = shells \cap ({waiting} \ {Kill})
    /\ active' = IF waiting = Kill THEN 0 ELSE waiting
    /\ IF waiting = Kill
       THEN /\ code' = [p \in Page |-> IF controller[p] = 0 THEN code[p] ELSE Fetched(0)]
            /\ controller' = [p \in Page |-> 0] /\ hadController' = [p \in Page |-> FALSE]
            /\ banner' = [p \in Page |-> FALSE] /\ wantsReload' = [p \in Page |-> FALSE]
            /\ untold' = {}
       ELSE /\ controller' = [p \in Page |-> waiting] /\ untold' = Page
            /\ UNCHANGED <<code, hadController, banner, wantsReload>>
    /\ UNCHANGED <<site, netUp, installing, surprised, loads>>

\* controllerchange: a page that asked reloads, another says there is a new version.
\* Fault: any page reloads.
SwapsAlways(p) == TRUE
Swaps(p) == wantsReload[p]
ControllerChanged(p) ==
    /\ p \in untold
    /\ IF Swaps(p)
       THEN Reload(p) /\ surprised' = (surprised \/ ~wantsReload[p])
       ELSE /\ untold' = untold \ {p} /\ banner' = [banner EXCEPT ![p] = @ \/ hadController[p]]
            /\ UNCHANGED <<code, controller, hadController, wantsReload, surprised>>
    /\ WorkersUnchanged /\ UNCHANGED <<site, netUp, shells, loads>>

\* applyUpdate: the click asks the waiting worker to take over, or reloads.
ClicksReload(p) ==
    /\ Loads /\ banner[p]
    /\ IF waiting # 0
       THEN /\ mayActivate' = TRUE
            /\ banner' = [banner EXCEPT ![p] = FALSE]
            /\ wantsReload' = [wantsReload EXCEPT ![p] = TRUE]
            /\ UNCHANGED <<code, controller, hadController, untold>>
       ELSE Reload(p) /\ UNCHANGED mayActivate
    /\ UNCHANGED <<site, netUp, installing, waiting, active, shells, surprised>>
Dismisses(p) ==
    /\ Loads /\ banner[p] /\ banner' = [banner EXCEPT ![p] = FALSE]
    /\ WorkersUnchanged
    /\ UNCHANGED <<site, netUp, shells, code, controller, hadController, untold, wantsReload, surprised>>

\* The fallback of 1.5 s, if the swap never lands.  Fault: there is none.
FallbackNone(p) == FALSE
Fallback(p) == wantsReload[p]
GivesUpOnSwap(p) ==
    /\ Fallback(p) /\ Reload(p)
    /\ WorkersUnchanged /\ UNCHANGED <<site, netUp, shells, surprised, loads>>

\* The user reloads the page by himself.
Navigates(p) ==
    /\ Loads /\ Reload(p)
    /\ WorkersUnchanged /\ UNCHANGED <<site, netUp, shells, surprised>>

ShellWorkerInit ==
    /\ site = 1 /\ netUp = TRUE /\ installing = 0 /\ waiting = 0 /\ active = 0 /\ mayActivate = FALSE
    /\ shells = {} /\ code = [p \in Page |-> 1]
    /\ controller = [p \in Page |-> 0] /\ hadController = [p \in Page |-> FALSE] /\ untold = {}
    /\ banner = [p \in Page |-> FALSE] /\ wantsReload = [p \in Page |-> FALSE]
    /\ surprised = FALSE /\ loads = 0
ShellWorkerWork == Activates \/ Installed
    \/ \E p \in Page : ControllerChanged(p) \/ GivesUpOnSwap(p)
ShellWorkerNext == Deploys \/ NetFlips \/ UpdateFound \/ Activates \/ Installed
    \/ \E p \in Page : ControllerChanged(p) \/ ClicksReload(p) \/ Dismisses(p) \/ GivesUpOnSwap(p)
                       \/ Navigates(p)

\* An update never reloads a page whose user did not ask, with a clip half typed in it: not
\* when another tab's user did (sw.js:201-204, install.js:294-297).
NoSurpriseReload == ~surprised

\* The reload button never goes dead: whatever becomes of the waiting worker, the page that
\* asked reloads (install.js:304-305).
ReloadHappens == \A p \in Page : wantsReload[p] ~> ~wantsReload[p]

Evicted == active = 0 /\ shells = {}
\* Once the switch is deployed and fetched, every worker and every cache goes for good, and
\* nobody has to consent (sw.js:32-43).
KillEvicts == (Kill \in {installing, waiting}) ~> []Evicted

\* install.js:294-305, sw.js:32-43: a page reloads when asked, only when asked, and the
\* kill switch needs no asking.
UpdatesOnAsking == []NoSurpriseReload /\ ReloadHappens /\ KillEvicts
-----------------------------------------------------------------------------
(* The toasts.                                                             *)

VARIABLES
    toasts,         \* the queue of messages, numbered
    onScreen,       \* the one shown, or 0
    minimumOver,    \* it has had its time
    hideTimer, pumpTimer,
    made,           \* messages so far
    seen,           \* history: those that were shown
    skipped         \* history: those dropped by a burst or a dismissal

toastVars == <<toasts, onScreen, minimumOver, hideTimer, pumpTimer, made, seen, skipped>>

Paint(queue) ==
    /\ onScreen' = Head(queue) /\ toasts' = Tail(queue) /\ seen' = seen \cup {Head(queue)}
    /\ minimumOver' = FALSE /\ hideTimer' = TRUE

\* hide() schedules the next pump.  Fault: it leaves that to the next show().
NextPumpNone(queue) == pumpTimer
NextPump(queue) == pumpTimer \/ queue # <<>>
Hide(queue) ==
    /\ onScreen' = 0 /\ hideTimer' = FALSE /\ toasts' = queue /\ pumpTimer' = NextPump(queue)
    /\ UNCHANGED <<minimumOver, seen>>

\* pump(), as the timer left it.
PumpToast(queue, timer) ==
    IF timer \/ queue = <<>>
    THEN toasts' = queue /\ pumpTimer' = timer /\ UNCHANGED <<onScreen, minimumOver, hideTimer, seen>>
    ELSE IF onScreen = 0 THEN Paint(queue) /\ pumpTimer' = FALSE
    ELSE IF ~minimumOver
    THEN toasts' = queue /\ pumpTimer' = TRUE /\ UNCHANGED <<onScreen, minimumOver, hideTimer, seen>>
    ELSE Hide(queue)

\* show(): over QUEUE_MAX the stalest goes.  Fault: the newest does.
KeptOldest(queue) == SubSeq(queue, 1, ToastMax)
Kept(queue) == SubSeq(queue, Len(queue) - ToastMax + 1, Len(queue))
ShowsToast ==
    /\ made < MaxToasts /\ made' = made + 1
    /\ LET all == Append(toasts, made')
           queue == IF Len(all) > ToastMax THEN Kept(all) ELSE all
       IN /\ PumpToast(queue, pumpTimer)
          /\ skipped' = skipped \cup ({all[i] : i \in DOMAIN all} \ {queue[i] : i \in DOMAIN queue})
ShowsAgain ==
    /\ onScreen # 0 /\ hideTimer' = TRUE
    /\ UNCHANGED <<toasts, onScreen, minimumOver, pumpTimer, made, seen, skipped>>
MinimumEnds ==
    /\ onScreen # 0 /\ ~minimumOver /\ minimumOver' = TRUE
    /\ UNCHANGED <<toasts, onScreen, hideTimer, pumpTimer, made, seen, skipped>>
PumpFires == pumpTimer /\ (onScreen = 0 \/ minimumOver) /\ PumpToast(toasts, FALSE) /\ UNCHANGED <<made, skipped>>
HideFires == hideTimer /\ minimumOver /\ Hide(toasts) /\ UNCHANGED <<made, skipped>>
DismissesToast ==
    /\ onScreen # 0 /\ Hide(<<>>) /\ skipped' = skipped \cup {toasts[i] : i \in DOMAIN toasts}
    /\ UNCHANGED made

ToastInit == toasts = <<>> /\ onScreen = 0 /\ minimumOver = FALSE /\ hideTimer = FALSE
    /\ pumpTimer = FALSE /\ made = 0 /\ seen = {} /\ skipped = {}
ToastWork == MinimumEnds \/ PumpFires \/ HideFires
ToastNext == ToastWork \/ ShowsToast \/ ShowsAgain \/ DismissesToast

\* Every message that was not dropped by a burst or a dismissal comes on screen, and leaves it
\* (toast.js:7-18).
ToastsDrain == (toasts # <<>> \/ onScreen # 0) ~> (toasts = <<>> /\ onScreen = 0)

\* A burst keeps the newest: nothing that is waiting is older than what was dropped.
BurstKeepsNewest == [][\A a \in skipped' \ skipped : \A i \in DOMAIN toasts' : a < toasts'[i]]_toastVars

\* toast.js:7-18: messages are shown and go, the oldest of a burst dropped first.
ToastsAreShown == ToastsDrain /\ BurstKeepsNewest
-----------------------------------------------------------------------------
(* Dialogs and the gate.                                                   *)

VARIABLES
    dialog,         \* the open dialog, or 0; dialogs are numbered
    gateUp, qrUp,   \* a gate; the QR code's dialog, which has a way of its own
    inertDepth, inert,
    dialogs, gates, \* opened, and raised, so far
    settled,        \* history: dialogs whose onClose has run
    overlapped      \* history: the QR code's dialog and another cover, since the page was clear

modalVars == <<dialog, gateUp, qrUp, inertDepth, inert, dialogs, gates, settled, overlapped>>

\* shellInert() and its release touch the page when the depth leaves 0 and comes back to it.
Deeper(s) == <<s[1] + 1, s[1] = 0 \/ s[2]>>
Shallower(s) == <<s[1] - 1, s[1] # 1 /\ s[2]>>
Inert(s) == inertDepth' = s[1] /\ inert' = s[2]
Holds(again) == LET s == <<inertDepth, inert>> IN Inert(Deeper(IF again THEN Shallower(s) ELSE s))
Releases == Inert(Shallower(<<inertDepth, inert>>))

\* show() closes the one that is open, and so runs its onClose.  Fault: it is replaced.
ReplacedUnsettled == settled
Replaced == IF dialog = 0 THEN settled ELSE settled \cup {dialog}
ShowsDialog ==
    /\ dialogs < MaxDialogs /\ dialogs' = dialogs + 1
    /\ dialog' = dialogs' /\ settled' = Replaced
    /\ Holds(dialog # 0)
    /\ UNCHANGED <<gateUp, qrUp, gates>>
ClosesDialog ==
    /\ dialog # 0 /\ dialog' = 0 /\ settled' = settled \cup {dialog} /\ Releases
    /\ UNCHANGED <<gateUp, qrUp, dialogs, gates>>

\* raise() drops the one there was.
RaisesGate ==
    /\ gates < MaxDialogs /\ gates' = gates + 1 /\ gateUp' = TRUE
    /\ Holds(gateUp)
    /\ UNCHANGED <<dialog, qrUp, dialogs, settled>>
DropsGate ==
    /\ gateUp /\ gateUp' = FALSE /\ Releases
    /\ UNCHANGED <<dialog, qrUp, dialogs, gates, settled>>

\* showQr() and its close() set the page themselves; its button is part of the page, and a
\* room that opens, which may ask for it too, has taken the gate down.
ShowsQr ==
    /\ gateUp => ~inert
    /\ qrUp' = TRUE /\ inert' = TRUE
    /\ UNCHANGED <<dialog, gateUp, inertDepth, dialogs, gates, settled>>
ClosesQr ==
    /\ qrUp /\ qrUp' = FALSE /\ inert' = FALSE
    /\ UNCHANGED <<dialog, gateUp, inertDepth, dialogs, gates, settled>>

Covered == gateUp \/ dialog # 0
ModalInit == dialog = 0 /\ gateUp = FALSE /\ qrUp = FALSE /\ inertDepth = 0 /\ inert = FALSE
    /\ dialogs = 0 /\ gates = 0 /\ settled = {} /\ overlapped = FALSE
ModalNext ==
    /\ ShowsDialog \/ ClosesDialog \/ RaisesGate \/ DropsGate \/ ShowsQr \/ ClosesQr
    /\ overlapped' = ((Covered' /\ qrUp') \/ ((Covered' \/ qrUp') /\ overlapped))
ModalSpec == ModalInit /\ [][ModalNext]_modalVars

\* The page is out of reach exactly while a gate or a dialog stands before it, in whatever
\* order they come and go (modal.js:110-119); unless the QR code's dialog overlaps with another,
\* which may leave the page in reach behind what still covers it, and never out of reach
\* when nothing does.
InertWhileCovered ==
    /\ inert => Covered \/ qrUp
    /\ ~overlapped => inert = (Covered \/ qrUp)

\* Nobody waits for the answer of a dialog that is not on screen (modal.js:83-87).
EveryDialogSettles == (1..dialogs) \ settled \subseteq {dialog}

\* modal.js:83-119: dialogs and gates take each other's place without a lost answer or a
\* page that is in reach, or out of it, by mistake.
DialogsSettle == InertWhileCovered /\ EveryDialogSettles
=============================================================================
