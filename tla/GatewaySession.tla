---------------------------- MODULE GatewaySession ----------------------------
(***************************************************************************)
(* The MetaTrader5 session of the Windows gateway: the session requests    *)
(* (connect, attach, disconnect), the heartbeat thread that reconnects or  *)
(* attaches late, and the terminal they share.                             *)
(*                                                                         *)
(* The session routes call the runtime from the event loop, so there is    *)
(* one of them at a time, holding _lock from its first terminal call to    *)
(* its last.  The heartbeat thread calls the terminal without _lock, and   *)
(* under _mt5_ops_lock, which the session requests do not take: the two    *)
(* interleave between any two terminal calls.  A bounded call that times   *)
(* out leaves its worker behind, which reaches the terminal later.         *)
(***************************************************************************)
EXTENDS Integers, FiniteSets

CONSTANTS
    Account,        \* broker accounts (login and server)
    NoAccount,      \* a terminal that is not logged in; also: shown to nobody
    AutoAttach,     \* mt5_gateway_auto_attach
    MaxAttempts,    \* mt5_reconnect_max_attempts
    MaxRequests,    \* bound on session requests
    MaxFaults       \* bound on timeouts, refused logins, terminal failures

ASSUME AccountAssumption == NoAccount \notin Account
ASSUME SettingAssumption == AutoAttach \in BOOLEAN /\ MaxAttempts \in Nat \ {0}
ASSUME BoundAssumption == MaxRequests \in Nat /\ MaxFaults \in Nat

VARIABLES
    loop,           \* where the session request of the event loop is
    asked,          \* the account it is about
    beat,           \* where the heartbeat thread is
    lost,           \* it reconnects because it found the session lost
    held,           \* the credentials its reconnect works with
    current,        \* they are still the object in _creds
    found,          \* the account its last account_info returned
    creds,          \* _creds
    connected,      \* diagnostics.connected
    shown,          \* diagnostics.login
    attempts,       \* diagnostics.reconnect_attempts
    cooling,        \* before cooldown_until
    healthy,        \* the terminal can be started and answers
    started,        \* the library is initialized
    account,        \* the account the terminal is logged in to
    orphans,        \* terminal calls whose caller timed out
    requests, faults,
    disturbed,      \* history: the session or the terminal's account changed
                    \* under a reconnect, a late attach or an orphaned call
    fails           \* history: reconnects failed in a row, without a pause

loopVars == <<loop, asked, requests>>
beatVars == <<beat, lost, held, found, cooling>>
sessionVars == <<creds, current, connected, shown, attempts>>
terminalVars == <<healthy, started, account>>
history == <<disturbed, fails>>
vars == <<loopVars, beatVars, sessionVars, terminalVars, orphans, faults,
          history>>

\* Credentials without a password are those of an attached session.
NoCreds == [account |-> NoAccount, password |-> FALSE]
Creds == [account : Account, password : BOOLEAN] \cup {NoCreds}
Loop == {"free", "initialize", "login", "connected", "attach", "info", "attached",
         "shutdown"}
Beat == {"sleep", "ping", "drop", "capture", "initialize", "login", "info",
         "done", "failed", "pause", "late", "lateInfo", "lateMark"}
\* A call that was left behind: initialize, or the login to an account.
Orphan == {NoAccount} \cup Account

TypeOK ==
    /\ loop \in Loop /\ asked \in Account \cup {NoAccount}
    /\ beat \in Beat /\ lost \in BOOLEAN
    /\ held \in Creds /\ creds \in Creds /\ current \in BOOLEAN
    /\ found \in Account \cup {NoAccount} /\ shown \in Account \cup {NoAccount}
    /\ connected \in BOOLEAN /\ cooling \in BOOLEAN
    /\ attempts \in 0 .. MaxAttempts
    /\ healthy \in BOOLEAN /\ started \in BOOLEAN
    /\ account \in Account \cup {NoAccount}
    /\ orphans \subseteq Orphan
    /\ requests \in 0 .. MaxRequests /\ faults \in 0 .. MaxFaults
    /\ disturbed \in BOOLEAN
    /\ fails \in Nat

\* The gateway has started and the heartbeat thread runs; nobody has attached.
Init ==
    /\ loop = "free" /\ asked = NoAccount
    /\ beat = "sleep" /\ lost = FALSE /\ held = NoCreds /\ found = NoAccount
    /\ creds = NoCreds /\ current = FALSE /\ connected = FALSE /\ shown = NoAccount
    /\ attempts = 0 /\ cooling = FALSE
    /\ healthy \in BOOLEAN /\ started = FALSE
    /\ account \in Account \cup {NoAccount}
    /\ orphans = {} /\ requests = 0 /\ faults = 0
    /\ disturbed = FALSE /\ fails = 0

-----------------------------------------------------------------------------
(* The terminal, as LiveMT5Bridge reaches it. *)

Fault == faults < MaxFaults /\ faults' = faults + 1

\* What a call does, and what it reports.
Initialize(ok) ==
    /\ ok = healthy
    /\ started' = healthy /\ UNCHANGED <<healthy, account, faults>>

Login(a, ok) ==
    /\ IF healthy /\ started
       THEN \/ ok /\ account' = a /\ UNCHANGED faults
            \/ ~ ok /\ UNCHANGED account /\ Fault
       ELSE ~ ok /\ UNCHANGED <<account, faults>>
    /\ UNCHANGED healthy

Info == IF healthy /\ started THEN account ELSE NoAccount

-----------------------------------------------------------------------------
(* The session requests.  _lock is held while loop is not "free". *)

\* The heartbeat thread is between two steps of a reconnect or a late attach,
\* or a call that was left behind is still to reach the terminal.
InFlight ==
    \/ beat \in {"initialize", "login", "info", "done", "failed", "lateInfo", "lateMark"}
    \/ orphans # {}

\* connect, attach and disconnect begin by taking _lock; disconnect drops the
\* credentials before anything else.
Ask(kind, a) ==
    /\ loop = "free" /\ requests < MaxRequests
    /\ loop' = kind /\ asked' = a /\ requests' = requests + 1
    /\ IF kind = "shutdown"
       THEN /\ creds' = NoCreds /\ current' = FALSE
            /\ disturbed' = (disturbed \/ InFlight)
       ELSE UNCHANGED <<creds, current, disturbed>>
    /\ UNCHANGED <<connected, shown, attempts, beatVars, terminalVars, orphans, faults, fails>>

\* A terminal that does not start ends the request.
LoopInitialize ==
    /\ loop \in {"initialize", "attach"}
    /\ \E ok \in BOOLEAN :
        /\ Initialize(ok)
        /\ loop' = CASE ~ ok -> "free"
                     [] loop = "initialize" -> "login"
                     [] OTHER -> "info"
    /\ UNCHANGED <<asked, requests, beatVars, sessionVars, orphans, history>>

\* A refused login, like a terminal without an account, ends the request too,
\* and shuts the terminal down; the session it had stays in the books.
LoopLogin ==
    /\ loop = "login"
    /\ \E ok \in BOOLEAN :
        /\ Login(asked, ok)
        /\ started' = (started /\ ok)
        /\ loop' = IF ok THEN "connected" ELSE "free"
    /\ UNCHANGED <<asked, requests, beatVars, sessionVars, orphans, history>>

LoopInfo ==
    /\ loop = "info"
    /\ asked' = Info
    /\ started' = (started /\ Info # NoAccount)
    /\ loop' = IF Info # NoAccount THEN "attached" ELSE "free"
    /\ UNCHANGED <<requests, beatVars, sessionVars, healthy, account, orphans, faults,
                   history>>

\* _mark_session: a new credentials object and a clean slate.
MarkSession(a, password) ==
    /\ creds' = [account |-> a, password |-> password] /\ current' = FALSE
    /\ connected' = TRUE /\ shown' = a /\ attempts' = 0
    /\ fails' = 0

LoopMark ==
    /\ loop \in {"connected", "attached"}
    /\ MarkSession(asked, loop = "connected")
    /\ loop' = "free" /\ asked' = NoAccount
    /\ disturbed' = (disturbed \/ InFlight)
    /\ UNCHANGED <<requests, beatVars, terminalVars, orphans, faults>>

\* Mutant: the session is not marked as gone.
LoopShutdownOnly ==
    /\ loop = "shutdown" /\ loop' = "free"
    /\ started' = FALSE /\ shown' = NoAccount
    /\ UNCHANGED <<asked, requests, beatVars, creds, current, connected, attempts, healthy,
                   account, orphans, faults, history>>

\* The rest of disconnect.
LoopShutdown ==
    /\ loop = "shutdown" /\ loop' = "free"
    /\ started' = FALSE
    /\ connected' = FALSE /\ shown' = NoAccount
    /\ UNCHANGED <<asked, requests, beatVars, creds, current, attempts, healthy, account,
                   orphans, faults, history>>

-----------------------------------------------------------------------------
(* The heartbeat thread.  What it reads or writes under _lock waits for the   *)
(* session request in progress.                                               *)

CanLock == loop = "free"

\* Mutant: attempts that are used up stay used up.
WakeNoReset ==
    /\ beat = "sleep" /\ CanLock
    /\ \/ /\ creds = NoCreds /\ AutoAttach
          /\ beat' = "late" /\ UNCHANGED <<lost, attempts>>
       \/ /\ creds # NoCreds /\ connected
          /\ beat' = "ping" /\ UNCHANGED <<lost, attempts>>
       \/ /\ creds # NoCreds /\ ~ connected /\ ~ cooling
          /\ beat' = "capture" /\ lost' = TRUE /\ UNCHANGED attempts
    /\ UNCHANGED <<loopVars, held, found, cooling, creds, current, connected, shown,
                   terminalVars, orphans, faults, history>>

\* A turn of the loop: attach late (the check of _creds is repeated there, and
\* made once here), ping, or reconnect, in a new burst once the last is used up.
Wake ==
    /\ beat = "sleep" /\ CanLock
    /\ \/ /\ creds = NoCreds /\ AutoAttach
          /\ beat' = "late" /\ UNCHANGED <<lost, attempts>>
       \/ /\ creds # NoCreds /\ connected
          /\ beat' = "ping" /\ UNCHANGED <<lost, attempts>>
       \/ /\ creds # NoCreds /\ ~ connected /\ ~ cooling
          /\ beat' = "capture" /\ lost' = TRUE
          /\ attempts' = IF attempts >= MaxAttempts THEN 0 ELSE attempts
    /\ UNCHANGED <<loopVars, held, found, cooling, creds, current, connected, shown,
                   terminalVars, orphans, faults, history>>

\* A bounded call runs alone under _mt5_ops_lock; it may time out instead, and
\* what it was about to do is left behind.
Bounded == orphans = {}
TimesOut(left) == Fault /\ orphans' = orphans \cup left /\ UNCHANGED terminalVars

\* heartbeat
Ping ==
    /\ beat = "ping"
    /\ \/ /\ Bounded /\ connected /\ Info # NoAccount
          /\ beat' = "sleep" /\ UNCHANGED <<terminalVars, orphans, faults>>
       \/ /\ ~ connected \/ (Bounded /\ Info = NoAccount)
          /\ beat' = "drop" /\ UNCHANGED <<terminalVars, orphans, faults>>
       \/ /\ TimesOut({})
          /\ beat' = "drop"
    /\ UNCHANGED <<loopVars, lost, held, found, cooling, sessionVars, history>>

Drop ==
    /\ beat = "drop" /\ CanLock
    /\ connected' = FALSE
    /\ beat' = "capture" /\ lost' = FALSE
    /\ UNCHANGED <<loopVars, held, found, cooling, creds, current, shown, attempts,
                   terminalVars, orphans, faults, history>>

\* Mutant: the attempts are counted and not compared.
CaptureUncounted ==
    /\ beat = "capture"
    /\ IF creds = NoCreds
       THEN /\ beat' = IF lost THEN "pause" ELSE "sleep"
            /\ UNCHANGED <<held, current, attempts>>
       ELSE /\ beat' = "initialize"
            /\ held' = creds /\ current' = TRUE
            /\ attempts' = attempts + 1
    /\ UNCHANGED <<loopVars, lost, found, cooling, creds, connected, shown,
                   terminalVars, orphans, faults, history>>

\* _try_reconnect, which reads _creds without _lock.
Capture ==
    /\ beat = "capture"
    /\ IF creds = NoCreds \/ attempts >= MaxAttempts
       THEN /\ beat' = IF lost THEN "pause" ELSE "sleep"
            /\ UNCHANGED <<held, current, attempts>>
       ELSE /\ beat' = "initialize"
            /\ held' = creds /\ current' = TRUE
            /\ attempts' = attempts + 1
    /\ UNCHANGED <<loopVars, lost, found, cooling, creds, connected, shown,
                   terminalVars, orphans, faults, history>>

BeatInitialize ==
    /\ beat = "initialize"
    /\ \/ \E ok \in BOOLEAN :
            /\ Bounded /\ Initialize(ok) /\ UNCHANGED orphans
            /\ beat' = CASE ~ ok -> "failed"
                         [] held.password -> "login"
                         [] OTHER -> "info"
       \/ TimesOut({NoAccount}) /\ beat' = "failed"
    /\ UNCHANGED <<loopVars, lost, held, found, cooling, sessionVars, history>>

BeatLogin ==
    /\ beat = "login"
    /\ \/ \E ok \in BOOLEAN :
            /\ Bounded /\ Login(held.account, ok) /\ UNCHANGED <<started, orphans>>
            /\ beat' = IF ok THEN "done" ELSE "failed"
            /\ disturbed' = (disturbed \/ loop # "free")
       \/ TimesOut({held.account}) /\ beat' = "failed" /\ UNCHANGED disturbed
    /\ UNCHANGED <<loopVars, lost, held, found, cooling, sessionVars, fails>>

BeatInfo ==
    /\ beat = "info"
    /\ \/ /\ Bounded /\ found' = Info
          /\ beat' = IF Info = NoAccount THEN "failed" ELSE "done"
          /\ UNCHANGED <<terminalVars, orphans, faults>>
       \/ TimesOut({}) /\ beat' = "failed" /\ UNCHANGED found
    /\ UNCHANGED <<loopVars, lost, held, cooling, sessionVars, history>>

\* A reconnect that worked writes without _lock.  One of an attached session
\* adopts the account it found, in the credentials object it holds.
Done ==
    /\ beat = "done" /\ beat' = "sleep"
    /\ connected' = TRUE
    /\ IF held.password
       THEN UNCHANGED <<creds, shown>>
       ELSE /\ shown' = found
            /\ creds' = IF current THEN [creds EXCEPT !.account = found] ELSE creds
    /\ fails' = 0 /\ found' = NoAccount /\ held' = NoCreds /\ current' = FALSE
    /\ UNCHANGED <<loopVars, lost, cooling, attempts, terminalVars, orphans, faults,
                   disturbed>>

Failed ==
    /\ beat = "failed" /\ beat' = IF lost THEN "pause" ELSE "sleep"
    /\ connected' = FALSE
    /\ fails' = fails + 1 /\ held' = NoCreds /\ current' = FALSE
    /\ UNCHANGED <<loopVars, lost, found, cooling, creds, shown, attempts, terminalVars,
                   orphans, faults, disturbed>>

\* Mutant: no cool-down after the last attempt of a burst.
PauseShort ==
    /\ beat = "pause" /\ CanLock
    /\ beat' = "sleep"
    /\ UNCHANGED <<cooling, fails, loopVars, lost, held, found, sessionVars, terminalVars,
                   orphans, faults, disturbed>>

\* The loop cools down when a lost session has used its attempts up.
Pause ==
    /\ beat = "pause" /\ CanLock
    /\ beat' = "sleep"
    /\ IF attempts >= MaxAttempts
       THEN cooling' = TRUE /\ fails' = 0
       ELSE UNCHANGED <<cooling, fails>>
    /\ UNCHANGED <<loopVars, lost, held, found, sessionVars, terminalVars, orphans, faults,
                   disturbed>>

CooledDown ==
    /\ cooling /\ cooling' = FALSE
    /\ UNCHANGED <<loopVars, beat, lost, held, found, sessionVars, terminalVars, orphans,
                   faults, history>>

\* try_delayed_auto_attach: its calls are not bounded and take no lock, and a
\* terminal without an account is left running.
LateInitialize ==
    /\ beat = "late"
    /\ \E ok \in BOOLEAN : Initialize(ok) /\ beat' = IF ok THEN "lateInfo" ELSE "sleep"
    /\ UNCHANGED <<loopVars, lost, held, found, cooling, sessionVars, orphans, history>>

LateInfo ==
    /\ beat = "lateInfo" /\ found' = Info
    /\ beat' = IF Info = NoAccount THEN "sleep" ELSE "lateMark"
    /\ UNCHANGED <<loopVars, lost, held, cooling, sessionVars, terminalVars, orphans,
                   faults, history>>

\* Mutant: the credentials are not looked at again.
LateMarkUnchecked ==
    /\ beat = "lateMark" /\ CanLock
    /\ beat' = "sleep" /\ found' = NoAccount
    /\ MarkSession(found, FALSE)
    /\ UNCHANGED <<loopVars, lost, held, cooling, terminalVars, orphans, faults, disturbed>>

LateMark ==
    /\ beat = "lateMark" /\ CanLock
    /\ beat' = "sleep" /\ found' = NoAccount
    /\ IF creds = NoCreds
       THEN MarkSession(found, FALSE)
       ELSE UNCHANGED <<sessionVars, fails>>
    /\ UNCHANGED <<loopVars, lost, held, cooling, terminalVars, orphans, faults, disturbed>>

-----------------------------------------------------------------------------
(* The terminal and the calls that were left behind. *)

\* A call that was left behind reaches the terminal at last.
RunOrphan(o) ==
    /\ o \in orphans /\ orphans' = orphans \ {o}
    /\ IF o = NoAccount
       THEN \E ok \in BOOLEAN : Initialize(ok)
       ELSE \E ok \in BOOLEAN : Login(o, ok) /\ UNCHANGED started
    /\ disturbed' = (disturbed \/ loop # "free")
    /\ UNCHANGED <<loopVars, beatVars, sessionVars, fails>>

TerminalFails ==
    /\ healthy /\ healthy' = FALSE /\ started' = FALSE /\ Fault
    /\ UNCHANGED <<loopVars, beatVars, sessionVars, account, orphans, history>>

TerminalRecovers ==
    /\ ~ healthy /\ healthy' = TRUE
    /\ UNCHANGED <<loopVars, beatVars, sessionVars, started, account, orphans, faults,
                   history>>

\* The owner logs in to the terminal by hand, to another account maybe.
OwnerLogsIn(a) ==
    /\ healthy /\ account # a /\ account' = a
    /\ disturbed' = (disturbed \/ account # NoAccount) /\ Fault
    /\ UNCHANGED <<loopVars, beatVars, sessionVars, healthy, started, orphans, fails>>

-----------------------------------------------------------------------------
LoopStep == LoopInitialize \/ LoopLogin \/ LoopInfo \/ LoopMark \/ LoopShutdown

BeatStep ==
    \/ Wake \/ Ping \/ Drop
    \/ Capture \/ BeatInitialize \/ BeatLogin \/ BeatInfo \/ Done \/ Failed \/ Pause
    \/ LateInitialize \/ LateInfo \/ LateMark

Requested ==
    \/ \E a \in Account : Ask("initialize", a)
    \/ \E kind \in {"attach", "shutdown"} : Ask(kind, NoAccount)

Terminal ==
    \/ \E o \in Orphan : RunOrphan(o)
    \/ TerminalFails \/ TerminalRecovers
    \/ \E a \in Account : OwnerLogsIn(a)

Next == Requested \/ LoopStep \/ BeatStep \/ CooledDown \/ Terminal

Spec == Init /\ [][Next]_vars

\* The threads run, calls that were left behind return, and time passes.
FairSpec ==
    /\ Spec
    /\ WF_vars(LoopStep) /\ WF_vars(BeatStep) /\ WF_vars(CooledDown)
    /\ \A o \in Orphan : WF_vars(RunOrphan(o))

-----------------------------------------------------------------------------
(* What the session guarantees. *)

\* When nothing is in progress, a session that is shown as connected is one the
\* gateway has credentials for, and the account shown is theirs and the
\* terminal's, unless a session change met a reconnect, a late attach or an
\* abandoned call half way, or the owner changed the account (_mark_session,
\* _try_reconnect).
ShownSessionIsReal ==
    loop = "free" /\ beat \in {"sleep", "ping"} /\ connected /\ ~ disturbed =>
        /\ creds # NoCreds /\ shown = creds.account
        /\ started => account = shown

\* A late attach never takes the place of a session a request has made: only a
\* request replaces one ("already_attached"); a reconnect may change the
\* account of the session it belongs to.
OnlyRequestsReplaceSessions ==
    [][creds # NoCreds /\ creds' # creds =>
        \/ loop # "free" \/ requests' # requests
        \/ beat = "done" /\ current]_vars

\* Without a success, a new session or a cool-down in between, no more
\* reconnects fail than a burst has, and the one after a lost heartbeat
\* (_heartbeat_loop: "Bounded attempt bursts", "cool-down before the next burst").
BurstsAreBounded == fails <= MaxAttempts + 1

\* While credentials remain, and the terminal is there and logged in, the
\* session comes back ("do not permanently abandon reconnect").
SessionComesBack ==
    <>[](creds # NoCreds /\ healthy /\ account # NoAccount) => <>[](connected /\ started)

-----------------------------------------------------------------------------
(* What the documentation says of the program, and the program does not do. *)

\* SOAK_DISCONNECT_RCA.md: "Intentional disconnect() still clears credentials and
\* stops reconnect": no session is shown as connected without credentials.
DisconnectStopsReconnect == loop = "free" /\ creds = NoCreds => ~ connected
=============================================================================
