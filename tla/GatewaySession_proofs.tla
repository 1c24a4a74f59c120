------------------------- MODULE GatewaySession_proofs -------------------------
(* What GatewaySession guarantees for any accounts, settings and bounds.     *)
EXTENDS GatewaySession, TLAPS

-----------------------------------------------------------------------------
(* Types.                                                                    *)

Reconnect == {"initialize", "login", "info", "done", "failed"}
Known == [account : Account, password : BOOLEAN]

Places ==
    /\ loop \in Loop /\ asked \in Account \cup {NoAccount}
    /\ beat \in Beat /\ held \in Creds /\ creds \in Creds
    /\ found \in Account \cup {NoAccount} /\ shown \in Account \cup {NoAccount}
    /\ account \in Account \cup {NoAccount} /\ orphans \subseteq Orphan

Limits ==
    /\ attempts \in 0 .. MaxAttempts /\ fails \in Nat
    /\ requests \in 0 .. MaxRequests /\ faults \in 0 .. MaxFaults

Flags ==
    /\ lost \in BOOLEAN /\ current \in BOOLEAN /\ connected \in BOOLEAN
    /\ cooling \in BOOLEAN /\ healthy \in BOOLEAN /\ started \in BOOLEAN
    /\ disturbed \in BOOLEAN

(* What a thread carries from one step to the next is there.                 *)
Carried ==
    /\ current => creds \in Known
    /\ loop \in {"initialize", "login", "connected", "attached"} => asked \in Account
    /\ beat \in Reconnect => held \in Known
    /\ beat = "login" => held.password
    /\ beat = "done" /\ ~ held.password => found \in Account
    /\ beat = "lateMark" => found \in Account

Typed == Places /\ Limits /\ Flags /\ Carried

LEMMA TypedIsTypeOK == Typed => TypeOK
BY Zenon DEF Typed, Places, Limits, Flags, TypeOK

LEMMA CredsAre == Creds = Known \cup {NoCreds} /\ NoCreds \notin Known
BY AccountAssumption DEF Creds, Known, NoCreds

LEMMA LimitsStep == Typed /\ Next => Limits'
<1> SUFFICES ASSUME Typed, Next PROVE Limits'
  OBVIOUS
<1>0. Limits
  BY DEF Typed
<1>1. faults' = faults \/ (faults < MaxFaults /\ faults' = faults + 1)
  BY
     DEF Next, Requested, LoopStep, BeatStep, Terminal, Ask, LoopInitialize,
         LoopLogin, LoopInfo, LoopMark, LoopShutdown, Wake, Ping, Drop, Capture,
         BeatInitialize, BeatLogin, BeatInfo, Done, Failed, Pause, LateInitialize,
         LateInfo, LateMark, CooledDown, RunOrphan, TerminalFails, TerminalRecovers,
         OwnerLogsIn, Initialize, Login, Fault, TimesOut, MarkSession, loopVars,
         beatVars, sessionVars, terminalVars, history
<1>2. requests' = requests \/ (requests < MaxRequests /\ requests' = requests + 1)
  BY
     DEF Next, Requested, LoopStep, BeatStep, Terminal, Ask, LoopInitialize,
         LoopLogin, LoopInfo, LoopMark, LoopShutdown, Wake, Ping, Drop, Capture,
         BeatInitialize, BeatLogin, BeatInfo, Done, Failed, Pause, LateInitialize,
         LateInfo, LateMark, CooledDown, RunOrphan, TerminalFails, TerminalRecovers,
         OwnerLogsIn, Initialize, Login, Fault, TimesOut, MarkSession, loopVars,
         beatVars, sessionVars, terminalVars, history
<1>3. \/ attempts' \in {attempts, 0}
      \/ ~ (attempts >= MaxAttempts) /\ attempts' = attempts + 1
  BY
     DEF Next, Requested, LoopStep, BeatStep, Terminal, Ask, LoopInitialize,
         LoopLogin, LoopInfo, LoopMark, LoopShutdown, Wake, Ping, Drop, Capture,
         BeatInitialize, BeatLogin, BeatInfo, Done, Failed, Pause, LateInitialize,
         LateInfo, LateMark, CooledDown, RunOrphan, TerminalFails, TerminalRecovers,
         OwnerLogsIn, Initialize, Login, Fault, TimesOut, MarkSession, loopVars,
         beatVars, sessionVars, terminalVars, history
<1>4. fails' \in {fails, 0, fails + 1}
  BY
     DEF Next, Requested, LoopStep, BeatStep, Terminal, Ask, LoopInitialize,
         LoopLogin, LoopInfo, LoopMark, LoopShutdown, Wake, Ping, Drop, Capture,
         BeatInitialize, BeatLogin, BeatInfo, Done, Failed, Pause, LateInitialize,
         LateInfo, LateMark, CooledDown, RunOrphan, TerminalFails, TerminalRecovers,
         OwnerLogsIn, Initialize, Login, Fault, TimesOut, MarkSession, loopVars,
         beatVars, sessionVars, terminalVars, history
<1> QED
  BY <1>0, <1>1, <1>2, <1>3, <1>4, BoundAssumption, SettingAssumption DEF Limits

LEMMA FlagsStep == Typed /\ Next => Flags'
<1> SUFFICES ASSUME Typed, Next PROVE Flags'
  OBVIOUS
<1>0. Flags
  BY DEF Typed
<1>1. lost' = lost \/ lost' = TRUE \/ lost' = FALSE
  BY
     DEF Next, Requested, LoopStep, BeatStep, Terminal, Ask, LoopInitialize,
         LoopLogin, LoopInfo, LoopMark, LoopShutdown, Wake, Ping, Drop, Capture,
         BeatInitialize, BeatLogin, BeatInfo, Done, Failed, Pause, LateInitialize,
         LateInfo, LateMark, CooledDown, RunOrphan, TerminalFails, TerminalRecovers,
         OwnerLogsIn, Initialize, Login, Fault, TimesOut, MarkSession, loopVars,
         beatVars, sessionVars, terminalVars, history
<1>2. current' = current \/ current' = TRUE \/ current' = FALSE
  BY
     DEF Next, Requested, LoopStep, BeatStep, Terminal, Ask, LoopInitialize,
         LoopLogin, LoopInfo, LoopMark, LoopShutdown, Wake, Ping, Drop, Capture,
         BeatInitialize, BeatLogin, BeatInfo, Done, Failed, Pause, LateInitialize,
         LateInfo, LateMark, CooledDown, RunOrphan, TerminalFails, TerminalRecovers,
         OwnerLogsIn, Initialize, Login, Fault, TimesOut, MarkSession, loopVars,
         beatVars, sessionVars, terminalVars, history
<1>3. connected' = connected \/ connected' = TRUE \/ connected' = FALSE
  BY
     DEF Next, Requested, LoopStep, BeatStep, Terminal, Ask, LoopInitialize,
         LoopLogin, LoopInfo, LoopMark, LoopShutdown, Wake, Ping, Drop, Capture,
         BeatInitialize, BeatLogin, BeatInfo, Done, Failed, Pause, LateInitialize,
         LateInfo, LateMark, CooledDown, RunOrphan, TerminalFails, TerminalRecovers,
         OwnerLogsIn, Initialize, Login, Fault, TimesOut, MarkSession, loopVars,
         beatVars, sessionVars, terminalVars, history
<1>4. cooling' = cooling \/ cooling' = TRUE \/ cooling' = FALSE
  BY
     DEF Next, Requested, LoopStep, BeatStep, Terminal, Ask, LoopInitialize,
         LoopLogin, LoopInfo, LoopMark, LoopShutdown, Wake, Ping, Drop, Capture,
         BeatInitialize, BeatLogin, BeatInfo, Done, Failed, Pause, LateInitialize,
         LateInfo, LateMark, CooledDown, RunOrphan, TerminalFails, TerminalRecovers,
         OwnerLogsIn, Initialize, Login, Fault, TimesOut, MarkSession, loopVars,
         beatVars, sessionVars, terminalVars, history
<1>5. healthy' = healthy \/ healthy' = TRUE \/ healthy' = FALSE
  BY
     DEF Next, Requested, LoopStep, BeatStep, Terminal, Ask, LoopInitialize,
         LoopLogin, LoopInfo, LoopMark, LoopShutdown, Wake, Ping, Drop, Capture,
         BeatInitialize, BeatLogin, BeatInfo, Done, Failed, Pause, LateInitialize,
         LateInfo, LateMark, CooledDown, RunOrphan, TerminalFails, TerminalRecovers,
         OwnerLogsIn, Initialize, Login, Fault, TimesOut, MarkSession, loopVars,
         beatVars, sessionVars, terminalVars, history
<1>6. \/ started' = started \/ started' = healthy \/ started' = FALSE
      \/ \E ok \in BOOLEAN : started' = (started /\ ok)
      \/ started' = (started /\ Info # NoAccount)
  BY
     DEF Next, Requested, LoopStep, BeatStep, Terminal, Ask, LoopInitialize,
         LoopLogin, LoopInfo, LoopMark, LoopShutdown, Wake, Ping, Drop, Capture,
         BeatInitialize, BeatLogin, BeatInfo, Done, Failed, Pause, LateInitialize,
         LateInfo, LateMark, CooledDown, RunOrphan, TerminalFails, TerminalRecovers,
         OwnerLogsIn, Initialize, Login, Fault, TimesOut, MarkSession, loopVars,
         beatVars, sessionVars, terminalVars, history
<1>7. \/ disturbed' = disturbed \/ disturbed' = (disturbed \/ InFlight)
      \/ disturbed' = (disturbed \/ loop # "free")
      \/ disturbed' = (disturbed \/ account # NoAccount)
  BY
     DEF Next, Requested, LoopStep, BeatStep, Terminal, Ask, LoopInitialize,
         LoopLogin, LoopInfo, LoopMark, LoopShutdown, Wake, Ping, Drop, Capture,
         BeatInitialize, BeatLogin, BeatInfo, Done, Failed, Pause, LateInitialize,
         LateInfo, LateMark, CooledDown, RunOrphan, TerminalFails, TerminalRecovers,
         OwnerLogsIn, Initialize, Login, Fault, TimesOut, MarkSession, loopVars,
         beatVars, sessionVars, terminalVars, history
<1>8. lost' \in BOOLEAN /\ current' \in BOOLEAN
  BY <1>0, <1>1, <1>2, Zenon DEF Flags
<1>9. connected' \in BOOLEAN /\ cooling' \in BOOLEAN
  BY <1>0, <1>3, <1>4, Zenon DEF Flags
<1>10. healthy' \in BOOLEAN /\ started' \in BOOLEAN
  BY <1>0, <1>5, <1>6, Zenon DEF Flags
<1>11. disturbed' \in BOOLEAN
  BY <1>0, <1>7, Zenon DEF Flags
<1> QED
  BY <1>8, <1>9, <1>10, <1>11, Zenon DEF Flags

LEMMA PlacesStep == Typed /\ Next => Places'
<1> SUFFICES ASSUME Typed, Next PROVE Places'
  OBVIOUS
<1>0. Places /\ Carried
  BY DEF Typed
<1>1. loop' \in Loop
  BY <1>0
     DEF Next, Requested, LoopStep, BeatStep, Terminal, Ask, LoopInitialize,
         LoopLogin, LoopInfo, LoopMark, LoopShutdown, Wake, Ping, Drop, Capture,
         BeatInitialize, BeatLogin, BeatInfo, Done, Failed, Pause, LateInitialize,
         LateInfo, LateMark, CooledDown, RunOrphan, TerminalFails, TerminalRecovers,
         OwnerLogsIn, Initialize, Login, Fault, TimesOut, MarkSession, loopVars,
         beatVars, sessionVars, terminalVars, history, Loop, Places
<1>2. asked' = asked \/ asked' \in Account \/ asked' = NoAccount \/ asked' = Info
  BY
     DEF Next, Requested, LoopStep, BeatStep, Terminal, Ask, LoopInitialize,
         LoopLogin, LoopInfo, LoopMark, LoopShutdown, Wake, Ping, Drop, Capture,
         BeatInitialize, BeatLogin, BeatInfo, Done, Failed, Pause, LateInitialize,
         LateInfo, LateMark, CooledDown, RunOrphan, TerminalFails, TerminalRecovers,
         OwnerLogsIn, Initialize, Login, Fault, TimesOut, MarkSession, loopVars,
         beatVars, sessionVars, terminalVars, history
<1>3. found' \in {found, NoAccount, Info}
  BY
     DEF Next, Requested, LoopStep, BeatStep, Terminal, Ask, LoopInitialize,
         LoopLogin, LoopInfo, LoopMark, LoopShutdown, Wake, Ping, Drop, Capture,
         BeatInitialize, BeatLogin, BeatInfo, Done, Failed, Pause, LateInitialize,
         LateInfo, LateMark, CooledDown, RunOrphan, TerminalFails, TerminalRecovers,
         OwnerLogsIn, Initialize, Login, Fault, TimesOut, MarkSession, loopVars,
         beatVars, sessionVars, terminalVars, history
<1>4. shown' = shown \/ shown' = NoAccount \/ shown' = found \/ shown' = asked
  BY
     DEF Next, Requested, LoopStep, BeatStep, Terminal, Ask, LoopInitialize,
         LoopLogin, LoopInfo, LoopMark, LoopShutdown, Wake, Ping, Drop, Capture,
         BeatInitialize, BeatLogin, BeatInfo, Done, Failed, Pause, LateInitialize,
         LateInfo, LateMark, CooledDown, RunOrphan, TerminalFails, TerminalRecovers,
         OwnerLogsIn, Initialize, Login, Fault, TimesOut, MarkSession, loopVars,
         beatVars, sessionVars, terminalVars, history
<1>5. \/ account' = account \/ (account' = asked /\ loop = "login")
      \/ (account' = held.account /\ beat = "login")
      \/ \E a \in Account : account' = a
      \/ \E o \in orphans : o # NoAccount /\ account' = o
  BY
     DEF Next, Requested, LoopStep, BeatStep, Terminal, Ask, LoopInitialize,
         LoopLogin, LoopInfo, LoopMark, LoopShutdown, Wake, Ping, Drop, Capture,
         BeatInitialize, BeatLogin, BeatInfo, Done, Failed, Pause, LateInitialize,
         LateInfo, LateMark, CooledDown, RunOrphan, TerminalFails, TerminalRecovers,
         OwnerLogsIn, Initialize, Login, Fault, TimesOut, MarkSession, loopVars,
         beatVars, sessionVars, terminalVars, history
<1>6. beat' \in Beat
  BY <1>0
     DEF Next, Requested, LoopStep, BeatStep, Terminal, Ask, LoopInitialize,
         LoopLogin, LoopInfo, LoopMark, LoopShutdown, Wake, Ping, Drop, Capture,
         BeatInitialize, BeatLogin, BeatInfo, Done, Failed, Pause, LateInitialize,
         LateInfo, LateMark, CooledDown, RunOrphan, TerminalFails, TerminalRecovers,
         OwnerLogsIn, Initialize, Login, Fault, TimesOut, MarkSession, loopVars,
         beatVars, sessionVars, terminalVars, history, Beat, Places
<1>7. held' \in {held, creds, NoCreds}
  BY
     DEF Next, Requested, LoopStep, BeatStep, Terminal, Ask, LoopInitialize,
         LoopLogin, LoopInfo, LoopMark, LoopShutdown, Wake, Ping, Drop, Capture,
         BeatInitialize, BeatLogin, BeatInfo, Done, Failed, Pause, LateInitialize,
         LateInfo, LateMark, CooledDown, RunOrphan, TerminalFails, TerminalRecovers,
         OwnerLogsIn, Initialize, Login, Fault, TimesOut, MarkSession, loopVars,
         beatVars, sessionVars, terminalVars, history
<1>8. \/ creds' = creds \/ creds' = NoCreds
      \/ (loop = "connected" /\ creds' = [account |-> asked, password |-> TRUE])
      \/ (loop = "attached" /\ creds' = [account |-> asked, password |-> FALSE])
      \/ (beat = "lateMark" /\ creds' = [account |-> found, password |-> FALSE])
      \/ (/\ beat = "done" /\ ~ held.password /\ current
          /\ creds' = [creds EXCEPT !.account = found])
  BY
     DEF Next, Requested, LoopStep, BeatStep, Terminal, Ask, LoopInitialize,
         LoopLogin, LoopInfo, LoopMark, LoopShutdown, Wake, Ping, Drop, Capture,
         BeatInitialize, BeatLogin, BeatInfo, Done, Failed, Pause, LateInitialize,
         LateInfo, LateMark, CooledDown, RunOrphan, TerminalFails, TerminalRecovers,
         OwnerLogsIn, Initialize, Login, Fault, TimesOut, MarkSession, loopVars,
         beatVars, sessionVars, terminalVars, history
<1>9. \/ orphans' = orphans \/ \E o \in orphans : orphans' = orphans \ {o}
      \/ orphans' = orphans \cup {} \/ orphans' = orphans \cup {NoAccount}
      \/ (beat = "login" /\ orphans' = orphans \cup {held.account})
  BY
     DEF Next, Requested, LoopStep, BeatStep, Terminal, Ask, LoopInitialize,
         LoopLogin, LoopInfo, LoopMark, LoopShutdown, Wake, Ping, Drop, Capture,
         BeatInitialize, BeatLogin, BeatInfo, Done, Failed, Pause, LateInitialize,
         LateInfo, LateMark, CooledDown, RunOrphan, TerminalFails, TerminalRecovers,
         OwnerLogsIn, Initialize, Login, Fault, TimesOut, MarkSession, loopVars,
         beatVars, sessionVars, terminalVars, history
<1>10. Info \in Account \cup {NoAccount}
  BY <1>0 DEF Places, Info
<1>11. beat = "login" => held.account \in Account
  BY <1>0 DEF Carried, Reconnect, Known
<1>12. creds' \in Creds
  <2>1. ASSUME beat = "done", ~ held.password, current,
               creds' = [creds EXCEPT !.account = found]
        PROVE  creds' \in Known
    <3>1. creds \in Known /\ found \in Account
      BY <1>0, <2>1 DEF Carried
    <3> QED
      BY <2>1, <3>1 DEF Known
  <2>2. loop = "connected" => [account |-> asked, password |-> TRUE] \in Known
    BY <1>0 DEF Carried, Known
  <2>3. loop = "attached" => [account |-> asked, password |-> FALSE] \in Known
    BY <1>0 DEF Carried, Known
  <2>4. beat = "lateMark" => [account |-> found, password |-> FALSE] \in Known
    BY <1>0 DEF Carried, Known
  <2> QED
    BY <1>0, <1>8, <2>1, <2>2, <2>3, <2>4, CredsAre, Zenon DEF Places
<1>13. account' \in Account \cup {NoAccount}
  BY <1>0, <1>5, <1>11 DEF Places, Orphan
<1>14. orphans' \subseteq Orphan
  BY <1>0, <1>9, <1>11 DEF Places, Orphan
<1>15. held' \in Creds
  BY <1>0, <1>7, CredsAre DEF Places
<1>16. /\ asked' \in Account \cup {NoAccount} /\ found' \in Account \cup {NoAccount}
       /\ shown' \in Account \cup {NoAccount}
  BY <1>0, <1>2, <1>3, <1>4, <1>10 DEF Places
<1> QED
  BY <1>1, <1>6, <1>12, <1>13, <1>14, <1>15, <1>16, Zenon DEF Places

LEMMA CarriedStep == Typed /\ Next => Carried'
<1> SUFFICES ASSUME Typed, Next PROVE Carried'
  OBVIOUS
<1>0. Places /\ Carried
  BY DEF Typed
<1>1. creds \in Known \/ creds = NoCreds
  BY <1>0, CredsAre DEF Places
<1>2. Info # NoAccount => Info \in Account
  BY <1>0 DEF Places, Info
<1>3. current' => creds' \in Known
  <2>1. \/ current' = FALSE
        \/ current' = current /\ creds' = creds
        \/ creds' = creds /\ creds # NoCreds
        \/ current' = FALSE
    BY
       DEF Next, Requested, LoopStep, BeatStep, Terminal, Ask, LoopInitialize,
           LoopLogin, LoopInfo, LoopMark, LoopShutdown, Wake, Ping, Drop, Capture,
           BeatInitialize, BeatLogin, BeatInfo, Done, Failed, Pause, LateInitialize,
           LateInfo, LateMark, CooledDown, RunOrphan, TerminalFails,
           TerminalRecovers, OwnerLogsIn, Initialize, Login, Fault, TimesOut,
           MarkSession, loopVars, beatVars, sessionVars, terminalVars, history
  <2> QED
    BY <1>0, <1>1, <2>1, Zenon DEF Carried
<1>4. loop' \in {"initialize", "login", "connected", "attached"} => asked' \in Account
  <2>1. CASE \E a \in Account : Ask("initialize", a)
    BY <2>1 DEF Ask
  <2>2. CASE \E kind \in {"attach", "shutdown"} : Ask(kind, NoAccount)
    BY <2>2 DEF Ask
  <2>3. CASE LoopInitialize
    BY <1>0, <2>3 DEF LoopInitialize, Carried
  <2>4. CASE LoopLogin
    BY <1>0, <2>4 DEF LoopLogin, Carried
  <2>5. CASE LoopInfo
    BY <1>2, <2>5 DEF LoopInfo
  <2>6. CASE LoopMark \/ LoopShutdown
    BY <2>6 DEF LoopMark, LoopShutdown
  <2>7. CASE BeatStep \/ CooledDown \/ Terminal
    <3>1. UNCHANGED loopVars
      BY <2>7
         DEF Next, Requested, LoopStep, BeatStep, Terminal, Ask, LoopInitialize,
             LoopLogin, LoopInfo, LoopMark, LoopShutdown, Wake, Ping, Drop, Capture,
             BeatInitialize, BeatLogin, BeatInfo, Done, Failed, Pause,
             LateInitialize, LateInfo, LateMark, CooledDown, RunOrphan,
             TerminalFails, TerminalRecovers, OwnerLogsIn, Initialize, Login, Fault,
             TimesOut, MarkSession, loopVars, beatVars, sessionVars, terminalVars,
             history
    <3> QED
      BY <1>0, <3>1 DEF Carried, loopVars
  <2> QED
    BY <2>1, <2>2, <2>3, <2>4, <2>5, <2>6, <2>7 DEF Next, Requested, LoopStep
<1>5. /\ beat' \in Reconnect => held' \in Known
      /\ beat' = "login" => held'.password
      /\ beat' = "done" /\ ~ held'.password => found' \in Account
      /\ beat' = "lateMark" => found' \in Account
  <2>1. CASE Requested \/ LoopStep \/ CooledDown \/ Terminal
    <3>1. beat' = beat /\ held' = held /\ found' = found
      BY <2>1
         DEF Next, Requested, LoopStep, BeatStep, Terminal, Ask, LoopInitialize,
             LoopLogin, LoopInfo, LoopMark, LoopShutdown, Wake, Ping, Drop, Capture,
             BeatInitialize, BeatLogin, BeatInfo, Done, Failed, Pause,
             LateInitialize, LateInfo, LateMark, CooledDown, RunOrphan,
             TerminalFails, TerminalRecovers, OwnerLogsIn, Initialize, Login, Fault,
             TimesOut, MarkSession, loopVars, beatVars, sessionVars, terminalVars,
             history
    <3> QED
      BY <1>0, <3>1 DEF Carried
  <2>2. CASE Wake \/ Ping \/ Drop \/ Done \/ Failed \/ Pause \/ LateInitialize \/ LateMark
    <3>1. beat' \notin Reconnect \cup {"lateMark"}
      BY <2>2 DEF Wake, Ping, Drop, Done, Failed, Pause, LateInitialize, LateMark, Reconnect
    <3> QED
      BY <3>1 DEF Reconnect
  <2>3. CASE Capture
    <3>1. beat' \in {"pause", "sleep"} \/ (beat' = "initialize" /\ held' \in Known)
      BY <1>1, <2>3 DEF Capture
    <3> QED
      BY <3>1 DEF Reconnect
  <2>4. CASE BeatInitialize
    <3>1. /\ beat \in Reconnect /\ held' = held /\ beat' \in {"failed", "login", "info"}
          /\ beat' = "login" => held.password
      BY <2>4 DEF BeatInitialize, Reconnect, beatVars
    <3> QED
      BY <1>0, <3>1 DEF Carried
  <2>5. CASE BeatLogin
    <3>1. beat = "login" /\ held' = held /\ beat' \in {"failed", "done"}
      BY <2>5 DEF BeatLogin
    <3> QED
      BY <1>0, <3>1 DEF Carried, Reconnect
  <2>6. CASE BeatInfo
    <3>1. /\ beat \in Reconnect /\ held' = held /\ beat' \in {"failed", "done"}
          /\ beat' = "done" => found' = Info /\ Info # NoAccount
      BY <2>6 DEF BeatInfo, Reconnect
    <3> QED
      BY <1>0, <1>2, <3>1 DEF Carried
  <2>7. CASE LateInfo
    BY <1>2, <2>7 DEF LateInfo, Reconnect
  <2> QED
    BY <2>1, <2>2, <2>3, <2>4, <2>5, <2>6, <2>7 DEF Next, BeatStep
<1> QED
  BY <1>3, <1>4, <1>5 DEF Carried

LEMMA InitTyped == Init => Typed
<1> SUFFICES ASSUME Init PROVE Typed
  OBVIOUS
<1>1. Places
  BY CredsAre DEF Init, Places, Loop, Beat, Orphan
<1>2. Limits
  BY BoundAssumption, SettingAssumption DEF Init, Limits
<1>3. Flags
  BY Zenon DEF Init, Flags
<1>4. Carried
  BY Zenon DEF Init, Carried, Reconnect
<1> QED
  BY <1>1, <1>2, <1>3, <1>4 DEF Typed

LEMMA TypedStep == Typed /\ [Next]_vars => Typed'
<1> SUFFICES ASSUME Typed, [Next]_vars PROVE Typed'
  OBVIOUS
<1>1. CASE Next
  BY <1>1, LimitsStep, FlagsStep, PlacesStep, CarriedStep DEF Typed
<1>2. CASE UNCHANGED vars
  BY <1>2 DEF vars, loopVars, beatVars, sessionVars, terminalVars, history, Typed, Places,
     Limits, Flags, Carried
<1> QED
  BY <1>1, <1>2

(* The gateway's session keeps to its types: no step adopts an account that  *)
(* was not found, or logs in with credentials that are gone.                 *)
THEOREM TypeCorrect == Spec => []TypeOK
<1> QED
  BY InitTyped, TypedStep, TypedIsTypeOK, PTL DEF Spec

-----------------------------------------------------------------------------
(* Bursts of reconnects.                                                     *)

(* Failures in a row against attempts counted: a connected session has none, *)
(* a reconnect under way has been counted and has not failed yet, and a      *)
(* heartbeat that finds no attempt left has had at most the one failure      *)
(* after a lost ping.                                                        *)
Counted ==
    /\ connected => fails = 0
    /\ beat \in {"ping", "drop"} => fails = 0
    /\ beat \in Reconnect \cup {"capture"} /\ ~ lost => fails = 0
    /\ fails <= attempts + 1
    /\ beat \in Reconnect => fails <= attempts
    /\ beat \in {"sleep", "late", "lateInfo", "lateMark"} /\ attempts >= MaxAttempts =>
           fails <= 1

LEMMA CountedStep == Typed /\ Counted /\ [Next]_vars => Counted'
<1> SUFFICES ASSUME Typed, Counted, [Next]_vars PROVE Counted'
  OBVIOUS
<1>0. /\ attempts \in Nat /\ fails \in Nat /\ MaxAttempts \in Nat \ {0}
      /\ attempts <= MaxAttempts
  BY SettingAssumption DEF Typed, Limits
<1>1. CASE UNCHANGED <<beat, lost, connected, attempts, fails>>
  BY <1>1 DEF Counted
<1>2. CASE LoopMark
  <2>1. beat' = beat /\ attempts' = 0 /\ fails' = 0
    BY <1>2 DEF LoopMark, MarkSession, beatVars
  <2> QED
    BY <1>0, <2>1 DEF Counted
<1>3. CASE LoopShutdown
  <2>1. /\ beat' = beat /\ lost' = lost /\ ~ connected' /\ attempts' = attempts
        /\ fails' = fails
    BY <1>3 DEF LoopShutdown, beatVars, history
  <2> QED
    BY <2>1 DEF Counted
<1>4. CASE Wake
  <2>1. /\ connected' = connected /\ fails' = fails /\ beat = "sleep"
        /\ \/ beat' = "late" /\ attempts' = attempts /\ lost' = lost
           \/ beat' = "ping" /\ connected /\ attempts' = attempts /\ lost' = lost
           \/ /\ beat' = "capture" /\ lost'
              /\ attempts' = IF attempts >= MaxAttempts THEN 0 ELSE attempts
    BY <1>4 DEF Wake, history
  <2> QED
    BY <1>0, <2>1 DEF Counted, Reconnect
<1>5. CASE Ping
  <2>1. /\ beat = "ping" /\ beat' \in {"sleep", "drop"} /\ connected' = connected
        /\ attempts' = attempts /\ fails' = fails
    BY <1>5 DEF Ping, sessionVars, history
  <2> QED
    BY <1>0, <2>1 DEF Counted, Reconnect
<1>6. CASE Drop
  <2>1. /\ beat = "drop" /\ beat' = "capture" /\ attempts' = attempts /\ fails' = fails
    BY <1>6 DEF Drop, history
  <2> QED
    BY <1>0, <2>1 DEF Counted, Reconnect
<1>7. CASE Capture
  <2>1. /\ beat = "capture" /\ lost' = lost /\ connected' = connected /\ fails' = fails
        /\ \/ beat' = "pause" /\ lost /\ attempts' = attempts
           \/ beat' = "sleep" /\ ~ lost /\ attempts' = attempts
           \/ beat' = "initialize" /\ attempts' = attempts + 1
    BY <1>7 DEF Capture, history
  <2> QED
    BY <1>0, <2>1 DEF Counted, Reconnect
<1>8. CASE BeatInitialize \/ BeatLogin \/ BeatInfo
  <2>1. /\ beat \in Reconnect /\ beat' \in Reconnect /\ lost' = lost /\ fails' = fails
        /\ connected' = connected /\ attempts' = attempts
    BY <1>8 DEF BeatInitialize, BeatLogin, BeatInfo, Reconnect, sessionVars, history
  <2> QED
    BY <2>1 DEF Counted, Reconnect
<1>9. CASE Done
  <2>1. beat' = "sleep" /\ fails' = 0 /\ attempts' = attempts
    BY <1>9 DEF Done
  <2> QED
    BY <1>0, <2>1 DEF Counted
<1>10. CASE Failed
  <2>1. /\ beat = "failed" /\ beat' = (IF lost THEN "pause" ELSE "sleep")
        /\ ~ connected' /\ fails' = fails + 1 /\ attempts' = attempts
    BY <1>10 DEF Failed
  <2> QED
    BY <1>0, <2>1 DEF Counted, Reconnect
<1>11. CASE Pause
  <2>1. /\ beat = "pause" /\ beat' = "sleep" /\ connected' = connected
        /\ attempts' = attempts
        /\ fails' = IF attempts >= MaxAttempts THEN 0 ELSE fails
    BY <1>11 DEF Pause, sessionVars
  <2> QED
    BY <1>0, <2>1 DEF Counted, Reconnect
<1>12. CASE LateInitialize \/ LateInfo
  <2>1. /\ beat \in {"late", "lateInfo"} /\ beat' \in {"sleep", "lateInfo", "lateMark"}
        /\ connected' = connected /\ attempts' = attempts /\ fails' = fails
    BY <1>12 DEF LateInitialize, LateInfo, sessionVars, history
  <2> QED
    BY <1>0, <2>1 DEF Counted, Reconnect
<1>13. CASE LateMark
  <2>1. /\ beat = "lateMark" /\ beat' = "sleep"
        /\ \/ attempts' = 0 /\ fails' = 0
           \/ attempts' = attempts /\ fails' = fails /\ connected' = connected
    BY <1>13 DEF LateMark, MarkSession, sessionVars
  <2> QED
    BY <1>0, <2>1 DEF Counted, Reconnect
<1>14. CASE Requested \/ LoopInitialize \/ LoopLogin \/ LoopInfo \/ CooledDown \/ Terminal
  <2>1. UNCHANGED <<beat, lost, connected, attempts, fails>>
    BY <1>14
       DEF Next, Requested, LoopStep, BeatStep, Terminal, Ask, LoopInitialize,
           LoopLogin, LoopInfo, LoopMark, LoopShutdown, Wake, Ping, Drop, Capture,
           BeatInitialize, BeatLogin, BeatInfo, Done, Failed, Pause, LateInitialize,
           LateInfo, LateMark, CooledDown, RunOrphan, TerminalFails,
           TerminalRecovers, OwnerLogsIn, Initialize, Login, Fault, TimesOut,
           MarkSession, loopVars, beatVars, sessionVars, terminalVars, history
  <2> QED
    BY <1>1, <2>1
<1>15. CASE UNCHANGED vars
  <2>1. UNCHANGED <<beat, lost, connected, attempts, fails>>
    BY <1>15 DEF vars, beatVars, sessionVars, history
  <2> QED
    BY <1>1, <2>1
<1> QED
  BY <1>2, <1>3, <1>4, <1>5, <1>6, <1>7, <1>8, <1>9, <1>10, <1>11, <1>12, <1>13, <1>14,
     <1>15 DEF Next, LoopStep, BeatStep

(* Without a success, a new session or a cool-down in between, no more       *)
(* reconnects fail than a burst has, and the one after a lost heartbeat,     *)
(* for any number of attempts.                                               *)
THEOREM BurstsBounded == Spec => []BurstsAreBounded
<1>1. Init => Counted
  BY SettingAssumption DEF Init, Counted, Reconnect
<1>2. Typed /\ Counted => BurstsAreBounded
  BY SettingAssumption DEF Typed, Limits, Counted, BurstsAreBounded
<1> QED
  BY <1>1, <1>2, InitTyped, TypedStep, CountedStep, PTL DEF Spec

-----------------------------------------------------------------------------
(* Who replaces a session.                                                   *)

(* A late attach never takes the place of a session a request has made: only *)
(* a request replaces one, and a reconnect adopts an account in its own.     *)
THEOREM RequestsReplace == Spec => OnlyRequestsReplaceSessions
<1>1. ASSUME Typed, [Next]_vars, creds # NoCreds, creds' # creds
      PROVE  loop # "free" \/ requests' # requests \/ (beat = "done" /\ current)
  <2>1. CASE UNCHANGED vars
    BY <1>1, <2>1 DEF vars, sessionVars
  <2>2. CASE Requested
    <3>1. requests' = requests + 1 /\ requests \in Nat
      BY <1>1, <2>2, BoundAssumption DEF Requested, Ask, Typed, Limits
    <3> QED
      BY <3>1
  <2>3. CASE LoopStep
    BY <2>3 DEF LoopStep, LoopInitialize, LoopLogin, LoopInfo, LoopMark, LoopShutdown
  <2>4. CASE Done
    BY <1>1, <2>4 DEF Done
  <2>5. CASE LateMark
    BY <1>1, <2>5 DEF LateMark, sessionVars
  <2>6. CASE /\ BeatStep \/ CooledDown \/ Terminal
             /\ ~ Done /\ ~ LateMark
    <3>1. creds' = creds
      BY <2>6
         DEF BeatStep, Terminal, Wake, Ping, Drop, Capture, BeatInitialize, BeatLogin,
             BeatInfo, Failed, Pause, LateInitialize, LateInfo, CooledDown, RunOrphan,
             TerminalFails, TerminalRecovers, OwnerLogsIn, sessionVars
    <3> QED
      BY <1>1, <3>1
  <2> QED
    BY <1>1, <2>1, <2>2, <2>3, <2>4, <2>5, <2>6 DEF Next, BeatStep
<1>2. Typed /\ [Next]_vars =>
        [creds # NoCreds /\ creds' # creds =>
            \/ loop # "free" \/ requests' # requests
            \/ beat = "done" /\ current]_vars
  BY <1>1
<1> QED
  BY <1>2, InitTyped, TypedStep, PTL DEF Spec, OnlyRequestsReplaceSessions

-----------------------------------------------------------------------------
(* The session that is shown.                                                *)

(* As long as no session change meets a reconnect half way: credentials,     *)
(* diagnostics and terminal name one account, but while a login has gone     *)
(* through that the books do not show yet; what the heartbeat thread and the *)
(* calls left behind carry is that account too.                              *)
Books ==
    /\ loop # "shutdown" /\ connected => creds # NoCreds
    /\ loop = "shutdown" => creds = NoCreds
    /\ creds # NoCreds => shown = creds.account
    /\ creds # NoCreds /\ loop # "connected" => account = creds.account
    /\ loop \in {"connected", "attached"} => account = asked
Baggage ==
    /\ beat \in Reconnect => held = creds /\ current
    /\ beat = "done" /\ ~ held.password /\ loop # "connected" => found = account
    /\ \A o \in orphans : o # NoAccount => creds = [account |-> o, password |-> TRUE]
    /\ beat = "lateMark" /\ creds = NoCreds /\ loop # "connected" => found = account

Real == ~ disturbed => Books /\ Baggage

LEMMA RealLoop == Typed /\ Real /\ (Requested \/ LoopStep) => Real'
<1> SUFFICES ASSUME Typed, Real, Requested \/ LoopStep, ~ disturbed'
             PROVE  Books' /\ Baggage'
  BY DEF Real
<1>0. Places /\ Carried
  BY DEF Typed
<1>1. ~ disturbed /\ Books /\ Baggage
  <2>1. disturbed => disturbed'
    BY DEF Requested, LoopStep, Ask, LoopInitialize, LoopLogin, LoopInfo, LoopMark,
       LoopShutdown, history
  <2> QED
    BY <2>1, Zenon DEF Real
<1>2. CASE \E a \in Account : Ask("initialize", a)
  <2>1. loop' = "initialize" /\ loop = "free"
        /\ UNCHANGED <<creds, current, connected, shown, account, beat, held, found, orphans>>
    BY <1>2 DEF Ask, beatVars, terminalVars
  <2> QED
    BY <1>1, <2>1 DEF Books, Baggage
<1>3. CASE Ask("attach", NoAccount)
  <2>1. loop' = "attach" /\ loop = "free"
        /\ UNCHANGED <<creds, current, connected, shown, account, beat, held, found, orphans>>
    BY <1>3 DEF Ask, beatVars, terminalVars
  <2> QED
    BY <1>1, <2>1 DEF Books, Baggage
<1>4. CASE Ask("shutdown", NoAccount)
  <2>1. loop' = "shutdown" /\ creds' = NoCreds /\ orphans' = orphans /\ beat' = beat
    BY <1>4 DEF Ask, beatVars
  <2>2. ~ InFlight
    BY <1>4 DEF Ask
  <2> QED
    BY <2>1, <2>2 DEF Books, Baggage, InFlight, Reconnect
<1>5. CASE LoopInitialize
  <2>1. /\ loop \in {"initialize", "attach"} /\ loop' \in {"free", "login", "info"}
        /\ UNCHANGED <<creds, current, connected, shown, account, beat, held, found, orphans>>
    BY <1>5 DEF LoopInitialize, Initialize, beatVars, sessionVars
  <2> QED
    BY <1>1, <2>1 DEF Books, Baggage
<1>6. CASE LoopLogin
  <2>1. /\ loop = "login"
        /\ \/ loop' = "connected" /\ account' = asked
           \/ loop' = "free" /\ account' = account
        /\ UNCHANGED <<asked, creds, current, connected, shown, beat, held, found, orphans>>
    BY <1>6 DEF LoopLogin, Login, beatVars, sessionVars
  <2> QED
    BY <1>1, <2>1 DEF Books, Baggage
<1>7. CASE LoopInfo
  <2>1. /\ loop = "info"
        /\ loop' = "free" \/ (loop' = "attached" /\ asked' = account)
        /\ UNCHANGED <<account, creds, current, connected, shown, beat, held, found, orphans>>
    BY <1>7 DEF LoopInfo, Info, beatVars, sessionVars
  <2> QED
    BY <1>1, <2>1 DEF Books, Baggage
<1>8. CASE LoopMark
  <2>1. /\ loop \in {"connected", "attached"} /\ loop' = "free" /\ shown' = asked
        /\ creds' = [account |-> asked, password |-> loop = "connected"]
        /\ UNCHANGED <<account, beat, orphans>>
    BY <1>8 DEF LoopMark, MarkSession, beatVars, terminalVars
  <2>2. ~ InFlight
    BY <1>8 DEF LoopMark
  <2>3. beat' \notin Reconnect \cup {"lateMark"} /\ orphans' = {}
    BY <2>1, <2>2 DEF InFlight, Reconnect
  <2>4. creds'.account = asked /\ asked \in Account
    BY <1>0, <2>1 DEF Carried
  <2>5. creds' # NoCreds
    BY <2>4, AccountAssumption DEF NoCreds
  <2> QED
    BY <1>1, <2>1, <2>3, <2>4, <2>5 DEF Books, Baggage, Reconnect
<1>9. CASE LoopShutdown
  <2>1. /\ loop = "shutdown" /\ loop' = "free" /\ ~ connected'
        /\ UNCHANGED <<account, creds, current, beat, held, found, orphans>>
    BY <1>9 DEF LoopShutdown, beatVars
  <2> QED
    BY <1>1, <2>1 DEF Books, Baggage
<1> QED
  BY <1>2, <1>3, <1>4, <1>5, <1>6, <1>7, <1>8, <1>9 DEF Requested, LoopStep

LEMMA RealBeat == Typed /\ Real /\ (BeatStep \/ CooledDown) => Real'
<1> SUFFICES ASSUME Typed, Real, BeatStep \/ CooledDown, ~ disturbed'
             PROVE  Books' /\ Baggage'
  BY DEF Real
<1>0. Places /\ Carried
  BY DEF Typed
<1>1. ~ disturbed /\ Books /\ Baggage
  <2>1. disturbed => disturbed'
    BY
       DEF Next, Requested, LoopStep, BeatStep, Terminal, Ask, LoopInitialize,
           LoopLogin, LoopInfo, LoopMark, LoopShutdown, Wake, Ping, Drop, Capture,
           BeatInitialize, BeatLogin, BeatInfo, Done, Failed, Pause, LateInitialize,
           LateInfo, LateMark, CooledDown, RunOrphan, TerminalFails,
           TerminalRecovers, OwnerLogsIn, Initialize, Login, Fault, TimesOut,
           MarkSession, loopVars, beatVars, sessionVars, terminalVars, history
  <2> QED
    BY <2>1, Zenon DEF Real
<1>2. CASE Wake \/ Ping \/ Drop \/ Pause \/ CooledDown
  <2>1. /\ UNCHANGED <<loop, asked, account, creds, current, shown, held, found>>
        /\ beat' \in {"sleep", "late", "ping", "capture", "drop"} \/ beat' = beat
        /\ orphans' \in {orphans, orphans \cup {}}
        /\ connected' => connected
    BY <1>2 DEF Wake, Ping, Drop, Pause, CooledDown, TimesOut, loopVars, sessionVars,
       terminalVars
  <2> QED
    BY <1>1, <2>1 DEF Books, Baggage, Reconnect
<1>3. CASE Capture
  <2>1. /\ UNCHANGED <<loop, asked, account, creds, shown, connected, found, orphans>>
        /\ \/ beat' \in {"pause", "sleep"}
           \/ beat' = "initialize" /\ held' = creds /\ current'
    BY <1>3 DEF Capture, loopVars, terminalVars
  <2> QED
    BY <1>1, <2>1 DEF Books, Baggage, Reconnect
<1>4. CASE BeatInitialize
  <2>1. /\ UNCHANGED <<loop, asked, account, creds, current, shown, connected, held, found>>
        /\ beat = "initialize" /\ beat' \in {"failed", "login", "info"}
        /\ orphans' \in {orphans, orphans \cup {NoAccount}}
    BY <1>4 DEF BeatInitialize, Initialize, TimesOut, loopVars, sessionVars, terminalVars
  <2>2. \A o \in orphans' : o # NoAccount => o \in orphans
    BY <2>1
  <2> QED
    BY <1>1, <2>1, <2>2 DEF Books, Baggage, Reconnect
<1>5. CASE BeatLogin
  <2>1. /\ UNCHANGED <<loop, asked, creds, current, shown, connected, held, found>>
        /\ beat = "login"
        /\ \/ /\ beat' \in {"done", "failed"} /\ account' \in {account, held.account}
              /\ loop = "free" /\ orphans' = orphans
           \/ /\ beat' = "failed" /\ account' = account
              /\ orphans' = orphans \cup {held.account}
    BY <1>5 DEF BeatLogin, Login, TimesOut, loopVars, sessionVars, terminalVars
  <2>2. held = creds /\ current /\ held \in Known /\ held.password
    BY <1>0, <1>1, <2>1 DEF Baggage, Carried, Reconnect
  <2>3. held = [account |-> held.account, password |-> TRUE] /\ held # NoCreds
    <3>1. held.password = TRUE
      BY <2>2 DEF Known
    <3> QED
      BY <2>2, <3>1, CredsAre DEF Known
  <2>4. account' = account \/ (account' = creds.account /\ loop = "free")
    BY <2>1, <2>2
  <2>5. \A o \in orphans' : o # NoAccount => creds = [account |-> o, password |-> TRUE]
    BY <1>1, <2>1, <2>2, <2>3 DEF Baggage
  <2>6. Books'
    BY <1>1, <2>1, <2>4 DEF Books
  <2>7. beat' \in {"done", "failed"} /\ held'.password /\ held' = creds' /\ current'
    BY <2>1, <2>2
  <2> QED
    BY <2>1, <2>5, <2>6, <2>7 DEF Baggage
<1>6. CASE BeatInfo
  <2>1. /\ UNCHANGED <<loop, asked, account, creds, current, shown, connected, held>>
        /\ beat = "info" /\ beat' \in {"failed", "done"} /\ orphans' \in {orphans, orphans \cup {}}
        /\ beat' = "done" => found' = account
    BY <1>6 DEF BeatInfo, Info, TimesOut, loopVars, sessionVars, terminalVars
  <2> QED
    BY <1>1, <2>1 DEF Books, Baggage, Reconnect
<1>7. CASE Done
  <2>1. /\ UNCHANGED <<loop, asked, account, orphans>>
        /\ beat = "done" /\ beat' = "sleep"
        /\ \/ held.password /\ creds' = creds /\ shown' = shown
           \/ /\ ~ held.password /\ shown' = found
              /\ creds' = IF current THEN [creds EXCEPT !.account = found] ELSE creds
    BY <1>7 DEF Done, loopVars, terminalVars
  <2>2. held = creds /\ current /\ creds \in Known /\ loop # "shutdown"
    BY <1>0, <1>1, <2>1, CredsAre DEF Books, Baggage, Carried, Reconnect
  <2>3. CASE held.password
    <3>1. creds' = creds /\ shown' = shown /\ creds # NoCreds
      BY <2>1, <2>2, <2>3, CredsAre
    <3> QED
      BY <1>1, <2>1, <2>2, <3>1 DEF Books, Baggage, Reconnect
  <2>4. CASE ~ held.password
    <3>1. shown' = found /\ found \in Account
      BY <1>0, <2>1, <2>4 DEF Carried
    <3>2. creds' = [account |-> found, password |-> creds.password]
      BY <2>1, <2>2, <2>4 DEF Known
    <3>3. creds'.account = found /\ creds' # NoCreds
      BY <3>1, <3>2, AccountAssumption DEF NoCreds
    <3>4. loop # "connected" => found = account
      BY <1>1, <2>1, <2>4 DEF Baggage
    <3>5. \A o \in orphans : o = NoAccount
      <4>1. ASSUME NEW o \in orphans, o # NoAccount PROVE FALSE
        <5>1. creds.password = TRUE
          BY <1>1, <4>1 DEF Baggage
        <5> QED
          BY <2>2, <2>4, <5>1
      <4> QED
        BY <4>1
    <3> QED
      BY <1>1, <2>1, <2>2, <3>1, <3>3, <3>4, <3>5 DEF Books, Baggage, Reconnect
  <2> QED
    BY <2>3, <2>4
<1>8. CASE Failed
  <2>1. /\ UNCHANGED <<loop, asked, account, creds, shown, orphans>> /\ ~ connected'
        /\ beat' \in {"pause", "sleep"}
    BY <1>8 DEF Failed, loopVars, terminalVars
  <2> QED
    BY <1>1, <2>1 DEF Books, Baggage, Reconnect
<1>9. CASE LateInitialize
  <2>1. /\ UNCHANGED <<loop, asked, account, creds, current, shown, connected, held, found,
                       orphans>>
        /\ beat' \in {"lateInfo", "sleep"}
    BY <1>9 DEF LateInitialize, Initialize, loopVars, sessionVars
  <2> QED
    BY <1>1, <2>1 DEF Books, Baggage, Reconnect
<1>10. CASE LateInfo
  <2>1. /\ UNCHANGED <<loop, asked, account, creds, current, shown, connected, held, orphans>>
        /\ beat' = "sleep" \/ (beat' = "lateMark" /\ found' = account)
    BY <1>10 DEF LateInfo, Info, loopVars, sessionVars, terminalVars
  <2> QED
    BY <1>1, <2>1 DEF Books, Baggage, Reconnect
<1>11. CASE LateMark
  <2>1. /\ UNCHANGED <<loop, asked, account, orphans>> /\ beat = "lateMark" /\ loop = "free"
        /\ beat' = "sleep"
        /\ IF creds = NoCreds
           THEN creds' = [account |-> found, password |-> FALSE] /\ shown' = found
           ELSE UNCHANGED <<creds, shown, connected>>
    BY <1>11 DEF LateMark, MarkSession, CanLock, loopVars, sessionVars, terminalVars
  <2>2. CASE creds = NoCreds
    <3>1. creds'.account = found /\ shown' = found /\ found \in Account
      BY <1>0, <2>1, <2>2 DEF Carried
    <3>2. creds' # NoCreds /\ found = account
      BY <1>1, <2>1, <2>2, <3>1, AccountAssumption DEF NoCreds, Baggage
    <3>3. \A o \in orphans : o = NoAccount
      <4>1. ASSUME NEW o \in orphans, o # NoAccount PROVE FALSE
        <5>1. creds.account = o
          BY <1>1, <4>1 DEF Baggage
        <5> QED
          BY <2>2, <4>1, <5>1 DEF NoCreds
      <4> QED
        BY <4>1
    <3> QED
      BY <2>1, <3>1, <3>2, <3>3 DEF Books, Baggage, Reconnect
  <2>3. CASE creds # NoCreds
    BY <1>1, <2>1, <2>3 DEF Books, Baggage, Reconnect
  <2> QED
    BY <2>2, <2>3
<1> QED
  BY <1>2, <1>3, <1>4, <1>5, <1>6, <1>7, <1>8, <1>9, <1>10, <1>11 DEF BeatStep

LEMMA RealTerminal == Typed /\ Real /\ Terminal => Real'
<1> SUFFICES ASSUME Typed, Real, Terminal, ~ disturbed' PROVE Books' /\ Baggage'
  BY DEF Real
<1>0. Places /\ Carried
  BY DEF Typed
<1>1. ~ disturbed /\ Books /\ Baggage
  <2>1. disturbed => disturbed'
    BY DEF Terminal, RunOrphan, TerminalFails, TerminalRecovers, OwnerLogsIn, history
  <2> QED
    BY <2>1, Zenon DEF Real
<1>2. UNCHANGED <<loop, asked, beat, held, found, creds, current, connected, shown>>
  BY DEF Terminal, RunOrphan, TerminalFails, TerminalRecovers, OwnerLogsIn, loopVars, beatVars,
     sessionVars
<1>3. \A o \in orphans' : o \in orphans
  BY DEF Terminal, RunOrphan, TerminalFails, TerminalRecovers, OwnerLogsIn
<1>4. CASE account' = account
  BY <1>1, <1>2, <1>3, <1>4 DEF Books, Baggage
<1>5. ASSUME NEW o \in orphans, o # NoAccount, account' = o, loop = "free"
      PROVE  Books' /\ Baggage'
  <2>1. creds = [account |-> o, password |-> TRUE]
    BY <1>1, <1>5 DEF Baggage
  <2>2. creds.account = o /\ creds.password
    BY <2>1
  <2>3. creds # NoCreds
    BY <1>5, <2>2 DEF NoCreds
  <2>4. Books'
    BY <1>1, <1>2, <1>5, <2>2 DEF Books
  <2>5. beat = "done" => held.password
    BY <1>1, <2>2 DEF Baggage, Reconnect
  <2> QED
    BY <1>1, <1>2, <1>3, <2>3, <2>4, <2>5 DEF Baggage
<1>6. ASSUME NEW a \in Account, OwnerLogsIn(a) PROVE Books' /\ Baggage'
  <2>1. account = NoAccount
    BY <1>6 DEF OwnerLogsIn
  <2>2. ASSUME creds # NoCreds, loop # "connected" PROVE FALSE
    <3>1. creds.account = NoAccount /\ creds \in Known
      BY <1>0, <1>1, <2>1, <2>2, CredsAre DEF Books, Places
    <3> QED
      BY <3>1, AccountAssumption DEF Known
  <2>3. loop \notin {"connected", "attached"}
    BY <1>0, <1>1, <2>1, AccountAssumption DEF Books, Carried
  <2>4. creds = NoCreds
    BY <2>2, <2>3
  <2>5. ASSUME beat \in Reconnect PROVE FALSE
    BY <1>0, <1>1, <2>4, <2>5, CredsAre DEF Baggage, Carried
  <2>6. ASSUME beat = "lateMark" PROVE FALSE
    BY <1>0, <1>1, <2>1, <2>3, <2>4, <2>6, AccountAssumption DEF Baggage, Carried
  <2>7. Books'
    BY <1>1, <1>2, <2>3, <2>4 DEF Books
  <2>8. beat' \notin Reconnect \cup {"lateMark"}
    BY <1>2, <2>5, <2>6
  <2> QED
    BY <1>1, <1>2, <1>3, <2>7, <2>8 DEF Baggage, Reconnect
<1>7. \/ account' = account
      \/ \E a \in Account : OwnerLogsIn(a)
      \/ \E o \in orphans : o # NoAccount /\ account' = o /\ loop = "free"
  BY DEF Terminal, RunOrphan, TerminalFails, TerminalRecovers, Login, Initialize
<1> QED
  BY <1>4, <1>5, <1>6, <1>7

LEMMA RealStep == Typed /\ Real /\ [Next]_vars => Real'
<1> SUFFICES ASSUME Typed, Real, [Next]_vars PROVE Real'
  OBVIOUS
<1>1. CASE UNCHANGED vars
  BY <1>1 DEF vars, loopVars, beatVars, sessionVars, terminalVars, history, Real, Books,
     Baggage
<1> QED
  BY <1>1, RealLoop, RealBeat, RealTerminal DEF Next

(* When nothing is in progress, a session shown as connected has credentials *)
(* and is the terminal's, whatever timed out, failed or was left behind,     *)
(* unless a session change met a reconnect half way or the owner changed the *)
(* account.                                                                  *)
THEOREM ShownIsReal == Spec => []ShownSessionIsReal
<1>1. Init => Real
  BY DEF Init, Real, Books, Baggage, Reconnect
<1>2. Real => ShownSessionIsReal
  BY DEF Real, Books, ShownSessionIsReal
<1> QED
  BY <1>1, <1>2, InitTyped, TypedStep, RealStep, PTL DEF Spec
=============================================================================
