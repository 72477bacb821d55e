------------------------- MODULE DesktopShellProofs -------------------------
(***************************************************************************)
(* Proofs about DesktopShell for any number of retries and windows: the    *)
(* application leaves no server behind, its callbacks find the main        *)
(* window, and the user can reach it.                                      *)
(***************************************************************************)
EXTENDS DesktopShell, TLAPS

\* The server lives only as the child that serverProcess knows, a close
\* event comes from a dead one, and only the end of the application forgets
\* it.
ServerInv ==
  /\ Alive => serverProcess = "set" /\ running
  /\ closing # "none" => server = "dead"
  /\ startup = "new" => serverProcess = "undefined"
  /\ serverProcess = "undefined" => server = "none"
  /\ serverProcess = "null" => ~running

\* Quitting has ended the application, or before-quit's timer will.
QuittingInv == isQuitting /\ running => exitTimer

\* Why nobody is stranded: once the dialogs of a failure are answered, the
\* timer runs, or there never was a server and a window called the quit off.
FailedInv ==
  /\ startup = "ready" => tray
  /\ running /\ startup = "failed" /\ dialogs = {} /\ ~exitTimer =>
       serverProcess = "undefined" /\ Open # {}

IInv ==
  /\ TypeOK
  /\ ServerInv
  /\ QuittingInv
  /\ FailedInv
  /\ MainWindowIsThere
-----------------------------------------------------------------------------
USE ShellAssumption
    DEF shell, process, screen, polling, Codes, Boxes, Window

LEMMA InitInv == Init => IInv
<1> SUFFICES ASSUME Init PROVE IInv
  OBVIOUS
<1>1. TypeOK
  BY DEF Init, TypeOK
<1>2. ServerInv /\ QuittingInv /\ FailedInv
  BY DEF Init, ServerInv, QuittingInv, FailedInv, Alive
<1>3. MainWindowIsThere
  BY DEF Init, MainWindowIsThere, Open
<1>4. QED
  BY <1>1, <1>2, <1>3 DEF IInv

\* A window that opens is the main window, and is open.
LEMMA createWindowInv ==
  ASSUME TypeOK, createWindow
  PROVE  /\ windows' \in [Window -> {"none", "shown", "hidden", "closed"}]
         /\ mainWindow' \in Window
         /\ mainWindow' \in Open'
BY DEF TypeOK, createWindow, Open

\* A window that is closed hides the main window, or the application quits.
LEMMA CloseWindowInv ==
  ASSUME TypeOK, MainWindowIsThere, NEW w \in Open, CloseWindow(w)
  PROVE  /\ windows' \in [Window -> {"none", "shown", "hidden", "closed"}]
         /\ mainWindow' \in Window \cup {-1}
         /\ ~isQuitting => mainWindow' \in Open'
<1>1. w \in Window
  BY DEF Open
<1>2. CASE isQuitting
  BY <1>1, <1>2 DEF TypeOK, CloseWindow
<1>3. CASE ~isQuitting
  <2>1. mainWindow \in Open
    BY <1>3 DEF MainWindowIsThere
  <2>2. QED
    BY <1>3, <2>1 DEF TypeOK, CloseWindow, Open
<1>4. QED
  BY <1>2, <1>3

\* app.quit, for whatever reason.
LEMMA QuitInv ==
  ASSUME IInv, running, NEW quitting \in BOOLEAN, isQuitting => quitting,
         Quit(quitting), dialogs' \subseteq dialogs
  PROVE  IInv'
<1> USE DEF IInv
<1>1. CASE serverProcess = "set"
  <2>1. TypeOK'
    BY <1>1 DEF Quit, BeforeQuit, TypeOK, Alive
  <2>2. ServerInv'
    BY <1>1 DEF Quit, BeforeQuit, ServerInv, Alive
  <2>3. QuittingInv' /\ FailedInv'
    BY <1>1 DEF Quit, BeforeQuit, QuittingInv, FailedInv
  <2>4. MainWindowIsThere'
    BY <1>1 DEF Quit, BeforeQuit, MainWindowIsThere, Open
  <2>5. QED
    BY <2>1, <2>2, <2>3, <2>4
<1>2. CASE serverProcess # "set"
  <2>1. serverProcess = "undefined" /\ server = "none"
    BY <1>2 DEF ServerInv, TypeOK
  <2>2. running' = (~quitting /\ Open # {})
    BY <1>2 DEF Quit
  <2>3. windows' \in [Window -> {"none", "shown", "hidden", "closed"}]
    BY <1>2 DEF Quit, TypeOK
  <2>4. TypeOK'
    BY <1>2, <2>2, <2>3 DEF Quit, TypeOK
  <2>5. ServerInv'
    BY <1>2, <2>1 DEF Quit, ServerInv, Alive
  <2>6. QuittingInv'
    BY <1>2, <2>2 DEF Quit, QuittingInv
  <2>7. running' => mainWindow' \in Open'
    BY <1>2, <2>2 DEF Quit, MainWindowIsThere, Open, TypeOK
  <2>8. FailedInv'
    BY <1>2, <2>1, <2>7 DEF Quit, FailedInv
  <2>9. MainWindowIsThere'
    <3>1. CASE running'
      BY <3>1, <2>7 DEF MainWindowIsThere
    <3>2. CASE ~running'
      BY <1>2, <3>2 DEF Quit, MainWindowIsThere, Open
    <3>3. QED
      BY <3>1, <3>2
  <2>10. QED
    BY <2>4, <2>5, <2>6, <2>8, <2>9
<1>3. QED
  BY <1>1, <1>2

\* Steps of the windows: what they do to windows and mainWindow is enough.
LEMMA ScreenStep ==
  ASSUME IInv,
         UNCHANGED <<shell, process, dialogs, polling>>,
         windows' \in [Window -> {"none", "shown", "hidden", "closed"}],
         mainWindow' \in Window \cup {0, -1},
         ~isQuitting => mainWindow' \in Open'
  PROVE  IInv'
<1> USE DEF IInv
<1>1. TypeOK'
  BY DEF TypeOK
<1>2. ServerInv' /\ QuittingInv'
  BY DEF ServerInv, QuittingInv, Alive
<1>3. FailedInv'
  BY DEF FailedInv, QuittingInv
<1>4. MainWindowIsThere'
  BY DEF MainWindowIsThere
<1>5. QED
  BY <1>1, <1>2, <1>3, <1>4

LEMMA WindowActionsInv ==
  ASSUME IInv,
         \/ \E w \in Window : UserCloses(w)
         \/ \E click \in BOOLEAN : TrayShow(click)
         \/ activate
  PROVE  IInv'
<1>1. ASSUME NEW w \in Window, UserCloses(w) PROVE IInv'
  <2>1. /\ windows' \in [Window -> {"none", "shown", "hidden", "closed"}]
        /\ mainWindow' \in Window \cup {-1}
        /\ ~isQuitting => mainWindow' \in Open'
    BY <1>1, CloseWindowInv DEF UserCloses, IInv
  <2>2. QED
    BY <1>1, <2>1, ScreenStep DEF UserCloses
<1>2. ASSUME NEW click \in BOOLEAN, TrayShow(click) PROVE IInv'
  <2>1. CASE mainWindow = -1
    BY <1>2, <2>1, createWindowInv, ScreenStep DEF TrayShow, IInv
  <2>2. CASE mainWindow # -1 /\ mainWindow \in Window
    <3>1. /\ windows' \in [Window -> {"none", "shown", "hidden", "closed"}]
          /\ mainWindow' = mainWindow
          /\ windows'[mainWindow] \in {"shown", "hidden"}
      BY <1>2, <2>2 DEF TrayShow, IInv, TypeOK
    <3>2. mainWindow' \in Open'
      BY <3>1, <2>2 DEF Open
    <3>3. QED
      BY <1>2, <2>2, <3>1, <3>2, ScreenStep DEF TrayShow
  <2>3. CASE mainWindow = 0
    <3>1. UNCHANGED vars
      BY <1>2, <2>3 DEF TrayShow, IInv, TypeOK, vars
    <3>2. QED
      BY <3>1 DEF vars, IInv, TypeOK, ServerInv, QuittingInv, FailedInv,
                  MainWindowIsThere, Open, Alive
  <2>4. QED
    BY <2>1, <2>2, <2>3 DEF IInv, TypeOK
<1>3. CASE activate
  BY <1>3, createWindowInv, ScreenStep DEF activate, IInv
<1>4. QED
  BY <1>1, <1>2, <1>3

LEMMA QuitActionsInv ==
  ASSUME IInv,
         \/ TrayQuit
         \/ SystemQuit
         \/ \E box \in dialogs : Dismiss(box)
  PROVE  IInv'
<1>1. isQuitting \in BOOLEAN
  BY DEF IInv, TypeOK
<1>2. CASE TrayQuit
  BY <1>2, QuitInv DEF TrayQuit
<1>3. CASE SystemQuit
  BY <1>1, <1>3, QuitInv DEF SystemQuit
<1>4. ASSUME NEW box \in dialogs, Dismiss(box) PROVE IInv'
  <2>1. (isQuitting \/ box \in {"crash", "crashlog"}) \in BOOLEAN
    BY <1>1
  <2>2. QED
    BY <2>1, <1>4, QuitInv DEF Dismiss
<1>5. QED
  BY <1>2, <1>3, <1>4

LEMMA KillAndExitInv == ASSUME IInv, KillAndExit PROVE IInv'
<1> USE DEF IInv, KillAndExit
<1>1. TypeOK'
  BY DEF TypeOK
<1>2. ServerInv'
  BY DEF ServerInv, Alive, TypeOK
<1>3. QuittingInv' /\ FailedInv'
  BY DEF QuittingInv, FailedInv
<1>4. MainWindowIsThere'
  BY DEF MainWindowIsThere, Open
<1>5. QED
  BY <1>1, <1>2, <1>3, <1>4

\* Steps of the server process and of the polling that open no window.
LEMMA StartServerInv ==
  ASSUME IInv, StartServer \/ StartServerThrows
  PROVE  IInv'
<1> USE DEF IInv, StartServer, StartServerThrows, Fail
<1>1. TypeOK'
  <2>1. UNCHANGED <<isDev, foreign, running, isQuitting, tray, exitOnClose,
                    exitTimer>>
    OBVIOUS
  <2>2. /\ startup' \in {"waiting", "failed"}
        /\ serverProcess' \in {"undefined", "set", serverProcess}
        /\ server' \in {"none", "booting", server}
        /\ dialogs' \in {dialogs, dialogs \cup {"startup"}}
    OBVIOUS
  <2>3. attempt' \in Nat /\ requests' \in Nat /\ retries' \in Nat
    BY DEF TypeOK
  <2>4. QED
    BY <2>1, <2>2, <2>3 DEF TypeOK
<1>2. ServerInv'
  BY DEF ServerInv, Alive, TypeOK
<1>3. QuittingInv' /\ FailedInv'
  BY DEF QuittingInv, FailedInv
<1>4. MainWindowIsThere'
  BY DEF MainWindowIsThere, Open
<1>5. QED
  BY <1>1, <1>2, <1>3, <1>4

LEMMA ServerStepsInv ==
  ASSUME IInv,
         ServerListens \/ (\E code \in Codes : ServerExits(code)) \/ SpawnError
  PROVE  IInv'
<1> USE DEF IInv, ServerListens, ServerExits, SpawnError, Fail
<1>1. TypeOK'
  BY DEF TypeOK
<1>2. ServerInv'
  BY DEF ServerInv, Alive, TypeOK
<1>3. QuittingInv' /\ FailedInv'
  <2>1. QuittingInv'
    BY DEF QuittingInv
  <2>2. serverProcess = "set"
    BY DEF ServerInv, Alive
  <2>3. Open' = Open
    BY DEF Open
  <2>4. FailedInv'
    BY <2>2, <2>3 DEF FailedInv
  <2>5. QED
    BY <2>1, <2>4
<1>4. MainWindowIsThere'
  BY DEF MainWindowIsThere, Open
<1>5. QED
  BY <1>1, <1>2, <1>3, <1>4

\* The close callbacks.
LEMMA ServerClosedInv == ASSUME IInv, ServerClosed PROVE IInv'
<1> USE DEF IInv, ServerClosed
<1>1. /\ windows' \in [Window -> {"none", "shown", "hidden", "closed"}]
      /\ mainWindow' \in Window \cup {0, -1}
      /\ MainWindowIsThere'
  <2>1. CASE UNCHANGED <<windows, mainWindow>>
    BY <2>1 DEF TypeOK, MainWindowIsThere, Open
  <2>2. CASE mainWindow \in Open /\ CloseWindow(mainWindow)
    BY <2>2, CloseWindowInv DEF MainWindowIsThere
  <2>3. QED
    BY <2>1, <2>2
<1>2. TypeOK'
  BY <1>1 DEF TypeOK
<1>3. ServerInv'
  BY DEF ServerInv, Alive, TypeOK
<1>4. QuittingInv'
  BY DEF QuittingInv
<1>5. FailedInv'
  <2>1. serverProcess = "set"
    BY DEF ServerInv, TypeOK
  <2>2. dialogs \subseteq dialogs'
    OBVIOUS
  <2>3. QED
    BY <2>1, <2>2 DEF FailedInv
<1>6. QED
  BY <1>1, <1>2, <1>3, <1>4, <1>5

LEMMA PollingInv ==
  ASSUME IInv, Retry \/ PollAnswered \/ PollRefused \/ PollTimesOut
  PROVE  IInv'
<1> USE DEF IInv
<1>1. CASE Retry
  <2> USE <1>1 DEF Retry
  <2>1. TypeOK'
    BY DEF TypeOK
  <2>2. ServerInv' /\ QuittingInv' /\ FailedInv' /\ MainWindowIsThere'
    BY DEF ServerInv, Alive, QuittingInv, FailedInv, MainWindowIsThere, Open
  <2>3. QED
    BY <2>1, <2>2
<1>2. CASE PollAnswered
  <2> USE <1>2 DEF PollAnswered
  <2>1. /\ windows' \in [Window -> {"none", "shown", "hidden", "closed"}]
        /\ mainWindow' \in Window \cup {0, -1}
        /\ MainWindowIsThere'
    <3>1. CASE createWindow
      BY <3>1, createWindowInv DEF MainWindowIsThere
    <3>2. CASE UNCHANGED <<windows, mainWindow>>
      BY <3>2 DEF TypeOK, MainWindowIsThere, Open
    <3>3. QED
      BY <3>1, <3>2
  <2>2. TypeOK'
    <3>1. UNCHANGED <<isDev, foreign, running, isQuitting, exitOnClose,
                      exitTimer>> /\ tray' \in {TRUE, tray}
      OBVIOUS
    <3>2. startup' \in {"ready", startup}
      OBVIOUS
    <3>3. requests' \in Nat
      BY DEF TypeOK
    <3>4. QED
      BY <2>1, <3>1, <3>2, <3>3 DEF TypeOK
  <2>3. ServerInv' /\ QuittingInv'
    BY DEF ServerInv, Alive, QuittingInv
  <2>4. FailedInv'
    BY DEF FailedInv, Open
  <2>5. QED
    BY <2>1, <2>2, <2>3, <2>4
<1>3. CASE PollRefused \/ PollTimesOut
  <2> USE <1>3 DEF PollRefused, PollTimesOut, TryAgain, Fail
  <2>1. TypeOK'
    <3>1. UNCHANGED <<isDev, foreign, running, isQuitting, tray, exitOnClose,
                      exitTimer>>
      OBVIOUS
    <3>2. /\ startup' \in {"failed", startup}
          /\ dialogs' \in {dialogs, dialogs \cup {"startup"}}
      OBVIOUS
    <3>3. requests' \in Nat /\ retries' \in Nat
      BY DEF TypeOK
    <3>4. QED
      BY <3>1, <3>2, <3>3 DEF TypeOK
  <2>2. ServerInv' /\ QuittingInv'
    BY DEF ServerInv, Alive, QuittingInv
  <2>3. FailedInv'
    BY DEF FailedInv, Open
  <2>4. MainWindowIsThere'
    BY DEF MainWindowIsThere, Open
  <2>5. QED
    BY <2>1, <2>2, <2>3, <2>4
<1>4. QED
  BY <1>1, <1>2, <1>3

LEMMA ViewLogInv ==
  ASSUME IInv, NEW box \in dialogs, ViewLog(box)
  PROVE  IInv'
<1> USE DEF IInv, ViewLog, LogBox
<1>1. TypeOK'
  BY DEF TypeOK
<1>2. ServerInv' /\ QuittingInv' /\ FailedInv' /\ MainWindowIsThere'
  BY DEF ServerInv, Alive, QuittingInv, FailedInv, MainWindowIsThere, Open
<1>3. QED
  BY <1>1, <1>2

LEMMA NextInv == IInv /\ [Next]_vars => IInv'
<1> SUFFICES ASSUME IInv, [Next]_vars PROVE IInv'
  OBVIOUS
<1>1. CASE UNCHANGED vars
  <2>1. TypeOK'
    BY <1>1 DEF vars, IInv, TypeOK
  <2>2. ServerInv' /\ QuittingInv' /\ FailedInv' /\ MainWindowIsThere'
    BY <1>1 DEF vars, IInv, ServerInv, Alive, QuittingInv, FailedInv,
                MainWindowIsThere, Open
  <2>3. QED
    BY <2>1, <2>2 DEF IInv
<1>2. CASE Next
  BY <1>2, WindowActionsInv, QuitActionsInv, KillAndExitInv, StartServerInv,
     ServerStepsInv, ServerClosedInv, PollingInv, ViewLogInv DEF Next
<1>3. QED
  BY <1>1, <1>2

LEMMA Invariance == Spec => []IInv
BY InitInv, NextInv, PTL DEF Spec

\* Every variable keeps its range, mainWindow above all.
THEOREM ShellTypeCorrect == Spec => []TypeOK
<1>1. IInv => TypeOK
  BY DEF IInv
<1>2. QED
  BY <1>1, Invariance, PTL

\* However the close callback, the five second timer, crashes of the server
\* and several quits race, the application does not exit before its server
\* (electron/main.js, before-quit).
THEOREM LeavesNoServer == Spec => []NoOrphan
<1>1. IInv => NoOrphan
  BY DEF IInv, ServerInv, NoOrphan
<1>2. QED
  BY <1>1, Invariance, PTL

\* Whichever windows were opened and closed, mainWindow is an open window
\* when a callback of a window calls it.
THEOREM CallbacksFindWindow == Spec => []MainWindowIsThere
<1>1. IInv => MainWindowIsThere
  BY DEF IInv
<1>2. QED
  BY <1>1, Invariance, PTL

\* Once it has started or failed to, the application has a tray, a dialog, a
\* shown window or a timer that ends it, save in the one case that
\* NeverStranded names.
THEOREM UserIsNotStranded == Spec => []NeverStranded
<1>1. IInv => NeverStranded
  BY DEF IInv, FailedInv, NeverStranded
<1>2. QED
  BY <1>1, Invariance, PTL
=============================================================================
