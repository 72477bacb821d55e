---------------------------- MODULE DesktopShell ----------------------------
(***************************************************************************)
(* The desktop application, electron/main.js: it starts the server as a    *)
(* child process, polls its port until it answers, opens a window and a    *)
(* tray icon, and must take the server down with itself.                   *)
(*                                                                         *)
(* Everything happens in callbacks: of the child process (error, close),   *)
(* of the HTTP requests and timers of the polling, of windows, dialogs and *)
(* the tray, and of app (activate, before-quit).  A callback is one step;  *)
(* their order is what the operating system, the server and the user make  *)
(* it.                                                                     *)
(***************************************************************************)
EXTENDS Integers

CONSTANTS
  MaxRetries,  \* of checkServerAvailability
  MaxWindows   \* bound: how many windows are ever opened

ASSUME ShellAssumption ==
  /\ MaxRetries \in Nat \ {0}
  /\ MaxWindows \in Nat \ {0}

VARIABLES
  isDev,       \* NODE_ENV is development: no server of its own
  foreign,     \* another program answers on the port
  running,     \* the application has not exited
  startup,     \* the function given to whenReady: "new", "waiting" for
               \* startServer, "ready" or "failed"
  isQuitting,  \* app.isQuitting
  windows,     \* [1..MaxWindows -> "none", "shown", "hidden" or "closed"]
  mainWindow,  \* a window, 0 while undefined, -1 for null
  tray,        \* the tray icon exists
  serverProcess, \* "undefined", "set" or "null"
  server,      \* the process: "none", "booting", "listening", "dead"
  closing,     \* exit code of a close event not yet delivered, or "none"
  exitOnClose, \* before-quit has registered its close callback in time
  exitTimer,   \* the five second timer of before-quit is running
  dialogs,     \* message boxes that wait for an answer
  attempt,     \* currentAttempt
  requests,    \* requests of the polling that are under way
  retries      \* timers that will call tryConnect

shell == <<isDev, foreign, running, startup, isQuitting, tray>>
process == <<serverProcess, server, closing, exitOnClose, exitTimer>>
screen == <<windows, mainWindow, dialogs>>
polling == <<attempt, requests, retries>>
vars == <<shell, process, screen, polling>>

Codes == {"zero", "nonzero", "signal"}
Boxes == {"crash", "crashlog", "startup", "startuplog"}
Window == 1..MaxWindows
Open == {w \in Window : windows[w] \in {"shown", "hidden"}}
Alive == server \in {"booting", "listening"}

\* Something answers on the port.
Answers == foreign \/ isDev \/ server = "listening"

Init ==
  /\ isDev \in BOOLEAN
  /\ foreign \in BOOLEAN
  /\ running = TRUE
  /\ startup = "new"
  /\ isQuitting = FALSE
  /\ windows = [w \in Window |-> "none"]
  /\ mainWindow = 0
  /\ tray = FALSE
  /\ serverProcess = "undefined"
  /\ server = "none"
  /\ closing = "none"
  /\ exitOnClose = FALSE
  /\ exitTimer = FALSE
  /\ dialogs = {}
  /\ attempt = 0
  /\ requests = 0
  /\ retries = 0
-----------------------------------------------------------------------------
(***************************************************************************)
(* Windows.                                                                *)
(***************************************************************************)

createWindow ==
  \E w \in Window :
    /\ windows[w] = "none"
    /\ \A v \in 1..(w - 1) : windows[v] # "none"
    /\ windows' = [windows EXCEPT ![w] = "shown"]
    /\ mainWindow' = w

\* The close and closed callbacks of any window speak of mainWindow, which
\* need not be the window they belong to.
CloseWindowAlways(w) ==
  /\ windows' = [windows EXCEPT ![w] = "closed"]
  /\ mainWindow' = -1
CloseWindow(w) ==
  IF isQuitting
  THEN /\ windows' = [windows EXCEPT ![w] = "closed"]
       /\ mainWindow' = -1
  ELSE /\ windows' = [windows EXCEPT ![mainWindow] = "hidden"]
       /\ UNCHANGED mainWindow

UserCloses(w) ==
  /\ running
  /\ w \in Open
  /\ windows[w] = "shown"
  /\ CloseWindow(w)
  /\ UNCHANGED <<shell, process, dialogs, polling>>

\* The tray's menu entry shows, a click on the icon shows or hides.
TrayShow(click) ==
  /\ running
  /\ tray
  /\ IF mainWindow = -1
     THEN createWindow
     ELSE /\ windows' = [windows EXCEPT ![mainWindow] =
                           IF click /\ @ = "shown" THEN "hidden" ELSE "shown"]
          /\ UNCHANGED mainWindow
  /\ UNCHANGED <<shell, process, dialogs, polling>>

\* A click on the dock, macOS only.
activate ==
  /\ running
  /\ startup # "new"
  /\ Open = {}
  /\ createWindow
  /\ UNCHANGED <<shell, process, dialogs, polling>>
-----------------------------------------------------------------------------
(***************************************************************************)
(* Quitting.                                                               *)
(***************************************************************************)

\* before-quit, while there is a server process: it is sent SIGTERM, and the
\* application waits for it to close or for five seconds.
BeforeQuitNoTimer ==
  /\ exitOnClose' = (Alive \/ closing # "none")
  /\ UNCHANGED exitTimer
BeforeQuit ==
  /\ exitOnClose' = (Alive \/ closing # "none")
  /\ exitTimer' = TRUE

\* app.quit.  Without a server process every window is closed, and one that
\* refuses calls the quit off.
Quit(quitting) ==
  /\ isQuitting' = quitting
  /\ IF serverProcess = "set"
     THEN /\ BeforeQuit
          /\ UNCHANGED <<running, windows>>
     ELSE /\ running' = (~quitting /\ Open # {})
          /\ windows' = IF running' /\ mainWindow \in Window
                        THEN [windows EXCEPT ![mainWindow] = "hidden"]
                        ELSE windows
          /\ UNCHANGED <<exitTimer, exitOnClose>>
  /\ UNCHANGED <<isDev, foreign, startup, tray, serverProcess, server,
                 closing, mainWindow, polling>>

\* Quit in the tray's menu.
TrayQuit ==
  /\ running
  /\ tray
  /\ Quit(TRUE)
  /\ UNCHANGED dialogs

\* The application menu, the dock or the end of the session.
SystemQuit ==
  /\ running
  /\ startup # "new"
  /\ Quit(isQuitting)
  /\ UNCHANGED dialogs

\* The timer of before-quit.
ExitOnly ==
  /\ running
  /\ exitTimer
  /\ running' = FALSE
  /\ UNCHANGED <<isDev, foreign, startup, isQuitting, tray, process, screen,
                 polling>>
KillAndExit ==
  /\ running
  /\ exitTimer
  /\ running' = FALSE
  /\ server' = IF serverProcess = "set" /\ Alive THEN "dead" ELSE server
  /\ UNCHANGED <<isDev, foreign, startup, isQuitting, tray, serverProcess,
                 closing, exitOnClose, exitTimer, screen, polling>>
-----------------------------------------------------------------------------
(***************************************************************************)
(* The server process and the polling of its port.                         *)
(***************************************************************************)

FailSilently(why) == startup' = "failed" /\ UNCHANGED dialogs
Fail(why) == startup' = "failed" /\ dialogs' = dialogs \cup {why}

\* whenReady: startServer spawns the server, unless in development, and
\* begins to poll.
StartServer ==
  /\ running
  /\ startup = "new"
  /\ startup' = "waiting"
  /\ serverProcess' = IF isDev THEN "undefined" ELSE "set"
  /\ server' = IF isDev THEN "none" ELSE "booting"
  /\ attempt' = 1
  /\ requests' = 1
  /\ UNCHANGED <<isDev, foreign, running, isQuitting, tray, closing,
                 exitOnClose, exitTimer, screen, retries>>

\* The data directory cannot be made: startServer rejects before it spawns.
StartServerThrows ==
  /\ running
  /\ startup = "new"
  /\ ~isDev
  /\ Fail("startup")
  /\ UNCHANGED <<isDev, foreign, running, isQuitting, tray, process,
                 windows, mainWindow, polling>>

\* The server listens, unless another program has the port.
ServerListens ==
  /\ running
  /\ server = "booting"
  /\ ~foreign
  /\ server' = "listening"
  /\ UNCHANGED <<shell, serverProcess, closing, exitOnClose, exitTimer,
                 screen, polling>>

\* It ends by itself or because of a signal, before-quit's included.
ServerExits(code) ==
  /\ running
  /\ Alive
  /\ server' = "dead"
  /\ closing' = code
  /\ UNCHANGED <<shell, serverProcess, exitOnClose, exitTimer, screen,
                 polling>>

\* It cannot be spawned: an error event, and a close event with a code below
\* zero.
SpawnError ==
  /\ running
  /\ server = "booting"
  /\ server' = "dead"
  /\ closing' = "nonzero"
  /\ IF startup = "waiting" THEN Fail("startup")
     ELSE UNCHANGED <<startup, dialogs>>
  /\ UNCHANGED <<isDev, foreign, running, isQuitting, tray, serverProcess,
                 exitOnClose, exitTimer, windows, mainWindow, polling>>

\* The close callbacks: the one of startServer shows a dialog or closes the
\* window, the one of before-quit exits.
ServerClosed ==
  /\ running
  /\ closing # "none"
  /\ closing' = "none"
  /\ IF closing = "nonzero"
     THEN /\ dialogs' = dialogs \cup {"crash"}
          /\ UNCHANGED <<windows, mainWindow>>
     ELSE /\ UNCHANGED dialogs
          /\ IF mainWindow \in Open THEN CloseWindow(mainWindow)
             ELSE UNCHANGED <<windows, mainWindow>>
  /\ serverProcess' = IF exitOnClose THEN "null" ELSE serverProcess
  /\ running' = ~exitOnClose
  /\ UNCHANGED <<isDev, foreign, startup, isQuitting, tray, server,
                 exitOnClose, exitTimer, polling>>

\* tryConnect, from its timer.
RetryUncounted ==
  /\ running
  /\ retries > 0
  /\ retries' = retries - 1
  /\ requests' = requests + 1
  /\ UNCHANGED <<shell, process, screen, attempt>>
RetryUnasked ==
  /\ running
  /\ attempt \in 1..MaxRetries
  /\ retries' = retries - 1
  /\ attempt' = attempt + 1
  /\ requests' = requests + 1
  /\ UNCHANGED <<shell, process, screen>>
Retry ==
  /\ running
  /\ retries > 0
  /\ retries' = retries - 1
  /\ attempt' = attempt + 1
  /\ requests' = requests + 1
  /\ UNCHANGED <<shell, process, screen>>

\* The port answers.  The first answer opens the tray and the window.
PollAnswered ==
  /\ running
  /\ requests > 0
  /\ Answers
  /\ requests' = requests - 1
  /\ IF startup = "waiting"
     THEN startup' = "ready" /\ tray' = TRUE /\ createWindow
     ELSE UNCHANGED <<startup, tray, windows, mainWindow>>
  /\ UNCHANGED <<isDev, foreign, running, isQuitting, process, dialogs,
                 attempt, retries>>

\* A request that failed is tried again after a while; n callbacks see the
\* failure.
TryAgain(n) ==
  IF attempt >= MaxRetries
  THEN /\ IF startup = "waiting" THEN Fail("startup")
          ELSE UNCHANGED <<startup, dialogs>>
       /\ UNCHANGED retries
  ELSE /\ retries' = retries + n
       /\ UNCHANGED <<startup, dialogs>>

PollRefused ==
  /\ running
  /\ requests > 0
  /\ requests' = requests - 1
  /\ TryAgain(1)
  /\ UNCHANGED <<isDev, foreign, running, isQuitting, tray, process, windows,
                 mainWindow, attempt>>

\* Ten seconds without an answer: the timeout callback destroys the request,
\* which then reports an error as well.
PollTimesOut ==
  /\ running
  /\ requests > 0
  /\ Answers
  /\ requests' = requests - 1
  /\ TryAgain(2)
  /\ UNCHANGED <<isDev, foreign, running, isQuitting, tray, process, windows,
                 mainWindow, attempt>>
-----------------------------------------------------------------------------
(***************************************************************************)
(* The dialogs, each with one more behind its button for the log.          *)
(***************************************************************************)

LogBox(box) == IF box = "crash" THEN "crashlog" ELSE "startuplog"

ViewLog(box) ==
  /\ running
  /\ box \in dialogs \intersect {"crash", "startup"}
  /\ dialogs' = (dialogs \ {box}) \cup {LogBox(box)}
  /\ UNCHANGED <<shell, process, windows, mainWindow, polling>>

\* The crash dialogs set isQuitting, the others leave it.
Dismiss(box) ==
  /\ running
  /\ box \in dialogs
  /\ dialogs' = dialogs \ {box}
  /\ Quit(isQuitting \/ box \in {"crash", "crashlog"})

Next ==
  \/ \E w \in Window : UserCloses(w)
  \/ \E click \in BOOLEAN : TrayShow(click)
  \/ activate
  \/ TrayQuit
  \/ SystemQuit
  \/ KillAndExit
  \/ StartServer
  \/ StartServerThrows
  \/ ServerListens
  \/ \E code \in Codes : ServerExits(code)
  \/ SpawnError
  \/ ServerClosed
  \/ Retry
  \/ PollAnswered
  \/ PollRefused
  \/ PollTimesOut
  \/ \E box \in dialogs : ViewLog(box) \/ Dismiss(box)

\* Timers and callbacks run, requests end, and the user answers a dialog.
Fairness ==
  /\ WF_vars(StartServer \/ StartServerThrows)
  /\ WF_vars(KillAndExit)
  /\ WF_vars(ServerClosed)
  /\ WF_vars(Retry)
  /\ WF_vars(PollAnswered \/ PollRefused \/ PollTimesOut)
  /\ \A box \in Boxes : WF_vars(Dismiss(box))

Spec == Init /\ [][Next]_vars /\ Fairness
-----------------------------------------------------------------------------
TypeOK ==
  /\ {isDev, foreign, running, isQuitting, tray, exitOnClose, exitTimer}
       \subseteq BOOLEAN
  /\ startup \in {"new", "waiting", "ready", "failed"}
  /\ windows \in [Window -> {"none", "shown", "hidden", "closed"}]
  /\ mainWindow \in Window \cup {0, -1}
  /\ serverProcess \in {"undefined", "set", "null"}
  /\ server \in {"none", "booting", "listening", "dead"}
  /\ closing \in Codes \cup {"none"}
  /\ dialogs \subseteq Boxes
  /\ attempt \in Nat
  /\ requests \in Nat
  /\ retries \in Nat

\* The application never leaves its server behind: whichever of the close
\* callback, the timer and a quit without before-quit's help ends it.
NoOrphan == ~running => ~Alive

\* The callbacks of a window may call mainWindow.hide: it is a window unless
\* the application is quitting, even after two windows were opened.
MainWindowIsThere == Open # {} /\ ~isQuitting => mainWindow \in Open

\* The user can always reach the application, through a window, the tray or
\* a dialog, once it has started or failed to.  Before a server process
\* exists (in development, or when the data directory cannot be made) there
\* is one way to lose it: a window opened from the dock calls off the quit
\* of the failure's dialog, and hides.
NeverStranded ==
  /\ running
  /\ startup \in {"ready", "failed"}
  /\ ~tray
  /\ dialogs = {}
  /\ ~exitTimer
  /\ \A w \in Window : windows[w] # "shown"
  => serverProcess = "undefined" /\ Open # {}

\* The application exits after it was told to: by the tray or a crash
\* dialog, which set isQuitting, or once before-quit has begun to stop the
\* server.
QuitEnds == (isQuitting \/ exitTimer) ~> ~running

\* A server that failed, at startup or later, takes the application with it
\* when the user has answered the dialogs, windows and racing polls
\* notwithstanding.
FailureEnds ==
  /\ serverProcess = "set"
  /\ startup = "failed" \/ closing = "nonzero"
  ~> ~running

\* startServer settles, and the polling comes to its end with it although a
\* timeout starts two retries.
PollingEnds ==
  startup = "waiting"
    ~> ~running \/ (startup # "waiting" /\ requests + retries = 0)
=============================================================================
