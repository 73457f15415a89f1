# TLA+ models of GwupeSupportScreen

GwupeSupportScreen is a remote-desktop server and viewer for Windows, derived
from TightVNC. This directory holds formal models of its concurrent core: the
life of the connections of the server, their handshake, the way of a screen
change to a viewer, the viewer itself, the pipe between the service and the
process that grabs the screen, the control connections, the reload of the
configuration, and a file download. TLC checks the models on small instances;
the TLA+ proof system proves the most important properties for every value of
the constants.

All paths below are relative to the root of the repository.

## The system

The server is a Windows service (or an application). Its parts, what each of
them keeps, and how they work together:

| Part | State | Operations | What makes it correct |
|---|---|---|---|
| `tvnserver-app/TvnServer` | the listening servers, the client manager | start, reload of the configuration, destructor | shutdown ends, and nothing outlives it |
| `tvnserver-app/RfbClientManager` | two lists of clients (authorized or not), one `Desktop`, ban list, an underflow event | `addNewConnection`, `onClientAuth`, `validateClientList`, callbacks of the desktop, destructor | clients have one owner; the desktop lives as long as somebody uses it; never-shared means one |
| `rfb-sconn/RfbClient` | a thread, its `ClientState`, its handlers | authorization phase, normal phase, three-step removal | its handlers are not used once they are deleted |
| `thread/ZombieKiller` | list of threads to delete | `addZombie`, a periodic sweep, `killAllZombies` | deletes only what is over |
| `desktop/DesktopBaseImpl`, `DesktopWinImpl` | a thread, an update event, regions of full requests | `sendUpdate`, `onUpdateRequest` | no request and no change is forgotten |
| `desktop/UpdateHandlerImpl`, `UpdateFilter`, `Poller` and detectors | backup frame buffer, keeper of detected changes | `extract`, `filter`, detection | the buffer follows the screen |
| `desktop/UpdateKeeper` | one `UpdateContainer` under a mutex | add changed region, add copy, extract | what is extracted is enough |
| `fb-update-sender/UpdateSender` | a thread per client, requested regions, keeper, frame buffer | `readUpdateRequest`, `newUpdates`, `sendUpdate` | the viewer ends up with the screen |
| `desktop-ipc`, `DesktopClientImpl`, `DesktopServerWatcher` | two pipes to the desktop server process, gates, a watcher thread | read, write, replace, close | messages stay whole over a restart of the process |
| `rfb-sconn/RfbInitializer` | version, security type, rights of one connection | the handshake, in the client's thread | both ends agree; the rights are those of the password; guesses are bounded |
| `tvnserver-app/ControlServer`, `ControlClient`, `ControlAppAuthenticator`, `AuthTracker` | sessions, a session's authentication, failures | accept, one handler per control message, destructor | a message is served only to who may send it; the destructor returns |
| `server-config-lib/Configurator` | the configuration and its listeners | load, save, notify | listeners are called without deadlock |
| `ft-server-lib`, `ft-client-lib` | one transfer at a time | download, upload, lists | the file arrives whole or the transfer fails |
| `viewer-core`, `tvnviewer` | decoders, frame buffer, notifier thread | request cycle, handshake, painting | every notification is delivered |
| `log-server`, `tcp-dispatcher`, `http-server-lib` | connections of their own | accept, serve, stop | |

Around them: stream and socket wrappers (`io-lib`, `network`), wrappers of the
Windows API (`win-system`, `util`), dialogs (`gui`, `wsconfig-lib`,
`tvncontrol-app`), hooks injected into other processes (`screen-hooks`,
`hookldr`), data types (`rfb`, `region`) and third-party code (`libjpeg`,
`libjpeg-turbo`, `zlib`, `region/x11region.c`). The repository has no automated
tests; what the code promises is in its comments.

How they interact. A connection is accepted by a listener's thread, which calls
`addNewConnection()`. The client's own thread authorizes itself, which may
disconnect others or create the desktop, builds its handlers and waits until
its dispatcher thread stops. The desktop thread calls back into the manager
(`isReadyToSend`, `onSendUpdate`), which calls into each client's
`UpdateSender`. A client that ends passes through `validateClientList()` twice,
before and after it deletes its handlers; the last one deletes the desktop.
Everything is tied together by mutexes (`m_clientListLocker` above all), by
auto-reset events, which hold one signal at most, and by plain fields that are
read without a lock (`m_busy`, `m_isClosed`, `m_active`).

What is hard in this: objects that other threads still use when they are
deleted; events that fall into one or come while nobody waits; regions that
move through half a dozen buffers, each under a mutex of its own; the exchange
of a pipe under its user; locks taken in different orders.

## Modules

| Module | Models | Instance and proofs |
|---|---|---|
| `ClientManager` | `RfbClientManager`, `RfbClient`, the desktop's thread as their user, `ZombieKiller` | `MCClientManager`, `ClientManager_proofs` |
| `SharedDesktop` | what the manager promises about the desktop; `ClientManager` implements it | proved in `ClientManager_proofs` |
| `ServerShutdown` | `~TvnServer()`; composes `ClientManager` (EXTENDS) | `MCServerShutdown`, proved in `ClientManager_proofs` |
| `UpdateKeeper` | `UpdateKeeper` and `UpdateContainer` as operators; no variables | |
| `KeeperContract` | what a keeper promises: the abstract user of `UpdateKeeper` | `MCKeeperContract`, proved in `UpdatePipeline_proofs` |
| `UpdatePipeline` | the threads of desktop, sender and dispatcher over two keepers; uses `UpdateKeeper` (EXTENDS) | `MCUpdatePipeline`, `UpdatePipeline_proofs` |
| `ReconnectingChannel` | `ReconnectingChannel`, its watcher and one user | `MCReconnectingChannel`, `ReconnectingChannel_proofs` |
| `ControlAuthenticator` | `ControlAppAuthenticator` and `AuthTracker`, by any number of callers | |
| `ControlServer` | `ControlServer`, `ControlClient`, `ThreadCollector`, and the application at the other end; composes `ControlAuthenticator` (EXTENDS) | `MCControlServer`, `ControlServer_proofs` |
| `ConfigReload` | `Configurator`, `TvnServer::onConfigReload()`, `ExtraRfbServers`, and the locks that a client takes against them | `MCConfigReload`, `ConfigReload_proofs` |
| `RfbHandshake` | `RfbInitializer` and the handshake of `RemoteViewerCore`, the ban list | `MCRfbHandshake`, `RfbHandshake_proofs` |
| `ViewerSession` | `RemoteViewerCore`, `FbUpdateNotifier`, the commands of the viewer window, and a server | `MCViewerSession`, `ViewerSession_proofs` |
| `FileDownload` | `DownloadOperation`, `FileTransferCore`, the dialog's messages, `FileTransferRequestHandler` | `MCFileDownload`, `FileDownload_proofs` |

`PROJECT.json` gives for each definition the lines it stands for.

### ClientManager

A member of `Clients` is one `RfbClient` object; `pc[c]` is where its thread is
in `RfbClient::execute()` with `onClientAuth()` and `validateClientList()`
inlined, `m_clientState[c]` its `ClientState`, `parts[c]` its handlers. A
desktop is named by the client that created it. `dpc[d]`, `dtodo[d]` and
`dusing[d]` are the loop of a desktop thread over `m_clientList`: the state of
a client is read in one step and the client is called in a later one, which is
where a use after deletion would show. `m_clientListLocker` holds the owner of
the mutex when a section spans several steps; a section nobody can look into is
one step. `mpc` is the destructor of the manager. `sockOpen` stands for the
connection; `disconnect()` and the viewer close it. Refused authentication,
failures of `createDesktop()` and an abnormal end of the desktop server are
steps. View ports, listeners and the contents of the protocol are left out; the
ban list is in `RfbHandshake`.

### SharedDesktop

The abstract view of the same: a desktop is created by the first client, given
to everybody who comes while it is there, taken away only when it has no users,
and its thread, which may go on for a while beside the next desktop, serves one
user at a time, who does not leave meanwhile. The refinement mapping
`SharesOneDesktop` (in `ClientManager`) reads the current desktop from
`m_desktop`, the users from the position of the clients and their handlers, and
whom a desktop is serving from `dusing`.

### ServerShutdown

`~TvnServer()` stops the servers, calls `killAllZombies()` **while clients are
still served**, and then deletes the manager. One variable, `tpc`, is added.
Outgoing connections are made by threads that are zombies themselves, so
connections may still be added until the zombies are dead.

### UpdateKeeper and KeeperContract

A region is a set of cells. A move is a function from the cells of the
destination to those of the source, so that any shape and overlap can be
stated. `AddCopy` is `addCopyRect()` line by line: what happens to a copy that
is already there, to changes under the source and the destination.
`KeeperContract` uses a keeper as both of its users do: report, extract, apply
the copy and then the changes; `KeeperIsExact` says that the picture is then
the current one.

### UpdatePipeline

| Variable | Code |
|---|---|
| `detected`, `m_backupFrameBuffer`, `m_absoluteRect` | `UpdateHandlerImpl` and its keeper |
| `dpc`, `cont`, `m_fullReqRegion`, `m_newUpdateEvent` | `DesktopBaseImpl::sendUpdate()` and its container |
| `keeper`, `m_busy`, `m_requested…Reg`, `m_…UpdIsReq`, `m_newUpdatesEvent` | the fields of one `UpdateSender` |
| `spc`, `taken`, `upd`, `m_frameBuffer`, `fbStale` | `UpdateSender::sendUpdate()`, its local variables and buffer |
| `rpc`, `req` | the dispatcher thread in `readUpdateRequest()` |
| `view`, `asked` | the viewer |

Each step is a stretch of code in which no other thread can interfere: mostly
one section under one of the mutexes (`m_reqRectLocMut`, the keeper's, the
frame buffer's) or one access of `m_busy`. A resize, a failing grab, a
declined copy, an answer with nothing in it and viewers without CopyRect or
DesktopSize have their branches. Other clients of the same desktop are present
by their requests (`OtherClients`) and by being ready. Left out: cursor, video
region, view port, shared applications, pixel formats and encoders.

### ReconnectingChannel

Channels are numbered in the order of their creation; `alive`, `broken` and
`handed` say which are not deleted, which fail, and which the watcher is about
to hand over. There is one user at a time because every user of a gate holds
its mutex for a whole message; `stream` remembers the channel that got the
first part of the message in progress. `LoopHead`, `Woken`, `TimeOut` and
`CheckReplaced` are the loop of `waitForReconnect()`.

### ControlAuthenticator and ControlServer

`now` is the clock; `m_failureCount` and `m_firstFailureTime` are the
`AuthTracker`; `apc[c]` is a caller in `authenticate()`, from the mutex to the
result. The time of the ban is an unsigned difference that becomes a `DWORD`
(`% DwordRange`), so that a difference below zero is a very long wait, and the
largest value is `INFINITE`.

A pipe is two sequences of items (header, body, challenge, response, reply).
`cpc[c]` is the thread of a `ControlClient`, `ppc[c]` the application: it sends
a command, is refused, authenticates, sends it again, or leaves in any state.
Messages are in groups that the code handles alike: with a body that is read
after the reply, without one, and without authentication. `spc` is
`~ControlServer()`: its wait for the acceptor, `breakAndDisableAuthentications()`
in its two statements, and the `ThreadCollector`. `m_active` is written by
`resume()` as well as by the thread, as in the code.

### ConfigReload

`configLock` is the mutex of the `ServerConfig`, `m_listeners` the one of the
`Configurator`'s list, `m_clientListLocker` the one of the client manager;
`spc[s]` is a control connection in `setServerConfigMsgRcvd()` or
`reloadConfigMsgRcvd()`, through save, load (which locks the configuration
twice), and the restart of the main, the extra and the HTTP servers. `adding`
holds the servers whose thread is in `addNewConnection()`: a server cannot be
deleted before its thread is out. A client creates the desktop, which registers
as a listener, with the list of clients locked.

### RfbHandshake

Each connection has two ends, `spc[c]` and `vpc[c]`, and two sequences of
messages. What the code reads of the configuration it reads from `config` at
the step where it does, and `ChangeConfig` may come between any two. `server[c]`
keeps what `RfbInitializer` has decided, `client[c]` which version and
extensions the viewer has and what is typed. All connections come from one
address, `ban` is its entry in `m_banList`. Viewers of this repository know the
extensions; one that does not may select any type.

### ViewerSession

| Variable | Code |
|---|---|
| `pc`, `loc` | the threads core, user interface and notifier, and the local variables of `sendFbUpdateRequest()`, which the first two both call |
| `m_isNeedRequestUpdate`, `m_isFreeze`, `m_isRefreshing`, `m_isNewPixelFormat`, `m_viewerPixelFormat`, `m_wasConnected`, `m_frameBuffer` | `RemoteViewerCore` |
| `m_update`, `m_isNewSize`, `m_eventUpdate`, `taken` | `FbUpdateNotifier` |
| `window` | the frame buffer of the `DesktopWindow` |
| `toServer`, `toViewer`, `server` | the connection and the other end |

An action is one critical section, so that what a thread has read under one
lock is old when it takes the next. The user may pause, go on, refresh, change
the pixel format and close at any moment; the server's desktop changes and is
resized at any moment and answers what it is asked.

### FileDownload

`m_toCopy`, `children`, `m_foldersToCalcSizeLeft`, `m_isTerminating`, `m_fos` and
`m_fileOffset` are the `DownloadOperation`; `at` and `frames` say where a thread
is in it and how deep `startDownload()` is nested, for `gotoNext()` and
`processFile()` call it again. `posted` is the message that ends the operation in
the dialog, `m_downloadFile` what the server has open. Every request may fail,
every local file may fail to be opened or written, the user may skip, continue
or overwrite a file that exists, and may cancel. `fate` records what became of
each file. Three constants admit what the code does not survive (see
*Divergences found*): `EarlyReplies`, `LateCancels`, `ReopenFails`.

## Runs

Twelve runs. In the run that "finds" something TLC is expected to find the
violation; the other known violations are reproduced as *Divergences found* says.

| Run | Instance | Properties | Shows |
|---|---|---|---|
| `client_manager_safety` | 3 connections, 2 sharing configurations | `CallsReachLivingHandlers`, `DesktopOutlivesItsUsers`, `ExactlyOneOwner`, `NeverSharedIsExclusive`, `SharesOneDesktop` | no use of deleted handlers or desktops, one owner per client, exclusivity; the manager implements `SharedDesktop` |
| `shutdown_quiet` | 2 connections, with fairness | `NothingOutlivesTheManager`, `QuietShutdownReturns`, `QuietClientsAreDeleted` | the shutdown ends and clients are deleted, if nobody leaves while zombies are killed |
| `shutdown_doc` | the same | `ShutdownReturns` | finds the deadlock of `killAllZombies()` with `validateClientList()` |
| `keeper_contract` | 3 cells, moves apart | `KeeperIsExact` | a keeper loses nothing |
| `update_safety` | 2 cells, a copy, partial and full requests, no CopyRect | `NoUpdateIsLost`, `NoUpdateIsSkipped`, `RequestHasFlag` | no update is lost in any interleaving |
| `update_liveness` | 1 cell, several viewers, a change of the screen's size, with fairness | `Converges` | the viewer ends up with the screen |
| `channel_safety` | 6 processes | `InUseIsAlive`, `MessagesStayWhole`, `CloseReachesTheUser`, `CloseReleasesTheWaiting` | exchange and close are safe for the user |
| `control_server` | 2 connections, 2 commands, 2 passwords, a ban at the first failure | `BanHolds`, `InStep`, `PaidByCommand`, `SessionsEndFirst`, `ShutdownEnds` | the ban is not shortened by several connections; the pipe stays in step; each command is paid for; the server can be deleted at any moment |
| `config_reload` | 2 control connections, 1 client, 3 configurations, 2 reloads | `ServersMatchConfig`, `QuietReloadsEnd` | the servers end up as the configuration says; a reload ends unless a desktop is created while a server is deleted |
| `rfb_handshake` | 2 connections, 4 sessions, every version, 1 change of the configuration | `InStep`, `RightsFollowThePassword`, `GuessesAreBounded`, `HandshakeEnds` | both ends read what the other wrote, rights are those of the password, guesses are bounded, nobody waits for ever |
| `viewer_session` | a desktop that is turned or enlarged, 2 formats, 2 actions of the user, 1 change | `ViewerTypeOK`, `OneRequestAtATime`, `FormatAgreed`, `NothingIsForgotten`, `WindowCatchesUp`, `CloseEndsTheThreads` | the request cycle neither doubles nor stops, decoding uses the format of the encoding, the window catches up |
| `file_download` | nested folders, an empty folder and file, 2 downloads | `DownloadTypeOK`, `ReplyFits`, `CopiedIsWhole`, `EachOneOnce`, `NothingDangles`, `DownloadEnds` | a download copies everything once and whole, or says what failed |

Every property of a passing run has a mutant in `PROJECT.json`: a plausible bug
in one definition that makes TLC find the property violated. The mutated forms
stand next to their originals, marked `(mutant)`.

### Bounds, and why they are enough

* `ClientManager`: three connections give a client that is served, one that is
  on its way out and one that comes, which is every role a step looks at; two
  of the eight configurations are enough for every branch (the flag decides and
  incoming clients win; never shared and existing clients win). The proofs
  cover all numbers and configurations. Clients are used once.
* `KeeperContract`: three cells allow a copy whose source, destination and rest
  differ, and a chain of two copies.
* `UpdatePipeline`: the properties are about single cells, and a copy relates
  two. `MaxChanges`, `MaxResizes` and `MaxAsked` bound the environment: two
  changes let one overtake the other. One unanswered request is what the
  viewers of this repository send (`OneRequestAtATime` of `ViewerSession`).
  With two, `NoUpdateIsSkipped` does not hold: the keeper is asked while the
  sender has its contents in hand (`src/fb-update-sender/UpdateSender.cpp:653`).
  The theorem therefore assumes `MaxAsked = 1`.
* `ReconnectingChannel`: six processes allow an exchange in every phase of a
  read, one of them a double one.
* `ControlServer`: two connections are one that waits for the ban, or holds the
  mutex, and one that does something else. A ban at the first failure, an
  interval of one tick and a `DWORD` of sixteen values show the wait, the end of
  the interval, and the underflow. Two commands let each connection send one,
  or one connection send two, which is what repeated authentication needs.
  `PaidByCommand` assumes that authentication is not switched off meanwhile
  (`AuthAlwaysEnabled`), which the run's configurations satisfy.
* `ConfigReload`: two threads and two reloads let one overtake the other in
  every phase. The three configurations differ in each setting that starts a
  server. No port passes from one kind of server to another (`DisjointPorts`);
  otherwise `bind()` may fail, and `ServersMatchConfig` only says that no other
  server runs.
* `RfbHandshake`: `MAX_BAN_COUNT` is 1 instead of 9; four sessions are enough to
  reach the ban from both connections at a time and to expire it. Versions 3.3,
  3.7, 3.8, with extensions and without.
* `ViewerSession`: two parts are one that a resize removes and one that it adds,
  or one that stays and one that is added; what both desktops have is left out
  when one part goes and the other comes. Two actions of the user are a pause and its end, or a change of the
  format and a refresh; one change makes the server's picture differ.
* `FileDownload`: a folder in a folder, and files beside and after it, make the
  walk go down and up twice; two chunks are a file that is continued in its
  middle; two downloads show what one leaves to the next.
* Deadlock is not checked where the system may rest or is known to stop:
  `UpdatePipeline` when nothing changes, `ReconnectingChannel` when it is
  closed and idle, `ServerShutdown` in the deadlock that `shutdown_doc` shows,
  and the new modules when all they can do within their bounds is done (each
  has a liveness property that says where it may not stop).

### Fairness

* `ClientManager`, `ServerShutdown`: each thread that can run is scheduled
  (weak fairness); a thread that asks for `m_clientListLocker` again and again
  gets it (strong fairness; Windows mutexes do not starve a waiter for ever).
  Nothing is assumed of the viewers: that a connection ends comes from
  `disconnect()`, which closes the socket.
* `UpdatePipeline`: the threads are scheduled; for `Converges` the poller runs
  (it does, for as long as the desktop lives) and the viewer asks again after
  each answer, as a viewer does.
* `ReconnectingChannel`: the user's thread is scheduled, a broken pipe fails, a
  set event ends the wait. A healthy pipe may block for ever, and the time-out
  is not assumed to come: `CloseReleasesTheWaiting` holds without its help.
* `ControlServer`: the threads are scheduled. Nothing is assumed of the
  applications or of the clock: `ShutdownEnds` holds while a wait for a ban
  would never end.
* `ConfigReload`: threads are scheduled and get a mutex that stays free; a peer
  that sends a configuration sends the rest of it or leaves.
* `RfbHandshake`, `ViewerSession`, `FileDownload`: each end reads what has come;
  in the handshake and the download the dialogs are answered in the end (the
  question at the server has a time-out). In `ViewerSession` it is not assumed
  that the server greets, that its desktop changes, or that the user acts.

## Proofs

Checked by `tlapm`, without assumptions beyond those named in the modules.

| Theorem | Says | Argument |
|---|---|---|
| `ClientManager_proofs!Inductive` | `IInv` | the places of a client follow the position of its thread; a handler in use keeps the lock, and the state that is read under the lock changes only under the lock |
| `…!ImplementsSharedDesktop` | `SharesOneDesktop`: every step is a step of `SharedDesktop` or changes nothing of it | from `IInv`: a client becomes a user under the lock, and is being served only while it has its handlers |
| `…!ShutdownInductive`, `ServiceLeavesNothing`, `ServiceEndsSafely`, `ServiceImplementsSharedDesktop` | the same invariant, properties and refinement for `ServerShutdown` | every step of the service is one of the manager, or `killAllZombies()`, which changes only the ZombieKiller's lock and connections when it begins, and only deletes clients that are over when it ends |
| `…!CallsAreSafe`, `DesktopIsSafe`, `ClientsAreOwned`, `NeverSharedExclusion`, `ManagerIsLeftAlone`, `TypeCorrect` | the safety properties of the run | each from `IInv` |
| `UpdatePipeline_proofs!ExactWhenDisjoint` | `KeeperIsExact`, if source and destination of every move are apart | `KeeperIsExact` is inductive under that assumption |
| `UpdatePipeline_proofs!Inductive`, `NothingIsLost` | `IInv` and `NoUpdateIsLost`, if CopyRect is not enabled | the containers on the way cover every difference between neighbouring buffers: `NoUpdateIsLost` for the viewer and the backup, `BufferIsCovered` for the sender's buffer and the backup |
| `…!RequestsKeepTheirFlags`, `TypeCorrect` | `RequestHasFlag`, types; with CopyRect or without | with what the sender took, by its position |
| `…!NothingIsSkipped` | `NoUpdateIsSkipped`, for one request at a time; with CopyRect or without | `CallInv`: one request at a time waits or is at work; what comes after the sender has looked calls it again, and the dispatcher looks for all that waits |
| `ReconnectingChannel_proofs!UserIsSafe`, `MessagesAreWhole`, `CloseIsFelt`, `TypeCorrect` | the safety properties of the run | while the user's channel is `m_channel` there is no old channel, so a second exchange spares it; an older process has ended before a newer one starts |
| `ControlServer_proofs!BanIsKept` | `BanHolds` | who verifies a password has the mutex and has seen fewer failures than the maximum, or the interval over; a wait of no time means exactly that |
| `…!SessionsAreOver` | `SessionsEndFirst` | a collected session that is not active is over; the acceptor has collected all it accepted |
| `…!BothEndsInStep` | `InStep` | `PipesInv`: by the positions of the two ends, the contents of both directions of each pipe |
| `…!EveryCommandIsPaid` | `PaidByCommand` | `Paid`, a part of `PipesInv`: the mark of an authentication stays until the command it was made for is sent again and read |
| `RfbHandshake_proofs!GuessesBounded` | `GuessesAreBounded` | the wrong passwords and the connections past the check of the ban together are at most the bound |
| `…!RightsAreThoseOfThePassword` | `RightsFollowThePassword` | by the stage of the connection, what `RfbInitializer` has noted |
| `…!BothEndsReadWhatComes` | `InStep` | `StepInv`: by the positions of both ends, what is under way in each direction, and that they agree on version, type and result |
| `ViewerSession_proofs!TypeCorrect` | `ViewerTypeOK` | with the messages under way, and that nothing but the greeting is there before it is read |
| `…!RightIsKept` | `OneRequestAtATime` | `RightInv`: the right to ask is in one place, a request is the last message to the server, and one answer at most is under way |
| `…!FormatIsAgreed` | `FormatAgreed` | `AgreedInv`, on top of `RightInv`: who changes the format of the frame buffer holds the right, so no answer is under way; the server has the format of the frame buffer as soon as it has read the one message that tells it, and its dimension unless the change is still to be told |
| `…!NothingForgotten` | `NothingIsForgotten` | `HeldInv`: the notifier holds what it took until it has told it, the core a rectangle until it has handed it over |
| `ConfigReload_proofs!ServersFollow` | `ServersMatchConfig`, for any number of threads and configurations | `ServersInv`: each kind of server is right, or a thread has yet to come by it, or a failed read has left the configuration torn; one thread at a time reloads |
| `FileDownload_proofs!DownloadTypeCorrect`, `RepliesFit`, `CopiedFilesAreWhole`, `WalksTheTreeOnce` | `DownloadTypeOK`, `ReplyFits`, `CopiedIsWhole`, `EachOneOnce`, for any finite tree, if replies wait for `start()` and the user cancels between replies | `DownloadInv`: below |
| `…!DownloadLeavesNothingDangling` | `NothingDangles`, if besides a local file can be opened while an old stream is left | with it, no stream stays deleted |

Why an inductive invariant is needed: that no handler is called after its
deletion says nothing about a client that is *about* to be called; `CallInv`
adds that such a client is listed, in its normal phase and protected by the
lock. That no update is lost says nothing of the sender's buffer, from which
the next update is sent; `BufferIsCovered` does. That a user's channel exists
does not survive a second exchange by itself; that `m_oldChannel` is null as
long as he uses `m_channel` does.

The assumption `~CopyRectEnabled` is needed: with CopyRect the property does
not hold (divergences 3 and 4). So is the assumption on moves in
`KeeperContract` (divergence 2).

The count in `OneRequestAtATime` and in `GuessesAreBounded` is over sets whose
size the prover must know: `RightInv` therefore says *where* a request may be in
`toServer` instead of counting, and `Counts` gives the three facts about
`Cardinality` that the guesses need.

`MaxAsked = 1` in `NothingIsSkipped` is explained with the bounds.

**The download.** The walk is proved for every tree, which takes an induction:
that `gotoNext()`, which climbs over parents of any number, comes to the right
place. `TreeAssumption` says what a tree is here: its files and folders can be
numbered depth first, a folder before what it holds (`First`), with the last
number below it (`Last`). TLC finds the numbers of the tree of the run. Climbing
from `n` then comes to the number `Last[n] + 1`, or to the end (`ClimbNumber`); what
begins below a folder ends below it (`BelowIsWithin`). Both are proved by the
least number for which they fail (`LeastNumber`, from the library's theorem on
well-founded relations), for the induction theorems themselves cannot be used.
`Climb` is a recursive function; `ClimbEquation` shows that its equation has a
solution.

`DownloadInv` has four parts: what has a fate lies before the file in work, and all
that is known and lies before it has one (`WalkInv`); one thread is in the
operation (`ThreadInv`), nested no deeper than the number of the file in work,
which is why the nesting is bounded at all; nothing is under way while a thread
walks, and otherwise one message, which belongs to the file in work, with the
streams of both ends at the same chunk (`WireInv`); the operation has something to
copy until the dialog has been told its end (`StateInv`). `ReplyFits` alone is not
inductive: that a reply fits follows from the request, and that from the walk.

The assumption `Orderly` (neither `EarlyReplies` nor `LateCancels`) is needed: these
are divergences 10 and 11, where `ReplyFits` is violated, and a late cancel may end
the operation under a thread that is about to process the file in work. With
`ReopenFails` (divergence 12) a deleted stream may be used, and there the model ends
(`Broken`): the first four theorems hold up to that state and in it, and the fifth
assumes it away.

Only model-checked: what is about liveness, for fairness and `ENABLED` are out of
the prover's reach (`QuietShutdownReturns`, `QuietClientsAreDeleted`, `Converges`,
`CloseReleasesTheWaiting`, `ShutdownEnds`, `QuietReloadsEnd`, `HandshakeEnds`,
`WindowCatchesUp`, `CloseEndsTheThreads`, `DownloadEnds`). Every safety property of a
passing run is stated by a theorem.

## Divergences found

The first is a run of its own and an entry of `findings` in `PROJECT.json`. The
others are reproduced by a configuration with the given changes; the properties
stand in the modules.

| | Module | Changes to the configuration | Violated |
|---|---|---|---|
| 1 | `ServerShutdown` | run `shutdown_doc` | `ShutdownReturns` |
| 2 | `KeeperContract` | `Moves <- OverlappingMove` | `KeeperIsExact` |
| 3, 4 | `UpdatePipeline` (`update_safety`) | `CopyRectEnabled = TRUE`; for 4 also `Requests <- NextUpdate` | `NoUpdateIsLost` |
| 5 | `UpdatePipeline` (`update_liveness`) | `MaxChanges = 2`, `MaxResizes = 0`, `OtherClients = FALSE` | `FullRequestIsServed` |
| 6 | `ReconnectingChannel` | | `PointersAreAlive` |
| 7 | `ConfigReload` | | `ReloadsEnd` |
| 8 | `ViewerSession` | | `StopEndsTheThreads` |
| 9 | `ViewerSession` | | `RectangleIsValid` |
| 10 | `FileDownload` | `EarlyReplies = TRUE` | `ReplyFits`, `CopiedIsWhole`, `NothingDangles` |
| 11 | `FileDownload` | `LateCancels = TRUE` | `ReplyFits`, `NothingDangles` |
| 12 | `FileDownload` | `ReopenFails = TRUE` | `NothingDangles` |

1. `thread/ZombieKiller.cpp`, `tvnserver-app/TvnServer.cpp:143`: shutdown can
   deadlock. The main thread holds the ZombieKiller's mutex and waits for a
   zombie's thread, which waits for `m_clientListLocker`, whose holder waits in
   `addZombie()` for the ZombieKiller's mutex.
2. `desktop/UpdateKeeper.cpp:117`: a change under source and destination of an
   overlapping copy is not repeated at its new place.
3. `fb-update-sender/UpdateSender.cpp:782`: what a declined copy leaves outside
   the request is not given back to the keeper.
4. `fb-update-sender/UpdateSender.cpp:870`: the sender copies a backup buffer
   that may be newer than the container it sends; a later copy then moves cells
   that are already new.
5. `fb-update-sender/UpdateSender.cpp:610`: a full request between the end of an
   answer and `m_busy = false` waits until the screen changes.
6. `desktop-ipc/ReconnectingChannel.cpp:72`: after two exchanges without a read
   or write, `m_oldChannel` points to a deleted channel, and a channel leaks.
7. `tvnserver-app/TvnServer.cpp:159`, `server-config-lib/Configurator.cpp:73`: a
   reload that changes a port deletes a server with the list of listeners
   locked; if the server's thread is adding a connection, it waits for
   `m_clientListLocker`, whose holder creates a desktop and waits for the list of
   listeners.
8. `viewer-core/RemoteViewerCore.cpp:218`: `stop()` closes the stream that
   exists; a core that is still connecting has none, and its thread goes on,
   where `RemoteViewerCore.h` says that all active threads are terminated.
9. `viewer-core/FbUpdateNotifier.cpp:105`: a rectangle that was taken before a
   resize is told after it, and may lie outside the new frame buffer.
10. `ft-client-lib/DownloadOperation.cpp:59`: `start()` runs in the thread of the
    dialog while the core thread may already handle its first replies, and both
    walk the list.
11. `ft-client-lib/DownloadOperation.cpp:256`: a cancel that comes while
    `startDownload()` is nested is seen on each return, and the operation is ended
    more than once.
12. `ft-client-lib/DownloadOperation.cpp:102`: `m_fos` and `m_file` are deleted and
    not reset; if the next file cannot be opened they dangle.

Read in the code, and outside what the modules can show: `~TcpServer()` waits for
its thread when the derived `RfbServer` is gone already (`network/TcpServer.cpp:48`);
the authentication result is not sent to a viewer of version 3.3 or 3.7 that fails
(a FIXME at `rfb-sconn/RfbInitializer.cpp:260`; the model has it, and the viewer
finds the connection closed); an upload goes on with the previous remote list when
the list of a folder fails (`ft-client-lib`).

## Not modelled, and the plan

Left out for good: dialogs, wrappers of Windows and of sockets, tables of keys and
encodings, the injection of input, hooks in other processes, the installer,
generated data (`http-server-lib/VncViewerJarBody.h` alone is a sixth of all
lines) and third-party code (`libjpeg`, `libjpeg-turbo`, `zlib`,
`region/x11region.c`): together most of the lines of the repository, with no
state of the program's own. See `components` in `PROJECT.json`. What is left of the
plan, aimed at the hazards without a property there:

1. **Desktop messages** (`UpdateHandlerClient`, `UpdateHandlerServer`,
   `UserInputClient`): the re-initialization after a reconnect over two
   `ReconnectingChannel`s; that a frame buffer is never read half-written; a
   desktop that ended abnormally and is given to a new client.
2. **Clipboard** and **input blocker**: the echo of a text between clients and the
   desktop.
3. **File transfer**: upload and removal, whose walk over the list is that of
   `FileDownload`.
4. **Log server** and **TCP dispatcher**: one handshake per connection.
5. Pure algorithms: IP access rules, splitting of rectangles, the grab
   optimizer, against reference definitions.

Proofs left: `CopiedIsWhole` of `FileDownload` also with `LateCancels`, where TLC finds
no violation; the safety of what is added above.
