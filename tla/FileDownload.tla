---------------------------- MODULE FileDownload ----------------------------
(***************************************************************************)
(* A file download, from the dialog of the viewer to the handler of the    *)
(* server.  DownloadOperation walks the tree of what was selected; its     *)
(* start() runs in the thread of the dialog, its replies are handled in    *)
(* the thread of the viewer core with the list of listeners locked, and    *)
(* both work on m_toCopy without a lock.  startDownload(), processFile()   *)
(* and gotoNext() call each other, so a thread may be several calls deep   *)
(* in startDownload(); each of them looks at the cancellation again when   *)
(* it returns.                                                             *)
(*                                                                         *)
(* Requests and replies are in order and every request has one reply; the  *)
(* data of a file are counted in chunks of one request.                    *)
(***************************************************************************)
EXTENDS Integers, Sequences, FiniteSets

CONSTANTS
    Roots,          \* the selected files and folders, a sequence
    Kids,           \* what each folder holds, a sequence
    Size,           \* chunks of each file of the server
    EarlyReplies,   \* replies are handled while start() still runs
    LateCancels,    \* the user may cancel while a thread is in the operation
    ReopenFails,    \* a local file cannot be opened while an old one still is
    MaxOperations   \* bound: downloads started

Folders == DOMAIN Kids
Files == DOMAIN Size
Nodes == Folders \cup Files

Members(list) == {list[i] : i \in DOMAIN list}

Lists == {Roots} \cup {Kids[d] : d \in Folders}

\* Numbers of a walk that goes down: each folder comes before what it holds,
\* its first child next.
GoesDown(first) ==
    /\ \A m, n \in Nodes : first[m] = first[n] => m = n
    /\ first[Roots[1]] = 1
    /\ \A d \in Folders :
         /\ Kids[d] # <<>> => first[Kids[d][1]] = first[d] + 1
         /\ \A n \in Members(Kids[d]) : first[d] < first[n]

\* And on from the last number below one to the next one in its list, or to
\* the end of the list above.
GoesOn(first, last) ==
    /\ \A n \in Nodes : first[n] <= last[n]
    /\ \A n \in Nodes : n \in Files \/ Kids[n] = <<>> => last[n] = first[n]
    /\ \A d \in Folders :
         /\ Kids[d] # <<>> => last[Kids[d][Len(Kids[d])]] = last[d]
         /\ \A n \in Members(Kids[d]) : last[n] <= last[d]
    /\ last[Roots[Len(Roots)]] = Cardinality(Nodes)
    /\ \A list \in Lists : \A i \in 1 .. Len(list) - 1 :
         first[list[i + 1]] = last[list[i]] + 1

Numbers == [Nodes -> 1 .. Cardinality(Nodes)]

\* What was selected and what the folders hold is a tree: it can be numbered
\* depth first.
ASSUME TreeAssumption ==
    /\ IsFiniteSet(Nodes)
    /\ Folders \cap Files = {}
    /\ Roots # <<>> /\ Roots \in Seq(Nodes)
    /\ \A d \in Folders : Kids[d] \in Seq(Nodes \ Members(Roots))
    /\ Nodes = UNION {Members(list) : list \in Lists}
    /\ \E first \in Numbers : GoesDown(first) /\ \E last \in Numbers :
                                                 GoesOn(first, last)

ASSUME DownloadAssumption ==
    /\ \A f \in Files : Size[f] \in Nat
    /\ EarlyReplies \in BOOLEAN /\ LateCancels \in BOOLEAN
    /\ ReopenFails \in BOOLEAN
    /\ MaxOperations \in Nat

VARIABLES
    m_state,        \* FileTransferCore: DOWNLOAD_STATE or NOTHING_STATE
    posted,         \* WM_OPERATION_FINISHED messages for the dialog
    listening,      \* the operation is a listener of the message processor
    m_toCopy,       \* the file or folder in work, NULL when all is done
    children,       \* the folders of the list that have a child list
    m_foldersToCalcSizeLeft,
    m_isTerminating,
    m_fos,          \* local file that is open: its name and chunks, or NULL
    m_fileOffset,   \* chunks that are there before the download continues
    at,             \* what each thread does next in the operation
    frames,         \* how many startDownload() calls it is in
    counted,        \* start(): roots whose size has been asked for
    requests,       \* to the server
    replies,        \* from the server
    m_downloadFile, \* server: the file open for reading and its position
    onDisk,         \* local files and their chunks
    fate,           \* what has become of each file of this operation
    crashed,        \* memory of the list used after it was deleted
    operations      \* downloads started

core == <<m_state, posted, listening>>
walk == <<m_toCopy, children>>
sizes == <<m_foldersToCalcSizeLeft, counted>>
streams == <<m_fos, m_fileOffset, onDisk>>
threads == <<at, frames>>
wire == <<requests, replies, m_downloadFile>>
vars == <<core, walk, sizes, m_isTerminating, streams, threads, wire, fate,
          crashed, operations>>

Ui == "ui"
Core == "core"
Threads == {Ui, Core}
NULL == "null"
Deleted == "deleted"

ASSUME NamesAssumption == NULL \notin Nodes /\ Deleted \notin Nodes

Closed == [file |-> NULL, chunks |-> 0]

Request(kind, node, from) == [kind |-> kind, node |-> node, from |-> from]

Reply(kind, node, chunk) == [kind |-> kind, node |-> node, chunk |-> chunk]

-----------------------------------------------------------------------------
\* FileInfoList: the tree of what is copied, known only as far as its folders
\* have been listed.

IsRoot(n) == n \in Members(Roots)
Parent(n) == CHOOSE d \in Folders : n \in Members(Kids[d])
Siblings(n) == IF IsRoot(n) THEN Roots ELSE Kids[Parent(n)]
Place(n) == CHOOSE i \in DOMAIN Siblings(n) : Siblings(n)[i] = n
HasNext(n) == Place(n) < Len(Siblings(n))
NextOf(n) == Siblings(n)[Place(n) + 1]

\* Where gotoNext() comes to from a file without a child list: to the next one
\* in the list, else by way of the parents, whose child lists are deleted.
Climb[n \in Nodes] ==
    IF HasNext(n) THEN NextOf(n)
    ELSE IF IsRoot(n) THEN NULL
    ELSE Climb[Parent(n)]

Passed[n \in Nodes] ==
    IF HasNext(n) \/ IsRoot(n) THEN {} ELSE {Parent(n)} \cup Passed[Parent(n)]

\* (mutant) The children of a listed folder are passed over.
NextWithoutChildren(lists) == Climb[m_toCopy]

\* (mutant) From the end of a child list back to the folder itself.
NextOrParent(lists) ==
    IF m_toCopy \in lists THEN Kids[m_toCopy][1]
    ELSE IF HasNext(m_toCopy) \/ IsRoot(m_toCopy) THEN Climb[m_toCopy]
    ELSE Parent(m_toCopy)

\* The next one, when these folders have a child list.
NextInList(lists) ==
    IF m_toCopy \in lists THEN Kids[m_toCopy][1] ELSE Climb[m_toCopy]

ListsLeft(lists) ==
    IF m_toCopy \in lists THEN lists ELSE lists \ Passed[m_toCopy]

-----------------------------------------------------------------------------
\* Calls of the operation, as effects on its state.

Go(t, where) == at' = [at EXCEPT ![t] = where]

\* A call that returns: into the startDownload() it came from, or out of the
\* operation.
Back(t) == IF frames[t] > 0 THEN "return" ELSE "idle"

\* killOp(): the list is deleted and the dialog is told.
KillOp ==
    /\ IF m_toCopy = NULL
       THEN crashed' = TRUE /\ UNCHANGED posted
       ELSE posted' = posted + 1 /\ UNCHANGED crashed
    /\ m_toCopy' = NULL
    /\ children' = {}

\* gotoNext(), called by the thread.
GotoNextWith(t, lists) ==
    IF m_toCopy # NULL /\ NextInList(lists) # NULL
    THEN /\ m_toCopy' = NextInList(lists)
         /\ children' = ListsLeft(lists)
         /\ Go(t, "start")
         /\ UNCHANGED <<posted, crashed>>
    ELSE KillOp /\ Go(t, Back(t))

GotoNext(t) == GotoNextWith(t, children)

Send(kind, node, from) ==
    requests' = Append(requests, Request(kind, node, from))

Settle(n, what) == fate' = [fate EXCEPT ![n] = what]

-----------------------------------------------------------------------------
\* The thread of the dialog.

\* The download button: it is enabled while no operation is under way.  The
\* old operation is deleted once the listeners are not in use.
Begin ==
    /\ m_state = "nothing" /\ at[Ui] = "idle" /\ at[Core] = "idle"
    /\ operations < MaxOperations
    /\ operations' = operations + 1
    /\ m_state' = "download" /\ listening' = TRUE
    /\ m_toCopy' = Roots[1] /\ children' = {}
    /\ m_foldersToCalcSizeLeft' = 0 /\ counted' = 0
    /\ m_isTerminating' = FALSE
    /\ crashed' = (m_fos.file = Deleted)
    /\ m_fos' = Closed /\ m_fileOffset' = 0
    /\ fate' = [n \in Nodes |-> "pending"]
    /\ Go(Ui, "count")
    /\ UNCHANGED <<posted, onDisk, frames, wire>>

\* tryCalcInputFilesSize(), one root at a time.
Count ==
    LET root == Roots[counted + 1] IN
    /\ at[Ui] = "count" /\ counted < Len(Roots)
    /\ counted' = counted + 1
    /\ IF root \in Folders
       THEN /\ m_foldersToCalcSizeLeft' = m_foldersToCalcSizeLeft + 1
            /\ Send("size", root, 0)
       ELSE UNCHANGED <<m_foldersToCalcSizeLeft, requests>>
    /\ UNCHANGED <<core, walk, m_isTerminating, streams, threads, replies,
                   m_downloadFile, fate, crashed, operations>>

\* start() goes on at once when there is no folder, and returns otherwise.
Counted ==
    /\ at[Ui] = "count" /\ counted = Len(Roots)
    /\ Go(Ui, IF m_foldersToCalcSizeLeft = 0 THEN "start" ELSE "idle")
    /\ UNCHANGED <<core, walk, sizes, m_isTerminating, streams, frames, wire,
                   fate, crashed, operations>>

\* WM_OPERATION_FINISHED, handled once the core has left the listeners.
OnFinished ==
    /\ at[Ui] = "idle" /\ at[Core] = "idle" /\ posted > 0
    /\ posted' = posted - 1
    /\ listening' = FALSE
    /\ m_state' = "nothing"
    /\ UNCHANGED <<walk, sizes, m_isTerminating, streams, threads, wire, fate,
                   crashed, operations>>

\* (mutant) The cancel button ends the operation at once.
CancelAtOnce ==
    /\ m_state = "download" /\ ~m_isTerminating
    /\ at[Ui] = "idle" /\ at[Core] = "idle"
    /\ m_toCopy # NULL
    /\ m_isTerminating' = TRUE
    /\ KillOp
    /\ UNCHANGED <<m_state, listening, sizes, streams, threads, wire, fate,
                   operations>>

\* The cancel button only sets a flag.
Cancel ==
    /\ m_state = "download" /\ ~m_isTerminating
    /\ at[Ui] = "idle"
    /\ LateCancels \/ at[Core] = "idle"
    /\ m_isTerminating' = TRUE
    /\ UNCHANGED <<core, walk, sizes, streams, threads, wire, fate, crashed,
                   operations>>

-----------------------------------------------------------------------------
\* The walk, in either thread.

\* (mutant) A cancelled call returns without telling anybody.
StartDownloadForgetting(t) ==
    /\ at[t] = "start"
    /\ \/ /\ m_isTerminating
          /\ Go(t, Back(t))
          /\ UNCHANGED <<frames, walk, posted, crashed>>
       \/ /\ ~m_isTerminating
          /\ frames' = [frames EXCEPT ![t] = @ + 1]
          /\ Go(t, "process")
          /\ UNCHANGED <<walk, posted, crashed>>
    /\ UNCHANGED <<m_state, listening, sizes, m_isTerminating, streams, wire,
                   fate, operations>>

\* startDownload() entered.
StartDownload(t) ==
    /\ at[t] = "start"
    /\ \/ /\ m_isTerminating
          /\ KillOp
          /\ Go(t, Back(t))
          /\ UNCHANGED frames
       \/ /\ ~m_isTerminating
          /\ frames' = [frames EXCEPT ![t] = @ + 1]
          /\ Go(t, "process")
          /\ UNCHANGED <<walk, posted, crashed>>
    /\ UNCHANGED <<m_state, listening, sizes, m_isTerminating, streams, wire,
                   fate, operations>>

\* processFolder(): the local folder is made and the remote one listed.
ProcessFolder(t) ==
    /\ at[t] = "process" /\ m_toCopy \in Folders
    /\ \/ /\ Send("list", m_toCopy, 0)
          /\ Go(t, "return")
          /\ UNCHANGED <<walk, posted, fate, crashed>>
       \/ /\ Settle(m_toCopy, "failed")
          /\ GotoNext(t)
          /\ UNCHANGED requests
    /\ UNCHANGED <<m_state, listening, sizes, m_isTerminating, streams, frames,
                   replies, m_downloadFile, operations>>

\* processFile(): a file that is there already is a question to the user, who
\* may also cancel; then it is asked for from the offset on.
ProcessFile(t) ==
    LET n == m_toCopy
        AskFor(offset) ==
            /\ m_fileOffset' = offset
            /\ Send("start", n, offset)
            /\ Go(t, "return")
            /\ UNCHANGED <<walk, posted, m_isTerminating, fate, crashed>>
        Leave == m_fileOffset' = 0 /\ UNCHANGED requests IN
    /\ at[t] = "process" /\ n \in Files
    /\ \/ AskFor(0)
       \/ /\ 0 <= onDisk[n] /\ onDisk[n] < Size[n]
          /\ AskFor(onDisk[n])
       \/ /\ onDisk[n] >= 0
          /\ Leave
          /\ Settle(n, "skipped")
          /\ GotoNext(t)
          /\ UNCHANGED m_isTerminating
       \/ /\ onDisk[n] >= 0 /\ LateCancels
          /\ Leave
          /\ m_isTerminating' = TRUE
          /\ Go(t, "return")
          /\ UNCHANGED <<walk, posted, fate, crashed>>
    /\ UNCHANGED <<m_state, listening, sizes, m_fos, onDisk, frames, replies,
                   m_downloadFile, operations>>

\* A call of startDownload() is about to return and looks at the flag again.
Return(t) ==
    /\ at[t] = "return"
    /\ frames' = [frames EXCEPT ![t] = @ - 1]
    /\ Go(t, IF frames[t] > 1 THEN "return" ELSE "idle")
    /\ IF m_isTerminating THEN KillOp ELSE UNCHANGED <<walk, posted, crashed>>
    /\ UNCHANGED <<m_state, listening, sizes, m_isTerminating, streams, wire,
                   fate, operations>>

-----------------------------------------------------------------------------
\* The thread of the core: one reply at a time, given to the operation if it
\* is still listening.

Hears(kind) ==
    /\ at[Core] = "idle"
    /\ EarlyReplies \/ at[Ui] = "idle"
    /\ listening
    /\ replies # <<>> /\ Head(replies).kind = kind
    /\ replies' = Tail(replies)

OnIgnored ==
    /\ at[Core] = "idle" /\ ~listening /\ replies # <<>>
    /\ replies' = Tail(replies)
    /\ UNCHANGED <<core, walk, sizes, m_isTerminating, streams, threads,
                   requests, m_downloadFile, fate, crashed, operations>>

\* decFoldersToCalcSizeCount()
DecFolders ==
    /\ m_foldersToCalcSizeLeft' = m_foldersToCalcSizeLeft - 1
    /\ IF m_foldersToCalcSizeLeft = 1 THEN Go(Core, "start") ELSE UNCHANGED at
    /\ UNCHANGED <<walk, posted, fate, crashed>>

OnDirSizeReply ==
    /\ Hears("size")
    /\ DecFolders
    /\ UNCHANGED <<m_state, listening, counted, m_isTerminating, streams,
                   frames, requests, m_downloadFile, operations>>

\* (mutant) Each failure is taken for that of a folder's size.
AlwaysCounting == TRUE

StillCounting == m_foldersToCalcSizeLeft > 0

\* A failure is that of a folder's size as long as sizes are asked for, and
\* that of the current file afterwards.
OnLastRequestFailedReply ==
    /\ Hears("failed")
    /\ IF StillCounting
       THEN DecFolders
       ELSE /\ m_toCopy # NULL /\ Settle(m_toCopy, "failed")
            /\ GotoNext(Core)
            /\ UNCHANGED m_foldersToCalcSizeLeft
    /\ UNCHANGED <<m_state, listening, counted, m_isTerminating, streams,
                   frames, requests, m_downloadFile, operations>>

\* The child list of the folder in work, unless it is empty; then gotoNext().
OnFileListReply ==
    LET n == m_toCopy IN
    /\ Hears("list") /\ Head(replies).node = n
    /\ Settle(n, "listed")
    /\ GotoNextWith(Core, IF Kids[n] = <<>> THEN children
                          ELSE children \cup {n})
    /\ UNCHANGED <<m_state, listening, sizes, m_isTerminating, streams, frames,
                   requests, m_downloadFile, operations>>

\* The local file is opened, anew or where it ends.  A stream that was left
\* open is deleted first, and stays so when the new one cannot be opened.
OnDownloadReply ==
    LET n == m_toCopy IN
    /\ Hears("start") /\ Head(replies).node = n
    /\ IF m_fos.file = Deleted
       THEN /\ crashed' = TRUE
            /\ UNCHANGED <<walk, posted, m_fos, onDisk, at, requests, fate>>
       ELSE \/ /\ m_fos' = [file |-> n, chunks |-> m_fileOffset]
               /\ onDisk' = [onDisk EXCEPT ![n] = m_fileOffset]
               /\ Send("data", n, 0)
               /\ UNCHANGED <<walk, posted, at, fate, crashed>>
            \/ /\ m_fos = Closed \/ ReopenFails
               /\ m_fos' = IF m_fos = Closed THEN Closed
                           ELSE [file |-> Deleted, chunks |-> 0]
               /\ Settle(n, "failed")
               /\ GotoNext(Core)
               /\ UNCHANGED <<onDisk, requests>>
    /\ UNCHANGED <<m_state, listening, sizes, m_isTerminating, m_fileOffset,
                   frames, m_downloadFile, operations>>

\* A chunk is written and the next one asked for, unless the user has
\* cancelled or the disk refuses it.
OnDownloadDataReply ==
    LET n == m_fos.file IN
    /\ Hears("data")
    /\ \/ /\ m_isTerminating
          /\ GotoNext(Core)
          /\ UNCHANGED <<m_fos, onDisk, requests, fate>>
       \/ /\ ~m_isTerminating /\ n \in Files
          /\ m_fos' = [m_fos EXCEPT !.chunks = @ + 1]
          /\ onDisk' = [onDisk EXCEPT ![n] = m_fos.chunks + 1]
          /\ Send("data", n, 0)
          /\ UNCHANGED <<walk, posted, at, fate, crashed>>
       \/ /\ ~m_isTerminating
          /\ Settle(m_toCopy, "failed")
          /\ GotoNext(Core)
          /\ UNCHANGED <<m_fos, onDisk, requests>>
    /\ UNCHANGED <<m_state, listening, sizes, m_isTerminating, m_fileOffset,
                   frames, m_downloadFile, operations>>

OnDownloadEndReply ==
    /\ Hears("end")
    /\ m_fos' = Closed
    /\ Settle(m_toCopy, "copied")
    /\ GotoNext(Core)
    /\ UNCHANGED <<m_state, listening, sizes, m_isTerminating, m_fileOffset,
                   onDisk, frames, requests, m_downloadFile, operations>>

-----------------------------------------------------------------------------
\* The server: FileTransferRequestHandler answers one request at a time, with
\* what was asked for or with the failure of it.

Serve(kind, kinds) ==
    /\ requests # <<>> /\ Head(requests).kind = kind
    /\ requests' = Tail(requests)
    /\ \E k \in kinds :
         replies' = Append(replies, Reply(k, Head(requests).node,
                                          m_downloadFile.chunks))
    /\ UNCHANGED <<core, walk, sizes, m_isTerminating, streams, threads, fate,
                   crashed, operations>>

DirSizeRequested ==
    Serve("size", {"size", "failed"}) /\ UNCHANGED m_downloadFile

FileListRequested ==
    Serve("list", {"list", "failed"}) /\ UNCHANGED m_downloadFile

\* (mutant) The download is not continued but begun anew.
OpenedAtZero(request) == [file |-> request.node, chunks |-> 0]

\* What the handler has open once a download has started.
Opened(request) == [file |-> request.node, chunks |-> request.from]

\* (mutant) The request is answered before the file is opened.
AnsweredBeforeOpened ==
    /\ Serve("start", {"start"})
    /\ \E chunks \in {Head(requests).from, -1} :
         m_downloadFile' = [file |-> Head(requests).node, chunks |-> chunks]

\* A download that was broken off is closed first; a file that cannot be
\* opened leaves its name behind and no stream.
DownloadStartRequested ==
    \/ /\ Serve("start", {"start"})
       /\ m_downloadFile' = Opened(Head(requests))
    \/ /\ Serve("start", {"failed"})
       /\ m_downloadFile' = [file |-> Head(requests).node, chunks |-> -1]

HasStream == m_downloadFile.chunks >= 0

\* (mutant) A read that fails is taken for the end of the file.
AtEndOrBroken == TRUE

AtEnd == m_downloadFile.chunks = Size[m_downloadFile.file]

\* The next chunk, the end of the file, or a failure: of the read, or because
\* no file is open.
DownloadDataRequested ==
    \/ /\ m_downloadFile = Closed
       /\ Serve("data", {"failed"}) /\ UNCHANGED m_downloadFile
    \/ /\ m_downloadFile # Closed /\ HasStream /\ ~AtEnd
       /\ Serve("data", {"data"})
       /\ m_downloadFile' = [m_downloadFile EXCEPT !.chunks = @ + 1]
    \/ /\ m_downloadFile # Closed /\ HasStream /\ ~AtEnd
       /\ Serve("data", {"failed"}) /\ UNCHANGED m_downloadFile
    \/ /\ m_downloadFile # Closed /\ HasStream /\ AtEnd
       /\ Serve("data", {"end"})
       /\ m_downloadFile' = Closed

-----------------------------------------------------------------------------
Init ==
    /\ m_state = "nothing" /\ posted = 0 /\ listening = FALSE
    /\ m_toCopy = NULL /\ children = {}
    /\ m_foldersToCalcSizeLeft = 0 /\ counted = 0
    /\ m_isTerminating = FALSE
    /\ m_fos = Closed /\ m_fileOffset = 0
    /\ onDisk \in [Files -> {-1, 1}]
    /\ at = [t \in Threads |-> "idle"] /\ frames = [t \in Threads |-> 0]
    /\ requests = <<>> /\ replies = <<>> /\ m_downloadFile = Closed
    /\ fate = [n \in Nodes |-> "pending"]
    /\ crashed = FALSE /\ operations = 0

Walk(t) ==
    StartDownload(t) \/ ProcessFolder(t) \/ ProcessFile(t) \/ Return(t)

UiStep == Count \/ Counted \/ OnFinished \/ Walk(Ui)

CoreStep ==
    \/ OnDirSizeReply \/ OnLastRequestFailedReply \/ OnFileListReply
    \/ OnDownloadReply \/ OnDownloadDataReply \/ OnDownloadEndReply
    \/ OnIgnored \/ Walk(Core)

ServerStep ==
    \/ DirSizeRequested \/ FileListRequested \/ DownloadStartRequested
    \/ DownloadDataRequested

\* Nothing is known of a viewer that has used memory it does not own.
Next == ~crashed /\ (Begin \/ Cancel \/ UiStep \/ CoreStep \/ ServerStep)

Spec == Init /\ [][Next]_vars

\* Every thread goes on, and the user answers the questions about files.
LiveSpec ==
    /\ Spec
    /\ WF_vars(~crashed /\ UiStep)
    /\ WF_vars(~crashed /\ CoreStep)
    /\ WF_vars(~crashed /\ ServerStep)

-----------------------------------------------------------------------------
Fates == {"pending", "listed", "failed", "skipped", "copied"}

Stages == {"idle", "count", "start", "process", "return"}

\* The types of the state, and that folders are never counted twice.
DownloadTypeOK ==
    /\ m_state \in {"nothing", "download"}
    /\ posted \in 0..1
    /\ listening \in BOOLEAN /\ m_isTerminating \in BOOLEAN
    /\ m_toCopy \in Nodes \cup {NULL} /\ children \subseteq Folders
    /\ m_foldersToCalcSizeLeft \in 0..Len(Roots)
    /\ counted \in 0..Len(Roots)
    /\ m_fos.file \in Files \cup {NULL, Deleted}
    /\ m_fileOffset \in Nat /\ onDisk \in [Files -> Nat \cup {-1}]
    /\ at \in [Threads -> Stages] /\ frames \in [Threads -> 0..Cardinality(Nodes)]
    /\ m_downloadFile.file \in Files \cup {NULL}
    /\ fate \in [Nodes -> Fates]
    /\ crashed \in BOOLEAN /\ operations \in 0..MaxOperations

\* A reply that the operation is about to handle is the one its state waits
\* for: a size while sizes are counted, else the file or folder in work, and
\* of data the very next chunk of the file that is open.  No order of failures,
\* skipped files and cancellations leaves a reply over for another file.
ReplyFits ==
    at[Core] = "idle" /\ at[Ui] = "idle" /\ listening /\ replies # <<>> =>
        LET r == Head(replies) IN
        CASE r.kind = "size" -> m_foldersToCalcSizeLeft > 0
          [] r.kind = "failed" -> \/ m_foldersToCalcSizeLeft > 0
                                  \/ r.node = m_toCopy
          [] r.kind \in {"list", "start"} ->
                r.node = m_toCopy /\ m_foldersToCalcSizeLeft = 0
          [] r.kind = "data" -> /\ m_fos.file = m_toCopy /\ r.node = m_toCopy
                                /\ m_fos.chunks = r.chunk
          [] r.kind = "end" -> m_fos.file = r.node /\ r.node = m_toCopy

\* A file reported as copied is whole on the local disk, also when it was
\* continued or was broken off before.
CopiedIsWhole == \A f \in Files : fate[f] = "copied" => onDisk[f] = Size[f]

\* When a download that was not cancelled ends, each selected file and folder,
\* and each one in a folder that was listed, has been copied, skipped or
\* reported as failed.
NothingLeftOut ==
    posted > 0 /\ ~m_isTerminating =>
        \A n \in Nodes :
            IsRoot(n) \/ fate[Parent(n)] = "listed" => fate[n] # "pending"

\* No file or folder is gone through twice in one download.
ProcessedOnce ==
    \A t \in Threads : at[t] = "process" => fate[m_toCopy] = "pending"

\* The walk over the tree, which goes on from either thread and from within
\* itself, comes to everything that is known of it, and to nothing again.
EachOneOnce == NothingLeftOut /\ ProcessedOnce

\* The list of files is deleted once, and nothing that was deleted is used.
MemoryIsLive == ~crashed

\* The server is never asked for data of a file it could not open: it would
\* read from a stream that does not exist.
StreamWhenRead ==
    requests # <<>> /\ Head(requests).kind = "data" => HasStream

\* Failures and cancellations at either end leave neither of them with what
\* does not exist: the list and the local file, the stream of the server.
NothingDangles == MemoryIsLive /\ StreamWhenRead

\* Every download comes to its end and gives the dialog back, whatever fails.
DownloadEnds == m_state = "download" ~> m_state = "nothing"
=============================================================================
