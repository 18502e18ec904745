------------------------------ MODULE MailCache ------------------------------
(***************************************************************************)
(* One mail folder as the server has it, as ImapCache keeps it on disk and *)
(* as the user interface shows it.  The process thread of ImapManager      *)
(* calls Imap, which selects the folder, clears the cache when the folder  *)
(* has a new UID validity, fetches and stores; the cache thread answers    *)
(* the same requests from the cache; the user interface merges the answers *)
(* of both.                                                                *)
(*                                                                         *)
(* A message is told by its uid and by the UID validity it was numbered    *)
(* under.  A row of the cache or of the view is that validity; the number  *)
(* Absent stands for a row that does not exist.                            *)
(***************************************************************************)
EXTENDS Naturals, FiniteSets

CONSTANTS
  MaxUid,        \* bound: uids that the server assigns under one validity
  MaxValidity,   \* bound: UID validities that the folder has
  MaxAsked,      \* bound: requests and actions that wait for a thread
  MaxMishaps,    \* bound: failing commands and ends of the program
  UserActions    \* what the user does

ASSUME BoundsAssumption ==
  /\ MaxUid \in Nat /\ MaxValidity \in Nat \ {0}
  /\ MaxAsked \in Nat /\ MaxMishaps \in Nat

ASSUME UserActionsAssumption ==
  UserActions \subseteq {"uids", "headers", "bodys", "trash"}

Uids == 1 .. MaxUid
Absent == 0
Validity == 1 .. MaxValidity
Rows == [Uids -> Validity \cup {Absent}]
NoRows == [u \in Uids |-> Absent]
Message == Validity \X Uids

Kinds == {"headers", "bodys"}

(* ImapManager::Request and Action, with m_TryCount; "idle" is the request *)
(* that ProcessIdle() performs by itself.                                  *)
Request ==
  [op : {"uids", "idle", "headers", "bodys", "trash"},
   uids : SUBSET Uids, tries : 0 .. 2]

NewRequest(op, uids) == [op |-> op, uids |-> uids, tries |-> 0]
NoRequest == NewRequest("idle", {})

VARIABLES
  server,      \* the folder: validity, uids, \Deleted flags, next uid
  trash,       \* messages in the trash folder of the server
  db,          \* ImapCache: validity, uids, headers and bodys of the folder
  copyToTrash, \* the setting copy_to_trash
  up,          \* the connection works
  selected,    \* m_SelectedFolder is the folder
  invalid,     \* m_UidInvalidFolders has the folder
  pc,          \* where the process thread is
  resume,      \* where SelectFolder() returns to
  cur,         \* the request it performs
  ok,          \* rv of its action
  isEmpty,     \* m_SelectedFolderIsEmpty, while it fetches uids
  told,        \* m_UidInvalid of its response
  got,         \* uids of its response
  rows,        \* headers or bodys of its response
  doomed,      \* delUidList
  reader,      \* the cache thread: what it has read for which request
  asked,       \* requests and actions for the process thread
  cached,      \* m_CacheRequests
  view,        \* m_Uids, m_Headers of the folder, and what was requested
  torn,        \* history: the clearing of the cache was cut short
  untold,      \* history: a report of the new validity went with a failure
  late,        \* history: old rows came after the report
  binned,      \* history: messages that the user put into the trash
  lost,        \* history: those of them that were expunged without a copy
  unsafe,      \* history: messages marked without a copy or by mistake
  mishaps      \* failing commands and ends of the program so far

answerVars == <<told, got, rows>>
threadVars == <<pc, resume, cur, ok, isEmpty, doomed, answerVars>>
sessionVars == <<up, selected, invalid>>
uiVars == <<view, asked, cached, reader>>
history == <<torn, untold, late, binned, lost, unsafe>>
vars == <<server, trash, db, copyToTrash, sessionVars, threadVars, uiVars,
          history, mishaps>>

BlankView == [uids |-> {}, headers |-> NoRows, requestedUids |-> FALSE,
              requestedHeaders |-> {}, requestedBodys |-> {}]
BlankCache ==
  [validity |-> Absent, uids |-> {}, headers |-> NoRows, bodys |-> NoRows]

NoReader == [busy |-> FALSE, request |-> NoRequest, uids |-> {}, rows |-> NoRows]

Init ==
  /\ \E n \in 0 .. MaxUid :
       server = [validity |-> 1, uids |-> 1 .. n, flagged |-> {}, next |-> n + 1]
  /\ trash = {}
  /\ db = BlankCache
  /\ copyToTrash \in BOOLEAN
  /\ up = TRUE /\ selected = FALSE /\ invalid = FALSE
  /\ pc = "idle" /\ resume = "fetch" /\ cur = NoRequest /\ ok = TRUE
  /\ isEmpty = FALSE /\ doomed = {} /\ told = FALSE /\ got = {} /\ rows = NoRows
  /\ reader = NoReader /\ asked = {} /\ cached = {} /\ view = BlankView
  /\ torn = FALSE /\ untold = FALSE /\ late = FALSE
  /\ binned = {} /\ lost = {} /\ unsafe = {}
  /\ mishaps = 0

-----------------------------------------------------------------------------
(* The server and its other clients. *)

ServerStep ==
  UNCHANGED <<trash, db, copyToTrash, sessionVars, threadVars, uiVars, history,
              mishaps>>

Arrive ==
  /\ server.next <= MaxUid
  /\ server' = [server EXCEPT !.uids = @ \cup {server.next}, !.next = @ + 1]
  /\ ServerStep

Expunged(u) ==
  /\ u \in server.uids
  /\ server' = [server EXCEPT !.uids = @ \ {u}, !.flagged = @ \ {u}]
  /\ ServerStep

(* The folder gets a new validity, and its messages get new uids.  That    *)
(* does not happen to a folder while it is selected.                       *)
Renumber ==
  /\ ~selected
  /\ server.validity < MaxValidity
  /\ \E n \in 0 .. MaxUid :
       server' = [validity |-> server.validity + 1, uids |-> 1 .. n,
                  flagged |-> {}, next |-> n + 1]
  /\ ServerStep

-----------------------------------------------------------------------------
(* What the server answers to the process thread. *)

At(label) == pc = label

Returned(label) == pc' = label /\ UNCHANGED <<up, mishaps>>

(* The thread has nothing in hand.                                         *)
HandsFree ==
  /\ pc' = "idle" /\ resume' = "fetch" /\ cur' = NoRequest /\ ok' = TRUE
  /\ isEmpty' = FALSE /\ doomed' = {}
  /\ told' = FALSE /\ got' = {} /\ rows' = NoRows

(* A command is refused, or the connection is lost.                        *)
CommandFails ==
  \/ ~up /\ UNCHANGED <<up, mishaps>>
  \/ up /\ mishaps < MaxMishaps /\ mishaps' = mishaps + 1 /\ up' \in BOOLEAN

(* Mutant: the tries are counted down, without an end. *)
RetriedDown ==
  IF cur.op = "idle" THEN {}
  ELSE IF ~up' THEN {cur}
  ELSE {[cur EXCEPT !.tries = @ - 1]}

(* Process() when a request has failed: it is put back without a count if  *)
(* the connection is lost, else up to two times; the last response says    *)
(* that it failed, and the user interface takes nothing from it.           *)
Retried ==
  IF cur.op = "idle" THEN {}
  ELSE IF ~up' THEN {cur}
  ELSE IF cur.tries < 2 THEN {[cur EXCEPT !.tries = @ + 1]}
  ELSE {}

RequestFails ==
  /\ CommandFails
  /\ asked' = asked \cup Retried
  /\ HandsFree

(* ... and when an action has: it is given up if the connection is lost.   *)
ActionRetried ==
  IF up /\ cur.tries < 2 THEN {[cur EXCEPT !.tries = @ + 1]} ELSE {}

-----------------------------------------------------------------------------
(* The process thread takes something to do; actions come first.           *)

IsAction(r) == r.op = "trash"

OfKind(kind) == IF kind = "headers" THEN db.headers ELSE db.bodys

CachedRows(r) ==
  [u \in Uids |->
     IF r.op \in Kinds /\ u \in r.uids THEN OfKind(r.op)[u] ELSE Absent]

Forced(r) == r.op \in {"uids", "idle"}

(* GetHeaders() and GetBodys() answer from the cache if it has all; else a *)
(* folder is selected, anew for its uids, otherwise if it is not already.  *)
Begin(r) ==
  /\ cur' = r
  /\ ok' = TRUE
  /\ told' = FALSE /\ got' = {} /\ rows' = CachedRows(r)
  /\ resume' = CASE r.op # "trash" -> "fetch"
                 [] r.op = "trash" /\ copyToTrash -> "copy"
                 [] OTHER -> "move"
  /\ pc' = CASE r.op \in Kinds /\ (\A u \in r.uids : rows'[u] # Absent) -> "answer"
             [] ~Forced(r) /\ selected -> resume'
             [] OTHER -> "select"
  /\ UNCHANGED <<server, trash, db, copyToTrash, sessionVars, isEmpty, doomed,
                 view, cached, reader, history, mishaps>>

Take ==
  /\ At("idle") /\ up
  /\ \E r \in asked :
       /\ IsAction(r) \/ \A q \in asked : ~IsAction(q)
       /\ asked' = asked \ {r}
       /\ Begin(r)

(* ProcessIdle() fetches the uids before it waits.                         *)
TakeIdle ==
  /\ At("idle") /\ up
  /\ asked = {}
  /\ Begin(NoRequest)
  /\ UNCHANGED asked

SessionStep ==
  UNCHANGED <<server, trash, db, copyToTrash, threadVars, uiVars, history,
              mishaps>>

(* CheckConnectivityAndReconnect(): Logout() and Login() forget the        *)
(* selected folder, not the folders with a new validity.                   *)
Reconnect ==
  /\ At("idle") /\ ~up
  /\ up' = TRUE
  /\ selected' = FALSE
  /\ UNCHANGED invalid
  /\ SessionStep

(* It works on another folder.                                             *)
SelectOther ==
  /\ At("idle") /\ up
  /\ selected
  /\ selected' = FALSE
  /\ UNCHANGED <<up, invalid>>
  /\ SessionStep

-----------------------------------------------------------------------------
(* Imap::SelectFolder(): CheckUidValidity() stores the new validity, then  *)
(* ClearFolder() empties the databases one by one, under one lock.  (The   *)
(* folder lists that are written twice afterwards, to make the search      *)
(* index drop the folder, clear it once more.)                             *)

CacheStep ==
  UNCHANGED <<server, trash, copyToTrash, cur, resume, ok, answerVars, uiVars,
              mishaps>>

ClearStep ==
  /\ UNCHANGED <<isEmpty, doomed>>
  /\ CacheStep

CachedUidValid == db.validity = server.validity

Select ==
  /\ At("select")
  /\ up
  /\ selected' = TRUE
  /\ isEmpty' = (Forced(cur) /\ server.uids = {})
  /\ db' = [db EXCEPT !.validity = server.validity]
  /\ pc' = IF CachedUidValid THEN resume ELSE "clearHeaders"
  /\ UNCHANGED <<up, invalid, doomed, history>>
  /\ CacheStep

(* The copy of an action may fail here: its deletion follows all the same. *)
SelectFails ==
  /\ At("select")
  /\ IF cur.op = "trash"
     THEN /\ CommandFails
          /\ ok' = FALSE
          /\ pc' = CASE resume = "copy" -> "select"
                     [] resume = "store" -> "expungeOnly"
                     [] OTHER -> "result"
          /\ resume' = IF resume = "copy" THEN "store" ELSE resume
          /\ UNCHANGED <<asked, cur, isEmpty, doomed, answerVars>>
     ELSE RequestFails
  /\ UNCHANGED <<server, trash, db, copyToTrash, selected, invalid, view, cached,
                 reader, history>>

(* Mutant: the headers are left alone. *)
ClearHeadersNot ==
  /\ At("clearHeaders")
  /\ pc' = "clearBodys"
  /\ UNCHANGED <<db, sessionVars, history>>
  /\ ClearStep

ClearHeaders ==
  /\ At("clearHeaders")
  /\ db' = [db EXCEPT !.headers = NoRows]
  /\ pc' = "clearBodys"
  /\ UNCHANGED <<sessionVars, history>>
  /\ ClearStep

ClearBodys ==
  /\ At("clearBodys")
  /\ db' = [db EXCEPT !.bodys = NoRows]
  /\ pc' = "clearUids"
  /\ UNCHANGED <<sessionVars, history>>
  /\ ClearStep

(* After the clearing the folder is put down as invalid.                   *)
ClearUids ==
  /\ At("clearUids")
  /\ db' = [db EXCEPT !.uids = {}]
  /\ pc' = resume
  /\ invalid' = TRUE
  /\ torn' = FALSE
  /\ UNCHANGED <<up, selected, untold, late, binned, lost, unsafe>>
  /\ ClearStep

(* Labels at which the process thread holds m_CacheMutex.                  *)
CacheLocked == pc \in {"clearBodys", "clearUids", "dropBodys", "dropHeaders"}

Clearing == pc \in {"clearHeaders", "clearBodys", "clearUids"}

-----------------------------------------------------------------------------
(* Imap::GetUids() after the selection, and ImapCache::SetUids().          *)

FetchStep ==
  UNCHANGED <<server, trash, copyToTrash, selected, view, cached, reader, torn,
              late, binned, lost, unsafe>>

FetchSucceeds ==
  UNCHANGED <<up, cur, resume, ok, isEmpty, doomed, asked, untold, mishaps>>

(* Mutant: the report is kept until the fetch has succeeded. *)
FetchUidsUnreported ==
  /\ At("fetch") /\ Forced(cur)
  /\ isEmpty \/ up
  /\ got' = IF isEmpty THEN {} ELSE server.uids
  /\ invalid' = FALSE
  /\ pc' = "setUids"
  /\ UNCHANGED <<db, told, rows>>
  /\ FetchSucceeds
  /\ FetchStep

FetchUids ==
  /\ At("fetch") /\ Forced(cur)
  /\ isEmpty \/ up
  /\ got' = IF isEmpty THEN {} ELSE server.uids
  /\ told' = invalid
  /\ invalid' = FALSE
  /\ pc' = "setUids"
  /\ UNCHANGED <<db, rows>>
  /\ FetchSucceeds
  /\ FetchStep

(* The folder is no longer invalid, but the response is dropped.           *)
FetchUidsFails ==
  /\ At("fetch") /\ Forced(cur)
  /\ ~isEmpty
  /\ RequestFails
  /\ invalid' = FALSE
  /\ untold' = (untold \/ invalid)
  /\ UNCHANGED db
  /\ FetchStep

SetUids ==
  /\ At("setUids")
  /\ db' = [db EXCEPT !.uids = got]
  /\ doomed' = db.uids \ got
  /\ pc' = IF db.uids \subseteq got THEN "answer" ELSE "dropBodys"
  /\ UNCHANGED <<sessionVars, isEmpty, history>>
  /\ CacheStep

Without(r, uids) == [u \in Uids |-> IF u \in uids THEN Absent ELSE r[u]]

DropBodys ==
  /\ At("dropBodys")
  /\ db' = [db EXCEPT !.bodys = Without(@, doomed)]
  /\ pc' = "dropHeaders"
  /\ UNCHANGED <<sessionVars, isEmpty, doomed, history>>
  /\ CacheStep

DropHeaders ==
  /\ At("dropHeaders")
  /\ db' = [db EXCEPT !.headers = Without(@, doomed)]
  /\ doomed' = {}
  /\ pc' = "answer"
  /\ UNCHANGED <<sessionVars, isEmpty, history>>
  /\ CacheStep

-----------------------------------------------------------------------------
(* Imap::GetHeaders() and GetBodys() fetch what the cache does not have.   *)

(* The response mixes what was cached with what is fetched.                *)
Fetched == {u \in cur.uids \cap server.uids : rows[u] = Absent}

Filled(r) == [u \in Uids |-> IF u \in Fetched THEN server.validity ELSE r[u]]

FetchRows ==
  /\ At("fetch") /\ cur.op \in Kinds
  /\ up
  /\ rows' = Filled(rows)
  /\ db' = IF cur.op = "headers" THEN [db EXCEPT !.headers = Filled(@)]
                                 ELSE [db EXCEPT !.bodys = Filled(@)]
  /\ pc' = "answer"
  /\ UNCHANGED <<invalid, told, got>>
  /\ FetchSucceeds
  /\ FetchStep

FetchRowsFails ==
  /\ At("fetch") /\ cur.op \in Kinds
  /\ RequestFails
  /\ UNCHANGED <<db, invalid, untold>>
  /\ FetchStep

-----------------------------------------------------------------------------
(* Actions that put messages into the trash folder: a move on the server,  *)
(* or a copy, then the deletion of Imap::DeleteMessages().                 *)

ActionStep ==
  UNCHANGED <<db, copyToTrash, selected, invalid, resume, cur, isEmpty, doomed,
              answerVars, asked, view, cached, reader, torn, untold, late,
              binned>>

Here(uids) == {<<server.validity, u>> : u \in uids \cap server.uids}

(* Mutant: the copy goes to another folder. *)
TrashedElsewhere(uids) == UNCHANGED trash

Trashed(uids) == trash' = trash \cup Here(uids)

Erased(uids) ==
  /\ server' = [server EXCEPT !.uids = @ \ uids, !.flagged = @ \ uids]
  /\ lost' = lost \cup ((Here(uids) \cap binned) \ trash')

Move ==
  /\ At("move")
  /\ up
  /\ Trashed(cur.uids) /\ Erased(cur.uids)
  /\ Returned("deleteUids")
  /\ UNCHANGED <<ok, unsafe>>
  /\ ActionStep

(* The connection may be lost after the server has done its part.          *)
MoveFails ==
  /\ At("move")
  /\ CommandFails
  /\ \/ UNCHANGED <<server, trash, lost>>
     \/ up /\ ~up' /\ Trashed(cur.uids) /\ Erased(cur.uids)
  /\ ok' = FALSE
  /\ pc' = "result"
  /\ UNCHANGED unsafe
  /\ ActionStep

Copy ==
  /\ At("copy")
  /\ up
  /\ Trashed(cur.uids)
  /\ Returned("store")
  /\ UNCHANGED <<server, ok, lost, unsafe>>
  /\ ActionStep

(* CopyMessages() has failed: DeleteMessages() is called all the same.     *)
CopyFails ==
  /\ At("copy")
  /\ CommandFails
  /\ UNCHANGED trash \/ (up /\ ~up' /\ Trashed(cur.uids))
  /\ ok' = FALSE
  /\ pc' = "store"
  /\ UNCHANGED <<server, lost, unsafe>>
  /\ ActionStep

(* SetFlagDeleted(); it lets go of the lock before the expunge.  A message *)
(* that nobody chose may have the uid since the folder was renumbered.     *)
Marked ==
  /\ server' = [server EXCEPT !.flagged = @ \cup (cur.uids \cap server.uids)]
  /\ unsafe' = unsafe \cup (IF ok THEN Here(cur.uids) \ binned ELSE Here(cur.uids))

Store ==
  /\ At("store")
  /\ up
  /\ Marked
  /\ Returned("expunge")
  /\ UNCHANGED <<trash, ok, lost>>
  /\ ActionStep

StoreFails ==
  /\ At("store")
  /\ CommandFails
  /\ UNCHANGED <<server, unsafe>> \/ (up /\ ~up' /\ Marked)
  /\ ok' = FALSE
  /\ pc' = "expungeOnly"
  /\ UNCHANGED <<trash, lost>>
  /\ ActionStep

(* The expunge takes every message with the flag, in the folder that is    *)
(* selected.  The cache follows if DeleteMessages() succeeds, whatever has *)
(* become of the copy.                                                     *)
Expunge ==
  IF selected THEN Erased(server.flagged) ELSE UNCHANGED <<server, lost>>

ExpungeFlagged ==
  /\ pc \in {"expunge", "expungeOnly"}
  /\ up
  /\ UNCHANGED trash
  /\ Expunge
  /\ Returned(IF At("expunge") THEN "deleteUids" ELSE "result")
  /\ UNCHANGED <<ok, unsafe>>
  /\ ActionStep

ExpungeFails ==
  /\ pc \in {"expunge", "expungeOnly"}
  /\ CommandFails
  /\ UNCHANGED trash
  /\ UNCHANGED <<server, lost>> \/ (up /\ ~up' /\ Expunge)
  /\ ok' = FALSE
  /\ pc' = "result"
  /\ UNCHANGED unsafe
  /\ ActionStep

(* ImapCache::DeleteMessages(): three databases, three locks.              *)
DeleteUids ==
  /\ At("deleteUids")
  /\ db' = [db EXCEPT !.uids = @ \ cur.uids]
  /\ pc' = "deleteHeaders"
  /\ UNCHANGED <<sessionVars, isEmpty, doomed, history>>
  /\ CacheStep

DeleteHeaders ==
  /\ At("deleteHeaders")
  /\ db' = [db EXCEPT !.headers = Without(@, cur.uids)]
  /\ pc' = "deleteBodys"
  /\ UNCHANGED <<sessionVars, isEmpty, doomed, history>>
  /\ CacheStep

DeleteBodys ==
  /\ At("deleteBodys")
  /\ db' = [db EXCEPT !.bodys = Without(@, cur.uids)]
  /\ pc' = "result"
  /\ UNCHANGED <<sessionVars, isEmpty, doomed, history>>
  /\ CacheStep

(* Process() after PerformAction(): a failed action is tried again.        *)
Result ==
  /\ At("result")
  /\ asked' = asked \cup (IF ok THEN {} ELSE ActionRetried)
  /\ HandsFree
  /\ UNCHANGED <<server, trash, db, copyToTrash, sessionVars, view, cached, reader,
                 history, mishaps>>

-----------------------------------------------------------------------------
(* Ui::ResponseHandler(), under m_Mutex, on the thread that answers.       *)

(* Mutant: nothing is dropped for a new validity. *)
ShowUidsKept(uids, uidInvalid) ==
  view' = [view EXCEPT !.uids = uids,
                       !.headers = Without(@, view.uids \ uids)]

(* InvalidateUidCache() comes first; headers of uids that are gone go.     *)
ShowUids(uids, uidInvalid) ==
  LET old == IF uidInvalid
             THEN [BlankView EXCEPT !.requestedUids = view.requestedUids]
             ELSE view
  IN  view' = [old EXCEPT !.uids = uids,
                          !.headers = Without(@, old.uids \ uids)]

(* A header that is there already is not replaced.                         *)
ShowHeaders(r) ==
  view' = [view EXCEPT !.headers =
             [u \in Uids |-> IF @[u] = Absent THEN r[u] ELSE @[u]]]

AnswerStep ==
  UNCHANGED <<server, trash, db, copyToTrash, sessionVars, asked, torn, binned,
              lost, unsafe, mishaps>>

Answer ==
  /\ At("answer")
  /\ HandsFree
  /\ CASE Forced(cur) -> ShowUids(got, told)
       [] cur.op = "headers" -> ShowHeaders(rows)
       [] OTHER -> UNCHANGED view
  /\ untold' = (untold /\ ~told)
  /\ late' = (late /\ ~told)
  /\ UNCHANGED <<cached, reader>>
  /\ AnswerStep

(* The report of a new validity is on its way to the user interface.       *)
ReportDue == Clearing \/ invalid \/ told

ReaderStep == UNCHANGED <<threadVars, untold>> /\ AnswerStep

CacheRead ==
  /\ ~reader.busy
  /\ ~CacheLocked
  /\ \E r \in cached :
       /\ cached' = cached \ {r}
       /\ reader' = [busy |-> TRUE, request |-> r,
                     uids |-> IF r.op = "uids" THEN db.uids ELSE {},
                     rows |-> CachedRows(r)]
  /\ UNCHANGED <<view, late>>
  /\ ReaderStep

(* A cached answer does not tell of a new validity.                        *)
CacheAnswer ==
  /\ reader.busy
  /\ CASE reader.request.op = "uids" -> ShowUids(reader.uids, FALSE)
       [] reader.request.op = "headers" -> ShowHeaders(reader.rows)
       [] OTHER -> UNCHANGED view
  /\ late' = \/ late
             \/ /\ ~ReportDue
                /\ \E u \in Uids : reader.rows[u] \notin {Absent, db.validity}
  /\ reader' = NoReader
  /\ UNCHANGED cached
  /\ ReaderStep

-----------------------------------------------------------------------------
(* The user interface asks.  A request goes to both threads. *)

UiStep ==
  UNCHANGED <<server, trash, db, copyToTrash, sessionVars, threadVars, reader,
              torn, untold, late, lost, unsafe, mishaps>>

Room == Cardinality(asked) < MaxAsked /\ Cardinality(cached) < MaxAsked

AsyncRequest(r) ==
  /\ Room
  /\ asked' = asked \cup {r}
  /\ cached' = cached \cup {r}

(* DrawMessageList() asks for what it has not asked for before.            *)
AskUids ==
  /\ "uids" \in UserActions
  /\ ~view.requestedUids
  /\ AsyncRequest(NewRequest("uids", {}))
  /\ view' = [view EXCEPT !.requestedUids = TRUE]
  /\ UNCHANGED binned
  /\ UiStep

Missing ==
  {u \in view.uids \ view.requestedHeaders : view.headers[u] = Absent}

AskHeaders ==
  /\ "headers" \in UserActions
  /\ Missing # {}
  /\ AsyncRequest(NewRequest("headers", Missing))
  /\ view' = [view EXCEPT !.requestedHeaders = @ \cup Missing]
  /\ UNCHANGED binned
  /\ UiStep

AskBody(u) ==
  /\ "bodys" \in UserActions
  /\ u \in view.uids \ view.requestedBodys
  /\ view.headers[u] # Absent
  /\ AsyncRequest(NewRequest("bodys", {u}))
  /\ view' = [view EXCEPT !.requestedBodys = @ \cup {u}]
  /\ UNCHANGED binned
  /\ UiStep

(* Ui::MoveMessages() to the trash folder: the message leaves the view     *)
(* before anything has happened to it.                                     *)
MoveToTrash(u) ==
  /\ "trash" \in UserActions
  /\ u \in view.uids
  /\ view.headers[u] # Absent
  /\ Cardinality(asked) < MaxAsked
  /\ asked' = asked \cup {NewRequest("trash", {u})}
  /\ view' = [view EXCEPT !.uids = @ \ {u}, !.headers[u] = Absent,
                          !.requestedUids = FALSE]
  /\ binned' = binned \cup {<<view.headers[u], u>>}
  /\ UNCHANGED cached
  /\ UiStep

-----------------------------------------------------------------------------
(* The program ends, by a crash or at its user's will, and starts again:   *)
(* what is left is the cache.                                              *)
Restart ==
  /\ mishaps < MaxMishaps
  /\ mishaps' = mishaps + 1
  /\ torn' = (torn \/ Clearing)
  /\ untold' = FALSE /\ late' = FALSE
  /\ HandsFree
  /\ up' = TRUE /\ selected' = FALSE /\ invalid' = FALSE
  /\ view' = BlankView /\ asked' = {} /\ cached' = {} /\ reader' = NoReader
  /\ UNCHANGED <<server, trash, db, copyToTrash, binned, lost, unsafe>>

ProcessThread ==
  \/ Take \/ TakeIdle \/ Reconnect
  \/ Select \/ SelectFails
  \/ ClearHeaders \/ ClearBodys \/ ClearUids
  \/ FetchUids \/ FetchUidsFails \/ SetUids \/ DropBodys \/ DropHeaders
  \/ FetchRows \/ FetchRowsFails
  \/ Move \/ MoveFails \/ Copy \/ CopyFails \/ Store \/ StoreFails
  \/ ExpungeFlagged \/ ExpungeFails
  \/ DeleteUids \/ DeleteHeaders \/ DeleteBodys \/ Result
  \/ Answer

CacheThread == CacheRead \/ CacheAnswer

Environment ==
  \/ Arrive \/ Renumber \/ \E u \in Uids : Expunged(u)
  \/ SelectOther

UserInterface ==
  \/ AskUids \/ AskHeaders
  \/ \E u \in Uids : AskBody(u) \/ MoveToTrash(u)

Next == ProcessThread \/ CacheThread \/ Environment \/ UserInterface \/ Restart

Spec == Init /\ [][Next]_vars

(* The threads run; nobody has to ask, to send mail or to end the program. *)
Fairness == WF_vars(ProcessThread) /\ WF_vars(CacheThread)

FairSpec == Spec /\ Fairness

-----------------------------------------------------------------------------
FlagsOK ==
  /\ copyToTrash \in BOOLEAN
  /\ up \in BOOLEAN /\ selected \in BOOLEAN /\ invalid \in BOOLEAN
  /\ ok \in BOOLEAN /\ isEmpty \in BOOLEAN /\ told \in BOOLEAN
  /\ torn \in BOOLEAN /\ untold \in BOOLEAN /\ late \in BOOLEAN

FolderOK ==
  /\ server \in [validity : Validity, uids : SUBSET Uids,
                 flagged : SUBSET Uids, next : 1 .. MaxUid + 1]
  /\ db \in [validity : Validity \cup {Absent}, uids : SUBSET Uids,
             headers : Rows, bodys : Rows]

ThreadOK ==
  /\ pc \in {"idle", "select", "clearHeaders", "clearBodys", "clearUids",
            "fetch", "setUids", "dropBodys", "dropHeaders", "answer", "move",
            "copy", "store", "expunge", "expungeOnly", "deleteUids",
            "deleteHeaders", "deleteBodys", "result"}
  /\ resume \in {"fetch", "move", "copy", "store"}
  /\ cur \in Request
  /\ got \in SUBSET Uids /\ rows \in Rows /\ doomed \in SUBSET Uids
  /\ mishaps \in 0 .. MaxMishaps

UiOK ==
  /\ reader \in [busy : BOOLEAN, request : Request, uids : SUBSET Uids,
                 rows : Rows]
  /\ asked \in SUBSET Request /\ cached \in SUBSET Request
  /\ view \in [uids : SUBSET Uids, headers : Rows, requestedUids : BOOLEAN,
               requestedHeaders : SUBSET Uids, requestedBodys : SUBSET Uids]

HistoryOK ==
  /\ trash \in SUBSET Message /\ binned \in SUBSET Message
  /\ lost \in SUBSET Message /\ unsafe \in SUBSET Message

(* Every variable has its type; in particular a request is tried at most   *)
(* three times, and no row is of a validity that the folder never had.     *)
TypeOK == FlagsOK /\ FolderOK /\ ThreadOK /\ UiOK /\ HistoryOK

Current(r) == \A u \in Uids : r[u] \in {Absent, db.validity}

(* The cache never has a message of an earlier validity beside those of    *)
(* the present one, whatever is fetched, deleted and read meanwhile and    *)
(* whenever the program ends, but for one window: it ends between the      *)
(* storing of a new validity and the end of the clearing.                  *)
CacheCurrent ==
  ~Clearing /\ ~torn => Current(db.headers) /\ Current(db.bodys)

(* The user interface shows a header of an earlier validity only as long   *)
(* as it is going to be told to drop it, but for three windows: the        *)
(* clearing was cut short, the request that carried the report failed, or  *)
(* the cache thread answered with what it had read before the clearing.    *)
ViewWillBeTold ==
  Current(view.headers) \/ ReportDue \/ torn \/ untold \/ late

(* A message that the user put into the trash is in the trash when it has  *)
(* left the folder, through retries, lost connections and new validities,  *)
(* unless it was marked after its copy had failed (imapmanager.cpp:988     *)
(* goes on), or chosen when another message had its uid.                   *)
LostOnlyIfUnsafe == lost \subseteq unsafe

(* Headers of an earlier validity disappear from the view in the end.      *)
EventuallyCurrent ==
  ~Current(view.headers) ~> (Current(view.headers) \/ torn \/ untold \/ late)

=============================================================================
