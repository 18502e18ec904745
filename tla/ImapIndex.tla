------------------------------- MODULE ImapIndex -------------------------------
(***************************************************************************)
(* The search index of one mail folder and the cache that it mirrors       *)
(* (imapindex.cpp, searchengine.cpp, and the calls of imap.cpp).           *)
(*                                                                         *)
(* The process thread of ImapManager changes the cache on disk and then    *)
(* tells the index.  The index thread works while the process thread is    *)
(* idle: it takes what it was told from a queue, or, at the first idle     *)
(* period of a session, compares the whole index with the whole cache.     *)
(* The index has two Xapian handles: what is written through one is seen   *)
(* by the other, and survives the process, only after a commit.            *)
(*                                                                         *)
(* A document is told by the uid of its message and holds the validity     *)
(* under which the indexed body was fetched.  Other folders exist.         *)
(***************************************************************************)
EXTENDS Naturals, Sequences, FiniteSets

CONSTANTS
  MaxUid,        \* uids of the folder
  MaxValidity,   \* times the folder is numbered anew, plus one
  MaxQueue,      \* notifications in the queue before the process thread goes idle
  MaxRestarts    \* times the program ends, by crash or by quitting

ASSUME BoundsAssumption ==
  /\ MaxUid \in Nat
  /\ MaxValidity \in Nat \ {0}
  /\ MaxQueue \in Nat
  /\ MaxRestarts \in Nat

Uids == 1 .. MaxUid
NoDoc == 0
Docs == NoDoc .. MaxValidity

(* What the index is told.  SetFolders stands for the documents of this    *)
(* folder that the new folder list keeps: all of them, or none.            *)
Kinds == {"SetFolders", "SetUids", "DeleteUids", "SetBodys"}
Notify == [kind : Kinds, uids : SUBSET Uids]
Notification(kind, uids) == [kind |-> kind, uids |-> uids]

VARIABLES
  server,      \* uids of the messages that the server has
  valid,       \* the uid validity of the folder, on the server and in the cache
  given,       \* the highest uid given so far under that validity
  uids,        \* cache: the uids of the folder
  headers,     \* cache: uids with a header
  bodys,       \* cache: uids with a body
  todo,        \* notifications that the process thread is about to give
  idle,        \* m_IsIdle
  syncDone,    \* m_SyncDone
  queue,       \* m_Queue
  running,     \* m_Running
  pc,          \* where the index thread is
  hand,        \* the notification it handles
  last,        \* isQueueEmpty: the queue was empty when it took that
  listed,      \* docIds of HandleSyncEnqueue
  found,       \* uids, then bodyUids, of HandleSyncEnqueue
  content,     \* the validity of the body that AddMessage() has read, or NoDoc
  docs,        \* documents as the writable database has them
  committed,   \* documents as of the last commit
  passed,      \* uids that were passed over in this session (see IndexAgrees)
  outlived,    \* uids whose document has outlived its validity (see IndexAgrees)
  restarts     \* times the program has ended

serverVars == <<server, valid, given>>
cacheVars == <<uids, headers, bodys>>
processVars == <<todo, idle>>
syncVars == <<listed, found>>
threadVars == <<pc, hand, last, content>>
indexVars == <<docs, committed>>
ghostVars == <<passed, outlived>>
vars == <<serverVars, cacheVars, processVars, syncDone, queue, running,
          syncVars, threadVars, indexVars, ghostVars, restarts>>

NoNotify == Notification("SetUids", {})

Init ==
  /\ server = {} /\ valid = 1 /\ given = 0
  /\ uids = {} /\ headers = {} /\ bodys = {}
  /\ todo = <<>> /\ idle = FALSE
  /\ syncDone = FALSE /\ queue = <<>> /\ running = TRUE
  /\ pc = "wait" /\ hand = NoNotify /\ last = FALSE /\ content = NoDoc
  /\ listed = {} /\ found = {}
  /\ docs = [u \in Uids |-> NoDoc]
  /\ committed = [u \in Uids |-> NoDoc]
  /\ passed = {} /\ outlived = {} /\ restarts = 0

-----------------------------------------------------------------------------
(* The server.                                                             *)

NewMail ==
  /\ given < MaxUid
  /\ given' = given + 1
  /\ server' = server \cup {given + 1}
  /\ UNCHANGED <<valid, cacheVars, processVars, syncDone, queue, running,
                 syncVars, threadVars, indexVars, ghostVars, restarts>>

(* Another client deletes a message.                                       *)
MailVanishes(u) ==
  /\ u \in server
  /\ server' = server \ {u}
  /\ UNCHANGED <<valid, given, cacheVars, processVars, syncDone, queue, running,
                 syncVars, threadVars, indexVars, ghostVars, restarts>>

-----------------------------------------------------------------------------
(* The process thread.  Each operation changes the cache and then, in a    *)
(* step of its own, gives its notifications.                               *)

Active == running /\ ~idle /\ todo = <<>> /\ Len(queue) < MaxQueue

(* Imap::GetUids: the cache drops what it has of uids that are gone.       *)
FetchUids ==
  /\ Active
  /\ uids' = server
  /\ headers' = headers \cap server
  /\ bodys' = bodys \cap server
  /\ todo' = <<Notification("SetUids", server)>>
  /\ UNCHANGED <<serverVars, idle, syncDone, queue, running, syncVars,
                 threadVars, indexVars, ghostVars, restarts>>

(* Imap::GetHeaders tells the index nothing.                               *)
FetchHeaders(wanted) ==
  /\ Active
  /\ headers' = headers \cup (wanted \cap server)
  /\ UNCHANGED <<serverVars, uids, bodys, processVars, syncDone, queue, running,
                 syncVars, threadVars, indexVars, ghostVars, restarts>>

(* Imap::GetBodys fetches what is not cached.                              *)
FetchBodys(wanted) ==
  LET fetched == (wanted \ bodys) \cap server IN
  /\ Active
  /\ fetched # {}
  /\ bodys' = bodys \cup fetched
  /\ todo' = <<Notification("SetBodys", fetched)>>
  /\ UNCHANGED <<serverVars, uids, headers, idle, syncDone, queue, running,
                 syncVars, threadVars, indexVars, ghostVars, restarts>>

(* Imap::MoveMessages, Imap::DeleteMessages.                               *)
RemoveMessages(gone) ==
  /\ Active
  /\ server' = server \ gone
  /\ uids' = uids \ gone
  /\ headers' = headers \ gone
  /\ bodys' = bodys \ gone
  /\ todo' = <<Notification("DeleteUids", gone)>>
  /\ UNCHANGED <<valid, given, idle, syncDone, queue, running, syncVars,
                 threadVars, indexVars, ghostVars, restarts>>

(* Imap::SelectFolder finds that the server has numbered the folder anew:  *)
(* the folder is taken from the folder list and put back.                  *)
Renumber ==
  /\ Active
  /\ valid < MaxValidity
  /\ valid' = valid + 1
  /\ given' = Cardinality(server)
  /\ server' = 1 .. Cardinality(server)
  /\ uids' = {} /\ headers' = {} /\ bodys' = {}
  /\ todo' = <<Notification("SetFolders", {}), Notification("SetFolders", Uids)>>
  /\ UNCHANGED <<idle, syncDone, queue, running, syncVars, threadVars,
                 indexVars, ghostVars, restarts>>

(* ImapIndex::SetFolders is always queued; SetUids, DeleteMessages and     *)
(* SetBodys are dropped before the first synchronisation.                  *)
Push ==
  /\ todo # <<>>
  /\ todo' = Tail(todo)
  /\ queue' = IF syncDone \/ Head(todo).kind = "SetFolders"
              THEN Append(queue, Head(todo))
              ELSE queue
  /\ UNCHANGED <<serverVars, cacheVars, idle, syncDone, running, syncVars,
                 threadVars, indexVars, ghostVars, restarts>>

(* ImapIndex::NotifyIdle(true), by IdleStart and ProcessIdleOffline.       *)
GoIdle ==
  /\ running /\ ~idle /\ todo = <<>>
  /\ idle' = TRUE
  /\ UNCHANGED <<serverVars, cacheVars, todo, syncDone, queue, running, syncVars,
                 threadVars, indexVars, ghostVars, restarts>>

(* ImapIndex::NotifyIdle(false), by IdleDone and ProcessIdleOffline.       *)
LeaveIdle ==
  /\ running /\ idle
  /\ idle' = FALSE
  /\ UNCHANGED <<serverVars, cacheVars, todo, syncDone, queue, running, syncVars,
                 threadVars, indexVars, ghostVars, restarts>>

-----------------------------------------------------------------------------
(* The index thread: the first synchronisation.                            *)

StartSync ==
  /\ pc = "wait" /\ running /\ idle /\ ~syncDone
  /\ syncDone' = TRUE
  /\ pc' = "list"
  /\ UNCHANGED <<serverVars, cacheVars, processVars, queue, running, syncVars,
                 hand, last, content, indexVars, ghostVars, restarts>>

(* SearchEngine::List opens the last commit.                               *)
ListDocs ==
  /\ pc = "list"
  /\ listed' = {u \in Uids : committed[u] # NoDoc}
  /\ pc' = "uids"
  /\ UNCHANGED <<serverVars, cacheVars, processVars, syncDone, queue, running,
                 found, hand, last, content, indexVars, ghostVars, restarts>>

ReadUids ==
  /\ pc = "uids"
  /\ found' = uids
  /\ pc' = "bodys"
  /\ UNCHANGED <<serverVars, cacheVars, processVars, syncDone, queue, running,
                 listed, hand, last, content, indexVars, ghostVars, restarts>>

ReadBodyUids ==
  /\ pc = "bodys"
  /\ found' = found \cap bodys
  /\ pc' = "enqueue"
  /\ UNCHANGED <<serverVars, cacheVars, processVars, syncDone, queue, running,
                 listed, hand, last, content, indexVars, ghostVars, restarts>>

(* A notification of a kind, unless it would be about nothing.             *)
IfAny(kind, s) == IF s = {} THEN <<>> ELSE <<Notification(kind, s)>>

(* Mutant: what was told during the synchronisation is taken for covered.  *)
EnqueueSyncFresh ==
  /\ pc = "enqueue"
  /\ queue' = IfAny("SetBodys", found \ listed) \o IfAny("DeleteUids", listed \ found)
  /\ passed' = passed \cup {u \in listed : docs[u] # valid}
  /\ listed' = {} /\ found' = {}
  /\ pc' = "wait"
  /\ UNCHANGED <<serverVars, cacheVars, processVars, syncDone, running,
                 hand, last, content, indexVars, outlived, restarts>>

(* The snapshot may show a document that is about to be removed.           *)
EnqueueSync ==
  /\ pc = "enqueue"
  /\ queue' = queue \o IfAny("SetBodys", found \ listed)
                    \o IfAny("DeleteUids", listed \ found)
  /\ passed' = passed \cup {u \in listed : docs[u] # valid}
  /\ listed' = {} /\ found' = {}
  /\ pc' = "wait"
  /\ UNCHANGED <<serverVars, cacheVars, processVars, syncDone, running,
                 hand, last, content, indexVars, outlived, restarts>>

-----------------------------------------------------------------------------
(* The index thread: notifications.                                        *)

(* Mutant: off by one, the last notification waits for company.            *)
TakeNotifyOfSeveral ==
  /\ pc = "wait" /\ running /\ idle /\ syncDone
  /\ Len(queue) > 1
  /\ hand' = Head(queue)
  /\ queue' = Tail(queue)
  /\ last' = (Tail(queue) = <<>>)
  /\ pc' = "handle"
  /\ UNCHANGED <<serverVars, cacheVars, processVars, syncDone, running, syncVars,
                 content, indexVars, ghostVars, restarts>>

TakeNotify ==
  /\ pc = "wait" /\ running /\ idle /\ syncDone
  /\ queue # <<>>
  /\ hand' = Head(queue)
  /\ queue' = Tail(queue)
  /\ last' = (Tail(queue) = <<>>)
  /\ pc' = "handle"
  /\ UNCHANGED <<serverVars, cacheVars, processVars, syncDone, running, syncVars,
                 content, indexVars, ghostVars, restarts>>

(* The documents without those that List() shows and that are not kept.    *)
KeepOnly(kept) ==
  [u \in Uids |-> IF committed[u] # NoDoc /\ u \notin kept THEN NoDoc ELSE docs[u]]

(* A document that List() does not show yet outlives the folder.           *)
HandleSetFolders ==
  /\ pc = "handle" /\ hand.kind = "SetFolders"
  /\ docs' = KeepOnly(hand.uids)
  /\ outlived' = outlived \cup {u \in Uids \ hand.uids : docs'[u] # NoDoc}
  /\ pc' = "commit"
  /\ UNCHANGED <<serverVars, cacheVars, processVars, syncDone, queue, running,
                 syncVars, hand, last, content, committed, passed, restarts>>

(* An empty set of uids is taken for a notification of another kind.       *)
HandleSetUids ==
  /\ pc = "handle" /\ hand.kind = "SetUids"
  /\ docs' = IF hand.uids = {} THEN docs ELSE KeepOnly(hand.uids)
  /\ pc' = "commit"
  /\ UNCHANGED <<serverVars, cacheVars, processVars, syncDone, queue, running,
                 syncVars, hand, last, content, committed, ghostVars, restarts>>

HandleDeleteUids ==
  /\ pc = "handle" /\ hand.kind = "DeleteUids"
  /\ docs' = [u \in Uids |-> IF u \in hand.uids THEN NoDoc ELSE docs[u]]
  /\ pc' = "commit"
  /\ UNCHANGED <<serverVars, cacheVars, processVars, syncDone, queue, running,
                 syncVars, hand, last, content, committed, ghostVars, restarts>>

(* The uid that AddMessage() is called with: they come in ascending order. *)
Current == CHOOSE u \in hand.uids : \A v \in hand.uids : u <= v

(* Mutant: the loop is tested before the uid is taken out.                 *)
NextUidOnce ==
  /\ hand' = [hand EXCEPT !.uids = @ \ {Current}]
  /\ pc' = IF hand.uids = {} THEN "commit" ELSE "handle"

(* The loop over SetBodys goes on to the next uid, or ends.                *)
NextUid ==
  /\ hand' = [hand EXCEPT !.uids = @ \ {Current}]
  /\ pc' = IF hand.uids = {Current} THEN "commit" ELSE "handle"

(* SearchEngine::Exists looks at the last commit too: it may show a        *)
(* document that has been removed since, or one that will be removed.      *)
Exists ==
  /\ pc = "handle" /\ hand.kind = "SetBodys"
  /\ committed[Current] # NoDoc
  /\ NextUid
  /\ passed' = IF docs[Current] = valid THEN passed ELSE passed \cup {Current}
  /\ UNCHANGED <<serverVars, cacheVars, processVars, syncDone, queue, running,
                 syncVars, last, content, indexVars, outlived, restarts>>

ReadBody ==
  /\ pc = "handle" /\ hand.kind = "SetBodys"
  /\ committed[Current] = NoDoc
  /\ content' = IF Current \in bodys THEN valid ELSE NoDoc
  /\ pc' = "header"
  /\ UNCHANGED <<serverVars, cacheVars, processVars, syncDone, queue, running,
                 syncVars, hand, last, indexVars, ghostVars, restarts>>

(* Without its header a message is not indexed.                            *)
AddMessage ==
  LET complete == content # NoDoc /\ Current \in headers IN
  /\ pc = "header"
  /\ docs' = IF complete THEN [docs EXCEPT ![Current] = content] ELSE docs
  /\ passed' = IF content # NoDoc /\ ~complete THEN passed \cup {Current} ELSE passed
  /\ NextUid
  /\ content' = NoDoc
  /\ UNCHANGED <<serverVars, cacheVars, processVars, syncDone, queue, running,
                 syncVars, last, committed, outlived, restarts>>

(* HandleCommit: when the queue was empty, or five seconds have passed.    *)
Commit ==
  /\ pc = "commit"
  /\ committed' = docs
  /\ pc' = "wait"
  /\ hand' = NoNotify
  /\ UNCHANGED <<serverVars, cacheVars, processVars, syncDone, queue, running,
                 syncVars, last, content, docs, ghostVars, restarts>>

CommitLater ==
  /\ pc = "commit" /\ ~last
  /\ pc' = "wait"
  /\ hand' = NoNotify
  /\ UNCHANGED <<serverVars, cacheVars, processVars, syncDone, queue, running,
                 syncVars, last, content, indexVars, ghostVars, restarts>>

-----------------------------------------------------------------------------
(* The end of the program and its next start.                              *)

(* The process thread has ended; ~ImapIndex stops the index thread.        *)
Quit ==
  /\ running /\ todo = <<>>
  /\ restarts < MaxRestarts
  /\ running' = FALSE
  /\ idle' = FALSE
  /\ UNCHANGED <<serverVars, cacheVars, todo, syncDone, queue, syncVars,
                 threadVars, indexVars, ghostVars, restarts>>

(* Memory is lost, files are kept.                                         *)
LoseMemory ==
  /\ todo' = <<>> /\ idle' = FALSE
  /\ syncDone' = FALSE /\ queue' = <<>> /\ running' = FALSE
  /\ pc' = "off" /\ hand' = NoNotify /\ last' = FALSE /\ content' = NoDoc
  /\ listed' = {} /\ found' = {}
  /\ docs' = committed'
  /\ restarts' = restarts + 1

(* The thread leaves its loop, with the queue as it is, and commits.       *)
Exit ==
  /\ pc = "wait" /\ ~running
  /\ committed' = docs
  /\ LoseMemory
  /\ UNCHANGED <<serverVars, cacheVars, ghostVars>>

Crash ==
  /\ pc # "off"
  /\ restarts < MaxRestarts
  /\ UNCHANGED committed
  /\ LoseMemory
  /\ UNCHANGED <<serverVars, cacheVars, ghostVars>>

Start ==
  /\ pc = "off"
  /\ running' = TRUE
  /\ pc' = "wait"
  /\ passed' = {}
  /\ outlived' = {u \in Uids : committed[u] \notin {NoDoc, valid}}
  /\ UNCHANGED <<serverVars, cacheVars, processVars, syncDone, queue, syncVars,
                 hand, last, content, indexVars, restarts>>

-----------------------------------------------------------------------------

Server == NewMail \/ \E u \in Uids : MailVanishes(u)

ProcessThread ==
  \/ FetchUids
  \/ \E wanted \in SUBSET uids \ {{}} :
       FetchHeaders(wanted) \/ FetchBodys(wanted) \/ RemoveMessages(wanted)
  \/ Renumber
  \/ Push
  \/ GoIdle
  \/ LeaveIdle

Synchronise == ListDocs \/ ReadUids \/ ReadBodyUids \/ EnqueueSync

Handle ==
  \/ HandleSetFolders \/ HandleSetUids \/ HandleDeleteUids
  \/ Exists \/ ReadBody \/ AddMessage
  \/ Commit \/ CommitLater

IndexThread == StartSync \/ Synchronise \/ TakeNotify \/ Handle \/ Exit

Next == Server \/ ProcessThread \/ IndexThread \/ Quit \/ Crash \/ Start

Spec == Init /\ [][Next]_vars

(* The threads run; the user and the server leave the program alone now    *)
(* and then, idle periods are long enough for the index thread to see, and *)
(* five seconds pass.                                                      *)
FairSpec ==
  /\ Spec
  /\ WF_vars(Push)
  /\ SF_vars(GoIdle)
  /\ SF_vars(StartSync)
  /\ SF_vars(TakeNotify)
  /\ SF_vars(Commit)
  /\ WF_vars(Synchronise \/ Handle \/ Exit)

-----------------------------------------------------------------------------

TypeOK ==
  /\ server \subseteq Uids
  /\ valid \in 1 .. MaxValidity
  /\ given \in 0 .. MaxUid
  /\ uids \subseteq Uids
  /\ headers \subseteq Uids
  /\ bodys \subseteq Uids
  /\ todo \in Seq(Notify)
  /\ idle \in BOOLEAN
  /\ syncDone \in BOOLEAN
  /\ queue \in Seq(Notify)
  /\ running \in BOOLEAN
  /\ pc \in {"wait", "list", "uids", "bodys", "enqueue", "handle", "header",
             "commit", "off"}
  /\ hand \in Notify
  /\ (pc = "header" \/ (pc = "handle" /\ hand.kind = "SetBodys")) => hand.uids # {}
  /\ last \in BOOLEAN
  /\ listed \subseteq Uids
  /\ found \subseteq Uids
  /\ content \in Docs
  /\ docs \in [Uids -> Docs]
  /\ committed \in [Uids -> Docs]
  /\ passed \subseteq Uids
  /\ outlived \subseteq Uids
  /\ restarts \in 0 .. MaxRestarts

(* Nothing is left to do for the index.                                    *)
AtRest == running /\ pc = "wait" /\ syncDone /\ queue = <<>> /\ todo = <<>>

(* When the index is at rest it agrees with the cache: a search finds      *)
(* every cached message, and does not take it for another one that had its *)
(* uid before.  Two kinds of messages are excepted.  Those that were       *)
(* passed over: their header was not cached yet, or the last commit still  *)
(* showed a document that had been, or was to be, removed.  And those in   *)
(* whose place a document outlived its numbering: it had not been          *)
(* committed when the folder left the index, or the program ended before   *)
(* it was removed.  Dropping what comes before the synchronisation,        *)
(* crashes, and quitting with a queue that is not empty lose nothing.      *)
IndexAgrees ==
  AtRest =>
    /\ \A u \in bodys \cap headers :
         u \in passed \cup outlived \/ committed[u] = valid
    /\ \A u \in headers : u \in outlived \/ committed[u] \in {NoDoc, valid}

(* A cached message is searchable in the end, with the same exceptions,    *)
(* as long as the program runs and the message is cached.                  *)
EventuallyFound ==
  \A u \in Uids :
    (running /\ u \in bodys \cap headers)
      ~> (committed[u] = valid \/ u \notin bodys \/ ~running
            \/ u \in passed \cup outlived)

=============================================================================
