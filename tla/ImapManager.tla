----------------------------- MODULE ImapManager -----------------------------
(***************************************************************************)
(* The network side of ImapManager: the threads that submit requests,      *)
(* prefetch requests, actions and server searches, the process thread that *)
(* serves them over one IMAP connection, and the destructor that stops it. *)
(*                                                                         *)
(* One label of pc is one stretch of Process() between two points where    *)
(* another thread can interfere: taking or releasing m_QueueMutex,         *)
(* blocking in select(), reading an atomic flag that another thread        *)
(* writes, or a call to the server.  At the labels of QueueLocked the      *)
(* process thread holds m_QueueMutex.  A call to the server ends in a      *)
(* nondeterministic outcome; the data it carries is left out.  A local of  *)
(* Process() has its initial value wherever it is not in scope.            *)
(***************************************************************************)
EXTENDS Integers, Sequences

CONSTANTS
  Items,         \* everything the callers ever submit, each of them once
  NoItem,        \* no item in hand
  QueueOf,       \* the queue an item belongs to, by its type
  Connect,       \* m_Connect: FALSE when started with --offline
  OAuth,         \* Auth::IsOAuthEnabled()
  MaxLosses,     \* bound: how often the connection is found lost
  MaxRefreshes   \* bound: how often the access token is found expired

(* m_SearchRequests, m_Actions, m_Requests and the two levels of           *)
(* m_PrefetchRequests the callers use (current view before full sync).     *)
Queues == {"search", "action", "request", "view", "full"}
Prefetch == {"view", "full"}

ASSUME ItemsAssumption ==
  /\ NoItem \notin Items
  /\ QueueOf \in [Items -> Queues]

ASSUME ModeAssumption ==
  /\ Connect \in BOOLEAN
  /\ OAuth \in BOOLEAN

ASSUME BoundsAssumption ==
  /\ MaxLosses \in Nat
  /\ MaxRefreshes \in Nat

VARIABLES
  queue,          \* the queues, front first
  pipe,           \* bytes waiting in m_Pipe
  tries,          \* m_TryCount of each item
  running,        \* m_Running
  connecting,     \* m_Connecting
  onceConnected,  \* m_OnceConnected
  caller,         \* how far the call that submits an item has come
  dtor,           \* where the destructor is
  pc,             \* where the process thread is
  cur,            \* the item the process thread has popped
  retry,          \* cur goes back to its queue
  isConnected,    \* isConnected of the processing loop
  authRefresh,    \* authRefreshNeeded
  idleRv,         \* idleRv
  selrv,          \* result of the last select()
  wasEmpty,       \* isQueueEmpty
  answers,        \* history: the results reported for each item
  attempts,       \* history: how often each item was tried on the server
  cleared,        \* history: items the destructor removed from the queues
  losses,         \* how often the connection was found lost
  refreshes       \* how often a token refresh was found due

local   == <<cur, retry, isConnected, authRefresh, idleRv, selrv, wasEmpty>>
history == <<answers, attempts, cleared, losses>>
vars == <<queue, pipe, tries, running, connecting, onceConnected, caller,
          dtor, pc, local, history, refreshes>>

QueueLocked == pc \in {"outer", "search", "action", "request", "prefetch"}
(* Mutant: the emptiness test forgets m_Requests. *)
AllEmptyButRequests == \A q \in Queues \ {"request"} : queue[q] = <<>>
AllEmpty == \A q \in Queues : queue[q] = <<>>

PushFront(i) == [queue EXCEPT ![QueueOf[i]] = <<i>> \o @]
PopFront(q) == [queue EXCEPT ![q] = Tail(@)]
Queued(i) == \E k \in 1 .. Len(queue[QueueOf[i]]) : queue[QueueOf[i]][k] = i

(* Mutant: every signal writes a byte. *)
PipeWriteAlways == pipe' = pipe + 1

(* Bail out if the pipe is already signalled, else write one byte. *)
PipeWriteOne == pipe' = IF pipe > 0 THEN pipe ELSE 1
PipeReadAll == pipe' = 0

(* AuthRefreshNeeded(): any time the token may turn out to be expired. *)
AuthRefreshNeeded ==
  \E due \in BOOLEAN :
    /\ due => Connect /\ OAuth /\ refreshes < MaxRefreshes
    /\ authRefresh' = due
    /\ refreshes' = IF due THEN refreshes + 1 ELSE refreshes

Init ==
  /\ queue = [q \in Queues |-> <<>>]
  /\ pipe = 0
  /\ tries = [i \in Items |-> 0]
  /\ running = TRUE
  /\ connecting = Connect
  /\ onceConnected = FALSE
  /\ caller = [i \in Items |-> "new"]
  /\ dtor = "alive"
  /\ pc = IF Connect THEN "login" ELSE "top"
  /\ cur = NoItem
  /\ retry = FALSE
  /\ isConnected = TRUE
  /\ authRefresh = FALSE
  /\ idleRv = TRUE
  /\ selrv = 1
  /\ wasEmpty = TRUE
  /\ answers = [i \in Items |-> <<>>]
  /\ attempts = [i \in Items |-> 0]
  /\ cleared = {}
  /\ losses = 0
  /\ refreshes = 0

-----------------------------------------------------------------------------
(* AsyncRequest, PrefetchRequest, AsyncAction and AsyncSearch run in the   *)
(* user interface thread and in the threads of the response handlers.      *)

(* Mutant: only m_Connecting decides. *)
AskConnectingOnly(i) ==
  /\ caller[i] = "new"
  /\ caller' = [caller EXCEPT ![i] = IF connecting THEN "permitted" ELSE "refused"]
  /\ UNCHANGED <<queue, pipe, tries, running, connecting, onceConnected, dtor,
                 pc, local, history, refreshes>>

(* The left operand of m_Connecting || m_OnceConnected. *)
AskConnecting(i) ==
  /\ caller[i] = "new"
  /\ caller' = [caller EXCEPT ![i] = IF connecting THEN "permitted" ELSE "asking"]
  /\ UNCHANGED <<queue, pipe, tries, running, connecting, onceConnected, dtor,
                 pc, local, history, refreshes>>

(* The right operand; the item is ignored when both are false. *)
AskOnceConnected(i) ==
  /\ caller[i] = "asking"
  /\ caller' = [caller EXCEPT ![i] = IF onceConnected THEN "permitted" ELSE "refused"]
  /\ UNCHANGED <<queue, pipe, tries, running, connecting, onceConnected, dtor,
                 pc, local, history, refreshes>>

(* push_front and PipeWriteOne under m_QueueMutex. *)
Push(i) ==
  /\ caller[i] = "permitted"
  /\ ~QueueLocked
  /\ caller' = [caller EXCEPT ![i] = "pushed"]
  /\ queue' = PushFront(i)
  /\ PipeWriteOne
  /\ UNCHANGED <<tries, running, connecting, onceConnected, dtor, pc, local,
                 history, refreshes>>

-----------------------------------------------------------------------------
(* Process(): the initial login. *)

Login ==
  /\ pc = "login"
  /\ pc' = "loggedIn"
  /\ onceConnected' \in BOOLEAN
  /\ UNCHANGED <<queue, pipe, tries, running, connecting, caller, dtor, local,
                 history, refreshes>>

EndLogin ==
  /\ pc = "loggedIn"
  /\ pc' = "top"
  /\ connecting' = FALSE
  /\ UNCHANGED <<queue, pipe, tries, running, onceConnected, caller, dtor,
                 local, history, refreshes>>

(* Process(): the head of the main loop, up to the wake-up. *)

Top ==
  /\ pc = "top"
  /\ pc' = IF running THEN "look" ELSE "exit"
  /\ UNCHANGED <<queue, pipe, tries, running, connecting, onceConnected,
                 caller, dtor, local, history, refreshes>>

LookAtQueues ==
  /\ pc = "look"
  /\ wasEmpty' = AllEmpty
  /\ pc' = IF AllEmpty \/ ~onceConnected THEN "select" ELSE "woken"
  /\ UNCHANGED <<queue, pipe, tries, running, connecting, onceConnected,
                 caller, dtor, cur, retry, isConnected, authRefresh, idleRv,
                 selrv, history, refreshes>>

(* select() on the pipe for 15 seconds: readable, timeout, or a signal. *)
Select ==
  /\ pc = "select"
  /\ pc' = "woken"
  /\ \/ pipe > 0 /\ selrv' = 1
     \/ pipe = 0 /\ selrv' = 0
     \/ selrv' = -1
  /\ UNCHANGED <<queue, pipe, tries, running, connecting, onceConnected,
                 caller, dtor, cur, retry, isConnected, authRefresh, idleRv,
                 wasEmpty, history, refreshes>>

(* Mutant: the pipe is read right after select(), before m_QueueMutex. *)
WokenDraining ==
  /\ pc = "woken"
  /\ AuthRefreshNeeded
  /\ PipeReadAll
  /\ pc' = IF ~running \/ authRefresh' THEN "after"
           ELSE IF selrv = 0 THEN IF onceConnected THEN "idle" ELSE "offline"
           ELSE IF selrv > 0 \/ ~wasEmpty THEN "drain"
           ELSE "after"
  /\ selrv' = 1 /\ wasEmpty' = TRUE
  /\ UNCHANGED <<queue, tries, running, connecting, onceConnected, caller,
                 dtor, cur, retry, isConnected, idleRv, history>>

Woken ==
  /\ pc = "woken"
  /\ AuthRefreshNeeded
  /\ pc' = IF ~running \/ authRefresh' THEN "after"
           ELSE IF selrv = 0 THEN IF onceConnected THEN "idle" ELSE "offline"
           ELSE IF selrv > 0 \/ ~wasEmpty THEN "drain"
           ELSE "after"
  /\ selrv' = 1 /\ wasEmpty' = TRUE
  /\ UNCHANGED <<queue, pipe, tries, running, connecting, onceConnected,
                 caller, dtor, cur, retry, isConnected, idleRv, history>>

-----------------------------------------------------------------------------
(* ProcessIdle() and ProcessIdleOffline(). *)

IdleStep ==
  UNCHANGED <<queue, pipe, tries, running, connecting, onceConnected, caller,
              dtor, cur, retry, isConnected, authRefresh, wasEmpty, history,
              refreshes>>

(* Folder info, folder list, uids and flags are fetched before idling, and *)
(* again when the folder info has changed.                                 *)
IdleFetch ==
  /\ pc \in {"idle", "idleCheck"}
  /\ \/ pc' = "idleStart" /\ UNCHANGED idleRv
     \/ pc' = "after" /\ idleRv' = FALSE
  /\ UNCHANGED selrv
  /\ IdleStep

IdleStart ==
  /\ pc = "idleStart"
  /\ \/ ~running /\ pc' = "after" /\ UNCHANGED idleRv
     \/ running /\ pc' = "idleWait" /\ UNCHANGED idleRv
     \/ running /\ pc' = "after" /\ idleRv' = FALSE
  /\ UNCHANGED selrv
  /\ IdleStep

(* select() on the pipe and the IMAP socket: selrv 1 stands for a readable *)
(* pipe (a signal leaves the descriptor set, so it reads the same), selrv  *)
(* 0 for the timeout and for a notification of the server.                 *)
IdleWait ==
  /\ pc = "idleWait"
  /\ pc' = "idleDone"
  /\ \/ selrv' = 1
     \/ pipe = 0 /\ selrv' = 0
  /\ UNCHANGED idleRv
  /\ IdleStep

IdleDone ==
  /\ pc = "idleDone"
  /\ \/ pc' = "after" /\ idleRv' = FALSE
     \/ /\ pc' = IF ~running \/ selrv = 1 THEN "after" ELSE "idleCheck"
        /\ UNCHANGED idleRv
  /\ selrv' = 1
  /\ IdleStep

IdleOffline ==
  /\ \/ pc = "offline" /\ pc' = IF running THEN "offlineWait" ELSE "after"
     \/ pc = "offlineWait" /\ pc' = "after"
     \/ pc = "offlineWait" /\ pipe = 0 /\ pc' = "offline"
  /\ UNCHANGED <<idleRv, selrv>>
  /\ IdleStep

-----------------------------------------------------------------------------
(* Process(): serving the queues. *)

(* m_QueueMutex.lock() and PipeReadAll. *)
Drain ==
  /\ pc = "drain"
  /\ pc' = "outer"
  /\ PipeReadAll
  /\ UNCHANGED <<queue, tries, running, connecting, onceConnected, caller,
                 dtor, local, history, refreshes>>

Outer ==
  /\ pc = "outer"
  /\ IF running /\ ~authRefresh /\ onceConnected /\ ~AllEmpty
     THEN pc' = "search" /\ isConnected' = TRUE
     ELSE pc' = "after" /\ UNCHANGED isConnected
  /\ UNCHANGED <<queue, pipe, tries, running, connecting, onceConnected,
                 caller, dtor, cur, retry, authRefresh, idleRv, selrv,
                 wasEmpty, history, refreshes>>

MayServe == running /\ isConnected /\ ~authRefresh

Pop(q, next) ==
  /\ cur' = Head(queue[q])
  /\ queue' = PopFront(q)
  /\ pc' = next

Skip(next) == pc' = next /\ UNCHANGED <<cur, queue>>

ServingStep ==
  UNCHANGED <<pipe, tries, running, connecting, onceConnected, caller, dtor,
              isConnected, authRefresh, idleRv, selrv, wasEmpty, history,
              refreshes>>
Serving == ServingStep /\ UNCHANGED retry

NextSearch ==
  /\ pc = "search"
  /\ IF queue["search"] # <<>> /\ MayServe
     THEN Pop("search", "searching")
     ELSE Skip("action")
  /\ Serving

NextAction ==
  /\ pc = "action"
  /\ IF queue["action"] # <<>> /\ MayServe
     THEN Pop("action", "perform")
     ELSE Skip("request")
  /\ Serving

(* When it leaves the request loop the thread drops m_QueueMutex to report *)
(* its status: label "gap".                                                *)
NextRequest ==
  /\ pc = "request"
  /\ IF queue["request"] # <<>> /\ MayServe
     THEN Pop("request", "perform")
     ELSE Skip("gap")
  /\ Serving

Gap ==
  /\ pc = "gap"
  /\ Skip("prefetch")
  /\ Serving

FirstLevel == IF queue["view"] # <<>> THEN "view" ELSE "full"

(* Mutant: the prefetch loop does not look at the other queues. *)
NextPrefetchGreedy ==
  /\ pc = "prefetch"
  /\ IF queue[FirstLevel] # <<>> /\ MayServe
     THEN Pop(FirstLevel, "perform")
     ELSE Skip("served")
  /\ Serving

NextPrefetch ==
  /\ pc = "prefetch"
  /\ IF /\ queue["action"] = <<>> /\ queue["request"] = <<>>
        /\ queue[FirstLevel] # <<>>
        /\ MayServe
     THEN Pop(FirstLevel, "perform")
     ELSE Skip("served")
  /\ Serving

Report(i, result) == answers' = [answers EXCEPT ![i] = Append(@, result)]

(* PerformSearch(): the search handler is called whatever the outcome. *)
PerformSearch ==
  /\ pc = "searching"
  /\ pc' = "search"
  /\ attempts' = [attempts EXCEPT ![cur] = @ + 1]
  /\ \E result \in {"ok", "failed"} : Report(cur, result)
  /\ cur' = NoItem
  /\ UNCHANGED <<queue, pipe, tries, running, connecting, onceConnected,
                 caller, dtor, retry, isConnected, authRefresh, idleRv, selrv,
                 wasEmpty, cleared, losses, refreshes>>

Succeed ==
  /\ Report(cur, "ok")
  /\ retry' = FALSE
  /\ UNCHANGED <<tries, isConnected, losses>>

(* Mutant: requests are given up like actions. *)
FailDisconnectedForAll ==
  /\ losses < MaxLosses
  /\ losses' = losses + 1
  /\ isConnected' = FALSE
  /\ retry' = FALSE
  /\ Report(cur, "failed")
  /\ UNCHANGED tries

(* Failed, and CheckConnectivity() says the connection is lost: an action  *)
(* is given up, a request is kept for after the reconnect.                 *)
FailDisconnected ==
  /\ losses < MaxLosses
  /\ losses' = losses + 1
  /\ isConnected' = FALSE
  /\ retry' = (QueueOf[cur] # "action")
  /\ IF retry' THEN UNCHANGED answers ELSE Report(cur, "failed")
  /\ UNCHANGED tries

(* Mutant: one try too many. *)
FailConnectedOffByOne ==
  /\ retry' = (tries[cur] <= 2)
  /\ IF retry'
     THEN tries' = [tries EXCEPT ![cur] = @ + 1] /\ UNCHANGED answers
     ELSE Report(cur, "failed") /\ UNCHANGED tries
  /\ UNCHANGED <<isConnected, losses>>

(* Mutant: every failed try is reported. *)
FailConnectedReporting ==
  /\ retry' = (tries[cur] < 2)
  /\ tries' = IF retry' THEN [tries EXCEPT ![cur] = @ + 1] ELSE tries
  /\ Report(cur, "failed")
  /\ UNCHANGED <<isConnected, losses>>

(* Failed on a live connection: m_TryCount < 2 means another try. *)
FailConnected ==
  /\ retry' = (tries[cur] < 2)
  /\ IF retry'
     THEN tries' = [tries EXCEPT ![cur] = @ + 1] /\ UNCHANGED answers
     ELSE Report(cur, "failed") /\ UNCHANGED tries
  /\ UNCHANGED <<isConnected, losses>>

(* PerformAction() or PerformRequest(), and what is done about the outcome *)
(* before m_QueueMutex is taken again.                                     *)
Perform ==
  /\ pc = "perform"
  /\ pc' = "requeue"
  /\ attempts' = [attempts EXCEPT ![cur] = @ + 1]
  /\ Succeed \/ FailDisconnected \/ FailConnected
  /\ AuthRefreshNeeded
  /\ UNCHANGED <<queue, pipe, running, connecting, onceConnected, caller,
                 dtor, cur, idleRv, selrv, wasEmpty, cleared>>

LoopOf(i) == IF QueueOf[i] \in Prefetch THEN "prefetch" ELSE QueueOf[i]

(* Mutant: pushed back whether or not it is to be retried. *)
RequeueAlways ==
  /\ pc = "requeue"
  /\ queue' = PushFront(cur)
  /\ cur' = NoItem
  /\ retry' = FALSE
  /\ pc' = LoopOf(cur)
  /\ ServingStep

Requeue ==
  /\ pc = "requeue"
  /\ queue' = IF retry THEN PushFront(cur) ELSE queue
  /\ cur' = NoItem
  /\ retry' = FALSE
  /\ pc' = LoopOf(cur)
  /\ ServingStep

-----------------------------------------------------------------------------
(* CheckConnectivityAndReconnect(). *)

Linking ==
  UNCHANGED <<queue, pipe, tries, running, onceConnected, caller, dtor, cur,
              retry, selrv, wasEmpty, answers, attempts, cleared, refreshes>>

(* After a pass over the queues: reconnect if the connection went away. *)
Served ==
  /\ pc = "served"
  /\ pc' = IF isConnected THEN "outer" ELSE "reconnect"
  /\ connecting' = IF isConnected THEN connecting ELSE TRUE
  /\ UNCHANGED <<isConnected, authRefresh, idleRv, losses>>
  /\ Linking

(* The end of an iteration of the main loop; when it was the idle that     *)
(* failed, the connection is checked first.                                *)
After ==
  /\ pc = "after"
  /\ IF running /\ ~idleRv /\ ~authRefresh
     THEN \/ pc' = "top" /\ UNCHANGED <<connecting, losses>>
          \/ /\ losses < MaxLosses
             /\ losses' = losses + 1
             /\ connecting' = TRUE
             /\ pc' = "reconnect"
     ELSE pc' = "top" /\ UNCHANGED <<connecting, losses>>
  /\ isConnected' = TRUE /\ authRefresh' = FALSE /\ idleRv' = TRUE
  /\ Linking

(* Back to the caller: the processing loop, or the end of the iteration. *)
Return == pc' = IF isConnected THEN "top" ELSE "outer"

(* Mutant: the reconnect loop does not look at m_Running. *)
ReconnectForever ==
  /\ pc = "reconnect"
  /\ pc' = "relogin"
  /\ UNCHANGED <<connecting, isConnected, authRefresh, idleRv, losses>>
  /\ Linking

Reconnect ==
  /\ pc = "reconnect"
  /\ IF running THEN pc' = "relogin" ELSE Return
  /\ UNCHANGED <<connecting, isConnected, authRefresh, idleRv, losses>>
  /\ Linking

ReloginOk ==
  /\ pc = "relogin"
  /\ running
  /\ connecting' = FALSE
  /\ Return
  /\ UNCHANGED <<isConnected, authRefresh, idleRv, losses>>
  /\ Linking

(* Login failed, or succeeded too late; up to 15 seconds of sleep follow. *)
ReloginRetry ==
  /\ pc = "relogin"
  /\ pc' = "reconnect"
  /\ UNCHANGED <<connecting, isConnected, authRefresh, idleRv, losses>>
  /\ Linking

-----------------------------------------------------------------------------
(* The end of Process() and the destructor. *)

(* Mutant: the thread does not take m_ExitedCondMutex to notify. *)
ExitMutexIgnored == FALSE

ExitMutexHeld == dtor \in {"locked", "stopped", "writing", "signalled"}

(* notify_one() under m_ExitedCondMutex; a destructor that waits is woken. *)
Exit ==
  /\ pc = "exit"
  /\ ~ExitMutexHeld
  /\ pc' = "exited"
  /\ dtor' = IF dtor \in {"waiting", "aborting"} THEN "joining" ELSE dtor
  /\ UNCHANGED <<queue, pipe, tries, running, connecting, onceConnected,
                 caller, local, history, refreshes>>

(* m_ExitedCondMutex is taken; the queues are cleared if try_lock gets     *)
(* m_QueueMutex (it may also find it taken by a caller).                   *)
BeginDestroy ==
  /\ dtor = "alive"
  /\ dtor' = "locked"
  /\ \/ /\ ~QueueLocked
        /\ queue' = [q \in Queues |-> <<>>]
        /\ cleared' = cleared \cup {i \in Items : Queued(i)}
     \/ UNCHANGED <<queue, cleared>>
  /\ UNCHANGED <<pipe, tries, running, connecting, onceConnected, caller, pc,
                 local, answers, attempts, losses, refreshes>>

Destroying ==
  UNCHANGED <<queue, tries, connecting, onceConnected, caller, pc, local,
              history, refreshes>>

StopRunning ==
  /\ dtor = "locked"
  /\ dtor' = "stopped"
  /\ running' = FALSE
  /\ UNCHANGED pipe
  /\ Destroying

(* PipeWriteOne, here without m_QueueMutex: its test and its write apart. *)
TestPipe ==
  /\ dtor = "stopped"
  /\ dtor' = IF pipe > 0 THEN "signalled" ELSE "writing"
  /\ UNCHANGED <<running, pipe>>
  /\ Destroying

WritePipe ==
  /\ dtor = "writing"
  /\ dtor' = "signalled"
  /\ pipe' = pipe + 1
  /\ UNCHANGED running
  /\ Destroying

(* wait_for() gives up m_ExitedCondMutex for 3 seconds, after the abort    *)
(* for one more; then the thread is joined whatever it takes.              *)
Wait ==
  /\ \/ dtor = "signalled" /\ dtor' = "waiting"
     \/ dtor = "waiting" /\ dtor' = "aborting"
     \/ dtor = "aborting" /\ dtor' = "joining"
  /\ UNCHANGED <<running, pipe>>
  /\ Destroying

Join ==
  /\ dtor = "joining"
  /\ pc = "exited"
  /\ dtor' = "joined"
  /\ UNCHANGED <<running, pipe>>
  /\ Destroying

-----------------------------------------------------------------------------
Call == \E i \in Items : AskConnecting(i) \/ AskOnceConnected(i) \/ Push(i)

Idle == IdleFetch \/ IdleStart \/ IdleWait \/ IdleDone \/ IdleOffline

Serve ==
  \/ Drain \/ Outer \/ NextSearch \/ NextAction \/ NextRequest \/ Gap
  \/ NextPrefetch \/ PerformSearch \/ Perform \/ Requeue \/ Served

Link == After \/ Reconnect \/ ReloginOk \/ ReloginRetry

Process ==
  Login \/ EndLogin \/ Top \/ LookAtQueues \/ Select \/ Woken \/ Idle \/ Serve
  \/ Link \/ Exit

Destroy ==
  BeginDestroy \/ StopRunning \/ TestPipe \/ WritePipe \/ Wait \/ Join

(* Both threads are done and every call has returned. *)
Terminated ==
  /\ dtor = "joined"
  /\ \A i \in Items : caller[i] \in {"pushed", "refused"}
  /\ UNCHANGED vars

Next == Call \/ Process \/ Destroy \/ Terminated

Spec == Init /\ [][Next]_vars

(* The threads are scheduled, every call to the server returns (libetpan   *)
(* has timeouts), a call that has been permitted goes on to push, and the  *)
(* server accepts a login sooner or later.  Nobody has to submit anything  *)
(* or to destroy the manager, and no wait has to run into its timeout.     *)
Fairness ==
  /\ WF_vars(Process)
  /\ SF_vars(ReloginOk)
  /\ \A i \in Items : SF_vars(Push(i)) /\ WF_vars(AskOnceConnected(i))
  /\ WF_vars(StopRunning \/ TestPipe \/ WritePipe \/ Join)
  /\ WF_vars(dtor = "signalled" /\ Wait)

FairSpec == Spec /\ Fairness

-----------------------------------------------------------------------------
Labels == {"login", "loggedIn", "top", "look", "select", "woken", "idle",
           "idleStart", "idleWait", "idleDone", "idleCheck", "offline",
           "offlineWait", "drain", "outer", "search", "searching", "action",
           "request", "gap", "prefetch", "perform", "requeue", "served",
           "reconnect", "relogin", "after", "exit", "exited"}

InHand == pc \in {"searching", "perform", "requeue"}

DataTypeOK ==
  /\ queue \in [Queues -> Seq(Items)]
  /\ pipe \in 0 .. 2
  /\ tries \in [Items -> 0 .. 2]
  /\ answers \in [Items -> Seq({"ok", "failed"})]
  /\ attempts \in [Items -> Nat]
  /\ cleared \in SUBSET Items
  /\ losses \in 0 .. MaxLosses
  /\ refreshes \in 0 .. MaxRefreshes

FlagsTypeOK ==
  /\ running \in BOOLEAN
  /\ connecting \in BOOLEAN
  /\ onceConnected \in BOOLEAN
  /\ retry \in BOOLEAN
  /\ isConnected \in BOOLEAN
  /\ authRefresh \in BOOLEAN
  /\ idleRv \in BOOLEAN
  /\ wasEmpty \in BOOLEAN

ThreadsTypeOK ==
  /\ caller \in [Items -> {"new", "asking", "permitted", "pushed", "refused"}]
  /\ dtor \in {"alive", "locked", "stopped", "writing", "signalled", "waiting",
               "aborting", "joining", "joined"}
  /\ pc \in Labels
  /\ cur \in Items \cup {NoItem}
  /\ selrv \in {-1, 0, 1}

TypeOK == DataTypeOK /\ FlagsTypeOK /\ ThreadsTypeOK

(* The process thread holds i and has not reported a result for it. *)
Held(i) == cur = i /\ (pc = "requeue" => retry)
Answered(i) == answers[i] # <<>>

(* The queues are worked through with the mutex released around every call *)
(* to the server, a failed item is pushed back afterwards, and the         *)
(* destructor may empty the queues meanwhile.  Through all of it a         *)
(* submitted item is in exactly one place: once in its queue, in the hand  *)
(* of the process thread, answered once, or cleared.                       *)
OnePlace ==
  /\ \A i \in Items :
       /\ caller[i] = "pushed" <=>
            Queued(i) \/ Held(i) \/ Answered(i) \/ i \in cleared
       /\ Queued(i) => ~Held(i) /\ ~Answered(i) /\ i \notin cleared
       /\ Held(i) => ~Answered(i) /\ i \notin cleared
       /\ Answered(i) => Len(answers[i]) = 1 /\ i \notin cleared
  /\ \A q \in Queues : \A k, l \in 1 .. Len(queue[q]) :
       queue[q][k] = queue[q][l] => k = l

(* A single byte stands for everything that was pushed, it is consumed     *)
(* before the queues are worked through, and the destructor tests and      *)
(* writes the pipe without m_QueueMutex.  Still the process thread never   *)
(* sleeps in select() on an empty pipe while, being connected, it has      *)
(* something to serve, or while the destructor has told it to stop.        *)
NoLostWakeup ==
  pc \in {"select", "idleWait", "offlineWait"} /\ pipe = 0 =>
    /\ onceConnected => AllEmpty
    /\ dtor \notin {"signalled", "waiting", "aborting", "joining"}

(* The process thread cannot report its exit before the destructor waits   *)
(* for it: the destructor never sits out its timeouts on a thread that has *)
(* already gone.                                                           *)
NotifyNotMissed ==
  pc = "exited" => dtor \in {"joining", "joined"}

(* Whatever is retried for whatever reason: an action reaches the server   *)
(* at most three times, a search once, and a request three times and once  *)
(* more for each connection loss.                                          *)
AttemptsBounded ==
  \A i \in Items :
    attempts[i] <= CASE QueueOf[i] = "search" -> 1
                     [] QueueOf[i] = "action" -> 3
                     [] OTHER -> 3 + losses

(* A lost connection costs an action its retries but a request nothing: a  *)
(* request is reported failed only after three tries on a live connection. *)
FailureEarned ==
  \A i \in Items :
    answers[i] = <<"failed">> /\ tries[i] < 2 =>
      \/ QueueOf[i] = "search"
      \/ QueueOf[i] = "action" /\ losses > 0

(* The two flags are read one after the other and written by the process   *)
(* thread in between: even so nothing is refused in a session that got     *)
(* connected, reconnects included.                                         *)
RefusedOnlyOffline ==
  (\E i \in Items : caller[i] = "refused") =>
    ~onceConnected /\ pc \notin {"login", "reconnect", "relogin"}

(* A prefetch never starts ahead of a request or an action that waits, and *)
(* never takes the connection while it is known to be lost.                *)
PrefetchYields ==
  [][cur' # cur /\ cur' # NoItem /\ QueueOf[cur'] \in Prefetch
       => /\ queue["action"] = <<>> /\ queue["request"] = <<>>
          /\ isConnected /\ ~connecting]_vars

(* ImapManager is a RequestService. *)
StatusOf(i) ==
  CASE caller[i] \in {"new", "asking", "permitted"} -> "new"
    [] caller[i] = "refused" -> "refused"
    [] i \in cleared -> "dropped"
    [] Answered(i) -> answers[i][Len(answers[i])]
    [] OTHER -> "pending"

Service == INSTANCE RequestService
             WITH status <- [i \in Items |-> StatusOf(i)]

ServiceSpec == Service!Spec

(* What was submitted in a session that got connected is answered, unless  *)
(* the manager is destroyed: no item is starved by the retries of others,  *)
(* by lost connections, by idling or by token refreshes.                   *)
EventuallyAnswered ==
  \A i \in Items :
    (caller[i] = "pushed" /\ onceConnected) ~> (Answered(i) \/ dtor # "alive")

(* The destructor comes to its end from wherever the process thread is. *)
EventuallyJoined == (dtor # "alive") ~> (dtor = "joined")

=============================================================================
